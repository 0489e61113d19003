----------------------------- MODULE MCRapHeap -----------------------------
(* Model values and symmetry for the runs of RapHeap. *)
EXTENDS RapHeap, TLC

\* Addresses are compared for equality only.
AddrSymmetry == Permutations(Addr)
=============================================================================
