---------------------------- MODULE MCRapFrames ----------------------------
(* Model values and small functions for the runs of RapFrames. *)
EXTENDS RapFrames, TLC

CONSTANTS main, one, many, site1, body

\* one: two parameters and a local; many: more parameters than the stack has slots.
MCArity == [f \in Fun |-> IF f = one THEN 2 ELSE IF f = many THEN 20 ELSE 0]
MCLocals == [f \in Fun |-> IF f = one THEN 1 ELSE 0]

\* What bcgen.rs reserves, and a function that reserves more than there is.
NoReserve == [f \in Fun |-> 0]
SomeReserve == [f \in Fun |-> IF f = one THEN 4 ELSE 0]
=============================================================================
