---------------------------- MODULE MCRapNumbers ----------------------------
(* Integers of four bits, literals of five, and what may be typed, of five. *)
EXTENDS RapNumbers

MCLiterals == 0..(2 * Half)
MCTyped == -(Half + 1)..Half
=============================================================================
