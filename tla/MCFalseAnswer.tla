--------------------------- MODULE MCFalseAnswer ---------------------------
(* Small instances of FalseAnswer: a caller with two ports.                *)
EXTENDS FalseAnswer

CONSTANTS a1, a2, b1, f1, f2
=============================================================================
