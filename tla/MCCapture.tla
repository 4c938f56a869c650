----------------------------- MODULE MCCapture -----------------------------
(* Small instances of Capture.                                             *)
EXTENDS Capture, TLC

CONSTANTS if1, if2

\* One ring is used again, the other not.
TwoAndOne == [i \in Interfaces |-> IF i = if1 THEN 2 ELSE 1]
=============================================================================
