-------------------------- MODULE MCRegistrations --------------------------
(* Small instances of Registrations.                                       *)
EXTENDS Registrations, TLC

CONSTANTS u1, u2, u3, h1
=============================================================================
