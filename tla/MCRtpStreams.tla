---------------------------- MODULE MCRtpStreams ----------------------------
(* Small instances of RtpStreams.                                          *)
EXTENDS RtpStreams, TLC

CONSTANTS e1, e2, s1

Symmetry == Permutations({e1, e2})
=============================================================================
