----------------------------- MODULE MCMediaPath -----------------------------
(***************************************************************************)
(* A call, re-negotiated without its caller's media, two interfaces, and   *)
(* frames of every length around the ends of their headers.                *)
(***************************************************************************)
EXTENDS MediaPath

CONSTANTS c1, h1

At(p) == [ip |-> h1, port |-> p]
Caller == [rtp |-> At(1), rtcp |-> Nobody, mux |-> FALSE]
Callee == [rtp |-> At(3), rtcp |-> Nobody, mux |-> TRUE]
HeldDescriptions == {<<Caller, Callee>>, <<Callee>>}

Lengths == {17, 33, 34, 37, 38, 41, 42, 45, 46, 53, 54, 61, 62, 64, 66, 86, 100, 1600}
MCFrames ==
    [tagged : BOOLEAN, ipv4 : {TRUE}, words : {4, 5, 6, 7, 15}, udp : {TRUE},
     src : {At(1)}, dst : {At(2), At(5060)}, payload : {"rtp", "rtcp", "sip"}, len : Lengths]
    \cup [tagged : BOOLEAN, ipv4 : BOOLEAN, words : {5}, udp : BOOLEAN,
          src : {At(1)}, dst : {At(2), At(5060)}, payload : {"rtp", "reserved", "other"},
          len : {60, 120}]
=============================================================================
