--------------------------- MODULE MCMediaEndpoints ---------------------------
(***************************************************************************)
(* Calls behind one host with three ports.  The caller's port has its RTCP *)
(* on the next one, which the caller may also move to, and from which a    *)
(* stream may come and be learned.                                         *)
(***************************************************************************)
EXTENDS MediaEndpoints, TLC

CONSTANTS c1, c2, h1

At(p) == [ip |-> h1, port |-> p]
Caller == [rtp |-> At(1), rtcp |-> Nobody, mux |-> FALSE]
Moved == [rtp |-> At(2), rtcp |-> At(1), mux |-> FALSE]
Callee == [rtp |-> At(3), rtcp |-> Nobody, mux |-> TRUE]

MCDescriptions == {<<Caller, Callee>>, <<Moved, Callee>>}

CallSymmetry == Permutations(Calls)

=============================================================================
