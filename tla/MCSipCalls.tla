----------------------------- MODULE MCSipCalls -----------------------------
(***************************************************************************)
(* A caller and a callee that may fork: the caller's INVITE, the caller's  *)
(* next one, and one of the callee.                                        *)
(***************************************************************************)
EXTENDS SipCalls

CONSTANTS caller, callee, fork

MCKeys == {[cseq |-> 1, from |-> caller], [cseq |-> 2, from |-> caller],
           [cseq |-> 1, from |-> callee]}

=============================================================================
