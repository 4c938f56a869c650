--------------------------- MODULE SipFirstQueue ---------------------------
(***************************************************************************)
(* What the admission queue between the interface readers and the packet   *)
(* consumer promises, without locks, tickets in flight or wake-ups:        *)
(*                                                                         *)
(*  - at most Capacity packets are held;                                   *)
(*  - a SIP run is never dropped while the queue is open: it waits in line *)
(*    and is admitted as a whole, in the order of arrival;                 *)
(*  - RTP packets are admitted only while no SIP run is in line.           *)
(*                                                                         *)
(* PacketAdmission implements it (see PacketAdmission!Queue).              *)
(***************************************************************************)
EXTENDS Naturals

CONSTANTS Interfaces,   \* the capture interfaces, one reader each
          Capacity      \* packets the queue may hold

VARIABLES line,         \* the SIP runs waiting: [iface, ticket, len]
          issued,       \* tickets handed out so far
          held,         \* packets admitted and not yet given back
          open          \* FALSE from the shutdown on

vars == <<line, issued, held, open>>

Init == line = {} /\ issued = 0 /\ held = 0 /\ open = TRUE

Ask(i, n) ==
    /\ open
    /\ \A w \in line : w.iface # i
    /\ line' = line \cup {[iface |-> i, ticket |-> issued, len |-> n]}
    /\ issued' = issued + 1
    /\ UNCHANGED <<held, open>>

First(w) == \A v \in line : w.ticket <= v.ticket

Admit(w) ==
    /\ open /\ First(w)
    /\ held + w.len <= Capacity
    /\ line' = line \ {w}
    /\ held' = held + w.len
    /\ UNCHANGED <<issued, open>>

AdmitRTP(n) ==
    /\ open /\ line = {}
    /\ held + n <= Capacity
    /\ held' = held + n
    /\ UNCHANGED <<line, issued, open>>

Release(n) ==
    /\ n <= held
    /\ held' = held - n
    /\ UNCHANGED <<line, issued, open>>

Shut == open /\ open' = FALSE /\ UNCHANGED <<line, issued, held>>

Leave(w) == ~open /\ line' = line \ {w} /\ UNCHANGED <<issued, held, open>>

AdmitOne == \E w \in line : Admit(w)
ReleaseSome == \E n \in 1..Capacity : Release(n)
LeaveOne == \E w \in line : Leave(w)

Next == \/ \E i \in Interfaces, n \in 1..Capacity : Ask(i, n)
        \/ AdmitOne
        \/ \E n \in 1..Capacity : AdmitRTP(n)
        \/ ReleaseSome
        \/ Shut
        \/ LeaveOne

Spec == Init /\ [][Next]_vars

\* Packets drain, so the first in line gets its room, and the line empties
\* after the shutdown.
FairSpec == /\ Spec
            /\ WF_vars(AdmitOne)
            /\ WF_vars(ReleaseSome)
            /\ WF_vars(LeaveOne)
=============================================================================
