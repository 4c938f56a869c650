-------------------------- MODULE PacketAdmission --------------------------
(***************************************************************************)
(* packetBatchQueue (internal/exporter/packet_ring.go): the admission      *)
(* queue between the readers, one per capture interface, and the single    *)
(* packet consumer, with the shutdown of exporter.Close.                   *)
(*                                                                         *)
(* A step is what a thread does between two points another thread can      *)
(* observe: an atomic load or compare-and-swap, a channel operation, the   *)
(* acquisition of admissionMu.  A packet is not represented: a run is its  *)
(* length.  The retain/release of ring blocks is in PacketRing.            *)
(*                                                                         *)
(* A definition placed just before another one and named after a slip      *)
(* (HasRoomUnchecked before HasRoom) is a faulty variant of it: a run that *)
(* checks the property it breaks finds the violation.                      *)
(***************************************************************************)
EXTENDS Integers, FiniteSets, Sequences, Folds

CONSTANTS Interfaces,   \* interfaces, each with a reader goroutine
          Capacity,     \* maxPackets, also the capacity of the runs channel
          MaxRun,       \* bound: packets of the longest run a reader meets
          MaxRuns,      \* bound: runs a reader meets
          Nobody        \* admissionMu is not write-locked

ASSUME CapacityAssumption == Capacity \in Nat \ {0}
ASSUME BoundAssumption    == MaxRun \in Nat \ {0} /\ MaxRuns \in Nat
ASSUME InterfacesAssumption == IsFiniteSet(Interfaces) /\ Nobody \notin Interfaces

VARIABLES
    \* packetBatchQueue
    queuedPackets,      \* accounting.queuedPackets
    pendingSIP,         \* SIP runs announced and not yet admitted
    nextSIP,            \* the next ticket
    servingSIP,         \* the ticket whose turn it is
    stopped,
    writer,             \* who holds admissionMu.Lock
    readers,            \* who holds admissionMu.RLock
    runs,               \* the channel of runs: [iface, len]
    \* the readers
    pc,
    len,                \* packets of the run, or of its current chunk
    rest,               \* packets of a long SIP run after that chunk
    ticket,
    accepted,           \* packets reserved for an RTP run
    asleep,             \* readers whose captured admissionChanged is open
    met,                \* runs met so far
    \* the consumer
    cpc,
    remaining,          \* run.remaining of the run in hand
    amount,             \* packetCount of the queue.release under way
    draining,           \* in releaseQueuedPacketRuns
    \* exporter.Close
    xpc,
    done                \* the done channel is closed

queueVars    == <<queuedPackets, pendingSIP, nextSIP, servingSIP, stopped,
                  writer, readers, runs>>
readerVars   == <<pc, len, rest, ticket, accepted, asleep, met>>
consumerVars == <<cpc, remaining, amount, draining>>
closeVars    == <<xpc, done>>
vars == <<queueVars, readerVars, consumerVars, closeVars>>

Run == [iface : Interfaces, len : 1..Capacity]
ReaderPC == {"idle", "lock", "try", "send", "finish", "park", "asleep",
             "rlock", "reserve", "sendRTP", "returned"}
ConsumerPC == {"poll", "select", "process", "subtract", "check", "signal",
               "exited"}
ClosePC == {"running", "stop", "stopped", "wait", "closed"}

Smaller(a, b) == IF a <= b THEN a ELSE b
UnlockedForWriters == writer = Nobody
LockFree == writer = Nobody /\ readers = {}
Goto(i, label) == pc' = [pc EXCEPT ![i] = label]

Init ==
    /\ queuedPackets = 0 /\ pendingSIP = 0 /\ nextSIP = 0 /\ servingSIP = 0
    /\ stopped = FALSE /\ writer = Nobody /\ readers = {} /\ runs = <<>>
    /\ pc = [i \in Interfaces |-> "idle"]
    /\ len = [i \in Interfaces |-> 0]
    /\ rest = [i \in Interfaces |-> 0]
    /\ ticket = [i \in Interfaces |-> 0]
    /\ accepted = [i \in Interfaces |-> 0]
    /\ asleep = {}
    /\ met = [i \in Interfaces |-> 0]
    /\ cpc = "poll" /\ remaining = 0 /\ amount = 0 /\ draining = FALSE
    /\ xpc = "running" /\ done = FALSE

-----------------------------------------------------------------------------
(* The queue's operations.                                                 *)

\* packetBatchQueueAccounting.reserve: as many as there is room for.
Share(n) == Smaller(n, Capacity - queuedPackets)

\* packetBatchQueueAccounting.reserveAll: all or none.
HasRoomUnchecked(n) == TRUE
HasRoom(n) == n <= Capacity - queuedPackets

\* signalAdmissionLocked: the channel every sleeper captured is closed.
SignalNobody == UNCHANGED asleep
Signal == asleep' = {}

-----------------------------------------------------------------------------
(* A reader in enqueueBlock, enqueueRun, enqueueSIPRun and enqueueRTPRun.  *)

\* The next maximal run of the block.  A SIP run longer than the queue goes
\* in chunks of Capacity packets.
MeetSIP(i, n) ==
    /\ pc[i] = "idle" /\ met[i] < MaxRuns
    /\ met' = [met EXCEPT ![i] = @ + 1]
    /\ len' = [len EXCEPT ![i] = Smaller(n, Capacity)]
    /\ rest' = [rest EXCEPT ![i] = n - Smaller(n, Capacity)]
    /\ Goto(i, "lock")
    /\ UNCHANGED <<queueVars, ticket, accepted, asleep, consumerVars, closeVars>>

MeetRTP(i, n) ==
    /\ pc[i] = "idle" /\ met[i] < MaxRuns
    /\ met' = [met EXCEPT ![i] = @ + 1]
    /\ len' = [len EXCEPT ![i] = n]
    /\ Goto(i, "rlock")
    /\ UNCHANGED <<queueVars, rest, ticket, accepted, asleep, consumerVars, closeVars>>

\* The queue has stopped when the reader gets the lock.
TurnedAway(i) ==
    /\ stopped
    /\ \/ pc[i] = "lock" /\ LockFree
       \/ pc[i] = "rlock" /\ writer = Nobody
    /\ Goto(i, "returned")
    /\ UNCHANGED <<queueVars, len, rest, ticket, accepted, asleep, met,
                   consumerVars, closeVars>>

\* Between two blocks the reader returns: done is closed, or, in Fail, its
\* interface is lost or its next block is malformed.
Return(i) ==
    /\ pc[i] = "idle"
    /\ Goto(i, "returned")
    /\ UNCHANGED <<queueVars, len, rest, ticket, accepted, asleep, met,
                   consumerVars, closeVars>>
ReturnDone(i) == done /\ Return(i)
Fail(i) == ~done /\ Return(i)

\* enqueueSIPRun from Lock to the loop: a ticket and a place in pendingSIP.
AnnounceSIP(i) ==
    /\ pc[i] = "lock" /\ LockFree /\ ~stopped
    /\ writer' = i
    /\ ticket' = [ticket EXCEPT ![i] = nextSIP]
    /\ nextSIP' = nextSIP + 1
    /\ pendingSIP' = pendingSIP + 1
    /\ Goto(i, "try")
    /\ UNCHANGED <<queuedPackets, servingSIP, stopped, readers, runs, len, rest,
                   accepted, asleep, met, consumerVars, closeVars>>

\* Stopped while in line: the run is given up.
QuitSIP(i) ==
    /\ pc[i] = "try" /\ writer = i /\ stopped
    /\ pendingSIP' = pendingSIP - 1
    /\ writer' = Nobody
    /\ Goto(i, "returned")
    /\ UNCHANGED <<queuedPackets, nextSIP, servingSIP, stopped, readers, runs,
                   len, rest, ticket, accepted, asleep, met, consumerVars,
                   closeVars>>

AnyTurn(i) == TRUE
MyTurn(i) == ticket[i] = servingSIP

ReserveSIP(i) ==
    /\ pc[i] = "try" /\ writer = i /\ ~stopped
    /\ MyTurn(i) /\ HasRoom(len[i])
    /\ queuedPackets' = queuedPackets + len[i]
    /\ Goto(i, "send")
    /\ UNCHANGED <<pendingSIP, nextSIP, servingSIP, stopped, writer, readers,
                   runs, len, rest, ticket, accepted, asleep, met, consumerVars,
                   closeVars>>

\* Not my turn, or the compare found no room.
RefuseSIP(i) ==
    /\ pc[i] = "try" /\ writer = i /\ ~stopped
    /\ ~(MyTurn(i) /\ HasRoom(len[i]))
    /\ Goto(i, "park")
    /\ UNCHANGED <<queueVars, len, rest, ticket, accepted, asleep, met,
                   consumerVars, closeVars>>

\* changed := q.admissionChanged; Unlock.
Park(i) ==
    /\ pc[i] = "park" /\ writer = i
    /\ asleep' = asleep \cup {i}
    /\ writer' = Nobody
    /\ Goto(i, "asleep")
    /\ UNCHANGED <<queuedPackets, pendingSIP, nextSIP, servingSIP, stopped,
                   readers, runs, len, rest, ticket, accepted, met,
                   consumerVars, closeVars>>

\* <-changed; Lock.
Wake(i) ==
    /\ pc[i] = "asleep" /\ i \notin asleep /\ LockFree
    /\ writer' = i
    /\ Goto(i, "try")
    /\ UNCHANGED <<queuedPackets, pendingSIP, nextSIP, servingSIP, stopped,
                   readers, runs, len, rest, ticket, accepted, asleep, met,
                   consumerVars, closeVars>>

\* The send on the runs channel, still under Lock.
SendSIP(i) ==
    /\ pc[i] = "send" /\ Len(runs) < Capacity
    /\ runs' = Append(runs, [iface |-> i, len |-> len[i]])
    /\ Goto(i, "finish")
    /\ UNCHANGED <<queuedPackets, pendingSIP, nextSIP, servingSIP, stopped,
                   writer, readers, len, rest, ticket, accepted, asleep, met,
                   consumerVars, closeVars>>

\* finishSIPLocked and Unlock; then the next chunk of a long run, if any.
FinishSIP(i) ==
    /\ pc[i] = "finish"
    /\ pendingSIP' = pendingSIP - 1
    /\ servingSIP' = servingSIP + 1
    /\ Signal
    /\ writer' = Nobody
    /\ LET chunk == Smaller(rest[i], Capacity)
       IN /\ len' = [len EXCEPT ![i] = chunk]
          /\ rest' = [rest EXCEPT ![i] = @ - chunk]
    /\ Goto(i, IF rest[i] = 0 THEN "idle" ELSE "lock")
    /\ UNCHANGED <<queuedPackets, nextSIP, stopped, readers, runs, ticket,
                   accepted, met, consumerVars, closeVars>>

\* enqueueRTPRun up to the check of stopped.
RLock(i) ==
    /\ pc[i] = "rlock" /\ writer = Nobody /\ ~stopped
    /\ readers' = readers \cup {i}
    /\ Goto(i, "reserve")
    /\ UNCHANGED <<queuedPackets, pendingSIP, nextSIP, servingSIP, stopped,
                   writer, runs, len, rest, ticket, accepted, asleep, met,
                   consumerVars, closeVars>>

RTPBesideSIP == TRUE
RTPAllowed == pendingSIP = 0

\* The packets that fit, none while a SIP run is pending; the others are
\* counted as dropped.  With nothing accepted the run ends here.
ReserveRTP(i) ==
    /\ pc[i] = "reserve"
    /\ LET share == IF RTPAllowed THEN Share(len[i]) ELSE 0
       IN /\ queuedPackets' = queuedPackets + share
          /\ accepted' = [accepted EXCEPT ![i] = share]
          /\ IF share = 0
             THEN Goto(i, "idle") /\ readers' = readers \ {i}
             ELSE Goto(i, "sendRTP") /\ UNCHANGED readers
    /\ len' = [len EXCEPT ![i] = 0]
    /\ UNCHANGED <<pendingSIP, nextSIP, servingSIP, stopped, writer, runs,
                   rest, ticket, asleep, met, consumerVars, closeVars>>

\* The send on the runs channel, then RUnlock.
SendRTP(i) ==
    /\ pc[i] = "sendRTP" /\ Len(runs) < Capacity
    /\ runs' = Append(runs, [iface |-> i, len |-> accepted[i]])
    /\ accepted' = [accepted EXCEPT ![i] = 0]
    /\ readers' = readers \ {i}
    /\ Goto(i, "idle")
    /\ UNCHANGED <<queuedPackets, pendingSIP, nextSIP, servingSIP, stopped,
                   writer, len, rest, ticket, asleep, met, consumerVars,
                   closeVars>>

-----------------------------------------------------------------------------
(* The consumer: readPacketRuns, processPacketRingRun and the releases.    *)

\* The first select of the loop only looks at done.
Poll ==
    /\ cpc = "poll"
    /\ cpc' = "select"
    /\ draining' = done
    /\ UNCHANGED <<queueVars, readerVars, remaining, amount, closeVars>>

\* The second select saw done; it may also take a run although done is closed.
StartDraining ==
    /\ cpc = "select" /\ ~draining /\ done
    /\ draining' = TRUE
    /\ UNCHANGED <<queueVars, readerVars, cpc, remaining, amount, closeVars>>

\* A run is received, to be processed frame by frame.
TakeRun ==
    /\ cpc = "select" /\ ~draining /\ runs # <<>>
    /\ runs' = Tail(runs)
    /\ remaining' = Head(runs).len
    /\ cpc' = "process"
    /\ UNCHANGED <<queuedPackets, pendingSIP, nextSIP, servingSIP, stopped,
                   writer, readers, readerVars, amount, draining, closeVars>>

\* releaseQueuedPacketRuns: a run is received and released as a whole.
DrainRun ==
    /\ cpc = "select" /\ draining /\ runs # <<>>
    /\ runs' = Tail(runs)
    /\ amount' = Head(runs).len
    /\ cpc' = "subtract"
    /\ UNCHANGED <<queuedPackets, pendingSIP, nextSIP, servingSIP, stopped,
                   writer, readers, readerVars, remaining, draining, closeVars>>

DrainedEmpty ==
    /\ cpc = "select" /\ draining /\ runs = <<>>
    /\ cpc' = "exited"
    /\ UNCHANGED <<queueVars, readerVars, remaining, amount, draining, closeVars>>

DequeueRest ==
    /\ cpc = "process" /\ remaining > 0
    /\ remaining' = remaining - 1
    /\ amount' = remaining
    /\ cpc' = "subtract"
    /\ UNCHANGED <<queueVars, readerVars, draining, closeVars>>

\* dequeueFrame: the frame leaves the accounting before it is parsed.
DequeueFrame ==
    /\ cpc = "process" /\ remaining > 0
    /\ remaining' = remaining - 1
    /\ amount' = 1
    /\ cpc' = "subtract"
    /\ UNCHANGED <<queueVars, readerVars, draining, closeVars>>

\* The end of run.release: the reference to the block is given back.
FinishRun ==
    /\ cpc = "process" /\ remaining = 0
    /\ cpc' = IF draining THEN "select" ELSE "poll"
    /\ UNCHANGED <<queueVars, readerVars, remaining, amount, draining, closeVars>>

\* queue.release: the accounting first ...
Subtract ==
    /\ cpc = "subtract"
    /\ queuedPackets' = queuedPackets - amount
    /\ amount' = 0
    /\ cpc' = "check"
    /\ UNCHANGED <<pendingSIP, nextSIP, servingSIP, stopped, writer, readers,
                   runs, readerVars, remaining, draining, closeVars>>

CheckPendingWhenEmpty ==
    /\ cpc = "check"
    /\ cpc' = IF pendingSIP = 0 \/ queuedPackets # 0 THEN "process" ELSE "signal"
    /\ UNCHANGED <<queueVars, readerVars, remaining, amount, draining, closeVars>>

\* ... then a look at pendingSIP without the lock ...
CheckPending ==
    /\ cpc = "check"
    /\ cpc' = IF pendingSIP = 0 THEN "process" ELSE "signal"
    /\ UNCHANGED <<queueVars, readerVars, remaining, amount, draining, closeVars>>

\* ... and the signal under it.
SignalPending ==
    /\ cpc = "signal" /\ LockFree
    /\ IF pendingSIP # 0 THEN Signal ELSE UNCHANGED asleep
    /\ cpc' = "process"
    /\ UNCHANGED <<queueVars, pc, len, rest, ticket, accepted, met, remaining,
                   amount, draining, closeVars>>

-----------------------------------------------------------------------------
(* exporter.Close: stop the queue, close done, wait for the goroutines.    *)

BeginCloseDoneFirst ==
    /\ xpc = "running"
    /\ xpc' = "stop"
    /\ done' = TRUE
    /\ UNCHANGED <<queueVars, readerVars, consumerVars>>

BeginClose ==
    /\ xpc = "running"
    /\ xpc' = "stop"
    /\ UNCHANGED <<queueVars, readerVars, consumerVars, done>>

StopQueueSilently ==
    /\ xpc = "stop" /\ LockFree
    /\ stopped' = TRUE
    /\ xpc' = "stopped"
    /\ UNCHANGED <<queuedPackets, pendingSIP, nextSIP, servingSIP, writer,
                   readers, runs, readerVars, consumerVars, done>>

StopQueue ==
    /\ xpc = "stop" /\ LockFree
    /\ stopped' = TRUE
    /\ Signal
    /\ xpc' = "stopped"
    /\ UNCHANGED <<queuedPackets, pendingSIP, nextSIP, servingSIP, writer,
                   readers, runs, pc, len, rest, ticket, accepted, met,
                   consumerVars, done>>

CloseDone ==
    /\ xpc = "stopped"
    /\ done' = TRUE
    /\ xpc' = "wait"
    /\ UNCHANGED <<queueVars, readerVars, consumerVars>>

\* wg.Wait returns.
Waited ==
    /\ xpc = "wait"
    /\ cpc = "exited" /\ \A i \in Interfaces : pc[i] = "returned"
    /\ xpc' = "closed"
    /\ UNCHANGED <<queueVars, readerVars, consumerVars, done>>

Terminated == xpc = "closed" /\ UNCHANGED vars

-----------------------------------------------------------------------------
EnqueueSIP(i) == AnnounceSIP(i) \/ QuitSIP(i) \/ ReserveSIP(i) \/ RefuseSIP(i)
                 \/ Park(i) \/ Wake(i) \/ SendSIP(i) \/ FinishSIP(i)
EnqueueRTP(i) == RLock(i) \/ ReserveRTP(i) \/ SendRTP(i)
Enqueue(i) == TurnedAway(i) \/ EnqueueSIP(i) \/ EnqueueRTP(i)

Consumer == Poll \/ StartDraining \/ TakeRun \/ DrainRun \/ DrainedEmpty
            \/ DequeueFrame \/ FinishRun \/ Subtract \/ CheckPending \/ SignalPending

Close == StopQueue \/ CloseDone \/ Waited

Next == \/ \E i \in Interfaces, n \in 1..MaxRun : MeetSIP(i, n) \/ MeetRTP(i, n)
        \/ \E i \in Interfaces : ReturnDone(i) \/ Fail(i) \/ Enqueue(i)
        \/ Consumer
        \/ BeginClose \/ Close
        \/ Terminated

Spec == Init /\ [][Next]_vars

\* The scheduler runs every goroutine that can step.  A goroutine that waits for
\* admissionMu gets it although it is not free all the time: sync.RWMutex blocks
\* new RLocks behind a waiting Lock and hands a starved waiter the mutex, hence
\* strong fairness, which for the other steps of a thread is no more than weak.
\* Nothing obliges a block to arrive or Close to be called.
Fairness ==
    /\ \A i \in Interfaces : SF_vars(Enqueue(i) \/ ReturnDone(i))
    /\ SF_vars(Consumer)
    /\ SF_vars(Close)

FairSpec == Spec /\ Fairness

-----------------------------------------------------------------------------
(* Properties.                                                             *)

\* Type invariant of the queue and of its three kinds of thread.
QueueTypeOK ==
    /\ queuedPackets \in 0..Capacity
    /\ pendingSIP \in Nat /\ nextSIP \in Nat /\ servingSIP \in Nat
    /\ writer \in Interfaces \cup {Nobody} /\ readers \subseteq Interfaces
    /\ runs \in Seq(Run)
ReaderTypeOK ==
    /\ pc \in [Interfaces -> ReaderPC]
    /\ len \in [Interfaces -> Nat] /\ rest \in [Interfaces -> Nat]
    /\ ticket \in [Interfaces -> Nat] /\ accepted \in [Interfaces -> 0..Capacity]
    /\ asleep \subseteq Interfaces /\ met \in [Interfaces -> 0..MaxRuns]
ConsumerTypeOK ==
    cpc \in ConsumerPC /\ remaining \in 0..Capacity /\ amount \in 0..Capacity
CloseTypeOK == xpc \in ClosePC
FlagsTypeOK == stopped \in BOOLEAN /\ draining \in BOOLEAN /\ done \in BOOLEAN
TypeOK == QueueTypeOK /\ ReaderTypeOK /\ ConsumerTypeOK /\ CloseTypeOK /\ FlagsTypeOK

\* Packets of the runs in the channel.
PacketsInChannel == MapThenFoldSet(+, 0, LAMBDA k : runs[k].len,
                                   LAMBDA s : CHOOSE k \in s : TRUE, DOMAIN runs)
\* Packets reserved by a reader that has not sent its run yet.
Reserved(i) == IF pc[i] = "send" THEN len[i] ELSE accepted[i]
PacketsReserved == MapThenFoldSet(+, 0, Reserved,
                                  LAMBDA s : CHOOSE i \in s : TRUE, Interfaces)

\* queuedPackets counts every packet once: those reserved, those in the
\* channel, those of the run in hand and those being released, whatever the
\* interleaving of the lock-free reserve, release and the sends.
AccountingExact ==
    queuedPackets = PacketsReserved + PacketsInChannel + remaining + amount

\* A send on the runs channel never blocks, although it happens under
\* admissionMu, which the consumer needs to make room: blocking there would
\* stop the whole capture.
SendNeverBlocks ==
    \A i \in Interfaces : pc[i] \in {"send", "sendRTP"} => Len(runs) < Capacity

Waiting(i) == pc[i] \in {"try", "park", "asleep"}
Announced(i) == Waiting(i) \/ pc[i] \in {"send", "finish"}

\* The readers in line hold the tickets from servingSIP on, one each, and
\* pendingSIP is their number.
LineComplete ==
    /\ pendingSIP = nextSIP - servingSIP
    /\ \A t \in servingSIP..(nextSIP - 1) :
          \E i \in Interfaces : Announced(i) /\ ticket[i] = t
    /\ \A i, j \in Interfaces :
          Announced(i) /\ Announced(j) /\ i # j => ticket[i] # ticket[j]

\* While the queue runs no ticket is skipped, lost or held twice, so the line
\* never waits for a turn nobody takes.
TicketsHeld == ~stopped => LineComplete

\* No lost wake-up: nobody sleeps once the queue has stopped, and a reader that
\* sleeps, or is about to, although it is its turn and there is room, is about
\* to be signalled by a thread that has yet to look at pendingSIP.
NoLostWakeup ==
    \A i \in Interfaces :
        pc[i] = "park" \/ i \in asleep =>
            /\ ~stopped
            /\ MyTurn(i) /\ HasRoom(len[i]) =>
                  \/ cpc \in {"check", "signal"}
                  \/ \E j \in Interfaces : pc[j] = "finish"

\* SIP first: an RTP run enters the channel only while no SIP run is announced,
\* however the check of pendingSIP and the send are separated.
RTPNeverOvertakesSIP ==
    [][\A i \in Interfaces : SendRTP(i) => \A j \in Interfaces : ~Announced(j)]_vars

\* Once Close has waited, no run is left behind: the readers cannot add one
\* after the consumer has drained the channel.
ClosedIsEmpty == xpc = "closed" => runs = <<>> /\ queuedPackets = 0

\* Close returns once it is called.
CloseReturns == xpc = "stop" ~> xpc = "closed"

\* The queue implements SipFirstQueue; the line is the readers waiting with
\* the tickets they hold.
Queue == INSTANCE SipFirstQueue WITH
    line   <- {[iface |-> i, ticket |-> ticket[i], len |-> len[i]] :
                 i \in {j \in Interfaces : Waiting(j)}},
    issued <- nextSIP,
    held   <- queuedPackets,
    open   <- ~stopped
ImplementsSipFirstQueue == Queue!Spec
ServesFairly == Queue!FairSpec
=============================================================================
