------------------------------ MODULE Capture ------------------------------
(***************************************************************************)
(* The capture pipeline: the rings and readers of PacketRing feeding the   *)
(* queue and consumer of PacketAdmission, set up and closed                *)
(* (CaptureSetup) by internal/exporter/exporter.go.                        *)
(*                                                                         *)
(* A reader is one goroutine: it is between blocks (rpc), or in            *)
(* enqueueBlock ("consume") and there between or inside two enqueueRun     *)
(* calls (pc).  The consumer is one goroutine too: cpc is its place in the *)
(* queue's code, kpc in the block's.                                       *)
(***************************************************************************)
EXTENDS Naturals, FiniteSets, Sequences

CONSTANTS Interfaces, Capacity, MaxRun, MaxRuns, Nobody,    \* PacketAdmission
          BlockCount, Wrap, MaxBlocks, NoRun                \* PacketRing

ASSUME QueueAssumption == /\ Capacity \in Nat \ {0} /\ MaxRun \in Nat \ {0} /\ MaxRuns \in Nat
                          /\ IsFiniteSet(Interfaces) /\ Nobody \notin Interfaces

\* As in PacketRing, blockIndex wraps between two rounds of the ring.
ASSUME RingsAssumption == /\ BlockCount \in Nat \ {0} /\ MaxBlocks \in [Interfaces -> Nat]
                          /\ Wrap \in Nat \ {0} /\ Wrap % BlockCount = 0
                          /\ NoRun \notin [iface : Interfaces, block : 0..(BlockCount - 1), fill : Nat]

VARIABLES queuedPackets, pendingSIP, nextSIP, servingSIP, stopped, writer,
          readers, runs, pc, len, rest, ticket, accepted, asleep, met,
          cpc, remaining, amount, draining, xpc, done,
          status, content, filled, rpc, blockIndex, borrowed, count,
          notifications, keep, references, queued, hand, kpc,
          stage, current, created, held, misfreed,
          initialized   \* exporter.initialized, what IsAlive returns

A == INSTANCE PacketAdmission
R == INSTANCE PacketRing WITH MaxSplit <- MaxRuns
S == INSTANCE CaptureSetup

setupVars == <<stage, current, created, held, misfreed>>
ownVars == <<setupVars, initialized>>
queueSide == <<queuedPackets, pendingSIP, nextSIP, servingSIP, stopped, writer,
               readers, runs, pc, len, rest, ticket, accepted, asleep, met,
               cpc, remaining, amount, draining, xpc, done>>
ringVars == <<status, content, filled, rpc, blockIndex, borrowed, count,
              notifications, keep, references, queued, hand, kpc>>
vars == <<queueSide, ringVars, ownVars>>

Init == A!Init /\ R!Init /\ S!Init /\ initialized = FALSE

-----------------------------------------------------------------------------
(* exporter.Initialize.  The workers are started, and initialized is set   *)
(* before anybody looks at it.                                             *)

Initialize ==
    /\ S!Initialize
    /\ initialized' = (stage' = "running")
    /\ UNCHANGED <<queueSide, ringVars>>

Running == stage = "running"

-----------------------------------------------------------------------------
(* The kernel and the readers.                                             *)

\* The kernel fills a ring from the moment it is mapped.
FillBlock(i) == S!Mapped(i) /\ R!FillBlock(i) /\ UNCHANGED <<queueSide, ownVars>>

\* A reader between blocks, or telling itself of a block nobody borrowed.  Its
\* pc follows when it returns.
ReaderStep(i) ==
    /\ R!FindBlock(i) \/ R!NotifySelf(i)
    /\ IF rpc'[i] = "returned" /\ pc[i] # "returned"
       THEN A!Return(i)
       ELSE UNCHANGED queueSide
    /\ UNCHANGED ownVars

\* In enqueueBlock: the next run of the block.
MeetRun(i) ==
    /\ Running /\ rpc[i] = "consume"
    /\ \E n \in 1..MaxRun : A!MeetSIP(i, n) \/ A!MeetRTP(i, n)
    /\ UNCHANGED <<ringVars, ownVars>>

\* The steps of enqueueRun that send nothing.
EnqueueStep(i) ==
    /\ rpc[i] = "consume"
    /\ \/ A!TurnedAway(i)
       \/ A!AnnounceSIP(i) \/ A!QuitSIP(i) \/ A!ReserveSIP(i) \/ A!RefuseSIP(i)
       \/ A!Park(i) \/ A!Wake(i) \/ A!FinishSIP(i)
       \/ A!RLock(i) \/ A!ReserveRTP(i)
    /\ UNCHANGED <<ringVars, ownVars>>

SendRunUnretained(i) ==
    /\ A!SendSIP(i) \/ A!SendRTP(i)
    /\ R!RetainUncounted(i)
    /\ UNCHANGED ownVars

\* A run goes out with a reference to its block.
SendRun(i) ==
    /\ A!SendSIP(i) \/ A!SendRTP(i)
    /\ R!Retain(i)
    /\ UNCHANGED ownVars

EndBlockRunning(i) ==
    /\ pc[i] = "idle"
    /\ R!EndBlock(i, TRUE)
    /\ UNCHANGED <<queueSide, ownVars>>

\* All runs are enqueued, or the queue has stopped.
EndBlock(i) ==
    /\ Running /\ pc[i] \in {"idle", "returned"}
    /\ R!EndBlock(i, pc[i] = "idle")
    /\ UNCHANGED <<queueSide, ownVars>>

-----------------------------------------------------------------------------
(* The consumer.                                                           *)

TakeRun == (A!TakeRun \/ A!DrainRun) /\ R!Take /\ UNCHANGED ownVars

ConsumerStep ==
    /\ kpc # "notify"
    /\ \/ A!Poll \/ A!StartDraining \/ A!DrainedEmpty
       \/ A!DequeueFrame \/ A!Subtract \/ A!CheckPending \/ A!SignalPending
    /\ UNCHANGED <<ringVars, ownVars>>

ReleaseRunKept ==
    /\ A!FinishRun
    /\ kpc = "hold" /\ kpc' = "take" /\ hand' = NoRun
    /\ UNCHANGED <<status, content, filled, rpc, blockIndex, borrowed, count,
                   notifications, keep, references, queued, ownVars>>

ReleaseRun == A!FinishRun /\ R!ReleaseRun /\ UNCHANGED ownVars

NotifyReader == R!NotifyReader /\ UNCHANGED <<queueSide, ownVars>>

-----------------------------------------------------------------------------
(* exporter.Close.                                                         *)

BeginClose ==
    /\ Running /\ A!BeginClose
    /\ initialized' = FALSE
    /\ UNCHANGED <<ringVars, setupVars>>

StopAndSignal ==
    /\ A!StopQueue \/ A!CloseDone
    /\ UNCHANGED <<ringVars, ownVars>>

\* wg.Wait returns once no reader and no consumer is left ...
NoneAwaited == TRUE
AllReturned == \A i \in Interfaces : rpc[i] = "returned"
Waited ==
    /\ AllReturned /\ kpc = "take"
    /\ A!Waited
    /\ UNCHANGED <<ringVars, ownVars>>

\* ... then the collections are closed, and the rings.
CloseRings ==
    /\ xpc = "closed"
    /\ S!CloseCollections \/ \E i \in Interfaces : S!CloseRing(i)
    /\ UNCHANGED <<queueSide, ringVars, initialized>>

Terminated == S!Ended /\ UNCHANGED vars

-----------------------------------------------------------------------------
Consumer == Running /\ (TakeRun \/ ConsumerStep \/ ReleaseRun \/ NotifyReader)
Reader(i) == Running /\ (ReaderStep(i) \/ EnqueueStep(i) \/ SendRun(i))
Close == StopAndSignal \/ Waited \/ CloseRings

Server == Initialize \/ Close
Next == \/ Initialize
        \/ \E i \in Interfaces : FillBlock(i) \/ Reader(i) \/ MeetRun(i) \/ EndBlock(i)
        \/ Consumer
        \/ BeginClose \/ Close
        \/ Terminated

Spec == Init /\ [][Next]_vars

\* As in PacketAdmission; a block has finitely many runs, and system calls return.
FairSpec == /\ Spec
            /\ \A i \in Interfaces : SF_vars(Reader(i)) /\ SF_vars(EndBlock(i))
            /\ SF_vars(Consumer)
            /\ SF_vars(Server)

-----------------------------------------------------------------------------
(* Properties.                                                             *)

\* The two views of a goroutine agree, and so do those of the channel.
ViewsAgree ==
    /\ \A i \in Interfaces : pc[i] \notin {"idle", "returned"} => rpc[i] = "consume"
    /\ Len(runs) = Len(queued)
    /\ \A k \in DOMAIN runs : runs[k].iface = queued[k].iface

\* Whatever the queue and the shutdown do, the frames of every run queued or in
\* hand stay where they are: their block is theirs and their ring is mapped
\* (packet_ring.go packetRingBlockReference).
FramesReadable ==
    /\ ViewsAgree
    /\ R!LentBlocksStayPut
    /\ \A k \in DOMAIN queued : S!Mapped(queued[k].iface)
    /\ hand # NoRun => S!Mapped(hand.iface)

\* Initialize that fails, at whichever step of whichever interface, and Close
\* leave nothing behind, and nothing is released twice, which would close a descriptor
\* that is another's by then (exporter.go releaseAll, Close; packet_ring.go close).
EverythingReleased == S!EverythingReleased

\* When maps, rings and sockets are closed, every run has been released, every block
\* that was lent has been returned and no goroutine is left that would use them
\* (exporter.go Close, wg.Wait).
UnmappedIsQuiet ==
    stage = "collectionsClosed" =>
        /\ queued = <<>> /\ hand = NoRun /\ queuedPackets = 0
        /\ \A i \in Interfaces : /\ rpc[i] = "returned"
                                 /\ \A b \in R!Blocks : references[i][b] = 0

\* A filled block comes back to the kernel although its runs have to pass the
\* queue: a reader that waits for room holds on to the block, and the room comes
\* from a consumer that waits for no reader.  Rings of a failed Initialize are gone.
BlocksComeBack ==
    \A i \in Interfaces : \A b \in R!Blocks :
        status[i][b] = "user" ~>
            status[i][b] = "kernel" \/ rpc[i] = "returned" \/ ~S!Mapped(i)

\* Close comes to an end, with everything released (exporter.go Close).
CloseCompletes == xpc = "stop" ~> held = {}
=============================================================================
