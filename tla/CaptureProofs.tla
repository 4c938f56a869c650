--------------------------- MODULE CaptureProofs ---------------------------
(***************************************************************************)
(* Theorems about Capture for every set of interfaces, capacity, ring size *)
(* and bound.  The pipeline behaves like its queue and like its rings, so  *)
(* the invariants proved of each hold of it; an invariant of its own says  *)
(* how the two views of a goroutine go together and what is held when.     *)
(***************************************************************************)
EXTENDS Capture, FiniteSetTheorems, SequenceTheorems, TLAPS

AP == INSTANCE PacketAdmissionProofs
RP == INSTANCE PacketRingProofs WITH MaxSplit <- MaxRuns

-----------------------------------------------------------------------------
(* The constants of the queue and of the rings.                            *)

LEMMA QueueConstants == AP!CapacityAssumption /\ AP!BoundAssumption /\ AP!InterfacesAssumption
BY QueueAssumption DEF QueueAssumption, AP!CapacityAssumption, AP!BoundAssumption,
   AP!InterfacesAssumption, IsFiniteSet, AP!IsFiniteSet

LEMMA RingConstants == RP!RingAssumption /\ RP!WrapAssumption /\ RP!NoRunAssumption
BY QueueAssumption, RingsAssumption DEF QueueAssumption, RingsAssumption, RP!RingAssumption,
   RP!WrapAssumption, RP!NoRunAssumption, RP!Run, RP!Blocks

-----------------------------------------------------------------------------
(* The steps of the pipeline are steps of the queue.                       *)

QueueMoves == \/ \E i \in Interfaces : \/ \E n \in 1..MaxRun : A!MeetSIP(i, n) \/ A!MeetRTP(i, n)
                                       \/ A!Return(i) \/ A!Enqueue(i)
              \/ A!Consumer \/ A!BeginClose \/ A!Close
              \/ UNCHANGED queueSide

LEMMA QueueStep == [Next]_vars => QueueMoves
<1> USE DEF QueueMoves
<1>1. ASSUME NEW i \in Interfaces, Reader(i) \/ MeetRun(i) \/ EndBlock(i) PROVE QueueMoves
  BY <1>1 DEF Reader, ReaderStep, EnqueueStep, SendRun, MeetRun, EndBlock, A!Enqueue,
     A!EnqueueSIP, A!EnqueueRTP
<1>2. ASSUME NEW i \in Interfaces, FillBlock(i) PROVE QueueMoves
  BY <1>2 DEF FillBlock
<1>3. ASSUME Consumer PROVE QueueMoves
  BY <1>3 DEF Consumer, TakeRun, ConsumerStep, ReleaseRun, NotifyReader, A!Consumer
<1>4. ASSUME BeginClose \/ Close \/ Initialize PROVE QueueMoves
  BY <1>4 DEF BeginClose, Close, StopAndSignal, Waited, CloseRings, Initialize, A!Close
<1>5. UNCHANGED vars => QueueMoves
  BY DEF vars
<1> QED
  BY <1>1, <1>2, <1>3, <1>4, <1>5 DEF Next, Terminated

LEMMA SameReader ==
    ASSUME NEW i
    PROVE  /\ \A n : A!MeetSIP(i, n) => AP!MeetSIP(i, n)
           /\ \A n : A!MeetRTP(i, n) => AP!MeetRTP(i, n)
           /\ A!Return(i) => AP!Fail(i) \/ AP!ReturnDone(i)
           /\ A!Enqueue(i) => AP!Enqueue(i)
BY DEF A!MeetSIP, AP!MeetSIP, A!MeetRTP, AP!MeetRTP, A!Return, AP!Return, AP!Fail, AP!ReturnDone,
   A!Enqueue, AP!Enqueue, A!EnqueueSIP, AP!EnqueueSIP, A!EnqueueRTP, AP!EnqueueRTP,
   A!TurnedAway, AP!TurnedAway, A!AnnounceSIP, AP!AnnounceSIP, A!QuitSIP, AP!QuitSIP,
   A!ReserveSIP, AP!ReserveSIP, A!RefuseSIP, AP!RefuseSIP, A!Park, AP!Park, A!Wake, AP!Wake,
   A!SendSIP, AP!SendSIP, A!FinishSIP, AP!FinishSIP, A!RLock, AP!RLock,
   A!ReserveRTP, AP!ReserveRTP, A!SendRTP, AP!SendRTP, A!LockFree, AP!LockFree,
   A!Smaller, AP!Smaller, A!Share, AP!Share, A!HasRoom, AP!HasRoom, A!MyTurn, AP!MyTurn,
   A!RTPAllowed, AP!RTPAllowed, A!Signal, AP!Signal, A!Goto, AP!Goto,
   A!queueVars, AP!queueVars, A!readerVars, AP!readerVars, A!consumerVars, AP!consumerVars,
   A!closeVars, AP!closeVars

LEMMA SameConsumer ==
    /\ A!Consumer => AP!Consumer
    /\ A!BeginClose => AP!BeginClose
    /\ A!Close => AP!Close
BY DEF A!Consumer, AP!Consumer, A!Poll, AP!Poll, A!StartDraining, AP!StartDraining,
   A!TakeRun, AP!TakeRun, A!DrainRun, AP!DrainRun, A!DrainedEmpty, AP!DrainedEmpty,
   A!DequeueFrame, AP!DequeueFrame, A!FinishRun, AP!FinishRun, A!Subtract, AP!Subtract,
   A!CheckPending, AP!CheckPending, A!SignalPending, AP!SignalPending,
   A!BeginClose, AP!BeginClose, A!Close, AP!Close, A!StopQueue, AP!StopQueue,
   A!CloseDone, AP!CloseDone, A!Waited, AP!Waited, A!LockFree, AP!LockFree, A!Signal, AP!Signal,
   A!queueVars, AP!queueVars, A!readerVars, AP!readerVars, A!consumerVars, AP!consumerVars,
   A!closeVars, AP!closeVars

LEMMA SameQueue ==
    /\ A!Init => AP!Init
    /\ QueueMoves => [AP!Next]_(AP!vars)
<1>1. A!Init => AP!Init
  BY DEF A!Init, AP!Init
<1>2. UNCHANGED queueSide => UNCHANGED AP!vars
  BY DEF queueSide, AP!vars, AP!queueVars, AP!readerVars, AP!consumerVars, AP!closeVars
<1>3. ASSUME NEW i \in Interfaces, NEW n \in 1..MaxRun, A!MeetSIP(i, n) \/ A!MeetRTP(i, n)
      PROVE  AP!Next
  BY <1>3, SameReader DEF AP!Next
<1>4. ASSUME NEW i \in Interfaces, A!Return(i) \/ A!Enqueue(i) PROVE AP!Next
  BY <1>4, SameReader DEF AP!Next
<1>5. A!Consumer \/ A!BeginClose \/ A!Close => AP!Next
  BY SameConsumer DEF AP!Next
<1> QED
  BY <1>1, <1>2, <1>3, <1>4, <1>5 DEF QueueMoves

\* Every step of the pipeline is one of packetBatchQueue, its readers and its consumer,
\* or leaves them alone.
THEOREM QueueInside == Spec => AP!Spec
<1>1. Init => AP!Init
  BY SameQueue DEF Init
<1>2. [Next]_vars => [AP!Next]_(AP!vars)
  BY QueueStep, SameQueue
<1> QED
  BY <1>1, <1>2, PTL DEF Spec, AP!Spec

LEMMA QueueInvariant == Spec => []AP!IInv
<1>1. AP!Spec => []AP!IInv
  BY QueueConstants, AP!Invariance
<1> QED
  BY <1>1, QueueInside, PTL

-----------------------------------------------------------------------------
(* The steps of the pipeline are steps of the rings.                       *)

RingMoves == \/ \E i \in Interfaces : \/ R!FillBlock(i) \/ R!FindBlock(i) \/ R!Retain(i)
                                      \/ R!NotifySelf(i)
                                      \/ \E more \in BOOLEAN : R!EndBlock(i, more)
             \/ R!Consume
             \/ UNCHANGED <<ringVars, done>>
             \/ A!CloseDone /\ UNCHANGED ringVars

\* done is closed by Close alone.
LEMMA DoneStays ==
    /\ \A i : A!Enqueue(i) \/ A!Return(i) => UNCHANGED done
    /\ \A i, n : A!MeetSIP(i, n) \/ A!MeetRTP(i, n) => UNCHANGED done
    /\ A!Consumer \/ A!BeginClose \/ A!StopQueue \/ A!Waited => UNCHANGED done
BY DEF A!MeetSIP, A!MeetRTP, A!Return, A!Enqueue, A!EnqueueSIP, A!EnqueueRTP, A!TurnedAway,
   A!AnnounceSIP, A!QuitSIP, A!ReserveSIP, A!RefuseSIP, A!Park, A!Wake, A!SendSIP, A!FinishSIP,
   A!RLock, A!ReserveRTP, A!SendRTP, A!Consumer, A!Poll, A!StartDraining, A!TakeRun, A!DrainRun,
   A!DrainedEmpty, A!DequeueFrame, A!FinishRun, A!Subtract, A!CheckPending, A!SignalPending,
   A!BeginClose, A!StopQueue, A!Waited, A!closeVars

LEMMA RingsStep == [Next]_vars => RingMoves
<1> USE DEF RingMoves
<1>1. ASSUME NEW i \in Interfaces, Reader(i) PROVE RingMoves
  <2>1. CASE ReaderStep(i)
    BY <2>1 DEF ReaderStep
  <2>2. CASE EnqueueStep(i)
    BY <2>2, DoneStays DEF EnqueueStep, A!Enqueue, A!EnqueueSIP, A!EnqueueRTP
  <2>3. CASE SendRun(i)
    BY <2>3 DEF SendRun
  <2> QED
    BY <1>1, <2>1, <2>2, <2>3 DEF Reader
<1>2. ASSUME NEW i \in Interfaces, MeetRun(i) PROVE RingMoves
  BY <1>2, DoneStays DEF MeetRun
<1>3. ASSUME NEW i \in Interfaces, EndBlock(i) \/ FillBlock(i) PROVE RingMoves
  BY <1>3 DEF EndBlock, FillBlock
<1>4. ASSUME Consumer PROVE RingMoves
  <2>1. CASE TakeRun \/ ReleaseRun \/ NotifyReader
    BY <2>1 DEF TakeRun, ReleaseRun, NotifyReader, R!Consume
  <2>2. CASE ConsumerStep
    BY <2>2, DoneStays DEF ConsumerStep, A!Consumer
  <2> QED
    BY <1>4, <2>1, <2>2 DEF Consumer
<1>5. ASSUME BeginClose \/ Close \/ Initialize PROVE RingMoves
  BY <1>5, DoneStays DEF BeginClose, Close, StopAndSignal, Waited, CloseRings, Initialize, queueSide
<1>6. UNCHANGED vars => RingMoves
  BY DEF vars, queueSide
<1> QED
  BY <1>1, <1>2, <1>3, <1>4, <1>5, <1>6 DEF Next, Terminated

LEMMA SameRing ==
    ASSUME NEW i
    PROVE  /\ R!FillBlock(i) => RP!FillBlock(i)
           /\ R!FindBlock(i) => RP!FindBlock(i)
           /\ R!Retain(i) => RP!Retain(i)
           /\ R!NotifySelf(i) => RP!NotifySelf(i)
           /\ \A more : R!EndBlock(i, more) => RP!EndBlock(i, more)
           /\ R!Consume => RP!Consume
BY DEF R!FillBlock, RP!FillBlock, R!FindBlock, RP!FindBlock, R!NextBlock, RP!NextBlock,
   R!WaitForRelease, RP!WaitForRelease, R!StopReading, RP!StopReading, R!Borrow, RP!Borrow,
   R!RejectBlock, RP!RejectBlock, R!NotReady, RP!NotReady, R!Polled, RP!Polled,
   R!InterfaceLost, RP!InterfaceLost, R!Retain, RP!Retain, R!NotifySelf, RP!NotifySelf,
   R!EndBlock, RP!EndBlock, R!Consume, RP!Consume, R!Take, RP!Take, R!ReleaseRun, RP!ReleaseRun,
   R!NotifyReader, RP!NotifyReader, R!Drop, RP!Drop, R!LastReference, RP!LastReference,
   R!AfterBlock, RP!AfterBlock, R!Reusable, RP!Reusable, R!Ready, RP!Ready,
   R!Physical, RP!Physical, R!NextIndex, RP!NextIndex, R!RGoto, RP!RGoto,
   R!memoryVars, RP!memoryVars, R!readerState, RP!readerState, R!runVars, RP!runVars

LEMMA SameRings ==
    /\ R!Init => RP!Init
    /\ RingMoves /\ done \in BOOLEAN => [RP!FreeNext]_(RP!vars)
<1>1. R!Init => RP!Init
  BY DEF R!Init, RP!Init, R!Blocks, RP!Blocks
<1>2. UNCHANGED <<ringVars, done>> => UNCHANGED RP!vars
  BY DEF ringVars, RP!vars, RP!ringVars, RP!memoryVars, RP!readerState, RP!runVars
<1>3. A!CloseDone /\ UNCHANGED ringVars /\ done \in BOOLEAN => RP!CloseDone \/ UNCHANGED RP!vars
  BY DEF A!CloseDone, RP!CloseDone, ringVars, RP!vars, RP!ringVars, RP!memoryVars,
     RP!readerState, RP!runVars
<1>4. ASSUME NEW i \in Interfaces,
             \/ R!FillBlock(i) \/ R!FindBlock(i) \/ R!Retain(i) \/ R!NotifySelf(i)
             \/ \E more \in BOOLEAN : R!EndBlock(i, more)
      PROVE  RP!FreeNext
  BY <1>4, SameRing DEF RP!FreeNext, RP!Finish
<1>5. R!Consume => RP!FreeNext
  BY SameRing DEF RP!FreeNext
<1> QED
  BY <1>1, <1>2, <1>3, <1>4, <1>5 DEF RingMoves, RP!FreeNext

\* Every step of the pipeline is one of the rings, their readers and the consumer, or
\* leaves them alone: the queue sends only runs that retain their block.
THEOREM RingsInside == Spec => RP!FreeSpec
<1>1. Init => RP!Init
  BY SameRings DEF Init
<1>2. AP!IInv => done \in BOOLEAN
  BY DEF AP!IInv, AP!TypeOK, AP!FlagsTypeOK
<1>3. AP!IInv /\ [Next]_vars => [RP!FreeNext]_(RP!vars)
  BY <1>2, RingsStep, SameRings
<1> QED
  BY <1>1, <1>3, QueueInvariant, PTL DEF Spec, RP!FreeSpec

LEMMA RingsInvariant == Spec => []RP!IInv
<1>1. RP!FreeSpec => []RP!IInv
  BY RingConstants, RP!Invariance
<1> QED
  BY <1>1, RingsInside, PTL

-----------------------------------------------------------------------------
(* What the pipeline adds: the two views of its threads, and what it holds.*)

SetupStages == {"start", "next", "loaded", "configured", "socket", "attached", "ring"}
Started == stage \in {"running", "collectionsClosed"}
Kinds == {"collection", "socket", "rxRing", "memory"}

\* Resources of the interface being set up.
Acquired ==
    CASE stage \in {"loaded", "configured"} -> {"collection"}
      [] stage \in {"socket", "attached"} -> {"collection", "socket"}
      [] stage = "ring" -> {"collection", "socket", "rxRing"}
      [] OTHER -> {}

StagesOK ==
    /\ stage \in SetupStages \cup {"failed", "running", "collectionsClosed"}
    /\ created \in SUBSET Interfaces
    /\ stage \in SetupStages \ {"start", "next"} => current \in Interfaces \ created
    /\ Started => created = Interfaces

\* Nothing is held that is not of an interface set up or of the one being set up ...
OwnersHold ==
    \A x \in held : \E i \in Interfaces, kind \in Kinds :
        /\ x = <<kind, i>>
        /\ i \in created \/ (i = current /\ kind \in Acquired)

\* ... an interface set up is mapped, and at the end nothing is held but what is left
\* to close of rings that are.
MappedMeanwhile ==
    /\ stage \in SetupStages \cup {"running"} => \A i \in created : <<"memory", i>> \in held
    /\ stage = "failed" => held = {}
    /\ stage = "collectionsClosed" =>
          \A i \in Interfaces, kind \in Kinds :
              <<kind, i>> \in held => kind # "collection" /\ <<"memory", i>> \in held

\* What is on the lists, or has been acquired for the one being set up, is held until it
\* is released; so nothing has been released that was not.
ReleasedOnce ==
    /\ misfreed = {}
    /\ stage \in SetupStages \cup {"running"} => \A i \in created : <<"collection", i>> \in held
    /\ \A kind \in Acquired : <<kind, current>> \in held

\* Runs are on their way only between startWorkers and wg.Wait.
RunsWhileRunning ==
    /\ ~Started => queued = <<>> /\ hand = NoRun
    /\ stage = "collectionsClosed" => xpc = "closed"
    /\ xpc = "closed" => hand = NoRun /\ AllReturned

CInv ==
    StagesOK /\ OwnersHold /\ MappedMeanwhile /\ ReleasedOnce /\ ViewsAgree /\ RunsWhileRunning

\* The steps as ViewsAgree and RunsWhileRunning see them.
ReaderAt(i, label) == pc' = [pc EXCEPT ![i] = label]
ViewStep ==
    \/ \E i \in Interfaces, label \in AP!ReaderPC :
          /\ rpc[i] = "consume" /\ ReaderAt(i, label)
          /\ UNCHANGED <<rpc, runs, queued, hand, xpc, setupVars>>
    \/ \E i \in Interfaces, label \in AP!ReaderPC, r \in AP!Run, q \in RP!Run :
          /\ Running /\ rpc[i] = "consume" /\ ReaderAt(i, label)
          /\ r.iface = i /\ q.iface = i
          /\ runs' = Append(runs, r) /\ queued' = Append(queued, q)
          /\ UNCHANGED <<rpc, hand, xpc, setupVars>>
    \/ \E i \in Interfaces, label \in RP!RingPC :
          /\ rpc[i] \notin {"consume", "returned"} /\ rpc' = [rpc EXCEPT ![i] = label]
          /\ pc' = pc \/ ReaderAt(i, "returned")
          /\ UNCHANGED <<runs, queued, hand, xpc, setupVars>>
    \/ \E i \in Interfaces, label \in RP!RingPC :
          /\ rpc[i] = "consume" /\ pc[i] \in {"idle", "returned"}
          /\ rpc' = [rpc EXCEPT ![i] = label]
          /\ UNCHANGED <<pc, runs, queued, hand, xpc, setupVars>>
    \/ /\ Running /\ cpc = "select" /\ runs # <<>> /\ queued # <<>>
       /\ runs' = Tail(runs) /\ queued' = Tail(queued)
       /\ UNCHANGED <<pc, rpc, xpc, setupVars>>
    \/ /\ hand' \in {hand, NoRun}
       /\ UNCHANGED <<pc, rpc, runs, queued, xpc, setupVars>>
    \/ /\ xpc # "closed" /\ (xpc' = "closed" => AllReturned /\ kpc = "take")
       /\ UNCHANGED <<pc, rpc, runs, queued, hand, setupVars>>
    \/ /\ S!Initialize \/ (xpc = "closed" /\ (S!CloseCollections \/ \E i \in Interfaces : S!CloseRing(i)))
       /\ UNCHANGED <<pc, rpc, runs, queued, hand, xpc>>

\* A reader in the queue's code moves alone, and only a send changes the channel.
LEMMA EnqueueMoves ==
    ASSUME NEW i \in Interfaces, MeetRun(i) \/ EnqueueStep(i)
    PROVE  /\ rpc[i] = "consume" /\ UNCHANGED <<runs, xpc>>
           /\ \E label \in AP!ReaderPC : ReaderAt(i, label)
<1> DEFINE Goal == (\E label \in AP!ReaderPC : ReaderAt(i, label)) /\ UNCHANGED <<runs, xpc>>
<1> USE DEF AP!ReaderPC, ReaderAt, A!Goto, A!queueVars, A!closeVars
<1>1. ASSUME NEW n, A!MeetSIP(i, n) \/ A!MeetRTP(i, n) PROVE Goal
  BY <1>1 DEF A!MeetSIP, A!MeetRTP
<1>2. ASSUME A!TurnedAway(i) \/ A!AnnounceSIP(i) \/ A!QuitSIP(i) \/ A!ReserveSIP(i) PROVE Goal
  BY <1>2 DEF A!TurnedAway, A!AnnounceSIP, A!QuitSIP, A!ReserveSIP
<1>3. ASSUME A!RefuseSIP(i) \/ A!Park(i) \/ A!Wake(i) \/ A!RLock(i) PROVE Goal
  BY <1>3 DEF A!RefuseSIP, A!Park, A!Wake, A!RLock
<1>4. ASSUME A!FinishSIP(i) PROVE Goal
  BY <1>4 DEF A!FinishSIP
<1>5. ASSUME A!ReserveRTP(i) PROVE Goal
  BY <1>5 DEF A!ReserveRTP
<1>6. rpc[i] = "consume"
  BY DEF MeetRun, EnqueueStep
<1> QED
  BY <1>1, <1>2, <1>3, <1>4, <1>5, <1>6 DEF MeetRun, EnqueueStep

\* What a reader sends goes on both views of the channel.
LEMMA SendMoves ==
    ASSUME AP!IInv, RP!IInv, NEW i \in Interfaces, SendRun(i)
    PROVE  /\ rpc[i] = "consume" /\ UNCHANGED <<rpc, hand, xpc, setupVars>>
           /\ \E label \in AP!ReaderPC : ReaderAt(i, label)
           /\ \E r \in AP!Run : r.iface = i /\ runs' = Append(runs, r)
           /\ \E q \in RP!Run : q.iface = i /\ queued' = Append(queued, q)
<1>1. rpc[i] = "consume" /\ UNCHANGED <<rpc, hand, setupVars>>
  BY DEF SendRun, R!Retain, R!readerState, ownVars
<1>2. /\ UNCHANGED xpc
      /\ \E label \in AP!ReaderPC : ReaderAt(i, label)
      /\ \E r \in AP!Run : r.iface = i /\ runs' = Append(runs, r)
  <2>1. AP!RunsFit
    BY DEF AP!IInv
  <2>2. CASE A!SendSIP(i)
    <3> DEFINE r == [iface |-> i, len |-> len[i]]
    <3>1. r \in AP!Run
      BY <2>1, <2>2 DEF AP!RunsFit, A!SendSIP, AP!Run
    <3> QED
      BY <2>2, <3>1 DEF A!SendSIP, A!Goto, A!closeVars, AP!ReaderPC, ReaderAt
  <2>3. CASE A!SendRTP(i)
    <3> DEFINE r == [iface |-> i, len |-> accepted[i]]
    <3>1. r \in AP!Run
      BY <2>1, <2>3 DEF AP!RunsFit, A!SendRTP, AP!Run
    <3> QED
      BY <2>3, <3>1 DEF A!SendRTP, A!Goto, A!closeVars, AP!ReaderPC, ReaderAt
  <2> QED
    BY <2>2, <2>3 DEF SendRun
<1>3. \E q \in RP!Run : q.iface = i /\ queued' = Append(queued, q)
  <2> DEFINE p == R!Physical(i)
             q == [iface |-> i, block |-> p, fill |-> content[i][p]]
  <2>1. p = RP!Physical(i)
    BY DEF R!Physical, RP!Physical
  <2>2. p \in RP!Blocks
    <3>1. RP!TypeOK
      BY DEF RP!IInv
    <3> QED
      BY <2>1, <3>1, RingConstants, RP!PhysicalType
  <2>3. content[i][p] \in Nat
    BY <2>2 DEF RP!IInv, RP!TypeOK
  <2>4. queued' = Append(queued, q)
    BY DEF SendRun, R!Retain
  <2> HIDE DEF p
  <2>5. q \in RP!Run
    BY <2>2, <2>3 DEF RP!Run
  <2> QED
    BY <2>4, <2>5
<1> QED
  BY <1>1, <1>2, <1>3

\* A reader between two blocks.
LEMMA ReaderMoves ==
    ASSUME NEW i \in Interfaces, ReaderStep(i)
    PROVE  /\ rpc[i] \notin {"consume", "returned"}
           /\ \E label \in RP!RingPC : rpc' = [rpc EXCEPT ![i] = label]
           /\ pc' = pc \/ ReaderAt(i, "returned")
           /\ UNCHANGED <<runs, queued, hand, xpc, setupVars>>
<1> DEFINE Goal == /\ rpc[i] \notin {"consume", "returned"}
                   /\ \E label \in RP!RingPC : rpc' = [rpc EXCEPT ![i] = label]
                   /\ UNCHANGED <<queued, hand>>
<1> USE DEF R!RGoto, R!runVars, RP!RingPC
<1>1. R!WaitForRelease(i) => Goal
  BY DEF R!WaitForRelease
<1>2. R!Borrow(i) \/ R!NotReady(i) => Goal
  BY DEF R!Borrow, R!NotReady
<1>3. R!Polled(i) \/ R!InterfaceLost(i) => Goal
  BY DEF R!Polled, R!InterfaceLost
<1>4. R!NotifySelf(i) => Goal
  BY DEF R!NotifySelf
<1>5. R!NextBlock(i) \/ R!StopReading(i) \/ R!RejectBlock(i) => Goal
  BY DEF R!NextBlock, R!StopReading, R!RejectBlock
<1>6. Goal
  BY <1>1, <1>2, <1>3, <1>4, <1>5 DEF ReaderStep, R!FindBlock
<1>7. A!Return(i) => ReaderAt(i, "returned") /\ UNCHANGED <<runs, xpc>>
  BY DEF A!Return, A!Goto, ReaderAt, A!queueVars, A!closeVars
<1>8. (pc' = pc \/ ReaderAt(i, "returned")) /\ UNCHANGED <<runs, xpc, setupVars>>
  BY <1>7 DEF ReaderStep, queueSide, ownVars
<1> QED
  BY <1>6, <1>8

\* A reader at the end of a block.
LEMMA EndMoves ==
    ASSUME NEW i \in Interfaces, EndBlock(i)
    PROVE  /\ rpc[i] = "consume" /\ pc[i] \in {"idle", "returned"}
           /\ \E label \in RP!RingPC : rpc' = [rpc EXCEPT ![i] = label]
           /\ UNCHANGED <<pc, runs, queued, hand, xpc, setupVars>>
<1>1. /\ rpc[i] = "consume" /\ pc[i] \in {"idle", "returned"}
      /\ UNCHANGED <<pc, runs, queued, hand, xpc, setupVars>>
  BY DEF EndBlock, R!EndBlock, R!runVars, queueSide, ownVars
<1>2. \E label \in RP!RingPC : rpc' = [rpc EXCEPT ![i] = label]
  BY DEF EndBlock, R!EndBlock, R!RGoto, R!AfterBlock, RP!RingPC
<1> QED
  BY <1>1, <1>2

\* The consumer receives on both views of the channel, and gives up what it has in hand.
LEMMA TakeMoves ==
    ASSUME Running, TakeRun
    PROVE  /\ Running /\ cpc = "select" /\ runs # <<>> /\ queued # <<>>
           /\ runs' = Tail(runs) /\ queued' = Tail(queued)
           /\ UNCHANGED <<pc, rpc, xpc, setupVars>>
BY DEF TakeRun, A!TakeRun, A!DrainRun, R!Take, A!readerVars, A!closeVars, R!readerState, ownVars

LEMMA ReleaseMoves ==
    ASSUME ConsumerStep \/ ReleaseRun \/ NotifyReader
    PROVE  /\ hand' \in {hand, NoRun}
           /\ UNCHANGED <<pc, rpc, runs, queued, xpc, setupVars>>
<1>1. ConsumerStep \/ ReleaseRun => UNCHANGED <<pc, runs, xpc>>
  BY DEF ConsumerStep, ReleaseRun, A!Poll, A!StartDraining, A!DrainedEmpty, A!DequeueFrame,
     A!Subtract, A!CheckPending, A!SignalPending, A!FinishRun, A!queueVars, A!readerVars, A!closeVars
<1>2. NotifyReader => /\ UNCHANGED <<pc, runs, xpc>> /\ hand' = NoRun
                      /\ UNCHANGED <<rpc, queued, setupVars>>
  BY DEF NotifyReader, R!NotifyReader, queueSide, ownVars
<1>3. ReleaseRun => hand' \in {hand, NoRun} /\ UNCHANGED <<rpc, queued, setupVars>>
  BY DEF ReleaseRun, R!ReleaseRun, R!readerState, ownVars
<1>4. ConsumerStep => hand' = hand /\ UNCHANGED <<rpc, queued, setupVars>>
  BY DEF ConsumerStep, ringVars, ownVars
<1> QED
  BY <1>1, <1>2, <1>3, <1>4

LEMMA CloseMoves ==
    ASSUME BeginClose \/ StopAndSignal \/ Waited
    PROVE  /\ xpc # "closed" /\ (xpc' = "closed" => AllReturned /\ kpc = "take")
           /\ UNCHANGED <<pc, rpc, runs, queued, hand, setupVars>>
BY DEF BeginClose, StopAndSignal, Waited, A!BeginClose, A!StopQueue, A!CloseDone, A!Waited,
   A!queueVars, A!readerVars, ringVars, ownVars

LEMMA ViewKinds ==
    ASSUME AP!IInv, RP!IInv, [Next]_vars
    PROVE  ViewStep
<1>1. ASSUME NEW i \in Interfaces, MeetRun(i) \/ EnqueueStep(i) PROVE ViewStep
  <2>1. UNCHANGED <<rpc, queued, hand, setupVars>>
    BY <1>1 DEF MeetRun, EnqueueStep, ringVars, ownVars
  <2> QED
    BY <1>1, <2>1, EnqueueMoves DEF ViewStep
<1>2. ASSUME NEW i \in Interfaces, Running, SendRun(i) PROVE ViewStep
  <2>1. PICK label \in AP!ReaderPC : ReaderAt(i, label)
    BY <1>2, SendMoves
  <2>2. PICK r \in AP!Run : r.iface = i /\ runs' = Append(runs, r)
    BY <1>2, SendMoves
  <2>3. PICK q \in RP!Run : q.iface = i /\ queued' = Append(queued, q)
    BY <1>2, SendMoves
  <2>4. rpc[i] = "consume" /\ UNCHANGED <<rpc, hand, xpc, setupVars>>
    BY <1>2, SendMoves
  <2> QED
    BY <1>2, <2>1, <2>2, <2>3, <2>4 DEF ViewStep
<1>3. ASSUME NEW i \in Interfaces, ReaderStep(i) PROVE ViewStep
  BY <1>3, ReaderMoves DEF ViewStep
<1>4. ASSUME NEW i \in Interfaces, EndBlock(i) PROVE ViewStep
  BY <1>4, EndMoves DEF ViewStep
<1>5. ASSUME Running, TakeRun PROVE ViewStep
  BY <1>5, TakeMoves DEF ViewStep
<1>6. ASSUME ConsumerStep \/ ReleaseRun \/ NotifyReader PROVE ViewStep
  BY <1>6, ReleaseMoves DEF ViewStep
<1>7. ASSUME BeginClose \/ StopAndSignal \/ Waited PROVE ViewStep
  BY <1>7, CloseMoves DEF ViewStep
<1>8. ASSUME Initialize \/ CloseRings PROVE ViewStep
  BY <1>8 DEF Initialize, CloseRings, queueSide, ringVars, ViewStep
<1>9. ASSUME NEW i \in Interfaces, FillBlock(i) PROVE ViewStep
  BY <1>9 DEF FillBlock, R!FillBlock, R!readerState, R!runVars, queueSide, ownVars, ViewStep
<1>10. UNCHANGED vars => ViewStep
  BY DEF vars, queueSide, ringVars, ownVars, ViewStep
<1> QED
  BY <1>1, <1>2, <1>3, <1>4, <1>5, <1>6, <1>7, <1>8, <1>9, <1>10 DEF Next, Reader, Consumer,
     Close, Terminated

\* The two views stay together.
LEMMA ViewsStep ==
    ASSUME AP!IInv, RP!IInv, ViewsAgree, ViewStep
    PROVE  ViewsAgree'
<1> /\ pc \in [Interfaces -> AP!ReaderPC] /\ runs \in Seq(AP!Run)
    /\ rpc \in [Interfaces -> RP!RingPC] /\ queued \in Seq(RP!Run)
  BY DEF AP!IInv, AP!TypeOK, AP!ReaderTypeOK, AP!QueueTypeOK, RP!IInv, RP!TypeOK
<1> DEFINE Threads == \A i \in Interfaces : pc[i] \notin {"idle", "returned"} => rpc[i] = "consume"
           Channels == /\ Len(runs) = Len(queued)
                       /\ \A k \in DOMAIN runs : runs[k].iface = queued[k].iface
<1>1. Threads /\ Channels /\ (ViewsAgree' <=> Threads' /\ Channels')
  BY DEF ViewsAgree
<1> USE DEF ReaderAt
<1>2. ASSUME NEW i \in Interfaces, NEW label \in AP!ReaderPC, rpc[i] = "consume",
             ReaderAt(i, label), UNCHANGED rpc
      PROVE  Threads'
  BY <1>1, <1>2
<1>3. ASSUME NEW i \in Interfaces, NEW label \in RP!RingPC,
             rpc' = [rpc EXCEPT ![i] = label],
             \/ rpc[i] # "consume" /\ (pc' = pc \/ ReaderAt(i, "returned"))
             \/ pc[i] \in {"idle", "returned"} /\ pc' = pc
      PROVE  Threads'
  BY <1>1, <1>3
<1>4. UNCHANGED <<pc, rpc>> => Threads'
  BY <1>1
<1>5. UNCHANGED <<runs, queued>> => Channels'
  BY <1>1
<1>6. ASSUME NEW i \in Interfaces, NEW r \in AP!Run, NEW q \in RP!Run, r.iface = i, q.iface = i,
             runs' = Append(runs, r), queued' = Append(queued, q)
      PROVE  Channels'
  <2> DEFINE n == Len(runs)
  <2>1. n \in Nat /\ Len(queued) = n /\ DOMAIN runs = 1..n
    BY <1>1, LenProperties
  <2>2. /\ Len(runs') = n + 1 /\ DOMAIN runs' = 1..(n + 1) /\ runs'[n + 1] = r
        /\ \A k \in 1..n : runs'[k] = runs[k]
    BY <1>6, <2>1, AppendProperties
  <2>3. /\ Len(queued') = n + 1 /\ queued'[n + 1] = q
        /\ \A k \in 1..n : queued'[k] = queued[k]
    BY <1>6, <2>1, AppendProperties
  <2> QED
    BY <1>1, <1>6, <2>1, <2>2, <2>3
<1>7. ASSUME runs # <<>>, queued # <<>>, runs' = Tail(runs), queued' = Tail(queued)
      PROVE  Channels'
  <2> DEFINE n == Len(runs)
  <2>1. n \in Nat /\ Len(queued) = n /\ DOMAIN runs = 1..n
    BY <1>1, LenProperties
  <2>2. /\ Len(runs') = n - 1 /\ DOMAIN runs' = 1..(n - 1)
        /\ \A k \in 1..(n - 1) : runs'[k] = runs[k + 1]
    BY <1>7, HeadTailProperties, LenProperties
  <2>3. /\ Len(queued') = n - 1
        /\ \A k \in 1..(n - 1) : queued'[k] = queued[k + 1]
    BY <1>7, <2>1, HeadTailProperties, LenProperties
  <2> HIDE DEF n
  <2>4. \A k \in 1..(n - 1) : k + 1 \in DOMAIN runs
    BY <2>1
  <2>5. \A k \in DOMAIN runs' : runs'[k].iface = queued'[k].iface
    BY <1>1, <2>2, <2>3, <2>4
  <2> QED
    BY <2>2, <2>3, <2>5
<1>8. Threads' /\ Channels'
  BY <1>2, <1>3, <1>4, <1>5, <1>6, <1>7 DEF ViewStep
<1> QED
  BY <1>1, <1>8

\* Setting up one interface, giving everything up and closing.
LEMMA SetupStep ==
    ASSUME StagesOK, OwnersHold, MappedMeanwhile,
           S!Initialize \/ S!CloseCollections \/ \E i \in Interfaces : S!CloseRing(i)
    PROVE  StagesOK' /\ OwnersHold' /\ MappedMeanwhile'
<1> USE DEF StagesOK, OwnersHold, MappedMeanwhile, Acquired, Kinds, SetupStages, Started
<1>1. ASSUME S!MeetPrerequisites PROVE StagesOK' /\ OwnersHold' /\ MappedMeanwhile'
  BY <1>1 DEF S!MeetPrerequisites
<1>2. ASSUME NEW i \in Interfaces, S!Load(i) PROVE StagesOK' /\ OwnersHold' /\ MappedMeanwhile'
  BY <1>2 DEF S!Load, S!Collection
<1>3. ASSUME S!Configure \/ S!AttachFilter PROVE StagesOK' /\ OwnersHold' /\ MappedMeanwhile'
  BY <1>3 DEF S!Configure, S!AttachFilter
<1>4. ASSUME S!OpenSocket PROVE StagesOK' /\ OwnersHold' /\ MappedMeanwhile'
  BY <1>4 DEF S!OpenSocket
<1>5. ASSUME S!ConfigureRing PROVE StagesOK' /\ OwnersHold' /\ MappedMeanwhile'
  BY <1>5 DEF S!ConfigureRing
<1>6. ASSUME S!MapRing PROVE StagesOK' /\ OwnersHold' /\ MappedMeanwhile'
  BY <1>6 DEF S!MapRing
<1>7. ASSUME S!Fail PROVE StagesOK' /\ OwnersHold' /\ MappedMeanwhile'
  <2>1. \A i \in Interfaces : \A kind \in Kinds :
           <<kind, i>> \in held => <<kind, i>> \in S!RingParts(i) \cup {S!Collection(i)}
    BY DEF S!RingParts, S!Collection
  <2>2. \A i \in created :
           S!RingParts(i) \cup {S!Collection(i)} \subseteq S!Undone \cup S!ReleasedAll
    BY DEF S!ReleasedAll
  <2>3. \A kind \in Acquired : <<kind, current>> \in held => <<kind, current>> \in S!Undone
    BY DEF S!Undone, S!RingParts, S!Collection
  <2>4. ASSUME NEW x \in held PROVE x \in S!Undone \cup S!ReleasedAll
    <3>1. PICK i \in Interfaces, kind \in Kinds :
             x = <<kind, i>> /\ (i \in created \/ (i = current /\ kind \in Acquired))
      OBVIOUS
    <3>2. CASE i \in created
      BY <2>1, <2>2, <3>1, <3>2
    <3>3. CASE i = current /\ kind \in Acquired
      BY <2>3, <3>1, <3>3
    <3> QED
      BY <3>1, <3>2, <3>3
  <2>5. held' = {}
    BY <1>7, <2>4 DEF S!Fail
  <2> QED
    BY <1>7, <2>5 DEF S!Fail
<1>8. ASSUME S!Start PROVE StagesOK' /\ OwnersHold' /\ MappedMeanwhile'
  BY <1>8 DEF S!Start
<1>9. ASSUME S!CloseCollections PROVE StagesOK' /\ OwnersHold' /\ MappedMeanwhile'
  BY <1>9 DEF S!CloseCollections, S!Collection
<1>10. ASSUME NEW i \in Interfaces, S!CloseRing(i) PROVE StagesOK' /\ OwnersHold' /\ MappedMeanwhile'
  BY <1>10 DEF S!CloseRing, S!RingParts
<1> QED
  BY <1>1, <1>2, <1>3, <1>4, <1>5, <1>6, <1>7, <1>8, <1>9, <1>10 DEF S!Initialize

\* A step that fails undoes what it acquired, and releaseAll gives back the rest.
LEMMA ReleaseStep ==
    ASSUME StagesOK, ReleasedOnce,
           S!Initialize \/ S!CloseCollections \/ \E i \in Interfaces : S!CloseRing(i)
    PROVE  ReleasedOnce'
<1> USE DEF StagesOK, ReleasedOnce, Acquired, SetupStages, Started
<1>1. ASSUME S!MeetPrerequisites PROVE ReleasedOnce'
  BY <1>1 DEF S!MeetPrerequisites
<1>2. ASSUME NEW i \in Interfaces, S!Load(i) PROVE ReleasedOnce'
  BY <1>2 DEF S!Load, S!Collection
<1>3. ASSUME S!Configure \/ S!AttachFilter PROVE ReleasedOnce'
  BY <1>3 DEF S!Configure, S!AttachFilter
<1>4. ASSUME S!OpenSocket PROVE ReleasedOnce'
  BY <1>4 DEF S!OpenSocket
<1>5. ASSUME S!ConfigureRing PROVE ReleasedOnce'
  BY <1>5 DEF S!ConfigureRing
<1>6. ASSUME S!MapRing PROVE ReleasedOnce'
  BY <1>6 DEF S!MapRing
<1>7. ASSUME S!Fail PROVE ReleasedOnce'
  <2>1. S!Undone \subseteq held
    BY DEF S!Undone, S!RingParts, S!Collection
  <2>2. ASSUME NEW i \in created
        PROVE  /\ S!RingParts(i) \ S!Undone \subseteq held \ S!Undone
               /\ S!Collection(i) \in held \ S!Undone
    <3>1. stage \in SetupStages
      BY <1>7 DEF S!Fail
    <3>2. S!Collection(i) \notin S!Undone
      <4>1. stage \in SetupStages \ {"start", "next"} => i # current
        BY <3>1
      <4>2. S!Undone # {} => stage \in SetupStages \ {"start", "next"}
        BY DEF S!Undone
      <4> QED
        BY <4>1, <4>2 DEF S!Undone, S!RingParts, S!Collection
    <3> QED
      BY <3>1, <3>2 DEF S!RingParts, S!Collection
  <2>3. S!ReleasedAll \subseteq held \ S!Undone
    BY <2>2 DEF S!ReleasedAll
  <2>4. misfreed' = {}
    BY <1>7, <2>1, <2>3 DEF S!Fail
  <2> QED
    BY <1>7, <2>4 DEF S!Fail
<1>8. ASSUME S!Start PROVE ReleasedOnce'
  BY <1>8 DEF S!Start
<1>9. ASSUME S!CloseCollections PROVE ReleasedOnce'
  BY <1>9 DEF S!CloseCollections, S!Collection
<1>10. ASSUME NEW i \in Interfaces, S!CloseRing(i) PROVE ReleasedOnce'
  BY <1>10 DEF S!CloseRing
<1> QED
  BY <1>1, <1>2, <1>3, <1>4, <1>5, <1>6, <1>7, <1>8, <1>9, <1>10 DEF S!Initialize

\* Nothing is on its way before startWorkers and after wg.Wait.
LEMMA RunningStep ==
    ASSUME AP!IInv, RP!IInv, StagesOK, RunsWhileRunning, ViewStep
    PROVE  RunsWhileRunning'
<1> rpc \in [Interfaces -> RP!RingPC]
  BY DEF RP!IInv, RP!TypeOK
<1> USE DEF RunsWhileRunning, Started, AllReturned, Running
<1>1. xpc = "closed" => cpc # "select"
  BY DEF AP!IInv, AP!ShutInOrder
<1>2. kpc = "take" => hand = NoRun
  BY DEF RP!IInv, RP!HandFull
<1>3. ASSUME S!Initialize, UNCHANGED <<rpc, queued, hand, xpc>> PROVE RunsWhileRunning'
  <2>1. stage \in SetupStages /\ stage' # "collectionsClosed"
    BY <1>3 DEF S!Initialize, S!MeetPrerequisites, S!Load, S!Configure, S!OpenSocket, S!AttachFilter,
       S!ConfigureRing, S!MapRing, S!Fail, S!Start, SetupStages
  <2> QED
    BY <1>3, <2>1 DEF SetupStages
<1>4. ASSUME xpc = "closed", S!CloseCollections \/ \E i \in Interfaces : S!CloseRing(i),
             UNCHANGED <<rpc, queued, hand, xpc>>
      PROVE  RunsWhileRunning'
  BY <1>4 DEF S!CloseCollections, S!CloseRing
<1> QED
  BY <1>1, <1>2, <1>3, <1>4 DEF ViewStep, setupVars

LEMMA SetupStays ==
    ASSUME StagesOK, OwnersHold, MappedMeanwhile, ReleasedOnce, UNCHANGED setupVars
    PROVE  StagesOK' /\ OwnersHold' /\ MappedMeanwhile' /\ ReleasedOnce'
BY DEF setupVars, StagesOK, OwnersHold, MappedMeanwhile, ReleasedOnce, Started, Acquired

LEMMA InitCInv == Init => CInv
<1> SUFFICES ASSUME Init PROVE CInv
  OBVIOUS
<1>1. stage = "start" /\ created = {} /\ held = {} /\ misfreed = {}
  BY DEF Init, S!Init
<1>2. StagesOK /\ OwnersHold /\ MappedMeanwhile /\ ReleasedOnce
  BY <1>1 DEF StagesOK, OwnersHold, MappedMeanwhile, ReleasedOnce, Acquired, SetupStages, Started
<1>3. \A i \in Interfaces : pc[i] = "idle"
  BY DEF Init, A!Init
<1>4. runs = <<>> /\ xpc = "running"
  BY DEF Init, A!Init
<1>5. queued = <<>> /\ hand = NoRun
  BY DEF Init, R!Init
<1> QED
  BY <1>1, <1>2, <1>3, <1>4, <1>5 DEF CInv, ViewsAgree, RunsWhileRunning

LEMMA NextCInv ==
    ASSUME AP!IInv, RP!IInv, CInv, [Next]_vars
    PROVE  CInv'
<1>1. ViewStep
  BY ViewKinds
<1>2. ViewsAgree' /\ RunsWhileRunning'
  BY <1>1, ViewsStep, RunningStep DEF CInv
<1>3. \/ S!Initialize \/ S!CloseCollections \/ \E i \in Interfaces : S!CloseRing(i)
      \/ UNCHANGED setupVars
  BY <1>1 DEF ViewStep
<1>4. StagesOK' /\ OwnersHold' /\ MappedMeanwhile' /\ ReleasedOnce'
  BY <1>3, SetupStep, ReleaseStep, SetupStays DEF CInv
<1> QED
  BY <1>2, <1>4 DEF CInv

LEMMA Invariance == Spec => [](CInv /\ AP!IInv /\ RP!IInv)
<1>1. Init => CInv
  BY InitCInv
<1>2. AP!IInv /\ RP!IInv /\ CInv /\ [Next]_vars => CInv'
  BY NextCInv
<1> QED
  BY <1>1, <1>2, QueueInvariant, RingsInvariant, PTL DEF Spec

-----------------------------------------------------------------------------
(* The properties.                                                         *)

\* An interface whose runs are on their way is mapped: Close unmaps the rings only once
\* wg.Wait has returned (exporter.go Close).
THEOREM FramesStayReadable == Spec => []FramesReadable
<1>1. ASSUME CInv, AP!IInv, RP!IInv PROVE FramesReadable
  <2>1. ViewsAgree
    BY <1>1 DEF CInv
  <2>2. R!LentBlocksStayPut
    BY <1>1 DEF RP!IInv, RP!LentBlocksStayPut, R!LentBlocksStayPut, RP!InPlace, R!InPlace
  <2>3. ASSUME queued # <<>> \/ hand # NoRun, NEW i \in Interfaces PROVE S!Mapped(i)
    <3>1. stage # "collectionsClosed"
      <4> SUFFICES ASSUME stage = "collectionsClosed" PROVE FALSE
        OBVIOUS
      <4>1. xpc = "closed" /\ hand = NoRun
        BY <1>1 DEF CInv, RunsWhileRunning
      <4>2. runs = <<>>
        BY <1>1, <4>1 DEF AP!IInv, AP!ShutInOrder
      <4>3. queued \in Seq(RP!Run)
        BY <1>1 DEF RP!IInv, RP!TypeOK
      <4>4. Len(queued) = 0
        BY <2>1, <4>2 DEF ViewsAgree
      <4> QED
        BY <2>3, <4>1, <4>3, <4>4, EmptySeq
    <3>2. stage = "running" /\ created = Interfaces
      BY <1>1, <2>3, <3>1 DEF CInv, RunsWhileRunning, Started, StagesOK
    <3> QED
      BY <1>1, <3>2 DEF CInv, MappedMeanwhile, S!Mapped
  <2>4. ASSUME NEW k \in DOMAIN queued PROVE S!Mapped(queued[k].iface)
    <3>1. queued \in Seq(RP!Run)
      BY <1>1 DEF RP!IInv, RP!TypeOK
    <3>2. queued[k] \in RP!Run /\ queued # <<>>
      BY <3>1, ElementOfSeq, LenProperties, EmptySeq
    <3> QED
      BY <2>3, <3>2 DEF RP!Run
  <2>5. hand # NoRun => S!Mapped(hand.iface)
    <3>1. hand \in RP!Run \cup {NoRun}
      BY <1>1 DEF RP!IInv, RP!TypeOK
    <3> QED
      BY <2>3, <3>1 DEF RP!Run
  <2> QED
    BY <2>1, <2>2, <2>4, <2>5 DEF FramesReadable
<1> QED
  BY <1>1, Invariance, PTL

\* A failing Initialize, at whichever step, and a Close that is through hold no
\* collection, socket, ring or mapping, and none was released twice (exporter.go
\* releaseAll, Close).
THEOREM NothingIsLeft == Spec => []EverythingReleased
<1>1. ASSUME CInv PROVE EverythingReleased
  <2> SUFFICES ASSUME stage = "collectionsClosed", \A i \in created : ~S!Mapped(i)
               PROVE  held = {}
    BY <1>1 DEF EverythingReleased, S!EverythingReleased, S!Ended, CInv, MappedMeanwhile,
       ReleasedOnce
  <2>1. created = Interfaces
    BY <1>1 DEF CInv, StagesOK, Started
  <2> QED
    BY <1>1, <2>1 DEF CInv, OwnersHold, MappedMeanwhile, S!Mapped
<1> QED
  BY <1>1, Invariance, PTL

\* When the rings are unmapped no goroutine uses them, no run is on its way and no
\* block is lent (exporter.go Close after wg.Wait).
THEOREM UnmappedWhenQuiet == Spec => []UnmappedIsQuiet
<1>1. ASSUME CInv, AP!IInv, RP!IInv, AP!ClosedIsEmpty PROVE UnmappedIsQuiet
  <2> SUFFICES ASSUME stage = "collectionsClosed"
               PROVE  /\ queued = <<>> /\ hand = NoRun /\ queuedPackets = 0
                      /\ \A i \in Interfaces : /\ rpc[i] = "returned"
                                               /\ \A b \in R!Blocks : references[i][b] = 0
    BY DEF UnmappedIsQuiet
  <2>1. xpc = "closed" /\ hand = NoRun /\ AllReturned
    BY <1>1 DEF CInv, RunsWhileRunning
  <2>2. runs = <<>>
    BY <1>1, <2>1 DEF AP!IInv, AP!ShutInOrder
  <2>3. queued = <<>>
    <3>1. queued \in Seq(RP!Run) /\ Len(queued) = 0
      BY <1>1, <2>2 DEF RP!IInv, RP!TypeOK, CInv, ViewsAgree
    <3> QED
      BY <3>1, EmptySeq
  <2>4. queuedPackets = 0
    BY <1>1, <2>1 DEF AP!ClosedIsEmpty
  <2>5. ASSUME NEW i \in Interfaces, NEW b \in R!Blocks PROVE references[i][b] = 0
    <3>1. b \in RP!Blocks /\ rpc[i] = "returned"
      BY <2>1 DEF R!Blocks, RP!Blocks, AllReturned
    <3> QED
      BY <1>1, <2>1, <2>3, <3>1, RingConstants, RP!Unreferenced
  <2> QED
    BY <2>1, <2>3, <2>4, <2>5 DEF AllReturned
<1>2. AP!Spec => []AP!ClosedIsEmpty
  BY QueueConstants, AP!ClosesEmpty
<1> QED
  BY <1>1, <1>2, QueueInside, Invariance, PTL
=============================================================================
