----------------------------- MODULE PacketRing -----------------------------
(***************************************************************************)
(* The TPACKET_V3 ring of each capture interface and the ownership of its  *)
(* blocks (internal/exporter/packet_ring.go and the read loop of           *)
(* internal/exporter/exporter.go).  The kernel fills blocks in turn; the   *)
(* reader hands the packets of a block, still in place, to the consumer as *)
(* runs that each hold a reference to the block; the last reference gives  *)
(* the block back to the kernel and tells the reader so.                   *)
(*                                                                         *)
(* The admission queue in between is PacketAdmission; here `queued` only   *)
(* holds which block each run borrows.  Capture joins the two.             *)
(***************************************************************************)
EXTENDS Integers, FiniteSets, Sequences

CONSTANTS Interfaces,
          BlockCount,   \* blocks of a ring
          Wrap,         \* 2^32: blockIndex is a uint32
          MaxBlocks,    \* bound: blocks the kernel fills in each ring
          MaxSplit,     \* bound: runs that borrow a block at once
          NoRun         \* the consumer holds no run

ASSUME RingAssumption == BlockCount \in Nat \ {0} /\ MaxBlocks \in [Interfaces -> Nat] /\ MaxSplit \in Nat

\* The ring has 8 blocks, so the wrap of blockIndex falls between two rounds.
ASSUME WrapAssumption == Wrap \in Nat \ {0} /\ Wrap % BlockCount = 0

Blocks == 0..(BlockCount - 1)
Run == [iface : Interfaces, block : Blocks, fill : Nat]
ASSUME NoRunAssumption == NoRun \notin Run

VARIABLES
    \* shared memory, per interface and block
    status,         \* block_status: "kernel" or "user"
    content,        \* which fill of the ring the block holds, 0 for none
    filled,         \* blocks the kernel has filled in this ring
    \* per reader
    rpc,
    blockIndex,
    borrowed,       \* blocks with borrowed[b] set
    count,          \* packetRingBorrowedBlocks.count
    notifications,  \* the releaseNotifications channel
    keep,           \* keepReading, from enqueueBlock
    \* per block
    references,     \* packetRingBlockOwnership.references
    \* the runs and the consumer
    queued,         \* runs sent and not received
    hand,           \* the run the consumer works on
    kpc,
    done            \* the done channel is closed

memoryVars  == <<status, content, filled>>
readerState == <<rpc, blockIndex, borrowed, count, notifications, keep>>
runVars     == <<queued, hand, kpc>>
ringVars    == <<memoryVars, readerState, references, runVars>>
vars        == <<ringVars, done>>

RingPC == {"next", "decode", "waitRelease", "poll", "consume", "notify", "returned"}

Init ==
    /\ status = [i \in Interfaces |-> [b \in Blocks |-> "kernel"]]
    /\ content = [i \in Interfaces |-> [b \in Blocks |-> 0]]
    /\ filled = [i \in Interfaces |-> 0]
    /\ rpc = [i \in Interfaces |-> "next"]
    /\ blockIndex = [i \in Interfaces |-> 0]
    /\ borrowed = [i \in Interfaces |-> {}]
    /\ count = [i \in Interfaces |-> 0]
    /\ notifications = [i \in Interfaces |-> <<>>]
    /\ keep = [i \in Interfaces |-> TRUE]
    /\ references = [i \in Interfaces |-> [b \in Blocks |-> 0]]
    /\ queued = <<>> /\ hand = NoRun /\ kpc = "take"
    /\ done = FALSE

Physical(i) == blockIndex[i] % BlockCount
NextIndex(i) == blockIndex' = [blockIndex EXCEPT ![i] = (@ + 1) % Wrap]
RGoto(i, label) == rpc' = [rpc EXCEPT ![i] = label]

-----------------------------------------------------------------------------
(* The kernel (external): fills the next block of the ring once it owns    *)
(* it, and drops packets while it does not.                                *)

FillBlock(i) ==
    LET b == filled[i] % BlockCount
    IN /\ filled[i] < MaxBlocks[i]
       /\ status[i][b] = "kernel"
       /\ filled' = [filled EXCEPT ![i] = @ + 1]
       /\ content' = [content EXCEPT ![i][b] = filled[i] + 1]
       /\ status' = [status EXCEPT ![i][b] = "user"]
       /\ UNCHANGED <<readerState, references, runVars, done>>

-----------------------------------------------------------------------------
(* The reader: readPacketRing and nextPacketRingBlock.                     *)

\* waitUntilReusable, when there is nothing to wait for.
ReusableAlways(i) == TRUE
Reusable(i) == Physical(i) \notin borrowed[i]

NextBlock(i) ==
    /\ rpc[i] = "next" /\ Reusable(i)
    /\ RGoto(i, "decode")
    /\ UNCHANGED <<memoryVars, blockIndex, borrowed, count, notifications, keep,
                   references, runVars, done>>

\* waitForRelease: in waitUntilReusable, or because the next block is not ready
\* while others are lent out.
WaitForRelease(i) ==
    /\ \/ rpc[i] = "next" /\ ~Reusable(i)
       \/ rpc[i] = "waitRelease"
    /\ \/ /\ done
          /\ RGoto(i, "returned")
          /\ UNCHANGED <<borrowed, count, notifications>>
       \/ /\ notifications[i] # <<>>
          /\ borrowed' = [borrowed EXCEPT ![i] = @ \ {Head(notifications[i])}]
          /\ count' = [count EXCEPT ![i] = @ - 1]
          /\ notifications' = [notifications EXCEPT ![i] = Tail(@)]
          /\ RGoto(i, IF rpc[i] = "next" THEN "next" ELSE "decode")
    /\ UNCHANGED <<memoryVars, blockIndex, keep, references, runVars, done>>

\* done is looked at before the block.
StopReading(i) ==
    /\ rpc[i] = "decode" /\ done
    /\ RGoto(i, "returned")
    /\ UNCHANGED <<memoryVars, blockIndex, borrowed, count, notifications, keep,
                   references, runVars, done>>

Ready(i) == status[i][Physical(i)] = "user"

\* decodeBlock finds a filled block: it is tracked as lent out and its ownership
\* starts with the reader's own reference.
Borrow(i) ==
    /\ rpc[i] = "decode" /\ ~done /\ Ready(i)
    /\ borrowed' = [borrowed EXCEPT ![i] = @ \cup {Physical(i)}]
    /\ count' = [count EXCEPT ![i] = @ + 1]
    /\ references' = [references EXCEPT ![i][Physical(i)] = 1]
    /\ RGoto(i, "consume")
    /\ UNCHANGED <<memoryVars, blockIndex, notifications, keep, runVars, done>>

\* decodeBlock finds a malformed block header: the reader gives up its interface.
RejectBlock(i) ==
    /\ rpc[i] = "decode" /\ ~done /\ Ready(i)
    /\ RGoto(i, "returned")
    /\ UNCHANGED <<memoryVars, blockIndex, borrowed, count, notifications, keep,
                   references, runVars, done>>

NotReadyNeverPolls(i) ==
    /\ rpc[i] = "decode" /\ ~done /\ ~Ready(i)
    /\ RGoto(i, "waitRelease")
    /\ UNCHANGED <<memoryVars, blockIndex, borrowed, count, notifications, keep,
                   references, runVars, done>>

NotReady(i) ==
    /\ rpc[i] = "decode" /\ ~done /\ ~Ready(i)
    /\ RGoto(i, IF count[i] # 0 THEN "waitRelease" ELSE "poll")
    /\ UNCHANGED <<memoryVars, blockIndex, borrowed, count, notifications, keep,
                   references, runVars, done>>

\* waitPacketRing returns: readiness, the time limit or a passing error ...
Polled(i) ==
    /\ rpc[i] = "poll"
    /\ RGoto(i, "decode")
    /\ UNCHANGED <<memoryVars, blockIndex, borrowed, count, notifications, keep,
                   references, runVars, done>>

\* ... or an error after which handleReadError stops the reader.
InterfaceLost(i) ==
    /\ rpc[i] = "poll"
    /\ RGoto(i, "returned")
    /\ UNCHANGED <<memoryVars, blockIndex, borrowed, count, notifications, keep,
                   references, runVars, done>>

RetainUncounted(i) ==
    /\ rpc[i] = "consume"
    /\ queued' = Append(queued, [iface |-> i, block |-> Physical(i),
                                 fill |-> content[i][Physical(i)]])
    /\ UNCHANGED <<memoryVars, readerState, references, hand, kpc, done>>

\* reference.retain and the send of a run, in enqueueSIPRun or enqueueRTPRun.
Retain(i) ==
    /\ rpc[i] = "consume"
    /\ references' = [references EXCEPT ![i][Physical(i)] = @ + 1]
    /\ queued' = Append(queued, [iface |-> i, block |-> Physical(i),
                                 fill |-> content[i][Physical(i)]])
    /\ UNCHANGED <<memoryVars, readerState, hand, kpc, done>>

\* A reference of block b of interface i is dropped; the last one stores
\* TP_STATUS_KERNEL.
Drop(i, b) ==
    /\ references' = [references EXCEPT ![i][b] = @ - 1]
    /\ status' = IF references[i][b] = 1
                 THEN [status EXCEPT ![i][b] = "kernel"]
                 ELSE status
LastReference(i, b) == references[i][b] = 1

AfterBlock(i) == IF keep'[i] THEN "next" ELSE "returned"

\* enqueueBlock returns: the reader's own reference is dropped.  more is FALSE
\* when the queue has stopped.
EndBlock(i, more) ==
    /\ rpc[i] = "consume"
    /\ Drop(i, Physical(i))
    /\ keep' = [keep EXCEPT ![i] = more]
    /\ IF LastReference(i, Physical(i))
       THEN RGoto(i, "notify") /\ UNCHANGED blockIndex
       ELSE RGoto(i, AfterBlock(i)) /\ NextIndex(i)
    /\ UNCHANGED <<content, filled, borrowed, count, notifications, runVars, done>>

\* The reader dropped the last reference itself and sends the notification.
NotifySelf(i) ==
    /\ rpc[i] = "notify" /\ Len(notifications[i]) < BlockCount
    /\ notifications' = [notifications EXCEPT ![i] = Append(@, Physical(i))]
    /\ NextIndex(i)
    /\ RGoto(i, IF keep[i] THEN "next" ELSE "returned")
    /\ UNCHANGED <<memoryVars, borrowed, count, keep, references, runVars, done>>

-----------------------------------------------------------------------------
(* The consumer.                                                           *)

Take ==
    /\ kpc = "take" /\ queued # <<>>
    /\ hand' = Head(queued)
    /\ queued' = Tail(queued)
    /\ kpc' = "hold"
    /\ UNCHANGED <<memoryVars, readerState, references, done>>

\* run.release drops the run's reference ...
ReleaseRun ==
    /\ kpc = "hold"
    /\ Drop(hand.iface, hand.block)
    /\ IF LastReference(hand.iface, hand.block)
       THEN kpc' = "notify" /\ UNCHANGED hand
       ELSE kpc' = "take" /\ hand' = NoRun
    /\ UNCHANGED <<content, filled, readerState, queued, done>>

\* ... and, if it was the last one, notifies the reader of the block.
NotifyReader ==
    /\ kpc = "notify" /\ Len(notifications[hand.iface]) < BlockCount
    /\ notifications' = [notifications EXCEPT ![hand.iface] = Append(@, hand.block)]
    /\ kpc' = "take" /\ hand' = NoRun
    /\ UNCHANGED <<memoryVars, rpc, blockIndex, borrowed, count, keep, references,
                   queued, done>>

-----------------------------------------------------------------------------
(* The ring with a queue that admits any number of runs and may stop at    *)
(* any time, and a shutdown at any time.                                   *)

CloseDone == ~done /\ done' = TRUE /\ UNCHANGED ringVars

SendRun(i) == references[i][Physical(i)] <= MaxSplit /\ Retain(i)

\* The reader between two blocks.
FindBlock(i) == NextBlock(i) \/ WaitForRelease(i) \/ StopReading(i) \/ Borrow(i)
                \/ RejectBlock(i) \/ NotReady(i) \/ Polled(i) \/ InterfaceLost(i)
Finish(i) == \E more \in BOOLEAN : EndBlock(i, more)
Consume == Take \/ ReleaseRun \/ NotifyReader

Terminated == /\ \A i \in Interfaces : rpc[i] = "returned"
              /\ kpc = "take" /\ queued = <<>>
              /\ UNCHANGED vars

Next == \/ \E i \in Interfaces : \/ FillBlock(i) \/ FindBlock(i) \/ SendRun(i)
                                 \/ Finish(i) \/ NotifySelf(i)
        \/ Consume
        \/ CloseDone
        \/ Terminated

Spec == Init /\ [][Next]_vars

\* A goroutine that can step does; a block has finitely many runs; poll returns.
\* Nothing obliges the kernel to fill a block or Close to be called.
FairSpec == /\ Spec
            /\ \A i \in Interfaces : /\ WF_vars(FindBlock(i) \/ NotifySelf(i))
                                     /\ WF_vars(Finish(i))
            /\ WF_vars(Consume)

-----------------------------------------------------------------------------
(* Properties.                                                             *)

\* Type invariant of the rings, their readers and the consumer.
TypeOK ==
    /\ status \in [Interfaces -> [Blocks -> {"kernel", "user"}]]
    /\ content \in [Interfaces -> [Blocks -> Nat]]
    /\ filled \in [Interfaces -> Nat]
    /\ rpc \in [Interfaces -> RingPC]
    /\ blockIndex \in [Interfaces -> 0..(Wrap - 1)]
    /\ borrowed \in [Interfaces -> SUBSET Blocks]
    /\ count \in [Interfaces -> 0..BlockCount]
    /\ notifications \in [Interfaces -> Seq(Blocks)]
    /\ keep \in [Interfaces -> BOOLEAN]
    /\ references \in [Interfaces -> [Blocks -> Nat]]
    /\ queued \in Seq(Run) /\ hand \in Run \cup {NoRun}
    /\ kpc \in {"take", "hold", "notify"} /\ done \in BOOLEAN

\* The packets of a run are read in place, so the kernel must not refill the
\* block before the last of its runs is released: every run that is queued or in
\* hand still finds the fill it was cut from.
InPlace(r) == status[r.iface][r.block] = "user" /\ content[r.iface][r.block] = r.fill
LentBlocksStayPut ==
    /\ \A k \in DOMAIN queued : InPlace(queued[k])
    /\ kpc = "hold" => InPlace(hand)

\* A reader consumes the fills of its ring one by one in the kernel's order,
\* none twice (a lent block still says "user") and none left out, also where
\* blockIndex wraps.
FillsInOrder ==
    \A i \in Interfaces :
        rpc[i] = "consume" =>
            content[i][Physical(i)] % Wrap = (blockIndex[i] + 1) % Wrap

\* Runs that hold a reference to block b of interface i.
RunsOf(i, b) == {k \in DOMAIN queued : queued[k].iface = i /\ queued[k].block = b}
InHand(i, b) == hand # NoRun /\ hand.iface = i /\ hand.block = b
Being(i, b) == IF rpc[i] = "consume" /\ Physical(i) = b THEN 1 ELSE 0

\* Every reference is the reader's or a run's, and a block is on the borrowed
\* list from the borrowing until its one notification is received: references
\* at zero and a block still listed mean a notification under way.  So there is room
\* for it: the send blocks neither the reader, which alone receives, nor the consumer.
BorrowedAccounted ==
    /\ TypeOK
    /\ \A i \in Interfaces :
        /\ count[i] = Cardinality(borrowed[i])
        /\ \A b \in Blocks :
              LET notified == Cardinality({k \in DOMAIN notifications[i] :
                                              notifications[i][k] = b})
                  underway == \/ rpc[i] = "notify" /\ Physical(i) = b
                              \/ kpc = "notify" /\ InHand(i, b)
              IN /\ references[i][b] =
                        Being(i, b) + Cardinality(RunsOf(i, b))
                        + (IF kpc = "hold" /\ InHand(i, b) THEN 1 ELSE 0)
                 /\ notified <= 1
                 /\ b \in borrowed[i] <=>
                        references[i][b] > 0 \/ underway \/ notified = 1
                 /\ underway => Len(notifications[i]) < BlockCount

\* A filled block is eventually consumed and given back, unless its reader has
\* returned: waiting for a release while the next block is not ready, instead of
\* polling, does not leave a block behind.
BlocksComeBack ==
    \A i \in Interfaces : \A b \in Blocks :
        status[i][b] = "user" ~> status[i][b] = "kernel" \/ rpc[i] = "returned"
=============================================================================
