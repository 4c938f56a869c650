-------------------------- MODULE PacketRingProofs --------------------------
(***************************************************************************)
(* Theorems about PacketRing for every set of interfaces, ring size and    *)
(* bound: the type invariant, the blocks that stay put while a run borrows *)
(* them, the order of the fills, and the accounting of references and      *)
(* notifications, from one inductive invariant.                            *)
(***************************************************************************)
EXTENDS PacketRing, FiniteSetTheorems, FunctionTheorems, SequenceTheorems, TLAPS

\* The ring whose blocks any number of runs may borrow: Spec without MaxSplit.
FreeNext == \/ \E i \in Interfaces : \/ FillBlock(i) \/ FindBlock(i) \/ Retain(i)
                                     \/ Finish(i) \/ NotifySelf(i)
            \/ Consume
            \/ CloseDone
FreeSpec == Init /\ [][FreeNext]_vars

\* The consumer works on a run except when it takes one.
HandFull == kpc = "take" <=> hand = NoRun

\* Every reference is the reader's own or that of a run.
Holding(i, b) == IF kpc = "hold" /\ InHand(i, b) THEN 1 ELSE 0
CountedOf(i, b) == references[i][b] = Being(i, b) + Cardinality(RunsOf(i, b)) + Holding(i, b)
Counted == \A i \in Interfaces : \A b \in Blocks : CountedOf(i, b)

\* Why a block is on the borrowed list: it has references, or the thread that dropped
\* the last one is about to notify the reader, or the notification is in the channel.
Referenced(i, b) == references[i][b] > 0
SelfNotifies(i, b) == rpc[i] = "notify" /\ Physical(i) = b
HandNotifies(i, b) == kpc = "notify" /\ InHand(i, b)
Notified(i, b) == \E k \in DOMAIN notifications[i] : notifications[i][k] = b

OneReason(i, b) ==
    /\ Referenced(i, b) => ~SelfNotifies(i, b) /\ ~HandNotifies(i, b) /\ ~Notified(i, b)
    /\ SelfNotifies(i, b) => ~HandNotifies(i, b) /\ ~Notified(i, b)
    /\ HandNotifies(i, b) => ~Notified(i, b)
    /\ b \in borrowed[i] <=>
          Referenced(i, b) \/ SelfNotifies(i, b) \/ HandNotifies(i, b) \/ Notified(i, b)
NotifiedOnce(i) ==
    \A k, l \in DOMAIN notifications[i] : notifications[i][k] = notifications[i][l] => k = l
BorrowedListed ==
    \A i \in Interfaces : /\ \A b \in Blocks : OneReason(i, b)
                          /\ NotifiedOnce(i)
                          /\ count[i] = Cardinality(borrowed[i])

\* A referenced block is the user's.
ReferencedKept ==
    \A i \in Interfaces : \A b \in Blocks : Referenced(i, b) => status[i][b] = "user"

\* The block the reader looks at is not lent out.
LooksAtFree ==
    \A i \in Interfaces :
        rpc[i] \in {"decode", "waitRelease", "poll"} => Physical(i) \notin borrowed[i]

\* The reader has finished the first d fills of its ring.  The fills after those, at
\* most a ring of them, are all there, in their blocks, and none but the one being
\* consumed is referenced; any other block of the user's is referenced.
Slot(n) == (n - 1) % BlockCount
Ahead(i, d) == (d + 1)..filled[i]
FillThere(i, n) == content[i][Slot(n)] = n /\ status[i][Slot(n)] = "user"
Done(i, d) ==
    /\ filled[i] <= d + BlockCount
    /\ rpc[i] # "notify" => blockIndex[i] = d % Wrap
    /\ rpc[i] = "notify" => d > 0 /\ blockIndex[i] = (d - 1) % Wrap
    /\ rpc[i] = "consume" => d < filled[i]
    /\ \A n \in Ahead(i, d) :
          /\ FillThere(i, n)
          /\ Referenced(i, Slot(n)) => rpc[i] = "consume" /\ n = d + 1
    /\ \A b \in Blocks :
          status[i][b] = "user" =>
              Referenced(i, b) \/ \E n \in Ahead(i, d) : Slot(n) = b
InOrder == \A i \in Interfaces : \E d \in 0..filled[i] : Done(i, d)

IInv == /\ TypeOK /\ HandFull /\ Counted /\ BorrowedListed /\ ReferencedKept
        /\ LentBlocksStayPut /\ LooksAtFree /\ InOrder

USE RingAssumption DEF RingAssumption

-----------------------------------------------------------------------------
(* Positions modulo the size of the ring.                                  *)

LEMMA Modulo ==
  ASSUME NEW x \in Int, NEW M \in Nat \ {0}
  PROVE  /\ x \div M \in Int /\ x % M \in 0..M-1
         /\ x = M * (x \div M) + (x % M)
OBVIOUS

LEMMA Remainder ==
  ASSUME NEW q \in Int, NEW r \in Int, NEW M \in Nat \ {0}, 0 <= r, r < M
  PROVE  (M * q + r) % M = r
OBVIOUS

\* Fills less than a ring apart are in different blocks.
LEMMA SlotsDiffer ==
  ASSUME NEW m \in Nat, NEW n \in Nat, m < n, n < m + BlockCount
  PROVE  Slot(m) # Slot(n)
<1> DEFINE p == (m - 1) \div BlockCount
           q == (n - 1) \div BlockCount
           e == q - p
<1>1. m - 1 = BlockCount * p + Slot(m) /\ p \in Int /\ Slot(m) \in Int
  BY Modulo DEF Slot
<1>2. n - 1 = BlockCount * q + Slot(n) /\ q \in Int /\ Slot(n) \in Int
  BY Modulo DEF Slot
<1> SUFFICES ASSUME Slot(m) = Slot(n) PROVE FALSE
  OBVIOUS
<1> HIDE DEF p, q
<1>3. e \in Int /\ n - m = BlockCount * e
  BY <1>1, <1>2
<1> HIDE DEF e
<1>4. CASE e <= 0
  <2>1. BlockCount * e <= 0
    BY <1>3, <1>4
  <2> QED
    BY <1>3, <2>1
<1>5. CASE e >= 1
  <2>1. BlockCount * e >= BlockCount
    BY <1>3, <1>5
  <2> QED
    BY <1>3, <2>1
<1> QED
  BY <1>3, <1>4, <1>5

\* blockIndex wraps between two rounds of the ring.
LEMMA WrapKeepsSlot ==
  ASSUME NEW d \in Nat
  PROVE  (d % Wrap) % BlockCount = d % BlockCount
<1> DEFINE w == Wrap \div BlockCount
           q == d \div Wrap
           r == d % Wrap
           s == r \div BlockCount
           t == r % BlockCount
           e == w * q + s
<1>1. Wrap = BlockCount * w /\ w \in Int /\ Wrap \in Nat \ {0}
  <2>1. Wrap \in Nat \ {0} /\ Wrap % BlockCount = 0
    BY WrapAssumption DEF WrapAssumption
  <2>2. Wrap = BlockCount * w + (Wrap % BlockCount) /\ w \in Int
    BY <2>1, Modulo
  <2> HIDE DEF w
  <2> QED
    BY <2>1, <2>2
<1>2. d = Wrap * q + r /\ q \in Int /\ r \in Int
  BY <1>1, Modulo
<1> HIDE DEF w, q, r
<1>3. r = BlockCount * s + t /\ s \in Int /\ t \in 0..BlockCount-1
  BY <1>2, Modulo
<1> HIDE DEF s, t
<1>4. e \in Int
  BY <1>1, <1>2, <1>3
<1>5. d = BlockCount * e + t
  <2>1. Wrap * q = BlockCount * (w * q)
    BY <1>1, <1>2
  <2>2. BlockCount * e = BlockCount * (w * q) + BlockCount * s
    BY <1>1, <1>2, <1>3
  <2> QED
    BY <1>1, <1>2, <1>3, <2>1, <2>2
<1> HIDE DEF e
<1>6. (BlockCount * e + t) % BlockCount = t
  BY <1>3, <1>4, Remainder
<1>7. r % BlockCount = t
  BY DEF t
<1> QED
  BY <1>5, <1>6, <1>7 DEF r

\* The wrapped index of the next block.
LEMMA WrapNext ==
  ASSUME NEW d \in Nat
  PROVE  ((d % Wrap) + 1) % Wrap = (d + 1) % Wrap
<1> DEFINE q == d \div Wrap
           r == d % Wrap
<1>0. Wrap \in Nat \ {0}
  BY WrapAssumption DEF WrapAssumption
<1>1. d = Wrap * q + r /\ q \in Int /\ r \in 0..Wrap-1
  BY <1>0, Modulo
<1> HIDE DEF q, r
<1>2. CASE r + 1 < Wrap
  <2>1. d + 1 = Wrap * q + (r + 1)
    BY <1>0, <1>1
  <2>2. (Wrap * q + (r + 1)) % Wrap = r + 1
    BY <1>0, <1>1, <1>2, Remainder
  <2>3. (Wrap * 0 + (r + 1)) % Wrap = r + 1
    BY <1>0, <1>1, <1>2, Remainder
  <2>4. Wrap * 0 + (r + 1) = r + 1
    BY <1>0, <1>1
  <2> QED
    BY <2>1, <2>2, <2>3, <2>4 DEF r
<1>3. CASE r + 1 = Wrap
  <2>1. d + 1 = Wrap * (q + 1) + 0
    BY <1>0, <1>1, <1>3
  <2>2. (Wrap * (q + 1) + 0) % Wrap = 0
    BY <1>0, <1>1, Remainder
  <2>3. (Wrap * 1 + 0) % Wrap = 0
    BY <1>0, Remainder
  <2>4. Wrap * 1 + 0 = Wrap
    BY <1>0
  <2> QED
    BY <1>3, <2>1, <2>2, <2>3, <2>4 DEF r
<1> QED
  BY <1>0, <1>1, <1>2, <1>3

LEMMA RemainderIsBlock == \A n \in Int : n % BlockCount \in Blocks
BY Modulo DEF Blocks

LEMMA SlotType == \A n \in Int : Slot(n) \in Blocks
BY RemainderIsBlock DEF Slot

LEMMA PhysicalType ==
  ASSUME TypeOK, NEW i \in Interfaces
  PROVE  Physical(i) \in Blocks
<1>1. blockIndex[i] \in Int
  BY WrapAssumption DEF TypeOK, WrapAssumption
<1> QED
  BY <1>1, Modulo DEF Physical, Blocks

\* The block the reader works on holds the fill after those it has finished, or the
\* last of them while it notifies itself of it.
LEMMA WorksOn ==
  ASSUME NEW i \in Interfaces, NEW d \in Nat, Done(i, d)
  PROVE  /\ rpc[i] # "notify" => Physical(i) = Slot(d + 1)
         /\ rpc[i] = "notify" => Physical(i) = Slot(d)
<1>1. CASE rpc[i] # "notify"
  <2>1. Physical(i) = (d % Wrap) % BlockCount
    BY <1>1 DEF Done, Physical
  <2>2. (d + 1) - 1 = d
    OBVIOUS
  <2> QED
    BY <1>1, <2>1, <2>2, WrapKeepsSlot DEF Slot
<1>2. CASE rpc[i] = "notify"
  <2>1. Physical(i) = ((d - 1) % Wrap) % BlockCount /\ d - 1 \in Nat
    BY <1>2 DEF Done, Physical
  <2> QED
    BY <1>2, <2>1, WrapKeepsSlot DEF Slot
<1> QED
  BY <1>1, <1>2

-----------------------------------------------------------------------------
(* Runs of a block and blocks notified.                                    *)

RunsIn(q, i, b) == {k \in DOMAIN q : q[k].iface = i /\ q[k].block = b}

LEMMA RunsFinite ==
  ASSUME NEW q \in Seq(Run), NEW i, NEW b
  PROVE  /\ IsFiniteSet(RunsIn(q, i, b)) /\ Cardinality(RunsIn(q, i, b)) \in Nat
         /\ \A k \in RunsIn(q, i, b) : Cardinality(RunsIn(q, i, b)) >= 1
<1> DEFINE R == RunsIn(q, i, b)
<1>1. DOMAIN q = 1..Len(q) /\ Len(q) \in Nat
  BY LenProperties
<1>2. IsFiniteSet(1..Len(q))
  BY <1>1, FS_Interval
<1>3. R \in SUBSET (1..Len(q))
  BY <1>1 DEF RunsIn
<1>4. IsFiniteSet(R)
  BY <1>2, <1>3, FS_Subset
<1> HIDE DEF R
<1>5. Cardinality(R) \in Nat /\ (Cardinality(R) = 0 <=> R = {})
  BY <1>4, FS_CardinalityType, FS_EmptySet
<1> QED
  BY <1>4, <1>5 DEF R

\* A run sent.
LEMMA RunsAppend ==
  ASSUME NEW q \in Seq(Run), NEW r \in Run, NEW i, NEW b
  PROVE  Cardinality(RunsIn(Append(q, r), i, b)) =
           Cardinality(RunsIn(q, i, b)) + (IF r.iface = i /\ r.block = b THEN 1 ELSE 0)
<1> DEFINE t == Append(q, r)
           n == Len(q) + 1
           R == RunsIn(q, i, b)
<1>1. /\ Len(q) \in Nat /\ DOMAIN q = 1..Len(q) /\ DOMAIN t = 1..n
      /\ \A k \in 1..Len(q) : t[k] = q[k]
      /\ t[n] = r
  BY AppendProperties, LenProperties
<1> HIDE DEF t
<1>2. n \notin R
  BY <1>1 DEF RunsIn
<1>3. IsFiniteSet(R) /\ Cardinality(R) \in Nat
  BY RunsFinite
<1>4. CASE r.iface = i /\ r.block = b
  <2>1. RunsIn(t, i, b) = R \cup {n}
    BY <1>1, <1>4 DEF RunsIn
  <2>2. Cardinality(R \cup {n}) = Cardinality(R) + 1
    BY <1>2, <1>3, FS_AddElement
  <2> HIDE DEF R, n
  <2> QED
    BY <1>4, <2>1, <2>2 DEF t, R
<1>5. CASE ~(r.iface = i /\ r.block = b)
  <2>1. RunsIn(t, i, b) = R
    BY <1>1, <1>5 DEF RunsIn
  <2> HIDE DEF R, n
  <2> QED
    BY <1>3, <1>5, <2>1 DEF t, R
<1> QED
  BY <1>4, <1>5

\* A run received.
LEMMA RunsTail ==
  ASSUME NEW q \in Seq(Run), q # <<>>, NEW i, NEW b
  PROVE  Cardinality(RunsIn(q, i, b)) =
           Cardinality(RunsIn(Tail(q), i, b))
           + (IF Head(q).iface = i /\ Head(q).block = b THEN 1 ELSE 0)
<1> DEFINE t == Tail(q)
           R == RunsIn(q, i, b)
           U == RunsIn(t, i, b)
           f == [k \in U |-> k + 1]
<1>1. /\ Len(q) \in Nat \ {0} /\ DOMAIN q = 1..Len(q) /\ Len(t) = Len(q) - 1
      /\ DOMAIN t = 1..Len(t) /\ \A k \in 1..Len(t) : t[k] = q[k + 1]
      /\ Head(q) = q[1] /\ t \in Seq(Run)
  BY HeadTailProperties, LenProperties, EmptySeq
<1> HIDE DEF t
<1>2. \A k \in U : k \in Int /\ k + 1 \in R \ {1}
  BY <1>1 DEF RunsIn
<1>3. \A k \in R \ {1} : k - 1 \in U /\ (k - 1) + 1 = k
  BY <1>1 DEF RunsIn
<1>4. f \in [U -> R \ {1}]
  BY <1>2
<1>5. \A k, l \in U : f[k] = f[l] => k = l
  BY <1>2
<1>6. \A m \in R \ {1} : \E k \in U : f[k] = m
  BY <1>3
<1> HIDE DEF f, U, R
<1>7. f \in Bijection(U, R \ {1})
  BY <1>4, <1>5, <1>6, Fun_IsBij
<1>8. IsFiniteSet(U) /\ Cardinality(U) \in Nat /\ IsFiniteSet(R) /\ Cardinality(R) \in Nat
  BY <1>1, RunsFinite DEF U, R
<1>9. Cardinality(R \ {1}) = Cardinality(U)
  BY <1>7, <1>8, FS_Bijection DEF ExistsBijection
<1>10. Cardinality(R \ {1}) = IF 1 \in R THEN Cardinality(R) - 1 ELSE Cardinality(R)
  BY <1>8, FS_RemoveElement
<1>11. 1 \in R <=> Head(q).iface = i /\ Head(q).block = b
  BY <1>1 DEF R, RunsIn
<1> QED
  BY <1>8, <1>9, <1>10, <1>11 DEF t, U, R

\* Blocks notified once each, all other than b, leave room for the one of b.
LEMMA RoomForNotification ==
  ASSUME NEW s \in Seq(Blocks), NEW b \in Blocks,
         \A k, l \in DOMAIN s : s[k] = s[l] => k = l,
         \A k \in DOMAIN s : s[k] # b
  PROVE  Len(s) < BlockCount
<1>1. Len(s) \in Nat /\ DOMAIN s = 1..Len(s) /\ s \in [1..Len(s) -> Blocks \ {b}]
  BY LenProperties
<1>2. s \in Injection(1..Len(s), Blocks \ {b})
  BY <1>1, Fun_IsInj
<1>3. IsFiniteSet(Blocks) /\ Cardinality(Blocks) = BlockCount
  BY FS_Interval DEF Blocks
<1>4. IsFiniteSet(Blocks \ {b}) /\ Cardinality(Blocks \ {b}) = BlockCount - 1
  BY <1>3, FS_RemoveElement
<1>5. Cardinality(1..Len(s)) <= BlockCount - 1
  BY <1>2, <1>4, FS_Injection
<1>6. \A n \in Nat : Cardinality(1..n) = n
  BY FS_Interval
<1> QED
  BY <1>1, <1>5, <1>6

\* A list of blocks that lend themselves is no longer than the ring.
LEMMA BorrowedFinite ==
  ASSUME NEW S \in SUBSET Blocks
  PROVE  IsFiniteSet(S) /\ Cardinality(S) \in 0..BlockCount
<1>1. IsFiniteSet(Blocks) /\ Cardinality(Blocks) = BlockCount
  BY FS_Interval DEF Blocks
<1>2. IsFiniteSet(S) /\ Cardinality(S) <= BlockCount
  BY <1>1, FS_Subset
<1> QED
  BY <1>2, FS_CardinalityType

-----------------------------------------------------------------------------
(* What a step does.                                                       *)

\* A reader looks for its next block, gives up or polls.
Between == RingPC \ {"consume", "notify"}
Moves(i, label) ==
    /\ rpc[i] \notin {"consume", "notify"}
    /\ RGoto(i, label)
    /\ label \in {"decode", "waitRelease", "poll"} => Physical(i) \notin borrowed[i]
    /\ UNCHANGED <<memoryVars, blockIndex, borrowed, count, notifications, keep, references,
                   runVars, done>>

\* A reader receives a notification.
Receives(i) ==
    /\ notifications[i] # <<>>
    /\ borrowed' = [borrowed EXCEPT ![i] = @ \ {Head(notifications[i])}]
    /\ count' = [count EXCEPT ![i] = @ - 1]
    /\ notifications' = [notifications EXCEPT ![i] = Tail(@)]
    /\ \/ rpc[i] = "next" /\ RGoto(i, "next")
       \/ rpc[i] = "waitRelease" /\ RGoto(i, "decode")
    /\ UNCHANGED <<memoryVars, blockIndex, keep, references, runVars, done>>

RingStep ==
    \/ \E i \in Interfaces :
          \/ FillBlock(i) \/ Receives(i) \/ Borrow(i) \/ Retain(i) \/ NotifySelf(i)
          \/ \E label \in Between : Moves(i, label)
          \/ \E more \in BOOLEAN : EndBlock(i, more)
    \/ Take \/ ReleaseRun \/ NotifyReader \/ UNCHANGED ringVars

LEMMA StepKinds ==
    ASSUME IInv, [FreeNext]_vars
    PROVE  RingStep
<1> TypeOK /\ LooksAtFree
  BY DEF IInv
<1> rpc \in [Interfaces -> RingPC]
  BY DEF TypeOK
<1>1. ASSUME NEW i \in Interfaces, FindBlock(i) PROVE RingStep
  <2>1. CASE NextBlock(i)
    <3>1. Moves(i, "decode")
      BY <2>1 DEF NextBlock, Reusable, Moves, RGoto, LooksAtFree
    <3> QED
      BY <3>1 DEF RingStep, Between, RingPC
  <2>2. CASE WaitForRelease(i)
    <3>1. CASE RGoto(i, "returned") /\ UNCHANGED <<borrowed, count, notifications>>
      <4>1. Moves(i, "returned")
        BY <2>2, <3>1 DEF WaitForRelease, Moves, RGoto
      <4> QED
        BY <4>1 DEF RingStep, Between, RingPC
    <3>2. CASE ~(RGoto(i, "returned") /\ UNCHANGED <<borrowed, count, notifications>>)
      <4>1. Receives(i)
        BY <2>2, <3>2 DEF WaitForRelease, Receives, RGoto
      <4> QED
        BY <4>1 DEF RingStep
    <3> QED
      BY <3>1, <3>2
  <2>3. CASE StopReading(i)
    <3>1. Moves(i, "returned")
      BY <2>3 DEF StopReading, Reusable, Moves, RGoto, LooksAtFree
    <3> QED
      BY <3>1 DEF RingStep, Between, RingPC
  <2>4. CASE Borrow(i)
    BY <2>4 DEF RingStep
  <2>5. CASE RejectBlock(i)
    <3>1. Moves(i, "returned")
      BY <2>5 DEF RejectBlock, Reusable, Moves, RGoto, LooksAtFree
    <3> QED
      BY <3>1 DEF RingStep, Between, RingPC
  <2>6. CASE NotReady(i)
    <3> DEFINE label == IF count[i] # 0 THEN "waitRelease" ELSE "poll"
    <3>1. Moves(i, label)
      BY <2>6 DEF NotReady, Moves, RGoto, LooksAtFree
    <3> QED
      BY <3>1 DEF RingStep, Between, RingPC
  <2>7. CASE Polled(i)
    <3>1. Moves(i, "decode")
      BY <2>7 DEF Polled, Reusable, Moves, RGoto, LooksAtFree
    <3> QED
      BY <3>1 DEF RingStep, Between, RingPC
  <2>8. CASE InterfaceLost(i)
    <3>1. Moves(i, "returned")
      BY <2>8 DEF InterfaceLost, Reusable, Moves, RGoto, LooksAtFree
    <3> QED
      BY <3>1 DEF RingStep, Between, RingPC
  <2> QED
    BY <1>1, <2>1, <2>2, <2>3, <2>4, <2>5, <2>6, <2>7, <2>8 DEF FindBlock
<1>2. UNCHANGED vars \/ CloseDone => RingStep
  BY DEF vars, CloseDone, RingStep
<1> QED
  BY <1>1, <1>2 DEF FreeNext, Finish, Consume, RingStep

-----------------------------------------------------------------------------
(* What the invariant says of a thread that holds a reference.             *)

LEMMA CountsAre ==
    ASSUME IInv, NEW i \in Interfaces, NEW b \in Blocks
    PROVE  /\ references[i][b] \in Nat
           /\ Cardinality(RunsOf(i, b)) \in Nat /\ Being(i, b) \in 0..1 /\ Holding(i, b) \in 0..1
           /\ references[i][b] = Being(i, b) + Cardinality(RunsOf(i, b)) + Holding(i, b)
<1>1. queued \in Seq(Run) /\ references[i][b] \in Nat
  BY DEF IInv, TypeOK
<1>2. RunsOf(i, b) = RunsIn(queued, i, b)
  BY DEF RunsOf, RunsIn
<1>3. Cardinality(RunsOf(i, b)) \in Nat
  BY <1>1, <1>2, RunsFinite
<1>4. CountedOf(i, b)
  BY DEF IInv, Counted
<1> QED
  BY <1>1, <1>3, <1>4 DEF CountedOf, Being, Holding

\* The reader in enqueueBlock, a run in the queue and the run in hand each account for
\* one reference of their own.
LEMMA ReaderRefers ==
    ASSUME IInv, NEW i \in Interfaces, rpc[i] = "consume"
    PROVE  Physical(i) \in Blocks /\ references[i][Physical(i)] >= 1
<1> DEFINE b == Physical(i)
<1>1. b \in Blocks
  BY PhysicalType DEF IInv
<1>2. Being(i, b) = 1
  BY DEF Being
<1> HIDE DEF b
<1>3. references[i][b] >= 1
  BY <1>1, <1>2, CountsAre
<1> QED
  BY <1>1, <1>3 DEF b

LEMMA RunRefers ==
    ASSUME IInv, NEW k \in DOMAIN queued
    PROVE  LET i == queued[k].iface
               b == queued[k].block
           IN  /\ queued[k] \in Run /\ i \in Interfaces /\ b \in Blocks
               /\ references[i][b] >= 1
               /\ rpc[i] = "consume" /\ Physical(i) = b => references[i][b] >= 2
               /\ kpc = "hold" /\ InHand(i, b) => references[i][b] >= 2
<1> DEFINE i == queued[k].iface
           b == queued[k].block
<1>1. queued \in Seq(Run)
  BY DEF IInv, TypeOK
<1>2. queued[k] \in Run
  BY <1>1, ElementOfSeq, LenProperties
<1>3. i \in Interfaces /\ b \in Blocks
  BY <1>2 DEF Run
<1>4. k \in RunsIn(queued, i, b) /\ RunsOf(i, b) = RunsIn(queued, i, b)
  BY DEF RunsIn, RunsOf
<1> HIDE DEF i, b
<1>5. Cardinality(RunsOf(i, b)) >= 1
  BY <1>1, <1>4, RunsFinite
<1>6. /\ rpc[i] = "consume" /\ Physical(i) = b => Being(i, b) = 1
      /\ kpc = "hold" /\ InHand(i, b) => Holding(i, b) = 1
  BY DEF Being, Holding
<1>7. /\ references[i][b] >= 1
      /\ Being(i, b) = 1 => references[i][b] >= 2
      /\ Holding(i, b) = 1 => references[i][b] >= 2
  BY <1>3, <1>5, CountsAre
<1> QED
  BY <1>2, <1>3, <1>6, <1>7 DEF i, b

LEMMA HandRefers ==
    ASSUME IInv, kpc = "hold"
    PROVE  LET i == hand.iface
               b == hand.block
           IN  /\ hand \in Run /\ i \in Interfaces /\ b \in Blocks
               /\ references[i][b] >= 1
               /\ rpc[i] = "consume" /\ Physical(i) = b => references[i][b] >= 2
<1> DEFINE i == hand.iface
           b == hand.block
<1>1. hand \in Run
  BY DEF IInv, TypeOK, HandFull
<1>2. i \in Interfaces /\ b \in Blocks /\ hand # NoRun
  BY <1>1, NoRunAssumption DEF Run, NoRunAssumption
<1> HIDE DEF i, b
<1>3. Holding(i, b) = 1
  BY <1>2 DEF Holding, InHand, i, b
<1>4. rpc[i] = "consume" /\ Physical(i) = b => Being(i, b) = 1
  BY DEF Being
<1>5. references[i][b] >= 1 /\ (Being(i, b) = 1 => references[i][b] >= 2)
  BY <1>2, <1>3, CountsAre
<1> QED
  BY <1>1, <1>2, <1>4, <1>5 DEF i, b

\* What EndBlock does to its reader and its block.
LEMMA EndsBlock ==
    ASSUME TypeOK, NEW i \in Interfaces, NEW more \in BOOLEAN, EndBlock(i, more)
    PROVE  /\ rpc[i] = "consume" /\ keep' = [keep EXCEPT ![i] = more]
           /\ UNCHANGED <<content, filled, borrowed, count, notifications, queued, hand, kpc, done>>
           /\ references' = [references EXCEPT ![i][Physical(i)] = @ - 1]
           /\ \A l \in Interfaces \ {i} : rpc'[l] = rpc[l] /\ blockIndex'[l] = blockIndex[l]
           /\ references[i][Physical(i)] = 1 =>
                 /\ rpc' = [rpc EXCEPT ![i] = "notify"] /\ blockIndex' = blockIndex
                 /\ status' = [status EXCEPT ![i][Physical(i)] = "kernel"]
           /\ references[i][Physical(i)] # 1 =>
                 /\ status' = status
                 /\ rpc' = [rpc EXCEPT ![i] = AfterBlock(i)]
                 /\ blockIndex' = [blockIndex EXCEPT ![i] = (@ + 1) % Wrap]
           /\ AfterBlock(i) \in {"next", "returned"}
<1> /\ rpc \in [Interfaces -> RingPC] /\ blockIndex \in [Interfaces -> 0..(Wrap - 1)]
  BY DEF TypeOK
<1>1. /\ rpc[i] = "consume" /\ keep' = [keep EXCEPT ![i] = more]
      /\ UNCHANGED <<content, filled, borrowed, count, notifications, queued, hand, kpc, done>>
      /\ references' = [references EXCEPT ![i][Physical(i)] = @ - 1]
      /\ AfterBlock(i) \in {"next", "returned"}
  BY DEF EndBlock, Drop, AfterBlock, runVars
<1>2. CASE references[i][Physical(i)] = 1
  <2>1. /\ rpc' = [rpc EXCEPT ![i] = "notify"] /\ blockIndex' = blockIndex
        /\ status' = [status EXCEPT ![i][Physical(i)] = "kernel"]
    BY <1>2 DEF EndBlock, Drop, LastReference, RGoto
  <2> QED
    BY <1>1, <1>2, <2>1
<1>3. CASE references[i][Physical(i)] # 1
  <2>1. /\ status' = status /\ rpc' = [rpc EXCEPT ![i] = AfterBlock(i)]
        /\ blockIndex' = [blockIndex EXCEPT ![i] = (@ + 1) % Wrap]
    BY <1>3 DEF EndBlock, Drop, LastReference, RGoto, NextIndex
  <2>2. \A l \in Interfaces \ {i} : rpc'[l] = rpc[l] /\ blockIndex'[l] = blockIndex[l]
    BY <2>1
  <2> QED
    BY <1>1, <1>3, <2>1, <2>2
<1> QED
  BY <1>2, <1>3

-----------------------------------------------------------------------------
(* Each step preserves each part of the invariant.                         *)

\* The consumer has a run in hand from the channel to its release.
LEMMA HandStep ==
    ASSUME IInv, RingStep
    PROVE  HandFull'
<1> HandFull /\ TypeOK
  BY DEF IInv
<1> queued \in Seq(Run)
  BY DEF TypeOK
<1>1. ASSUME Take PROVE HandFull'
  <2>1. Head(queued) \in Run
    BY <1>1, HeadTailProperties DEF Take
  <2> QED
    BY <1>1, <2>1, NoRunAssumption DEF Take, HandFull, NoRunAssumption
<1>2. ASSUME ReleaseRun PROVE HandFull'
  BY <1>2 DEF ReleaseRun, HandFull
<1>3. ASSUME NotifyReader PROVE HandFull'
  BY <1>3 DEF NotifyReader, HandFull
<1>4. ASSUME UNCHANGED <<hand, kpc>> PROVE HandFull'
  BY <1>4 DEF HandFull
<1> QED
  BY <1>1, <1>2, <1>3, <1>4 DEF RingStep, FillBlock, Moves, Receives, Borrow, Retain,
     EndBlock, NotifySelf, runVars, ringVars

\* References are counted.
CountSame(i, b) == /\ references'[i][b] = references[i][b]
                   /\ RunsIn(queued', i, b) = RunsIn(queued, i, b)
                   /\ Being(i, b)' = Being(i, b) /\ Holding(i, b)' = Holding(i, b)

LEMMA CountedIs ==
    ASSUME IInv, NEW i \in Interfaces, NEW b \in Blocks
    PROVE  /\ CountedOf(i, b)
           /\ CountedOf(i, b)' <=>
                 references'[i][b] =
                    Being(i, b)' + Cardinality(RunsIn(queued', i, b)) + Holding(i, b)'
           /\ RunsOf(i, b) = RunsIn(queued, i, b)
           /\ CountSame(i, b) => CountedOf(i, b)'
<1>1. RunsOf(i, b) = RunsIn(queued, i, b) /\ RunsOf(i, b)' = RunsIn(queued', i, b)
  BY DEF RunsOf, RunsIn
<1>2. CountedOf(i, b)
  BY DEF IInv, Counted
<1> QED
  BY <1>1, <1>2 DEF CountedOf, CountSame

LEMMA CountedStep ==
    ASSUME IInv, RingStep
    PROVE  Counted'
<1> TypeOK
  BY DEF IInv
<1> /\ rpc \in [Interfaces -> RingPC] /\ references \in [Interfaces -> [Blocks -> Nat]]
    /\ queued \in Seq(Run)
  BY DEF TypeOK
<1> SUFFICES ASSUME NEW j \in Interfaces, NEW b \in Blocks PROVE CountedOf(j, b)'
  BY DEF Counted
<1> DEFINE C == Cardinality(RunsIn(queued, j, b))
<1>0. /\ references[j][b] \in Nat /\ C \in Nat /\ Being(j, b) \in 0..1 /\ Holding(j, b) \in 0..1
      /\ references[j][b] = Being(j, b) + C + Holding(j, b)
  BY CountsAre, CountedIs
<1>1. ASSUME NEW i \in Interfaces, FillBlock(i) PROVE CountedOf(j, b)'
  <2>1. CountSame(j, b)
    BY <1>1 DEF FillBlock, CountSame, Being, Holding, InHand, Physical, readerState, runVars
  <2> QED
    BY <2>1, CountedIs
<1>2. ASSUME NEW i \in Interfaces, NEW label \in Between, Moves(i, label) PROVE CountedOf(j, b)'
  <2>1. CountSame(j, b)
    BY <1>2 DEF Moves, RGoto, Between, CountSame, Being, Holding, InHand, Physical, runVars
  <2> QED
    BY <2>1, CountedIs
<1>3. ASSUME NEW i \in Interfaces, Receives(i) PROVE CountedOf(j, b)'
  <2>1. CountSame(j, b)
    BY <1>3 DEF Receives, RGoto, CountSame, Being, Holding, InHand, Physical, runVars
  <2> QED
    BY <2>1, CountedIs
<1>4. ASSUME NEW i \in Interfaces, Borrow(i) PROVE CountedOf(j, b)'
  <2>1. CASE j = i /\ b = Physical(i)
    <3>1. ~Referenced(i, b)
      BY <1>4, <2>1 DEF IInv, LooksAtFree, BorrowedListed, OneReason, Borrow
    <3>2. references[j][b] = 0
      BY <1>0, <2>1, <3>1 DEF Referenced
    <3>3. C = 0 /\ Holding(j, b) = 0
      BY <1>0, <3>2
    <3>4. references'[j][b] = 1 /\ Being(j, b)' = 1 /\ Holding(j, b)' = Holding(j, b)
          /\ queued' = queued
      BY <1>4, <2>1 DEF Borrow, RGoto, Being, Holding, InHand, Physical, runVars
    <3> QED
      BY <3>3, <3>4, CountedIs
  <2>2. CASE ~(j = i /\ b = Physical(i))
    <3>1. CountSame(j, b)
      BY <1>4, <2>2 DEF Borrow, RGoto, CountSame, Being, Holding, InHand, Physical, runVars
    <3> QED
      BY <3>1, CountedIs
  <2> QED
    BY <2>1, <2>2
<1>5. ASSUME NEW i \in Interfaces, Retain(i) PROVE CountedOf(j, b)'
  <2> DEFINE p == Physical(i)
             r == [iface |-> i, block |-> p, fill |-> content[i][p]]
             one == IF j = i /\ b = p THEN 1 ELSE 0
  <2>1. p \in Blocks
    BY PhysicalType
  <2>2. r \in Run
    BY <2>1 DEF Run, TypeOK
  <2>3. queued' = Append(queued, r) /\ references' = [references EXCEPT ![i][p] = @ + 1]
        /\ Being(j, b)' = Being(j, b) /\ Holding(j, b)' = Holding(j, b)
    BY <1>5 DEF Retain, Being, Holding, InHand, Physical, readerState
  <2>4. references'[j][b] = references[j][b] + one
    BY <1>0, <2>1, <2>3
  <2>5. r.iface = j /\ r.block = b <=> j = i /\ b = p
    OBVIOUS
  <2> HIDE DEF r
  <2>6. Cardinality(RunsIn(queued', j, b)) = C + one
    BY <2>2, <2>3, <2>5, RunsAppend
  <2> HIDE DEF C, p
  <2>7. references'[j][b] = Being(j, b)' + Cardinality(RunsIn(queued', j, b)) + Holding(j, b)'
    BY <1>0, <2>3, <2>4, <2>6
  <2> QED
    BY <2>7, CountedIs
<1>6. ASSUME NEW i \in Interfaces, NEW more \in BOOLEAN, EndBlock(i, more) PROVE CountedOf(j, b)'
  <2>0. /\ queued' = queued /\ Holding(j, b)' = Holding(j, b) /\ rpc[i] = "consume"
        /\ references' = [references EXCEPT ![i][Physical(i)] = @ - 1]
        /\ \A l \in Interfaces \ {i} : rpc'[l] = rpc[l] /\ blockIndex'[l] = blockIndex[l]
        /\ rpc'[i] # "consume"
    BY <1>6, EndsBlock DEF Holding, InHand
  <2>1. CASE j = i /\ b = Physical(i)
    <3>1. references'[j][b] = references[j][b] - 1 /\ Being(j, b) = 1 /\ Being(j, b)' = 0
      BY <1>0, <2>0, <2>1 DEF Being
    <3> QED
      BY <1>0, <2>0, <3>1, CountedIs
  <2>2. CASE ~(j = i /\ b = Physical(i))
    <3>1. CountSame(j, b)
      BY <2>0, <2>2 DEF CountSame, Being, Physical
    <3> QED
      BY <3>1, CountedIs
  <2> QED
    BY <2>1, <2>2
<1>7. ASSUME NEW i \in Interfaces, NotifySelf(i) PROVE CountedOf(j, b)'
  <2>1. CountSame(j, b)
    BY <1>7 DEF NotifySelf, RGoto, NextIndex, CountSame, Being, Holding, InHand, Physical, runVars
  <2> QED
    BY <2>1, CountedIs
<1>8. ASSUME Take PROVE CountedOf(j, b)'
  <2> DEFINE one == IF Head(queued).iface = j /\ Head(queued).block = b THEN 1 ELSE 0
  <2>1. /\ queued # <<>> /\ queued' = Tail(queued) /\ hand' = Head(queued)
        /\ references' = references /\ Being(j, b)' = Being(j, b)
        /\ kpc = "take" /\ kpc' = "hold"
    BY <1>8 DEF Take, Being, Physical, readerState
  <2>2. Head(queued) # NoRun
    BY <2>1, HeadTailProperties, NoRunAssumption DEF NoRunAssumption
  <2>3. Holding(j, b) = 0 /\ Holding(j, b)' = one
    BY <2>1, <2>2 DEF Holding, InHand
  <2>4. C = Cardinality(RunsIn(queued', j, b)) + one
    BY <2>1, RunsTail
  <2>5. Cardinality(RunsIn(queued', j, b)) \in Nat
    BY <2>1, HeadTailProperties, RunsFinite
  <2> HIDE DEF C
  <2>6. references'[j][b] = Being(j, b)' + Cardinality(RunsIn(queued', j, b)) + Holding(j, b)'
    BY <1>0, <2>1, <2>3, <2>4, <2>5
  <2> QED
    BY <2>6, CountedIs
<1>9. ASSUME ReleaseRun PROVE CountedOf(j, b)'
  <2>0. /\ queued' = queued /\ Being(j, b)' = Being(j, b) /\ kpc = "hold" /\ kpc' # "hold"
        /\ references' = [references EXCEPT ![hand.iface][hand.block] = @ - 1]
    BY <1>9 DEF ReleaseRun, Drop, Being, Physical, readerState
  <2>1. hand \in Run /\ hand.iface \in Interfaces /\ hand.block \in Blocks /\ hand # NoRun
    BY <2>0, HandRefers DEF IInv, HandFull
  <2>2. CASE hand.iface = j /\ hand.block = b
    <3>1. references'[j][b] = references[j][b] - 1 /\ Holding(j, b) = 1 /\ Holding(j, b)' = 0
      BY <1>0, <2>0, <2>1, <2>2 DEF Holding, InHand
    <3> QED
      BY <1>0, <2>0, <3>1, CountedIs
  <2>3. CASE ~(hand.iface = j /\ hand.block = b)
    <3>1. CountSame(j, b)
      BY <2>0, <2>1, <2>3 DEF CountSame, Holding, InHand
    <3> QED
      BY <3>1, CountedIs
  <2> QED
    BY <2>2, <2>3
<1>10. ASSUME NotifyReader PROVE CountedOf(j, b)'
  <2>1. CountSame(j, b)
    BY <1>10 DEF NotifyReader, CountSame, Being, Holding, InHand, Physical
  <2> QED
    BY <2>1, CountedIs
<1>11. ASSUME UNCHANGED ringVars PROVE CountedOf(j, b)'
  <2>1. CountSame(j, b)
    BY <1>11 DEF ringVars, readerState, runVars, CountSame, Being, Holding, InHand, Physical
  <2> QED
    BY <2>1, CountedIs
<1> QED
  BY <1>1, <1>2, <1>3, <1>4, <1>5, <1>6, <1>7, <1>8, <1>9, <1>10, <1>11 DEF RingStep

\* A notification received is that of one borrowed block.
LEMMA NotificationReceived ==
    ASSUME NEW s \in Seq(Blocks), s # <<>>,
           \A k, l \in DOMAIN s : s[k] = s[l] => k = l
    PROVE  /\ Head(s) \in Blocks /\ \E k \in DOMAIN s : s[k] = Head(s)
           /\ Tail(s) \in Seq(Blocks)
           /\ \A k, l \in DOMAIN Tail(s) : Tail(s)[k] = Tail(s)[l] => k = l
           /\ \A b : (\E k \in DOMAIN Tail(s) : Tail(s)[k] = b)
                        <=> (\E k \in DOMAIN s : s[k] = b) /\ b # Head(s)
<1> DEFINE t == Tail(s)
<1>1. /\ Len(s) \in Nat \ {0} /\ DOMAIN s = 1..Len(s) /\ Len(t) = Len(s) - 1
      /\ DOMAIN t = 1..Len(t) /\ \A k \in 1..Len(t) : t[k] = s[k + 1]
      /\ Head(s) = s[1] /\ t \in Seq(Blocks) /\ Head(s) \in Blocks
  BY HeadTailProperties, LenProperties, EmptySeq
<1> HIDE DEF t
<1>2. \A k \in DOMAIN t : k + 1 \in DOMAIN s /\ k + 1 # 1 /\ t[k] = s[k + 1] /\ k \in Int
  BY <1>1
<1>3. \A k \in DOMAIN s : k # 1 => k - 1 \in DOMAIN t /\ t[k - 1] = s[k]
  BY <1>1
<1>4. 1 \in DOMAIN s
  BY <1>1
<1>5. ASSUME NEW k \in DOMAIN t, NEW l \in DOMAIN t, t[k] = t[l] PROVE k = l
  <2>1. k + 1 = l + 1
    BY <1>2, <1>5
  <2> QED
    BY <1>2, <2>1
<1>6. ASSUME NEW b PROVE (\E k \in DOMAIN t : t[k] = b)
                           <=> (\E k \in DOMAIN s : s[k] = b) /\ b # Head(s)
  <2>1. ASSUME NEW k \in DOMAIN t, t[k] = b PROVE (\E l \in DOMAIN s : s[l] = b) /\ b # Head(s)
    BY <1>1, <1>2, <1>4, <2>1
  <2>2. ASSUME NEW k \in DOMAIN s, s[k] = b, b # Head(s) PROVE \E l \in DOMAIN t : t[l] = b
    BY <1>1, <1>3, <2>2
  <2> QED
    BY <2>1, <2>2
<1> QED
  BY <1>1, <1>4, <1>5, <1>6 DEF t

\* A notification sent is that of one more block.
LEMMA NotificationSent ==
    ASSUME NEW s \in Seq(Blocks), NEW c \in Blocks,
           \A k, l \in DOMAIN s : s[k] = s[l] => k = l,
           \A k \in DOMAIN s : s[k] # c
    PROVE  /\ Append(s, c) \in Seq(Blocks)
           /\ \A k, l \in DOMAIN Append(s, c) : Append(s, c)[k] = Append(s, c)[l] => k = l
           /\ \A b : (\E k \in DOMAIN Append(s, c) : Append(s, c)[k] = b)
                        <=> (\E k \in DOMAIN s : s[k] = b) \/ b = c
<1> DEFINE t == Append(s, c)
<1>1. /\ Len(s) \in Nat /\ DOMAIN s = 1..Len(s) /\ DOMAIN t = 1..(Len(s) + 1)
      /\ \A k \in 1..Len(s) : t[k] = s[k]
      /\ t[Len(s) + 1] = c /\ t \in Seq(Blocks)
  BY AppendProperties, LenProperties
<1> HIDE DEF t
<1>2. \A k \in DOMAIN t : (k \in DOMAIN s /\ t[k] = s[k]) \/ (k = Len(s) + 1 /\ t[k] = c)
  BY <1>1
<1>3. \A k \in DOMAIN s : k \in DOMAIN t /\ t[k] = s[k]
  BY <1>1
<1>4. Len(s) + 1 \in DOMAIN t
  BY <1>1
<1> QED
  BY <1>1, <1>2, <1>3, <1>4 DEF t

\* The borrowed list tells where each block's references went.
ReasonSame(i, b) == /\ Referenced(i, b)' <=> Referenced(i, b)
                    /\ SelfNotifies(i, b)' <=> SelfNotifies(i, b)
                    /\ HandNotifies(i, b)' <=> HandNotifies(i, b)
                    /\ Notified(i, b)' <=> Notified(i, b)
                    /\ b \in borrowed'[i] <=> b \in borrowed[i]
ListSame(i) == borrowed'[i] = borrowed[i] /\ count'[i] = count[i]
Listed(i) == /\ \A b \in Blocks : OneReason(i, b)
             /\ NotifiedOnce(i)
             /\ count[i] = Cardinality(borrowed[i])

LEMMA ListedIs ==
    ASSUME IInv, NEW i \in Interfaces
    PROVE  /\ Listed(i)
           /\ (\A b \in Blocks : ReasonSame(i, b)) /\ ListSame(i)
              /\ notifications'[i] = notifications[i] => Listed(i)'
BY DEF IInv, BorrowedListed, Listed, OneReason, ReasonSame, ListSame, NotifiedOnce

LEMMA BorrowedStep ==
    ASSUME IInv, RingStep
    PROVE  BorrowedListed'
<1> TypeOK
  BY DEF IInv
<1> /\ rpc \in [Interfaces -> RingPC] /\ references \in [Interfaces -> [Blocks -> Nat]]
    /\ borrowed \in [Interfaces -> SUBSET Blocks] /\ count \in [Interfaces -> 0..BlockCount]
    /\ notifications \in [Interfaces -> Seq(Blocks)]
  BY DEF TypeOK
<1> SUFFICES ASSUME NEW j \in Interfaces PROVE Listed(j)'
  BY DEF BorrowedListed, Listed
<1> Listed(j)
  BY ListedIs
<1> USE DEF Referenced, SelfNotifies, HandNotifies, Notified
<1>1. ASSUME NEW i \in Interfaces, FillBlock(i) PROVE Listed(j)'
  <2>1. (\A b \in Blocks : ReasonSame(j, b)) /\ ListSame(j) /\ notifications' = notifications
    BY <1>1 DEF FillBlock, ReasonSame, ListSame, InHand, Physical, readerState, runVars
  <2> QED
    BY <2>1, ListedIs
<1>2. ASSUME NEW i \in Interfaces, NEW label \in Between, Moves(i, label) PROVE Listed(j)'
  <2>1. (\A b \in Blocks : ReasonSame(j, b)) /\ ListSame(j) /\ notifications' = notifications
    BY <1>2 DEF Moves, RGoto, Between, ReasonSame, ListSame, InHand, Physical, runVars
  <2> QED
    BY <2>1, ListedIs
<1>3. ASSUME NEW i \in Interfaces, Receives(i) PROVE Listed(j)'
  <2>0. \A b \in Blocks : /\ Referenced(j, b)' <=> Referenced(j, b)
                          /\ SelfNotifies(j, b)' <=> SelfNotifies(j, b)
                          /\ HandNotifies(j, b)' <=> HandNotifies(j, b)
    BY <1>3 DEF Receives, RGoto, InHand, Physical, runVars
  <2>1. CASE j = i
    <3> DEFINE s == notifications[i]
               h == Head(s)
    <3>1. s \in Seq(Blocks) /\ s # <<>> /\ \A k, l \in DOMAIN s : s[k] = s[l] => k = l
      BY <1>3, <2>1 DEF Receives, Listed, NotifiedOnce
    <3>2. /\ notifications'[i] = Tail(s) /\ borrowed'[i] = borrowed[i] \ {h}
          /\ count'[i] = count[i] - 1
      BY <1>3 DEF Receives
    <3> HIDE DEF s
    <3>3. /\ h \in Blocks /\ \E k \in DOMAIN s : s[k] = h
          /\ \A k, l \in DOMAIN Tail(s) : Tail(s)[k] = Tail(s)[l] => k = l
          /\ \A b : (\E k \in DOMAIN Tail(s) : Tail(s)[k] = b)
                       <=> (\E k \in DOMAIN s : s[k] = b) /\ b # h
      BY <3>1, NotificationReceived
    <3> HIDE DEF h
    <3>4. \A b \in Blocks : Notified(i, b)' <=> Notified(i, b) /\ b # h
      BY <3>2, <3>3 DEF s
    <3>5. Notified(i, h)
      BY <3>3 DEF s
    <3>6. OneReason(i, h) /\ h \in borrowed[i]
      BY <2>1, <3>3, <3>5 DEF Listed, OneReason
    <3>7. NotifiedOnce(i)'
      BY <3>2, <3>3 DEF NotifiedOnce
    <3>8. count'[i] = Cardinality(borrowed'[i])
      <4>1. IsFiniteSet(borrowed[i]) /\ count[i] = Cardinality(borrowed[i])
        BY <2>1, BorrowedFinite DEF Listed
      <4> QED
        BY <3>2, <3>6, <4>1, FS_RemoveElement
    <3>9. ASSUME NEW b \in Blocks PROVE OneReason(i, b)'
      <4>1. OneReason(i, b)
        BY <2>1 DEF Listed
      <4>2. b \in borrowed'[i] <=> b \in borrowed[i] /\ b # h
        BY <3>2
      <4> USE <2>1
      <4> QED
        BY <2>0, <3>4, <3>5, <3>6, <4>1, <4>2 DEF OneReason
    <3> QED
      BY <2>1, <3>7, <3>8, <3>9 DEF Listed
  <2>2. CASE j # i
    <3>1. (\A b \in Blocks : ReasonSame(j, b)) /\ ListSame(j)
          /\ notifications'[j] = notifications[j]
      BY <1>3, <2>0, <2>2 DEF Receives, ReasonSame, ListSame
    <3> QED
      BY <3>1, ListedIs
  <2> QED
    BY <2>1, <2>2
<1>4. ASSUME NEW i \in Interfaces, Borrow(i) PROVE Listed(j)'
  <2>0. \A b \in Blocks : /\ SelfNotifies(j, b)' <=> SelfNotifies(j, b)
                          /\ HandNotifies(j, b)' <=> HandNotifies(j, b)
                          /\ Notified(j, b)' <=> Notified(j, b)
    BY <1>4 DEF Borrow, RGoto, InHand, Physical, runVars
  <2>1. CASE j = i
    <3> DEFINE p == Physical(i)
    <3>1. p \in Blocks /\ p \notin borrowed[i]
      BY <1>4, PhysicalType DEF Borrow, IInv, LooksAtFree
    <3>2. /\ references' = [references EXCEPT ![i][p] = 1]
          /\ borrowed'[i] = borrowed[i] \cup {p} /\ count'[i] = count[i] + 1
          /\ notifications' = notifications
      BY <1>4 DEF Borrow
    <3> HIDE DEF p
    <3>3. \A b \in Blocks : Referenced(i, b)' <=> Referenced(i, b) \/ b = p
      BY <3>1, <3>2
    <3>4. count'[i] = Cardinality(borrowed'[i])
      <4>1. IsFiniteSet(borrowed[i]) /\ count[i] = Cardinality(borrowed[i])
        BY <2>1, BorrowedFinite DEF Listed
      <4> QED
        BY <3>1, <3>2, <4>1, FS_AddElement
    <3>5. NotifiedOnce(i)'
      BY <2>1, <3>2 DEF Listed, NotifiedOnce
    <3>6. ASSUME NEW b \in Blocks PROVE OneReason(i, b)'
      <4>1. OneReason(i, b) /\ (b = p => b \notin borrowed[i])
        BY <2>1, <3>1 DEF Listed
      <4>2. b \in borrowed'[i] <=> b \in borrowed[i] \/ b = p
        BY <3>2
      <4> USE <2>1
      <4> QED
        BY <2>0, <3>3, <4>1, <4>2 DEF OneReason
    <3> QED
      BY <2>1, <3>4, <3>5, <3>6 DEF Listed
  <2>2. CASE j # i
    <3>1. (\A b \in Blocks : ReasonSame(j, b)) /\ ListSame(j)
          /\ notifications'[j] = notifications[j]
      BY <1>4, <2>0, <2>2 DEF Borrow, ReasonSame, ListSame
    <3> QED
      BY <3>1, ListedIs
  <2> QED
    BY <2>1, <2>2
<1>5. ASSUME NEW i \in Interfaces, Retain(i) PROVE Listed(j)'
  <2> DEFINE p == Physical(i)
  <2>1. p \in Blocks /\ references[i][p] >= 1
    BY <1>5, ReaderRefers DEF Retain
  <2>2. /\ references' = [references EXCEPT ![i][p] = @ + 1]
        /\ UNCHANGED <<readerState, hand, kpc>>
    BY <1>5 DEF Retain
  <2>3. \A b \in Blocks : Referenced(j, b)' <=> Referenced(j, b)
    <3> HIDE DEF p
    <3> QED
      BY <2>1, <2>2
  <2>4. (\A b \in Blocks : ReasonSame(j, b)) /\ ListSame(j) /\ notifications' = notifications
    BY <2>2, <2>3 DEF ReasonSame, ListSame, InHand, Physical, readerState
  <2> QED
    BY <2>4, ListedIs
<1>6. ASSUME NEW i \in Interfaces, NEW more \in BOOLEAN, EndBlock(i, more) PROVE Listed(j)'
  <2> DEFINE p == Physical(i)
  <2>0. p \in Blocks /\ references[i][p] >= 1 /\ references[i][p] \in Nat /\ rpc[i] = "consume"
    BY <1>6, EndsBlock, ReaderRefers
  <2>1. /\ UNCHANGED <<borrowed, count, notifications, hand, kpc>>
        /\ references' = [references EXCEPT ![i][p] = @ - 1]
        /\ \A l \in Interfaces \ {i} : rpc'[l] = rpc[l] /\ blockIndex'[l] = blockIndex[l]
        /\ references[i][p] = 1 => rpc'[i] = "notify" /\ blockIndex' = blockIndex
        /\ references[i][p] # 1 => rpc'[i] \in {"next", "returned"}
    BY <1>6, EndsBlock
  <2>2. CASE j = i /\ references[i][p] = 1
    <3>1. \A b \in Blocks : /\ Referenced(j, b)' <=> Referenced(j, b) /\ b # p
                            /\ SelfNotifies(j, b)' <=> b = p
      <4>1. \A b \in Blocks : SelfNotifies(j, b)' <=> b = p
        BY <2>1, <2>2 DEF Physical
      <4> HIDE DEF p
      <4>2. \A b \in Blocks : Referenced(j, b)' <=> Referenced(j, b) /\ b # p
        BY <2>0, <2>1, <2>2
      <4> QED
        BY <4>1, <4>2
    <3>2. \A b \in Blocks : ~SelfNotifies(j, b)
      BY <2>0, <2>2
    <3>3. \A b \in Blocks : /\ HandNotifies(j, b)' <=> HandNotifies(j, b)
                            /\ Notified(j, b)' <=> Notified(j, b)
                            /\ b \in borrowed'[j] <=> b \in borrowed[j]
      BY <2>1 DEF InHand
    <3>4. Referenced(j, p)
      BY <2>0, <2>2
    <3> HIDE DEF p
    <3>5. \A b \in Blocks : OneReason(j, b)'
      BY <3>1, <3>2, <3>3, <3>4 DEF OneReason, Listed
    <3> QED
      BY <2>1, <3>5 DEF Listed, NotifiedOnce
  <2>3. CASE ~(j = i /\ references[i][p] = 1)
    <3>1. \A b \in Blocks : Referenced(j, b)' <=> Referenced(j, b)
      <4> HIDE DEF p
      <4> QED
        BY <2>0, <2>1, <2>3
    <3>2. \A b \in Blocks : SelfNotifies(j, b)' <=> SelfNotifies(j, b)
      BY <2>0, <2>1, <2>3 DEF Physical
    <3>3. (\A b \in Blocks : ReasonSame(j, b)) /\ ListSame(j)
      BY <2>1, <3>1, <3>2 DEF ReasonSame, ListSame, InHand
    <3> QED
      BY <2>1, <3>3, ListedIs
  <2> QED
    BY <2>2, <2>3
<1>7. ASSUME NEW i \in Interfaces, NotifySelf(i) PROVE Listed(j)'
  <2> DEFINE p == Physical(i)
             s == notifications[i]
  <2>0. /\ p \in Blocks /\ rpc[i] = "notify"
        /\ notifications' = [notifications EXCEPT ![i] = Append(s, p)]
        /\ UNCHANGED <<borrowed, count, references, hand, kpc>>
        /\ rpc' = [rpc EXCEPT ![i] = IF keep[i] THEN "next" ELSE "returned"]
        /\ blockIndex' = [blockIndex EXCEPT ![i] = (@ + 1) % Wrap]
    BY <1>7, PhysicalType DEF NotifySelf, RGoto, NextIndex, runVars
  <2>1. CASE j = i
    <3>1. SelfNotifies(i, p) /\ \A b \in Blocks : SelfNotifies(i, b) => b = p
      BY <2>0
    <3>2. ~Notified(i, p) /\ s \in Seq(Blocks) /\ \A k, l \in DOMAIN s : s[k] = s[l] => k = l
      BY <2>0, <2>1, <3>1 DEF Listed, OneReason, NotifiedOnce
    <3>3. \A k \in DOMAIN s : s[k] # p
      BY <3>2
    <3>4. notifications'[i] = Append(s, p)
      BY <2>0
    <3>5. \A b \in Blocks : ~SelfNotifies(i, b)'
      BY <2>0
    <3>6. \A b \in Blocks : /\ Referenced(i, b)' <=> Referenced(i, b)
                            /\ HandNotifies(i, b)' <=> HandNotifies(i, b)
                            /\ b \in borrowed'[i] <=> b \in borrowed[i]
      BY <2>0 DEF InHand
    <3> HIDE DEF s, p
    <3>7. /\ \A k, l \in DOMAIN Append(s, p) : Append(s, p)[k] = Append(s, p)[l] => k = l
          /\ \A b : (\E k \in DOMAIN Append(s, p) : Append(s, p)[k] = b)
                       <=> (\E k \in DOMAIN s : s[k] = b) \/ b = p
      BY <2>0, <3>2, <3>3, NotificationSent
    <3>8. \A b \in Blocks : Notified(i, b)' <=> Notified(i, b) \/ b = p
      BY <3>4, <3>7 DEF s
    <3>9. NotifiedOnce(i)'
      BY <3>4, <3>7 DEF NotifiedOnce
    <3>10. ASSUME NEW b \in Blocks PROVE OneReason(i, b)'
      <4>1. OneReason(i, b)
        BY <2>1 DEF Listed
      <4> HIDE DEF Referenced, SelfNotifies, HandNotifies, Notified
      <4> QED
        BY <3>1, <3>5, <3>6, <3>8, <4>1 DEF OneReason
    <3> QED
      BY <2>0, <2>1, <3>9, <3>10 DEF Listed
  <2>2. CASE j # i
    <3>1. (\A b \in Blocks : ReasonSame(j, b)) /\ ListSame(j)
          /\ notifications'[j] = notifications[j]
      BY <2>0, <2>2 DEF ReasonSame, ListSame, InHand, Physical
    <3> QED
      BY <3>1, ListedIs
  <2> QED
    BY <2>1, <2>2
<1>8. ASSUME Take PROVE Listed(j)'
  <2>1. (\A b \in Blocks : ReasonSame(j, b)) /\ ListSame(j) /\ notifications' = notifications
    BY <1>8 DEF Take, ReasonSame, ListSame, Physical, readerState
  <2> QED
    BY <2>1, ListedIs
<1>9. ASSUME ReleaseRun PROVE Listed(j)'
  <2> DEFINE i == hand.iface
             p == hand.block
  <2>0. /\ i \in Interfaces /\ p \in Blocks /\ references[i][p] >= 1 /\ references[i][p] \in Nat
        /\ kpc = "hold" /\ hand # NoRun
    BY <1>9, HandRefers DEF ReleaseRun, IInv, HandFull
  <2>1. /\ UNCHANGED readerState
        /\ references' = [references EXCEPT ![i][p] = @ - 1]
        /\ references[i][p] = 1 => kpc' = "notify" /\ hand' = hand
        /\ references[i][p] # 1 => kpc' = "take"
    BY <1>9 DEF ReleaseRun, Drop, LastReference
  <2>2. CASE j = i /\ references[i][p] = 1
    <3>1. \A b \in Blocks : HandNotifies(j, b)' <=> b = p
      BY <2>0, <2>1, <2>2 DEF InHand
    <3>2. \A b \in Blocks : ~HandNotifies(j, b)
      BY <2>0
    <3>3. \A b \in Blocks : /\ SelfNotifies(j, b)' <=> SelfNotifies(j, b)
                            /\ Notified(j, b)' <=> Notified(j, b)
                            /\ b \in borrowed'[j] <=> b \in borrowed[j]
      BY <2>1 DEF Physical, readerState
    <3>4. Referenced(j, p)
      BY <2>0, <2>2
    <3> HIDE DEF p, i
    <3>5. \A b \in Blocks : Referenced(j, b)' <=> Referenced(j, b) /\ b # p
      BY <2>0, <2>1, <2>2
    <3>6. \A b \in Blocks : OneReason(j, b)'
      BY <3>1, <3>2, <3>3, <3>4, <3>5 DEF OneReason, Listed
    <3> QED
      BY <2>1, <3>6 DEF Listed, NotifiedOnce, readerState
  <2>3. CASE ~(j = i /\ references[i][p] = 1)
    <3>1. \A b \in Blocks : HandNotifies(j, b)' <=> HandNotifies(j, b)
      BY <2>0, <2>1, <2>3 DEF InHand
    <3>2. \A b \in Blocks : Referenced(j, b)' <=> Referenced(j, b)
      <4> HIDE DEF p, i
      <4> QED
        BY <2>0, <2>1, <2>3
    <3>3. (\A b \in Blocks : ReasonSame(j, b)) /\ ListSame(j) /\ notifications' = notifications
      BY <2>1, <3>1, <3>2 DEF ReasonSame, ListSame, Physical, readerState
    <3> QED
      BY <3>3, ListedIs
  <2> QED
    BY <2>2, <2>3
<1>10. ASSUME NotifyReader PROVE Listed(j)'
  <2> DEFINE i == hand.iface
             p == hand.block
             s == notifications[i]
  <2>0. /\ kpc = "notify" /\ kpc' = "take" /\ hand # NoRun
        /\ notifications' = [notifications EXCEPT ![i] = Append(s, p)]
        /\ UNCHANGED <<rpc, blockIndex, borrowed, count, references>>
    BY <1>10 DEF NotifyReader, IInv, HandFull
  <2>1. i \in Interfaces /\ p \in Blocks
    BY <2>0 DEF TypeOK, Run
  <2>2. CASE j = i
    <3>1. HandNotifies(i, p) /\ \A b \in Blocks : HandNotifies(i, b) => b = p
      BY <2>0 DEF InHand
    <3>2. ~Notified(i, p) /\ s \in Seq(Blocks) /\ \A k, l \in DOMAIN s : s[k] = s[l] => k = l
      BY <2>1, <2>2, <3>1 DEF Listed, OneReason, NotifiedOnce
    <3>3. \A k \in DOMAIN s : s[k] # p
      BY <3>2
    <3>4. notifications'[j] = Append(s, p) /\ notifications[j] = s
      BY <2>0, <2>1, <2>2
    <3>5. \A b \in Blocks : ~HandNotifies(j, b)'
      BY <2>0
    <3>6. \A b \in Blocks : /\ Referenced(j, b)' <=> Referenced(j, b)
                            /\ SelfNotifies(j, b)' <=> SelfNotifies(j, b)
                            /\ b \in borrowed'[j] <=> b \in borrowed[j]
      BY <2>0 DEF Physical
    <3> HIDE DEF s, p, i
    <3>7. /\ \A k, l \in DOMAIN Append(s, p) : Append(s, p)[k] = Append(s, p)[l] => k = l
          /\ \A b : (\E k \in DOMAIN Append(s, p) : Append(s, p)[k] = b)
                       <=> (\E k \in DOMAIN s : s[k] = b) \/ b = p
      BY <2>1, <3>2, <3>3, NotificationSent
    <3>8. ASSUME NEW b \in Blocks PROVE Notified(j, b)' <=> Notified(j, b) \/ b = p
      <4>1. Notified(j, b)' <=> \E k \in DOMAIN Append(s, p) : Append(s, p)[k] = b
        BY <3>4
      <4>2. Notified(j, b) <=> \E k \in DOMAIN s : s[k] = b
        BY <3>4
      <4> QED
        BY <3>7, <4>1, <4>2
    <3>9. NotifiedOnce(j)'
      BY <3>4, <3>7 DEF NotifiedOnce
    <3>10. ASSUME NEW b \in Blocks PROVE OneReason(j, b)'
      <4>1. OneReason(j, b)
        BY DEF Listed
      <4> HIDE DEF Referenced, SelfNotifies, HandNotifies, Notified
      <4> QED
        BY <2>2, <3>1, <3>5, <3>6, <3>8, <4>1 DEF OneReason
    <3> QED
      BY <2>0, <3>9, <3>10 DEF Listed
  <2>3. CASE j # i
    <3>1. \A b \in Blocks : HandNotifies(j, b)' <=> HandNotifies(j, b)
      BY <2>0, <2>3 DEF InHand
    <3>2. (\A b \in Blocks : ReasonSame(j, b)) /\ ListSame(j)
          /\ notifications'[j] = notifications[j]
      BY <2>0, <2>1, <2>3, <3>1 DEF ReasonSame, ListSame, Physical
    <3> QED
      BY <3>2, ListedIs
  <2> QED
    BY <2>2, <2>3
<1>11. ASSUME UNCHANGED ringVars PROVE Listed(j)'
  <2>1. (\A b \in Blocks : ReasonSame(j, b)) /\ ListSame(j) /\ notifications' = notifications
    BY <1>11 DEF ringVars, readerState, runVars, ReasonSame, ListSame, InHand, Physical
  <2> QED
    BY <2>1, ListedIs
<1> QED
  BY <1>1, <1>2, <1>3, <1>4, <1>5, <1>6, <1>7, <1>8, <1>9, <1>10, <1>11 DEF RingStep

\* The types; a reference dropped is one that was held, and what is borrowed is a part
\* of the ring.
MemoryTypeOK == /\ status \in [Interfaces -> [Blocks -> {"kernel", "user"}]]
                /\ content \in [Interfaces -> [Blocks -> Nat]]
                /\ filled \in [Interfaces -> Nat]
                /\ references \in [Interfaces -> [Blocks -> Nat]]
ReaderTypeOK == /\ rpc \in [Interfaces -> RingPC]
                /\ blockIndex \in [Interfaces -> 0..(Wrap - 1)]
                /\ keep \in [Interfaces -> BOOLEAN]
ListTypeOK == /\ borrowed \in [Interfaces -> SUBSET Blocks]
              /\ notifications \in [Interfaces -> Seq(Blocks)]
              /\ \E f : count = [i \in Interfaces |-> f[i]]
RunTypeOK == /\ queued \in Seq(Run) /\ hand \in Run \cup {NoRun}
             /\ kpc \in {"take", "hold", "notify"} /\ done \in BOOLEAN

LEMMA TypeParts ==
    /\ TypeOK => MemoryTypeOK /\ ReaderTypeOK /\ ListTypeOK /\ RunTypeOK
    /\ MemoryTypeOK /\ ReaderTypeOK /\ ListTypeOK /\ RunTypeOK /\ BorrowedListed => TypeOK
<1>1. TypeOK => MemoryTypeOK /\ ReaderTypeOK /\ ListTypeOK /\ RunTypeOK
  <2> SUFFICES ASSUME TypeOK PROVE ListTypeOK
    BY DEF TypeOK, MemoryTypeOK, ReaderTypeOK, RunTypeOK
  <2>1. count = [i \in Interfaces |-> count[i]]
    BY DEF TypeOK
  <2> QED
    BY <2>1 DEF TypeOK, ListTypeOK
<1>2. ASSUME MemoryTypeOK, ReaderTypeOK, ListTypeOK, RunTypeOK, BorrowedListed PROVE TypeOK
  <2>1. \A i \in Interfaces : count[i] \in 0..BlockCount
    BY <1>2, BorrowedFinite DEF ListTypeOK, BorrowedListed
  <2>2. count \in [Interfaces -> 0..BlockCount]
    <3>1. PICK f : count = [i \in Interfaces |-> f[i]]
      BY <1>2 DEF ListTypeOK
    <3>2. \A i \in Interfaces : f[i] = count[i]
      BY <3>1
    <3> QED
      BY <2>1, <3>1, <3>2
  <2> QED
    BY <1>2, <2>2 DEF TypeOK, MemoryTypeOK, ReaderTypeOK, ListTypeOK, RunTypeOK
<1> QED
  BY <1>1, <1>2

LEMMA DroppedType ==
    ASSUME MemoryTypeOK, NEW i \in Interfaces, NEW b \in Blocks, references[i][b] >= 1, Drop(i, b)
    PROVE  /\ references' \in [Interfaces -> [Blocks -> Nat]]
           /\ status' \in [Interfaces -> [Blocks -> {"kernel", "user"}]]
<1>1. references[i][b] - 1 \in Nat
  BY DEF MemoryTypeOK
<1> QED
  BY <1>1 DEF MemoryTypeOK, Drop

LEMMA MemoryTypeStep ==
    ASSUME IInv, RingStep
    PROVE  MemoryTypeOK'
<1> TypeOK /\ MemoryTypeOK
  BY TypeParts DEF IInv
<1> USE DEF MemoryTypeOK
<1>1. ASSUME NEW i \in Interfaces, FillBlock(i) PROVE MemoryTypeOK'
  <2> DEFINE b == filled[i] % BlockCount
  <2>1. b \in Blocks /\ filled[i] + 1 \in Nat
    <3>1. filled[i] \in Nat
      OBVIOUS
    <3>2. b \in Blocks
      BY <3>1, RemainderIsBlock
    <3> QED
      BY <3>1, <3>2
  <2>2. /\ filled' = [filled EXCEPT ![i] = @ + 1] /\ references' = references
        /\ content' = [content EXCEPT ![i][b] = filled[i] + 1]
        /\ status' = [status EXCEPT ![i][b] = "user"]
    BY <1>1 DEF FillBlock
  <2> HIDE DEF b
  <2> QED
    BY <2>1, <2>2
<1>2. ASSUME NEW i \in Interfaces, Borrow(i) PROVE MemoryTypeOK'
  <2>1. Physical(i) \in Blocks
    BY PhysicalType
  <2> QED
    BY <1>2, <2>1 DEF Borrow, memoryVars
<1>3. ASSUME NEW i \in Interfaces, Retain(i) PROVE MemoryTypeOK'
  <2>1. Physical(i) \in Blocks /\ references[i][Physical(i)] + 1 \in Nat
    BY PhysicalType
  <2> QED
    BY <1>3, <2>1 DEF Retain, memoryVars
<1>4. ASSUME NEW i \in Interfaces, NEW more \in BOOLEAN, EndBlock(i, more) PROVE MemoryTypeOK'
  <2>1. Physical(i) \in Blocks /\ references[i][Physical(i)] >= 1
    BY <1>4, ReaderRefers DEF EndBlock
  <2> QED
    BY <1>4, <2>1, DroppedType DEF EndBlock
<1>5. ASSUME ReleaseRun PROVE MemoryTypeOK'
  <2>1. /\ hand.iface \in Interfaces /\ hand.block \in Blocks
        /\ references[hand.iface][hand.block] >= 1
    BY <1>5, HandRefers DEF ReleaseRun
  <2> QED
    BY <1>5, <2>1, DroppedType DEF ReleaseRun
<1>6. ASSUME UNCHANGED <<memoryVars, references>> PROVE MemoryTypeOK'
  BY <1>6 DEF memoryVars
<1> QED
  BY <1>1, <1>2, <1>3, <1>4, <1>5, <1>6 DEF RingStep, Moves, Receives, NotifySelf, Take,
     NotifyReader, ringVars

LEMMA ReaderTypeStep ==
    ASSUME IInv, RingStep
    PROVE  ReaderTypeOK'
<1> TypeOK /\ ReaderTypeOK
  BY TypeParts DEF IInv
<1>0. \A n \in Nat : n % Wrap \in 0..(Wrap - 1)
  BY WrapAssumption, Modulo DEF WrapAssumption
<1> USE DEF ReaderTypeOK
<1>1. ASSUME NEW i \in Interfaces, FillBlock(i) PROVE ReaderTypeOK'
  BY <1>1 DEF FillBlock, readerState
<1>2. ASSUME NEW i \in Interfaces, NEW label \in Between, Moves(i, label) PROVE ReaderTypeOK'
  BY <1>2 DEF Moves, RGoto, Between
<1>3. ASSUME NEW i \in Interfaces, Receives(i) PROVE ReaderTypeOK'
  BY <1>3 DEF Receives, RGoto, RingPC
<1>4. ASSUME NEW i \in Interfaces, Borrow(i) PROVE ReaderTypeOK'
  BY <1>4 DEF Borrow, RGoto, RingPC
<1>5. ASSUME NEW i \in Interfaces, Retain(i) PROVE ReaderTypeOK'
  BY <1>5 DEF Retain, readerState
<1>6. ASSUME NEW i \in Interfaces, NEW more \in BOOLEAN, EndBlock(i, more) PROVE ReaderTypeOK'
  <2>1. (blockIndex[i] + 1) % Wrap \in 0..(Wrap - 1)
    BY <1>0
  <2>2. keep' \in [Interfaces -> BOOLEAN]
    BY <1>6, EndsBlock
  <2>3. rpc' \in [Interfaces -> RingPC] /\ blockIndex' \in [Interfaces -> 0..(Wrap - 1)]
    <3>1. CASE references[i][Physical(i)] = 1
      BY <1>6, <3>1, EndsBlock DEF RingPC
    <3>2. CASE references[i][Physical(i)] # 1
      <4>1. /\ rpc' = [rpc EXCEPT ![i] = AfterBlock(i)] /\ AfterBlock(i) \in {"next", "returned"}
            /\ blockIndex' = [blockIndex EXCEPT ![i] = (@ + 1) % Wrap]
        BY <1>6, <3>2, EndsBlock
      <4> QED
        BY <2>1, <4>1 DEF RingPC
    <3> QED
      BY <3>1, <3>2
  <2> QED
    BY <2>2, <2>3
<1>7. ASSUME NEW i \in Interfaces, NotifySelf(i) PROVE ReaderTypeOK'
  <2>1. (blockIndex[i] + 1) % Wrap \in 0..(Wrap - 1)
    BY <1>0
  <2> QED
    BY <1>7, <2>1 DEF NotifySelf, RGoto, NextIndex, RingPC
<1>8. ASSUME UNCHANGED <<rpc, blockIndex, keep>> PROVE ReaderTypeOK'
  BY <1>8
<1> QED
  BY <1>1, <1>2, <1>3, <1>4, <1>5, <1>6, <1>7, <1>8 DEF RingStep, Take, ReleaseRun,
     NotifyReader, ringVars, readerState

LEMMA ListTypeStep ==
    ASSUME IInv, RingStep
    PROVE  ListTypeOK'
<1> TypeOK /\ ListTypeOK /\ RunTypeOK
  BY TypeParts DEF IInv
<1> count \in [Interfaces -> 0..BlockCount]
  BY DEF TypeOK
<1> USE DEF ListTypeOK
<1>0. ASSUME NEW i \in Interfaces, NEW b \in Blocks,
             notifications' = [notifications EXCEPT ![i] = Append(@, b)],
             UNCHANGED <<borrowed, count>>
      PROVE  ListTypeOK'
  <2>1. Append(notifications[i], b) \in Seq(Blocks)
    BY AppendProperties
  <2> QED
    BY <1>0, <2>1
<1>1. ASSUME NEW i \in Interfaces, Receives(i) PROVE ListTypeOK'
  <2>1. Tail(notifications[i]) \in Seq(Blocks)
    BY <1>1, HeadTailProperties DEF Receives
  <2>2. /\ notifications' = [notifications EXCEPT ![i] = Tail(@)]
        /\ borrowed' = [borrowed EXCEPT ![i] = @ \ {Head(notifications[i])}]
        /\ count' = [count EXCEPT ![i] = @ - 1]
    BY <1>1 DEF Receives
  <2>3. count' = [j \in Interfaces |-> count'[j]]
    BY <2>2
  <2> QED
    BY <2>1, <2>2, <2>3
<1>2. ASSUME NEW i \in Interfaces, Borrow(i) PROVE ListTypeOK'
  <2>1. Physical(i) \in Blocks
    BY PhysicalType
  <2>2. /\ notifications' = notifications /\ count' = [count EXCEPT ![i] = @ + 1]
        /\ borrowed' = [borrowed EXCEPT ![i] = @ \cup {Physical(i)}]
    BY <1>2 DEF Borrow
  <2>3. count' = [j \in Interfaces |-> count'[j]]
    BY <2>2
  <2> QED
    BY <2>1, <2>2, <2>3
<1>3. ASSUME NEW i \in Interfaces, NotifySelf(i) PROVE ListTypeOK'
  <2>1. Physical(i) \in Blocks
    BY PhysicalType
  <2> QED
    BY <1>0, <1>3, <2>1 DEF NotifySelf
<1>4. ASSUME NotifyReader PROVE ListTypeOK'
  <2>1. hand.iface \in Interfaces /\ hand.block \in Blocks
    BY <1>4 DEF NotifyReader, IInv, HandFull, RunTypeOK, Run
  <2> QED
    BY <1>0, <1>4, <2>1 DEF NotifyReader
<1>5. ASSUME UNCHANGED <<borrowed, count, notifications>> PROVE ListTypeOK'
  BY <1>5
<1>6. \A i \in Interfaces, more \in BOOLEAN :
         EndBlock(i, more) => UNCHANGED <<borrowed, count, notifications>>
  BY EndsBlock
<1> QED
  BY <1>1, <1>2, <1>3, <1>4, <1>5, <1>6 DEF RingStep, FillBlock, Moves, Retain, Take,
     ReleaseRun, ringVars, readerState

LEMMA RunTypeStep ==
    ASSUME IInv, [FreeNext]_vars, RingStep
    PROVE  RunTypeOK'
<1> TypeOK /\ RunTypeOK
  BY TypeParts DEF IInv
<1> USE DEF RunTypeOK
<1>0. done' \in BOOLEAN
  <2>1. UNCHANGED done \/ done' = TRUE
    BY EndsBlock DEF FreeNext, FillBlock, FindBlock, NextBlock, WaitForRelease, StopReading,
       Borrow, RejectBlock, NotReady, Polled, InterfaceLost, Retain, Finish, NotifySelf,
       Consume, Take, ReleaseRun, NotifyReader, CloseDone, vars
  <2> QED
    BY <2>1
<1>1. ASSUME NEW i \in Interfaces, Retain(i) PROVE RunTypeOK'
  <2> DEFINE r == [iface |-> i, block |-> Physical(i), fill |-> content[i][Physical(i)]]
  <2>1. Physical(i) \in Blocks /\ content[i][Physical(i)] \in Nat
    BY PhysicalType DEF TypeOK
  <2>2. r \in Run
    BY <2>1 DEF Run
  <2>3. queued' = Append(queued, r) /\ hand' = hand /\ kpc' = kpc
    BY <1>1 DEF Retain
  <2> HIDE DEF r
  <2> QED
    BY <1>0, <2>2, <2>3, AppendProperties
<1>2. ASSUME Take PROVE RunTypeOK'
  BY <1>0, <1>2, HeadTailProperties DEF Take
<1>3. ASSUME ReleaseRun PROVE RunTypeOK'
  BY <1>0, <1>3 DEF ReleaseRun
<1>4. ASSUME NotifyReader PROVE RunTypeOK'
  BY <1>0, <1>4 DEF NotifyReader
<1>5. ASSUME UNCHANGED runVars PROVE RunTypeOK'
  BY <1>0, <1>5 DEF runVars
<1>6. \A i \in Interfaces, more \in BOOLEAN : EndBlock(i, more) => UNCHANGED runVars
  BY EndsBlock DEF runVars
<1> QED
  BY <1>1, <1>2, <1>3, <1>4, <1>5, <1>6 DEF RingStep, FillBlock, Moves, Receives, Borrow,
     NotifySelf, ringVars

\* What a step can do to a block: give it to the kernel once nothing refers to it, and
\* fill it only while it is the kernel's.
LEMMA BlockStep ==
    ASSUME IInv, RingStep, NEW j \in Interfaces, NEW b \in Blocks
    PROVE  /\ status[j][b] = "user" => content'[j][b] = content[j][b]
           /\ status[j][b] = "user" /\ Referenced(j, b)' => status'[j][b] = "user"
           /\ Referenced(j, b)' => status[j][b] = "user"
           /\ status'[j][b] = "user" => status[j][b] = "user" \/ FillBlock(j)
<1> DEFINE Goal == /\ status[j][b] = "user" => content'[j][b] = content[j][b]
                   /\ status[j][b] = "user" /\ Referenced(j, b)' => status'[j][b] = "user"
                   /\ Referenced(j, b)' => status[j][b] = "user"
                   /\ status'[j][b] = "user" => status[j][b] = "user" \/ FillBlock(j)
<1> TypeOK
  BY DEF IInv
<1> /\ status \in [Interfaces -> [Blocks -> {"kernel", "user"}]]
    /\ content \in [Interfaces -> [Blocks -> Nat]]
    /\ references \in [Interfaces -> [Blocks -> Nat]]
  BY DEF TypeOK
<1>0. Referenced(j, b) => status[j][b] = "user"
  BY DEF IInv, ReferencedKept
<1> USE DEF Referenced
<1>1. ASSUME NEW i \in Interfaces, FillBlock(i) PROVE Goal
  <2> DEFINE c == filled[i] % BlockCount
  <2>1. /\ status[i][c] = "kernel" /\ references' = references
        /\ content' = [content EXCEPT ![i][c] = filled[i] + 1]
        /\ status' = [status EXCEPT ![i][c] = "user"]
    BY <1>1 DEF FillBlock
  <2>2. CASE i = j /\ c = b
    BY <1>0, <1>1, <2>1, <2>2
  <2>3. CASE ~(i = j /\ c = b)
    <3> HIDE DEF c
    <3>1. status'[j][b] = status[j][b] /\ content'[j][b] = content[j][b]
      BY <2>1, <2>3
    <3> QED
      BY <1>0, <2>1, <3>1
  <2> QED
    BY <2>2, <2>3
<1>2. ASSUME NEW i \in Interfaces, Borrow(i) PROVE Goal
  <2>1. /\ UNCHANGED <<status, content>> /\ status[i][Physical(i)] = "user"
        /\ references' = [references EXCEPT ![i][Physical(i)] = 1]
    BY <1>2 DEF Borrow, Ready, memoryVars
  <2> QED
    BY <1>0, <2>1
<1>3. ASSUME NEW i \in Interfaces, Retain(i) PROVE Goal
  <2> DEFINE p == Physical(i)
  <2>1. /\ UNCHANGED <<status, content>> /\ p \in Blocks /\ references[i][p] >= 1
        /\ references' = [references EXCEPT ![i][p] = @ + 1]
    BY <1>3, ReaderRefers DEF Retain, memoryVars
  <2> HIDE DEF p
  <2>2. references'[j][b] > 0 => references[j][b] > 0
    BY <2>1
  <2> QED
    BY <1>0, <2>1, <2>2
<1>4. ASSUME NEW i \in Interfaces, NEW p \in Blocks, references[i][p] >= 1, Drop(i, p),
             content' = content
      PROVE  Goal
  <2>1. references' = [references EXCEPT ![i][p] = @ - 1]
    BY <1>4 DEF Drop
  <2>2. references'[j][b] > 0 => references[j][b] > 0
    BY <1>4, <2>1
  <2>3. \/ status' = status
        \/ status' = [status EXCEPT ![i][p] = "kernel"] /\ references'[i][p] = 0
    BY <1>4, <2>1 DEF Drop
  <2> QED
    BY <1>0, <1>4, <2>2, <2>3
<1>5. ASSUME UNCHANGED <<memoryVars, references>> PROVE Goal
  BY <1>0, <1>5 DEF memoryVars
<1>6. ASSUME NEW i \in Interfaces, NEW more \in BOOLEAN, EndBlock(i, more) PROVE Goal
  BY <1>4, <1>6, ReaderRefers DEF EndBlock
<1>7. ASSUME ReleaseRun PROVE Goal
  BY <1>4, <1>7, HandRefers DEF ReleaseRun
<1> QED
  BY <1>1, <1>2, <1>3, <1>5, <1>6, <1>7 DEF RingStep, Moves, Receives, NotifySelf, Take,
     NotifyReader, ringVars

LEMMA KeptStep ==
    ASSUME IInv, RingStep
    PROVE  ReferencedKept'
BY BlockStep DEF ReferencedKept

\* What the reader looks at is not lent out.
LEMMA LooksStep ==
    ASSUME IInv, RingStep
    PROVE  LooksAtFree'
<1> TypeOK /\ LooksAtFree
  BY DEF IInv
<1> /\ rpc \in [Interfaces -> RingPC] /\ borrowed \in [Interfaces -> SUBSET Blocks]
    /\ blockIndex \in [Interfaces -> 0..(Wrap - 1)]
  BY DEF TypeOK
<1> USE DEF LooksAtFree, Physical
<1>1. ASSUME NEW i \in Interfaces, FillBlock(i) PROVE LooksAtFree'
  BY <1>1 DEF FillBlock, readerState
<1>2. ASSUME NEW i \in Interfaces, NEW label \in Between, Moves(i, label) PROVE LooksAtFree'
  BY <1>2 DEF Moves, RGoto
<1>3. ASSUME NEW i \in Interfaces, Receives(i) PROVE LooksAtFree'
  BY <1>3 DEF Receives, RGoto
<1>4. ASSUME NEW i \in Interfaces, Borrow(i) PROVE LooksAtFree'
  BY <1>4 DEF Borrow, RGoto
<1>5. ASSUME NEW i \in Interfaces, Retain(i) PROVE LooksAtFree'
  BY <1>5 DEF Retain, readerState
<1>6. ASSUME NEW i \in Interfaces, NEW more \in BOOLEAN, EndBlock(i, more) PROVE LooksAtFree'
  <2>1. /\ borrowed' = borrowed /\ rpc'[i] \in {"notify", "next", "returned"}
        /\ \A l \in Interfaces \ {i} : rpc'[l] = rpc[l] /\ blockIndex'[l] = blockIndex[l]
    BY <1>6, EndsBlock
  <2> QED
    BY <2>1
<1>7. ASSUME NEW i \in Interfaces, NotifySelf(i) PROVE LooksAtFree'
  BY <1>7 DEF NotifySelf, RGoto, NextIndex
<1>8. ASSUME UNCHANGED <<rpc, blockIndex, borrowed>> PROVE LooksAtFree'
  BY <1>8
<1> QED
  BY <1>1, <1>2, <1>3, <1>4, <1>5, <1>6, <1>7, <1>8 DEF RingStep, Take, ReleaseRun,
     NotifyReader, ringVars, readerState

\* A run in the queue or in hand has a reference after the step, too.
LEMMA RunsStillRefer ==
    ASSUME IInv, RunTypeOK', Counted', NEW i \in Interfaces, NEW b \in Blocks
    PROVE  /\ \A k \in DOMAIN queued' :
                 queued'[k].iface = i /\ queued'[k].block = b => references'[i][b] > 0
           /\ kpc' = "hold" /\ hand' # NoRun /\ hand'.iface = i /\ hand'.block = b =>
                 references'[i][b] > 0
<1> DEFINE R == RunsIn(queued', i, b)
<1>1. /\ Cardinality(R) \in Nat
      /\ \A k \in R : Cardinality(R) >= 1
  BY RunsFinite DEF RunTypeOK
<1>2. \A k \in DOMAIN queued' : queued'[k].iface = i /\ queued'[k].block = b => k \in R
  BY DEF RunsIn
<1> HIDE DEF R
<1>3. CountedOf(i, b)'
  BY DEF Counted
<1>4. references'[i][b] = Being(i, b)' + Cardinality(R) + Holding(i, b)'
  BY <1>3, CountedIs DEF R
<1>5. Being(i, b)' \in 0..1 /\ Holding(i, b)' \in 0..1
  BY DEF Being, Holding
<1>6. kpc' = "hold" /\ hand' # NoRun /\ hand'.iface = i /\ hand'.block = b => Holding(i, b)' = 1
  BY DEF Holding, InHand
<1>7. Cardinality(R) >= 1 \/ Holding(i, b)' = 1 => references'[i][b] > 0
  BY <1>1, <1>4, <1>5
<1> QED
  BY <1>1, <1>2, <1>6, <1>7

\* A run that refers to its block finds it as it was sent.
LEMMA InPlaceStep ==
    ASSUME IInv, RingStep, RunTypeOK', MemoryTypeOK', Counted', HandFull'
    PROVE  LentBlocksStayPut'
<1> TypeOK /\ LentBlocksStayPut /\ RunTypeOK
  BY TypeParts DEF IInv
<1> queued \in Seq(Run) /\ queued' \in Seq(Run)
  BY DEF RunTypeOK
<1>1. ASSUME NEW r \in Run, InPlace(r), references'[r.iface][r.block] > 0 PROVE InPlace(r)'
  <2>1. r.iface \in Interfaces /\ r.block \in Blocks
    BY DEF Run
  <2> QED
    BY <1>1, <2>1, BlockStep DEF InPlace, Referenced
<1>2. ASSUME NEW k \in DOMAIN queued', InPlace(queued'[k])
      PROVE  status'[queued'[k].iface][queued'[k].block] = "user"
             /\ content'[queued'[k].iface][queued'[k].block] = queued'[k].fill
  <2>1. PICK r \in Run : r = queued'[k]
    BY ElementOfSeq, LenProperties
  <2>2. r.iface \in Interfaces /\ r.block \in Blocks
    BY DEF Run
  <2>3. references'[r.iface][r.block] > 0
    BY <2>1, <2>2, RunsStillRefer
  <2> QED
    BY <1>1, <1>2, <2>1, <2>3 DEF InPlace
<1>3. ASSUME kpc' = "hold", InPlace(hand')
      PROVE  status'[hand'.iface][hand'.block] = "user"
             /\ content'[hand'.iface][hand'.block] = hand'.fill
  <2>1. hand' \in Run /\ hand' # NoRun
    BY <1>3 DEF HandFull, RunTypeOK
  <2>2. PICK r \in Run : r = hand'
    BY <2>1
  <2>3. r.iface \in Interfaces /\ r.block \in Blocks
    BY DEF Run
  <2>4. references'[r.iface][r.block] > 0
    BY <1>3, <2>1, <2>2, <2>3, RunsStillRefer
  <2> QED
    BY <1>1, <1>3, <2>2, <2>4 DEF InPlace
<1>4. SUFFICES /\ \A k \in DOMAIN queued' : InPlace(queued'[k])
               /\ kpc' = "hold" => InPlace(hand')
  BY <1>2, <1>3 DEF LentBlocksStayPut, InPlace
<1>5. CASE \E i \in Interfaces : Retain(i)
  <2>1. PICK i \in Interfaces : Retain(i)
    BY <1>5
  <2> DEFINE p == Physical(i)
             r == [iface |-> i, block |-> p, fill |-> content[i][p]]
  <2>2. p \in Blocks /\ references[i][p] >= 1
    BY <2>1, ReaderRefers DEF Retain
  <2>3. status[i][p] = "user"
    BY <2>2 DEF IInv, ReferencedKept, Referenced, TypeOK
  <2>4. r \in Run /\ InPlace(r)
    BY <2>2, <2>3 DEF Run, InPlace, TypeOK
  <2>5. queued' = Append(queued, r) /\ hand' = hand /\ kpc' = kpc
    BY <2>1 DEF Retain
  <2> HIDE DEF r
  <2>6. \A k \in DOMAIN queued' : (k \in DOMAIN queued /\ queued'[k] = queued[k]) \/ queued'[k] = r
    BY <2>4, <2>5, AppendProperties, LenProperties
  <2> QED
    BY <2>4, <2>5, <2>6 DEF LentBlocksStayPut
<1>6. CASE Take
  <2>1. /\ queued # <<>> /\ queued' = Tail(queued) /\ hand' = Head(queued)
    BY <1>6 DEF Take
  <2>2. /\ Len(queued) \in Nat \ {0} /\ DOMAIN queued = 1..Len(queued)
        /\ Head(queued) = queued[1] /\ Len(queued') = Len(queued) - 1
        /\ DOMAIN queued' = 1..Len(queued')
        /\ \A k \in 1..Len(queued') : queued'[k] = queued[k + 1]
    BY <2>1, HeadTailProperties, LenProperties, EmptySeq
  <2>3. \A k \in DOMAIN queued' : k + 1 \in DOMAIN queued /\ queued'[k] = queued[k + 1]
    BY <2>2
  <2>4. 1 \in DOMAIN queued
    BY <2>2
  <2> QED
    BY <2>1, <2>2, <2>3, <2>4 DEF LentBlocksStayPut
<1>7. CASE ReleaseRun
  BY <1>7 DEF ReleaseRun, LentBlocksStayPut
<1>8. CASE NotifyReader
  BY <1>8 DEF NotifyReader, LentBlocksStayPut
<1>9. CASE UNCHANGED runVars
  BY <1>9 DEF runVars, LentBlocksStayPut
<1>10. \A i \in Interfaces, more \in BOOLEAN : EndBlock(i, more) => UNCHANGED runVars
  BY EndsBlock DEF runVars
<1> QED
  BY <1>5, <1>6, <1>7, <1>8, <1>9, <1>10 DEF RingStep, FillBlock, Moves, Receives, Borrow,
     NotifySelf, ringVars

\* A step that leaves the memory of ring i and what its reader is about.
RingSame(i) == /\ filled'[i] = filled[i] /\ content'[i] = content[i] /\ status'[i] = status[i]
               /\ \A b \in Blocks : Referenced(i, b)' <=> Referenced(i, b)
               /\ blockIndex'[i] = blockIndex[i]
               /\ rpc'[i] = "notify" <=> rpc[i] = "notify"
               /\ rpc'[i] = "consume" <=> rpc[i] = "consume"

LEMMA SameOrder ==
    ASSUME IInv, NEW i \in Interfaces, RingSame(i)
    PROVE  \E d \in 0..filled'[i] : Done(i, d)'
<1>1. PICK d \in 0..filled[i] : Done(i, d)
  BY DEF IInv, InOrder
<1>2. Ahead(i, d)' = Ahead(i, d)
  BY DEF Ahead, RingSame
<1>3. \A n \in Ahead(i, d) : Slot(n) \in Blocks /\ (FillThere(i, n)' <=> FillThere(i, n))
  BY SlotType DEF Ahead, FillThere, RingSame
<1>4. Done(i, d)'
  BY <1>1, <1>2, <1>3 DEF Done, RingSame
<1> QED
  BY <1>1, <1>4 DEF RingSame

\* The fills between d and filled are in blocks of their own.
LEMMA SlotsAhead ==
    ASSUME TypeOK, NEW i \in Interfaces, NEW d \in 0..filled[i], Done(i, d)
    PROVE  /\ filled[i] \in Nat /\ d \in Nat
           /\ \A n \in Ahead(i, d) : n \in Nat /\ Slot(n) \in Blocks
           /\ \A m, n \in Ahead(i, d) : Slot(m) = Slot(n) => m = n
           /\ \A n \in Ahead(i, d) : n < d + 1 + BlockCount
           /\ filled[i] < d + BlockCount =>
                 \A n \in Ahead(i, d) : Slot(n) # Slot(filled[i] + 1)
<1>1. filled[i] \in Nat /\ d \in Nat /\ filled[i] <= d + BlockCount
  BY DEF TypeOK, Done
<1>2. \A n \in Ahead(i, d) : n \in Nat /\ d + 1 <= n /\ n <= filled[i]
  BY <1>1 DEF Ahead
<1>3. \A n \in Ahead(i, d) : n \in Nat /\ Slot(n) \in Blocks
  BY <1>2, SlotType
<1>4. \A n \in Ahead(i, d) : n < d + 1 + BlockCount
  BY <1>1, <1>2
<1>5. ASSUME NEW m \in Ahead(i, d), NEW n \in Ahead(i, d), Slot(m) = Slot(n) PROVE m = n
  <2>1. m \in Nat /\ n \in Nat /\ m < n + BlockCount /\ n < m + BlockCount
    BY <1>1, <1>2
  <2>2. ~(m < n) /\ ~(n < m)
    BY <1>5, <2>1, SlotsDiffer
  <2> QED
    BY <2>1, <2>2
<1>6. ASSUME filled[i] < d + BlockCount, NEW n \in Ahead(i, d)
      PROVE  Slot(n) # Slot(filled[i] + 1)
  <2>1. n \in Nat /\ filled[i] + 1 \in Nat /\ n < filled[i] + 1 /\ filled[i] + 1 < n + BlockCount
    BY <1>1, <1>2, <1>6
  <2> QED
    BY <2>1, SlotsDiffer
<1> QED
  BY <1>1, <1>3, <1>4, <1>5, <1>6

\* A fill and the one a round later are in the same block.
LEMMA NextRound == \A d \in Nat : (BlockCount + d) % BlockCount = ((d + 1) - 1) % BlockCount
<1> TAKE d \in Nat
<1> DEFINE q == d \div BlockCount
           r == d % BlockCount
<1>1. d \in Int /\ BlockCount \in Nat \ {0}
  OBVIOUS
<1>2. q \in Int /\ r \in 0..BlockCount-1 /\ d = BlockCount * q + r
  BY <1>1, Modulo
<1> HIDE DEF q, r
<1>3. BlockCount + d = BlockCount * (q + 1) + r /\ q + 1 \in Int /\ r \in Int /\ 0 <= r /\ r < BlockCount
  BY <1>2
<1>4. (BlockCount * (q + 1) + r) % BlockCount = r
  BY <1>3, Remainder
<1>5. (d + 1) - 1 = d
  OBVIOUS
<1> QED
  BY <1>3, <1>4, <1>5 DEF r

\* The kernel fills the next block once it is given back: the ring is not full.
LEMMA FillKeepsOrder ==
    ASSUME IInv, NEW i \in Interfaces, FillBlock(i)
    PROVE  \E d \in 0..filled'[i] : Done(i, d)'
<1> TypeOK
  BY DEF IInv
<1>1. PICK d \in 0..filled[i] : Done(i, d)
  BY DEF IInv, InOrder
<1>0. PICK f \in Nat : f = filled[i]
  BY DEF TypeOK
<1> DEFINE b == Slot(f + 1)
<1>2. f = filled[i] /\ f \in Nat /\ d \in Nat /\ f <= d + BlockCount /\ b \in Blocks
  <2>1. f + 1 \in Int
    OBVIOUS
  <2> QED
    BY <1>0, <1>1, <2>1, SlotsAhead, SlotType DEF Done
<1>3. b = f % BlockCount
  <2>1. (f + 1) - 1 = f
    OBVIOUS
  <2> QED
    BY <2>1 DEF Slot
<1>4. /\ status[i][b] = "kernel" /\ filled'[i] = f + 1
      /\ content'[i] = [content[i] EXCEPT ![b] = f + 1]
      /\ status'[i] = [status[i] EXCEPT ![b] = "user"]
      /\ UNCHANGED <<rpc, blockIndex, references>>
  <2> HIDE DEF b
  <2> QED
    BY <1>2, <1>3 DEF FillBlock, TypeOK, readerState
<1>5. f < d + BlockCount
  <2>1. CASE f = d + BlockCount
    <3>1. d + 1 \in Ahead(i, d) /\ FillThere(i, d + 1)
      BY <1>1, <1>2, <2>1 DEF Ahead, Done
    <3>2. Slot(d + 1) = b
      <4>1. b = (BlockCount + d) % BlockCount
        BY <1>2, <1>3, <2>1
      <4> QED
        BY <1>2, <4>1, NextRound DEF Slot
    <3> QED
      BY <1>4, <3>1, <3>2 DEF FillThere
  <2> QED
    BY <1>2, <2>1
<1>6. \A n \in Ahead(i, d) : n \in Nat /\ Slot(n) \in Blocks /\ Slot(n) # b
  BY <1>1, <1>2, <1>5, SlotsAhead
<1>7. Ahead(i, d)' = Ahead(i, d) \cup {f + 1}
  BY <1>2, <1>4 DEF Ahead
<1>8. \A c \in Blocks : Referenced(i, c)' <=> Referenced(i, c)
  BY <1>4 DEF Referenced
<1>9. ~Referenced(i, b)
  BY <1>2, <1>4 DEF IInv, ReferencedKept
<1> HIDE DEF b
<1>10. /\ \A n \in Ahead(i, d) : FillThere(i, n)'
       /\ FillThere(i, f + 1)'
  <2>1. content[i] \in [Blocks -> Nat] /\ status[i] \in [Blocks -> {"kernel", "user"}]
    BY DEF TypeOK
  <2>2. \A n \in Ahead(i, d) : FillThere(i, n)
    BY <1>1 DEF Done
  <2>3. content'[i][b] = f + 1 /\ status'[i][b] = "user"
    BY <1>2, <1>4, <2>1
  <2>4. \A c \in Blocks : c # b => content'[i][c] = content[i][c] /\ status'[i][c] = status[i][c]
    BY <1>2, <1>4, <2>1
  <2> QED
    BY <1>6, <2>2, <2>3, <2>4 DEF FillThere, b
<1>11. ASSUME NEW c \in Blocks, status'[i][c] = "user"
       PROVE  Referenced(i, c)' \/ \E n \in Ahead(i, d)' : Slot(n) = c
  <2>1. CASE c = b
    BY <1>7, <2>1 DEF b
  <2>2. CASE c # b
    <3>1. status[i][c] = "user"
      BY <1>2, <1>4, <1>11, <2>2 DEF TypeOK
    <3> QED
      BY <1>1, <1>7, <1>8, <3>1 DEF Done
  <2> QED
    BY <2>1, <2>2
<1>12. \A n \in Ahead(i, d)' :
          /\ FillThere(i, n)'
          /\ Referenced(i, Slot(n))' => rpc'[i] = "consume" /\ n = d + 1
  <2>1. ASSUME NEW n \in Ahead(i, d), Referenced(i, Slot(n))' PROVE rpc'[i] = "consume" /\ n = d + 1
    BY <1>1, <1>4, <1>6, <1>8, <2>1 DEF Done
  <2>2. ~Referenced(i, Slot(f + 1))'
    BY <1>2, <1>8, <1>9 DEF b
  <2> QED
    BY <1>7, <1>10, <2>1, <2>2
<1>13. /\ filled'[i] <= d + BlockCount /\ d \in 0..filled'[i]
       /\ rpc'[i] = "consume" => d < filled'[i]
  BY <1>1, <1>2, <1>4, <1>5 DEF Done
<1>14. Done(i, d)'
  BY <1>1, <1>4, <1>11, <1>12, <1>13 DEF Done
<1> QED
  BY <1>13, <1>14

\* The block decodeBlock finds filled is the next fill, not one that is still lent.
LEMMA BorrowKeepsOrder ==
    ASSUME IInv, NEW i \in Interfaces, Borrow(i)
    PROVE  \E d \in 0..filled'[i] : Done(i, d)'
<1> TypeOK
  BY DEF IInv
<1>1. PICK d \in 0..filled[i] : Done(i, d)
  BY DEF IInv, InOrder
<1> DEFINE p == Physical(i)
<1>2. /\ p \in Blocks /\ rpc[i] = "decode" /\ status[i][p] = "user" /\ p \notin borrowed[i]
      /\ UNCHANGED <<memoryVars, blockIndex>> /\ rpc'[i] = "consume"
      /\ references' = [references EXCEPT ![i][p] = 1]
  BY PhysicalType DEF Borrow, Ready, RGoto, IInv, LooksAtFree, TypeOK
<1>3. ~Referenced(i, p)
  BY <1>2 DEF IInv, BorrowedListed, OneReason
<1>4. p = Slot(d + 1) /\ d \in Nat
  BY <1>1, <1>2, SlotsAhead, WorksOn
<1> HIDE DEF p
<1>5. PICK n \in Ahead(i, d) : Slot(n) = p
  BY <1>1, <1>2, <1>3 DEF Done
<1>6. n = d + 1
  <2>1. n \in Nat /\ d + 1 <= n /\ n < d + 1 + BlockCount
    BY <1>1, <1>5, SlotsAhead DEF Ahead
  <2>2. ~(d + 1 < n)
    BY <1>4, <1>5, <2>1, SlotsDiffer
  <2> QED
    BY <1>4, <2>1, <2>2
<1>7. d < filled[i]
  BY <1>1, <1>5, <1>6, SlotsAhead DEF Ahead
<1>8. \A c \in Blocks : Referenced(i, c)' <=> Referenced(i, c) \/ c = p
  BY <1>2 DEF Referenced, TypeOK
<1>9. filled' = filled /\ status' = status /\ Ahead(i, d)' = Ahead(i, d)
  BY <1>2 DEF Ahead, memoryVars
<1>10. \A m \in Ahead(i, d) : /\ FillThere(i, m)' <=> FillThere(i, m)
                              /\ Slot(m) \in Blocks /\ (Slot(m) = p => m = d + 1)
  <2>1. \A m \in Ahead(i, d) : FillThere(i, m)' <=> FillThere(i, m)
    BY <1>2 DEF FillThere, memoryVars
  <2>2. \A m \in Ahead(i, d) : Slot(m) = p => m = n
    BY <1>1, <1>5, SlotsAhead
  <2> QED
    BY <1>1, <1>6, <2>1, <2>2, SlotsAhead
<1>11. Done(i, d)'
  BY <1>1, <1>2, <1>7, <1>8, <1>9, <1>10 DEF Done
<1> QED
  BY <1>9, <1>11

\* enqueueBlock returns: one fill more is finished.
LEMMA EndKeepsOrder ==
    ASSUME IInv, NEW i \in Interfaces, NEW more \in BOOLEAN, EndBlock(i, more)
    PROVE  \E d \in 0..filled'[i] : Done(i, d)'
<1> TypeOK
  BY DEF IInv
<1>1. PICK d \in 0..filled[i] : Done(i, d)
  BY DEF IInv, InOrder
<1> DEFINE p == Physical(i)
           e == d + 1
<1>2. /\ p \in Blocks /\ references[i][p] >= 1 /\ rpc[i] = "consume"
      /\ filled' = filled /\ content' = content
      /\ references' = [references EXCEPT ![i][p] = @ - 1]
      /\ references[i][p] = 1 => /\ rpc'[i] = "notify" /\ blockIndex' = blockIndex
                                 /\ status' = [status EXCEPT ![i][p] = "kernel"]
      /\ references[i][p] # 1 => /\ rpc'[i] \notin {"notify", "consume"} /\ status' = status
                                 /\ blockIndex'[i] = (blockIndex[i] + 1) % Wrap
  <2>1. rpc[i] = "consume" /\ p \in Blocks /\ references[i][p] >= 1
    BY EndsBlock, ReaderRefers
  <2>2. CASE references[i][p] = 1
    BY <2>1, <2>2, EndsBlock DEF TypeOK
  <2>3. CASE references[i][p] # 1
    <3> DEFINE label == AfterBlock(i)
    <3>1. /\ UNCHANGED <<content, filled, status>>
          /\ references' = [references EXCEPT ![i][p] = @ - 1]
          /\ rpc' = [rpc EXCEPT ![i] = label]
          /\ blockIndex' = [blockIndex EXCEPT ![i] = (@ + 1) % Wrap]
          /\ label \in {"next", "returned"}
      BY <2>3, EndsBlock
    <3> HIDE DEF p, label
    <3> QED
      BY <2>1, <2>3, <3>1 DEF TypeOK
  <2> QED
    BY <2>2, <2>3
<1>3. /\ d \in Nat /\ e \in Nat /\ e > 0 /\ filled[i] \in Nat /\ d < filled[i]
      /\ filled[i] <= d + BlockCount /\ blockIndex[i] = d % Wrap /\ p = Slot(e)
      /\ e - 1 = d
  BY <1>1, <1>2, SlotsAhead, WorksOn DEF Done
<1>4. e \in Ahead(i, d) /\ Ahead(i, e)' = Ahead(i, d) \ {e}
  BY <1>2, <1>3 DEF Ahead
<1>5. \A n \in Ahead(i, d) : Slot(n) \in Blocks /\ (Slot(n) = p => n = e)
  <2> HIDE DEF e, p
  <2> QED
    BY <1>1, <1>3, <1>4, SlotsAhead
<1>6. /\ rpc'[i] # "consume"
      /\ rpc'[i] = "notify" => blockIndex'[i] = (e - 1) % Wrap
      /\ rpc'[i] # "notify" => blockIndex'[i] = e % Wrap
  BY <1>2, <1>3, WrapNext
<1> HIDE DEF p, e
<1>7. \A c \in Blocks : c # p => status'[i][c] = status[i][c] /\ (Referenced(i, c)' <=> Referenced(i, c))
  BY <1>2 DEF Referenced, TypeOK
<1>8. status'[i][p] = "user" => references'[i][p] > 0
  BY <1>2 DEF TypeOK
<1>9. ASSUME NEW n \in Ahead(i, e)' PROVE FillThere(i, n)' /\ ~Referenced(i, Slot(n))'
  <2>1. n \in Ahead(i, d) /\ n # e /\ Slot(n) # p /\ Slot(n) \in Blocks
    BY <1>4, <1>5
  <2>2. FillThere(i, n) /\ ~Referenced(i, Slot(n))
    BY <1>1, <2>1 DEF Done, e
  <2> QED
    BY <1>2, <1>7, <2>1, <2>2 DEF FillThere
<1>10. ASSUME NEW c \in Blocks, status'[i][c] = "user"
       PROVE  Referenced(i, c)' \/ \E n \in Ahead(i, e)' : Slot(n) = c
  <2>1. CASE c = p
    BY <1>8, <1>10, <2>1 DEF Referenced
  <2>2. CASE c # p
    <3>1. Referenced(i, c) \/ \E n \in Ahead(i, d) : Slot(n) = c
      BY <1>1, <1>7, <1>10, <2>2 DEF Done
    <3>2. \A n \in Ahead(i, d) : Slot(n) = c => n \in Ahead(i, e)'
      BY <1>3, <1>4, <2>2
    <3> QED
      BY <1>7, <2>2, <3>1, <3>2
  <2> QED
    BY <2>1, <2>2
<1>11. filled'[i] <= e + BlockCount /\ e \in 0..filled'[i]
  BY <1>2, <1>3 DEF e
<1>12. Done(i, e)'
  BY <1>3, <1>6, <1>9, <1>10, <1>11 DEF Done
<1> QED
  BY <1>11, <1>12

\* The reader, notified, goes on to the next block.
LEMMA NotifyKeepsOrder ==
    ASSUME IInv, NEW i \in Interfaces, NotifySelf(i)
    PROVE  \E d \in 0..filled'[i] : Done(i, d)'
<1> TypeOK
  BY DEF IInv
<1>1. PICK d \in 0..filled[i] : Done(i, d)
  BY DEF IInv, InOrder
<1>2. /\ rpc[i] = "notify" /\ rpc'[i] \notin {"notify", "consume"}
      /\ blockIndex'[i] = (blockIndex[i] + 1) % Wrap
      /\ UNCHANGED <<memoryVars, references>>
  BY DEF NotifySelf, RGoto, NextIndex, TypeOK
<1>3. d - 1 \in Nat /\ blockIndex[i] = (d - 1) % Wrap /\ (d - 1) + 1 = d
  BY <1>1, <1>2, SlotsAhead DEF Done
<1>4. blockIndex'[i] = d % Wrap
  BY <1>2, <1>3, WrapNext
<1>5. filled' = filled /\ status' = status /\ Ahead(i, d)' = Ahead(i, d)
  BY <1>2 DEF Ahead, memoryVars
<1>6. \A m \in Ahead(i, d) : /\ FillThere(i, m)' <=> FillThere(i, m)
                             /\ ~Referenced(i, Slot(m))
  BY <1>1, <1>2 DEF FillThere, memoryVars, Done
<1>7. \A b : Referenced(i, b)' <=> Referenced(i, b)
  BY <1>2 DEF Referenced
<1>8. Done(i, d)'
  BY <1>1, <1>2, <1>4, <1>5, <1>6, <1>7 DEF Done
<1> QED
  BY <1>5, <1>8

\* A run released gives back a block behind the reader, never one ahead of it.
LEMMA ReleaseKeepsOrder ==
    ASSUME IInv, ReleaseRun, NEW i \in Interfaces
    PROVE  \E d \in 0..filled'[i] : Done(i, d)'
<1> TypeOK
  BY DEF IInv
<1> DEFINE p == hand.block
<1>1. /\ hand.iface \in Interfaces /\ p \in Blocks /\ references[hand.iface][p] >= 1
      /\ rpc[hand.iface] = "consume" /\ Physical(hand.iface) = p => references[hand.iface][p] >= 2
  BY HandRefers DEF ReleaseRun
<1>2. /\ UNCHANGED <<content, filled, readerState>>
      /\ references' = [references EXCEPT ![hand.iface][p] = @ - 1]
      /\ status' = IF references[hand.iface][p] = 1
                   THEN [status EXCEPT ![hand.iface][p] = "kernel"] ELSE status
  BY DEF ReleaseRun, Drop
<1>3. CASE i # hand.iface
  <2>1. RingSame(i)
    BY <1>1, <1>2, <1>3 DEF RingSame, Referenced, readerState, TypeOK
  <2> QED
    BY <2>1, SameOrder
<1>4. CASE i = hand.iface
  <2>1. PICK d \in 0..filled[i] : Done(i, d)
    BY DEF IInv, InOrder
  <2>2. d \in Nat /\ \A n \in Ahead(i, d) : Slot(n) \in Blocks
    BY <2>1, SlotsAhead
  <2>3. ASSUME NEW n \in Ahead(i, d), Slot(n) = p PROVE references[i][p] >= 2
    <3>1. Referenced(i, Slot(n))
      BY <1>1, <1>4, <2>3 DEF Referenced, TypeOK
    <3>2. rpc[i] = "consume" /\ n = d + 1
      BY <2>1, <3>1 DEF Done
    <3>3. Physical(i) = p
      BY <2>1, <2>2, <2>3, <3>2, WorksOn
    <3> QED
      BY <1>1, <1>4, <3>2, <3>3
  <2> HIDE DEF p
  <2>4. \A c \in Blocks : c # p \/ references[i][p] >= 2 =>
           status'[i][c] = status[i][c] /\ (Referenced(i, c)' <=> Referenced(i, c))
    BY <1>1, <1>2, <1>4 DEF Referenced, TypeOK
  <2>5. references[i][p] = 1 => status'[i][p] = "kernel"
    BY <1>1, <1>2, <1>4 DEF TypeOK
  <2>6. /\ filled' = filled /\ content' = content /\ rpc' = rpc /\ blockIndex' = blockIndex
        /\ Ahead(i, d)' = Ahead(i, d)
    BY <1>2 DEF readerState, Ahead
  <2>7. ASSUME NEW n \in Ahead(i, d)
        PROVE  FillThere(i, n)' /\ (Referenced(i, Slot(n))' => Referenced(i, Slot(n)))
    <3>1. status'[i][Slot(n)] = status[i][Slot(n)]
          /\ (Referenced(i, Slot(n))' <=> Referenced(i, Slot(n)))
      BY <2>2, <2>3, <2>4
    <3> QED
      BY <2>1, <2>6, <3>1 DEF Done, FillThere
  <2>8. ASSUME NEW c \in Blocks, status'[i][c] = "user"
        PROVE  Referenced(i, c)' \/ \E n \in Ahead(i, d) : Slot(n) = c
    <3>1. c # p \/ references[i][p] >= 2
      BY <1>1, <1>4, <2>5, <2>8 DEF TypeOK
    <3> QED
      BY <2>1, <2>4, <2>8, <3>1 DEF Done
  <2>9. Done(i, d)'
    BY <2>1, <2>6, <2>7, <2>8 DEF Done
  <2> QED
    BY <2>6, <2>9
<1> QED
  BY <1>3, <1>4

LEMMA OrderStep ==
    ASSUME IInv, RingStep
    PROVE  InOrder'
<1> TypeOK
  BY DEF IInv
<1> /\ status \in [Interfaces -> [Blocks -> {"kernel", "user"}]]
    /\ content \in [Interfaces -> [Blocks -> Nat]] /\ filled \in [Interfaces -> Nat]
    /\ references \in [Interfaces -> [Blocks -> Nat]] /\ rpc \in [Interfaces -> RingPC]
    /\ blockIndex \in [Interfaces -> 0..(Wrap - 1)]
  BY DEF TypeOK
<1> SUFFICES ASSUME NEW j \in Interfaces PROVE \E d \in 0..filled'[j] : Done(j, d)'
  BY DEF InOrder
<1> DEFINE Goal == \E d \in 0..filled'[j] : Done(j, d)'
<1> USE DEF RingSame, Referenced
<1>1. ASSUME NEW i \in Interfaces, FillBlock(i) PROVE Goal
  <2>1. CASE i = j
    BY <1>1, <2>1, FillKeepsOrder
  <2>2. CASE i # j
    <3>1. RingSame(j)
      BY <1>1, <2>2 DEF FillBlock, readerState
    <3> QED
      BY <3>1, SameOrder
  <2> QED
    BY <2>1, <2>2
<1>2. ASSUME NEW i \in Interfaces, Borrow(i) PROVE Goal
  <2>1. CASE i = j
    BY <1>2, <2>1, BorrowKeepsOrder
  <2>2. CASE i # j
    <3>1. RingSame(j)
      BY <1>2, <2>2 DEF Borrow, memoryVars, RGoto
    <3> QED
      BY <3>1, SameOrder
  <2> QED
    BY <2>1, <2>2
<1>3. ASSUME NEW i \in Interfaces, Retain(i) PROVE Goal
  <2> DEFINE p == Physical(i)
  <2>1. /\ p \in Blocks /\ references[i][p] >= 1
        /\ references' = [references EXCEPT ![i][p] = @ + 1]
        /\ UNCHANGED <<memoryVars, readerState>>
    BY <1>3, ReaderRefers DEF Retain
  <2> HIDE DEF p
  <2>2. \A b \in Blocks : references'[j][b] > 0 <=> references[j][b] > 0
    BY <2>1
  <2>3. RingSame(j)
    BY <2>1, <2>2 DEF memoryVars, readerState
  <2> QED
    BY <2>3, SameOrder
<1>4. ASSUME NEW i \in Interfaces, NEW more \in BOOLEAN, EndBlock(i, more) PROVE Goal
  <2>1. CASE i = j
    BY <1>4, <2>1, EndKeepsOrder
  <2>2. CASE i # j
    <3>1. /\ UNCHANGED <<content, filled>>
          /\ references' = [references EXCEPT ![i][Physical(i)] = @ - 1]
          /\ rpc'[j] = rpc[j] /\ blockIndex'[j] = blockIndex[j]
          /\ status' = status \/ status' = [status EXCEPT ![i][Physical(i)] = "kernel"]
      BY <1>4, <2>2, EndsBlock
    <3>2. RingSame(j)
      BY <2>2, <3>1
    <3> QED
      BY <3>2, SameOrder
  <2> QED
    BY <2>1, <2>2
<1>5. ASSUME NEW i \in Interfaces, NotifySelf(i) PROVE Goal
  <2>1. CASE i = j
    BY <1>5, <2>1, NotifyKeepsOrder
  <2>2. CASE i # j
    <3>1. RingSame(j)
      BY <1>5, <2>2 DEF NotifySelf, memoryVars, RGoto, NextIndex
    <3> QED
      BY <3>1, SameOrder
  <2> QED
    BY <2>1, <2>2
<1>6. ASSUME NEW i \in Interfaces, NEW label \in Between, Moves(i, label) PROVE Goal
  <2>1. RingSame(j)
    BY <1>6 DEF Moves, memoryVars, RGoto, Between
  <2> QED
    BY <2>1, SameOrder
<1>7. ASSUME NEW i \in Interfaces, Receives(i) PROVE Goal
  <2>1. RingSame(j)
    BY <1>7 DEF Receives, memoryVars, RGoto
  <2> QED
    BY <2>1, SameOrder
<1>8. ASSUME UNCHANGED <<memoryVars, references, rpc, blockIndex>> PROVE Goal
  <2>1. RingSame(j)
    BY <1>8 DEF memoryVars
  <2> QED
    BY <2>1, SameOrder
<1>9. ASSUME ReleaseRun PROVE Goal
  BY <1>9, ReleaseKeepsOrder
<1> QED
  BY <1>1, <1>2, <1>3, <1>4, <1>5, <1>6, <1>7, <1>8, <1>9 DEF RingStep, Take, NotifyReader,
     ringVars, readerState

-----------------------------------------------------------------------------
(* The invariant.                                                          *)

LEMMA InitIInv == Init => IInv
<1> SUFFICES ASSUME Init PROVE IInv
  OBVIOUS
<1> USE DEF Init
<1>1. TypeOK
  <2>1. 0 \in 0..(Wrap - 1) /\ 0 \in 0..BlockCount
    BY WrapAssumption DEF WrapAssumption
  <2>2. queued \in Seq(Run)
    BY EmptySeq
  <2>3. /\ status \in [Interfaces -> [Blocks -> {"kernel", "user"}]]
        /\ content \in [Interfaces -> [Blocks -> Nat]]
        /\ filled \in [Interfaces -> Nat]
        /\ references \in [Interfaces -> [Blocks -> Nat]]
    OBVIOUS
  <2>4. /\ rpc \in [Interfaces -> RingPC]
        /\ blockIndex \in [Interfaces -> 0..(Wrap - 1)]
        /\ keep \in [Interfaces -> BOOLEAN]
    BY <2>1 DEF RingPC
  <2>5. /\ borrowed \in [Interfaces -> SUBSET Blocks]
        /\ count \in [Interfaces -> 0..BlockCount]
    BY <2>1
  <2>6. notifications \in [Interfaces -> Seq(Blocks)]
    BY EmptySeq
  <2>7. hand = NoRun /\ kpc = "take" /\ done = FALSE
    OBVIOUS
  <2> QED
    BY ONLY <2>2, <2>3, <2>4, <2>5, <2>6, <2>7 DEF TypeOK
<1>2. HandFull /\ LooksAtFree /\ LentBlocksStayPut
  BY DEF HandFull, LooksAtFree, LentBlocksStayPut
<1>3. ReferencedKept
  BY DEF ReferencedKept, Referenced
<1>4. Counted
  <2> SUFFICES ASSUME NEW i \in Interfaces, NEW b \in Blocks PROVE CountedOf(i, b)
    BY DEF Counted
  <2>1. RunsOf(i, b) = {} /\ Being(i, b) = 0 /\ Holding(i, b) = 0
    BY DEF RunsOf, Being, Holding
  <2> QED
    BY <2>1, FS_EmptySet DEF CountedOf
<1>5. BorrowedListed
  <2> SUFFICES ASSUME NEW i \in Interfaces
               PROVE  /\ \A b \in Blocks : OneReason(i, b)
                      /\ NotifiedOnce(i) /\ count[i] = Cardinality(borrowed[i])
    BY DEF BorrowedListed
  <2>1. \A b \in Blocks : OneReason(i, b)
    BY DEF OneReason, Referenced, SelfNotifies, HandNotifies, Notified
  <2>2. NotifiedOnce(i)
    BY DEF NotifiedOnce
  <2> QED
    BY <2>1, <2>2, FS_EmptySet
<1>6. InOrder
  <2> SUFFICES ASSUME NEW i \in Interfaces PROVE Done(i, 0)
    BY DEF InOrder
  <2>1. Ahead(i, 0) = {}
    BY DEF Ahead
  <2>2. 0 % Wrap = 0
    <3>1. Wrap \in Nat \ {0} /\ Wrap * 0 + 0 = 0
      BY WrapAssumption DEF WrapAssumption
    <3>2. (Wrap * 0 + 0) % Wrap = 0
      BY <3>1, Remainder
    <3> QED
      BY <3>1, <3>2
  <2> QED
    BY <2>1, <2>2 DEF Done
<1> QED
  BY <1>1, <1>2, <1>3, <1>4, <1>5, <1>6 DEF IInv

LEMMA NextIInv == IInv /\ [FreeNext]_vars => IInv'
<1> SUFFICES ASSUME IInv, [FreeNext]_vars PROVE IInv'
  OBVIOUS
<1>1. RingStep
  BY StepKinds
<1>2. HandFull' /\ Counted' /\ BorrowedListed' /\ ReferencedKept' /\ LooksAtFree' /\ InOrder'
  BY <1>1, HandStep, CountedStep, BorrowedStep, KeptStep, LooksStep, OrderStep
<1>3. MemoryTypeOK' /\ ReaderTypeOK' /\ ListTypeOK' /\ RunTypeOK'
  BY <1>1, MemoryTypeStep, ReaderTypeStep, ListTypeStep, RunTypeStep
<1>4. TypeOK'
  BY <1>2, <1>3, TypeParts, PTL
<1>5. LentBlocksStayPut'
  BY <1>1, <1>2, <1>3, InPlaceStep
<1> QED
  BY <1>2, <1>4, <1>5 DEF IInv

\* However many runs borrow a block at once, and whatever the queue in between does with
\* them, the ring keeps its invariant.
THEOREM Invariance == FreeSpec => []IInv
<1>1. Init => IInv
  BY InitIInv
<1>2. IInv /\ [FreeNext]_vars => IInv'
  BY NextIInv
<1> QED
  BY <1>1, <1>2, PTL DEF FreeSpec

\* With no run on its way, the reader gone leaves no block referenced.
LEMMA Unreferenced ==
    ASSUME IInv, NEW i \in Interfaces, NEW b \in Blocks,
           queued = <<>>, hand = NoRun, rpc[i] = "returned"
    PROVE  references[i][b] = 0
<1>1. RunsOf(i, b) = {} /\ Being(i, b) = 0 /\ Holding(i, b) = 0
  BY DEF RunsOf, Being, Holding, InHand
<1>2. Cardinality(RunsOf(i, b)) = 0
  BY <1>1, FS_EmptySet
<1>3. references[i][b] = Being(i, b) + Cardinality(RunsOf(i, b)) + Holding(i, b)
  BY CountsAre
<1> QED
  BY <1>1, <1>2, <1>3

\* The bound on the runs of a block and the step of the terminated system take nothing
\* from this: every behaviour of Spec is one of FreeSpec.
LEMMA SpecIsFree == Spec => FreeSpec
<1>1. [Next]_vars => [FreeNext]_vars
  BY DEF Next, FreeNext, SendRun, Terminated
<1> QED
  BY <1>1, PTL DEF Spec, FreeSpec

\* The state of the rings, readers and runs keeps its type: blockIndex is below the
\* wrap, the number of borrowed blocks at most the size of the ring, no reference count
\* below zero.
THEOREM TypeCorrect == Spec => []TypeOK
<1>1. IInv => TypeOK
  BY DEF IInv
<1> QED
  BY <1>1, Invariance, SpecIsFree, PTL

\* packetRingBlockOwnership keeps a block from the kernel until its last run is
\* released: a run in the queue or in hand finds the packets it was cut from.
THEOREM LentBlocksStay == Spec => []LentBlocksStayPut
<1>1. IInv => LentBlocksStayPut
  BY DEF IInv
<1> QED
  BY <1>1, Invariance, SpecIsFree, PTL

\* readPacketRing consumes every fill of its ring once and in the kernel's order, though
\* blocks come back in another and blockIndex wraps.
THEOREM FillsAreInOrder == Spec => []FillsInOrder
<1>1. ASSUME IInv PROVE FillsInOrder
  <2> SUFFICES ASSUME NEW i \in Interfaces, rpc[i] = "consume"
               PROVE  content[i][Physical(i)] % Wrap = (blockIndex[i] + 1) % Wrap
    BY DEF FillsInOrder
  <2>1. PICK d \in 0..filled[i] : Done(i, d)
    BY <1>1 DEF IInv, InOrder
  <2>2. d \in Nat /\ filled[i] \in Nat /\ d < filled[i] /\ blockIndex[i] = d % Wrap
    BY <1>1, <2>1, SlotsAhead DEF IInv, Done
  <2>3. d + 1 \in Ahead(i, d)
    BY <2>2 DEF Ahead
  <2>4. content[i][Slot(d + 1)] = d + 1
    BY <2>1, <2>3 DEF Done, FillThere
  <2>5. Physical(i) = Slot(d + 1)
    BY <2>1, <2>2, WorksOn
  <2> QED
    BY <2>2, <2>4, <2>5, WrapNext
<1> QED
  BY <1>1, Invariance, SpecIsFree, PTL

\* The borrowed list, the reference counts and the notifications agree: every reference
\* is the reader's or a run's, a block is listed until its one notification is received,
\* and the channel always has room for it, so neither thread blocks sending it.
THEOREM BorrowedIsAccounted == Spec => []BorrowedAccounted
<1>1. ASSUME IInv PROVE BorrowedAccounted
  <2> TypeOK
    BY <1>1 DEF IInv
  <2> SUFFICES ASSUME NEW i \in Interfaces, NEW b \in Blocks
               PROVE
                 LET notified == Cardinality({k \in DOMAIN notifications[i] :
                                                 notifications[i][k] = b})
                     underway == \/ rpc[i] = "notify" /\ Physical(i) = b
                                 \/ kpc = "notify" /\ InHand(i, b)
                 IN /\ count[i] = Cardinality(borrowed[i])
                    /\ references[i][b] =
                           Being(i, b) + Cardinality(RunsOf(i, b))
                           + (IF kpc = "hold" /\ InHand(i, b) THEN 1 ELSE 0)
                    /\ notified <= 1
                    /\ b \in borrowed[i] <=>
                           references[i][b] > 0 \/ underway \/ notified = 1
                    /\ underway => Len(notifications[i]) < BlockCount
    <3>1. ASSUME Interfaces # {} PROVE Blocks # {}
      BY DEF Blocks
    <3>2. \A i \in Interfaces : count[i] = Cardinality(borrowed[i])
      BY <1>1 DEF IInv, BorrowedListed
    <3> QED
      BY <3>2 DEF BorrowedAccounted
  <2> DEFINE N == {k \in DOMAIN notifications[i] : notifications[i][k] = b}
             underway == SelfNotifies(i, b) \/ HandNotifies(i, b)
  <2>1. /\ OneReason(i, b) /\ NotifiedOnce(i) /\ count[i] = Cardinality(borrowed[i])
        /\ notifications[i] \in Seq(Blocks)
    BY <1>1 DEF IInv, BorrowedListed, TypeOK
  <2>2. references[i][b] = Being(i, b) + Cardinality(RunsOf(i, b)) + Holding(i, b)
    BY <1>1, CountsAre
  <2>3. N = {} \/ \E k : N = {k}
    BY <2>1 DEF NotifiedOnce
  <2>4. N # {} <=> Notified(i, b)
    BY DEF Notified
  <2> HIDE DEF N
  <2>5. Cardinality(N) <= 1 /\ (Cardinality(N) = 1 <=> N # {})
    <3>1. CASE N = {}
      BY <3>1, FS_EmptySet
    <3>2. CASE \E k : N = {k}
      BY <3>2, FS_Singleton
    <3> QED
      BY <2>3, <3>1, <3>2
  <2>6. underway => Len(notifications[i]) < BlockCount
    <3>1. underway => ~Notified(i, b)
      BY <2>1 DEF OneReason
    <3> QED
      BY <2>1, <3>1, RoomForNotification DEF Notified, NotifiedOnce
  <2>7. b \in borrowed[i] <=> references[i][b] > 0 \/ underway \/ Cardinality(N) = 1
    BY <2>1, <2>4, <2>5 DEF OneReason, Referenced
  <2> QED
    BY <2>1, <2>2, <2>5, <2>6, <2>7 DEF N, SelfNotifies, HandNotifies, Holding
<1> QED
  BY <1>1, Invariance, SpecIsFree, PTL
=============================================================================
