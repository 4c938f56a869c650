----------------------- MODULE PacketAdmissionProofs -----------------------
(***************************************************************************)
(* Theorems about PacketAdmission for every set of interfaces, capacity    *)
(* and bound: the type invariant, the ticket line, the absence of lost     *)
(* wake-ups, the priority of SIP and the implementation of SipFirstQueue,  *)
(* from one inductive invariant.                                           *)
(***************************************************************************)
EXTENDS PacketAdmission, FiniteSetTheorems, SequenceTheorems, WellFoundedInduction,
        TLAPS

Line == {i \in Interfaces : Announced(i)}

\* Every run in hand of a reader fits the queue and is not empty.
RunsFit ==
    \A i \in Interfaces :
        /\ pc[i] \in {"lock", "try", "send", "finish", "park", "asleep"}
              => len[i] \in 1..Capacity
        /\ pc[i] = "sendRTP" => accepted[i] \in 1..Capacity
        /\ pc[i] # "sendRTP" => accepted[i] = 0
        /\ pc[i] \in {"rlock", "reserve"} => len[i] > 0

\* admissionMu is held exactly in the sections between Lock and Unlock, RLock and
\* RUnlock, and excludes them from each other; only a parked reader sleeps.
MutexHeld ==
    /\ \A i \in Interfaces : writer = i <=> pc[i] \in {"try", "send", "finish", "park"}
    /\ \A i \in Interfaces : i \in readers <=> pc[i] \in {"reserve", "sendRTP"}
    /\ writer # Nobody => readers = {}
    /\ \A i \in asleep : pc[i] = "asleep"

\* pendingSIP counts the readers in line.
PendingCounted == pendingSIP = Cardinality(Line)

\* Tickets in line lie between servingSIP and nextSIP; the one being admitted is
\* servingSIP.
InRange ==
    \A i \in Interfaces :
       /\ Announced(i) => ticket[i] \in servingSIP..(nextSIP - 1)
       /\ pc[i] \in {"send", "finish"} => ticket[i] = servingSIP
TicketsInRange == ~stopped => InRange

\* After the stop nobody is inside an admission or asleep.
StoppedQuietly ==
    stopped => /\ asleep = {}
               /\ \A i \in Interfaces :
                     pc[i] \notin {"send", "finish", "park", "reserve", "sendRTP"}

\* NoLostWakeup while the queue runs.
Parked(i) == pc[i] = "park" \/ i \in asleep
SignalDue == cpc \in {"check", "signal"} \/ \E j \in Interfaces : pc[j] = "finish"
RoomSignalled ==
    \A i \in Interfaces : Parked(i) /\ MyTurn(i) /\ HasRoom(len[i]) => SignalDue

\* The consumer holds packets only between receiving a run and releasing it.
InHand == /\ cpc # "subtract" => amount = 0
          /\ cpc \in {"poll", "select", "exited"} => remaining = 0

\* An RTP run on its way to the channel has no SIP run beside it.
RTPAlone == \A i \in Interfaces : pc[i] = "sendRTP" => pendingSIP = 0

\* Shutdown goes in order: the queue stops before done is closed, and the consumer
\* leaves an empty channel before Close has waited for it.
ShutInOrder ==
    /\ xpc \in {"stopped", "wait", "closed"} => stopped
    /\ done => stopped
    /\ draining => done
    /\ cpc = "exited" => draining /\ runs = <<>>
    /\ xpc = "closed" => cpc = "exited"

\* f[S] is the sum of v over S, for every set S of interfaces.
IsSum(f, v) ==
    /\ f \in [SUBSET Interfaces -> Nat] /\ f[{}] = 0
    /\ \A S \in SUBSET Interfaces : \A i \in Interfaces \ S : f[S \cup {i}] = f[S] + v[i]
    /\ \A S \in SUBSET Interfaces : (\A i \in S : v[i] = 0) => f[S] = 0

\* g[k] is the number of packets of the runs of s from the k-th on; no run is empty.
IsLength(g, s) ==
    /\ g \in [1..Len(s) + 1 -> Nat] /\ g[Len(s) + 1] = 0
    /\ \A k \in 1..Len(s) : g[k] = s[k].len + g[k + 1]
    /\ \A k \in 1..Len(s) + 1 : g[k] >= Len(s) + 1 - k

Reservations == [i \in Interfaces |-> Reserved(i)]

\* AccountingExact, with witnesses of the two sums.
Accounted ==
    \E f, g : /\ IsSum(f, Reservations) /\ IsLength(g, runs)
              /\ queuedPackets = f[Interfaces] + g[1] + remaining + amount

IInv == /\ TypeOK /\ RunsFit /\ MutexHeld /\ PendingCounted /\ TicketsInRange
        /\ StoppedQuietly /\ RTPAlone /\ TicketsHeld /\ RoomSignalled /\ InHand
        /\ ShutInOrder /\ Accounted

USE CapacityAssumption, BoundAssumption, InterfacesAssumption
    DEF CapacityAssumption, BoundAssumption, InterfacesAssumption

-----------------------------------------------------------------------------
(* The operators the actions are built from.                               *)

\* Smaller, min in Go, is the smaller of two counts.
LEMMA SmallerFits ==
    ASSUME NEW a \in Nat, NEW b \in Nat
    PROVE  /\ Smaller(a, b) \in Nat /\ Smaller(a, b) <= a /\ Smaller(a, b) <= b
           /\ a # 0 /\ b # 0 => Smaller(a, b) # 0
BY DEF Smaller

\* A chunk of a SIP run fits the queue, and is empty only if the run is.
LEMMA ChunkFits ==
    ASSUME NEW n \in Nat
    PROVE  /\ Smaller(n, Capacity) \in Nat
           /\ n # 0 => Smaller(n, Capacity) \in 1..Capacity
           /\ n - Smaller(n, Capacity) \in Nat
<1>1. /\ Smaller(n, Capacity) \in Nat /\ Smaller(n, Capacity) <= n
      /\ Smaller(n, Capacity) <= Capacity
      /\ n # 0 => Smaller(n, Capacity) # 0
  BY SmallerFits
<1> QED
  BY <1>1

\* What is reserved for an RTP run fits the room left.
LEMMA ShareFits ==
    ASSUME QueueTypeOK, NEW n \in Nat
    PROVE  Share(n) \in 0..Capacity /\ queuedPackets + Share(n) <= Capacity
<1>1. queuedPackets \in Nat /\ Capacity - queuedPackets \in Nat
  BY DEF QueueTypeOK
<1>2. Share(n) \in Nat /\ Share(n) <= Capacity - queuedPackets
  BY <1>1, SmallerFits DEF Share
<1> QED
  BY <1>1, <1>2

-----------------------------------------------------------------------------
(* Sums.                                                                   *)

\* A sum is at least each of its terms.
LEMMA SumBound ==
    ASSUME NEW v \in [Interfaces -> Nat], NEW f, IsSum(f, v),
           NEW S \in SUBSET Interfaces, NEW i \in S
    PROVE  f[S] = f[S \ {i}] + v[i] /\ f[S] >= v[i]
<1>1. S \ {i} \in SUBSET Interfaces /\ i \in Interfaces \ (S \ {i})
      /\ (S \ {i}) \cup {i} = S
  OBVIOUS
<1>2. f[S] = f[S \ {i}] + v[i]
  BY <1>1 DEF IsSum
<1>3. f[S \ {i}] \in Nat
  BY <1>1 DEF IsSum
<1> QED
  BY <1>1, <1>2, <1>3

\* Changing one term changes the sum by the difference.
LEMMA SumChange ==
    ASSUME NEW v \in [Interfaces -> Nat], NEW f, IsSum(f, v),
           NEW i \in Interfaces, NEW w \in [Interfaces -> Nat],
           \A j \in Interfaces \ {i} : w[j] = v[j]
    PROVE  \E h : /\ IsSum(h, w)
                  /\ h[Interfaces] = (f[Interfaces] - v[i]) + w[i]
<1> DEFINE n == w[i]
           h == [S \in SUBSET Interfaces |-> IF i \in S THEN (f[S] - v[i]) + n ELSE f[S]]
<1>1. h \in [SUBSET Interfaces -> Nat]
  <2> SUFFICES ASSUME NEW S \in SUBSET Interfaces PROVE h[S] \in Nat
    OBVIOUS
  <2>1. f[S] \in Nat /\ v[i] \in Nat /\ n \in Nat
    BY DEF IsSum
  <2>2. CASE i \in S
    <3>1. f[S] >= v[i]
      BY <2>2, SumBound
    <3> QED
      BY <2>1, <2>2, <3>1
  <2>3. CASE i \notin S
    BY <2>1, <2>3
  <2> QED
    BY <2>2, <2>3
<1>2. h[{}] = 0
  BY DEF IsSum
<1>3. ASSUME NEW S \in SUBSET Interfaces, NEW j \in Interfaces \ S
      PROVE  h[S \cup {j}] = h[S] + w[j]
  <2>1. /\ f[S \cup {j}] = f[S] + v[j] /\ f[S] \in Nat /\ v[j] \in Nat /\ v[i] \in Nat
        /\ S \cup {j} \in SUBSET Interfaces
    BY DEF IsSum
  <2>2. CASE i = j
    <3>1. h[S \cup {j}] = (f[S \cup {j}] - v[i]) + n /\ h[S] = f[S] /\ w[j] = n
      BY <2>1, <2>2
    <3> QED
      BY <2>1, <2>2, <3>1
  <2>3. CASE i # j /\ i \in S
    <3>1. h[S \cup {j}] = (f[S \cup {j}] - v[i]) + n /\ h[S] = (f[S] - v[i]) + n /\ w[j] = v[j]
      BY <2>1, <2>3
    <3> QED
      BY <2>1, <3>1
  <2>4. CASE i # j /\ i \notin S
    <3>1. h[S \cup {j}] = f[S \cup {j}] /\ h[S] = f[S] /\ w[j] = v[j]
      BY <2>1, <2>4
    <3> QED
      BY <2>1, <3>1
  <2> QED
    BY <2>2, <2>3, <2>4
<1>4. h[Interfaces] = (f[Interfaces] - v[i]) + n
  OBVIOUS
<1>5. ASSUME NEW S \in SUBSET Interfaces, \A j \in S : w[j] = 0 PROVE h[S] = 0
  <2>1. CASE i \in S
    <3>1. S \ {i} \in SUBSET Interfaces /\ \A j \in S \ {i} : v[j] = 0
      BY <1>5
    <3>2. f[S \ {i}] = 0
      BY <3>1 DEF IsSum
    <3>3. f[S] = v[i] /\ v[i] \in Nat
      BY <2>1, <3>2, SumBound
    <3>4. n = 0
      BY <1>5, <2>1
    <3> QED
      BY <2>1, <3>3, <3>4
  <2>2. CASE i \notin S
    <3>1. \A j \in S : v[j] = 0
      BY <1>5, <2>2
    <3> QED
      BY <2>2, <3>1 DEF IsSum
  <2> QED
    BY <2>1, <2>2
<1>6. IsSum(h, w)
  <2> HIDE DEF h
  <2> QED
    BY <1>1, <1>2, <1>3, <1>5 DEF IsSum
<1> QED
  BY <1>4, <1>6

\* The sum of nothing is zero.
LEMMA NoSum == IsSum([S \in SUBSET Interfaces |-> 0], [i \in Interfaces |-> 0])
BY DEF IsSum

\* A run sent adds its packets.
LEMMA LengthAppend ==
    ASSUME NEW s \in Seq(Run), NEW g, IsLength(g, s), NEW r \in Run
    PROVE  \E h : IsLength(h, Append(s, r)) /\ h[1] = g[1] + r.len
<1> DEFINE t == Append(s, r)
           h == [k \in 1..Len(t) + 1 |-> IF k = Len(t) + 1 THEN 0 ELSE g[k] + r.len]
<1>1. /\ t \in Seq(Run) /\ Len(t) = Len(s) + 1 /\ Len(s) \in Nat
      /\ \A k \in 1..Len(s) : t[k] = s[k]
      /\ t[Len(s) + 1] = r
  BY AppendProperties, LenProperties
<1>2. r.len \in Nat /\ r.len >= 1
  BY DEF Run
<1>3. ASSUME NEW k \in 1..Len(s) + 1
      PROVE  g[k] \in Nat /\ g[k] >= Len(s) + 1 - k
  BY <1>3 DEF IsLength
<1> HIDE DEF t
<1>4. h \in [1..Len(t) + 1 -> Nat] /\ h[Len(t) + 1] = 0
  BY <1>1, <1>2, <1>3
<1>5. ASSUME NEW k \in 1..Len(t) PROVE h[k] = t[k].len + h[k + 1]
  <2>1. CASE k = Len(t)
    <3>1. g[Len(s) + 1] = 0
      BY DEF IsLength
    <3> QED
      BY <1>1, <1>2, <2>1, <3>1
  <2>2. CASE k # Len(t)
    <3>1. k \in 1..Len(s) /\ k + 1 \in 1..Len(t) /\ k + 1 # Len(t) + 1
      BY <1>1, <2>2
    <3>2. g[k] = s[k].len + g[k + 1]
      BY <3>1 DEF IsLength
    <3>3. s[k] \in Run
      BY <3>1
    <3>4. s[k].len \in Nat
      BY <3>3 DEF Run
    <3>5. g[k + 1] \in Nat
      BY <1>1, <1>3, <3>1
    <3>6. h[k] = g[k] + r.len /\ h[k + 1] = g[k + 1] + r.len /\ t[k] = s[k]
      BY <1>1, <3>1
    <3> QED
      BY <1>2, <3>2, <3>4, <3>5, <3>6
  <2> QED
    BY <2>1, <2>2
<1>6. ASSUME NEW k \in 1..Len(t) + 1 PROVE h[k] >= Len(t) + 1 - k
  BY <1>1, <1>2, <1>3
<1>7. h[1] = g[1] + r.len
  BY <1>1
<1>8. IsLength(h, t)
  <2> HIDE DEF h
  <2> QED
    BY <1>4, <1>5, <1>6 DEF IsLength
<1> QED
  BY <1>7, <1>8 DEF t

\* A run received takes its packets away.
LEMMA LengthTail ==
    ASSUME NEW s \in Seq(Run), NEW g, IsLength(g, s), s # <<>>
    PROVE  \E h : IsLength(h, Tail(s)) /\ h[1] = g[1] - Head(s).len
<1> DEFINE t == Tail(s)
           h == [k \in 1..Len(t) + 1 |-> g[k + 1]]
<1>1. /\ t \in Seq(Run) /\ Len(t) = Len(s) - 1 /\ Len(s) \in Nat \ {0}
      /\ \A k \in 1..Len(t) : t[k] = s[k + 1]
      /\ Head(s) = s[1]
  BY HeadTailProperties, EmptySeq
<1> HIDE DEF t
<1>2. ASSUME NEW k \in 1..Len(s) + 1
      PROVE  g[k] \in Nat /\ g[k] >= Len(s) + 1 - k
  BY <1>2 DEF IsLength
<1>3. h \in [1..Len(t) + 1 -> Nat] /\ h[Len(t) + 1] = 0
  <2>1. g[Len(s) + 1] = 0
    BY DEF IsLength
  <2> QED
    BY <1>1, <1>2, <2>1
<1>4. ASSUME NEW k \in 1..Len(t) PROVE h[k] = t[k].len + h[k + 1]
  <2>1. k + 1 \in 1..Len(s) /\ k \in 1..Len(t) + 1 /\ k + 1 \in 1..Len(t) + 1
    BY <1>1
  <2>2. g[k + 1] = s[k + 1].len + g[(k + 1) + 1]
    BY <2>1 DEF IsLength
  <2> QED
    BY <1>1, <2>1, <2>2
<1>5. ASSUME NEW k \in 1..Len(t) + 1 PROVE h[k] >= Len(t) + 1 - k
  BY <1>1, <1>2
<1>6. h[1] = g[1] - Head(s).len
  <2>1. 1 \in 1..Len(s) /\ 1 \in 1..Len(t) + 1 /\ 2 \in 1..Len(s) + 1
    BY <1>1
  <2>2. g[1] = s[1].len + g[1 + 1] /\ g[2] \in Nat
    BY <1>2, <2>1 DEF IsLength
  <2>3. s[1] \in Run
    BY <2>1
  <2>4. s[1].len \in Nat
    BY <2>3 DEF Run
  <2> QED
    BY <1>1, <2>1, <2>2, <2>4
<1>7. IsLength(h, t)
  <2> HIDE DEF h
  <2> QED
    BY <1>3, <1>4, <1>5 DEF IsLength
<1> QED
  BY <1>6, <1>7 DEF t

\* An empty channel holds no packet.
LEMMA NoLength == IsLength([k \in 1..1 |-> 0], <<>>)
BY EmptySeq DEF IsLength

-----------------------------------------------------------------------------
(* The line.                                                               *)

\* The line is finite, so its length is a number.
LEMMA LineFinite == IsFiniteSet(Line) /\ Cardinality(Line) \in Nat
BY FS_Subset, FS_CardinalityType, Line \in SUBSET Interfaces DEF Line

\* With pendingSIP at zero no SIP run is announced.
LEMMA NobodyInLine == PendingCounted /\ pendingSIP = 0 => Line = {}
BY LineFinite, FS_EmptySet DEF PendingCounted

\* A reader that joins or leaves the line changes its size by one.
LEMMA LineGrows ==
    ASSUME PendingCounted, NEW i \in Interfaces, ~Announced(i), Line' = Line \cup {i},
           pendingSIP' = pendingSIP + 1
    PROVE  PendingCounted'
<1>1. i \notin Line
  BY DEF Line
<1> QED
  BY <1>1, LineFinite, FS_AddElement DEF PendingCounted

LEMMA LineShrinks ==
    ASSUME PendingCounted, NEW i \in Interfaces, Announced(i), Line' = Line \ {i},
           pendingSIP' = pendingSIP - 1
    PROVE  PendingCounted' /\ pendingSIP' \in Nat
<1>1. i \in Line
  BY DEF Line
<1>2. Cardinality(Line) # 0
  BY <1>1, LineFinite, FS_EmptySet
<1>3. Cardinality(Line \ {i}) = Cardinality(Line) - 1
  BY <1>1, LineFinite, FS_RemoveElement
<1> QED
  BY <1>2, <1>3, LineFinite DEF PendingCounted

-----------------------------------------------------------------------------
(* Accounting: the witness sums follow every step.                         *)

\* A reader has reserved a number of packets, possibly none.
LEMMA ReservationsType ==
    /\ TypeOK => Reservations \in [Interfaces -> Nat]
    /\ TypeOK' => Reservations' \in [Interfaces -> Nat]
BY DEF TypeOK, ReaderTypeOK, Reservations, Reserved

NothingMoves == UNCHANGED <<Reservations, runs, queuedPackets, remaining, amount>>

\* A step that moves no packet.
LEMMA NothingCounted == Accounted /\ NothingMoves => Accounted'
BY DEF Accounted, NothingMoves

\* A step that moves packets at the consumer only.
LEMMA SameSums ==
    ASSUME Accounted, TypeOK, UNCHANGED <<Reservations, runs>>,
           remaining' \in Nat, amount' \in Nat,
           queuedPackets' = (queuedPackets - (remaining + amount)) + (remaining' + amount')
    PROVE  Accounted'
<1>1. PICK f, g : /\ IsSum(f, Reservations) /\ IsLength(g, runs)
                  /\ queuedPackets = f[Interfaces] + g[1] + remaining + amount
  BY DEF Accounted
<1>2. f[Interfaces] \in Nat
  BY <1>1 DEF IsSum
<1>3. g[1] \in Nat
  <2>1. 1 \in 1..Len(runs) + 1
    BY LenProperties DEF TypeOK, QueueTypeOK
  <2> QED
    BY <1>1, <2>1 DEF IsLength
<1>4. remaining \in Nat /\ amount \in Nat
  BY DEF TypeOK, ConsumerTypeOK
<1>5. queuedPackets' = f[Interfaces] + g[1] + remaining' + amount'
  BY <1>1, <1>2, <1>3, <1>4
<1> QED
  BY <1>1, <1>5 DEF Accounted

\* A step that changes what one reader has reserved.
LEMMA ReservationChanges ==
    ASSUME Accounted, TypeOK, UNCHANGED <<runs, remaining, amount>>,
           NEW i \in Interfaces, Reservations' \in [Interfaces -> Nat],
           \A j \in Interfaces \ {i} : Reservations'[j] = Reservations[j],
           queuedPackets' = (queuedPackets - Reservations[i]) + Reservations'[i]
    PROVE  Accounted'
<1>1. PICK f, g : /\ IsSum(f, Reservations) /\ IsLength(g, runs)
                  /\ queuedPackets = f[Interfaces] + g[1] + remaining + amount
  BY DEF Accounted
<1>2. PICK h : /\ IsSum(h, Reservations')
               /\ h[Interfaces] = (f[Interfaces] - Reservations[i]) + Reservations'[i]
  <2>1. Reservations \in [Interfaces -> Nat]
    BY ReservationsType
  <2> QED
    BY <1>1, <2>1, SumChange
<1>3. f[Interfaces] \in Nat /\ Reservations[i] \in Nat /\ Reservations'[i] \in Nat
  BY <1>1, ReservationsType DEF IsSum
<1>4. g[1] \in Nat
  <2>1. 1 \in 1..Len(runs) + 1
    BY LenProperties DEF TypeOK, QueueTypeOK
  <2> QED
    BY <1>1, <2>1 DEF IsLength
<1>5. remaining \in Nat /\ amount \in Nat
  BY DEF TypeOK, ConsumerTypeOK
<1>6. queuedPackets' = h[Interfaces] + g[1] + remaining + amount
  BY <1>1, <1>2, <1>3, <1>4, <1>5
<1>7. IsLength(g, runs')
  BY <1>1
<1> QED
  BY <1>2, <1>6, <1>7 DEF Accounted

\* A step that sends the run a reader has reserved.
LEMMA RunSent ==
    ASSUME Accounted, TypeOK, UNCHANGED <<queuedPackets, remaining, amount>>,
           NEW i \in Interfaces, Reservations' \in [Interfaces -> Nat],
           Reservations'[i] = 0,
           \A j \in Interfaces \ {i} : Reservations'[j] = Reservations[j]
    PROVE  runs' = Append(runs, [iface |-> i, len |-> Reservations[i]])
              /\ Reservations[i] \in 1..Capacity  => Accounted'
<1> DEFINE r == [iface |-> i, len |-> Reservations[i]]
<1>0. SUFFICES ASSUME runs' = Append(runs, r), Reservations[i] \in 1..Capacity
               PROVE  Accounted'
  OBVIOUS
<1>1. PICK f, g : /\ IsSum(f, Reservations) /\ IsLength(g, runs)
                  /\ queuedPackets = f[Interfaces] + g[1] + remaining + amount
  BY DEF Accounted
<1>2. PICK h : /\ IsSum(h, Reservations')
               /\ h[Interfaces] = (f[Interfaces] - Reservations[i]) + Reservations'[i]
  <2>1. Reservations \in [Interfaces -> Nat]
    BY ReservationsType
  <2> QED
    BY <1>1, <2>1, SumChange
<1>3. PICK k : IsLength(k, runs') /\ k[1] = g[1] + Reservations[i]
  <2>1. r \in Run /\ r.len = Reservations[i]
    BY <1>0 DEF Run
  <2> HIDE DEF r
  <2> QED
    BY <1>0, <1>1, <2>1, LengthAppend DEF TypeOK, QueueTypeOK
<1> HIDE DEF r
<1>4. f[Interfaces] \in Nat /\ Reservations[i] \in Nat
  BY <1>1, ReservationsType DEF IsSum
<1>5. g[1] \in Nat
  <2>1. 1 \in 1..Len(runs) + 1
    BY LenProperties DEF TypeOK, QueueTypeOK
  <2> QED
    BY <1>1, <2>1 DEF IsLength
<1>6. remaining \in Nat /\ amount \in Nat
  BY DEF TypeOK, ConsumerTypeOK
<1>7. queuedPackets' = h[Interfaces] + k[1] + remaining' + amount'
  BY <1>1, <1>2, <1>3, <1>4, <1>5, <1>6
<1> QED
  BY <1>2, <1>3, <1>7 DEF Accounted

\* A step that receives the run at the head of the channel.
LEMMA RunReceived ==
    ASSUME Accounted, TypeOK, UNCHANGED <<queuedPackets, Reservations>>,
           NEW d \in Nat, remaining' \in Nat, amount' \in Nat,
           remaining' + amount' = remaining + amount + d
    PROVE  runs # <<>> /\ d = Head(runs).len /\ runs' = Tail(runs) => Accounted'
<1>0. SUFFICES ASSUME runs # <<>>, d = Head(runs).len, runs' = Tail(runs)
               PROVE  Accounted'
  OBVIOUS
<1>1. PICK f, g : /\ IsSum(f, Reservations) /\ IsLength(g, runs)
                  /\ queuedPackets = f[Interfaces] + g[1] + remaining + amount
  BY DEF Accounted
<1>2. PICK k : IsLength(k, runs') /\ k[1] = g[1] - d
  BY <1>0, <1>1, LengthTail DEF TypeOK, QueueTypeOK
<1>3. f[Interfaces] \in Nat
  BY <1>1 DEF IsSum
<1>4. g[1] \in Nat
  <2>1. 1 \in 1..Len(runs) + 1
    BY LenProperties DEF TypeOK, QueueTypeOK
  <2> QED
    BY <1>1, <2>1 DEF IsLength
<1>5. remaining \in Nat /\ amount \in Nat
  BY DEF TypeOK, ConsumerTypeOK
<1>6. queuedPackets' = f[Interfaces] + k[1] + remaining' + amount'
  <2>1. k[1] \in Int /\ k[1] = g[1] - d
    BY <1>2, <1>4
  <2>2. queuedPackets = f[Interfaces] + g[1] + remaining + amount
    BY <1>1
  <2>3. queuedPackets' = queuedPackets
    OBVIOUS
  <2>4. remaining' + amount' = (remaining + amount) + d
    OBVIOUS
  <2>5. f[Interfaces] + k[1] + remaining' + amount' = (f[Interfaces] + k[1]) + (remaining' + amount')
    BY <1>3, <2>1
  <2>6. @ = (f[Interfaces] + k[1]) + ((remaining + amount) + d)
    BY <1>3, <2>1, <2>4
  <2>7. @ = f[Interfaces] + g[1] + remaining + amount
    BY <1>3, <1>4, <1>5, <2>1
  <2> QED
    BY <2>2, <2>3, <2>5, <2>6, <2>7
<1> QED
  BY <1>1, <1>2, <1>6 DEF Accounted

\* What is being released has been counted, and the runs in the channel leave room
\* for every reserved one.
LEMMA CountedBounds ==
    ASSUME Accounted, TypeOK, RunsFit
    PROVE  queuedPackets - amount \in 0..Capacity /\ SendNeverBlocks
<1>1. PICK f, g : /\ IsSum(f, Reservations) /\ IsLength(g, runs)
                  /\ queuedPackets = f[Interfaces] + g[1] + remaining + amount
  BY DEF Accounted
<1>2. f[Interfaces] \in Nat
  BY <1>1 DEF IsSum
<1>3. g[1] \in Nat /\ g[1] >= Len(runs) /\ Len(runs) \in Nat
  <2>1. 1 \in 1..Len(runs) + 1 /\ Len(runs) \in Nat
    BY LenProperties DEF TypeOK, QueueTypeOK
  <2>2. g[1] \in Nat /\ g[1] >= Len(runs) + 1 - 1
    BY <1>1, <2>1 DEF IsLength
  <2> QED
    BY <2>1, <2>2
<1>4. remaining \in Nat /\ amount \in Nat /\ queuedPackets \in 0..Capacity
  BY DEF TypeOK, ConsumerTypeOK, QueueTypeOK
<1>5. queuedPackets - amount \in 0..Capacity
  BY <1>1, <1>2, <1>3, <1>4
<1>6. ASSUME NEW i \in Interfaces, pc[i] \in {"send", "sendRTP"}
      PROVE  Len(runs) < Capacity
  <2>1. Reservations[i] \in 1..Capacity
    BY <1>6 DEF RunsFit, Reservations, Reserved
  <2>2. f[Interfaces] >= Reservations[i]
    BY <1>1, SumBound, ReservationsType
  <2> QED
    BY <1>1, <1>2, <1>3, <1>4, <2>1, <2>2
<1> QED
  BY <1>5, <1>6 DEF SendNeverBlocks

-----------------------------------------------------------------------------
\* The invariant holds when NewExporter has made the queue.
LEMMA InitIInv == Init => IInv
<1> SUFFICES ASSUME Init PROVE IInv
  OBVIOUS
<1> USE DEF Init
<1>1. TypeOK
  <2>1. runs \in Seq(Run)
    BY EmptySeq
  <2>2. QueueTypeOK
    BY <2>1 DEF QueueTypeOK
  <2>3. ReaderTypeOK
    BY DEF ReaderTypeOK, ReaderPC
  <2>4. ConsumerTypeOK /\ CloseTypeOK
    BY DEF ConsumerTypeOK, ConsumerPC, CloseTypeOK, ClosePC
  <2>5. FlagsTypeOK
    BY DEF FlagsTypeOK
  <2> QED
    BY <2>2, <2>3, <2>4, <2>5 DEF TypeOK
<1>2. PendingCounted
  <2>1. Line = {}
    BY DEF Line, Announced, Waiting
  <2> QED
    BY <2>1, FS_EmptySet DEF PendingCounted
<1>3. RunsFit /\ InHand /\ ShutInOrder /\ MutexHeld /\ TicketsInRange /\ StoppedQuietly /\ RTPAlone
  BY DEF RunsFit, InHand, ShutInOrder, MutexHeld, TicketsInRange, InRange, StoppedQuietly, RTPAlone,
         Announced, Waiting
<1>4. TicketsHeld
  BY DEF TicketsHeld, LineComplete, Announced, Waiting
<1>5. RoomSignalled
  BY DEF RoomSignalled, Parked
<1>6. Accounted
  <2>1. Reservations = [i \in Interfaces |-> 0]
    BY DEF Reservations, Reserved
  <2>2. IsSum([S \in SUBSET Interfaces |-> 0], Reservations)
    BY <2>1, NoSum
  <2>3. IsLength([k \in 1..1 |-> 0], runs)
    BY NoLength
  <2> QED
    BY <2>2, <2>3 DEF Accounted
<1> QED
  BY <1>1, <1>2, <1>3, <1>4, <1>5, <1>6 DEF IInv

-----------------------------------------------------------------------------
(* A step is a reader's or another thread's, each with its own variables.  *)

ReaderStep ==
    \E i \in Interfaces :
        \/ \E n \in 1..MaxRun : MeetSIP(i, n) \/ MeetRTP(i, n)
        \/ Return(i) \/ TurnedAway(i) \/ AnnounceSIP(i) \/ QuitSIP(i)
        \/ ReserveSIP(i) \/ RefuseSIP(i) \/ Park(i) \/ Wake(i) \/ SendSIP(i)
        \/ FinishSIP(i) \/ RLock(i) \/ ReserveRTP(i) \/ SendRTP(i)
OtherStep == Consumer \/ BeginClose \/ Close \/ UNCHANGED vars

\* Every step is one or the other.
LEMMA NextSplit == [Next]_vars => ReaderStep \/ OtherStep
BY DEF Next, ReaderStep, OtherStep, ReturnDone, Fail, Enqueue, EnqueueSIP, EnqueueRTP,
       Terminated

\* The consumer and Close touch a reader's variables only to wake it.
LEMMA OthersLeaveReaders ==
    OtherStep => /\ UNCHANGED <<pendingSIP, nextSIP, servingSIP, writer, readers, pc, len,
                                rest, ticket, accepted, met>>
                 /\ asleep' = asleep \/ asleep' = {}
BY DEF OtherStep, Consumer, Close, Poll, StartDraining, TakeRun, DrainRun, DrainedEmpty,
       DequeueFrame, FinishRun, Subtract, CheckPending, SignalPending, BeginClose,
       StopQueue, CloseDone, Waited, Signal, vars, queueVars, readerVars, consumerVars,
       closeVars

\* A reader leaves the consumer's variables and Close's alone.
LEMMA ReadersLeaveConsumer ==
    ReaderStep => UNCHANGED <<stopped, consumerVars, closeVars>>
BY DEF ReaderStep, MeetSIP, MeetRTP, Return, TurnedAway, AnnounceSIP, QuitSIP,
       ReserveSIP, RefuseSIP, Park, Wake, SendSIP, FinishSIP, RLock, ReserveRTP, SendRTP,
       queueVars, consumerVars, closeVars

-----------------------------------------------------------------------------
(* Each action preserves each part of the invariant.                       *)

\* What a reader carries fits.
LEMMA FitStep ==
    ASSUME IInv, [Next]_vars
    PROVE  RunsFit'
<1> ReaderTypeOK /\ RunsFit
  BY DEF IInv, TypeOK
<1> USE DEF ReaderTypeOK, RunsFit, vars, queueVars, readerVars, consumerVars,
            closeVars, Goto
<1>1. ASSUME NEW i \in Interfaces, NEW n \in 1..MaxRun, MeetSIP(i, n) PROVE RunsFit'
  <2>1. n \in Nat /\ n # 0
    OBVIOUS
  <2>2. /\ Smaller(n, Capacity) \in 1..Capacity /\ Smaller(n, Capacity) \in Nat
        /\ n - Smaller(n, Capacity) \in Nat
    BY <2>1, ChunkFits
  <2> QED
    BY <1>1, <2>2 DEF MeetSIP
<1>2. ASSUME NEW i \in Interfaces, NEW n \in 1..MaxRun, MeetRTP(i, n) PROVE RunsFit'
  BY <1>2 DEF MeetRTP
<1>3. ASSUME NEW i \in Interfaces, Return(i) PROVE RunsFit'
  BY <1>3 DEF Return
<1>4. ASSUME NEW i \in Interfaces, TurnedAway(i) PROVE RunsFit'
  BY <1>4 DEF TurnedAway
<1>5. ASSUME NEW i \in Interfaces, AnnounceSIP(i) PROVE RunsFit'
  BY <1>5 DEF AnnounceSIP
<1>6. ASSUME NEW i \in Interfaces, QuitSIP(i) PROVE RunsFit'
  BY <1>6 DEF QuitSIP
<1>7. ASSUME NEW i \in Interfaces, ReserveSIP(i) PROVE RunsFit'
  BY <1>7 DEF ReserveSIP
<1>8. ASSUME NEW i \in Interfaces, RefuseSIP(i) PROVE RunsFit'
  BY <1>8 DEF RefuseSIP
<1>9. ASSUME NEW i \in Interfaces, Park(i) PROVE RunsFit'
  BY <1>9 DEF Park
<1>10. ASSUME NEW i \in Interfaces, Wake(i) PROVE RunsFit'
  BY <1>10 DEF Wake
<1>11. ASSUME NEW i \in Interfaces, SendSIP(i) PROVE RunsFit'
  BY <1>11 DEF SendSIP
<1>12. ASSUME NEW i \in Interfaces, FinishSIP(i) PROVE RunsFit'
  <2>1. rest[i] \in Nat
    OBVIOUS
  <2>2. /\ Smaller(rest[i], Capacity) \in Nat
        /\ rest[i] # 0 => Smaller(rest[i], Capacity) \in 1..Capacity
        /\ rest[i] - Smaller(rest[i], Capacity) \in Nat
    BY <2>1, ChunkFits
  <2> QED
    BY <1>12, <2>2 DEF FinishSIP
<1>13. ASSUME NEW i \in Interfaces, RLock(i) PROVE RunsFit'
  BY <1>13 DEF RLock
<1>14. ASSUME NEW i \in Interfaces, ReserveRTP(i) PROVE RunsFit'
  <2>1. len[i] \in Nat
    OBVIOUS
  <2>2. Share(len[i]) \in 0..Capacity /\ 0 \in 0..Capacity
    BY <2>1, ShareFits DEF IInv, TypeOK
  <2> DEFINE share == IF RTPAllowed THEN Share(len[i]) ELSE 0
  <2>3. share \in 0..Capacity
    BY <2>2
  <2>4. /\ pc[i] = "reserve"
        /\ accepted' = [accepted EXCEPT ![i] = share]
        /\ len' = [len EXCEPT ![i] = 0]
        /\ IF share = 0
           THEN pc' = [pc EXCEPT ![i] = "idle"] /\ readers' = readers \ {i}
           ELSE pc' = [pc EXCEPT ![i] = "sendRTP"] /\ UNCHANGED readers
        /\ UNCHANGED <<rest, ticket, asleep, met>>
    BY <1>14 DEF ReserveRTP
  <2> HIDE DEF share
  <2>5. CASE share = 0
    BY <2>4, <2>5
  <2>6. CASE share # 0
    <3>1. share \in 1..Capacity
      BY <2>3, <2>6
    <3> QED
      BY <2>4, <2>6, <3>1
  <2> QED
    BY <2>5, <2>6
<1>15. ASSUME NEW i \in Interfaces, SendRTP(i) PROVE RunsFit'
  BY <1>15 DEF SendRTP
<1>16. ASSUME OtherStep PROVE RunsFit'
  BY <1>16, OthersLeaveReaders
<1> QED
  BY NextSplit, <1>1, <1>2, <1>3, <1>4, <1>5, <1>6, <1>7, <1>8, <1>9, <1>10,
     <1>11, <1>12, <1>13, <1>14, <1>15, <1>16 DEF ReaderStep

\* The readers' types.
LEMMA ReaderTypeStep ==
    ASSUME IInv, [Next]_vars
    PROVE  ReaderTypeOK'
<1> ReaderTypeOK
  BY DEF IInv, TypeOK
<1> USE DEF ReaderTypeOK, ReaderPC, Signal, vars, queueVars, readerVars, consumerVars,
            closeVars, Goto
<1>1. ASSUME NEW i \in Interfaces, NEW n \in 1..MaxRun, MeetSIP(i, n)
      PROVE  ReaderTypeOK'
  <2>1. met[i] + 1 \in 0..MaxRuns /\ met' = [met EXCEPT ![i] = met[i] + 1]
    <3>1. met[i] \in 0..MaxRuns /\ met[i] < MaxRuns /\ met' = [met EXCEPT ![i] = met[i] + 1]
      BY <1>1 DEF MeetSIP
    <3> QED
      BY <3>1
  <2>2. met' \in [Interfaces -> 0..MaxRuns]
    BY <2>1
  <2>3. Smaller(n, Capacity) \in Nat /\ n - Smaller(n, Capacity) \in Nat
    <3>1. n \in Nat
      OBVIOUS
    <3> QED
      BY <3>1, ChunkFits
  <2>4. /\ len' \in [Interfaces -> Nat] /\ rest' \in [Interfaces -> Nat]
        /\ pc' \in [Interfaces -> ReaderPC]
    BY <1>1, <2>3 DEF MeetSIP
  <2> QED
    BY <1>1, <2>2, <2>4 DEF MeetSIP
<1>2. ASSUME NEW i \in Interfaces, NEW n \in 1..MaxRun, MeetRTP(i, n)
      PROVE  ReaderTypeOK'
  <2>1. met[i] + 1 \in 0..MaxRuns /\ met' = [met EXCEPT ![i] = met[i] + 1]
    <3>1. met[i] \in 0..MaxRuns /\ met[i] < MaxRuns /\ met' = [met EXCEPT ![i] = met[i] + 1]
      BY <1>2 DEF MeetRTP
    <3> QED
      BY <3>1
  <2>2. met' \in [Interfaces -> 0..MaxRuns]
    BY <2>1
  <2>3. len' \in [Interfaces -> Nat] /\ pc' \in [Interfaces -> ReaderPC]
    BY <1>2 DEF MeetRTP
  <2> QED
    BY <1>2, <2>2, <2>3 DEF MeetRTP
<1>3. ASSUME NEW i \in Interfaces, Return(i) PROVE ReaderTypeOK'
  BY <1>3 DEF Return
<1>4. ASSUME NEW i \in Interfaces, TurnedAway(i) PROVE ReaderTypeOK'
  BY <1>4 DEF TurnedAway
<1>5. ASSUME NEW i \in Interfaces, AnnounceSIP(i) PROVE ReaderTypeOK'
  <2>1. nextSIP \in Nat
    BY DEF IInv, TypeOK, QueueTypeOK
  <2> QED
    BY <1>5, <2>1 DEF AnnounceSIP
<1>6. ASSUME NEW i \in Interfaces, QuitSIP(i) PROVE ReaderTypeOK'
  BY <1>6 DEF QuitSIP
<1>7. ASSUME NEW i \in Interfaces, ReserveSIP(i) PROVE ReaderTypeOK'
  BY <1>7 DEF ReserveSIP
<1>8. ASSUME NEW i \in Interfaces, RefuseSIP(i) PROVE ReaderTypeOK'
  BY <1>8 DEF RefuseSIP
<1>9. ASSUME NEW i \in Interfaces, Park(i) PROVE ReaderTypeOK'
  BY <1>9 DEF Park
<1>10. ASSUME NEW i \in Interfaces, Wake(i) PROVE ReaderTypeOK'
  BY <1>10 DEF Wake
<1>11. ASSUME NEW i \in Interfaces, SendSIP(i) PROVE ReaderTypeOK'
  BY <1>11 DEF SendSIP
<1>12. ASSUME NEW i \in Interfaces, FinishSIP(i) PROVE ReaderTypeOK'
  <2>1. rest[i] \in Nat
    OBVIOUS
  <2>2. /\ Smaller(rest[i], Capacity) \in Nat
        /\ rest[i] # 0 => Smaller(rest[i], Capacity) \in 1..Capacity
        /\ rest[i] - Smaller(rest[i], Capacity) \in Nat
    BY <2>1, ChunkFits
  <2> QED
    BY <1>12, <2>2 DEF FinishSIP
<1>13. ASSUME NEW i \in Interfaces, RLock(i) PROVE ReaderTypeOK'
  BY <1>13 DEF RLock
<1>14. ASSUME NEW i \in Interfaces, ReserveRTP(i) PROVE ReaderTypeOK'
  <2>1. len[i] \in Nat
    OBVIOUS
  <2>2. Share(len[i]) \in 0..Capacity /\ 0 \in 0..Capacity
    BY <2>1, ShareFits DEF IInv, TypeOK
  <2> DEFINE share == IF RTPAllowed THEN Share(len[i]) ELSE 0
  <2>3. share \in 0..Capacity
    BY <2>2
  <2>4. /\ pc[i] = "reserve"
        /\ accepted' = [accepted EXCEPT ![i] = share]
        /\ len' = [len EXCEPT ![i] = 0]
        /\ IF share = 0
           THEN pc' = [pc EXCEPT ![i] = "idle"] /\ readers' = readers \ {i}
           ELSE pc' = [pc EXCEPT ![i] = "sendRTP"] /\ UNCHANGED readers
        /\ UNCHANGED <<rest, ticket, asleep, met>>
    BY <1>14 DEF ReserveRTP
  <2> HIDE DEF share
  <2>5. accepted' \in [Interfaces -> 0..Capacity] /\ len' \in [Interfaces -> Nat]
    BY <2>3, <2>4
  <2>6. pc' \in [Interfaces -> ReaderPC]
    BY <2>4
  <2> QED
    BY <2>4, <2>5, <2>6
<1>15. ASSUME NEW i \in Interfaces, SendRTP(i) PROVE ReaderTypeOK'
  BY <1>15 DEF SendRTP
<1>16. ASSUME OtherStep PROVE ReaderTypeOK'
  BY <1>16, OthersLeaveReaders
<1> QED
  BY NextSplit, <1>1, <1>2, <1>3, <1>4, <1>5, <1>6, <1>7, <1>8, <1>9, <1>10,
     <1>11, <1>12, <1>13, <1>14, <1>15, <1>16 DEF ReaderStep

\* The consumer's types.
LEMMA ConsumerTypeStep ==
    ASSUME IInv, [Next]_vars
    PROVE  ConsumerTypeOK'
<1> QueueTypeOK /\ ConsumerTypeOK
  BY DEF IInv, TypeOK
<1> USE DEF QueueTypeOK, ConsumerTypeOK, ConsumerPC, vars, queueVars, readerVars,
            consumerVars, closeVars, Goto
<1>1. ASSUME ReaderStep PROVE ConsumerTypeOK'
  BY <1>1, ReadersLeaveConsumer
<1>2. ASSUME Poll PROVE ConsumerTypeOK'
  BY <1>2 DEF Poll
<1>3. ASSUME StartDraining PROVE ConsumerTypeOK'
  BY <1>3 DEF StartDraining
<1>4. ASSUME TakeRun PROVE ConsumerTypeOK'
  <2>1. Head(runs) \in Run
    BY <1>4, HeadTailProperties DEF TakeRun
  <2>2. Head(runs).len \in 1..Capacity
    BY <2>1 DEF Run
  <2> QED
    BY <1>4, <2>2 DEF TakeRun
<1>5. ASSUME DrainRun PROVE ConsumerTypeOK'
  <2>1. Head(runs) \in Run
    BY <1>5, HeadTailProperties DEF DrainRun
  <2>2. Head(runs).len \in 1..Capacity
    BY <2>1 DEF Run
  <2> QED
    BY <1>5, <2>2 DEF DrainRun
<1>6. ASSUME DrainedEmpty PROVE ConsumerTypeOK'
  BY <1>6 DEF DrainedEmpty
<1>7. ASSUME DequeueFrame PROVE ConsumerTypeOK'
  BY <1>7 DEF DequeueFrame
<1>8. ASSUME FinishRun PROVE ConsumerTypeOK'
  BY <1>8 DEF FinishRun
<1>9. ASSUME Subtract PROVE ConsumerTypeOK'
  BY <1>9 DEF Subtract
<1>10. ASSUME CheckPending PROVE ConsumerTypeOK'
  BY <1>10 DEF CheckPending
<1>11. ASSUME SignalPending PROVE ConsumerTypeOK'
  BY <1>11 DEF SignalPending
<1>12. ASSUME BeginClose PROVE ConsumerTypeOK'
  BY <1>12 DEF BeginClose
<1>13. ASSUME StopQueue PROVE ConsumerTypeOK'
  BY <1>13 DEF StopQueue
<1>14. ASSUME CloseDone PROVE ConsumerTypeOK'
  BY <1>14 DEF CloseDone
<1>15. ASSUME Waited PROVE ConsumerTypeOK'
  BY <1>15 DEF Waited
<1>16. ASSUME UNCHANGED vars PROVE ConsumerTypeOK'
  BY <1>16
<1> QED
  BY NextSplit, <1>1, <1>2, <1>3, <1>4, <1>5, <1>6, <1>7, <1>8, <1>9, <1>10,
     <1>11, <1>12, <1>13, <1>14, <1>15, <1>16 DEF OtherStep, Consumer, Close

\* The types of Close and of the flags.
LEMMA CloseTypeStep ==
    ASSUME IInv, [Next]_vars
    PROVE  CloseTypeOK' /\ FlagsTypeOK'
<1> CloseTypeOK /\ FlagsTypeOK
  BY DEF IInv, TypeOK
<1> USE DEF CloseTypeOK, FlagsTypeOK, ClosePC, vars, queueVars, readerVars,
            consumerVars, closeVars, Goto
<1>1. ASSUME ReaderStep PROVE CloseTypeOK' /\ FlagsTypeOK'
  BY <1>1, ReadersLeaveConsumer
<1>2. ASSUME Poll PROVE CloseTypeOK' /\ FlagsTypeOK'
  BY <1>2 DEF Poll
<1>3. ASSUME StartDraining PROVE CloseTypeOK' /\ FlagsTypeOK'
  BY <1>3 DEF StartDraining
<1>4. ASSUME TakeRun PROVE CloseTypeOK' /\ FlagsTypeOK'
  BY <1>4 DEF TakeRun
<1>5. ASSUME DrainRun PROVE CloseTypeOK' /\ FlagsTypeOK'
  BY <1>5 DEF DrainRun
<1>6. ASSUME DrainedEmpty PROVE CloseTypeOK' /\ FlagsTypeOK'
  BY <1>6 DEF DrainedEmpty
<1>7. ASSUME DequeueFrame PROVE CloseTypeOK' /\ FlagsTypeOK'
  BY <1>7 DEF DequeueFrame
<1>8. ASSUME FinishRun PROVE CloseTypeOK' /\ FlagsTypeOK'
  BY <1>8 DEF FinishRun
<1>9. ASSUME Subtract PROVE CloseTypeOK' /\ FlagsTypeOK'
  BY <1>9 DEF Subtract
<1>10. ASSUME CheckPending PROVE CloseTypeOK' /\ FlagsTypeOK'
  BY <1>10 DEF CheckPending
<1>11. ASSUME SignalPending PROVE CloseTypeOK' /\ FlagsTypeOK'
  BY <1>11 DEF SignalPending
<1>12. ASSUME BeginClose PROVE CloseTypeOK' /\ FlagsTypeOK'
  BY <1>12 DEF BeginClose
<1>13. ASSUME StopQueue PROVE CloseTypeOK' /\ FlagsTypeOK'
  BY <1>13 DEF StopQueue
<1>14. ASSUME CloseDone PROVE CloseTypeOK' /\ FlagsTypeOK'
  BY <1>14 DEF CloseDone
<1>15. ASSUME Waited PROVE CloseTypeOK' /\ FlagsTypeOK'
  BY <1>15 DEF Waited
<1>16. ASSUME UNCHANGED vars PROVE CloseTypeOK' /\ FlagsTypeOK'
  BY <1>16
<1> QED
  BY NextSplit, <1>1, <1>2, <1>3, <1>4, <1>5, <1>6, <1>7, <1>8, <1>9, <1>10,
     <1>11, <1>12, <1>13, <1>14, <1>15, <1>16 DEF OtherStep, Consumer, Close

\* admissionMu.
LEMMA MutexStep ==
    ASSUME IInv, [Next]_vars
    PROVE  MutexHeld'
<1> ReaderTypeOK /\ MutexHeld
  BY DEF IInv, TypeOK
<1> USE DEF ReaderTypeOK, ReaderPC, MutexHeld, LockFree, Signal, vars, queueVars,
            readerVars, consumerVars, closeVars, Goto
<1>1. ASSUME NEW i \in Interfaces, NEW n \in 1..MaxRun, MeetSIP(i, n) PROVE MutexHeld'
  BY <1>1 DEF MeetSIP
<1>2. ASSUME NEW i \in Interfaces, NEW n \in 1..MaxRun, MeetRTP(i, n) PROVE MutexHeld'
  BY <1>2 DEF MeetRTP
<1>3. ASSUME NEW i \in Interfaces, Return(i) PROVE MutexHeld'
  BY <1>3 DEF Return
<1>4. ASSUME NEW i \in Interfaces, TurnedAway(i) PROVE MutexHeld'
  BY <1>4 DEF TurnedAway
<1>5. ASSUME NEW i \in Interfaces, AnnounceSIP(i) PROVE MutexHeld'
  BY <1>5 DEF AnnounceSIP
<1>6. ASSUME NEW i \in Interfaces, QuitSIP(i) PROVE MutexHeld'
  BY <1>6 DEF QuitSIP
<1>7. ASSUME NEW i \in Interfaces, ReserveSIP(i) PROVE MutexHeld'
  BY <1>7 DEF ReserveSIP
<1>8. ASSUME NEW i \in Interfaces, RefuseSIP(i) PROVE MutexHeld'
  BY <1>8 DEF RefuseSIP
<1>9. ASSUME NEW i \in Interfaces, Park(i) PROVE MutexHeld'
  BY <1>9 DEF Park
<1>10. ASSUME NEW i \in Interfaces, Wake(i) PROVE MutexHeld'
  BY <1>10 DEF Wake
<1>11. ASSUME NEW i \in Interfaces, SendSIP(i) PROVE MutexHeld'
  BY <1>11 DEF SendSIP
<1>12. ASSUME NEW i \in Interfaces, FinishSIP(i) PROVE MutexHeld'
  BY <1>12 DEF FinishSIP
<1>13. ASSUME NEW i \in Interfaces, RLock(i) PROVE MutexHeld'
  BY <1>13 DEF RLock
<1>14. ASSUME NEW i \in Interfaces, ReserveRTP(i) PROVE MutexHeld'
  BY <1>14 DEF ReserveRTP
<1>15. ASSUME NEW i \in Interfaces, SendRTP(i) PROVE MutexHeld'
  BY <1>15 DEF SendRTP
<1>16. ASSUME OtherStep PROVE MutexHeld'
  BY <1>16, OthersLeaveReaders
<1> QED
  BY NextSplit, <1>1, <1>2, <1>3, <1>4, <1>5, <1>6, <1>7, <1>8, <1>9, <1>10,
     <1>11, <1>12, <1>13, <1>14, <1>15, <1>16 DEF ReaderStep

\* Nobody is admitted or sleeps after the stop.
LEMMA StoppedStep ==
    ASSUME IInv, [Next]_vars
    PROVE  StoppedQuietly'
<1> ReaderTypeOK /\ MutexHeld /\ StoppedQuietly
  BY DEF IInv, TypeOK
<1> USE DEF ReaderTypeOK, MutexHeld, StoppedQuietly, LockFree, Signal, vars,
            queueVars, readerVars, consumerVars, closeVars, Goto
<1>1. ASSUME NEW i \in Interfaces, NEW n \in 1..MaxRun, MeetSIP(i, n)
      PROVE  StoppedQuietly'
  BY <1>1 DEF MeetSIP
<1>2. ASSUME NEW i \in Interfaces, NEW n \in 1..MaxRun, MeetRTP(i, n)
      PROVE  StoppedQuietly'
  BY <1>2 DEF MeetRTP
<1>3. ASSUME NEW i \in Interfaces, Return(i) PROVE StoppedQuietly'
  BY <1>3 DEF Return
<1>4. ASSUME NEW i \in Interfaces, TurnedAway(i) PROVE StoppedQuietly'
  BY <1>4 DEF TurnedAway
<1>5. ASSUME NEW i \in Interfaces, AnnounceSIP(i) PROVE StoppedQuietly'
  BY <1>5 DEF AnnounceSIP
<1>6. ASSUME NEW i \in Interfaces, QuitSIP(i) PROVE StoppedQuietly'
  BY <1>6 DEF QuitSIP
<1>7. ASSUME NEW i \in Interfaces, ReserveSIP(i) PROVE StoppedQuietly'
  BY <1>7 DEF ReserveSIP
<1>8. ASSUME NEW i \in Interfaces, RefuseSIP(i) PROVE StoppedQuietly'
  BY <1>8 DEF RefuseSIP
<1>9. ASSUME NEW i \in Interfaces, Park(i) PROVE StoppedQuietly'
  BY <1>9 DEF Park
<1>10. ASSUME NEW i \in Interfaces, Wake(i) PROVE StoppedQuietly'
  BY <1>10 DEF Wake
<1>11. ASSUME NEW i \in Interfaces, SendSIP(i) PROVE StoppedQuietly'
  BY <1>11 DEF SendSIP
<1>12. ASSUME NEW i \in Interfaces, FinishSIP(i) PROVE StoppedQuietly'
  BY <1>12 DEF FinishSIP
<1>13. ASSUME NEW i \in Interfaces, RLock(i) PROVE StoppedQuietly'
  BY <1>13 DEF RLock
<1>14. ASSUME NEW i \in Interfaces, ReserveRTP(i) PROVE StoppedQuietly'
  BY <1>14 DEF ReserveRTP
<1>15. ASSUME NEW i \in Interfaces, SendRTP(i) PROVE StoppedQuietly'
  BY <1>15 DEF SendRTP
<1>16. ASSUME Poll PROVE StoppedQuietly'
  BY <1>16 DEF Poll
<1>17. ASSUME StartDraining PROVE StoppedQuietly'
  BY <1>17 DEF StartDraining
<1>18. ASSUME TakeRun PROVE StoppedQuietly'
  BY <1>18 DEF TakeRun
<1>19. ASSUME DrainRun PROVE StoppedQuietly'
  BY <1>19 DEF DrainRun
<1>20. ASSUME DrainedEmpty PROVE StoppedQuietly'
  BY <1>20 DEF DrainedEmpty
<1>21. ASSUME DequeueFrame PROVE StoppedQuietly'
  BY <1>21 DEF DequeueFrame
<1>22. ASSUME FinishRun PROVE StoppedQuietly'
  BY <1>22 DEF FinishRun
<1>23. ASSUME Subtract PROVE StoppedQuietly'
  BY <1>23 DEF Subtract
<1>24. ASSUME CheckPending PROVE StoppedQuietly'
  BY <1>24 DEF CheckPending
<1>25. ASSUME SignalPending PROVE StoppedQuietly'
  BY <1>25 DEF SignalPending
<1>26. ASSUME BeginClose PROVE StoppedQuietly'
  BY <1>26 DEF BeginClose
<1>27. ASSUME StopQueue PROVE StoppedQuietly'
  BY <1>27 DEF StopQueue
<1>28. ASSUME CloseDone PROVE StoppedQuietly'
  BY <1>28 DEF CloseDone
<1>29. ASSUME Waited PROVE StoppedQuietly'
  BY <1>29 DEF Waited
<1>30. ASSUME UNCHANGED vars PROVE StoppedQuietly'
  BY <1>30
<1> QED
  BY NextSplit, <1>1, <1>2, <1>3, <1>4, <1>5, <1>6, <1>7, <1>8, <1>9, <1>10,
     <1>11, <1>12, <1>13, <1>14, <1>15, <1>16, <1>17, <1>18, <1>19, <1>20,
     <1>21, <1>22, <1>23, <1>24, <1>25, <1>26, <1>27, <1>28, <1>29, <1>30 DEF
     ReaderStep, OtherStep, Consumer, Close

\* The line changes with pendingSIP.
LEMMA LineStep ==
    ASSUME IInv, [Next]_vars
    PROVE  \/ UNCHANGED <<Line, pendingSIP>>
           \/ \E i \in Interfaces : /\ ~Announced(i) /\ Line' = Line \cup {i}
                                   /\ pendingSIP' = pendingSIP + 1
           \/ \E i \in Interfaces : /\ Announced(i) /\ Line' = Line \ {i}
                                   /\ pendingSIP' = pendingSIP - 1
<1> ReaderTypeOK /\ MutexHeld
  BY DEF IInv, TypeOK
<1> USE DEF ReaderTypeOK, MutexHeld, Line, Announced, Waiting, vars, queueVars,
            readerVars, consumerVars, closeVars, Goto
<1>1. ASSUME NEW i \in Interfaces, NEW n \in 1..MaxRun, MeetSIP(i, n)
      PROVE  UNCHANGED <<Line, pendingSIP>>
  BY <1>1 DEF MeetSIP
<1>2. ASSUME NEW i \in Interfaces, NEW n \in 1..MaxRun, MeetRTP(i, n)
      PROVE  UNCHANGED <<Line, pendingSIP>>
  BY <1>2 DEF MeetRTP
<1>3. ASSUME NEW i \in Interfaces, Return(i) PROVE UNCHANGED <<Line, pendingSIP>>
  BY <1>3 DEF Return
<1>4. ASSUME NEW i \in Interfaces, TurnedAway(i) PROVE UNCHANGED <<Line, pendingSIP>>
  BY <1>4 DEF TurnedAway
<1>5. ASSUME NEW i \in Interfaces, AnnounceSIP(i)
      PROVE  ~Announced(i) /\ Line' = Line \cup {i} /\ pendingSIP' = pendingSIP + 1
  BY <1>5 DEF AnnounceSIP
<1>6. ASSUME NEW i \in Interfaces, QuitSIP(i)
      PROVE  Announced(i) /\ Line' = Line \ {i} /\ pendingSIP' = pendingSIP - 1
  BY <1>6 DEF QuitSIP
<1>7. ASSUME NEW i \in Interfaces, ReserveSIP(i) PROVE UNCHANGED <<Line, pendingSIP>>
  BY <1>7 DEF ReserveSIP
<1>8. ASSUME NEW i \in Interfaces, RefuseSIP(i) PROVE UNCHANGED <<Line, pendingSIP>>
  BY <1>8 DEF RefuseSIP
<1>9. ASSUME NEW i \in Interfaces, Park(i) PROVE UNCHANGED <<Line, pendingSIP>>
  BY <1>9 DEF Park
<1>10. ASSUME NEW i \in Interfaces, Wake(i) PROVE UNCHANGED <<Line, pendingSIP>>
  BY <1>10 DEF Wake
<1>11. ASSUME NEW i \in Interfaces, SendSIP(i) PROVE UNCHANGED <<Line, pendingSIP>>
  BY <1>11 DEF SendSIP
<1>12. ASSUME NEW i \in Interfaces, FinishSIP(i)
      PROVE  Announced(i) /\ Line' = Line \ {i} /\ pendingSIP' = pendingSIP - 1
  BY <1>12 DEF FinishSIP
<1>13. ASSUME NEW i \in Interfaces, RLock(i) PROVE UNCHANGED <<Line, pendingSIP>>
  BY <1>13 DEF RLock
<1>14. ASSUME NEW i \in Interfaces, ReserveRTP(i) PROVE UNCHANGED <<Line, pendingSIP>>
  BY <1>14 DEF ReserveRTP
<1>15. ASSUME NEW i \in Interfaces, SendRTP(i) PROVE UNCHANGED <<Line, pendingSIP>>
  BY <1>15 DEF SendRTP
<1>16. ASSUME OtherStep PROVE UNCHANGED <<Line, pendingSIP>>
  BY <1>16, OthersLeaveReaders
<1> QED
  BY NextSplit, <1>1, <1>2, <1>3, <1>4, <1>5, <1>6, <1>7, <1>8, <1>9, <1>10,
     <1>11, <1>12, <1>13, <1>14, <1>15, <1>16 DEF ReaderStep

\* No SIP run is announced beside an RTP run.
LEMMA RTPAloneStep ==
    ASSUME IInv, [Next]_vars
    PROVE  RTPAlone'
<1> ReaderTypeOK /\ MutexHeld /\ RTPAlone
  BY DEF IInv, TypeOK
<1> USE DEF ReaderTypeOK, MutexHeld, RTPAlone, LockFree, RTPAllowed, vars, queueVars,
            readerVars, consumerVars, closeVars, Goto
<1>1. ASSUME NEW i \in Interfaces, NEW n \in 1..MaxRun, MeetSIP(i, n) PROVE RTPAlone'
  BY <1>1 DEF MeetSIP
<1>2. ASSUME NEW i \in Interfaces, NEW n \in 1..MaxRun, MeetRTP(i, n) PROVE RTPAlone'
  BY <1>2 DEF MeetRTP
<1>3. ASSUME NEW i \in Interfaces, Return(i) PROVE RTPAlone'
  BY <1>3 DEF Return
<1>4. ASSUME NEW i \in Interfaces, TurnedAway(i) PROVE RTPAlone'
  BY <1>4 DEF TurnedAway
<1>5. ASSUME NEW i \in Interfaces, AnnounceSIP(i) PROVE RTPAlone'
  BY <1>5 DEF AnnounceSIP
<1>6. ASSUME NEW i \in Interfaces, QuitSIP(i) PROVE RTPAlone'
  BY <1>6 DEF QuitSIP
<1>7. ASSUME NEW i \in Interfaces, ReserveSIP(i) PROVE RTPAlone'
  BY <1>7 DEF ReserveSIP
<1>8. ASSUME NEW i \in Interfaces, RefuseSIP(i) PROVE RTPAlone'
  BY <1>8 DEF RefuseSIP
<1>9. ASSUME NEW i \in Interfaces, Park(i) PROVE RTPAlone'
  BY <1>9 DEF Park
<1>10. ASSUME NEW i \in Interfaces, Wake(i) PROVE RTPAlone'
  BY <1>10 DEF Wake
<1>11. ASSUME NEW i \in Interfaces, SendSIP(i) PROVE RTPAlone'
  BY <1>11 DEF SendSIP
<1>12. ASSUME NEW i \in Interfaces, FinishSIP(i) PROVE RTPAlone'
  BY <1>12 DEF FinishSIP
<1>13. ASSUME NEW i \in Interfaces, RLock(i) PROVE RTPAlone'
  BY <1>13 DEF RLock
<1>14. ASSUME NEW i \in Interfaces, ReserveRTP(i) PROVE RTPAlone'
  BY <1>14 DEF ReserveRTP
<1>15. ASSUME NEW i \in Interfaces, SendRTP(i) PROVE RTPAlone'
  BY <1>15 DEF SendRTP
<1>16. ASSUME OtherStep PROVE RTPAlone'
  BY <1>16, OthersLeaveReaders
<1> QED
  BY NextSplit, <1>1, <1>2, <1>3, <1>4, <1>5, <1>6, <1>7, <1>8, <1>9, <1>10,
     <1>11, <1>12, <1>13, <1>14, <1>15, <1>16 DEF ReaderStep

\* pendingSIP counts the line.
LEMMA PendingStep ==
    ASSUME IInv, [Next]_vars
    PROVE  PendingCounted' /\ pendingSIP' \in Nat
<1> PendingCounted /\ pendingSIP \in Nat
  BY DEF IInv, TypeOK, QueueTypeOK
<1>1. CASE UNCHANGED <<Line, pendingSIP>>
  BY <1>1 DEF PendingCounted
<1>2. ASSUME NEW i \in Interfaces, ~Announced(i), Line' = Line \cup {i},
             pendingSIP' = pendingSIP + 1
      PROVE  PendingCounted' /\ pendingSIP' \in Nat
  BY <1>2, LineGrows
<1>3. ASSUME NEW i \in Interfaces, Announced(i), Line' = Line \ {i},
             pendingSIP' = pendingSIP - 1
      PROVE  PendingCounted' /\ pendingSIP' \in Nat
  BY <1>3, LineShrinks
<1> QED
  BY <1>1, <1>2, <1>3, LineStep

\* The line of tickets as it was.
LineKept ==
    /\ UNCHANGED <<pendingSIP, nextSIP, servingSIP, ticket>>
    /\ \A j \in Interfaces : Announced(j)' <=> Announced(j)
    /\ \A j \in Interfaces : pc'[j] \in {"send", "finish"} =>
                                 pc[j] \in {"send", "finish"} \/ MyTurn(j)

\* The line of tickets: unchanged, ...
LEMMA LineStays ==
    ASSUME InRange, LineComplete, LineKept
    PROVE  InRange' /\ LineComplete'
BY DEF LineKept, InRange, LineComplete, MyTurn

\* ... longer by a ticket, ...
LEMMA TicketTaken ==
    ASSUME QueueTypeOK, ReaderTypeOK, InRange, LineComplete, NEW i \in Interfaces,
           ~Announced(i), ticket' = [ticket EXCEPT ![i] = nextSIP],
           nextSIP' = nextSIP + 1, servingSIP' = servingSIP,
           pendingSIP' = pendingSIP + 1,
           \A j \in Interfaces : Announced(j)' <=> Announced(j) \/ j = i,
           \A j \in Interfaces : pc'[j] \in {"send", "finish"} => j # i /\ pc'[j] = pc[j]
    PROVE  InRange' /\ LineComplete'
<1>1. /\ nextSIP \in Nat /\ servingSIP \in Nat /\ pendingSIP \in Nat
      /\ pendingSIP = nextSIP - servingSIP
      /\ ticket'[i] = nextSIP
      /\ \A j \in Interfaces \ {i} : ticket'[j] = ticket[j]
      /\ \A j \in Interfaces : ticket[j] \in Nat
  BY DEF QueueTypeOK, ReaderTypeOK, LineComplete
<1>2. \A j \in Interfaces : Announced(j) => ticket[j] \in servingSIP..(nextSIP - 1)
  BY DEF InRange
<1>3. InRange'
  <2>1. ASSUME NEW j \in Interfaces, Announced(j)'
        PROVE  ticket'[j] \in servingSIP'..(nextSIP' - 1)
    BY <1>1, <1>2, <2>1
  <2>2. ASSUME NEW j \in Interfaces, pc'[j] \in {"send", "finish"}
        PROVE  ticket'[j] = servingSIP'
    BY <1>1, <2>2 DEF InRange
  <2> QED
    BY <2>1, <2>2 DEF InRange
<1>4. ASSUME NEW t \in servingSIP'..(nextSIP' - 1)
      PROVE  \E j \in Interfaces : Announced(j)' /\ ticket'[j] = t
  <2>1. CASE t = nextSIP
    BY <1>1, <2>1
  <2>2. CASE t # nextSIP
    <3>1. t \in servingSIP..(nextSIP - 1)
      BY <1>1, <2>2
    <3>2. PICK j \in Interfaces : Announced(j) /\ ticket[j] = t
      BY <3>1 DEF LineComplete
    <3> QED
      BY <1>1, <3>2
  <2> QED
    BY <2>1, <2>2
<1>5. ASSUME NEW j \in Interfaces, NEW k \in Interfaces, Announced(j)', Announced(k)',
             j # k
      PROVE  ticket'[j] # ticket'[k]
  <2>1. Announced(j) /\ Announced(k) => ticket[j] # ticket[k]
    BY <1>5 DEF LineComplete
  <2> QED
    BY <1>1, <1>2, <1>5, <2>1
<1>6. pendingSIP' = nextSIP' - servingSIP'
  BY <1>1
<1> QED
  BY <1>3, <1>4, <1>5, <1>6 DEF LineComplete

\* ... or shorter by the one served.
LEMMA TurnPassed ==
    ASSUME QueueTypeOK, ReaderTypeOK, InRange, LineComplete, NEW i \in Interfaces,
           Announced(i), ticket[i] = servingSIP, ticket' = ticket, nextSIP' = nextSIP,
           servingSIP' = servingSIP + 1, pendingSIP' = pendingSIP - 1,
           \A j \in Interfaces : Announced(j)' <=> Announced(j) /\ j # i,
           \A j \in Interfaces : pc'[j] \notin {"send", "finish"}
    PROVE  InRange' /\ LineComplete'
<1>1. /\ nextSIP \in Nat /\ servingSIP \in Nat /\ pendingSIP \in Nat
      /\ pendingSIP = nextSIP - servingSIP
      /\ \A j \in Interfaces : ticket[j] \in Nat
  BY DEF QueueTypeOK, ReaderTypeOK, LineComplete
<1>2. ASSUME NEW j \in Interfaces, Announced(j)'
      PROVE  ticket'[j] \in servingSIP'..(nextSIP' - 1)
  <2>1. ticket[j] \in servingSIP..(nextSIP - 1)
    BY <1>2 DEF InRange
  <2>2. ticket[j] # ticket[i]
    BY <1>2 DEF LineComplete
  <2> QED
    BY <1>1, <2>1, <2>2
<1>3. ASSUME NEW t \in servingSIP'..(nextSIP' - 1)
      PROVE  \E j \in Interfaces : Announced(j)' /\ ticket'[j] = t
  <2>1. t \in servingSIP..(nextSIP - 1) /\ t # servingSIP
    BY <1>1
  <2>2. PICK j \in Interfaces : Announced(j) /\ ticket[j] = t
    BY <2>1 DEF LineComplete
  <2> QED
    BY <2>1, <2>2
<1>4. ASSUME NEW j \in Interfaces, NEW k \in Interfaces, Announced(j)', Announced(k)',
             j # k
      PROVE  ticket'[j] # ticket'[k]
  BY <1>4 DEF LineComplete
<1>5. pendingSIP' = nextSIP' - servingSIP'
  BY <1>1
<1> QED
  BY <1>2, <1>3, <1>4, <1>5 DEF InRange, LineComplete

\* While the queue runs, the tickets stay in range and complete.
LEMMA LineCompleteStep ==
    ASSUME IInv, InRange, LineComplete, ~stopped, [Next]_vars
    PROVE  InRange' /\ LineComplete'
<1> QueueTypeOK /\ ReaderTypeOK /\ MutexHeld
  BY DEF IInv, TypeOK
<1> pc \in [Interfaces -> ReaderPC]
  BY DEF ReaderTypeOK
<1> USE DEF MutexHeld, vars, queueVars, readerVars, consumerVars, closeVars, Goto
<1>1. ASSUME NEW i \in Interfaces, NEW n \in 1..MaxRun, MeetSIP(i, n) PROVE LineKept
  BY <1>1 DEF MeetSIP, LineKept, Announced, Waiting
<1>2. ASSUME NEW i \in Interfaces, NEW n \in 1..MaxRun, MeetRTP(i, n) PROVE LineKept
  BY <1>2 DEF MeetRTP, LineKept, Announced, Waiting
<1>3. ASSUME NEW i \in Interfaces, Return(i) PROVE LineKept
  BY <1>3 DEF Return, LineKept, Announced, Waiting
<1>4. ASSUME NEW i \in Interfaces, TurnedAway(i) PROVE LineKept
  BY <1>4 DEF TurnedAway, LineKept, Announced, Waiting
<1>5. ASSUME NEW i \in Interfaces, AnnounceSIP(i) PROVE InRange' /\ LineComplete'
  <2>1. /\ \A j \in Interfaces : Announced(j)' <=> Announced(j) \/ j = i
        /\ ~Announced(i)
    BY <1>5 DEF AnnounceSIP, Announced, Waiting
  <2>2. \A j \in Interfaces : pc'[j] \in {"send", "finish"} => j # i /\ pc'[j] = pc[j]
    BY <1>5 DEF AnnounceSIP
  <2>3. /\ ticket' = [ticket EXCEPT ![i] = nextSIP] /\ nextSIP' = nextSIP + 1
        /\ servingSIP' = servingSIP /\ pendingSIP' = pendingSIP + 1
    BY <1>5 DEF AnnounceSIP
  <2> QED
    BY <2>1, <2>2, <2>3, TicketTaken
<1>6. ASSUME NEW i \in Interfaces, QuitSIP(i) PROVE InRange' /\ LineComplete'
  BY <1>6 DEF QuitSIP
<1>7. ASSUME NEW i \in Interfaces, ReserveSIP(i) PROVE LineKept
  BY <1>7 DEF ReserveSIP, LineKept, Announced, Waiting
<1>8. ASSUME NEW i \in Interfaces, RefuseSIP(i) PROVE LineKept
  BY <1>8 DEF RefuseSIP, LineKept, Announced, Waiting
<1>9. ASSUME NEW i \in Interfaces, Park(i) PROVE LineKept
  BY <1>9 DEF Park, LineKept, Announced, Waiting
<1>10. ASSUME NEW i \in Interfaces, Wake(i) PROVE LineKept
  BY <1>10 DEF Wake, LineKept, Announced, Waiting
<1>11. ASSUME NEW i \in Interfaces, SendSIP(i) PROVE LineKept
  BY <1>11 DEF SendSIP, LineKept, Announced, Waiting
<1>12. ASSUME NEW i \in Interfaces, FinishSIP(i) PROVE InRange' /\ LineComplete'
  <2>1. /\ \A j \in Interfaces : Announced(j)' <=> Announced(j) /\ j # i
        /\ Announced(i)
    BY <1>12 DEF FinishSIP, Announced, Waiting
  <2>2. \A j \in Interfaces : pc'[j] \notin {"send", "finish"}
    BY <1>12 DEF FinishSIP
  <2>3. /\ ticket' = ticket /\ nextSIP' = nextSIP /\ servingSIP' = servingSIP + 1
        /\ pendingSIP' = pendingSIP - 1
    BY <1>12 DEF FinishSIP
  <2>4. ticket[i] = servingSIP
    BY <1>12 DEF FinishSIP, InRange
  <2> QED
    BY <2>1, <2>2, <2>3, <2>4, TurnPassed
<1>13. ASSUME NEW i \in Interfaces, RLock(i) PROVE LineKept
  BY <1>13 DEF RLock, LineKept, Announced, Waiting
<1>14. ASSUME NEW i \in Interfaces, ReserveRTP(i) PROVE LineKept
  BY <1>14 DEF ReserveRTP, LineKept, Announced, Waiting
<1>15. ASSUME NEW i \in Interfaces, SendRTP(i) PROVE LineKept
  BY <1>15 DEF SendRTP, LineKept, Announced, Waiting
<1>16. ASSUME OtherStep PROVE LineKept
  BY <1>16, OthersLeaveReaders DEF LineKept, MyTurn, Announced, Waiting
<1> QED
  BY NextSplit, LineStays, <1>1, <1>2, <1>3, <1>4, <1>5, <1>6, <1>7, <1>8,
     <1>9, <1>10, <1>11, <1>12, <1>13, <1>14, <1>15, <1>16 DEF ReaderStep

\* The shutdown is in order.
LEMMA ShutStep ==
    ASSUME IInv, [Next]_vars
    PROVE  ShutInOrder'
<1> StoppedQuietly /\ ShutInOrder
  BY DEF IInv, TypeOK
<1> USE DEF StoppedQuietly, ShutInOrder, vars, queueVars, readerVars, consumerVars,
            closeVars, Goto
<1>1. ASSUME NEW i \in Interfaces, NEW n \in 1..MaxRun, MeetSIP(i, n)
      PROVE  ShutInOrder'
  BY <1>1 DEF MeetSIP
<1>2. ASSUME NEW i \in Interfaces, NEW n \in 1..MaxRun, MeetRTP(i, n)
      PROVE  ShutInOrder'
  BY <1>2 DEF MeetRTP
<1>3. ASSUME NEW i \in Interfaces, Return(i) PROVE ShutInOrder'
  BY <1>3 DEF Return
<1>4. ASSUME NEW i \in Interfaces, TurnedAway(i) PROVE ShutInOrder'
  BY <1>4 DEF TurnedAway
<1>5. ASSUME NEW i \in Interfaces, AnnounceSIP(i) PROVE ShutInOrder'
  BY <1>5 DEF AnnounceSIP
<1>6. ASSUME NEW i \in Interfaces, QuitSIP(i) PROVE ShutInOrder'
  BY <1>6 DEF QuitSIP
<1>7. ASSUME NEW i \in Interfaces, ReserveSIP(i) PROVE ShutInOrder'
  BY <1>7 DEF ReserveSIP
<1>8. ASSUME NEW i \in Interfaces, RefuseSIP(i) PROVE ShutInOrder'
  BY <1>8 DEF RefuseSIP
<1>9. ASSUME NEW i \in Interfaces, Park(i) PROVE ShutInOrder'
  BY <1>9 DEF Park
<1>10. ASSUME NEW i \in Interfaces, Wake(i) PROVE ShutInOrder'
  BY <1>10 DEF Wake
<1>11. ASSUME NEW i \in Interfaces, SendSIP(i) PROVE ShutInOrder'
  BY <1>11 DEF SendSIP
<1>12. ASSUME NEW i \in Interfaces, FinishSIP(i) PROVE ShutInOrder'
  BY <1>12 DEF FinishSIP
<1>13. ASSUME NEW i \in Interfaces, RLock(i) PROVE ShutInOrder'
  BY <1>13 DEF RLock
<1>14. ASSUME NEW i \in Interfaces, ReserveRTP(i) PROVE ShutInOrder'
  BY <1>14 DEF ReserveRTP
<1>15. ASSUME NEW i \in Interfaces, SendRTP(i) PROVE ShutInOrder'
  BY <1>15 DEF SendRTP
<1>16. ASSUME Poll PROVE ShutInOrder'
  BY <1>16 DEF Poll
<1>17. ASSUME StartDraining PROVE ShutInOrder'
  BY <1>17 DEF StartDraining
<1>18. ASSUME TakeRun PROVE ShutInOrder'
  BY <1>18 DEF TakeRun
<1>19. ASSUME DrainRun PROVE ShutInOrder'
  BY <1>19 DEF DrainRun
<1>20. ASSUME DrainedEmpty PROVE ShutInOrder'
  BY <1>20 DEF DrainedEmpty
<1>21. ASSUME DequeueFrame PROVE ShutInOrder'
  BY <1>21 DEF DequeueFrame
<1>22. ASSUME FinishRun PROVE ShutInOrder'
  BY <1>22 DEF FinishRun
<1>23. ASSUME Subtract PROVE ShutInOrder'
  BY <1>23 DEF Subtract
<1>24. ASSUME CheckPending PROVE ShutInOrder'
  BY <1>24 DEF CheckPending
<1>25. ASSUME SignalPending PROVE ShutInOrder'
  BY <1>25 DEF SignalPending
<1>26. ASSUME BeginClose PROVE ShutInOrder'
  BY <1>26 DEF BeginClose
<1>27. ASSUME StopQueue PROVE ShutInOrder'
  BY <1>27 DEF StopQueue
<1>28. ASSUME CloseDone PROVE ShutInOrder'
  BY <1>28 DEF CloseDone
<1>29. ASSUME Waited PROVE ShutInOrder'
  BY <1>29 DEF Waited
<1>30. ASSUME UNCHANGED vars PROVE ShutInOrder'
  BY <1>30
<1> QED
  BY NextSplit, <1>1, <1>2, <1>3, <1>4, <1>5, <1>6, <1>7, <1>8, <1>9, <1>10,
     <1>11, <1>12, <1>13, <1>14, <1>15, <1>16, <1>17, <1>18, <1>19, <1>20,
     <1>21, <1>22, <1>23, <1>24, <1>25, <1>26, <1>27, <1>28, <1>29, <1>30 DEF
     ReaderStep, OtherStep, Consumer, Close

\* The consumer's packets.
LEMMA InHandStep ==
    ASSUME IInv, [Next]_vars
    PROVE  InHand'
<1> InHand /\ ConsumerTypeOK
  BY DEF IInv, TypeOK
<1> USE DEF InHand, vars, queueVars, readerVars, consumerVars, closeVars, Goto
<1>1. ASSUME ReaderStep PROVE InHand'
  BY <1>1, ReadersLeaveConsumer
<1>2. ASSUME Poll PROVE InHand'
  BY <1>2 DEF Poll
<1>3. ASSUME StartDraining PROVE InHand'
  BY <1>3 DEF StartDraining
<1>4. ASSUME TakeRun PROVE InHand'
  BY <1>4 DEF TakeRun
<1>5. ASSUME DrainRun PROVE InHand'
  BY <1>5 DEF DrainRun
<1>6. ASSUME DrainedEmpty PROVE InHand'
  BY <1>6 DEF DrainedEmpty
<1>7. ASSUME DequeueFrame PROVE InHand'
  BY <1>7 DEF DequeueFrame
<1>8. ASSUME FinishRun PROVE InHand'
  BY <1>8 DEF FinishRun
<1>9. ASSUME Subtract PROVE InHand'
  BY <1>9 DEF Subtract
<1>10. ASSUME CheckPending PROVE InHand'
  BY <1>10 DEF CheckPending
<1>11. ASSUME SignalPending PROVE InHand'
  BY <1>11 DEF SignalPending
<1>12. ASSUME BeginClose PROVE InHand'
  BY <1>12 DEF BeginClose
<1>13. ASSUME StopQueue PROVE InHand'
  BY <1>13 DEF StopQueue
<1>14. ASSUME CloseDone PROVE InHand'
  BY <1>14 DEF CloseDone
<1>15. ASSUME Waited PROVE InHand'
  BY <1>15 DEF Waited
<1>16. ASSUME UNCHANGED vars PROVE InHand'
  BY <1>16
<1> QED
  BY NextSplit, <1>1, <1>2, <1>3, <1>4, <1>5, <1>6, <1>7, <1>8, <1>9, <1>10,
     <1>11, <1>12, <1>13, <1>14, <1>15, <1>16 DEF OtherStep, Consumer, Close

\* Every packet is counted once.
LEMMA AccountedStep ==
    ASSUME IInv, TypeOK', [Next]_vars
    PROVE  Accounted'
<1> TypeOK /\ RunsFit /\ Accounted /\ InHand
  BY DEF IInv, TypeOK
<1> QueueTypeOK /\ ReaderTypeOK /\ ConsumerTypeOK
  BY DEF TypeOK
<1> /\ pc \in [Interfaces -> ReaderPC] /\ len \in [Interfaces -> Nat]
    /\ accepted \in [Interfaces -> 0..Capacity]
  BY DEF ReaderTypeOK
<1> USE DEF vars, queueVars, readerVars, consumerVars, closeVars, Goto
<1>1. ASSUME NEW i \in Interfaces, NEW n \in 1..MaxRun, MeetSIP(i, n)
      PROVE  NothingMoves
  BY <1>1 DEF MeetSIP, NothingMoves, Reservations, Reserved
<1>2. ASSUME NEW i \in Interfaces, NEW n \in 1..MaxRun, MeetRTP(i, n)
      PROVE  NothingMoves
  BY <1>2 DEF MeetRTP, NothingMoves, Reservations, Reserved
<1>3. ASSUME NEW i \in Interfaces, Return(i) PROVE NothingMoves
  BY <1>3 DEF Return, NothingMoves, Reservations, Reserved
<1>4. ASSUME NEW i \in Interfaces, TurnedAway(i) PROVE NothingMoves
  BY <1>4 DEF TurnedAway, NothingMoves, Reservations, Reserved
<1>5. ASSUME NEW i \in Interfaces, AnnounceSIP(i) PROVE NothingMoves
  BY <1>5 DEF AnnounceSIP, NothingMoves, Reservations, Reserved
<1>6. ASSUME NEW i \in Interfaces, QuitSIP(i) PROVE NothingMoves
  BY <1>6 DEF QuitSIP, NothingMoves, Reservations, Reserved
<1>7. ASSUME NEW i \in Interfaces, ReserveSIP(i) PROVE Accounted'
  <2>1. /\ queuedPackets' = queuedPackets + len[i] /\ len[i] \in Nat
        /\ UNCHANGED <<runs, remaining, amount>>
    BY <1>7 DEF ReserveSIP
  <2>2. Reservations[i] = 0 /\ Reservations'[i] = len[i]
    BY <1>7 DEF ReserveSIP, Reservations, Reserved, RunsFit
  <2>3. \A j \in Interfaces \ {i} : Reservations'[j] = Reservations[j]
    BY <1>7 DEF ReserveSIP, Reservations, Reserved
  <2>4. queuedPackets' = (queuedPackets - Reservations[i]) + Reservations'[i]
    BY <2>1, <2>2 DEF QueueTypeOK
  <2> QED
    BY <2>1, <2>3, <2>4, ReservationChanges, ReservationsType
<1>8. ASSUME NEW i \in Interfaces, RefuseSIP(i) PROVE NothingMoves
  BY <1>8 DEF RefuseSIP, NothingMoves, Reservations, Reserved
<1>9. ASSUME NEW i \in Interfaces, Park(i) PROVE NothingMoves
  BY <1>9 DEF Park, NothingMoves, Reservations, Reserved
<1>10. ASSUME NEW i \in Interfaces, Wake(i) PROVE NothingMoves
  BY <1>10 DEF Wake, NothingMoves, Reservations, Reserved
<1>11. ASSUME NEW i \in Interfaces, SendSIP(i) PROVE Accounted'
  <2>1. /\ pc[i] = "send" /\ pc' = [pc EXCEPT ![i] = "finish"]
        /\ UNCHANGED <<queuedPackets, remaining, amount, len, accepted>>
        /\ runs' = Append(runs, [iface |-> i, len |-> len[i]])
    BY <1>11 DEF SendSIP
  <2>2. Reservations[i] = len[i] /\ Reservations'[i] = 0
    BY <2>1 DEF Reservations, Reserved, RunsFit
  <2>3. \A j \in Interfaces \ {i} : Reservations'[j] = Reservations[j]
    BY <2>1 DEF Reservations, Reserved
  <2>4. len[i] \in 1..Capacity
    BY <2>1 DEF RunsFit
  <2> QED
    BY <2>1, <2>2, <2>3, <2>4, RunSent, ReservationsType
<1>12. ASSUME NEW i \in Interfaces, FinishSIP(i) PROVE NothingMoves
  BY <1>12 DEF FinishSIP, NothingMoves, Reservations, Reserved
<1>13. ASSUME NEW i \in Interfaces, RLock(i) PROVE NothingMoves
  BY <1>13 DEF RLock, NothingMoves, Reservations, Reserved
<1>14. ASSUME NEW i \in Interfaces, ReserveRTP(i) PROVE Accounted'
  <2> DEFINE share == IF RTPAllowed THEN Share(len[i]) ELSE 0
  <2>1. /\ queuedPackets' = queuedPackets + share
        /\ UNCHANGED <<runs, remaining, amount>>
    BY <1>14 DEF ReserveRTP
  <2>2. Reservations[i] = 0 /\ Reservations'[i] = share
    <3>1. /\ pc[i] = "reserve" /\ accepted' = [accepted EXCEPT ![i] = share]
          /\ pc'[i] # "send"
      BY <1>14 DEF ReserveRTP
    <3> HIDE DEF share
    <3> QED
      BY <3>1 DEF Reservations, Reserved, RunsFit
  <2>3. \A j \in Interfaces \ {i} : Reservations'[j] = Reservations[j]
    <3>1. /\ pc[i] = "reserve" /\ accepted' = [accepted EXCEPT ![i] = share]
          /\ len' = [len EXCEPT ![i] = 0]
          /\ \A j \in Interfaces \ {i} : pc'[j] = pc[j]
      BY <1>14 DEF ReserveRTP
    <3> HIDE DEF share
    <3> QED
      BY <3>1 DEF Reservations, Reserved
  <2>4. queuedPackets' = (queuedPackets - Reservations[i]) + Reservations'[i]
    <3>1. Reservations' \in [Interfaces -> Nat]
      BY ReservationsType
    <3>2. share \in Nat
      BY <2>2, <3>1
    <3> HIDE DEF share
    <3> QED
      BY <2>1, <2>2, <3>2 DEF QueueTypeOK
  <2> QED
    BY <2>1, <2>3, <2>4, ReservationChanges, ReservationsType
<1>15. ASSUME NEW i \in Interfaces, SendRTP(i) PROVE Accounted'
  <2>1. /\ pc[i] = "sendRTP" /\ pc' = [pc EXCEPT ![i] = "idle"]
        /\ UNCHANGED <<queuedPackets, remaining, amount, len>>
        /\ accepted' = [accepted EXCEPT ![i] = 0]
        /\ runs' = Append(runs, [iface |-> i, len |-> accepted[i]])
    BY <1>15 DEF SendRTP
  <2>2. Reservations[i] = accepted[i] /\ Reservations'[i] = 0
    BY <2>1 DEF Reservations, Reserved
  <2>3. \A j \in Interfaces \ {i} : Reservations'[j] = Reservations[j]
    BY <2>1 DEF Reservations, Reserved
  <2>4. accepted[i] \in 1..Capacity
    BY <2>1 DEF RunsFit
  <2> QED
    BY <2>1, <2>2, <2>3, <2>4, RunSent, ReservationsType
<1>16. ASSUME Poll PROVE NothingMoves
  BY <1>16, OthersLeaveReaders DEF Poll, NothingMoves, OtherStep, Consumer, Close,
         Reservations, Reserved
<1>17. ASSUME StartDraining PROVE NothingMoves
  BY <1>17, OthersLeaveReaders DEF StartDraining, NothingMoves, OtherStep, Consumer, Close,
         Reservations, Reserved
<1>18. ASSUME TakeRun PROVE Accounted'
  <2>1. Head(runs) \in Run
    BY <1>18, HeadTailProperties DEF TakeRun, QueueTypeOK
  <2>2. Head(runs).len \in Nat
    BY <2>1 DEF Run
  <2>3. /\ UNCHANGED <<queuedPackets, Reservations>>
        /\ runs # <<>> /\ runs' = Tail(runs)
    BY <1>18 DEF TakeRun, Reservations, Reserved
  <2>4. /\ remaining = 0 /\ amount = 0
        /\ remaining' = Head(runs).len /\ amount' = 0
    BY <1>18 DEF TakeRun, InHand
  <2>5. remaining' \in Nat /\ amount' \in Nat
        /\ remaining' + amount' = (remaining + amount) + Head(runs).len
    BY <2>2, <2>4
  <2> QED
    BY <2>2, <2>3, <2>5, RunReceived
<1>19. ASSUME DrainRun PROVE Accounted'
  <2>1. Head(runs) \in Run
    BY <1>19, HeadTailProperties DEF DrainRun, QueueTypeOK
  <2>2. Head(runs).len \in Nat
    BY <2>1 DEF Run
  <2>3. /\ UNCHANGED <<queuedPackets, Reservations>>
        /\ runs # <<>> /\ runs' = Tail(runs)
    BY <1>19 DEF DrainRun, Reservations, Reserved
  <2>4. /\ remaining = 0 /\ amount = 0
        /\ remaining' = 0 /\ amount' = Head(runs).len
    BY <1>19 DEF DrainRun, InHand
  <2>5. remaining' \in Nat /\ amount' \in Nat
        /\ remaining' + amount' = (remaining + amount) + Head(runs).len
    BY <2>2, <2>4
  <2> QED
    BY <2>2, <2>3, <2>5, RunReceived
<1>20. ASSUME DrainedEmpty PROVE NothingMoves
  BY <1>20, OthersLeaveReaders DEF DrainedEmpty, NothingMoves, OtherStep, Consumer, Close,
         Reservations, Reserved
<1>21. ASSUME DequeueFrame PROVE Accounted'
  <2>1. UNCHANGED <<Reservations, runs>>
    BY <1>21 DEF DequeueFrame, Reservations, Reserved
  <2>2. /\ amount = 0 /\ amount' = 1 /\ remaining > 0 /\ remaining' = remaining - 1
        /\ queuedPackets' = queuedPackets
    BY <1>21 DEF DequeueFrame, InHand
  <2>3. remaining' \in Nat /\ amount' \in Nat
        /\ queuedPackets' = (queuedPackets - (remaining + amount)) + (remaining' + amount')
    BY <2>2 DEF QueueTypeOK, ConsumerTypeOK
  <2> QED
    BY <2>1, <2>3, SameSums
<1>22. ASSUME FinishRun PROVE NothingMoves
  BY <1>22, OthersLeaveReaders DEF FinishRun, NothingMoves, OtherStep, Consumer, Close,
         Reservations, Reserved
<1>23. ASSUME Subtract PROVE Accounted'
  <2>1. UNCHANGED <<Reservations, runs>>
    BY <1>23 DEF Subtract, Reservations, Reserved
  <2>2. /\ amount' = 0 /\ remaining' = remaining
        /\ queuedPackets' = queuedPackets - amount
    BY <1>23 DEF Subtract
  <2>3. remaining' \in Nat /\ amount' \in Nat
        /\ queuedPackets' = (queuedPackets - (remaining + amount)) + (remaining' + amount')
    BY <2>2 DEF QueueTypeOK, ConsumerTypeOK
  <2> QED
    BY <2>1, <2>3, SameSums
<1>24. ASSUME CheckPending PROVE NothingMoves
  BY <1>24, OthersLeaveReaders DEF CheckPending, NothingMoves, OtherStep, Consumer, Close,
         Reservations, Reserved
<1>25. ASSUME SignalPending PROVE NothingMoves
  BY <1>25, OthersLeaveReaders DEF SignalPending, NothingMoves, OtherStep, Consumer, Close,
         Reservations, Reserved
<1>26. ASSUME BeginClose PROVE NothingMoves
  BY <1>26, OthersLeaveReaders DEF BeginClose, NothingMoves, OtherStep, Consumer, Close,
         Reservations, Reserved
<1>27. ASSUME StopQueue PROVE NothingMoves
  BY <1>27, OthersLeaveReaders DEF StopQueue, NothingMoves, OtherStep, Consumer, Close,
         Reservations, Reserved
<1>28. ASSUME CloseDone PROVE NothingMoves
  BY <1>28, OthersLeaveReaders DEF CloseDone, NothingMoves, OtherStep, Consumer, Close,
         Reservations, Reserved
<1>29. ASSUME Waited PROVE NothingMoves
  BY <1>29, OthersLeaveReaders DEF Waited, NothingMoves, OtherStep, Consumer, Close,
         Reservations, Reserved
<1>30. ASSUME UNCHANGED vars PROVE NothingMoves
  BY <1>30 DEF NothingMoves, Reservations, Reserved
<1> QED
  BY NextSplit, NothingCounted, <1>1, <1>2, <1>3, <1>4, <1>5, <1>6, <1>7,
     <1>8, <1>9, <1>10, <1>11, <1>12, <1>13, <1>14, <1>15, <1>16, <1>17,
     <1>18, <1>19, <1>20, <1>21, <1>22, <1>23, <1>24, <1>25, <1>26, <1>27,
     <1>28, <1>29, <1>30 DEF ReaderStep, OtherStep, Consumer, Close

\* The queue's types; queuedPackets stays within the queue's size.
LEMMA QueueTypeStep ==
    ASSUME IInv, pendingSIP' \in Nat, [Next]_vars
    PROVE  QueueTypeOK'
<1> QueueTypeOK /\ ReaderTypeOK /\ RunsFit
  BY DEF IInv, TypeOK
<1> USE DEF QueueTypeOK, vars, queueVars, readerVars, consumerVars, closeVars, Goto
<1>1. ASSUME NEW i \in Interfaces, NEW n \in 1..MaxRun, MeetSIP(i, n)
      PROVE  QueueTypeOK'
  BY <1>1 DEF MeetSIP
<1>2. ASSUME NEW i \in Interfaces, NEW n \in 1..MaxRun, MeetRTP(i, n)
      PROVE  QueueTypeOK'
  BY <1>2 DEF MeetRTP
<1>3. ASSUME NEW i \in Interfaces, Return(i) PROVE QueueTypeOK'
  BY <1>3 DEF Return
<1>4. ASSUME NEW i \in Interfaces, TurnedAway(i) PROVE QueueTypeOK'
  BY <1>4 DEF TurnedAway
<1>5. ASSUME NEW i \in Interfaces, AnnounceSIP(i) PROVE QueueTypeOK'
  BY <1>5 DEF AnnounceSIP
<1>6. ASSUME NEW i \in Interfaces, QuitSIP(i) PROVE QueueTypeOK'
  BY <1>6 DEF QuitSIP
<1>7. ASSUME NEW i \in Interfaces, ReserveSIP(i) PROVE QueueTypeOK'
  <2>1. queuedPackets + len[i] \in 0..Capacity
    <3>1. len[i] \in Nat /\ len[i] <= Capacity - queuedPackets
      BY <1>7 DEF ReserveSIP, HasRoom, ReaderTypeOK
    <3> QED
      BY <3>1
  <2> QED
    BY <1>7, <2>1 DEF ReserveSIP
<1>8. ASSUME NEW i \in Interfaces, RefuseSIP(i) PROVE QueueTypeOK'
  BY <1>8 DEF RefuseSIP
<1>9. ASSUME NEW i \in Interfaces, Park(i) PROVE QueueTypeOK'
  BY <1>9 DEF Park
<1>10. ASSUME NEW i \in Interfaces, Wake(i) PROVE QueueTypeOK'
  BY <1>10 DEF Wake
<1>11. ASSUME NEW i \in Interfaces, SendSIP(i) PROVE QueueTypeOK'
  <2>1. [iface |-> i, len |-> len[i]] \in Run
    BY <1>11 DEF SendSIP, RunsFit, Run
  <2>2. runs' \in Seq(Run)
    BY <1>11, <2>1, AppendProperties DEF SendSIP
  <2> QED
    BY <1>11, <2>2 DEF SendSIP
<1>12. ASSUME NEW i \in Interfaces, FinishSIP(i) PROVE QueueTypeOK'
  BY <1>12 DEF FinishSIP
<1>13. ASSUME NEW i \in Interfaces, RLock(i) PROVE QueueTypeOK'
  BY <1>13 DEF RLock
<1>14. ASSUME NEW i \in Interfaces, ReserveRTP(i) PROVE QueueTypeOK'
  <2> DEFINE share == IF RTPAllowed THEN Share(len[i]) ELSE 0
  <2>1. queuedPackets + share \in 0..Capacity
    <3>1. len[i] \in Nat
      BY DEF ReaderTypeOK
    <3>2. Share(len[i]) \in 0..Capacity /\ queuedPackets + Share(len[i]) <= Capacity
      BY <3>1, ShareFits
    <3>3. CASE RTPAllowed
      BY <3>2, <3>3
    <3>4. CASE ~RTPAllowed
      BY <3>4
    <3> QED
      BY <3>3, <3>4
  <2>2. /\ queuedPackets' = queuedPackets + share
        /\ readers' \subseteq Interfaces
        /\ UNCHANGED <<pendingSIP, nextSIP, servingSIP, writer, runs>>
    BY <1>14 DEF ReserveRTP
  <2> HIDE DEF share
  <2> QED
    BY <2>1, <2>2
<1>15. ASSUME NEW i \in Interfaces, SendRTP(i) PROVE QueueTypeOK'
  <2>1. [iface |-> i, len |-> accepted[i]] \in Run
    BY <1>15 DEF SendRTP, RunsFit, Run
  <2>2. runs' \in Seq(Run)
    BY <1>15, <2>1, AppendProperties DEF SendRTP
  <2> QED
    BY <1>15, <2>2 DEF SendRTP
<1>16. ASSUME Poll PROVE QueueTypeOK'
  BY <1>16 DEF Poll
<1>17. ASSUME StartDraining PROVE QueueTypeOK'
  BY <1>17 DEF StartDraining
<1>18. ASSUME TakeRun PROVE QueueTypeOK'
  <2>1. runs' \in Seq(Run)
    BY <1>18, HeadTailProperties DEF TakeRun
  <2> QED
    BY <1>18, <2>1 DEF TakeRun
<1>19. ASSUME DrainRun PROVE QueueTypeOK'
  <2>1. runs' \in Seq(Run)
    BY <1>19, HeadTailProperties DEF DrainRun
  <2> QED
    BY <1>19, <2>1 DEF DrainRun
<1>20. ASSUME DrainedEmpty PROVE QueueTypeOK'
  BY <1>20 DEF DrainedEmpty
<1>21. ASSUME DequeueFrame PROVE QueueTypeOK'
  BY <1>21 DEF DequeueFrame
<1>22. ASSUME FinishRun PROVE QueueTypeOK'
  BY <1>22 DEF FinishRun
<1>23. ASSUME Subtract PROVE QueueTypeOK'
  <2>1. queuedPackets - amount \in 0..Capacity
    BY CountedBounds DEF IInv
  <2> QED
    BY <1>23, <2>1 DEF Subtract
<1>24. ASSUME CheckPending PROVE QueueTypeOK'
  BY <1>24 DEF CheckPending
<1>25. ASSUME SignalPending PROVE QueueTypeOK'
  BY <1>25 DEF SignalPending
<1>26. ASSUME BeginClose PROVE QueueTypeOK'
  BY <1>26 DEF BeginClose
<1>27. ASSUME StopQueue PROVE QueueTypeOK'
  BY <1>27 DEF StopQueue
<1>28. ASSUME CloseDone PROVE QueueTypeOK'
  BY <1>28 DEF CloseDone
<1>29. ASSUME Waited PROVE QueueTypeOK'
  BY <1>29 DEF Waited
<1>30. ASSUME UNCHANGED vars PROVE QueueTypeOK'
  BY <1>30
<1> QED
  BY NextSplit, <1>1, <1>2, <1>3, <1>4, <1>5, <1>6, <1>7, <1>8, <1>9, <1>10,
     <1>11, <1>12, <1>13, <1>14, <1>15, <1>16, <1>17, <1>18, <1>19, <1>20,
     <1>21, <1>22, <1>23, <1>24, <1>25, <1>26, <1>27, <1>28, <1>29, <1>30 DEF
     ReaderStep, OtherStep, Consumer, Close

\* Nobody parks, room does not grow and no signal is given up ...
NobodyParks ==
    /\ queuedPackets <= queuedPackets'
    /\ \A j \in Interfaces :
          Parked(j)' => Parked(j) /\ len'[j] = len[j] /\ (MyTurn(j)' <=> MyTurn(j))
    /\ SignalDue => SignalDue'

\* ... so no further signal is due.
LEMMA StillSignalled ==
    ASSUME RoomSignalled, \A j \in Interfaces : len[j] \in Nat, queuedPackets \in Nat,
           queuedPackets' \in Nat, NobodyParks
    PROVE  RoomSignalled'
<1> USE DEF NobodyParks
<1> SUFFICES ASSUME NEW j \in Interfaces, Parked(j)', MyTurn(j)', HasRoom(len[j])'
             PROVE  SignalDue'
  BY DEF RoomSignalled
<1>1. Parked(j) /\ len'[j] = len[j] /\ MyTurn(j)
  OBVIOUS
<1>2. HasRoom(len[j])
  BY <1>1 DEF HasRoom
<1> QED
  BY <1>1, <1>2 DEF RoomSignalled

\* Room for the reader whose turn it is is signalled.
LEMMA RoomSignalledStep ==
    ASSUME IInv, QueueTypeOK', [Next]_vars
    PROVE  RoomSignalled'
<1> QueueTypeOK /\ ReaderTypeOK /\ MutexHeld /\ RoomSignalled
  BY DEF IInv, TypeOK
<1> /\ pc \in [Interfaces -> ReaderPC] /\ len \in [Interfaces -> Nat]
    /\ ticket \in [Interfaces -> Nat] /\ queuedPackets \in Nat /\ queuedPackets' \in Nat
  BY DEF QueueTypeOK, ReaderTypeOK
<1> USE DEF MutexHeld, vars, queueVars, readerVars, consumerVars, closeVars, Goto
<1>1. ASSUME NEW i \in Interfaces, NEW n \in 1..MaxRun, MeetSIP(i, n)
      PROVE  NobodyParks
  BY <1>1 DEF MeetSIP, NobodyParks, Parked, MyTurn, SignalDue
<1>2. ASSUME NEW i \in Interfaces, NEW n \in 1..MaxRun, MeetRTP(i, n)
      PROVE  NobodyParks
  BY <1>2 DEF MeetRTP, NobodyParks, Parked, MyTurn, SignalDue
<1>3. ASSUME NEW i \in Interfaces, Return(i) PROVE NobodyParks
  BY <1>3 DEF Return, NobodyParks, Parked, MyTurn, SignalDue
<1>4. ASSUME NEW i \in Interfaces, TurnedAway(i) PROVE NobodyParks
  BY <1>4 DEF TurnedAway, NobodyParks, Parked, MyTurn, SignalDue
<1>5. ASSUME NEW i \in Interfaces, AnnounceSIP(i) PROVE NobodyParks
  BY <1>5 DEF AnnounceSIP, NobodyParks, Parked, MyTurn, SignalDue
<1>6. ASSUME NEW i \in Interfaces, QuitSIP(i) PROVE NobodyParks
  BY <1>6 DEF QuitSIP, NobodyParks, Parked, MyTurn, SignalDue
<1>7. ASSUME NEW i \in Interfaces, ReserveSIP(i) PROVE NobodyParks
  <2>1. len[i] \in Nat /\ queuedPackets' = queuedPackets + len[i]
    BY <1>7 DEF ReserveSIP
  <2>2. queuedPackets <= queuedPackets'
    BY <2>1
  <2> QED
    BY <1>7, <2>2 DEF ReserveSIP, NobodyParks, Parked, MyTurn, SignalDue
<1>8. ASSUME NEW i \in Interfaces, RefuseSIP(i) PROVE RoomSignalled'
  <2>1. \A j \in Interfaces : Parked(j)' => Parked(j) \/ j = i
    BY <1>8 DEF RefuseSIP, Parked
  <2>2. ~(MyTurn(i) /\ HasRoom(len[i]))
    BY <1>8 DEF RefuseSIP
  <2>3. SignalDue' <=> SignalDue
    BY <1>8 DEF RefuseSIP, SignalDue
  <2>4. \A j \in Interfaces : (MyTurn(j)' <=> MyTurn(j)) /\ (HasRoom(len[j])' <=> HasRoom(len[j]))
    BY <1>8 DEF RefuseSIP, MyTurn, HasRoom
  <2> QED
    BY <2>1, <2>2, <2>3, <2>4 DEF RoomSignalled
<1>9. ASSUME NEW i \in Interfaces, Park(i) PROVE NobodyParks
  BY <1>9 DEF Park, NobodyParks, Parked, MyTurn, SignalDue
<1>10. ASSUME NEW i \in Interfaces, Wake(i) PROVE NobodyParks
  BY <1>10 DEF Wake, NobodyParks, Parked, MyTurn, SignalDue
<1>11. ASSUME NEW i \in Interfaces, SendSIP(i) PROVE NobodyParks
  BY <1>11 DEF SendSIP, NobodyParks, Parked, MyTurn, SignalDue
<1>12. ASSUME NEW i \in Interfaces, FinishSIP(i) PROVE RoomSignalled'
  <2>1. \A j \in Interfaces : ~Parked(j)'
    BY <1>12 DEF FinishSIP, Signal, Parked
  <2> QED
    BY <2>1 DEF RoomSignalled
<1>13. ASSUME NEW i \in Interfaces, RLock(i) PROVE NobodyParks
  BY <1>13 DEF RLock, NobodyParks, Parked, MyTurn, SignalDue
<1>14. ASSUME NEW i \in Interfaces, ReserveRTP(i) PROVE NobodyParks
  <2> DEFINE share == IF RTPAllowed THEN Share(len[i]) ELSE 0
  <2>1. share \in Nat
    BY ShareFits DEF IInv, TypeOK
  <2>2. queuedPackets' = queuedPackets + share
    BY <1>14 DEF ReserveRTP
  <2> HIDE DEF share
  <2>3. queuedPackets <= queuedPackets'
    BY <2>1, <2>2
  <2> QED
    BY <1>14, <2>3 DEF ReserveRTP, NobodyParks, Parked, MyTurn, SignalDue
<1>15. ASSUME NEW i \in Interfaces, SendRTP(i) PROVE NobodyParks
  BY <1>15 DEF SendRTP, NobodyParks, Parked, MyTurn, SignalDue
<1>16. ASSUME Poll PROVE NobodyParks
  BY <1>16, OthersLeaveReaders DEF Poll, OtherStep, Consumer, Close, NobodyParks,
         Parked, MyTurn, SignalDue
<1>17. ASSUME StartDraining PROVE NobodyParks
  BY <1>17, OthersLeaveReaders DEF StartDraining, OtherStep, Consumer, Close, NobodyParks,
         Parked, MyTurn, SignalDue
<1>18. ASSUME TakeRun PROVE NobodyParks
  BY <1>18, OthersLeaveReaders DEF TakeRun, OtherStep, Consumer, Close, NobodyParks,
         Parked, MyTurn, SignalDue
<1>19. ASSUME DrainRun PROVE NobodyParks
  BY <1>19, OthersLeaveReaders DEF DrainRun, OtherStep, Consumer, Close, NobodyParks,
         Parked, MyTurn, SignalDue
<1>20. ASSUME DrainedEmpty PROVE NobodyParks
  BY <1>20, OthersLeaveReaders DEF DrainedEmpty, OtherStep, Consumer, Close, NobodyParks,
         Parked, MyTurn, SignalDue
<1>21. ASSUME DequeueFrame PROVE NobodyParks
  BY <1>21, OthersLeaveReaders DEF DequeueFrame, OtherStep, Consumer, Close, NobodyParks,
         Parked, MyTurn, SignalDue
<1>22. ASSUME FinishRun PROVE NobodyParks
  BY <1>22, OthersLeaveReaders DEF FinishRun, OtherStep, Consumer, Close, NobodyParks,
         Parked, MyTurn, SignalDue
<1>23. ASSUME Subtract PROVE RoomSignalled'
  <2>1. SignalDue'
    BY <1>23 DEF Subtract, SignalDue
  <2> QED
    BY <2>1 DEF RoomSignalled
<1>24. ASSUME CheckPending PROVE RoomSignalled'
  <2>1. CASE pendingSIP = 0
    <3>1. pendingSIP = 0
      BY <2>1
    <3>2. \A j \in Interfaces : ~Announced(j)
      BY <3>1, NobodyInLine DEF IInv, Line
    <3>3. \A j \in Interfaces : ~Parked(j)
      BY <3>2 DEF Announced, Waiting, Parked
    <3>4. \A j \in Interfaces : ~Parked(j)'
      BY <1>24, <2>1, <3>3 DEF CheckPending, Parked
    <3> QED
      BY <3>4 DEF RoomSignalled
  <2>2. CASE pendingSIP # 0
    <3>1. SignalDue'
      BY <1>24, <2>2 DEF CheckPending, SignalDue
    <3> QED
      BY <3>1 DEF RoomSignalled
  <2> QED
    BY <2>1, <2>2
<1>25. ASSUME SignalPending PROVE RoomSignalled'
  <2>1. CASE pendingSIP = 0
    <3>1. pendingSIP = 0
      BY <2>1
    <3>2. \A j \in Interfaces : ~Announced(j)
      BY <3>1, NobodyInLine DEF IInv, Line
    <3>3. \A j \in Interfaces : ~Parked(j)
      BY <3>2 DEF Announced, Waiting, Parked
    <3>4. \A j \in Interfaces : ~Parked(j)'
      BY <1>25, <2>1, <3>3 DEF SignalPending, Parked
    <3> QED
      BY <3>4 DEF RoomSignalled
  <2>2. CASE pendingSIP # 0
    <3>1. \A j \in Interfaces : ~Parked(j)'
      BY <1>25, <2>2 DEF SignalPending, Signal, LockFree, Parked
    <3> QED
      BY <3>1 DEF RoomSignalled
  <2> QED
    BY <2>1, <2>2
<1>26. ASSUME BeginClose PROVE NobodyParks
  BY <1>26, OthersLeaveReaders DEF BeginClose, OtherStep, Consumer, Close, NobodyParks,
         Parked, MyTurn, SignalDue
<1>27. ASSUME StopQueue PROVE RoomSignalled'
  <2>1. \A j \in Interfaces : ~Parked(j)'
    BY <1>27 DEF StopQueue, Signal, LockFree, Parked
  <2> QED
    BY <2>1 DEF RoomSignalled
<1>28. ASSUME CloseDone PROVE NobodyParks
  BY <1>28, OthersLeaveReaders DEF CloseDone, OtherStep, Consumer, Close, NobodyParks,
         Parked, MyTurn, SignalDue
<1>29. ASSUME Waited PROVE NobodyParks
  BY <1>29, OthersLeaveReaders DEF Waited, OtherStep, Consumer, Close, NobodyParks,
         Parked, MyTurn, SignalDue
<1>30. ASSUME UNCHANGED vars PROVE NobodyParks
  BY <1>30 DEF NobodyParks, Parked, MyTurn, SignalDue
<1> QED
  BY NextSplit, StillSignalled, <1>1, <1>2, <1>3, <1>4, <1>5, <1>6, <1>7,
     <1>8, <1>9, <1>10, <1>11, <1>12, <1>13, <1>14, <1>15, <1>16, <1>17,
     <1>18, <1>19, <1>20, <1>21, <1>22, <1>23, <1>24, <1>25, <1>26, <1>27,
     <1>28, <1>29, <1>30 DEF ReaderStep, OtherStep, Consumer, Close

-----------------------------------------------------------------------------
(* The invariant is inductive.                                             *)

\* The line is complete in every step until the queue stops.
LEMMA TicketsStep ==
    ASSUME IInv, [Next]_vars
    PROVE  TicketsInRange' /\ TicketsHeld'
<1>1. stopped => stopped'
  <2>1. CASE ReaderStep
    BY <2>1, ReadersLeaveConsumer
  <2>2. CASE OtherStep
    BY <2>2 DEF OtherStep, Consumer, Close, Poll, StartDraining, TakeRun, DrainRun,
                DrainedEmpty, DequeueFrame, FinishRun, Subtract, CheckPending,
                SignalPending, BeginClose, StopQueue, CloseDone, Waited, vars, queueVars
  <2> QED
    BY <2>1, <2>2, NextSplit
<1>2. CASE stopped
  BY <1>1, <1>2 DEF TicketsInRange, TicketsHeld
<1>3. CASE ~stopped
  <2>1. InRange /\ LineComplete
    BY <1>3 DEF IInv, TicketsInRange, TicketsHeld
  <2> QED
    BY <1>3, <2>1, LineCompleteStep DEF TicketsInRange, TicketsHeld
<1> QED
  BY <1>2, <1>3

\* Every step preserves the whole invariant.
LEMMA NextIInv ==
    ASSUME IInv, [Next]_vars
    PROVE  IInv'
<1>1. PendingCounted' /\ pendingSIP' \in Nat
  BY PendingStep
<1>2. TypeOK'
  BY <1>1, QueueTypeStep, ReaderTypeStep, ConsumerTypeStep, CloseTypeStep DEF TypeOK
<1>3. QueueTypeOK'
  BY <1>2 DEF TypeOK
<1>4. RunsFit' /\ MutexHeld'
  BY FitStep, MutexStep
<1>5. TicketsInRange' /\ TicketsHeld'
  BY TicketsStep
<1>6. StoppedQuietly' /\ RTPAlone' /\ InHand' /\ ShutInOrder'
  BY StoppedStep, RTPAloneStep, InHandStep, ShutStep
<1>7. RoomSignalled'
  BY <1>3, RoomSignalledStep
<1>8. Accounted'
  BY <1>2, AccountedStep
<1> QED
  BY <1>1, <1>2, <1>4, <1>5, <1>6, <1>7, <1>8 DEF IInv

\* IInv, the conjunction of all the parts above, holds in every state of
\* packetBatchQueue's readers, consumer and Close.
THEOREM Invariance == Spec => []IInv
<1>1. IInv /\ [Next]_vars => IInv'
  BY NextIInv
<1> QED
  BY <1>1, InitIInv, PTL DEF Spec

-----------------------------------------------------------------------------
(* The properties.                                                         *)

\* The types hold; in particular queuedPackets never exceeds the queue's size nor
\* goes below zero, although reserve, reserveAll and release take no lock.
THEOREM TypeCorrect == Spec => []TypeOK
<1>1. IInv => TypeOK
  BY DEF IInv
<1> QED
  BY <1>1, Invariance, PTL

\* A send on the runs channel in enqueueSIPRun or enqueueRTPRun never blocks under
\* admissionMu: every run is counted with at least one packet.
THEOREM SendsNeverBlock == Spec => []SendNeverBlocks
<1>1. IInv => SendNeverBlocks
  BY CountedBounds DEF IInv
<1> QED
  BY <1>1, Invariance, PTL

\* The tickets of enqueueSIPRun are held by the readers in line, without gap or
\* double, and pendingSIP is their number.
THEOREM TicketsAlwaysHeld == Spec => []TicketsHeld
<1>1. IInv => TicketsHeld
  BY DEF IInv
<1> QED
  BY <1>1, Invariance, PTL

\* packetBatchQueue.release looks at pendingSIP without the lock, and still no
\* reader sleeps through its turn or through stop.
THEOREM WakeupsNotLost == Spec => []NoLostWakeup
<1>1. IInv => NoLostWakeup
  <2> SUFFICES ASSUME IInv, NEW i \in Interfaces, Parked(i)
               PROVE  /\ ~stopped
                      /\ MyTurn(i) /\ HasRoom(len[i]) => SignalDue
    BY DEF NoLostWakeup, Parked, SignalDue
  <2>1. ~stopped
    BY DEF IInv, StoppedQuietly, Parked
  <2>2. MyTurn(i) /\ HasRoom(len[i]) => SignalDue
    BY DEF IInv, RoomSignalled
  <2> QED
    BY <2>1, <2>2
<1> QED
  BY <1>1, Invariance, PTL

\* An RTP run enters the channel only while no SIP run is announced, although
\* enqueueRTPRun checks pendingSIP and sends in separate steps.
THEOREM SIPGoesFirst == Spec => RTPNeverOvertakesSIP
<1>1. IInv => \A i \in Interfaces : SendRTP(i) => \A j \in Interfaces : ~Announced(j)
  <2> SUFFICES ASSUME IInv, NEW i \in Interfaces, SendRTP(i), NEW j \in Interfaces
               PROVE  ~Announced(j)
    OBVIOUS
  <2>1. pendingSIP = 0
    BY DEF IInv, RTPAlone, SendRTP
  <2>2. Line = {}
    BY <2>1, NobodyInLine DEF IInv
  <2> QED
    BY <2>2 DEF Line
<1> QED
  BY <1>1, Invariance, PTL DEF RTPNeverOvertakesSIP

\* Close leaves no run and no counted packet behind: enqueueBlock cannot add a run once
\* releaseQueuedPacketRuns has found the channel empty.
THEOREM ClosesEmpty == Spec => []ClosedIsEmpty
<1>1. IInv => ClosedIsEmpty
  <2> SUFFICES ASSUME IInv, xpc = "closed" PROVE runs = <<>> /\ queuedPackets = 0
    BY DEF ClosedIsEmpty
  <2>1. cpc = "exited" /\ runs = <<>> /\ stopped
    BY DEF IInv, ShutInOrder
  <2>2. remaining = 0 /\ amount = 0
    BY <2>1 DEF IInv, InHand
  <2>3. \A i \in Interfaces : Reservations[i] = 0
    BY <2>1 DEF IInv, StoppedQuietly, RunsFit, Reservations, Reserved
  <2>4. PICK f, g : /\ IsSum(f, Reservations) /\ IsLength(g, runs)
                    /\ queuedPackets = f[Interfaces] + g[1] + remaining + amount
    BY DEF IInv, Accounted
  <2>5. f[Interfaces] = 0
    BY <2>3, <2>4 DEF IsSum
  <2>6. g[1] = 0
    <3>1. Len(runs) = 0
      BY <2>1, EmptySeq
    <3> QED
      BY <2>4, <3>1 DEF IsLength
  <2> QED
    BY <2>1, <2>2, <2>4, <2>5, <2>6
<1> QED
  BY <1>1, Invariance, PTL

-----------------------------------------------------------------------------
(* The queue implements SipFirstQueue.                                     *)

\* The abstract line, its entries, and the state a step of SipFirstQueue sees.
Entry(i) == [iface |-> i, ticket |-> ticket[i], len |-> len[i]]
InLine == {Entry(i) : i \in {j \in Interfaces : Waiting(j)}}
QueueView == <<InLine, nextSIP, queuedPackets, ~stopped>>

\* The line is the entries of the readers that wait.
LEMMA LineEntries ==
    ASSUME NEW w
    PROVE  w \in InLine <=> \E j \in Interfaces : Waiting(j) /\ w = Entry(j)
BY DEF InLine

\* What a step has to do to the view in order to be one of SipFirstQueue.
LEMMA Stutters == QueueView' = QueueView => UNCHANGED Queue!vars
BY DEF QueueView, InLine, Entry, Queue!vars

LEMMA Asks ==
    ASSUME NEW i \in Interfaces, NEW n \in 1..Capacity, ~stopped,
           \A w \in InLine : w.iface # i,
           InLine' = InLine \cup {[iface |-> i, ticket |-> nextSIP, len |-> n]},
           nextSIP' = nextSIP + 1, UNCHANGED <<queuedPackets, stopped>>
    PROVE  Queue!Next
BY DEF InLine, Entry, Queue!Next, Queue!Ask

LEMMA Admits ==
    ASSUME NEW w \in InLine, ~stopped, \A v \in InLine : w.ticket <= v.ticket,
           queuedPackets + w.len <= Capacity, InLine' = InLine \ {w},
           queuedPackets' = queuedPackets + w.len, UNCHANGED <<nextSIP, stopped>>
    PROVE  Queue!Next
BY DEF InLine, Entry, Queue!Next, Queue!AdmitOne, Queue!Admit, Queue!First

LEMMA AdmitsRTP ==
    ASSUME NEW n \in 1..Capacity, ~stopped, InLine = {}, queuedPackets + n <= Capacity,
           queuedPackets' = queuedPackets + n, UNCHANGED <<InLine, nextSIP, stopped>>
    PROVE  Queue!Next
BY DEF InLine, Entry, Queue!Next, Queue!AdmitRTP

LEMMA Releases ==
    ASSUME NEW n \in 1..Capacity, n <= queuedPackets,
           queuedPackets' = queuedPackets - n, UNCHANGED <<InLine, nextSIP, stopped>>
    PROVE  Queue!Next
BY DEF InLine, Entry, Queue!Next, Queue!ReleaseSome, Queue!Release

LEMMA Shuts ==
    ASSUME ~stopped, stopped', UNCHANGED <<InLine, nextSIP, queuedPackets>>
    PROVE  Queue!Next
BY DEF InLine, Entry, Queue!Next, Queue!Shut

LEMMA Leaves ==
    ASSUME NEW w \in InLine, stopped, InLine' = InLine \ {w},
           UNCHANGED <<nextSIP, queuedPackets, stopped>>
    PROVE  Queue!Next
BY DEF InLine, Entry, Queue!Next, Queue!LeaveOne, Queue!Leave

\* A step that leaves the readers in line, with what they hold, leaves the line.
LineSame == \A j \in Interfaces : /\ Waiting(j)' <=> Waiting(j)
                                  /\ Waiting(j) => Entry(j)' = Entry(j)
LEMMA SameLine == LineSame => InLine' = InLine
<1> SUFFICES ASSUME LineSame, NEW w PROVE w \in InLine' <=> w \in InLine
  BY DEF InLine
<1>1. w \in InLine' <=> \E j \in Interfaces : Waiting(j)' /\ w = Entry(j)'
  BY DEF InLine
<1> QED
  BY <1>1, LineEntries DEF LineSame

\* A reader that is the only one to leave the line takes its entry out of it.
LEMMA EntryLeaves ==
    ASSUME NEW i \in Interfaces, ticket' = ticket, len' = len,
           \A j \in Interfaces : Waiting(j)' <=> Waiting(j) /\ j # i
    PROVE  InLine' = InLine \ {Entry(i)}
<1> SUFFICES ASSUME NEW w PROVE w \in InLine' <=> w \in InLine /\ w # Entry(i)
  BY DEF InLine
<1>1. w \in InLine' <=> \E j \in Interfaces : Waiting(j)' /\ w = Entry(j)
  BY DEF InLine, Entry
<1>2. \A j \in Interfaces : Entry(j) = Entry(i) => j = i
  BY DEF Entry
<1> QED
  BY <1>1, <1>2, LineEntries

\* Every step of the queue is one of SipFirstQueue's or leaves its view alone.
LEMMA StepImplements ==
    ASSUME IInv, [Next]_vars
    PROVE  [Queue!Next]_(Queue!vars)
<1> DEFINE Maps == Queue!Next \/ UNCHANGED Queue!vars
<1> /\ QueueTypeOK /\ ReaderTypeOK /\ ConsumerTypeOK /\ FlagsTypeOK /\ MutexHeld /\ RunsFit
  BY DEF IInv, TypeOK
<1> /\ pc \in [Interfaces -> ReaderPC] /\ len \in [Interfaces -> Nat]
    /\ ticket \in [Interfaces -> Nat] /\ queuedPackets \in 0..Capacity
    /\ stopped \in BOOLEAN
  BY DEF QueueTypeOK, ReaderTypeOK, FlagsTypeOK
<1> USE DEF MutexHeld, vars, queueVars, readerVars, consumerVars, closeVars, Goto
<1>0. LineSame /\ UNCHANGED <<nextSIP, queuedPackets, stopped>> => Maps
  BY SameLine, Stutters DEF QueueView
<1>1. ASSUME NEW i \in Interfaces, NEW n \in 1..MaxRun, MeetSIP(i, n) PROVE Maps
  BY <1>0, <1>1 DEF MeetSIP, LineSame, Waiting, Entry
<1>2. ASSUME NEW i \in Interfaces, NEW n \in 1..MaxRun, MeetRTP(i, n) PROVE Maps
  BY <1>0, <1>2 DEF MeetRTP, LineSame, Waiting, Entry
<1>3. ASSUME NEW i \in Interfaces, Return(i) PROVE Maps
  BY <1>0, <1>3 DEF Return, LineSame, Waiting, Entry
<1>4. ASSUME NEW i \in Interfaces, TurnedAway(i) PROVE Maps
  BY <1>0, <1>4 DEF TurnedAway, LineSame, Waiting, Entry
<1>5. ASSUME NEW i \in Interfaces, AnnounceSIP(i) PROVE Maps
  <2> DEFINE new == [iface |-> i, ticket |-> nextSIP, len |-> len[i]]
  <2>1. \A j \in Interfaces : /\ Waiting(j)' <=> Waiting(j) \/ j = i
                              /\ j # i => Entry(j)' = Entry(j)
    BY <1>5 DEF AnnounceSIP, Waiting, Entry
  <2>2. Entry(i)' = new /\ ~Waiting(i)
    BY <1>5 DEF AnnounceSIP, Waiting, Entry
  <2>3. InLine' = InLine \cup {new}
    <3> SUFFICES ASSUME NEW w PROVE w \in InLine' <=> w \in InLine \/ w = new
      BY DEF InLine
    <3>1. w \in InLine' <=> \E j \in Interfaces : Waiting(j)' /\ w = Entry(j)'
      BY DEF InLine
    <3> HIDE DEF new
    <3> QED
      BY <2>1, <2>2, <3>1, LineEntries
  <2>4. \A w \in InLine : w.iface # i
    BY <2>2, LineEntries DEF Entry
  <2>5. len[i] \in 1..Capacity
    BY <1>5 DEF AnnounceSIP, RunsFit
  <2>6. ~stopped /\ nextSIP' = nextSIP + 1 /\ UNCHANGED <<queuedPackets, stopped>>
    BY <1>5 DEF AnnounceSIP
  <2> QED
    BY <2>3, <2>4, <2>5, <2>6, Asks
<1>6. ASSUME NEW i \in Interfaces, QuitSIP(i) PROVE Maps
  <2>1. /\ Waiting(i) /\ ticket' = ticket /\ len' = len
        /\ \A j \in Interfaces : Waiting(j)' <=> Waiting(j) /\ j # i
    BY <1>6 DEF QuitSIP, Waiting
  <2>2. Entry(i) \in InLine /\ InLine' = InLine \ {Entry(i)}
    BY <2>1, EntryLeaves, LineEntries
  <2>3. stopped /\ UNCHANGED <<nextSIP, queuedPackets, stopped>>
    BY <1>6 DEF QuitSIP
  <2> QED
    BY <2>2, <2>3, Leaves
<1>7. ASSUME NEW i \in Interfaces, ReserveSIP(i) PROVE Maps
  <2>1. /\ Waiting(i) /\ ticket' = ticket /\ len' = len
        /\ \A j \in Interfaces : Waiting(j)' <=> Waiting(j) /\ j # i
    BY <1>7 DEF ReserveSIP, Waiting
  <2>2. Entry(i) \in InLine /\ InLine' = InLine \ {Entry(i)}
    BY <2>1, EntryLeaves, LineEntries
  <2>3. /\ ~stopped /\ HasRoom(len[i]) /\ MyTurn(i)
        /\ queuedPackets' = queuedPackets + len[i] /\ UNCHANGED <<nextSIP, stopped>>
    BY <1>7 DEF ReserveSIP
  <2>4. \A v \in InLine : Entry(i).ticket <= v.ticket
    <3>1. \A j \in Interfaces : Waiting(j) => ticket[j] \in servingSIP..(nextSIP - 1)
      BY <2>3 DEF IInv, TicketsInRange, InRange, Announced
    <3>2. \A j \in Interfaces : Waiting(j) => ticket[i] <= ticket[j]
      BY <2>3, <3>1 DEF MyTurn, QueueTypeOK
    <3> QED
      BY <3>2, LineEntries DEF Entry
  <2>5. Entry(i).len = len[i]
    BY DEF Entry
  <2>6. queuedPackets + len[i] <= Capacity
    <3>1. len[i] <= Capacity - queuedPackets
      BY <2>3 DEF HasRoom
    <3>2. len[i] \in Nat /\ queuedPackets \in Nat
      OBVIOUS
    <3> QED
      BY <3>1, <3>2
  <2> QED
    BY <2>2, <2>3, <2>4, <2>5, <2>6, Admits
<1>8. ASSUME NEW i \in Interfaces, RefuseSIP(i) PROVE Maps
  BY <1>0, <1>8 DEF RefuseSIP, LineSame, Waiting, Entry
<1>9. ASSUME NEW i \in Interfaces, Park(i) PROVE Maps
  BY <1>0, <1>9 DEF Park, LineSame, Waiting, Entry
<1>10. ASSUME NEW i \in Interfaces, Wake(i) PROVE Maps
  BY <1>0, <1>10 DEF Wake, LineSame, Waiting, Entry
<1>11. ASSUME NEW i \in Interfaces, SendSIP(i) PROVE Maps
  BY <1>0, <1>11 DEF SendSIP, LineSame, Waiting, Entry
<1>12. ASSUME NEW i \in Interfaces, FinishSIP(i) PROVE Maps
  BY <1>0, <1>12 DEF FinishSIP, LineSame, Waiting, Entry
<1>13. ASSUME NEW i \in Interfaces, RLock(i) PROVE Maps
  BY <1>0, <1>13 DEF RLock, LineSame, Waiting, Entry
<1>14. ASSUME NEW i \in Interfaces, ReserveRTP(i) PROVE Maps
  <2> DEFINE share == IF RTPAllowed THEN Share(len[i]) ELSE 0
  <2>1. share \in 0..Capacity /\ queuedPackets + share <= Capacity
    <3>1. len[i] \in Nat
      OBVIOUS
    <3>2. Share(len[i]) \in 0..Capacity /\ queuedPackets + Share(len[i]) <= Capacity
      BY <3>1, ShareFits
    <3> QED
      BY <3>2
  <2>2. LineSame /\ queuedPackets' = queuedPackets + share /\ UNCHANGED <<nextSIP, stopped>>
    BY <1>14 DEF ReserveRTP, LineSame, Waiting, Entry
  <2>3. CASE share = 0
    BY <1>0, <2>1, <2>2, <2>3
  <2>4. CASE share # 0
    <3>1. pendingSIP = 0
      BY <2>4 DEF RTPAllowed
    <3>2. \A j \in Interfaces : ~Waiting(j)
      BY <3>1, NobodyInLine DEF IInv, Line, Announced
    <3>3. InLine = {}
      BY <3>2, LineEntries
    <3>4. ~stopped
      BY <1>14 DEF IInv, StoppedQuietly, ReserveRTP
    <3>5. share \in 1..Capacity
      BY <2>1, <2>4
    <3> HIDE DEF share
    <3> QED
      BY <2>1, <2>2, <3>3, <3>4, <3>5, SameLine, AdmitsRTP
  <2> QED
    BY <2>3, <2>4
<1>15. ASSUME NEW i \in Interfaces, SendRTP(i) PROVE Maps
  BY <1>0, <1>15 DEF SendRTP, LineSame, Waiting, Entry
<1>16. OtherStep => LineSame /\ nextSIP' = nextSIP
  BY OthersLeaveReaders DEF LineSame, Waiting, Entry
<1>17. ASSUME Poll PROVE Maps
  BY <1>0, <1>16, <1>17 DEF Poll, OtherStep, Consumer
<1>18. ASSUME StartDraining PROVE Maps
  BY <1>0, <1>16, <1>18 DEF StartDraining, OtherStep, Consumer
<1>19. ASSUME TakeRun PROVE Maps
  BY <1>0, <1>16, <1>19 DEF TakeRun, OtherStep, Consumer
<1>20. ASSUME DrainRun PROVE Maps
  BY <1>0, <1>16, <1>20 DEF DrainRun, OtherStep, Consumer
<1>21. ASSUME DrainedEmpty PROVE Maps
  BY <1>0, <1>16, <1>21 DEF DrainedEmpty, OtherStep, Consumer
<1>22. ASSUME DequeueFrame PROVE Maps
  BY <1>0, <1>16, <1>22 DEF DequeueFrame, OtherStep, Consumer
<1>23. ASSUME FinishRun PROVE Maps
  BY <1>0, <1>16, <1>23 DEF FinishRun, OtherStep, Consumer
<1>24. ASSUME Subtract PROVE Maps
  <2>1. queuedPackets - amount \in 0..Capacity /\ amount \in 0..Capacity
    BY CountedBounds DEF IInv, ConsumerTypeOK
  <2>2. /\ LineSame /\ queuedPackets' = queuedPackets - amount
        /\ UNCHANGED <<nextSIP, stopped>>
    BY <1>24, <1>16 DEF Subtract, OtherStep, Consumer
  <2>3. CASE amount = 0
    BY <1>0, <2>2, <2>3
  <2>4. CASE amount # 0
    BY <2>1, <2>2, <2>4, SameLine, Releases
  <2> QED
    BY <2>3, <2>4
<1>25. ASSUME CheckPending PROVE Maps
  BY <1>0, <1>16, <1>25 DEF CheckPending, OtherStep, Consumer
<1>26. ASSUME SignalPending PROVE Maps
  BY <1>0, <1>16, <1>26 DEF SignalPending, OtherStep, Consumer
<1>27. ASSUME BeginClose PROVE Maps
  BY <1>0, <1>16, <1>27 DEF BeginClose, OtherStep
<1>28. ASSUME StopQueue PROVE Maps
  <2>1. LineSame /\ stopped' /\ UNCHANGED <<nextSIP, queuedPackets>>
    BY <1>28, <1>16 DEF StopQueue, OtherStep, Close
  <2>2. stopped' \in BOOLEAN
    BY <1>28 DEF StopQueue
  <2> QED
    BY <1>0, <2>1, <2>2, SameLine, Shuts
<1>29. ASSUME CloseDone PROVE Maps
  BY <1>0, <1>16, <1>29 DEF CloseDone, OtherStep, Close
<1>30. ASSUME Waited PROVE Maps
  BY <1>0, <1>16, <1>30 DEF Waited, OtherStep, Close
<1>31. ASSUME UNCHANGED vars PROVE Maps
  BY <1>0, <1>31 DEF LineSame, Waiting, Entry
<1> QED
  BY NextSplit, <1>1, <1>2, <1>3, <1>4, <1>5, <1>6, <1>7, <1>8, <1>9, <1>10, <1>11, <1>12, <1>13, <1>14, <1>15, <1>17, <1>18, <1>19, <1>20, <1>21, <1>22, <1>23, <1>24, <1>25, <1>26, <1>27, <1>28, <1>29, <1>30, <1>31 DEF
     ReaderStep, OtherStep, Consumer, Close

\* packetBatchQueue does what SipFirstQueue promises: at most Capacity packets, SIP
\* runs admitted whole and in the order of arrival, RTP only while none waits, although
\* enqueueRun, release and stop do it in pieces that other threads interleave with.
THEOREM ImplementsQueue == Spec => ImplementsSipFirstQueue
<1>1. Init => Queue!Init
  BY DEF Init, Queue!Init, Waiting
<1>2. IInv /\ [Next]_vars => [Queue!Next]_(Queue!vars)
  BY StepImplements
<1> QED
  BY <1>1, <1>2, Invariance, PTL DEF Spec, ImplementsSipFirstQueue, Queue!Spec

-----------------------------------------------------------------------------
(* The sums, as folds.                                                     *)

LEMMA LeastOf ==
    ASSUME NEW T, T \subseteq Nat, T # {}
    PROVE  \E n \in T : \A m \in T : n <= m
<1>1. PICK n \in T : \A m \in T : ~(<<m, n>> \in OpToRel(<, Nat))
    BY NatLessThanWellFounded, WFMin
<1>2. \A m \in T : m < n => <<m, n>> \in OpToRel(<, Nat)  BY Zenon DEF OpToRel
<1>3. \A m \in T : ~(m < n)  BY <1>1, <1>2, Zenon
<1> QED BY <1>3

\* The equation of a sum that takes an element after the other.
SumStep(S, w, f) ==
    [s \in SUBSET S |-> IF s = {} THEN 0
                       ELSE LET x == CHOOSE x \in s : TRUE IN w[x] + f[s \ {x}]]

\* Over a finite set, one function satisfies it.
Sums(S, w, g) ==
    /\ g \in [SUBSET S -> Nat] /\ g[{}] = 0
    /\ \A s \in SUBSET S : \A x \in s : g[s] = w[x] + g[s \ {x}]

LEMMA SumIs ==
    ASSUME NEW S, IsFiniteSet(S), NEW w \in [S -> Nat], NEW g, Sums(S, w, g)
    PROVE  \A f : f = SumStep(S, w, f) <=> f = g
<1>0. /\ g \in [SUBSET S -> Nat] /\ g[{}] = 0
      /\ \A s \in SUBSET S : \A x \in s : g[s] = w[x] + g[s \ {x}]
  BY DEF Sums
<1> SUFFICES ASSUME NEW f PROVE f = SumStep(S, w, f) <=> f = g
    OBVIOUS
<1>1. ASSUME f = g PROVE f = SumStep(S, w, f)
    <2>1. ASSUME NEW s \in SUBSET S
          PROVE  f[s] = IF s = {} THEN 0
                        ELSE LET x == CHOOSE x \in s : TRUE IN w[x] + f[s \ {x}]
        <3>1. CASE s = {}  BY <1>0, <1>1, <3>1
        <3>2. CASE s # {}
            <4>1. (CHOOSE x \in s : TRUE) \in s  BY <3>2
            <4> QED BY <1>0, <1>1, <3>2, <4>1
        <3> QED BY <3>1, <3>2
    <2> QED BY <1>0, <1>1, <2>1 DEF SumStep
<1>2. ASSUME f = SumStep(S, w, f) PROVE f = g
    <2> DEFINE Bad == {Cardinality(s) : s \in {t \in SUBSET S : f[t] # g[t]}}
    <2>1. \A s \in SUBSET S : IsFiniteSet(s) /\ Cardinality(s) \in Nat
        BY FS_Subset, FS_CardinalityType
    <2>2. Bad = {}
        <3> SUFFICES ASSUME Bad # {} PROVE FALSE
            OBVIOUS
        <3>1. PICK n \in Bad : \A m \in Bad : n <= m
            <4>1. Bad \subseteq Nat  BY <2>1
            <4> HIDE DEF Bad
            <4> QED BY <4>1, LeastOf
        <3>2. PICK s \in SUBSET S : f[s] # g[s] /\ Cardinality(s) = n  BY <3>1
        <3>3. s # {}  BY <1>0, <1>2, <3>2 DEF SumStep
        <3>4. PICK x \in s : f[s] = w[x] + f[s \ {x}]
            <4>1. (CHOOSE x \in s : TRUE) \in s  BY <3>3
            <4>2. f[s] = w[CHOOSE x \in s : TRUE] + f[s \ {CHOOSE x \in s : TRUE}]
                BY <1>2, <3>3 DEF SumStep
            <4> QED BY <4>1, <4>2
        <3>5. Cardinality(s \ {x}) = n - 1 /\ n \in Nat
            BY <2>1, <3>2, FS_RemoveElement
        <3>6. f[s \ {x}] = g[s \ {x}]
            <4>1. ASSUME f[s \ {x}] # g[s \ {x}] PROVE FALSE
                <5>1. Cardinality(s \ {x}) \in Bad  BY <4>1
                <5>2. n <= n - 1  BY <3>1, <3>5, <5>1
                <5> QED BY <3>5, <5>2
            <4> QED BY <4>1
        <3> QED BY <1>0, <3>2, <3>4, <3>6
    <2>3. \A s \in SUBSET S : f[s] = g[s]  BY <2>2
    <2>4. f = [s \in SUBSET S |-> f[s]]  BY <1>2 DEF SumStep
    <2> QED BY <1>0, <2>3, <2>4
<1> QED BY <1>0, <1>1, <1>2

\* Bounded weights have a sum over every subset: the number of their units.
LEMMA SumExists ==
    ASSUME NEW S, IsFiniteSet(S), NEW w \in [S -> Nat], NEW m \in Nat,
           \A x \in S : w[x] <= m
    PROVE  \E g : Sums(S, w, g)
<1> DEFINE U == {d \in S \X (1..m) : d[2] <= w[d[1]]}
           D(s) == {d \in U : d[1] \in s}
           g == [s \in SUBSET S |-> Cardinality(D(s))]
<1>1. IsFiniteSet(U)
  <2>1. IsFiniteSet(S \X (1..m))
    <3>1. IsFiniteSet(1..m)
      BY FS_Interval
    <3> QED
      BY <3>1, FS_Product
  <2>2. U \in SUBSET (S \X (1..m))
    OBVIOUS
  <2> HIDE DEF U
  <2> QED
    BY <2>1, <2>2, FS_Subset
<1>2. \A s : IsFiniteSet(D(s)) /\ Cardinality(D(s)) \in Nat
  <2> HIDE DEF U
  <2> QED
    BY <1>1, FS_Subset, FS_CardinalityType
<1>3. g \in [SUBSET S -> Nat]
  BY <1>2
<1>4. g[{}] = 0
  <2>1. D({}) = {}
    OBVIOUS
  <2> QED
    BY <2>1, FS_EmptySet
<1>5. ASSUME NEW s \in SUBSET S, NEW x \in s PROVE g[s] = w[x] + g[s \ {x}]
  <2> DEFINE one == {d \in U : d[1] = x}
             others == D(s \ {x})
             f == [i \in 1..w[x] |-> <<x, i>>]
  <2>1. w[x] \in Nat /\ x \in S /\ w[x] <= m
    OBVIOUS
  <2>2. D(s) = one \cup others /\ one \cap others = {}
    OBVIOUS
  <2>3. f \in Bijection(1..w[x], one)
    <3>1. f \in [1..w[x] -> one]
      BY <2>1
    <3>2. ASSUME NEW d \in one PROVE \E i \in 1..w[x] : f[i] = d
      <4>1. d \in S \X (1..m) /\ d[1] = x /\ d[2] <= w[x]
        OBVIOUS
      <4>2. d = <<x, d[2]>> /\ d[2] \in 1..w[x]
        BY <2>1, <4>1
      <4> QED
        BY <4>2
    <3>3. \A i, j \in 1..w[x] : f[i] = f[j] => i = j
      OBVIOUS
    <3> QED
      BY <3>1, <3>2, <3>3 DEF Bijection, Injection, Surjection, IsInjective
  <2>4. IsFiniteSet(one) /\ Cardinality(one) = w[x]
    <3>1. ExistsBijection(1..w[x], one)
      BY <2>3 DEF ExistsBijection
    <3> HIDE DEF one
    <3> QED
      BY <2>1, <3>1, FS_CountingElements, FS_NatBijection
  <2>5. IsFiniteSet(others) /\ Cardinality(others) \in Nat
    BY <1>2
  <2>6. g[s] = Cardinality(one \cup others) /\ g[s \ {x}] = Cardinality(others)
    BY <2>2
  <2> HIDE DEF one, others, g
  <2>7. Cardinality(one \cap others) = 0
    BY <2>2, FS_EmptySet, Zenon
  <2>8. Cardinality(one \cup others)
           = Cardinality(one) + Cardinality(others) - Cardinality(one \cap others)
    BY <2>4, <2>5, FS_Union
  <2> QED
    BY <2>1, <2>4, <2>5, <2>6, <2>7, <2>8
<1> HIDE DEF g
<1> QED
  BY <1>3, <1>4, <1>5 DEF Sums

\* The equations of the two sums.
ReservedStep(f) ==
    [s \in SUBSET Interfaces |->
        IF s = {} THEN 0 ELSE LET x == CHOOSE i \in s : TRUE IN Reserved(x) + f[s \ {x}]]
ChannelStep(f) ==
    [s \in SUBSET DOMAIN runs |->
        IF s = {} THEN 0 ELSE LET x == CHOOSE k \in s : TRUE IN runs[x].len + f[s \ {x}]]

\* The packets reserved are the sum of the witness.
LEMMA ReservedIs ==
    ASSUME TypeOK, NEW f, IsSum(f, Reservations)
    PROVE  PacketsReserved = f[Interfaces]
<1>1. PICK v \in [Interfaces -> Nat] : v = Reservations
  BY ReservationsType
<1>2. f \in [SUBSET Interfaces -> Nat] /\ f[{}] = 0
  BY DEF IsSum
<1>3. \A s \in SUBSET Interfaces : \A x \in s : f[s] = v[x] + f[s \ {x}]
  <2> SUFFICES ASSUME NEW s \in SUBSET Interfaces, NEW x \in s
               PROVE  f[s] = v[x] + f[s \ {x}]
    OBVIOUS
  <2>1. f[s] = f[s \ {x}] + v[x]
    BY <1>1, SumBound
  <2>2. f[s \ {x}] \in Nat /\ v[x] \in Nat
    BY <1>2
  <2> QED
    BY <2>1, <2>2
<1>4. \A h : h = SumStep(Interfaces, v, h) <=> h = f
  BY <1>2, <1>3, SumIs DEF Sums
<1>5. ASSUME NEW h PROVE SumStep(Interfaces, v, h) = ReservedStep(h)
  <2>1. \A x \in Interfaces : v[x] = Reserved(x)
    BY <1>1 DEF Reservations
  <2>2. \A s \in SUBSET Interfaces : s # {} => (CHOOSE i \in s : TRUE) \in Interfaces
    OBVIOUS
  <2> QED
    BY <2>1, <2>2 DEF SumStep, ReservedStep
<1>6. \A h : h = ReservedStep(h) <=> h = f
  BY <1>4, <1>5
<1>7. PacketsReserved = (CHOOSE h : h = ReservedStep(h))[Interfaces]
  BY DEF ReservedStep, PacketsReserved, MapThenFoldSet
<1> QED
  BY <1>6, <1>7

\* The packets in the channel are the length of the witness.
LEMMA InChannelIs ==
    ASSUME TypeOK, NEW g, IsLength(g, runs)
    PROVE  PacketsInChannel = g[1]
<1> DEFINE S == DOMAIN runs
           L == Len(runs)
<1>1. runs \in Seq(Run) /\ L \in Nat /\ S = 1..L
  BY LenProperties DEF TypeOK, QueueTypeOK
<1>2. \A k \in 1..L : runs[k].len \in 1..Capacity
  <2>1. \A k \in 1..L : runs[k] \in Run
    BY <1>1
  <2> QED
    BY <2>1 DEF Run
<1>3. PICK w \in [S -> Nat] : \A k \in S : w[k] = runs[k].len /\ w[k] <= Capacity
  <2>1. PICK w : w = [k \in S |-> runs[k].len]
    OBVIOUS
  <2>2. \A k \in S : w[k] = runs[k].len
    BY <2>1
  <2>3. \A k \in S : w[k] \in Nat /\ w[k] <= Capacity
    BY <1>1, <1>2, <2>2
  <2>4. w \in [S -> Nat]
    BY <2>1, <2>3
  <2> QED
    BY <2>2, <2>3, <2>4
<1>4. IsFiniteSet(S)
  BY <1>1, FS_Interval
<1> HIDE DEF S, L
<1>5. PICK f : Sums(S, w, f)
  <2>1. Capacity \in Nat /\ \A x \in S : w[x] <= Capacity
    BY <1>3
  <2> QED
    BY <1>4, <2>1, SumExists
<1>6. \A h : h = SumStep(S, w, h) <=> h = f
  BY <1>4, <1>5, SumIs
<1>7. ASSUME NEW h PROVE SumStep(S, w, h) = ChannelStep(h)
  <2>1. \A x \in S : w[x] = runs[x].len
    BY <1>3
  <2>2. \A s \in SUBSET S : s # {} => (CHOOSE k \in s : TRUE) \in S
    OBVIOUS
  <2> QED
    BY <2>1, <2>2 DEF SumStep, ChannelStep, S
<1>8. \A h : h = ChannelStep(h) <=> h = f
  BY <1>6, <1>7
<1>9. PacketsInChannel = f[S]
  BY <1>8 DEF ChannelStep, PacketsInChannel, MapThenFoldSet, S
<1>10. f[S] = g[1]
  <2> DEFINE Bad == {n \in 0..L : f[(L + 1 - n)..L] # g[L + 1 - n]}
  <2>1. Bad = {}
    <3> SUFFICES ASSUME Bad # {} PROVE FALSE
      OBVIOUS
    <3>1. PICK n \in Bad : \A m \in Bad : n <= m
      <4>1. Bad \subseteq Nat
        BY <1>1
      <4> HIDE DEF Bad
      <4> QED
        BY <4>1, LeastOf
    <3>2. n \in 0..L /\ f[(L + 1 - n)..L] # g[L + 1 - n]
      BY <3>1
    <3>3. n # 0
      <4>1. ASSUME n = 0 PROVE FALSE
        <5>1. L + 1 - n = L + 1 /\ (L + 1)..L = {}
          BY <1>1, <4>1
        <5>2. g[L + 1] = 0
          BY DEF IsLength, L
        <5> QED
          BY <1>5, <3>2, <5>1, <5>2 DEF Sums
      <4> QED
        BY <4>1
    <3>4. PICK k \in 1..L : k = L + 1 - n
      BY <1>1, <3>2, <3>3
    <3>5. k..L \in SUBSET S /\ k \in k..L /\ (k..L) \ {k} = (k + 1)..L
      BY <1>1, <3>4
    <3>6. f[k..L] = w[k] + f[(k + 1)..L]
      <4>1. f[k..L] = w[k] + f[(k..L) \ {k}]
        <5>1. PICK s \in SUBSET S : s = k..L
          BY <3>5
        <5>2. f[s] = w[k] + f[s \ {k}]
          BY <1>5, <3>5, <5>1 DEF Sums
        <5> QED
          BY <5>1, <5>2
      <4> QED
        BY <3>5, <4>1
    <3>7. f[(k + 1)..L] = g[k + 1]
      <4>1. n - 1 \in 0..L /\ L + 1 - (n - 1) = k + 1
        BY <1>1, <3>2, <3>3, <3>4
      <4>2. n - 1 \notin Bad
        BY <3>1, <3>2
      <4> QED
        BY <4>1, <4>2
    <3>8. g[k] = w[k] + g[k + 1]
      BY <1>1, <1>3, <3>4 DEF IsLength, L
    <3> QED
      BY <3>2, <3>4, <3>6, <3>7, <3>8
  <2>2. L \in 0..L /\ L + 1 - L = 1
    BY <1>1
  <2>3. f[1..L] = g[1]
    BY <2>1, <2>2
  <2> QED
    BY <1>1, <2>3
<1> QED
  BY <1>9, <1>10

\* queuedPackets counts every packet once, whatever the interleaving of the lock-free
\* reserve, reserveAll and release with the sends and the receipts.
THEOREM EveryPacketCounted == Spec => []AccountingExact
<1>1. IInv => AccountingExact
  <2> SUFFICES ASSUME IInv PROVE AccountingExact
    OBVIOUS
  <2>1. PICK f, g : /\ IsSum(f, Reservations) /\ IsLength(g, runs)
                    /\ queuedPackets = f[Interfaces] + g[1] + remaining + amount
    BY DEF IInv, Accounted
  <2>2. PacketsReserved = f[Interfaces]
    BY <2>1, ReservedIs DEF IInv
  <2>3. PacketsInChannel = g[1]
    BY <2>1, InChannelIs DEF IInv
  <2> QED
    BY <2>1, <2>2, <2>3 DEF AccountingExact
<1> QED
  BY <1>1, Invariance, PTL
=============================================================================
