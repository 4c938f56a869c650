------------------------ MODULE RegistrationsProofs ------------------------
(***************************************************************************)
(* Theorems about Registrations, for any finite set of users, any sources  *)
(* and any thresholds.                                                     *)
(***************************************************************************)
EXTENDS Registrations, FiniteSetTheorems, SequenceTheorems, NaturalsInduction,
        WellFoundedInduction, TLAPS

\* The exchange.
Pending == {u \in Users : Tracked(u)}
ExchangeOK ==
    /\ requests \in [Users -> Homes \cup {Nobody}]
    /\ measured \in Nat /\ registers \in Nat
ExchangeInv == ExchangeOK /\ MeasuredOnce

\* The gauges: what is not among the keys of the last pass shows zero.
GaugeOK ==
    /\ counted \in [Sources -> Nat] /\ gauge \in [Sources -> Nat]
    /\ tpc \in {"wait", "count", "set"}
GaugeInv ==
    /\ GaugeOK /\ GaugeExact
    /\ \A s \in Sources : s \notin prevKeys => gauge[s] = 0

\* The windows: the detector keeps no entry younger than the registration, and all of
\* them at a source that never had as many as it may have.
ScanOK ==
    /\ scans \in [Sources -> [Users -> 0..Long]]
    /\ seen \in [Sources -> [Users -> 0..Long]]
ScanInv ==
    /\ ScanOK /\ ScansExact
    /\ \A s \in Sources, u \in Users : seen[s][u] <= scans[s][u]
    /\ \A s \in Sources \ full :
         scans[s] = seen[s] /\ Cardinality(Fresh(scans[s])) < MaxEntries

-----------------------------------------------------------------------------
(* The exchange.                                                           *)

LEMMA OriginIsSource ==
  ASSUME ExchangeOK, NEW u \in Users
  PROVE  Origin(u) \in Sources
BY DEF ExchangeOK, Origin, Sources

LEMMA PendingFinite == IsFiniteSet(Pending) /\ Cardinality(Pending) \in Nat
BY UserAssumption, FS_Subset, FS_CardinalityType DEF Pending

LEMMA InitExchange == Init => ExchangeInv
<1> SUFFICES ASSUME Init PROVE ExchangeInv
  OBVIOUS
<1>1. ExchangeOK
  BY DEF Init, ExchangeOK
<1>2. Pending = {}
  BY DEF Init, Pending, Tracked
<1>3. Cardinality(Pending) = 0 /\ measured = 0 /\ registers = 0
  BY <1>2, FS_EmptySet DEF Init
<1>4. measured + Cardinality(Pending) <= registers
  BY <1>3
<1> QED
  BY <1>1, <1>4 DEF ExchangeInv, MeasuredOnce, Pending

\* A REGISTER waits for its answer, ...
LEMMA RequestExchange ==
  ASSUME ExchangeInv, NEW u \in Users, NEW s \in Homes, Request(u, s)
  PROVE  ExchangeInv'
<1>1. ExchangeOK'
  BY DEF ExchangeInv, ExchangeOK, Request
<1>2. Pending' \subseteq Pending \cup {u}
  BY DEF Pending, Tracked, ExchangeInv, ExchangeOK, Request
<1>3. /\ IsFiniteSet(Pending \cup {u})
      /\ Cardinality(Pending \cup {u}) \in Nat
      /\ Cardinality(Pending \cup {u}) <= Cardinality(Pending) + 1
  <2>1. /\ IsFiniteSet(Pending \cup {u})
        /\ Cardinality(Pending \cup {u}) =
             IF u \in Pending THEN Cardinality(Pending) ELSE Cardinality(Pending) + 1
    BY PendingFinite, FS_AddElement
  <2> QED
    BY <2>1, PendingFinite
<1>4. Cardinality(Pending') <= Cardinality(Pending \cup {u}) /\ Cardinality(Pending') \in Nat
  BY <1>2, <1>3, FS_Subset, FS_CardinalityType
<1>5. measured' = measured /\ registers' = registers + 1
  BY DEF Request
<1>6. measured + Cardinality(Pending) <= registers
  BY DEF ExchangeInv, MeasuredOnce, Pending
<1>7. measured' + Cardinality(Pending') <= registers'
  BY <1>3, <1>4, <1>5, <1>6, PendingFinite DEF ExchangeInv, ExchangeOK
<1> QED
  BY <1>1, <1>7 DEF ExchangeInv, MeasuredOnce, Pending

\* ... is measured with its first answer, ...
LEMMA MeasureExchange ==
  ASSUME ExchangeInv, NEW u \in Users, MeasureOnce(u), UNCHANGED registers
  PROVE  ExchangeInv'
<1>1. ExchangeOK'
  BY DEF ExchangeInv, ExchangeOK, MeasureOnce, Measure
<1>2. Pending' = Pending \ {u}
  BY DEF Pending, Tracked, ExchangeInv, ExchangeOK, MeasureOnce
<1>3. measured + Cardinality(Pending) <= registers
  BY DEF ExchangeInv, MeasuredOnce, Pending
<1>4. CASE u \in Pending
  <2>1. Cardinality(Pending') = Cardinality(Pending) - 1
    BY <1>2, <1>4, PendingFinite, FS_RemoveElement
  <2>2. measured' = measured + 1
    BY <1>4 DEF MeasureOnce, Measure, Pending
  <2>3. measured' + Cardinality(Pending') <= registers'
    BY <1>3, <2>1, <2>2, PendingFinite DEF ExchangeInv, ExchangeOK
  <2> QED
    BY <1>1, <2>3 DEF ExchangeInv, MeasuredOnce, Pending
<1>5. CASE u \notin Pending
  <2>1. Pending' = Pending /\ measured' = measured
    BY <1>2, <1>5 DEF MeasureOnce, Measure, Pending
  <2>2. measured' + Cardinality(Pending') <= registers'
    BY <1>3, <2>1
  <2> QED
    BY <1>1, <2>2 DEF ExchangeInv, MeasuredOnce, Pending
<1> QED
  BY <1>4, <1>5

\* ... or is given up.
LEMMA ForgetExchange ==
  ASSUME ExchangeInv, NEW old \in SUBSET Users, UNCHANGED <<measured, registers>>,
         requests' = [u \in Users |-> IF u \in old THEN Nobody ELSE requests[u]]
  PROVE  ExchangeInv'
<1>1. ExchangeOK'
  BY DEF ExchangeInv, ExchangeOK
<1>2. Pending' \subseteq Pending
  BY DEF Pending, Tracked
<1>3. Cardinality(Pending') <= Cardinality(Pending) /\ Cardinality(Pending') \in Nat
  BY <1>2, PendingFinite, FS_Subset, FS_CardinalityType
<1>4. measured + Cardinality(Pending) <= registers
  BY DEF ExchangeInv, MeasuredOnce, Pending
<1>5. measured' + Cardinality(Pending') <= registers'
  BY <1>3, <1>4, PendingFinite DEF ExchangeInv, ExchangeOK
<1> QED
  BY <1>1, <1>5 DEF ExchangeInv, MeasuredOnce, Pending

LEMMA NextExchange ==
  ASSUME ExchangeInv, [Next]_vars
  PROVE  ExchangeInv'
<1>1. ASSUME NEW u \in Users, NEW s \in Homes, Request(u, s)
      PROVE  ExchangeInv'
  BY <1>1, RequestExchange
<1>2. ASSUME NEW u \in Users, NEW expires \in {0, Lifetime},
             Accepted(u, expires) \/ Redirected(u)
      PROVE  ExchangeInv'
  <2>1. MeasureOnce(u) /\ UNCHANGED registers
    BY <1>2 DEF Accepted, Redirected, history
  <2> QED
    BY <2>1, MeasureExchange
<1>3. ASSUME NEW u \in Users, Refused(u)
      PROVE  ExchangeInv'
  <2>1. requests' = [v \in Users |-> IF v \in {u} THEN Nobody ELSE requests[v]]
    BY <1>3 DEF Refused, ExchangeInv, ExchangeOK
  <2>2. {u} \in SUBSET Users /\ UNCHANGED <<measured, registers>>
    BY <1>3 DEF Refused, history
  <2> QED
    BY <2>1, <2>2, ForgetExchange
<1>4. ASSUME NEW old \in SUBSET Users, Clean(old)
      PROVE  ExchangeInv'
  BY <1>4, ForgetExchange DEF Clean, history
<1>5. ASSUME UNCHANGED <<requests, measured, registers>>
      PROVE  ExchangeInv'
  BY <1>5 DEF ExchangeInv, ExchangeOK, MeasuredOnce, Tracked
<1>6. CASE (\E s \in Homes : Invite(s)) \/ Count \/ SetGauge \/ Tick \/ UNCHANGED vars
  BY <1>5, <1>6 DEF Invite, Count, SetGauge, Tick, exchange, history, vars
<1> QED
  BY <1>1, <1>2, <1>3, <1>4, <1>6 DEF Next, Pass

\* A delay is measured once for a REGISTER (exporter.go removeRegisterTime).
THEOREM MeasuresOnce == Spec => []MeasuredOnce
<1>1. Init => ExchangeInv
  BY InitExchange
<1>2. ExchangeInv /\ [Next]_vars => ExchangeInv'
  BY NextExchange
<1>3. ExchangeInv => MeasuredOnce
  BY DEF ExchangeInv
<1> QED
  BY <1>1, <1>2, <1>3, PTL DEF Spec

-----------------------------------------------------------------------------
(* The gauges.                                                             *)

LEMMA InitGauge == Init => GaugeInv
BY DEF Init, GaugeInv, GaugeOK, GaugeExact

LEMMA CountedIsNat ==
  ASSUME NEW s \in Sources
  PROVE  Cardinality({u \in Users : registrations[u] # None /\ registrations[u].source = s})
           \in Nat
BY UserAssumption, FS_Subset, FS_CardinalityType

LEMMA NextGauge ==
  ASSUME GaugeInv, [Next]_vars
  PROVE  GaugeInv'
<1>1. ASSUME NEW old \in SUBSET Users, Clean(old)
      PROVE  GaugeInv'
  BY <1>1 DEF Clean, GaugeInv, GaugeOK, GaugeExact
<1>2. CASE Count
  <2>1. counted' \in [Sources -> Nat]
    BY <1>2, CountedIsNat DEF Count
  <2> QED
    BY <1>2, <2>1 DEF Count, GaugeInv, GaugeOK, GaugeExact
<1>3. CASE SetGauge
  <2>1. /\ gauge' = [s \in Sources |-> IF s \in CurrentKeys THEN counted[s]
                                       ELSE IF s \in prevKeys THEN 0 ELSE gauge[s]]
        /\ prevKeys' = CurrentKeys /\ counted' = counted /\ tpc' = "wait"
    BY <1>3 DEF SetGauge, Gauged
  <2>2. ASSUME NEW s \in Sources
        PROVE  gauge'[s] = counted[s] /\ (s \notin CurrentKeys => gauge'[s] = 0)
    <3>1. counted[s] \in Nat
      BY DEF GaugeInv, GaugeOK
    <3>2. CASE s \in CurrentKeys
      BY <2>1, <3>2
    <3>3. CASE s \notin CurrentKeys
      <4>1. counted[s] = 0
        BY <3>1, <3>3 DEF CurrentKeys
      <4>2. gauge'[s] = 0
        BY <2>1, <3>3 DEF GaugeInv
      <4> QED
        BY <4>1, <4>2
    <3> QED
      BY <3>2, <3>3
  <2>3. gauge' \in [Sources -> Nat] /\ gauge' = counted'
    BY <2>1, <2>2 DEF GaugeInv, GaugeOK
  <2>4. \A s \in Sources : s \notin prevKeys' => gauge'[s] = 0
    BY <2>1, <2>2
  <2> QED
    BY <2>1, <2>3, <2>4 DEF GaugeInv, GaugeOK, GaugeExact
<1>4. ASSUME UNCHANGED ticker
      PROVE  GaugeInv'
  BY <1>4 DEF ticker, GaugeInv, GaugeOK, GaugeExact
<1>5. CASE \E u \in Users : \/ \E s \in Homes : Request(u, s)
                            \/ \E expires \in {0, Lifetime} : Accepted(u, expires)
                            \/ Redirected(u) \/ Refused(u)
  BY <1>4, <1>5 DEF Request, Accepted, Redirected, Refused
<1>6. CASE (\E s \in Homes : Invite(s)) \/ Tick \/ UNCHANGED vars
  BY <1>4, <1>6 DEF Invite, Tick, vars
<1> QED
  BY <1>1, <1>2, <1>3, <1>5, <1>6 DEF Next, Pass

\* After a pass the gauges show what was counted: none keeps an old number
\* (metrics.go setGaugeFromCounts).
THEOREM GaugesAreExact == Spec => []GaugeExact
<1>1. Init => GaugeInv
  BY InitGauge
<1>2. GaugeInv /\ [Next]_vars => GaugeInv'
  BY NextGauge
<1>3. GaugeInv => GaugeExact
  BY DEF GaugeInv
<1> QED
  BY <1>1, <1>2, <1>3, PTL DEF Spec

-----------------------------------------------------------------------------
(* The scan windows.                                                       *)

LEMMA Sizes == Window \in Nat /\ Long \in Nat /\ Window < Long /\ 0 \in 0..Long
BY TimeAssumption DEF Long

LEMMA FreshFinite ==
  ASSUME NEW ages
  PROVE  IsFiniteSet(Fresh(ages)) /\ Cardinality(Fresh(ages)) \in Nat
BY UserAssumption, FS_Subset, FS_CardinalityType DEF Fresh

\* Older entries are fresh no more often than younger ones.
LEMMA FreshFewer ==
  ASSUME NEW younger \in [Users -> 0..Long], NEW older \in [Users -> 0..Long],
         \A u \in Users : younger[u] <= older[u]
  PROVE  Cardinality(Fresh(older)) <= Cardinality(Fresh(younger))
<1>1. Fresh(older) \subseteq Fresh(younger)
  BY Sizes DEF Fresh
<1> QED
  BY <1>1, FreshFinite, FS_Subset

LEMMA InitScan == Init => ScanInv
<1> SUFFICES ASSUME Init PROVE ScanInv
  OBVIOUS
<1>1. ScanOK /\ seen = scans /\ full = {} /\ scanAlert = Quiet
  BY Sizes DEF Init, ScanOK
<1>2. ASSUME NEW s \in Sources
      PROVE  /\ \A u \in Users : seen[s][u] <= scans[s][u]
             /\ Cardinality(Fresh(scans[s])) < MaxEntries
  <2>1. scans[s] = [u \in Users |-> Long]
    BY DEF Init
  <2>2. Fresh(scans[s]) = {}
    BY <2>1, Sizes DEF Fresh
  <2>3. Cardinality(Fresh(scans[s])) = 0
    BY <2>2, FS_EmptySet
  <2> QED
    BY <1>1, <2>1, <2>3, Sizes, SizeAssumption
<1> QED
  BY <1>1, <1>2 DEF ScanInv, ScansExact, Quiet

LEMMA ScanScan ==
  ASSUME ScanInv, NEW u \in Users, NEW s \in Sources, Scan(u, s)
  PROVE  ScanInv'
<1> DEFINE old == scans[s]
           new == Recorded(old, u)
           told == [seen[s] EXCEPT ![u] = 0]
<1>1. /\ old \in [Users -> 0..Long] /\ seen[s] \in [Users -> 0..Long]
      /\ \A v \in Users : seen[s][v] <= old[v]
  BY DEF ScanInv, ScanOK
<1>2. new = old \/ new = [old EXCEPT ![u] = 0]
  BY DEF Recorded
<1>3. /\ new \in [Users -> 0..Long] /\ told \in [Users -> 0..Long]
      /\ \A v \in Users : told[v] <= new[v]
  BY <1>1, <1>2, Sizes
<1>4. s \notin full => new = told
  BY DEF ScanInv, Recorded
<1>5. /\ scans' = [scans EXCEPT ![s] = new] /\ seen' = [seen EXCEPT ![s] = told]
      /\ scans'[s] = new /\ seen'[s] = told
  BY DEF Scan, ScanInv, ScanOK
<1> HIDE DEF old, new, told
<1>6. /\ full' = IF Cardinality(Fresh(new)) >= MaxEntries THEN full \cup {s} ELSE full
      /\ scanAlert' = [raised |-> Cardinality(Fresh(new)) >= ScanThreshold,
                       due    |-> Cardinality(Fresh(told)) >= ScanThreshold,
                       known  |-> \/ s \notin full
                                  \/ /\ Cardinality(Fresh(new)) >= MaxEntries
                                     /\ ScanThreshold <= MaxEntries]
  BY <1>5 DEF Scan, AtBound
<1>7. /\ Cardinality(Fresh(new)) <= Cardinality(Fresh(told))
      /\ Cardinality(Fresh(new)) \in Nat /\ Cardinality(Fresh(told)) \in Nat
  BY <1>3, FreshFewer, FreshFinite
<1>8. ScanOK'
  BY <1>3, <1>5 DEF ScanInv, ScanOK
<1>9. ScansExact'
  <2>1. /\ scanAlert'.raised <=> Cardinality(Fresh(new)) >= ScanThreshold
        /\ scanAlert'.due <=> Cardinality(Fresh(told)) >= ScanThreshold
        /\ scanAlert'.known <=> \/ s \notin full
                                \/ /\ Cardinality(Fresh(new)) >= MaxEntries
                                   /\ ScanThreshold <= MaxEntries
    BY <1>6
  <2>2. ScanThreshold \in Nat /\ MaxEntries \in Nat
    BY SizeAssumption
  <2> QED
    BY <1>4, <1>7, <2>1, <2>2 DEF ScansExact
<1>10. \A r \in Sources, v \in Users : seen'[r][v] <= scans'[r][v]
  BY <1>3, <1>5 DEF ScanInv, ScanOK
<1>11. ASSUME NEW r \in Sources \ full'
       PROVE  scans'[r] = seen'[r] /\ Cardinality(Fresh(scans'[r])) < MaxEntries
  <2>1. r \notin full
    BY <1>6
  <2>2. CASE r = s
    <3>1. ~(Cardinality(Fresh(new)) >= MaxEntries)
      BY <1>6, <2>2
    <3> QED
      BY <1>4, <1>5, <1>7, <2>1, <2>2, <3>1, SizeAssumption
  <2>3. CASE r # s
    BY <1>5, <2>1, <2>3 DEF ScanInv, ScanOK
  <2> QED
    BY <2>2, <2>3
<1> QED
  BY <1>8, <1>9, <1>10, <1>11 DEF ScanInv, Fresh

LEMMA TickScan ==
  ASSUME ScanInv, Tick
  PROVE  ScanInv'
<1>1. /\ scans' = [s \in Sources |-> AllOlder(scans[s])]
      /\ seen' = [s \in Sources |-> AllOlder(seen[s])]
      /\ UNCHANGED <<full, scanAlert>>
  BY DEF Tick
<1>2. ASSUME NEW ages \in [Users -> 0..Long]
      PROVE  /\ AllOlder(ages) \in [Users -> 0..Long]
             /\ \A u \in Users :
                  AllOlder(ages)[u] = IF ages[u] < Long THEN ages[u] + 1 ELSE ages[u]
  BY Sizes DEF AllOlder, Older
<1>3. ASSUME NEW s \in Sources
      PROVE  /\ scans'[s] \in [Users -> 0..Long] /\ seen'[s] \in [Users -> 0..Long]
             /\ \A u \in Users : seen'[s][u] <= scans'[s][u] /\ scans[s][u] <= scans'[s][u]
             /\ scans[s] = seen[s] => scans'[s] = seen'[s]
  <2>1. /\ scans[s] \in [Users -> 0..Long] /\ seen[s] \in [Users -> 0..Long]
        /\ \A u \in Users : seen[s][u] <= scans[s][u]
    BY DEF ScanInv, ScanOK
  <2>2. scans'[s] = AllOlder(scans[s]) /\ seen'[s] = AllOlder(seen[s])
    BY <1>1
  <2>3. \A u \in Users : seen'[s][u] <= scans'[s][u] /\ scans[s][u] <= scans'[s][u]
    BY <1>2, <2>1, <2>2, Sizes
  <2> QED
    BY <1>2, <2>1, <2>2, <2>3
<1>4. ASSUME NEW s \in Sources \ full
      PROVE  Cardinality(Fresh(scans'[s])) < MaxEntries
  <2>1. scans[s] \in [Users -> 0..Long] /\ Cardinality(Fresh(scans[s])) < MaxEntries
    BY DEF ScanInv, ScanOK
  <2>2. Cardinality(Fresh(scans'[s])) <= Cardinality(Fresh(scans[s]))
    BY <1>3, <2>1, FreshFewer
  <2> QED
    BY <2>1, <2>2, FreshFinite, SizeAssumption
<1>5. ScanOK'
  BY <1>1, <1>3 DEF ScanOK
<1>6. ScansExact'
  BY <1>1 DEF ScanInv, ScansExact
<1> QED
  BY <1>1, <1>3, <1>4, <1>5, <1>6 DEF ScanInv, Fresh

LEMMA NextScan ==
  ASSUME ScanInv, ExchangeInv, [Next]_vars
  PROVE  ScanInv'
<1>1. ASSUME NEW u \in Users, NEW expires \in {0, Lifetime}, Accepted(u, expires)
      PROVE  ScanInv'
  <2>1. Origin(u) \in Sources
    BY OriginIsSource DEF ExchangeInv
  <2>2. Scan(u, Origin(u))
    BY <1>1 DEF Accepted, Register
  <2> QED
    BY <2>1, <2>2, ScanScan
<1>2. ASSUME UNCHANGED <<scans, seen, full, scanAlert>>
      PROVE  ScanInv'
  BY <1>2 DEF ScanInv, ScanOK, ScansExact, Fresh
<1>3. CASE \E u \in Users : (\E s \in Homes : Request(u, s)) \/ Redirected(u) \/ Refused(u)
  BY <1>2, <1>3 DEF Request, Redirected, Refused, windows, history
<1>4. CASE (\E s \in Homes : Invite(s)) \/ Pass \/ UNCHANGED vars
  BY <1>2, <1>4 DEF Invite, Pass, Clean, Count, SetGauge, windows, history, vars
<1>5. CASE Tick
  BY <1>5, TickScan
<1> QED
  BY <1>1, <1>3, <1>4, <1>5 DEF Next

\* The scan detector never raises an alert without cause, and misses none at a source
\* that stays below the bound, however many users there are (fraud.go record).
THEOREM ScansAreExact == Spec => []ScansExact
<1>1. Init => ScanInv /\ ExchangeInv
  BY InitScan, InitExchange
<1>2. ScanInv /\ ExchangeInv /\ [Next]_vars => ScanInv' /\ ExchangeInv'
  BY NextScan, NextExchange
<1>3. ScanInv => ScansExact
  BY DEF ScanInv
<1> QED
  BY <1>1, <1>2, <1>3, PTL DEF Spec

-----------------------------------------------------------------------------
(* The burst windows.  The entry k before the last is Nth(ages, k).        *)

Ages == Seq(0..Long)
Nth(ages, k) == ages[Len(ages) - k]
Aged(ages) == \A j, k \in 0..(Len(ages) - 1) : j <= k => Nth(ages, j) <= Nth(ages, k)

\* What the detector keeps of the INVITEs of a source: as far as it goes its window ends
\* like theirs, it has no younger entry that they have not, and it is either full or has
\* them all.
Tails(kept, all) ==
    /\ Aged(kept) /\ Aged(all)
    /\ \A k \in 0..(Len(all) - 1) : Nth(all, k) <= Window
    /\ \A k \in 0..(Len(kept) - 1) : k < Len(all) => Nth(kept, k) = Nth(all, k)
    /\ \A k \in 0..(Len(kept) - 1) : Nth(kept, k) <= Window => k < Len(all)
    /\ Len(kept) >= Kept \/ Len(kept) >= Len(all)

BurstOK ==
    /\ bursts \in [Homes -> Ages] /\ invites \in [Homes -> Ages]
    /\ burstAlert.raised <=> burstAlert.due
BurstInv ==
    /\ BurstOK
    /\ \A s \in Homes : Tails(bursts[s], invites[s])

LEMMA AgesAre ==
  ASSUME NEW ages \in Ages
  PROVE  /\ Len(ages) \in Nat /\ DOMAIN ages = 1..Len(ages)
         /\ \A n \in 1..Len(ages) : ages[n] \in 0..Long
<1>1. ages \in Seq(0..Long)
  BY DEF Ages
<1>2. Len(ages) \in Nat /\ DOMAIN ages = 1..Len(ages)
  BY <1>1, LenProperties
<1>3. \A n \in 1..Len(ages) : ages[n] \in 0..Long
  BY <1>1, ElementOfSeq
<1> QED
  BY <1>2, <1>3

LEMMA LenIsNat == \A ages \in Ages : Len(ages) \in Nat
BY AgesAre

LEMMA NthIsAge ==
  ASSUME NEW ages \in Ages, NEW k \in 0..(Len(ages) - 1)
  PROVE  Nth(ages, k) \in 0..Long
<1>1. Len(ages) \in Nat /\ Len(ages) - k \in 1..Len(ages)
  BY LenIsNat
<1> QED
  BY <1>1, AgesAre DEF Nth

\* A suffix ends like the whole.
LEMMA SuffixIs ==
  ASSUME NEW ages \in Ages, NEW c \in 1..(Len(ages) + 1)
  PROVE  LET tail == SubSeq(ages, c, Len(ages))
         IN  /\ tail \in Ages /\ Len(tail) = Len(ages) - c + 1
             /\ \A k \in 0..(Len(tail) - 1) : Nth(tail, k) = Nth(ages, k)
<1> DEFINE tail == SubSeq(ages, c, Len(ages))
<1>1. Len(ages) \in Nat /\ \A n \in 1..Len(ages) : ages[n] \in 0..Long
  BY AgesAre
<1>2. \A n \in c..Len(ages) : ages[n] \in 0..Long
  BY <1>1
<1>3. c \in Int /\ Len(ages) \in Int
  BY <1>1
<1>4. /\ tail \in Seq(0..Long)
      /\ Len(tail) = IF c <= Len(ages) THEN Len(ages) - c + 1 ELSE 0
      /\ \A i \in 1..(Len(ages) - c + 1) : tail[i] = ages[c + i - 1]
  BY <1>2, <1>3, SubSeqProperties
<1> HIDE DEF tail
<1>5. Len(tail) = Len(ages) - c + 1
  BY <1>1, <1>4
<1>6. ASSUME NEW k \in 0..(Len(tail) - 1)
      PROVE  Nth(tail, k) = Nth(ages, k)
  <2>1. Len(tail) - k \in 1..(Len(ages) - c + 1) /\ c + (Len(tail) - k) - 1 = Len(ages) - k
    BY <1>1, <1>5
  <2>2. tail[Len(tail) - k] = ages[c + (Len(tail) - k) - 1]
    BY <1>4, <2>1
  <2> QED
    BY <2>1, <2>2 DEF Nth
<1>7. tail \in Ages /\ Len(tail) = Len(ages) - c + 1
      /\ \A k \in 0..(Len(tail) - 1) : Nth(tail, k) = Nth(ages, k)
  BY <1>4, <1>5, <1>6 DEF Ages
<1> QED
  BY <1>7 DEF tail

LEMMA LastIs ==
  ASSUME NEW ages \in Ages, NEW n \in Nat \ {0}
  PROVE  /\ Last(ages, n) \in Ages
         /\ Len(Last(ages, n)) = IF Len(ages) > n THEN n ELSE Len(ages)
         /\ \A k \in 0..(Len(Last(ages, n)) - 1) : Nth(Last(ages, n), k) = Nth(ages, k)
<1>1. CASE Len(ages) > n
  <2>1. Len(ages) - n + 1 \in 1..(Len(ages) + 1) /\ Len(ages) - (Len(ages) - n + 1) + 1 = n
    BY <1>1, LenIsNat
  <2>2. Last(ages, n) = SubSeq(ages, Len(ages) - n + 1, Len(ages))
    BY <1>1 DEF Last
  <2> DEFINE c == Len(ages) - n + 1
  <2>3. c \in 1..(Len(ages) + 1) /\ Len(ages) - c + 1 = n
    BY <2>1
  <2> HIDE DEF c
  <2>4. Last(ages, n) = SubSeq(ages, c, Len(ages))
    BY <2>2 DEF c
  <2> QED
    BY <1>1, <2>3, <2>4, SuffixIs
<1>2. CASE ~(Len(ages) > n)
  BY <1>2 DEF Last
<1> QED
  BY <1>1, <1>2

\* There is a first entry that is not past the window.
LEMMA OldestExists ==
  ASSUME NEW ages \in Ages
  PROVE  LET n == OldestRecent(ages)
         IN  /\ n \in 1..(Len(ages) + 1)
             /\ \A m \in 1..(n - 1) : ages[m] > Window
             /\ n <= Len(ages) => ages[n] <= Window
<1> DEFINE ends == {n \in 1..(Len(ages) + 1) : n <= Len(ages) => ages[n] <= Window}
<1>1. Len(ages) \in Nat /\ \A n \in 1..Len(ages) : ages[n] \in Nat
  BY AgesAre
<1>2. Len(ages) + 1 \in ends
  BY <1>1
<1>3. ends \subseteq Nat /\ ends # {}
  BY <1>1, <1>2
<1>4. PICK x \in ends : \A y \in ends : ~(<<y, x>> \in OpToRel(<, Nat))
  BY <1>3, NatLessThanWellFounded, WFMin
<1>5. ASSUME NEW m \in 1..(x - 1)
      PROVE  ages[m] > Window
  <2>1. m \in Nat /\ m < x /\ m \in 1..Len(ages) /\ x \in Nat
    BY <1>1, <1>3
  <2>2. m \notin ends
    BY <1>4, <2>1 DEF OpToRel
  <2> QED
    BY <1>1, <2>1, <2>2, Sizes
<1>6. /\ x \in 1..(Len(ages) + 1)
      /\ \A m \in 1..(x - 1) : ages[m] > Window
      /\ x <= Len(ages) => ages[x] <= Window
  BY <1>5
<1>7. \E n \in 1..(Len(ages) + 1) :
        (\A m \in 1..(n - 1) : ages[m] > Window) /\ (n <= Len(ages) => ages[n] <= Window)
  BY <1>6
<1> QED
  BY <1>7 DEF OldestRecent

\* What is left of a window are the entries that are not past it.
LEMMA RecentIs ==
  ASSUME NEW ages \in Ages, Aged(ages)
  PROVE  /\ Recent(ages) \in Ages /\ Len(Recent(ages)) <= Len(ages)
         /\ \A k \in 0..(Len(Recent(ages)) - 1) :
              Nth(Recent(ages), k) = Nth(ages, k) /\ Nth(ages, k) <= Window
         /\ \A k \in 0..(Len(ages) - 1) :
              k >= Len(Recent(ages)) => Nth(ages, k) > Window
<1> DEFINE c == OldestRecent(ages)
<1>1. Len(ages) \in Nat
  BY LenIsNat
<1>2. /\ c \in 1..(Len(ages) + 1)
      /\ \A m \in 1..(c - 1) : ages[m] > Window
      /\ c <= Len(ages) => ages[c] <= Window
  BY OldestExists
<1> HIDE DEF c
<1> DEFINE tail == SubSeq(ages, c, Len(ages))
<1>3. /\ tail \in Ages /\ Len(tail) = Len(ages) - c + 1
      /\ \A k \in 0..(Len(tail) - 1) : Nth(tail, k) = Nth(ages, k)
  BY <1>2, SuffixIs
<1>4. Recent(ages) = tail
  BY DEF Recent, c
<1> HIDE DEF tail
<1>5. ASSUME NEW k \in 0..(Len(tail) - 1)
      PROVE  Nth(ages, k) <= Window
  <2>1. c <= Len(ages) /\ Len(tail) - 1 \in 0..(Len(ages) - 1) /\ k <= Len(tail) - 1
        /\ k \in 0..(Len(ages) - 1) /\ Len(ages) - (Len(tail) - 1) = c
    BY <1>1, <1>2, <1>3
  <2>2. Nth(ages, Len(tail) - 1) <= Window
    BY <1>2, <2>1 DEF Nth
  <2>3. Nth(ages, k) <= Nth(ages, Len(tail) - 1)
    BY <2>1 DEF Aged
  <2>4. Nth(ages, k) \in 0..Long /\ Nth(ages, Len(tail) - 1) \in 0..Long
    BY <2>1, NthIsAge
  <2> QED
    BY <2>2, <2>3, <2>4, Sizes
<1>6. ASSUME NEW k \in 0..(Len(ages) - 1), k >= Len(tail)
      PROVE  Nth(ages, k) > Window
  <2>1. Len(ages) - k \in 1..(c - 1)
    BY <1>1, <1>2, <1>3, <1>6
  <2> QED
    BY <1>2, <2>1 DEF Nth
<1>7. Len(tail) <= Len(ages)
  BY <1>1, <1>2, <1>3
<1> QED
  BY <1>3, <1>4, <1>5, <1>6, <1>7

LEMMA AppendIs ==
  ASSUME NEW ages \in Ages
  PROVE  LET more == Append(ages, 0)
         IN  /\ more \in Ages /\ Len(more) = Len(ages) + 1
             /\ \A k \in 0..(Len(more) - 1) :
                  Nth(more, k) = IF k = 0 THEN 0 ELSE Nth(ages, k - 1)
<1> DEFINE more == Append(ages, 0)
<1>1. /\ more \in Ages /\ Len(more) = Len(ages) + 1 /\ Len(ages) \in Nat
      /\ more[Len(ages) + 1] = 0
      /\ \A n \in 1..Len(ages) : more[n] = ages[n]
  BY Sizes DEF Ages
<1> HIDE DEF more
<1>2. ASSUME NEW k \in 0..(Len(more) - 1)
      PROVE  Nth(more, k) = IF k = 0 THEN 0 ELSE Nth(ages, k - 1)
  <2>1. CASE k = 0
    BY <1>1, <2>1 DEF Nth
  <2>2. CASE k # 0
    <3>1. Len(more) - k \in 1..Len(ages) /\ Len(more) - k = Len(ages) - (k - 1)
      BY <1>1, <2>2
    <3> QED
      BY <1>1, <2>2, <3>1 DEF Nth
  <2> QED
    BY <2>1, <2>2
<1> QED
  BY <1>1, <1>2 DEF more

LEMMA AllOlderIs ==
  ASSUME NEW ages \in Ages
  PROVE  /\ AllOlder(ages) \in Ages /\ Len(AllOlder(ages)) = Len(ages)
         /\ \A k \in 0..(Len(ages) - 1) :
              Nth(AllOlder(ages), k) = IF Nth(ages, k) < Long THEN Nth(ages, k) + 1
                                       ELSE Nth(ages, k)
<1>1. /\ Len(ages) \in Nat /\ DOMAIN ages = 1..Len(ages)
      /\ \A n \in 1..Len(ages) : ages[n] \in 0..Long
  BY AgesAre
<1> DEFINE older == AllOlder(ages)
<1>2. older = [n \in 1..Len(ages) |-> IF ages[n] < Long THEN ages[n] + 1 ELSE ages[n]]
  BY <1>1 DEF AllOlder, Older
<1>3. \A n \in 1..Len(ages) :
        (IF ages[n] < Long THEN ages[n] + 1 ELSE ages[n]) \in 0..Long
  BY <1>1, Sizes
<1>4. older \in Ages /\ Len(older) = Len(ages)
  BY <1>1, <1>2, <1>3 DEF Ages
<1> HIDE DEF older
<1>5. ASSUME NEW k \in 0..(Len(ages) - 1)
      PROVE  Nth(older, k) = IF Nth(ages, k) < Long THEN Nth(ages, k) + 1
                             ELSE Nth(ages, k)
  <2>1. Len(ages) - k \in 1..Len(ages)
    BY <1>1
  <2> QED
    BY <1>2, <1>4, <2>1 DEF Nth
<1> QED
  BY <1>4, <1>5 DEF older

LEMMA KeptIs == Kept \in Nat \ {0} /\ BurstThreshold < Kept /\ BurstThreshold \in Nat
BY SizeAssumption DEF Kept

\* A cleanup drops nothing that the INVITEs of the window have, ...
LEMMA TailsCleaned ==
  ASSUME NEW kept \in Ages, NEW all \in Ages, Tails(kept, all)
  PROVE  /\ Recent(kept) \in Ages /\ Tails(Recent(kept), all)
         /\ Len(Recent(kept)) <= Len(all)
<1> DEFINE new == Recent(kept)
<1>1. /\ new \in Ages /\ Len(new) <= Len(kept)
      /\ \A k \in 0..(Len(new) - 1) : Nth(new, k) = Nth(kept, k) /\ Nth(kept, k) <= Window
      /\ \A k \in 0..(Len(kept) - 1) : k >= Len(new) => Nth(kept, k) > Window
  BY RecentIs DEF Tails
<1> HIDE DEF new
<1>2. Len(kept) \in Nat /\ Len(all) \in Nat /\ Len(new) \in Nat
  BY <1>1, LenIsNat
<1>3. \A k \in 0..(Len(new) - 1) : k \in 0..(Len(kept) - 1)
  BY <1>1, <1>2
<1>4. Aged(new)
  BY <1>1, <1>3 DEF Aged, Tails
<1>5. \A k \in 0..(Len(new) - 1) : k < Len(all) => Nth(new, k) = Nth(all, k)
  BY <1>1, <1>3 DEF Tails
<1>6. \A k \in 0..(Len(new) - 1) : k < Len(all)
  BY <1>1, <1>3 DEF Tails
<1>7. Len(new) <= Len(all)
  <2>1. CASE Len(new) = 0
    BY <1>2, <2>1
  <2>2. CASE Len(new) # 0
    <3>1. Len(new) - 1 \in 0..(Len(new) - 1)
      BY <1>2, <2>2
    <3> QED
      BY <1>2, <1>6, <3>1
  <2> QED
    BY <2>1, <2>2
<1>8. Len(new) >= Kept \/ Len(new) >= Len(all)
  <2>1. CASE Len(new) = Len(kept)
    BY <2>1 DEF Tails
  <2>2. CASE Len(new) # Len(kept) /\ Len(new) < Len(all)
    <3>1. Len(new) \in 0..(Len(kept) - 1) /\ Len(new) \in 0..(Len(all) - 1)
      BY <1>1, <1>2, <2>2
    <3>2. Nth(kept, Len(new)) = Nth(all, Len(new)) /\ Nth(all, Len(new)) <= Window
      BY <2>2, <3>1 DEF Tails
    <3>3. Nth(kept, Len(new)) > Window /\ Nth(kept, Len(new)) \in 0..Long
      BY <1>1, <1>2, <3>1, NthIsAge
    <3> QED
      BY <3>2, <3>3, Sizes
  <2> QED
    BY <1>2, <2>1, <2>2
<1>9. Tails(new, all)
  BY <1>4, <1>5, <1>6, <1>8 DEF Tails
<1> QED
  BY <1>1, <1>7, <1>9 DEF new

\* ... an INVITE is added to both and a full window forgets its oldest, ...
LEMMA TailsInvited ==
  ASSUME NEW kept \in Ages, NEW all \in Ages, Tails(kept, all)
  PROVE  LET kept2 == Last(Append(Recent(kept), 0), Kept)
             all2 == Append(Recent(all), 0)
         IN  /\ kept2 \in Ages /\ all2 \in Ages /\ Tails(kept2, all2)
             /\ Len(kept2) >= BurstThreshold <=> Len(all2) >= BurstThreshold
<1> DEFINE mid == Recent(kept)
           more == Append(mid, 0)
           kept2 == Last(more, Kept)
           recent == Recent(all)
           all2 == Append(recent, 0)
<1>1. mid \in Ages /\ Tails(mid, all) /\ Len(mid) <= Len(all)
  BY TailsCleaned
<1> HIDE DEF mid
<1>2. /\ recent \in Ages /\ Len(recent) <= Len(all)
      /\ \A k \in 0..(Len(recent) - 1) : Nth(recent, k) = Nth(all, k)
      /\ \A k \in 0..(Len(all) - 1) : k >= Len(recent) => Nth(all, k) > Window
  BY RecentIs DEF Tails
<1> HIDE DEF recent
<1>3. Len(all) \in Nat /\ Len(mid) \in Nat /\ Len(recent) \in Nat
  BY <1>1, <1>2, LenIsNat
<1>4. Len(recent) = Len(all)
  <2>1. CASE Len(recent) < Len(all)
    <3>1. Len(recent) \in 0..(Len(all) - 1)
      BY <1>3, <2>1
    <3>2. Nth(all, Len(recent)) > Window /\ Nth(all, Len(recent)) <= Window
      BY <1>2, <1>3, <3>1 DEF Tails
    <3>3. Nth(all, Len(recent)) \in 0..Long
      BY <3>1, NthIsAge
    <3> QED
      BY <3>2, <3>3, Sizes
  <2> QED
    BY <1>2, <1>3, <2>1
<1>5. /\ more \in Ages /\ Len(more) = Len(mid) + 1
      /\ \A k \in 0..(Len(more) - 1) : Nth(more, k) = IF k = 0 THEN 0 ELSE Nth(mid, k - 1)
  BY <1>1, AppendIs
<1>6. /\ all2 \in Ages /\ Len(all2) = Len(recent) + 1
      /\ \A k \in 0..(Len(all2) - 1) :
           Nth(all2, k) = IF k = 0 THEN 0 ELSE Nth(recent, k - 1)
  BY <1>2, AppendIs
<1> HIDE DEF more
<1>7. /\ kept2 \in Ages /\ Len(kept2) = IF Len(more) > Kept THEN Kept ELSE Len(more)
      /\ \A k \in 0..(Len(kept2) - 1) : Nth(kept2, k) = Nth(more, k)
  BY <1>5, KeptIs, LastIs
<1> HIDE DEF kept2, all2
<1>8. /\ Len(kept2) = IF Len(mid) + 1 > Kept THEN Kept ELSE Len(mid) + 1
      /\ Len(all2) = Len(all) + 1
  BY <1>4, <1>5, <1>6, <1>7
<1>9. ASSUME NEW k \in 0..(Len(kept2) - 1)
      PROVE  /\ k # 0 => k - 1 \in 0..(Len(mid) - 1)
             /\ Nth(kept2, k) = IF k = 0 THEN 0 ELSE Nth(mid, k - 1)
  <2>1. k \in 0..(Len(more) - 1) /\ (k # 0 => k - 1 \in 0..(Len(mid) - 1))
    BY <1>3, <1>5, <1>8, KeptIs
  <2> QED
    BY <1>5, <1>7, <2>1
<1>10. ASSUME NEW k \in 0..(Len(all2) - 1)
       PROVE  /\ k # 0 => k - 1 \in 0..(Len(all) - 1)
              /\ Nth(all2, k) = IF k = 0 THEN 0 ELSE Nth(all, k - 1)
  <2>1. k # 0 => k - 1 \in 0..(Len(all) - 1)
    BY <1>3, <1>8
  <2> QED
    BY <1>2, <1>4, <1>6, <2>1
<1>11. Aged(kept2)
  <2> SUFFICES ASSUME NEW j \in 0..(Len(kept2) - 1), NEW k \in 0..(Len(kept2) - 1), j <= k
               PROVE  Nth(kept2, j) <= Nth(kept2, k)
    BY DEF Aged
  <2>1. CASE j = 0
    <3>1. Nth(kept2, j) = 0 /\ Nth(kept2, k) \in 0..Long
      BY <1>7, <1>9, <2>1, NthIsAge
    <3> QED
      BY <3>1, Sizes
  <2>2. CASE j # 0
    <3>1. k # 0 /\ j - 1 <= k - 1 /\ j - 1 \in 0..(Len(mid) - 1) /\ k - 1 \in 0..(Len(mid) - 1)
      BY <1>9, <2>2
    <3>2. Nth(mid, j - 1) <= Nth(mid, k - 1)
      BY <1>1, <3>1 DEF Tails, Aged
    <3> QED
      BY <1>9, <2>2, <3>1, <3>2
  <2> QED
    BY <2>1, <2>2
<1>12. Aged(all2)
  <2> SUFFICES ASSUME NEW j \in 0..(Len(all2) - 1), NEW k \in 0..(Len(all2) - 1), j <= k
               PROVE  Nth(all2, j) <= Nth(all2, k)
    BY DEF Aged
  <2>1. CASE j = 0
    <3>1. Nth(all2, j) = 0 /\ Nth(all2, k) \in 0..Long
      BY <1>6, <1>10, <2>1, NthIsAge
    <3> QED
      BY <3>1, Sizes
  <2>2. CASE j # 0
    <3>1. k # 0 /\ j - 1 <= k - 1 /\ j - 1 \in 0..(Len(all) - 1) /\ k - 1 \in 0..(Len(all) - 1)
      BY <1>10, <2>2
    <3>2. Nth(all, j - 1) <= Nth(all, k - 1)
      BY <3>1 DEF Tails, Aged
    <3> QED
      BY <1>10, <2>2, <3>1, <3>2
  <2> QED
    BY <2>1, <2>2
<1>13. \A k \in 0..(Len(all2) - 1) : Nth(all2, k) <= Window
  BY <1>10, Sizes DEF Tails
<1>14. \A k \in 0..(Len(kept2) - 1) : k < Len(all2)
  BY <1>1, <1>3, <1>8, KeptIs
<1>15. ASSUME NEW k \in 0..(Len(kept2) - 1)
       PROVE  Nth(kept2, k) = Nth(all2, k)
  <2>1. k \in 0..(Len(all2) - 1)
    BY <1>3, <1>8, <1>14
  <2>2. CASE k = 0
    BY <1>9, <1>10, <2>1, <2>2
  <2>3. CASE k # 0
    <3>1. k - 1 \in 0..(Len(mid) - 1) /\ k - 1 < Len(all)
      BY <1>3, <1>8, <1>9, <1>14, <2>3
    <3>2. Nth(mid, k - 1) = Nth(all, k - 1)
      BY <1>1, <3>1 DEF Tails
    <3> QED
      BY <1>9, <1>10, <2>1, <2>3, <3>2
  <2> QED
    BY <2>2, <2>3
<1>16. Len(mid) >= Kept \/ Len(mid) >= Len(all)
  BY <1>1 DEF Tails
<1>17. Len(kept2) >= Kept \/ Len(kept2) >= Len(all2)
  BY <1>3, <1>8, <1>16, KeptIs
<1>18. Tails(kept2, all2)
  BY <1>11, <1>12, <1>13, <1>14, <1>15, <1>17 DEF Tails
<1>19. Len(kept2) >= BurstThreshold <=> Len(all2) >= BurstThreshold
  BY <1>1, <1>3, <1>8, <1>16, KeptIs
<1> QED
  BY <1>6, <1>7, <1>18, <1>19 DEF kept2, all2, more, mid, recent

\* ... and with time what leaves the window leaves it for both.
LEMMA TailsOlder ==
  ASSUME NEW kept \in Ages, NEW all \in Ages, Tails(kept, all)
  PROVE  LET kept2 == AllOlder(kept)
             all2 == Recent(AllOlder(all))
         IN  kept2 \in Ages /\ all2 \in Ages /\ Tails(kept2, all2)
<1> DEFINE kept2 == AllOlder(kept)
           old == AllOlder(all)
           all2 == Recent(old)
           Up(age) == IF age < Long THEN age + 1 ELSE age
<1>1. /\ kept2 \in Ages /\ Len(kept2) = Len(kept)
      /\ \A k \in 0..(Len(kept) - 1) : Nth(kept2, k) = Up(Nth(kept, k))
  BY AllOlderIs
<1>2. /\ old \in Ages /\ Len(old) = Len(all)
      /\ \A k \in 0..(Len(all) - 1) : Nth(old, k) = Up(Nth(all, k))
  BY AllOlderIs
<1> HIDE DEF kept2, old
<1>3. \A x, y \in 0..Long : x <= y => Up(x) <= Up(y)
  BY Sizes
<1>4. \A x \in 0..Long : Up(x) <= Window => x <= Window
  BY Sizes
<1> HIDE DEF Up
<1>5. Len(kept) \in Nat /\ Len(all) \in Nat
  BY LenIsNat
<1>6. Aged(kept2)
  <2> SUFFICES ASSUME NEW j \in 0..(Len(kept2) - 1), NEW k \in 0..(Len(kept2) - 1), j <= k
               PROVE  Nth(kept2, j) <= Nth(kept2, k)
    BY DEF Aged
  <2>1. j \in 0..(Len(kept) - 1) /\ k \in 0..(Len(kept) - 1)
    BY <1>1
  <2>2. Nth(kept, j) <= Nth(kept, k)
    BY <2>1 DEF Tails, Aged
  <2>3. Nth(kept, j) \in 0..Long /\ Nth(kept, k) \in 0..Long
    BY <2>1, NthIsAge
  <2> QED
    BY <1>1, <1>3, <2>1, <2>2, <2>3
<1>7. Aged(old)
  <2> SUFFICES ASSUME NEW j \in 0..(Len(old) - 1), NEW k \in 0..(Len(old) - 1), j <= k
               PROVE  Nth(old, j) <= Nth(old, k)
    BY DEF Aged
  <2>1. j \in 0..(Len(all) - 1) /\ k \in 0..(Len(all) - 1)
    BY <1>2
  <2>2. Nth(all, j) <= Nth(all, k)
    BY <2>1 DEF Tails, Aged
  <2>3. Nth(all, j) \in 0..Long /\ Nth(all, k) \in 0..Long
    BY <2>1, NthIsAge
  <2> QED
    BY <1>2, <1>3, <2>1, <2>2, <2>3
<1>8. /\ all2 \in Ages /\ Len(all2) <= Len(old)
      /\ \A k \in 0..(Len(all2) - 1) : Nth(all2, k) = Nth(old, k) /\ Nth(old, k) <= Window
      /\ \A k \in 0..(Len(old) - 1) : k >= Len(all2) => Nth(old, k) > Window
  BY <1>2, <1>7, RecentIs
<1> HIDE DEF all2
<1>9. Len(all2) \in Nat /\ Len(all2) <= Len(all)
  BY <1>2, <1>8, LenIsNat
<1>10. \A k \in 0..(Len(all2) - 1) : k \in 0..(Len(old) - 1)
  BY <1>2, <1>5, <1>9
<1>11. Aged(all2)
  BY <1>7, <1>8, <1>10 DEF Aged
<1>12. \A k \in 0..(Len(all2) - 1) : Nth(all2, k) <= Window
  BY <1>8
<1>13. ASSUME NEW k \in 0..(Len(kept2) - 1), k < Len(all2)
       PROVE  Nth(kept2, k) = Nth(all2, k)
  <2>1. /\ k \in 0..(Len(all2) - 1) /\ k \in 0..(Len(kept) - 1)
        /\ k \in 0..(Len(all) - 1) /\ k < Len(all)
    BY <1>1, <1>5, <1>9, <1>13
  <2>2. Nth(kept, k) = Nth(all, k)
    BY <2>1 DEF Tails
  <2> QED
    BY <1>1, <1>2, <1>8, <2>1, <2>2
<1>14. ASSUME NEW k \in 0..(Len(kept2) - 1), Nth(kept2, k) <= Window
       PROVE  k < Len(all2)
  <2>1. k \in 0..(Len(kept) - 1)
    BY <1>1
  <2>2. Nth(kept, k) \in 0..Long /\ Up(Nth(kept, k)) <= Window
    BY <1>1, <1>14, <2>1, NthIsAge
  <2>3. Nth(kept, k) <= Window
    BY <1>4, <2>2
  <2>4. k < Len(all) /\ Nth(kept, k) = Nth(all, k)
    BY <2>1, <2>3 DEF Tails
  <2>5. k \in 0..(Len(old) - 1)
    BY <1>2, <1>5, <2>1, <2>4
  <2>6. Nth(old, k) = Up(Nth(all, k)) /\ Nth(old, k) \in 0..Long
    BY <1>2, <2>5, NthIsAge
  <2>7. Nth(old, k) <= Window
    BY <2>2, <2>4, <2>6
  <2> QED
    BY <1>8, <1>9, <2>5, <2>6, <2>7, Sizes
<1>15. Len(kept2) >= Kept \/ Len(kept2) >= Len(all2)
  <2>1. Len(kept) >= Kept \/ Len(kept) >= Len(all)
    BY DEF Tails
  <2> QED
    BY <1>1, <1>5, <1>9, <2>1
<1>16. Tails(kept2, all2)
  BY <1>6, <1>11, <1>12, <1>13, <1>14, <1>15 DEF Tails
<1> QED
  BY <1>1, <1>8, <1>16 DEF kept2, all2, old

LEMMA InitBurst == Init => BurstInv
<1> SUFFICES ASSUME Init PROVE BurstInv
  OBVIOUS
<1>1. bursts = [s \in Homes |-> <<>>] /\ invites = bursts /\ burstAlert = Quiet
  BY DEF Init
<1>2. <<>> \in Ages /\ Len(<<>>) = 0
  BY EmptySeq DEF Ages
<1>3. Tails(<<>>, <<>>)
  BY <1>2 DEF Tails, Aged
<1>4. BurstOK
  BY <1>1, <1>2 DEF BurstOK, Quiet
<1> QED
  BY <1>1, <1>3, <1>4 DEF BurstInv

LEMMA NextBurst ==
  ASSUME BurstInv, [Next]_vars
  PROVE  BurstInv'
<1>1. \A s \in Homes : bursts[s] \in Ages /\ invites[s] \in Ages /\ Tails(bursts[s], invites[s])
  BY DEF BurstInv, BurstOK
<1>2. ASSUME NEW s \in Homes, Invite(s)
      PROVE  BurstInv'
  <2> DEFINE kept2 == Last(Append(Recent(bursts[s]), 0), Kept)
             all2 == Append(Recent(invites[s]), 0)
  <2>1. /\ kept2 \in Ages /\ all2 \in Ages /\ Tails(kept2, all2)
        /\ Len(kept2) >= BurstThreshold <=> Len(all2) >= BurstThreshold
    BY <1>1, TailsInvited
  <2>2. /\ bursts' = [bursts EXCEPT ![s] = kept2] /\ invites' = [invites EXCEPT ![s] = all2]
        /\ burstAlert' = [raised |-> Len(bursts'[s]) >= BurstThreshold,
                          due |-> Len(invites'[s]) >= BurstThreshold, known |-> TRUE]
    BY <1>2 DEF Invite
  <2> HIDE DEF kept2, all2
  <2>3. bursts'[s] = kept2 /\ invites'[s] = all2
    BY <2>2 DEF BurstInv, BurstOK
  <2>4. /\ burstAlert'.raised <=> Len(kept2) >= BurstThreshold
        /\ burstAlert'.due <=> Len(all2) >= BurstThreshold
    BY <2>2, <2>3
  <2>5. bursts' \in [Homes -> Ages] /\ invites' \in [Homes -> Ages]
    BY <2>1, <2>2 DEF BurstInv, BurstOK
  <2>6. BurstOK'
    BY <2>1, <2>4, <2>5 DEF BurstOK
  <2>7. ASSUME NEW r \in Homes
        PROVE  Tails(bursts'[r], invites'[r])
    <3>1. CASE r = s
      BY <2>1, <2>3, <3>1
    <3>2. CASE r # s
      BY <1>1, <2>2, <3>2 DEF BurstInv, BurstOK
    <3> QED
      BY <3>1, <3>2
  <2> QED
    BY <2>6, <2>7 DEF BurstInv, Tails, Aged, Nth
<1>3. ASSUME NEW old \in SUBSET Users, Clean(old)
      PROVE  BurstInv'
  <2>1. bursts' = [s \in Homes |-> Recent(bursts[s])] /\ UNCHANGED <<invites, burstAlert>>
    BY <1>3 DEF Clean, history
  <2>2. \A s \in Homes : Recent(bursts[s]) \in Ages /\ Tails(Recent(bursts[s]), invites[s])
    BY <1>1, TailsCleaned
  <2>3. BurstOK'
    BY <2>1, <2>2 DEF BurstInv, BurstOK
  <2> QED
    BY <2>1, <2>2, <2>3 DEF BurstInv, Tails, Aged, Nth
<1>4. CASE Tick
  <2>1. /\ bursts' = [s \in Homes |-> AllOlder(bursts[s])]
        /\ invites' = [s \in Homes |-> Recent(AllOlder(invites[s]))]
        /\ UNCHANGED burstAlert
    BY <1>4 DEF Tick
  <2>2. \A s \in Homes : /\ AllOlder(bursts[s]) \in Ages /\ Recent(AllOlder(invites[s])) \in Ages
                         /\ Tails(AllOlder(bursts[s]), Recent(AllOlder(invites[s])))
    BY <1>1, TailsOlder
  <2>3. BurstOK'
    BY <2>1, <2>2 DEF BurstInv, BurstOK
  <2> QED
    BY <2>1, <2>2, <2>3 DEF BurstInv, Tails, Aged, Nth
<1>5. ASSUME UNCHANGED <<bursts, invites, burstAlert>>
      PROVE  BurstInv'
  BY <1>5 DEF BurstInv, BurstOK, Tails, Aged, Nth
<1>6. CASE \E u \in Users : \/ \E s \in Homes : Request(u, s)
                            \/ \E expires \in {0, Lifetime} : Accepted(u, expires)
                            \/ Redirected(u) \/ Refused(u)
  BY <1>5, <1>6 DEF Request, Accepted, Redirected, Refused, windows, history
<1>7. CASE Count \/ SetGauge \/ UNCHANGED vars
  BY <1>5, <1>7 DEF Count, SetGauge, windows, history, vars
<1> QED
  BY <1>2, <1>3, <1>4, <1>6, <1>7 DEF Next, Pass

\* Both detectors, which trim their windows and bound them, raise exactly the alerts that
\* are due: of INVITEs always, of users but at the bound (fraud.go record, cleanup).
THEOREM WindowsAreExact == Spec => []WindowsExact
<1>1. Init => ScanInv /\ ExchangeInv /\ BurstInv
  BY InitScan, InitExchange, InitBurst
<1>2. ScanInv /\ ExchangeInv /\ BurstInv /\ [Next]_vars => ScanInv' /\ ExchangeInv' /\ BurstInv'
  BY NextScan, NextExchange, NextBurst
<1>3. ScanInv /\ BurstInv => WindowsExact
  BY DEF ScanInv, BurstInv, BurstOK, WindowsExact
<1> QED
  BY <1>1, <1>2, <1>3, PTL DEF Spec
=============================================================================
