-------------------------- MODULE RtpStreamsProofs --------------------------
(***************************************************************************)
(* Theorems about RtpStreams: for a sequence space of any size, whatever   *)
(* wraps and is reordered within half of it, the statistics of a stream    *)
(* are those of the packets its sender sent.                               *)
(***************************************************************************)
EXTENDS RtpStreams, TLAPS

Sender == [first : Nat, high : Nat, long : Nat, short : Nat,
           missing : Nat, packets : Nat, restarts : Nat]
Counts == [packets : Nat, lost : Nat, duplicate : Nat, reorder : Nat]

\* A stream, its sender's view and what was exported of it agree.
Agree(s, t, x) ==
    /\ s.maxSeq = t.high % SeqMod
    /\ s.total + s.lost = t.high - t.first + 1
    /\ Classified(s).burst = t.long /\ Classified(s).gap = t.short
    /\ x.packets + x.duplicate + x.reorder = t.packets - t.restarts
    /\ x.lost = t.missing

\* What is outstanding of a receiver's loss: what its next report would add, or may add
\* once it is positive again.
Due(s, loss) ==
    IF ~s.lossSeen THEN 0
    ELSE IF loss >= s.prevLoss THEN loss - s.prevLoss
    ELSE IF loss > 0 THEN loss ELSE 0

\* A stream is owed no more than its flow suffered: what it was credited with, and
\* what is outstanding.
Owed(k) ==
    /\ ~streams[k].lossSeen => credited[k] = 0
    /\ k \notin mixed \cup corrected =>
         credited[k] + Due(streams[k], reported[k]) <= suffered[k]

Sound(k) ==
    /\ ssrcIndex[k[2]][k[1]] = IF Tracked(k) THEN 1 ELSE 0
    /\ Tracked(k) => Agree(streams[k], sent[k], exported[k]) /\ Owed(k)

IInv == TypeOK /\ \A k \in Keys : Sound(k)

-----------------------------------------------------------------------------
(* Sequence numbers modulo the size of their space.                        *)

LEMMA Modulo ==
  ASSUME NEW x \in Int, NEW M \in Nat \ {0}
  PROVE  /\ x \div M \in Int /\ x % M \in 0..M-1
         /\ x = M * (x \div M) + (x % M)
OBVIOUS

LEMMA Remainder ==
  ASSUME NEW q \in Int, NEW r \in Int, NEW M \in Nat \ {0}, 0 <= r, r < M
  PROVE  (M * q + r) % M = r
OBVIOUS

\* The difference of two numbers is that of what the headers carry.
LEMMA DifferenceOfRemainders ==
  ASSUME NEW a \in Int, NEW b \in Int, NEW M \in Nat \ {0}
  PROVE  ((b % M) - (a % M)) % M = (b - a) % M
<1> DEFINE p == a \div M
           q == b \div M
           d == b - a
           s == d \div M
           r == d % M
           e == s + p - q
<1>1. a = M * p + (a % M) /\ p \in Int /\ a % M \in Int
  BY Modulo
<1>2. b = M * q + (b % M) /\ q \in Int /\ b % M \in Int
  BY Modulo
<1>3. d \in Int
  OBVIOUS
<1> HIDE DEF d
<1>4. d = M * s + r /\ s \in Int /\ r \in 0..M-1
  BY <1>3, Modulo
<1> HIDE DEF p, q, s, r
<1>5. e \in Int /\ r \in Int /\ 0 <= r /\ r < M
  BY <1>1, <1>2, <1>4
<1>6. (b % M) - (a % M) = M * e + r
  BY <1>1, <1>2, <1>4, <1>5 DEF d
<1> HIDE DEF e
<1>7. (M * e + r) % M = r
  BY <1>5, Remainder
<1> QED
  BY <1>6, <1>7 DEF r, d

LEMMA SpaceSize == SeqMod \in Nat \ {0} /\ SeqMod = Half + Half
BY SpaceAssumption DEF SeqMod

\* What Delta says of a packet less than half the space away.
LEMMA DeltaInWindow ==
  ASSUME NEW high \in Nat, NEW n \in Int, high - Half <= n, n < high + Half
  PROVE  Delta(n % SeqMod, high % SeqMod) = IF n >= high THEN n - high ELSE n - high + SeqMod
<1>1. Delta(n % SeqMod, high % SeqMod) = (n - high) % SeqMod
  BY DifferenceOfRemainders, SpaceSize DEF Delta
<1>2. CASE n >= high
  <2>1. (SeqMod * 0 + (n - high)) % SeqMod = n - high
    BY <1>2, Remainder, SpaceSize, SpaceAssumption
  <2>2. SeqMod * 0 + (n - high) = n - high
    BY SpaceSize
  <2> QED
    BY <1>1, <1>2, <2>1, <2>2
<1>3. CASE n < high
  <2>1. (SeqMod * (-1) + (n - high + SeqMod)) % SeqMod = n - high + SeqMod
    BY <1>3, Remainder, SpaceSize, SpaceAssumption
  <2>2. SeqMod * (-1) + (n - high + SeqMod) = n - high
    BY SpaceSize
  <2>3. ~(n >= high)
    BY <1>3
  <2> QED
    BY <1>1, <2>1, <2>2, <2>3
<1> QED
  BY <1>2, <1>3

-----------------------------------------------------------------------------
(* One stream.                                                             *)

\* A field may be given any other value of its type.
LEMMA StreamField ==
  ASSUME NEW s \in Stream, NEW v \in Nat
  PROVE  /\ [s EXCEPT !.lost = v] \in Stream /\ [s EXCEPT !.duplicate = v] \in Stream
         /\ [s EXCEPT !.reorder = v] \in Stream /\ [s EXCEPT !.burst = v] \in Stream
         /\ [s EXCEPT !.gap = v] \in Stream /\ [s EXCEPT !.lossRun = v] \in Stream
         /\ v # 0 => [s EXCEPT !.total = v] \in Stream
         /\ v \in 0..SeqMod-1 => [s EXCEPT !.maxSeq = v] \in Stream
         /\ v \in 0..Expired =>
              [s EXCEPT !.idle = v] \in Stream /\ [s EXCEPT !.rtcpIdle = v] \in Stream
BY DEF Stream

LEMMA SenderField ==
  ASSUME NEW t \in Sender, NEW v \in Nat
  PROVE  /\ [t EXCEPT !.first = v] \in Sender /\ [t EXCEPT !.high = v] \in Sender
         /\ [t EXCEPT !.long = v] \in Sender /\ [t EXCEPT !.short = v] \in Sender
         /\ [t EXCEPT !.missing = v] \in Sender /\ [t EXCEPT !.packets = v] \in Sender
         /\ [t EXCEPT !.restarts = v] \in Sender
BY DEF Sender

\* What classifyLossRun writes, and leaves alone.
LEMMA ClassifiedFields ==
  ASSUME NEW s \in Stream
  PROVE  LET c == Classified(s)
         IN /\ c.burst = IF s.lossRun >= Burst THEN s.burst + s.lossRun ELSE s.burst
            /\ c.gap = IF s.lossRun >= Burst THEN s.gap ELSE s.gap + s.lossRun
            /\ c.lossRun = 0
            /\ c.maxSeq = s.maxSeq /\ c.total = s.total /\ c.lost = s.lost
            /\ c.duplicate = s.duplicate /\ c.reorder = s.reorder
            /\ c.idle = s.idle /\ c.rtcpIdle = s.rtcpIdle
            /\ c.lossSeen = s.lossSeen /\ c.prevLoss = s.prevLoss
<1>1. CASE s.lossRun >= Burst
  BY <1>1 DEF Classified, Stream
<1>2. CASE ~(s.lossRun >= Burst)
  BY <1>2 DEF Classified, Stream
<1> QED
  BY <1>1, <1>2

LEMMA ClassifiedStream ==
  ASSUME NEW s \in Stream
  PROVE  Classified(s) \in Stream
<1>1. s.burst + s.lossRun \in Nat /\ s.gap + s.lossRun \in Nat
  BY DEF Stream
<1> QED
  BY <1>1, StreamField DEF Classified

LEMMA ClassifiedOnce ==
  ASSUME NEW s \in Stream, s.lossRun = 0
  PROVE  Classified(s).burst = s.burst /\ Classified(s).gap = s.gap
BY TimeAssumption DEF Classified, Stream

\* A stream after a reordered packet, and after a repeated one.
Reordered(s) == [s EXCEPT !.reorder = s.reorder + 1]
Repeated(s) == [s EXCEPT !.duplicate = s.duplicate + 1]

\* What observe does to a stream, by how far the packet is from the newest one.
LEMMA ObservedOf ==
  ASSUME NEW s \in Stream, NEW seq, NEW d \in Int, -Half <= d, d < Half, NEW audio,
         Delta(seq, s.maxSeq) = IF d >= 0 THEN d ELSE d + SeqMod
  PROVE  /\ d < 0 => Observed(s, seq, audio) = Reordered(s)
         /\ d = 0 => Observed(s, seq, audio) = Repeated(s)
         /\ d > 0 /\ d <= MaxGap => Observed(s, seq, audio) = Advanced(s, seq, audio)
         /\ d > MaxGap => Observed(s, seq, audio) = Restarted(s, seq)
<1> DEFINE delta == Delta(seq, s.maxSeq)
<1>1. /\ d < 0 => delta >= Half /\ delta \in Int
      /\ d >= 0 => delta = d /\ delta < Half /\ delta \in Nat
  BY SpaceSize, SpaceAssumption
<1>2. Observed(s, seq, audio) =
        CASE delta >= Half -> Reordered(s)
          [] delta > MaxGap /\ delta < Half -> Restarted(s, seq)
          [] delta > 0 /\ delta <= MaxGap -> Advanced(s, seq, audio)
          [] delta = 0 -> Repeated(s)
  BY DEF Observed, Reordered, Repeated
<1> HIDE DEF delta
<1> QED
  BY <1>1, <1>2, SpaceAssumption

\* What the sender knows of its stream, by where the packet falls.
LEMMA SentLate ==
  ASSUME NEW t \in Sender, NEW n \in Int, n <= t.high
  PROVE  /\ Sent(t, n).first = t.first /\ Sent(t, n).high = t.high
         /\ Sent(t, n).long = t.long /\ Sent(t, n).short = t.short
         /\ Sent(t, n).missing = t.missing
         /\ Sent(t, n).packets = t.packets + 1 /\ Sent(t, n).restarts = t.restarts
BY SpaceAssumption, TimeAssumption DEF Sent, Sender

LEMMA SentNext ==
  ASSUME NEW t \in Sender, NEW n \in Int, n > t.high, n - t.high <= MaxGap
  PROVE  LET missing == n - t.high - 1
         IN /\ Sent(t, n).first = t.first /\ Sent(t, n).high = n
            /\ Sent(t, n).long = t.long + IF missing >= Burst THEN missing ELSE 0
            /\ Sent(t, n).short = t.short + IF missing < Burst THEN missing ELSE 0
            /\ Sent(t, n).missing = t.missing + missing
            /\ Sent(t, n).packets = t.packets + 1 /\ Sent(t, n).restarts = t.restarts
BY SpaceAssumption, TimeAssumption DEF Sent, Sender

LEMMA SentFar ==
  ASSUME NEW t \in Sender, NEW n \in Int, n > t.high, n - t.high > MaxGap
  PROVE  /\ Sent(t, n).first = n /\ Sent(t, n).high = n
         /\ Sent(t, n).long = 0 /\ Sent(t, n).short = 0
         /\ Sent(t, n).missing = t.missing
         /\ Sent(t, n).packets = t.packets + 1 /\ Sent(t, n).restarts = t.restarts + 1
BY SpaceAssumption, TimeAssumption DEF Sent, Sender

LEMMA SentType ==
  ASSUME NEW t \in Sender, NEW n \in Int
  PROVE  Sent(t, n) \in Sender
<1>1. /\ t.high \in Nat /\ t.first \in Nat /\ t.long \in Nat /\ t.short \in Nat
      /\ t.missing \in Nat /\ t.packets \in Nat /\ t.restarts \in Nat
  BY DEF Sender
<1> DEFINE missing == IF n > t.high THEN n - t.high - 1 ELSE 0
<1>2. missing \in Nat
  BY <1>1
<1>3. n > t.high => n \in Nat
  BY <1>1
<1> HIDE DEF missing
<1>4. CASE missing >= MaxGap
  <2>1. n > t.high
    BY <1>4, SpaceAssumption DEF missing
  <2>2. Sent(t, n) = [t EXCEPT !.first = n, !.high = n, !.long = 0, !.short = 0,
                               !.packets = t.packets + 1, !.restarts = t.restarts + 1]
    BY <1>4 DEF Sent, missing
  <2> DEFINE packets == t.packets + 1
             restarts == t.restarts + 1
  <2>3. n \in Nat /\ packets \in Nat /\ restarts \in Nat
    BY <1>1, <1>3, <2>1
  <2> HIDE DEF packets, restarts
  <2>4. [t EXCEPT !.first = n, !.high = n, !.long = 0, !.short = 0,
                  !.packets = packets, !.restarts = restarts] \in Sender
    BY <2>3, SenderField
  <2> QED
    BY <2>2, <2>4 DEF packets, restarts
<1>5. CASE ~(missing >= MaxGap)
  <2> DEFINE high == IF n > t.high THEN n ELSE t.high
             long == t.long + IF missing >= Burst THEN missing ELSE 0
             short == t.short + IF missing < Burst THEN missing ELSE 0
             all == t.missing + missing
             packets == t.packets + 1
  <2>1. Sent(t, n) = [t EXCEPT !.high = high, !.long = long, !.short = short,
                               !.missing = all, !.packets = packets]
    BY <1>5 DEF Sent, missing
  <2>2. high \in Nat /\ long \in Nat /\ short \in Nat /\ all \in Nat /\ packets \in Nat
    BY <1>1, <1>2, <1>3
  <2> HIDE DEF high, long, short, all, packets
  <2>3. [t EXCEPT !.high = high, !.long = long, !.short = short,
                  !.missing = all, !.packets = packets] \in Sender
    BY <2>2, SenderField
  <2> QED
    BY <2>1, <2>3
<1> QED
  BY <1>4, <1>5

\* The fields that the packet after a gap changes.
LEMMA AdvancedOf ==
  ASSUME NEW s \in Stream, NEW seq \in 0..SeqMod-1, NEW d \in Nat \ {0},
         Delta(seq, s.maxSeq) = d, NEW audio \in BOOLEAN
  PROVE  LET o == Advanced(s, seq, audio)
         IN /\ o \in Stream
            /\ o.maxSeq = seq /\ o.total = s.total + 1 /\ o.lost = s.lost + (d - 1)
            /\ o.burst = Classified(s).burst /\ o.gap = Classified(s).gap
            /\ o.lossRun = d - 1 /\ o.duplicate = s.duplicate /\ o.reorder = s.reorder
            /\ o.lossSeen = s.lossSeen /\ o.prevLoss = s.prevLoss
<1> DEFINE c == Classified(s)
           total == c.total + 1
           lost == c.lost + (d - 1)
           lossRun == c.lossRun + (d - 1)
           idle == IF audio THEN 0 ELSE c.idle
<1>1. /\ c \in Stream /\ c.total = s.total /\ c.lost = s.lost /\ c.lossRun = 0
      /\ c.duplicate = s.duplicate /\ c.reorder = s.reorder
      /\ c.lossSeen = s.lossSeen /\ c.prevLoss = s.prevLoss
  BY ClassifiedStream, ClassifiedFields
<1>2. /\ total \in Nat /\ total # 0 /\ lost \in Nat /\ lossRun \in Nat
      /\ idle \in 0..Expired /\ idle \in Nat /\ seq \in Nat
      /\ total = s.total + 1 /\ lost = s.lost + (d - 1) /\ lossRun = d - 1
  <2>1. s.total \in Nat \ {0} /\ s.lost \in Nat
    BY DEF Stream
  <2>2. c.idle \in 0..Expired /\ 0 \in 0..Expired /\ Expired \in Nat
    BY <1>1, TimeAssumption DEF Stream, Expired
  <2> HIDE DEF c
  <2> QED
    BY <1>1, <2>1, <2>2, SpaceSize
<1> DEFINE o == [c EXCEPT !.maxSeq = seq, !.total = total, !.lost = lost,
                          !.lossRun = lossRun, !.idle = idle]
<1>3. Advanced(s, seq, audio) = o
  BY DEF Advanced
<1> HIDE DEF c, total, lost, lossRun, idle
<1>4. o \in Stream
  BY <1>1, <1>2, StreamField
<1>5. /\ o.maxSeq = seq /\ o.total = total /\ o.lost = lost /\ o.lossRun = lossRun
      /\ o.burst = c.burst /\ o.gap = c.gap
      /\ o.duplicate = c.duplicate /\ o.reorder = c.reorder
      /\ o.lossSeen = c.lossSeen /\ o.prevLoss = c.prevLoss
  BY <1>1 DEF Stream
<1> HIDE DEF o
<1> QED
  BY <1>1, <1>2, <1>3, <1>4, <1>5 DEF c

LEMMA RestartedOf ==
  ASSUME NEW s \in Stream, NEW seq \in 0..SeqMod-1
  PROVE  LET o == Restarted(s, seq)
         IN /\ o \in Stream
            /\ o.maxSeq = seq /\ o.total = 1 /\ o.lost = 0 /\ o.burst = 0 /\ o.gap = 0
            /\ o.lossRun = 0 /\ o.duplicate = 0 /\ o.reorder = 0
            /\ o.lossSeen = s.lossSeen /\ o.prevLoss = s.prevLoss
<1>1. seq \in Nat /\ {0, 1} \subseteq Nat /\ 1 # 0 /\ 0 \in 0..Expired
  BY SpaceSize, TimeAssumption DEF Expired
<1>2. Restarted(s, seq) \in Stream
  BY <1>1, StreamField DEF Restarted
<1>3. LET o == Restarted(s, seq)
      IN /\ o.maxSeq = seq /\ o.total = 1 /\ o.lost = 0 /\ o.burst = 0 /\ o.gap = 0
         /\ o.lossRun = 0 /\ o.duplicate = 0 /\ o.reorder = 0
         /\ o.lossSeen = s.lossSeen /\ o.prevLoss = s.prevLoss
  BY DEF Restarted, Stream
<1> QED
  BY <1>2, <1>3

LEMMA ReorderedOf ==
  ASSUME NEW s \in Stream
  PROVE  /\ LET o == Reordered(s)
            IN /\ o \in Stream /\ o.reorder = s.reorder + 1 /\ o.duplicate = s.duplicate
               /\ o.maxSeq = s.maxSeq /\ o.total = s.total /\ o.lost = s.lost
               /\ o.burst = s.burst /\ o.gap = s.gap /\ o.lossRun = s.lossRun
               /\ o.lossSeen = s.lossSeen /\ o.prevLoss = s.prevLoss
         /\ LET o == Repeated(s)
            IN /\ o \in Stream /\ o.duplicate = s.duplicate + 1 /\ o.reorder = s.reorder
               /\ o.maxSeq = s.maxSeq /\ o.total = s.total /\ o.lost = s.lost
               /\ o.burst = s.burst /\ o.gap = s.gap /\ o.lossRun = s.lossRun
               /\ o.lossSeen = s.lossSeen /\ o.prevLoss = s.prevLoss
<1>1. s.reorder + 1 \in Nat /\ s.duplicate + 1 \in Nat
  BY DEF Stream
<1>2. Reordered(s) \in Stream /\ Repeated(s) \in Stream
  BY <1>1, StreamField DEF Reordered, Repeated
<1> QED
  BY <1>2 DEF Stream, Reordered, Repeated

\* The counters, by what observe did to the stream's own.
LEMMA ExportedOf ==
  ASSUME NEW x \in Counts, NEW old \in Stream, NEW new \in Stream
  PROVE  LET y == Exported(x, old, new)
         IN /\ y \in Counts
            /\ y.packets = x.packets + IF new.total > old.total THEN 1 ELSE 0
            /\ y.lost = x.lost + IF new.lost >= old.lost THEN new.lost - old.lost ELSE 0
            /\ y.duplicate = x.duplicate + IF new.duplicate > old.duplicate THEN 1 ELSE 0
            /\ y.reorder = x.reorder + IF new.reorder > old.reorder THEN 1 ELSE 0
<1>1. /\ old.lost \in Nat /\ new.lost \in Nat
      /\ x.packets \in Nat /\ x.lost \in Nat /\ x.duplicate \in Nat /\ x.reorder \in Nat
  BY DEF Stream, Counts
<1> DEFINE packets == x.packets + IF new.total > old.total THEN 1 ELSE 0
           lost == x.lost + IF new.lost >= old.lost THEN new.lost - old.lost ELSE 0
           duplicate == x.duplicate + IF new.duplicate > old.duplicate THEN 1 ELSE 0
           reorder == x.reorder + IF new.reorder > old.reorder THEN 1 ELSE 0
<1>2. packets \in Nat /\ lost \in Nat /\ duplicate \in Nat /\ reorder \in Nat
  BY <1>1
<1>3. Exported(x, old, new) = [packets |-> packets, lost |-> lost,
                               duplicate |-> duplicate, reorder |-> reorder]
  BY DEF Exported
<1> HIDE DEF packets, lost, duplicate, reorder
<1>4. Exported(x, old, new) \in Counts
  BY <1>2, <1>3 DEF Counts
<1> QED
  BY <1>3, <1>4 DEF packets, lost, duplicate, reorder

\* Whatever packet of the window arrives, a stream agrees with its sender.
LEMMA ReceivedAgree ==
  ASSUME NEW s \in Stream, NEW t \in Sender, NEW x \in Counts, Agree(s, t, x),
         NEW n \in Int, t.high - Half <= n, n < t.high + Half, NEW audio \in BOOLEAN
  PROVE  LET o == Observed(s, n % SeqMod, audio)
         IN o \in Stream /\ Sent(t, n) \in Sender /\ Exported(x, s, o) \in Counts
            /\ Agree(o, Sent(t, n), Exported(x, s, o))
            /\ o.lossSeen = s.lossSeen /\ o.prevLoss = s.prevLoss
<1> DEFINE seq == n % SeqMod
           o == Observed(s, seq, audio)
           u == Sent(t, n)
           y == Exported(x, s, o)
           d == n - t.high
<1>1. /\ t.high \in Nat /\ t.first \in Nat /\ t.long \in Nat /\ t.short \in Nat
      /\ t.missing \in Nat /\ t.packets \in Nat /\ t.restarts \in Nat
  BY DEF Sender
<1>2. /\ s.total \in Nat \ {0} /\ s.lost \in Nat /\ s.burst \in Nat /\ s.gap \in Nat
      /\ s.duplicate \in Nat /\ s.reorder \in Nat /\ s.lossRun \in Nat
  BY DEF Stream
<1>3. x.packets \in Nat /\ x.lost \in Nat /\ x.duplicate \in Nat /\ x.reorder \in Nat
  BY DEF Counts
<1>4. /\ s.maxSeq = t.high % SeqMod
      /\ s.total + s.lost = t.high - t.first + 1
      /\ Classified(s).burst = t.long /\ Classified(s).gap = t.short
      /\ x.packets + x.duplicate + x.reorder = t.packets - t.restarts
      /\ x.lost = t.missing
  BY DEF Agree
<1>5. seq \in 0..SeqMod-1
  BY Modulo, SpaceSize
<1>6. d \in Int /\ -Half <= d /\ d < Half
  BY <1>1, SpaceAssumption
<1>7. Delta(seq, s.maxSeq) = IF d >= 0 THEN d ELSE d + SeqMod
  <2>1. Delta(seq, s.maxSeq) = IF n >= t.high THEN n - t.high ELSE n - t.high + SeqMod
    BY <1>1, <1>4, DeltaInWindow
  <2>2. n >= t.high <=> d >= 0
    BY <1>1
  <2> QED
    BY <2>1, <2>2
<1>8. u \in Sender
  BY SentType
<1>9. u.high % SeqMod = IF n > t.high THEN seq ELSE s.maxSeq
  <2>1. u.high = IF n > t.high THEN n ELSE t.high
    BY <1>1, SentLate, SentNext, SentFar, SpaceAssumption
  <2> QED
    BY <1>4, <2>1
<1> SUFFICES /\ o \in Stream /\ y \in Counts /\ Agree(o, u, y)
             /\ o.lossSeen = s.lossSeen /\ o.prevLoss = s.prevLoss
  BY <1>8
<1> HIDE DEF seq
<1>10. CASE d <= 0
  <2>1. n <= t.high /\ ~(n > t.high)
    BY <1>1, <1>10
  <2>2. /\ u.first = t.first /\ u.high = t.high /\ u.long = t.long /\ u.short = t.short
        /\ u.missing = t.missing /\ u.packets = t.packets + 1 /\ u.restarts = t.restarts
    BY <2>1, SentLate
  <2>3. /\ d < 0 => o = Reordered(s)
        /\ d = 0 => o = Repeated(s)
    BY <1>6, <1>7, ObservedOf
  <2>4. d < 0 \/ d = 0
    BY <1>6, <1>10
  <2>5. /\ o \in Stream /\ o.maxSeq = s.maxSeq /\ o.total = s.total /\ o.lost = s.lost
        /\ o.burst = s.burst /\ o.gap = s.gap /\ o.lossRun = s.lossRun
        /\ o.lossSeen = s.lossSeen /\ o.prevLoss = s.prevLoss
        /\ \/ o.reorder = s.reorder + 1 /\ o.duplicate = s.duplicate
           \/ o.reorder = s.reorder /\ o.duplicate = s.duplicate + 1
    BY <2>3, <2>4, ReorderedOf
  <2> HIDE DEF o, u
  <2>6. /\ y \in Counts /\ y.packets = x.packets /\ y.lost = x.lost
        /\ \/ y.reorder = x.reorder + 1 /\ y.duplicate = x.duplicate
           \/ y.reorder = x.reorder /\ y.duplicate = x.duplicate + 1
    BY <1>2, <1>3, <2>5, ExportedOf
  <2>7. Classified(o).burst = Classified(s).burst /\ Classified(o).gap = Classified(s).gap
    BY <2>5, ClassifiedFields
  <2> HIDE DEF y
  <2>8. y.packets + y.duplicate + y.reorder = u.packets - u.restarts
    <3>1. y.packets + y.duplicate + y.reorder = (x.packets + x.duplicate + x.reorder) + 1
      BY <1>3, <2>6
    <3> QED
      BY <1>1, <1>4, <2>2, <3>1
  <2>9. o.maxSeq = u.high % SeqMod
    BY <1>9, <2>1, <2>5
  <2> QED
    BY <1>4, <2>2, <2>5, <2>6, <2>7, <2>8, <2>9 DEF Agree
<1>11. CASE d > 0 /\ d <= MaxGap
  <2>1. n > t.high /\ n - t.high <= MaxGap /\ d \in Nat \ {0}
    BY <1>1, <1>6, <1>11
  <2>2. /\ u.first = t.first /\ u.high = n
        /\ u.long = t.long + IF d - 1 >= Burst THEN d - 1 ELSE 0
        /\ u.short = t.short + IF d - 1 < Burst THEN d - 1 ELSE 0
        /\ u.missing = t.missing + (d - 1)
        /\ u.packets = t.packets + 1 /\ u.restarts = t.restarts
    BY <2>1, SentNext
  <2>3. o = Advanced(s, seq, audio)
    BY <1>6, <1>7, <1>11, ObservedOf
  <2>4. /\ o \in Stream
        /\ o.maxSeq = seq /\ o.total = s.total + 1 /\ o.lost = s.lost + (d - 1)
        /\ o.burst = Classified(s).burst /\ o.gap = Classified(s).gap
        /\ o.lossRun = d - 1 /\ o.duplicate = s.duplicate /\ o.reorder = s.reorder
        /\ o.lossSeen = s.lossSeen /\ o.prevLoss = s.prevLoss
    <3>1. Delta(seq, s.maxSeq) = d
      BY <1>6, <1>7, <1>11
    <3> HIDE DEF o, d
    <3> QED
      BY <1>5, <2>1, <2>3, <3>1, AdvancedOf
  <2> HIDE DEF o, u
  <2>5. d - 1 \in Nat
    BY <2>1
  <2>6. /\ y \in Counts /\ y.packets = x.packets + 1 /\ y.lost = x.lost + (d - 1)
        /\ y.duplicate = x.duplicate /\ y.reorder = x.reorder
    BY <1>2, <1>3, <2>4, <2>5, ExportedOf
  <2>7. /\ Classified(o).burst = u.long /\ Classified(o).gap = u.short
    BY <1>1, <1>4, <2>2, <2>4, <2>5, ClassifiedFields, TimeAssumption
  <2> HIDE DEF y
  <2>8. y.packets + y.duplicate + y.reorder = u.packets - u.restarts
    BY <1>1, <1>3, <1>4, <2>2, <2>6
  <2>9. o.total + o.lost = u.high - u.first + 1
    BY <1>1, <1>2, <1>4, <2>2, <2>4
  <2>10. o.maxSeq = u.high % SeqMod
    BY <1>9, <2>1, <2>4
  <2>11. y.lost = u.missing
    BY <1>4, <2>2, <2>6
  <2> QED
    BY <2>4, <2>6, <2>7, <2>8, <2>9, <2>10, <2>11 DEF Agree
<1>12. CASE d > MaxGap
  <2>1. n > t.high /\ n - t.high > MaxGap
    BY <1>1, <1>12, SpaceAssumption
  <2>2. /\ u.first = n /\ u.high = n /\ u.long = 0 /\ u.short = 0
        /\ u.missing = t.missing
        /\ u.packets = t.packets + 1 /\ u.restarts = t.restarts + 1
    BY <2>1, SentFar
  <2>3. o = Restarted(s, seq)
    BY <1>6, <1>7, <1>12, ObservedOf
  <2>4. /\ o \in Stream
        /\ o.maxSeq = seq /\ o.total = 1 /\ o.lost = 0 /\ o.burst = 0 /\ o.gap = 0
        /\ o.lossRun = 0 /\ o.duplicate = 0 /\ o.reorder = 0
        /\ o.lossSeen = s.lossSeen /\ o.prevLoss = s.prevLoss
    BY <1>5, <2>3, RestartedOf
  <2> HIDE DEF o, u
  <2>5. /\ y \in Counts /\ y.packets = x.packets /\ y.lost = x.lost
        /\ y.duplicate = x.duplicate /\ y.reorder = x.reorder
    BY <1>2, <1>3, <2>4, ExportedOf
  <2>6. Classified(o).burst = 0 /\ Classified(o).gap = 0
    BY <2>4, ClassifiedFields, TimeAssumption
  <2> HIDE DEF y
  <2>7. y.packets + y.duplicate + y.reorder = u.packets - u.restarts
    BY <1>1, <1>3, <1>4, <2>2, <2>5
  <2>8. o.maxSeq = u.high % SeqMod
    BY <1>9, <2>1, <2>4
  <2>9. o.total + o.lost = u.high - u.first + 1
    BY <2>2, <2>4
  <2> QED
    BY <1>4, <2>2, <2>4, <2>5, <2>6, <2>7, <2>8, <2>9 DEF Agree
<1> QED
  BY <1>6, <1>10, <1>11, <1>12, SpaceAssumption

\* Agreement does not depend on the other fields.
LEMMA AgreeKept ==
  ASSUME NEW s \in Stream, NEW t, NEW x, Agree(s, t, x), NEW o \in Stream,
         o.maxSeq = s.maxSeq, o.total = s.total, o.lost = s.lost,
         o.burst = s.burst, o.gap = s.gap, o.lossRun = s.lossRun
  PROVE  Agree(o, t, x)
<1>1. Classified(o).burst = Classified(s).burst /\ Classified(o).gap = Classified(s).gap
  BY ClassifiedFields
<1> QED
  BY <1>1 DEF Agree

LEMMA ClassifiedAgree ==
  ASSUME NEW s \in Stream, NEW t, NEW x, Agree(s, t, x)
  PROVE  Agree(Classified(s), t, x)
<1> DEFINE c == Classified(s)
<1>1. /\ c \in Stream /\ c.lossRun = 0
      /\ c.maxSeq = s.maxSeq /\ c.total = s.total /\ c.lost = s.lost
  BY ClassifiedStream, ClassifiedFields
<1> HIDE DEF c
<1>2. Classified(c).burst = c.burst /\ Classified(c).gap = c.gap
  BY <1>1, ClassifiedOnce
<1> QED
  BY <1>1, <1>2 DEF Agree, c

LEMMA NewStreamOf ==
  ASSUME NEW seq \in 0..SeqMod-1
  PROVE  /\ NewStream(seq) \in Stream
         /\ NewStream(seq).lossSeen = FALSE /\ NewStream(seq).prevLoss = 0
<1>1. {0, 1} \subseteq Nat /\ 1 # 0 /\ 0 \in 0..Expired /\ Expired \in 0..Expired /\ 0 \in Int
  BY TimeAssumption DEF Expired
<1> QED
  BY <1>1 DEF NewStream, Stream

LEMMA NewAgree ==
  Agree(NewStream(FirstSeq % SeqMod), NothingSent, [NoCounts EXCEPT !.packets = 1])
<1> DEFINE s == NewStream(FirstSeq % SeqMod)
<1>1. s \in Stream /\ s.lossRun = 0 /\ s.burst = 0 /\ s.gap = 0 /\ s.total = 1 /\ s.lost = 0
      /\ s.maxSeq = FirstSeq % SeqMod
  BY Modulo, SpaceSize, BoundAssumption, NewStreamOf DEF NewStream
<1> HIDE DEF s
<1>2. Classified(s).burst = 0 /\ Classified(s).gap = 0
  BY <1>1, ClassifiedOnce
<1> QED
  BY <1>1, <1>2, BoundAssumption DEF Agree, NothingSent, NoCounts, s

LEMMA StreamReport ==
  ASSUME NEW s \in Stream, NEW v \in Int
  PROVE  [s EXCEPT !.prevLoss = v] \in Stream /\ [s EXCEPT !.lossSeen = TRUE] \in Stream
BY DEF Stream

\* A report changes nothing but what recordRTCP keeps of it.
LEMMA RecordedOf ==
  ASSUME NEW s \in Stream, NEW loss \in Int
  PROVE  LET o == Recorded(s, loss)
         IN /\ o \in Stream
            /\ o.maxSeq = s.maxSeq /\ o.total = s.total /\ o.lost = s.lost
            /\ o.burst = s.burst /\ o.gap = s.gap /\ o.lossRun = s.lossRun
            /\ o.lossSeen = TRUE
            /\ o.prevLoss = IF loss < 0 /\ s.lossSeen THEN s.prevLoss ELSE loss
<1>1. 0 \in Nat /\ 0 \in 0..Expired
  BY TimeAssumption DEF Expired
<1>2. [s EXCEPT !.rtcpIdle = 0] \in Stream
  BY <1>1, StreamField
<1>3. [s EXCEPT !.rtcpIdle = 0, !.lossSeen = TRUE, !.prevLoss = loss] \in Stream
  BY <1>1, StreamField, StreamReport
<1>4. CASE loss < 0 /\ s.lossSeen
  <2>1. Recorded(s, loss) = [s EXCEPT !.rtcpIdle = 0]
    BY <1>4 DEF Recorded
  <2> QED
    BY <1>2, <1>4, <2>1 DEF Stream
<1>5. CASE ~(loss < 0 /\ s.lossSeen)
  <2>1. Recorded(s, loss) = [s EXCEPT !.rtcpIdle = 0, !.lossSeen = TRUE, !.prevLoss = loss]
    BY <1>5 DEF Recorded
  <2> QED
    BY <1>3, <1>5, <2>1 DEF Stream
<1> QED
  BY <1>4, <1>5

LEMMA AgedOf ==
  ASSUME NEW s \in Stream
  PROVE  LET o == [s EXCEPT !.idle = Aged(s.idle), !.rtcpIdle = Aged(s.rtcpIdle)]
         IN /\ o \in Stream
            /\ o.maxSeq = s.maxSeq /\ o.total = s.total /\ o.lost = s.lost
            /\ o.burst = s.burst /\ o.gap = s.gap /\ o.lossRun = s.lossRun
            /\ o.lossSeen = s.lossSeen /\ o.prevLoss = s.prevLoss
<1> DEFINE a == Aged(s.idle)
           b == Aged(s.rtcpIdle)
<1>1. a \in 0..Expired /\ b \in 0..Expired
  BY TimeAssumption DEF Aged, Expired, Stream
<1>2. a \in Nat /\ b \in Nat
  BY <1>1, TimeAssumption DEF Expired
<1> HIDE DEF a, b
<1>3. [s EXCEPT !.idle = a, !.rtcpIdle = b] \in Stream
  BY <1>1, <1>2, StreamField
<1>4. LET o == [s EXCEPT !.idle = a, !.rtcpIdle = b]
      IN /\ o.maxSeq = s.maxSeq /\ o.total = s.total /\ o.lost = s.lost
         /\ o.burst = s.burst /\ o.gap = s.gap /\ o.lossRun = s.lossRun
         /\ o.lossSeen = s.lossSeen /\ o.prevLoss = s.prevLoss
  BY DEF Stream
<1> QED
  BY <1>3, <1>4 DEF a, b

\* What has no stream is no stream.
LEMMA StreamIsTracked ==
  ASSUME NEW s \in Stream
  PROVE  s # NoStream
BY DEF Stream, NoStream

-----------------------------------------------------------------------------
(* The steps.                                                              *)

LEMMA Typed ==
  ASSUME TypeOK, NEW k \in Keys
  PROVE  /\ Tracked(k) => streams[k] \in Stream
         /\ ~Tracked(k) => streams[k] = NoStream
         /\ sent[k] \in Sender /\ exported[k] \in Counts
         /\ credited[k] \in Nat /\ suffered[k] \in Nat /\ reported[k] \in Int
         /\ k[1] \in Endpoints /\ k[2] \in SSRCs /\ k = <<k[1], k[2]>>
         /\ ssrcIndex[k[2]][k[1]] \in Nat
BY DEF TypeOK, Tracked, Sender, Counts, Keys

LEMMA InitIInv == Init => IInv
<1> SUFFICES ASSUME Init PROVE IInv
  OBVIOUS
<1>1. TypeOK
  BY BoundAssumption DEF Init, TypeOK, NoCounts, NothingSent
<1>2. ASSUME NEW k \in Keys PROVE Sound(k)
  BY <1>1, Typed DEF Init, Sound, Tracked
<1> QED
  BY <1>1, <1>2 DEF IInv

LEMMA AddedIsNat ==
  ASSUME NEW s \in Stream, NEW loss \in Int
  PROVE  Added(s, loss) \in Nat
BY DEF Added, Stream

LEMMA AddedIsDue ==
  ASSUME NEW s \in Stream, NEW loss \in Int
  PROVE  Due(s, loss) \in Nat /\ Added(s, loss) <= Due(s, loss)
BY DEF Due, Added, Stream

\* A flow that a step does not touch stays sound.
LEMMA Untouched ==
  ASSUME NEW j \in Keys, Sound(j), streams'[j] = streams[j],
         ssrcIndex'[j[2]][j[1]] = ssrcIndex[j[2]][j[1]],
         exported'[j] = exported[j], sent'[j] = sent[j],
         credited'[j] = credited[j], suffered'[j] = suffered[j], reported'[j] = reported[j],
         j \in mixed \cup corrected => j \in mixed' \cup corrected'
  PROVE  Sound(j)'
BY DEF Sound, Tracked, Owed, Agree, Classified, Due

LEMMA BeginIInv ==
  ASSUME IInv, NEW k \in Keys, Begin(k)
  PROVE  IInv'
<1> DEFINE s == NewStream(FirstSeq % SeqMod)
<1>1. s \in Stream /\ s.lossSeen = FALSE /\ s.prevLoss = 0
  <2>1. FirstSeq % SeqMod \in 0..SeqMod-1
    BY Modulo, SpaceSize, BoundAssumption
  <2> QED
    BY <2>1, NewStreamOf
<1>2. TypeOK /\ \A j \in Keys : Sound(j)
  BY DEF IInv
<1>3. /\ k[1] \in Endpoints /\ k[2] \in SSRCs /\ ssrcIndex[k[2]][k[1]] = 0
      /\ streams' = [streams EXCEPT ![k] = s]
      /\ ssrcIndex' = [ssrcIndex EXCEPT ![k[2]][k[1]] = ssrcIndex[k[2]][k[1]] + 1]
      /\ exported' = [exported EXCEPT ![k] = [NoCounts EXCEPT !.packets = 1]]
      /\ credited' = [credited EXCEPT ![k] = 0] /\ sent' = [sent EXCEPT ![k] = NothingSent]
      /\ suffered' = [suffered EXCEPT ![k] = 0]
      /\ mixed' = mixed \ {k} /\ corrected' = corrected \ {k} /\ reported' = reported
  BY <1>2, Typed DEF Begin, Sound
<1>4. Agree(s, NothingSent, [NoCounts EXCEPT !.packets = 1])
  BY NewAgree
<1> HIDE DEF s
<1>5. TypeOK'
  <2>1. streams' \in [Keys -> Stream \cup {NoStream}]
    BY <1>1, <1>2, <1>3 DEF TypeOK
  <2>2. ssrcIndex' \in [SSRCs -> [Endpoints -> Nat]]
    BY <1>2, <1>3 DEF TypeOK
  <2>3. /\ exported' \in [Keys -> [packets : Nat, lost : Nat, duplicate : Nat, reorder : Nat]]
        /\ credited' \in [Keys -> Nat] /\ suffered' \in [Keys -> Nat]
    BY <1>2, <1>3 DEF TypeOK, NoCounts
  <2>4. sent' \in [Keys -> [first : Nat, high : Nat, long : Nat, short : Nat,
                            missing : Nat, packets : Nat, restarts : Nat]]
    BY <1>2, <1>3, BoundAssumption DEF TypeOK, NothingSent
  <2>5. events' \in 0..MaxEvents
    BY <1>2, BoundAssumption DEF TypeOK, Begin, Event
  <2> QED
    BY <1>2, <1>3, <2>1, <2>2, <2>3, <2>4, <2>5 DEF TypeOK
<1>6. ASSUME NEW j \in Keys
      PROVE  Sound(j)'
  <2>1. CASE j = k
    <3>1. streams'[j] = s /\ ssrcIndex'[j[2]][j[1]] = 1 /\ Tracked(j)'
      BY <1>1, <1>2, <1>3, <2>1, StreamIsTracked DEF TypeOK, Tracked
    <3>2. /\ sent'[j] = NothingSent /\ exported'[j] = [NoCounts EXCEPT !.packets = 1]
          /\ credited'[j] = 0 /\ suffered'[j] = 0
      BY <1>2, <1>3, <2>1 DEF TypeOK
    <3>3. Due(streams[j], reported[j])' = 0
      BY <1>1, <3>1 DEF Due
    <3>4. Agree(streams[j], sent[j], exported[j])'
      BY <1>4, <3>1, <3>2 DEF Agree, Classified
    <3>5. Owed(j)'
      BY <1>1, <3>1, <3>2, <3>3 DEF Owed
    <3> QED
      BY <1>2, <1>3, <3>1, <3>4, <3>5 DEF Sound
  <2>2. CASE j # k
    <3>1. streams'[j] = streams[j] /\ ssrcIndex'[j[2]][j[1]] = ssrcIndex[j[2]][j[1]]
      BY <1>2, <1>3, <2>2, Typed DEF TypeOK
    <3>2. /\ sent'[j] = sent[j] /\ exported'[j] = exported[j]
          /\ credited'[j] = credited[j] /\ suffered'[j] = suffered[j]
      BY <1>2, <1>3, <2>2 DEF TypeOK
    <3>3. j \in mixed \cup corrected => j \in mixed' \cup corrected'
      BY <1>3, <2>2
    <3> QED
      BY <1>2, <1>3, <3>1, <3>2, <3>3, Untouched
  <2> QED
    BY <2>1, <2>2
<1> QED
  BY <1>5, <1>6 DEF IInv

LEMMA ReceiveIInv ==
  ASSUME IInv, NEW k \in Keys, NEW n \in Window(k), NEW audio \in BOOLEAN,
         Receive(k, n, audio)
  PROVE  IInv'
<1> DEFINE o == Observed(streams[k], n % SeqMod, audio)
           u == Sent(sent[k], n)
           x == Exported(exported[k], streams[k], o)
<1>1. TypeOK /\ \A j \in Keys : Sound(j)
  BY DEF IInv
<1>2. /\ streams[k] \in Stream /\ sent[k] \in Sender /\ exported[k] \in Counts /\ Tracked(k)
      /\ Agree(streams[k], sent[k], exported[k])
  BY <1>1, Typed DEF Receive, Sound
<1>3. n \in Int /\ sent[k].high - Half <= n /\ n < sent[k].high + Half
  BY <1>2, SpaceAssumption DEF Window, Sender
<1>4. /\ o \in Stream /\ u \in Sender /\ x \in Counts /\ Agree(o, u, x)
      /\ o.lossSeen = streams[k].lossSeen /\ o.prevLoss = streams[k].prevLoss
  BY <1>2, <1>3, ReceivedAgree
<1>5. /\ streams' = [streams EXCEPT ![k] = o] /\ sent' = [sent EXCEPT ![k] = u]
      /\ exported' = [exported EXCEPT ![k] = x]
      /\ UNCHANGED <<ssrcIndex, credited, reported, suffered, mixed, corrected>>
  BY DEF Receive
<1> HIDE DEF o, u, x
<1>6. TypeOK'
  <2>1. events' \in 0..MaxEvents
    BY <1>1, BoundAssumption DEF TypeOK, Receive, Event
  <2>2. streams' \in [Keys -> Stream \cup {NoStream}]
    BY <1>1, <1>4, <1>5 DEF TypeOK
  <2>3. sent' \in [Keys -> Sender] /\ exported' \in [Keys -> Counts]
    BY <1>1, <1>4, <1>5 DEF TypeOK, Sender, Counts
  <2> QED
    BY <1>1, <1>5, <2>1, <2>2, <2>3 DEF TypeOK, Sender, Counts
<1>7. ASSUME NEW j \in Keys
      PROVE  Sound(j)'
  <2>1. CASE j = k
    <3>1. streams'[j] = o /\ sent'[j] = u /\ exported'[j] = x /\ Tracked(j)'
      BY <1>1, <1>4, <1>5, <2>1, StreamIsTracked DEF TypeOK, Tracked
    <3>2. Due(streams[j], reported[j])' = Due(streams[j], reported[j])
      BY <1>4, <1>5, <2>1, <3>1 DEF Due
    <3>3. Agree(streams[j], sent[j], exported[j])'
      BY <1>4, <3>1 DEF Agree, Classified
    <3>4. Owed(j)'
      BY <1>1, <1>2, <1>4, <1>5, <2>1, <3>1, <3>2 DEF Owed, Sound
    <3> QED
      BY <1>1, <1>2, <1>5, <2>1, <3>1, <3>3, <3>4 DEF Sound
  <2>2. CASE j # k
    <3>1. streams'[j] = streams[j] /\ sent'[j] = sent[j] /\ exported'[j] = exported[j]
      BY <1>1, <1>5, <2>2 DEF TypeOK
    <3> QED
      BY <1>1, <1>5, <3>1, Untouched
  <2> QED
    BY <2>1, <2>2
<1> QED
  BY <1>6, <1>7 DEF IInv

\* A step that gives streams another form of the same statistics.
LEMMA Restated ==
  ASSUME TypeOK, \A j \in Keys : Sound(j), UNCHANGED <<ssrcIndex, exported, credited, world>>,
         streams' \in [Keys -> Stream \cup {NoStream}],
         \A j \in Keys : Tracked(j)' <=> Tracked(j),
         \A j \in Keys : Tracked(j) =>
            /\ Agree(streams'[j], sent[j], exported[j])
            /\ streams'[j].lossSeen = streams[j].lossSeen
            /\ streams'[j].prevLoss = streams[j].prevLoss
  PROVE  IInv'
<1>1. TypeOK'
  BY DEF TypeOK, world
<1>2. ASSUME NEW j \in Keys
      PROVE  Sound(j)'
  <2>1. Due(streams[j], reported[j])' = Due(streams[j], reported[j]) \/ ~Tracked(j)
    BY DEF Due, world
  <2>2. Tracked(j) => Agree(streams[j], sent[j], exported[j])'
    BY DEF Agree, Classified, world
  <2>3. Tracked(j) => Owed(j)'
    BY <2>1 DEF Owed, Sound, world
  <2> QED
    BY <2>2, <2>3 DEF Sound, world
<1> QED
  BY <1>1, <1>2 DEF IInv

LEMMA SnapshotIInv ==
  ASSUME IInv, Snapshot
  PROVE  IInv'
<1>1. TypeOK /\ \A j \in Keys : Sound(j)
  BY DEF IInv
<1>2. ASSUME NEW j \in Keys
      PROVE  /\ streams'[j] = IF Tracked(j) THEN Classified(streams[j]) ELSE NoStream
             /\ streams'[j] \in Stream \cup {NoStream}
             /\ Tracked(j)' <=> Tracked(j)
             /\ Tracked(j) => /\ Agree(streams'[j], sent[j], exported[j])
                              /\ streams'[j].lossSeen = streams[j].lossSeen
                              /\ streams'[j].prevLoss = streams[j].prevLoss
  <2>1. streams'[j] = IF Tracked(j) THEN Classified(streams[j]) ELSE NoStream
    BY DEF Snapshot
  <2>2. CASE Tracked(j)
    <3>1. streams[j] \in Stream /\ Agree(streams[j], sent[j], exported[j])
      BY <1>1, <2>2, Typed DEF Sound
    <3>2. /\ Classified(streams[j]) \in Stream
          /\ Agree(Classified(streams[j]), sent[j], exported[j])
          /\ Classified(streams[j]).lossSeen = streams[j].lossSeen
          /\ Classified(streams[j]).prevLoss = streams[j].prevLoss
      BY <3>1, ClassifiedStream, ClassifiedAgree, ClassifiedFields
    <3>3. streams'[j] = Classified(streams[j])
      BY <2>1, <2>2
    <3> QED
      BY <2>1, <2>2, <3>2, <3>3, StreamIsTracked DEF Tracked
  <2>3. CASE ~Tracked(j)
    BY <2>1, <2>3 DEF Tracked
  <2> QED
    BY <2>1, <2>2, <2>3
<1>3. streams' \in [Keys -> Stream \cup {NoStream}]
  BY <1>2 DEF Snapshot
<1> QED
  BY <1>1, <1>2, <1>3, Restated DEF Snapshot

LEMMA TickIInv ==
  ASSUME IInv, Tick
  PROVE  IInv'
<1> DEFINE Older(s) == [s EXCEPT !.idle = Aged(s.idle), !.rtcpIdle = Aged(s.rtcpIdle)]
<1>1. TypeOK /\ \A j \in Keys : Sound(j)
  BY DEF IInv
<1>2. ASSUME NEW j \in Keys
      PROVE  /\ streams'[j] \in Stream \cup {NoStream}
             /\ Tracked(j)' <=> Tracked(j)
             /\ Tracked(j) => /\ Agree(streams'[j], sent[j], exported[j])
                              /\ streams'[j].lossSeen = streams[j].lossSeen
                              /\ streams'[j].prevLoss = streams[j].prevLoss
  <2>1. streams'[j] = IF Tracked(j) THEN Older(streams[j]) ELSE NoStream
    BY DEF Tick
  <2>2. CASE Tracked(j)
    <3> DEFINE o == Older(streams[j])
    <3>1. streams[j] \in Stream /\ Agree(streams[j], sent[j], exported[j])
      BY <1>1, <2>2, Typed DEF Sound
    <3>2. /\ o \in Stream
          /\ o.maxSeq = streams[j].maxSeq /\ o.total = streams[j].total
          /\ o.lost = streams[j].lost /\ o.burst = streams[j].burst
          /\ o.gap = streams[j].gap /\ o.lossRun = streams[j].lossRun
          /\ o.lossSeen = streams[j].lossSeen /\ o.prevLoss = streams[j].prevLoss
      BY <3>1, AgedOf
    <3>3. streams'[j] = o
      BY <2>1, <2>2
    <3> HIDE DEF o
    <3>4. Agree(o, sent[j], exported[j])
      BY <3>1, <3>2, AgreeKept
    <3> QED
      BY <2>2, <3>2, <3>3, <3>4, StreamIsTracked DEF Tracked
  <2>3. CASE ~Tracked(j)
    BY <2>1, <2>3 DEF Tracked
  <2> QED
    BY <2>2, <2>3
<1>3. streams' \in [Keys -> Stream \cup {NoStream}]
  BY <1>2 DEF Tick
<1> QED
  BY <1>1, <1>2, <1>3, Restated DEF Tick

LEMMA CleanupIInv ==
  ASSUME IInv, Cleanup
  PROVE  IInv'
<1>1. TypeOK /\ \A j \in Keys : Sound(j)
  BY DEF IInv
<1>2. /\ UNCHANGED <<exported, credited, world>>
      /\ streams' = [k \in Keys |-> IF k \in Idle THEN NoStream ELSE streams[k]]
      /\ ssrcIndex' = [s \in SSRCs |-> [e \in Endpoints |->
            IF <<e, s>> \in Idle THEN ssrcIndex[s][e] - 1 ELSE ssrcIndex[s][e]]]
  BY DEF Cleanup, Unindexed
<1>3. ASSUME NEW j \in Keys
      PROVE  /\ j[1] \in Endpoints /\ j[2] \in SSRCs /\ j = <<j[1], j[2]>>
             /\ ssrcIndex'[j[2]][j[1]] = IF j \in Idle THEN 0 ELSE ssrcIndex[j[2]][j[1]]
  <2>1. j[1] \in Endpoints /\ j[2] \in SSRCs /\ j = <<j[1], j[2]>>
    BY <1>1, Typed
  <2>2. j \in Idle => ssrcIndex[j[2]][j[1]] = 1
    BY <1>1 DEF Sound, Idle
  <2> QED
    BY <1>2, <2>1, <2>2
<1>4. TypeOK'
  <2>1. streams' \in [Keys -> Stream \cup {NoStream}]
    BY <1>1, <1>2 DEF TypeOK
  <2>2. ssrcIndex' \in [SSRCs -> [Endpoints -> Nat]]
    <3>1. ASSUME NEW s \in SSRCs, NEW e \in Endpoints
          PROVE  ssrcIndex'[s][e] \in Nat
      <4>1. <<e, s>> \in Keys /\ ssrcIndex[s][e] \in Nat
        BY <1>1 DEF Keys, TypeOK
      <4>2. ssrcIndex'[s][e] = IF <<e, s>> \in Idle THEN 0 ELSE ssrcIndex[s][e]
        BY <1>3, <4>1
      <4> QED
        BY <4>1, <4>2
    <3> QED
      BY <1>2, <3>1
  <2> QED
    BY <1>1, <1>2, <2>1, <2>2 DEF TypeOK, world
<1>5. ASSUME NEW j \in Keys
      PROVE  Sound(j)'
  <2>1. CASE j \in Idle
    <3>1. ~Tracked(j)' /\ ssrcIndex'[j[2]][j[1]] = 0
      BY <1>2, <1>3, <2>1 DEF Tracked
    <3> QED
      BY <1>1, <1>2, <3>1 DEF Sound, world
  <2>2. CASE j \notin Idle
    <3>1. streams'[j] = streams[j] /\ ssrcIndex'[j[2]][j[1]] = ssrcIndex[j[2]][j[1]]
      BY <1>2, <1>3, <2>2
    <3> QED
      BY <1>1, <1>2, <3>1, Untouched DEF world
  <2> QED
    BY <2>1, <2>2
<1> QED
  BY <1>4, <1>5 DEF IInv

\* selectStream returns a stream, ...
LEMMA SelectedTracked ==
  ASSUME TypeOK, NEW k \in Keys, NEW dst, NEW j \in Selected(k[2], k[1], dst)
  PROVE  j \in Keys /\ Tracked(j)
<1>1. k[1] \in Endpoints /\ k[2] \in SSRCs
  BY Typed
<1>2. \E e \in Endpoints : j = <<e, k[2]>> /\ Tracked(<<e, k[2]>>)
  BY <1>1 DEF Selected, Listed
<1> QED
  BY <1>1, <1>2 DEF Keys

\* ... and if not the one of the flow that the report is about, the report misleads.
LEMMA SelectedOther ==
  ASSUME TypeOK, \A i \in Keys : Sound(i), NEW k \in Keys, NEW dst,
         NEW j \in Selected(k[2], k[1], dst), j # k, Tracked(k)
  PROVE  dst \in {e \in Endpoints \ {k[1]} : Tracked(<<e, k[2]>>)}
<1>1. k[1] \in Endpoints /\ k[2] \in SSRCs /\ k = <<k[1], k[2]>>
  BY Typed
<1>2. Listed(k[2], k[1])
  BY <1>1 DEF Listed, Sound
<1>3. CASE dst \in Endpoints /\ Listed(k[2], dst)
  <2>1. j = <<dst, k[2]>>
    BY <1>3 DEF Selected
  <2>2. dst # k[1]
    BY <1>1, <2>1
  <2> QED
    BY <1>3, <2>2 DEF Listed
<1>4. CASE ~(dst \in Endpoints /\ Listed(k[2], dst))
  <2>1. j = <<k[1], k[2]>>
    BY <1>2, <1>4 DEF Selected
  <2> QED
    BY <1>1, <2>1
<1> QED
  BY <1>3, <1>4

LEMMA ReportIInv ==
  ASSUME IInv, NEW k \in Keys, NEW dst \in Endpoints \cup {Elsewhere}, Report(k, dst)
  PROVE  IInv'
<1> DEFINE found == Selected(k[2], k[1], dst)
           misleading == \/ ~Tracked(k)
                         \/ dst \in {e \in Endpoints \ {k[1]} : Tracked(<<e, k[2]>>)}
           loss == reported[k]
<1>1. TypeOK /\ \A j \in Keys : Sound(j)
  BY DEF IInv
<1>2. /\ streams' = [j \in Keys |-> IF j \in found THEN Recorded(streams[j], loss) ELSE streams[j]]
      /\ credited' = [j \in Keys |-> IF j \in found THEN credited[j] + Added(streams[j], loss)
                                     ELSE credited[j]]
      /\ suffered' = [suffered EXCEPT
                        ![k] = IF k \in found /\ ~streams[k].lossSeen THEN 0 ELSE suffered[k]]
      /\ mixed' = IF misleading THEN mixed \cup found ELSE mixed
      /\ UNCHANGED <<ssrcIndex, exported, sent, reported, corrected>>
  BY DEF Report
<1>3. \A j \in found : j \in Keys /\ Tracked(j)
  BY <1>1, SelectedTracked
<1>4. \A j \in found : j # k => misleading
  BY <1>1, SelectedOther
<1>5. loss \in Int
  BY <1>1, Typed
<1> HIDE DEF found, misleading, loss
<1>6. TypeOK'
  <2>1. \A j \in Keys : streams'[j] \in Stream \cup {NoStream} /\ credited'[j] \in Nat
    <3> TAKE j \in Keys
    <3>1. CASE j \in found
      <4>1. streams[j] \in Stream /\ credited[j] \in Nat
        BY <1>1, <1>3, <3>1, Typed
      <4>2. Recorded(streams[j], loss) \in Stream /\ Added(streams[j], loss) \in Nat
        BY <1>5, <4>1, RecordedOf, AddedIsNat
      <4> QED
        BY <1>2, <3>1, <4>1, <4>2
    <3>2. CASE j \notin found
      BY <1>1, <1>2, <3>2 DEF TypeOK
    <3> QED
      BY <3>1, <3>2
  <2>2. streams' \in [Keys -> Stream \cup {NoStream}] /\ credited' \in [Keys -> Nat]
    BY <1>2, <2>1
  <2>3. suffered' \in [Keys -> Nat] /\ mixed' \subseteq Keys
    BY <1>1, <1>2, <1>3 DEF TypeOK
  <2>4. events' \in 0..MaxEvents
    BY <1>1, BoundAssumption DEF TypeOK, Report, Event
  <2> QED
    BY <1>1, <1>2, <2>2, <2>3, <2>4 DEF TypeOK
<1>7. ASSUME NEW j \in Keys
      PROVE  Sound(j)'
  <2>1. CASE j \in found
    <3> DEFINE s == streams[j]
               o == Recorded(s, loss)
    <3>1. s \in Stream /\ Agree(s, sent[j], exported[j]) /\ Tracked(j) /\ Owed(j)
      BY <1>1, <1>3, <2>1, Typed DEF Sound
    <3>2. /\ credited[j] \in Nat /\ suffered[j] \in Nat
          /\ s.prevLoss \in Int /\ s.lossSeen \in BOOLEAN
      BY <1>1, <3>1, Typed DEF Stream
    <3>3. /\ o \in Stream
          /\ o.maxSeq = s.maxSeq /\ o.total = s.total /\ o.lost = s.lost
          /\ o.burst = s.burst /\ o.gap = s.gap /\ o.lossRun = s.lossRun
          /\ o.lossSeen = TRUE
          /\ o.prevLoss = IF loss < 0 /\ s.lossSeen THEN s.prevLoss ELSE loss
      BY <1>5, <3>1, RecordedOf
    <3>4. streams'[j] = o /\ credited'[j] = credited[j] + Added(s, loss)
      BY <1>2, <2>1
    <3>5. Added(s, loss) = IF loss < 0 \/ ~s.lossSeen THEN 0
                           ELSE IF loss >= s.prevLoss THEN loss - s.prevLoss ELSE loss
      BY DEF Added
    <3> HIDE DEF o
    <3>6. Agree(o, sent[j], exported[j])
      BY <3>1, <3>3, AgreeKept
    <3>7. Agree(streams[j], sent[j], exported[j])'
      BY <1>2, <3>4, <3>6 DEF Agree, Classified
    <3>8. Tracked(j)' /\ streams'[j].lossSeen
      BY <3>3, <3>4, StreamIsTracked DEF Tracked
    <3>9. ASSUME j \notin mixed' \cup corrected'
          PROVE  credited'[j] + Due(streams'[j], reported'[j]) <= suffered'[j]
      <4>1. j = k /\ j \notin mixed \cup corrected
        BY <1>2, <1>4, <2>1, <3>9
      <4>2. reported'[j] = loss
        BY <1>2, <4>1 DEF loss
      <4>3. Added(s, loss) + Due(o, loss) <= Due(s, loss)
        BY <1>5, <3>2, <3>3, <3>5 DEF Due
      <4>4. suffered'[j] = IF ~s.lossSeen THEN 0 ELSE suffered[j]
        BY <1>1, <1>2, <2>1, <4>1 DEF TypeOK
      <4>5. /\ ~s.lossSeen => credited[j] = 0
            /\ credited[j] + Due(s, loss) <= suffered[j]
        BY <3>1, <4>1 DEF Owed, loss
      <4>6. Due(streams'[j], reported'[j]) = Due(o, loss)
        BY <3>4, <4>2
      <4>7. /\ Added(s, loss) \in Int /\ Due(s, loss) \in Int /\ Due(o, loss) \in Int
            /\ ~s.lossSeen => Due(s, loss) = 0
        BY <1>5, <3>1, <3>3, AddedIsNat, AddedIsDue DEF Due
      <4>8. credited[j] + Due(s, loss) <= suffered'[j]
        BY <3>2, <4>4, <4>5, <4>7
      <4> QED
        BY <1>1, <3>2, <3>4, <4>3, <4>4, <4>6, <4>7, <4>8
    <3>10. Owed(j)'
      BY <3>8, <3>9 DEF Owed
    <3>11. ssrcIndex'[j[2]][j[1]] = 1
      BY <1>1, <1>2, <3>1 DEF Sound
    <3> QED
      BY <3>7, <3>8, <3>10, <3>11 DEF Sound
  <2>2. CASE j \notin found
    <3>1. streams'[j] = streams[j] /\ credited'[j] = credited[j]
      BY <1>2, <2>2
    <3>2. suffered'[j] = suffered[j]
      BY <1>1, <1>2, <2>2 DEF TypeOK
    <3> QED
      BY <1>1, <1>2, <3>1, <3>2, Untouched
  <2> QED
    BY <2>1, <2>2
<1> QED
  BY <1>6, <1>7 DEF IInv

\* What happens to the receiver, and not to the statistics.
LEMMA ReceiverIInv ==
  ASSUME IInv, NEW k \in Keys, Suffer(k) \/ Correct(k) \/ \E loss \in {-1, 0} : Replace(k, loss)
  PROVE  IInv'
<1>1. TypeOK /\ \A j \in Keys : Sound(j)
  BY DEF IInv
<1>2. /\ UNCHANGED <<statistics, sent, mixed>>
      /\ reported[k] \in Int /\ suffered[k] \in Nat /\ credited[k] \in Nat
  BY <1>1, Typed DEF Suffer, Correct, Replace, Sound
<1>3. PICK r \in Int : /\ reported' = [reported EXCEPT ![k] = r]
                       /\ \/ /\ r = reported[k] + 1 \/ (r = -LossHalf /\ reported[k] >= 0)
                             /\ corrected' = corrected
                             /\ suffered' = [suffered EXCEPT ![k] = suffered[k] + 1]
                          \/ /\ reported[k] > 0 /\ r = reported[k] - 1
                             /\ corrected' = corrected \cup {k} /\ suffered' = suffered
                          \/ /\ reported[k] > 0 /\ r \in {-1, 0} /\ corrected' = corrected
                             /\ suffered' = suffered
  BY <1>2, LossAssumption DEF Suffer, Correct, Replace
<1>4. TypeOK'
  <2>1. events' \in 0..MaxEvents
    BY <1>1, BoundAssumption DEF TypeOK, Suffer, Correct, Replace, Event
  <2>2. suffered' \in [Keys -> Nat]
    BY <1>1, <1>2, <1>3 DEF TypeOK
  <2>3. reported' \in [Keys -> Int] /\ corrected' \subseteq Keys
    BY <1>1, <1>2, <1>3 DEF TypeOK
  <2> QED
    BY <1>1, <1>2, <2>1, <2>2, <2>3 DEF TypeOK, statistics
<1>5. ASSUME NEW j \in Keys
      PROVE  Sound(j)'
  <2>1. CASE j = k
    <3>1. reported'[j] = r
      BY <1>1, <1>2, <1>3, <2>1 DEF TypeOK
    <3>2. ASSUME Tracked(j) PROVE Owed(j)'
      <4> DEFINE s == streams[j]
      <4>1. s \in Stream /\ Owed(j)
        BY <1>1, <3>2, Typed DEF Sound
      <4>2. s.prevLoss \in Int /\ s.lossSeen \in BOOLEAN
        BY <4>1 DEF Stream
      <4>3. ASSUME j \notin mixed' \cup corrected'
            PROVE  credited[j] + Due(s, r) <= suffered'[j]
        <5>1. credited[j] + Due(s, reported[j]) <= suffered[j]
          BY <1>2, <1>3, <4>1, <4>3 DEF Owed
        <5>2. \A v \in Int : Due(s, v) =
                IF ~s.lossSeen THEN 0
                ELSE IF v >= s.prevLoss THEN v - s.prevLoss
                ELSE IF v > 0 THEN v ELSE 0
          BY DEF Due
        <5> HIDE DEF s
        <5>3. CASE /\ r = reported[k] + 1 \/ (r = -LossHalf /\ reported[k] >= 0)
                   /\ suffered' = [suffered EXCEPT ![k] = suffered[k] + 1]
          <6>1. suffered'[j] = suffered[j] + 1
            BY <1>1, <2>1, <5>3 DEF TypeOK
          <6>2. Due(s, r) <= Due(s, reported[j]) + 1
            BY <1>2, <2>1, <4>2, <5>2, <5>3, LossAssumption
          <6>3. Due(s, r) \in Int /\ Due(s, reported[j]) \in Int
            BY <1>2, <2>1, <4>2, <5>2
          <6> QED
            BY <1>2, <2>1, <5>1, <6>1, <6>2, <6>3
        <5>4. CASE reported[k] > 0 /\ r \in {-1, 0} /\ suffered' = suffered
          <6>1. Due(s, r) <= Due(s, reported[j])
            BY <1>2, <2>1, <4>2, <5>2, <5>4
          <6>2. Due(s, r) \in Int /\ Due(s, reported[j]) \in Int
            BY <1>2, <2>1, <4>2, <5>2
          <6> QED
            BY <1>2, <2>1, <5>1, <5>4, <6>1, <6>2
        <5> QED
          BY <1>3, <2>1, <4>3, <5>3, <5>4
      <4>4. Due(streams[j], reported[j])' = Due(s, r)
        BY <1>2, <3>1 DEF Due, statistics
      <4> QED
        BY <1>2, <4>1, <4>3, <4>4 DEF Owed, statistics
    <3> QED
      BY <1>1, <1>2, <3>1, <3>2 DEF Sound, Tracked, Agree, Classified, statistics
  <2>2. CASE j # k
    <3>1. reported'[j] = reported[j] /\ suffered'[j] = suffered[j]
      BY <1>1, <1>3, <2>2 DEF TypeOK
    <3> QED
      BY <1>1, <1>2, <1>3, <3>1, Untouched DEF statistics
  <2> QED
    BY <2>1, <2>2
<1> QED
  BY <1>4, <1>5 DEF IInv

LEMMA NextIInv ==
  ASSUME IInv, [Next]_vars
  PROVE  IInv'
<1>1. CASE Next
  BY <1>1, BeginIInv, ReceiveIInv, ReportIInv, ReceiverIInv, SnapshotIInv, TickIInv,
     CleanupIInv DEF Next
<1>2. CASE UNCHANGED vars
  <2>1. TypeOK'
    BY <1>2 DEF IInv, TypeOK, vars, statistics, world
  <2>2. ASSUME NEW j \in Keys PROVE Sound(j)'
    BY <1>2, Untouched DEF IInv, vars, statistics, world
  <2> QED
    BY <2>1, <2>2 DEF IInv
<1> QED
  BY <1>1, <1>2

-----------------------------------------------------------------------------
(* The theorems.                                                           *)

\* The inductive invariant.
THEOREM Inductive == Spec => []IInv
<1>1. Init => IInv
  BY InitIInv
<1>2. IInv /\ [Next]_vars => IInv'
  BY NextIInv
<1> QED
  BY <1>1, <1>2, PTL DEF Spec

\* Every variable keeps its type: no counter of a stream, and no counter fed from
\* one, ever goes down below zero (StreamState, recordRTCP).
THEOREM TypeCorrect == Spec => []TypeOK
<1>1. IInv => TypeOK
  BY DEF IInv
<1> QED
  BY <1>1, Inductive, PTL

\* The packets counted as received and as lost are those between the first and the
\* highest number, for a sequence space of any size (StreamState.observe).
THEOREM SpanIsAccounted == Spec => []SpanAccounted
<1>1. IInv => SpanAccounted
  BY DEF IInv, Sound, Agree, SpanAccounted
<1> QED
  BY <1>1, Inductive, PTL

\* Every run of losses is counted once, as a burst or a gap (classifyLossRun).
THEOREM LossesAreClassified == Spec => []LossesClassified
<1>1. IInv => LossesClassified
  BY DEF IInv, Sound, Agree, LossesClassified
<1> QED
  BY <1>1, Inductive, PTL

\* The exported counters miss no packet, repeat none and survive restarts
\* (handleRTPIPv4).
THEOREM CountersAreComplete == Spec => []CountersComplete
<1>1. IInv => CountersComplete
  BY DEF IInv, Sound, Agree, CountersComplete
<1> QED
  BY <1>1, Inductive, PTL

\* The index lists the streams there are, once each (removeSSRCIndex).
THEOREM IndexIsExact == Spec => []IndexAgrees
<1>1. IInv => IndexAgrees
  BY DEF IInv, Sound, IndexAgrees
<1> QED
  BY <1>1, Inductive, PTL

\* A stream is credited with no loss that its own flow did not suffer, however often
\* its receiver is replaced (recordRTCP, selectStream).
THEOREM LossIsOwn == Spec => []OwnLoss
<1>1. ASSUME IInv PROVE OwnLoss
  <2>1. ASSUME NEW k \in Keys, Tracked(k), k \notin mixed \cup corrected
        PROVE  credited[k] <= suffered[k]
    <3>1. /\ streams[k] \in Stream /\ credited[k] \in Nat /\ suffered[k] \in Nat
          /\ reported[k] \in Int /\ Owed(k)
      BY <1>1, <2>1, Typed DEF IInv, Sound
    <3>2. Due(streams[k], reported[k]) \in Nat
      BY <3>1, AddedIsDue
    <3> QED
      BY <2>1, <3>1, <3>2 DEF Owed
  <2> QED
    BY <2>1 DEF OwnLoss
<1> QED
  BY <1>1, Inductive, PTL
=============================================================================
