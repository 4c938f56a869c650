----------------------------- MODULE RtpStreams -----------------------------
(***************************************************************************)
(* RTP stream statistics and RTCP correlation: the streams and ssrcIndex   *)
(* of internal/mediatracker/tracker.go, StreamState of stream.go, and the  *)
(* counters that handleRTPIPv4 and handleRTCPReport feed from them         *)
(* (internal/exporter/exporter.go).                                        *)
(*                                                                         *)
(* A flow is a media endpoint and an SSRC; which endpoint a packet belongs *)
(* to is the matter of MediaEndpoints.  The sender numbers its packets     *)
(* without bound, the header carries the number modulo SeqMod, and the     *)
(* network loses, repeats and reorders within half the space.  Ages stand  *)
(* for lastArrival and lastRTCP; they stop growing past the TTL.  Jitter   *)
(* and the E-model are left out: nothing but their own histograms reads    *)
(* them.                                                                   *)
(***************************************************************************)
EXTENDS Integers, FiniteSets

CONSTANTS Endpoints, SSRCs,
          Elsewhere,   \* an address without a media endpoint
          Half,        \* seqHalf; the sequence space is twice as large
          MaxGap,      \* maxGap
          Burst,       \* burstThreshold
          TTL,         \* the tracker's ttl
          LossHalf,    \* 2^23: the cumulative loss of a report has 24 bits and a sign
          FirstSeq,    \* the number of a flow's first packet
          MaxEvents    \* bound of the model: packets, reports, what receivers miss

ASSUME SpaceAssumption == Half \in Nat /\ MaxGap \in Nat /\ 1 <= MaxGap /\ MaxGap < Half
ASSUME TimeAssumption == TTL \in Nat /\ Burst \in Nat \ {0}
ASSUME PlaceAssumption == Elsewhere \notin Endpoints
ASSUME LossAssumption == LossHalf \in Nat \ {0}
ASSUME BoundAssumption == FirstSeq \in Nat /\ MaxEvents \in Nat

SeqMod == 2 * Half
Keys == Endpoints \X SSRCs

VARIABLES
    streams,    \* Tracker.streams
    ssrcIndex,  \* how often Tracker.ssrcIndex lists an endpoint for an SSRC
    exported,   \* a stream's share of rtp_packets, lost, duplicate, out_of_order
    credited,   \* and of rtcp_cumulative_loss
    \* The world.
    sent,       \* the sender's view of a stream
    reported,   \* the cumulative loss a flow's receiver reports
    suffered,   \* what the flow lost since its stream took the first report
    mixed,      \* streams that were given a report of a flow without a stream
    corrected,  \* streams whose receiver took back a loss: the packet was late
    events      \* how many of them there were

statistics == <<streams, ssrcIndex, exported, credited>>
world == <<sent, reported, suffered, mixed, corrected, events>>
vars == <<statistics, world>>

NoStream == [total |-> 0]
Tracked(k) == streams[k] # NoStream
Expired == TTL + 1          \* an age past the TTL
NoCounts == [packets |-> 0, lost |-> 0, duplicate |-> 0, reorder |-> 0]

\* The numbers a stream started with and has reached; those it skipped since, in
\* long runs and in short ones; all it ever skipped; its packets and restarts.
NothingSent == [first |-> FirstSeq, high |-> FirstSeq, long |-> 0, short |-> 0,
                missing |-> 0, packets |-> 1, restarts |-> 0]

Init ==
    /\ streams = [k \in Keys |-> NoStream]
    /\ ssrcIndex = [s \in SSRCs |-> [e \in Endpoints |-> 0]]
    /\ exported = [k \in Keys |-> NoCounts]
    /\ credited = [k \in Keys |-> 0]
    /\ sent = [k \in Keys |-> NothingSent]
    /\ reported = [k \in Keys |-> 1] /\ suffered = [k \in Keys |-> 0]
    /\ mixed = {} /\ corrected = {}
    /\ events = 0

Event == events < MaxEvents /\ events' = events + 1

-----------------------------------------------------------------------------
(* StreamState.                                                            *)

\* newStreamState and the first packet it observes.
NewStream(seq) ==
    [maxSeq |-> seq, total |-> 1, lost |-> 0, duplicate |-> 0, reorder |-> 0,
     burst |-> 0, gap |-> 0, lossRun |-> 0,
     idle |-> 0, rtcpIdle |-> Expired, lossSeen |-> FALSE, prevLoss |-> 0]

\* classifyLossRun.
ClassifiedStill(s) ==
    IF s.lossRun >= Burst THEN [s EXCEPT !.burst = @ + s.lossRun]
    ELSE [s EXCEPT !.gap = @ + s.lossRun, !.lossRun = 0]
Classified(s) ==
    IF s.lossRun >= Burst THEN [s EXCEPT !.burst = @ + s.lossRun, !.lossRun = 0]
    ELSE [s EXCEPT !.gap = @ + s.lossRun, !.lossRun = 0]

\* The uint16 difference of two sequence numbers.
DeltaWide(seq, maxSeq) == IF seq >= maxSeq THEN seq - maxSeq ELSE SeqMod - 1
Delta(seq, maxSeq) == (seq - maxSeq) % SeqMod

Restarted(s, seq) ==
    [s EXCEPT !.maxSeq = seq, !.total = 1, !.lost = 0, !.duplicate = 0, !.reorder = 0,
              !.burst = 0, !.gap = 0, !.lossRun = 0, !.idle = 0]
Advanced(s, seq, audio) ==
    LET missing == Delta(seq, s.maxSeq) - 1
    IN [Classified(s) EXCEPT !.maxSeq = seq, !.total = @ + 1, !.lost = @ + missing,
                             !.lossRun = @ + missing, !.idle = IF audio THEN 0 ELSE @]

\* StreamState.observe.
Observed(s, seq, audio) ==
    LET delta == Delta(seq, s.maxSeq)
    IN CASE delta >= Half -> [s EXCEPT !.reorder = @ + 1]
         [] delta > MaxGap /\ delta < Half -> Restarted(s, seq)
         [] delta > 0 /\ delta <= MaxGap -> Advanced(s, seq, audio)
         [] delta = 0 -> [s EXCEPT !.duplicate = @ + 1]

-----------------------------------------------------------------------------
(* RTP packets.                                                            *)

\* The ObserveResult of Tracker.observe, and the counters handleRTPIPv4 adds it to.
ExportedDiff(counts, old, new) ==
    [counts EXCEPT !.packets = @ + new.total - old.total, !.lost = @ + new.lost - old.lost]
Exported(counts, old, new) ==
    [packets   |-> counts.packets + IF new.total > old.total THEN 1 ELSE 0,
     lost      |-> counts.lost + IF new.lost >= old.lost THEN new.lost - old.lost ELSE 0,
     duplicate |-> counts.duplicate + IF new.duplicate > old.duplicate THEN 1 ELSE 0,
     reorder   |-> counts.reorder + IF new.reorder > old.reorder THEN 1 ELSE 0]

\* The sender's view after packet number n of a stream has arrived.
Sent(t, n) ==
    LET missing == IF n > t.high THEN n - t.high - 1 ELSE 0
    IN IF missing >= MaxGap
       THEN [t EXCEPT !.first = n, !.high = n, !.long = 0, !.short = 0,
                      !.packets = @ + 1, !.restarts = @ + 1]
       ELSE [t EXCEPT !.high = IF n > t.high THEN n ELSE t.high,
                      !.long = @ + IF missing >= Burst THEN missing ELSE 0,
                      !.short = @ + IF missing < Burst THEN missing ELSE 0,
                      !.missing = @ + missing, !.packets = @ + 1]

\* Tracker.observe and handleRTPIPv4: the first packet of a flow, ...
Begin(k) ==
    /\ ~Tracked(k) /\ Event
    /\ streams' = [streams EXCEPT ![k] = NewStream(FirstSeq % SeqMod)]
    /\ ssrcIndex' = [ssrcIndex EXCEPT ![k[2]][k[1]] = @ + 1]
    /\ exported' = [exported EXCEPT ![k] = [NoCounts EXCEPT !.packets = 1]]
    /\ credited' = [credited EXCEPT ![k] = 0]
    /\ sent' = [sent EXCEPT ![k] = NothingSent]
    /\ suffered' = [suffered EXCEPT ![k] = 0]
    /\ mixed' = mixed \ {k} /\ corrected' = corrected \ {k}
    /\ UNCHANGED reported

\* ... and a later one.
Receive(k, n, audio) ==
    /\ Tracked(k) /\ Event
    /\ LET s == Observed(streams[k], n % SeqMod, audio)
       IN /\ streams' = [streams EXCEPT ![k] = s]
          /\ exported' = [exported EXCEPT ![k] = Exported(@, streams[k], s)]
    /\ sent' = [sent EXCEPT ![k] = Sent(@, n)]
    /\ UNCHANGED <<ssrcIndex, credited, reported, suffered, mixed, corrected>>

\* Snapshot, for the sampled metrics of updateRTPMetrics.
Snapshot ==
    /\ streams' = [k \in Keys |-> IF Tracked(k) THEN Classified(streams[k]) ELSE NoStream]
    /\ UNCHANGED <<ssrcIndex, exported, credited, world>>

-----------------------------------------------------------------------------
(* RTCP reports.                                                           *)

\* selectStream: the stream of the SSRC at the destination, at the source, or the
\* only one.
Listed(s, e) == ssrcIndex[s][e] > 0 /\ Tracked(<<e, s>>)
Single(s) == {e \in Endpoints : ssrcIndex[s][e] > 0}
SelectedAny(s, src, dst) ==
    IF dst \in Endpoints /\ Listed(s, dst) THEN {<<dst, s>>}
    ELSE IF Single(s) = {} THEN {} ELSE {<<CHOOSE e \in Single(s) : TRUE, s>>}
Selected(s, src, dst) ==
    CASE dst \in Endpoints /\ Listed(s, dst) -> {<<dst, s>>}
      [] ~(dst \in Endpoints /\ Listed(s, dst)) /\ Listed(s, src) -> {<<src, s>>}
      [] OTHER -> {<<only, s>> : only \in {e \in Endpoints :
                        /\ Single(s) = {e} /\ ssrcIndex[s][e] = 1 /\ Listed(s, e)}}

\* recordRTCP: the entry after a report, and the loss it adds.
Recorded(s, loss) ==
    IF loss < 0 /\ s.lossSeen THEN [s EXCEPT !.rtcpIdle = 0]
    ELSE [s EXCEPT !.rtcpIdle = 0, !.lossSeen = TRUE, !.prevLoss = loss]
Added(s, loss) ==
    IF loss < 0 \/ ~s.lossSeen THEN 0
    ELSE IF loss >= s.prevLoss THEN loss - s.prevLoss ELSE loss

\* handleRTCPReport, for one block: the receiver of flow k reports to dst.  The
\* report misleads if its flow has no stream, or dst has one of the same SSRC.
Report(k, dst) ==
    LET found == Selected(k[2], k[1], dst)
        misleading == ~Tracked(k) \/ dst \in {e \in Endpoints \ {k[1]} : Tracked(<<e, k[2]>>)}
    IN /\ Event
       /\ streams' = [j \in Keys |->
                         IF j \in found THEN Recorded(streams[j], reported[k]) ELSE streams[j]]
       /\ credited' = [j \in Keys |->
                         IF j \in found THEN credited[j] + Added(streams[j], reported[k])
                         ELSE credited[j]]
       /\ suffered' = [suffered EXCEPT
                         ![k] = IF k \in found /\ ~streams[k].lossSeen THEN 0 ELSE @]
       /\ mixed' = IF misleading THEN mixed \cup found ELSE mixed
       /\ UNCHANGED <<ssrcIndex, exported, sent, reported, corrected>>

\* The receiver of a flow misses a packet, and what it reports may wrap; or it is
\* replaced, and begins with repeated packets (-1) or none.
Suffer(k) ==
    /\ Event
    /\ reported' = [reported EXCEPT ![k] = IF @ = LossHalf - 1 THEN -LossHalf ELSE @ + 1]
    /\ suffered' = [suffered EXCEPT ![k] = @ + 1]
    /\ UNCHANGED <<statistics, sent, mixed, corrected>>
Replace(k, loss) ==
    /\ reported[k] > 0 /\ Event
    /\ reported' = [reported EXCEPT ![k] = loss]
    /\ UNCHANGED <<statistics, sent, suffered, mixed, corrected>>

\* A packet that was counted as lost arrives late.
Correct(k) ==
    /\ reported[k] > 0 /\ Event
    /\ reported' = [reported EXCEPT ![k] = @ - 1]
    /\ corrected' = corrected \cup {k}
    /\ UNCHANGED <<statistics, sent, suffered, mixed>>

-----------------------------------------------------------------------------
(* Time.                                                                   *)

Aged(age) == IF age < Expired THEN age + 1 ELSE age
Tick ==
    /\ streams' = [k \in Keys |->
          IF Tracked(k) THEN [streams[k] EXCEPT !.idle = Aged(@), !.rtcpIdle = Aged(@)]
          ELSE NoStream]
    /\ UNCHANGED <<ssrcIndex, exported, credited, world>>

\* removeSSRCIndex, for the streams that go.
Unindexed(gone) ==
    [s \in SSRCs |-> [e \in Endpoints |->
        IF <<e, s>> \in gone THEN ssrcIndex[s][e] - 1 ELSE ssrcIndex[s][e]]]

\* Cleanup.
Idle == {k \in Keys : Tracked(k) /\ streams[k].idle > TTL /\ streams[k].rtcpIdle > TTL}
Cleanup ==
    /\ Idle # {}
    /\ streams' = [k \in Keys |-> IF k \in Idle THEN NoStream ELSE streams[k]]
    /\ ssrcIndex' = Unindexed(Idle)
    /\ UNCHANGED <<exported, credited, world>>

-----------------------------------------------------------------------------
\* A packet is less than half the space away from the newest one.
Window(k) == sent[k].high - Half .. sent[k].high + Half - 1

Next == \/ \E k \in Keys : \/ Begin(k)
                           \/ \E n \in Window(k), audio \in BOOLEAN : Receive(k, n, audio)
                           \/ \E dst \in Endpoints \cup {Elsewhere} : Report(k, dst)
                           \/ Suffer(k) \/ Correct(k)
                           \/ \E loss \in {-1, 0} : Replace(k, loss)
        \/ Snapshot \/ Tick \/ Cleanup

Spec == Init /\ [][Next]_vars

-----------------------------------------------------------------------------
(* Properties.                                                             *)

\* Type invariant.
Stream == [maxSeq : 0..SeqMod-1, total : Nat \ {0}, lost : Nat, duplicate : Nat,
           reorder : Nat, burst : Nat, gap : Nat, lossRun : Nat,
           idle : 0..Expired, rtcpIdle : 0..Expired, lossSeen : BOOLEAN, prevLoss : Int]
TypeOK ==
    /\ streams \in [Keys -> Stream \cup {NoStream}]
    /\ ssrcIndex \in [SSRCs -> [Endpoints -> Nat]]
    /\ exported \in [Keys -> [packets : Nat, lost : Nat, duplicate : Nat, reorder : Nat]]
    /\ credited \in [Keys -> Nat]
    /\ sent \in [Keys -> [first : Nat, high : Nat, long : Nat, short : Nat,
                          missing : Nat, packets : Nat, restarts : Nat]]
    /\ reported \in [Keys -> Int] /\ suffered \in [Keys -> Nat]
    /\ mixed \subseteq Keys /\ corrected \subseteq Keys
    /\ events \in 0..MaxEvents

\* However the sequence numbers wrap and the packets are reordered, the packets
\* counted as received and as lost are those between the first and the highest
\* number of the stream (StreamState.observe).
SpanAccounted ==
    \A k \in Keys : Tracked(k) =>
        streams[k].total + streams[k].lost = sent[k].high - sent[k].first + 1

\* Each run of lost packets is counted once, whole, as a burst or as a gap by its
\* length, whenever the scrape's snapshot falls (classifyLossRun).
LossesClassified ==
    \A k \in Keys : Tracked(k) =>
        LET s == Classified(streams[k])
        IN s.burst = sent[k].long /\ s.gap = sent[k].short

\* Every packet is exported as received, duplicate or out of order, but for those
\* that restart a stream, and every skipped number as lost, although a restart
\* sets the stream's own counters back (handleRTPIPv4, ObserveResult).
CountersComplete ==
    \A k \in Keys : Tracked(k) =>
        /\ exported[k].packets + exported[k].duplicate + exported[k].reorder
             = sent[k].packets - sent[k].restarts
        /\ exported[k].lost = sent[k].missing

\* The index lists a stream once, and no stream that is gone: a report finds the
\* streams there are, and "the only one" is (Tracker.ssrcIndex, removeSSRCIndex).
IndexAgrees ==
    \A k \in Keys : ssrcIndex[k[2]][k[1]] = IF Tracked(k) THEN 1 ELSE 0

\* A stream is credited with no more loss than its own flow suffered since the
\* first report, whatever flows share its SSRC, however often its receiver is
\* replaced and what it reports wraps, as long as their reports have a stream of their own and no packet
\* counted as lost turns up late (recordRTCP).
OwnLoss ==
    \A k \in Keys : Tracked(k) /\ k \notin mixed \cup corrected =>
        credited[k] <= suffered[k]
=============================================================================
