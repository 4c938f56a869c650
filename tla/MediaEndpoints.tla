--------------------------- MODULE MediaEndpoints ---------------------------
(***************************************************************************)
(* The media endpoints of the calls and what the kernel lets through:      *)
(* mediatracker.Tracker (internal/mediatracker/tracker.go), which knows    *)
(* the owners of each endpoint, and the exporter's reference counts and    *)
(* rtp_endpoints maps, one per interface (internal/exporter/exporter.go).  *)
(*                                                                         *)
(* A handler holds mediaLifecycleMu while `todo` lists the operations it   *)
(* has yet to make; each is a step, because the kernel reads the maps and  *)
(* the ticker repairs them and drops idle streams without that mutex.      *)
(*                                                                         *)
(* Labels are the call they belong to.  An RTP flow has one SSRC per       *)
(* endpoint.  Endpoints are IPv4; the maps hold every endpoint (MaxPort^2  *)
(* is far below their 65536 entries, so the kernel evicts none).           *)
(***************************************************************************)
EXTENDS Integers, FiniteSets, FiniteSetsExt, Sequences, SequencesExt

CONSTANTS Calls, Hosts, Interfaces,
          MaxPort,      \* maxUDPPort
          Descriptions, \* the media that an SDP offer and its answer describe
          Nobody        \* no call, no endpoint

Endpoint == [ip : Hosts, port : 1..MaxPort]

\* An SDP medium: its RTP endpoint, that of its a=rtcp if any, and a=rtcp-mux.
Medium == [rtp : Endpoint, rtcp : Endpoint \cup {Nobody}, mux : BOOLEAN]

ASSUME ConstantsAssumption == /\ MaxPort \in Nat \ {0}
                              /\ Nobody \notin Calls \cup Endpoint
ASSUME DescriptionsAssumption == Descriptions \subseteq Seq(Medium)
ASSUME FiniteAssumption == IsFiniteSet(Calls) /\ IsFiniteSet(Hosts)

VARIABLES
    \* the tracker
    owners,         \* mediaOwners
    order,          \* callMediaOrder; its elements are the keys of callMedia
    media,          \* the call whose labels the endpoint has
    sourceAliases,  \* per call and peer endpoint, the learned source
    mediaAliases,   \* the call whose learned source the endpoint is
    callRTCP,
    streams,        \* the call that labels the endpoint's stream
    observed,       \* dialogRTPObserved
    \* the exporter
    refs,           \* rtpEndpointRefs
    dirty,          \* dirtyRTPEndpoints
    aliasLabels,    \* keys of rtpAliasLabels
    gauge,          \* rtp_alias_active
    owed,           \* per call, alias releases the ticker has yet to report
    todo,
    \* the kernel
    present,        \* rtp_endpoints of each interface
    \* history
    heard           \* calls with an RTP packet since their media was registered

trackerVars == <<owners, order, media, sourceAliases, mediaAliases, callRTCP>>
rtpVars == <<streams, observed, heard>>
filterVars == <<refs, dirty, present>>
aliasVars == <<aliasLabels, gauge, owed>>
vars == <<trackerVars, rtpVars, filterVars, aliasVars, todo>>

Init ==
    /\ owners = [k \in Endpoint |-> <<>>] /\ order = [c \in Calls |-> <<>>]
    /\ media = [k \in Endpoint |-> Nobody]
    /\ sourceAliases = [c \in Calls |-> [k \in Endpoint |-> Nobody]]
    /\ mediaAliases = [k \in Endpoint |-> Nobody]
    /\ callRTCP = [c \in Calls |-> {}]
    /\ streams = [k \in Endpoint |-> Nobody] /\ observed = {} /\ heard = {}
    /\ refs = [k \in Endpoint |-> 0] /\ dirty = [k \in Endpoint |-> "clean"]
    /\ present = [i \in Interfaces |-> {}]
    /\ aliasLabels = {} /\ gauge = 0 /\ owed = [c \in Calls |-> 0]
    /\ todo = <<>>

Owns(c, k) == k \in ToSet(order[c])
AliasesOf(c) == {sourceAliases[c][k] : k \in Endpoint} \ {Nobody}

-----------------------------------------------------------------------------
(* The work of a handler.                                                  *)

Each(op, s) == [n \in DOMAIN s |-> [op |-> op, key |-> s[n]]]
Registrations(c, sdp) ==
    [n \in DOMAIN sdp |-> [op |-> "register", call |-> c, medium |-> sdp[n]]]
DropAliases(c, keys, by) == [op |-> "dropAliases", call |-> c, keys |-> keys, by |-> by]

Rest(next) == todo' = next \o Tail(todo)
Doing(op) == todo # <<>> /\ Head(todo).op = op

\* OwnedEndpoints and the list removeCallMedia returns; Go ranges over the maps
\* in any order, one stands for all.
Owned(c) == order[c] \o SetToSeq(AliasesOf(c)) \o SetToSeq(callRTCP[c])

-----------------------------------------------------------------------------
(* The exporter's reference counts and the kernel's maps.                  *)

\* setRTPEndpointPresence, with the interfaces whose map could not be updated.
SetPresenceForgetful(k, wanted, failing) ==
    /\ present' = [i \in Interfaces |->
                     IF i \in failing THEN present[i]
                     ELSE IF wanted = "present" THEN present[i] \cup {k}
                     ELSE present[i] \ {k}]
    /\ dirty' = IF failing = {} THEN dirty ELSE [dirty EXCEPT ![k] = wanted]

SetPresence(k, wanted, failing) ==
    /\ present' = [i \in Interfaces |->
                     IF i \in failing THEN present[i]
                     ELSE IF wanted = "present" THEN present[i] \cup {k}
                     ELSE present[i] \ {k}]
    /\ dirty' = [dirty EXCEPT ![k] = IF failing = {} THEN "clean" ELSE wanted]

\* retainRTPEndpoint.
Retain ==
    /\ Doing("retain")
    /\ LET k == Head(todo).key
       IN /\ refs' = [refs EXCEPT ![k] = @ + 1]
          /\ IF refs[k] > 0
             THEN UNCHANGED <<present, dirty>>
             ELSE \E failing \in SUBSET Interfaces : SetPresence(k, "present", failing)
    /\ Rest(<<>>)
    /\ UNCHANGED <<trackerVars, rtpVars, aliasVars>>

\* releaseRTPEndpoint.
Release ==
    /\ Doing("release")
    /\ LET k == Head(todo).key
       IN /\ refs' = [refs EXCEPT ![k] = IF @ > 0 THEN @ - 1 ELSE 0]
          /\ IF refs[k] # 1
             THEN UNCHANGED <<present, dirty>>
             ELSE \E failing \in SUBSET Interfaces : SetPresence(k, "absent", failing)
    /\ Rest(<<>>)
    /\ UNCHANGED <<trackerVars, rtpVars, aliasVars>>

\* reconcileRTPEndpoints, by the ticker.  A key a step: the mutex it holds for
\* all of them adds nothing, a failed update of the others leaves them as they are.
ReconcileAbsenceNever(k, failing) ==
    /\ dirty[k] = "present"
    /\ SetPresence(k, dirty[k], failing)
    /\ UNCHANGED <<refs, trackerVars, rtpVars, aliasVars, todo>>
Reconcile(k, failing) ==
    /\ dirty[k] # "clean"
    /\ SetPresence(k, dirty[k], failing)
    /\ UNCHANGED <<refs, trackerVars, rtpVars, aliasVars, todo>>

-----------------------------------------------------------------------------
(* The tracker.                                                            *)

KeepsStream(k, c) == streams
ForgetsStream(k, c) == IF streams[k] = c THEN [streams EXCEPT ![k] = Nobody] ELSE streams

\* resolveRTCEndpoint: at most one separate RTCP endpoint.
RTCPOf(m) ==
    IF m.rtcp # Nobody THEN <<m.rtcp>>
    ELSE IF m.mux \/ m.rtp.port = MaxPort THEN <<>>
    ELSE <<[m.rtp EXCEPT !.port = @ + 1]>>

\* Tracker.Register, with what registerMediaEndpoints makes of its result.
AddedAlways(c, k) == TRUE
Added(c, k) == ~Owns(c, k)
Displaced(k) == mediaAliases[k]
Register ==
    /\ Doing("register")
    /\ LET c == Head(todo).call
           m == Head(todo).medium
           k == m.rtp
           d == Displaced(k)
       IN /\ IF d = Nobody
             THEN UNCHANGED <<sourceAliases, mediaAliases, streams>>
             ELSE /\ sourceAliases' = [sourceAliases EXCEPT ![d] =
                         [p \in Endpoint |-> IF @[p] = k THEN Nobody ELSE @[p]]]
                  /\ mediaAliases' = [mediaAliases EXCEPT ![k] = Nobody]
                  /\ streams' = ForgetsStream(k, d)
          /\ IF Added(c, k)
             THEN /\ owners' = [owners EXCEPT ![k] = Append(@, c)]
                  /\ order' = [order EXCEPT ![c] = Append(@, k)]
             ELSE UNCHANGED <<owners, order>>
          /\ media' = [media EXCEPT ![k] = c]
          /\ Rest((IF Added(c, k) THEN Each("retain", <<k>>) ELSE <<>>)
                  \o (IF d = Nobody THEN <<>>
                      ELSE <<DropAliases(d, {k}, "consumer")>> \o Each("release", <<k>>))
                  \o [n \in DOMAIN RTCPOf(m) |->
                        [op |-> "registerRTCP", call |-> c, key |-> RTCPOf(m)[n]]])
    /\ UNCHANGED <<callRTCP, observed, heard, filterVars, aliasVars>>

\* Tracker.RegisterRTCP.
NewRTCPAlways(c, k) == TRUE
NewRTCP(c, k) == k \notin callRTCP[c]
RegisterRTCP ==
    /\ Doing("registerRTCP")
    /\ LET c == Head(todo).call
           k == Head(todo).key
       IN /\ callRTCP' = [callRTCP EXCEPT ![c] = @ \cup {k}]
          /\ Rest(IF NewRTCP(c, k) THEN Each("retain", <<k>>) ELSE <<>>)
    /\ UNCHANGED <<owners, order, media, sourceAliases, mediaAliases, rtpVars,
                   filterVars, aliasVars>>

\* The labels of an endpoint when call c goes: those of the last other owner.
StaleLabels(c, k) == media[k]
Heir(c, k) ==
    LET left == RemoveFirst(owners[k], c)
    IN IF left = <<>> THEN Nobody ELSE Last(left)

\* Tracker.removeCallMedia.
RemoveCallMedia(c) ==
    /\ owners' = [k \in Endpoint |-> RemoveFirst(owners[k], c)]
    /\ media' = [k \in Endpoint |-> IF Owns(c, k) THEN Heir(c, k) ELSE media[k]]
    /\ order' = [order EXCEPT ![c] = <<>>]
    /\ mediaAliases' = [k \in Endpoint |-> IF k \in AliasesOf(c) THEN Nobody
                                           ELSE mediaAliases[k]]
    /\ sourceAliases' = [sourceAliases EXCEPT ![c] = [k \in Endpoint |-> Nobody]]
    /\ callRTCP' = [callRTCP EXCEPT ![c] = {}]
    /\ streams' = [k \in Endpoint |-> IF streams[k] = c THEN Nobody ELSE streams[k]]

\* lookupLabels: destination first, explicit endpoints before aliases.
LabelsOf(k) == IF media[k] # Nobody THEN media[k] ELSE mediaAliases[k]

\* learnSourceAlias: the endpoint whose source port `src` is, if it may be learned.
PeerOf(c, k) == IF order[c][1] = k THEN order[c][2] ELSE order[c][1]
LearnableShared(c, k, src) ==
    /\ Len(order[c]) = 2 /\ Owns(c, k)
    /\ PeerOf(c, k).ip = src.ip /\ PeerOf(c, k) # src
    /\ media[src] = Nobody
    /\ sourceAliases[c][PeerOf(c, k)] = Nobody
Learnable(c, k, src) ==
    /\ Len(order[c]) = 2 /\ owners[k] = <<c>>
    /\ PeerOf(c, k).ip = src.ip /\ PeerOf(c, k) # src
    /\ media[src] = Nobody /\ mediaAliases[src] = Nobody
    /\ sourceAliases[c][PeerOf(c, k)] = Nobody

-----------------------------------------------------------------------------
(* The handlers, by the consumer and, for an expired call, the ticker.     *)

\* handleInvite200OK of a first INVITE, or of another fork's.
Answer(c, sdp) ==
    /\ todo = <<>>
    /\ todo' = Registrations(c, sdp)
    /\ UNCHANGED <<trackerVars, rtpVars, filterVars, aliasVars>>

ReinviteUnheld(c, sdp) ==
    /\ todo = <<>>
    /\ todo' = <<[op |-> "replace", call |-> c]>>
               \o Registrations(c, sdp) \o Registrations(c, sdp)
    /\ UNCHANGED <<trackerVars, rtpVars, filterVars, aliasVars>>

\* handleInvite200OK of a re-INVITE with an offer: replaceMediaRevision holds
\* the endpoints of the old revision meanwhile; the registration is repeated.
Reinvite(c, sdp) ==
    /\ todo = <<>>
    /\ todo' = Each("retain", Owned(c)) \o <<[op |-> "replace", call |-> c]>>
               \o Registrations(c, sdp)
               \o Each("release", Owned(c)) \o Registrations(c, sdp)
    /\ UNCHANGED <<trackerVars, rtpVars, filterVars, aliasVars>>

\* Tracker.Replace and the release of what it returns.
Replace ==
    /\ Doing("replace")
    /\ LET c == Head(todo).call
       IN /\ RemoveCallMedia(c)
          /\ Rest(Each("release", Owned(c)) \o <<DropAliases(c, ToSet(Owned(c)), "consumer")>>)
    /\ UNCHANGED <<observed, heard, filterVars, aliasVars>>

\* unregisterMedia, for BYE (consumer) and expiry (ticker, once a tick).
Unregister(c, by) ==
    /\ todo = <<>>
    /\ by = "ticker" => owed[c] = 0
    /\ RemoveCallMedia(c)
    /\ observed' = observed \ {c} /\ heard' = heard \ {c}
    /\ todo' = Each("release", Owned(c)) \o <<DropAliases(c, ToSet(Owned(c)), by)>>
    /\ UNCHANGED <<filterVars, aliasVars>>

\* releaseRTPAliases; the consumer reports at once, the ticker later.
Released(c, keys) == {a \in aliasLabels : a.call = c /\ a.key \in keys}
ReleaseAliasesSilently ==
    /\ Doing("dropAliases")
    /\ aliasLabels' = aliasLabels \ Released(Head(todo).call, Head(todo).keys)
    /\ Rest(<<>>)
    /\ UNCHANGED <<gauge, owed, trackerVars, rtpVars, filterVars>>
ReleaseAliases ==
    /\ Doing("dropAliases")
    /\ LET gone == Released(Head(todo).call, Head(todo).keys)
       IN /\ aliasLabels' = aliasLabels \ gone
          /\ IF Head(todo).by = "consumer"
             THEN gauge' = gauge - Cardinality(gone) /\ UNCHANGED owed
             ELSE /\ owed' = [owed EXCEPT ![Head(todo).call] = @ + Cardinality(gone)]
                  /\ UNCHANGED gauge
    /\ Rest(<<>>)
    /\ UNCHANGED <<trackerVars, rtpVars, filterVars>>

\* emitRTPAliasReleased in the ticker's loop over the expired dialogs.
ReportReleased(c) ==
    /\ owed[c] > 0
    /\ owed' = [owed EXCEPT ![c] = @ - 1] /\ gauge' = gauge - 1
    /\ UNCHANGED <<aliasLabels, trackerVars, rtpVars, filterVars, todo>>

\* handleRTPIPv4 and Tracker.observe.  counted: the packet advances its stream.
RTPPacket(src, dst, counted) ==
    /\ todo = <<>>
    /\ LET byDst == LabelsOf(dst) # Nobody
           k == IF byDst THEN dst ELSE src
           c == LabelsOf(k)
       IN /\ c # Nobody
          /\ heard' = heard \cup {c}
          /\ IF streams[k] = Nobody
             THEN /\ counted
                  /\ streams' = [streams EXCEPT ![k] = c]
                  /\ observed' = observed \cup {c}
             ELSE UNCHANGED <<streams, observed>>
          /\ IF counted /\ byDst /\ Learnable(c, k, src)
             THEN /\ sourceAliases' = [sourceAliases EXCEPT ![c][PeerOf(c, k)] = src]
                  /\ mediaAliases' = [mediaAliases EXCEPT ![src] = c]
                  /\ todo' = Each("retain", <<src>>)
                             \o <<[op |-> "learned", call |-> c, key |-> src]>>
             ELSE UNCHANGED <<sourceAliases, mediaAliases, todo>>
    /\ UNCHANGED <<owners, order, media, callRTCP, filterVars, aliasVars>>

Learned ==
    /\ Doing("learned")
    /\ aliasLabels' = aliasLabels \cup {[call |-> Head(todo).call, key |-> Head(todo).key]}
    /\ gauge' = gauge + 1
    /\ Rest(<<>>)
    /\ UNCHANGED <<owed, trackerVars, rtpVars, filterVars>>

\* Tracker.Cleanup, by the ticker: an idle stream goes.
Cleanup(k) ==
    /\ streams[k] # Nobody
    /\ streams' = [streams EXCEPT ![k] = Nobody]
    /\ UNCHANGED <<trackerVars, observed, heard, filterVars, aliasVars, todo>>

-----------------------------------------------------------------------------
Handler == Retain \/ Release \/ Register \/ RegisterRTCP \/ Replace
           \/ ReleaseAliases \/ Learned

Next == \/ \E c \in Calls, sdp \in Descriptions : Answer(c, sdp) \/ Reinvite(c, sdp)
        \/ \E c \in Calls, by \in {"consumer", "ticker"} : Unregister(c, by)
        \/ \E src, dst \in Endpoint, counted \in BOOLEAN : RTPPacket(src, dst, counted)
        \/ Handler
        \/ \E k \in Endpoint, failing \in SUBSET Interfaces : Reconcile(k, failing)
        \/ \E k \in Endpoint : Cleanup(k)
        \/ \E c \in Calls : ReportReleased(c)

Spec == Init /\ [][Next]_vars

\* The ticker comes every second, and an update of the maps that it tries again
\* and again succeeds once.
FairSpec == Spec /\ \A k \in Endpoint : WF_vars(Reconcile(k, {}))

-----------------------------------------------------------------------------
(* Properties.                                                             *)

TodoOK == \A n \in DOMAIN todo :
    \/ todo[n].op \in {"retain", "release"} /\ todo[n].key \in Endpoint
    \/ /\ todo[n].op \in {"learned", "registerRTCP"}
       /\ todo[n].call \in Calls /\ todo[n].key \in Endpoint
    \/ todo[n].op = "register" /\ todo[n].call \in Calls /\ todo[n].medium \in Medium
    \/ todo[n].op = "replace" /\ todo[n].call \in Calls
    \/ /\ todo[n].op = "dropAliases" /\ todo[n].by \in {"consumer", "ticker"}
       /\ todo[n].call \in Calls /\ todo[n].keys \subseteq Endpoint

\* Types, and the two indexes of the ownership agree: an owner of an endpoint
\* (mediaOwners) is a call that lists it (callMediaOrder), each once, whatever
\* is registered and registered again (Tracker.Register).
TypeOK ==
    /\ owners \in [Endpoint -> Seq(Calls)] /\ order \in [Calls -> Seq(Endpoint)]
    /\ \A k \in Endpoint : /\ IsInjective(owners[k])
                           /\ \A c \in Calls : c \in ToSet(owners[k]) <=> Owns(c, k)
    /\ \A c \in Calls : IsInjective(order[c])
    /\ media \in [Endpoint -> Calls \cup {Nobody}]
    /\ sourceAliases \in [Calls -> [Endpoint -> Endpoint \cup {Nobody}]]
    /\ mediaAliases \in [Endpoint -> Calls \cup {Nobody}]
    /\ callRTCP \in [Calls -> SUBSET Endpoint]
    /\ streams \in [Endpoint -> Calls \cup {Nobody}]
    /\ observed \subseteq Calls /\ heard \subseteq Calls
    /\ refs \in [Endpoint -> Nat]
    /\ dirty \in [Endpoint -> {"clean", "present", "absent"}]
    /\ present \in [Interfaces -> SUBSET Endpoint]
    /\ aliasLabels \subseteq [call : Calls, key : Endpoint]
    /\ gauge \in Nat /\ owed \in [Calls -> Nat]
    /\ TodoOK

\* A packet is labelled with a call that owns its endpoint (tracker.go media):
\* when the call whose labels an endpoint has ends, another owner takes over.
LabelsAreOwners ==
    \A k \in Endpoint : IF owners[k] = <<>> THEN media[k] = Nobody
                       ELSE media[k] \in ToSet(owners[k])

\* A learned source port belongs to one call and one of its endpoints, and no
\* call has declared it (tracker.go mediaAliases, sourceAliases): a packet is never
\* credited to a call by its alias when the endpoint is another call's.
AliasesArePrivate ==
    \A k \in Endpoint, c \in Calls :
        LET peers == {p \in Endpoint : sourceAliases[c][p] = k}
        IN IF mediaAliases[k] = c
           THEN /\ media[k] = Nobody /\ Cardinality(peers) = 1
                /\ \A p \in peers : Owns(c, p)
           ELSE peers = {}

\* A stream is reported under a call that has its endpoint (tracker.go streams),
\* so nothing is left of a call that ended or of a learned port that was lost.
StreamsOwned ==
    \A k \in Endpoint : streams[k] # Nobody =>
        Owns(streams[k], k) \/ k \in AliasesOf(streams[k])

\* The ownerships of an endpoint, and what the handler still has to count.
Ownerships(k) == Len(owners[k]) + Cardinality({c \in Calls : k \in AliasesOf(c)})
                 + Cardinality({c \in Calls : k \in callRTCP[c]})
Pending(op, k) ==
    Cardinality({n \in DOMAIN todo : todo[n].op = op /\ todo[n].key = k})

\* The count of an endpoint is the number of its owners (exporter.go
\* rtpEndpointRefs), over calls that share it, learned ports, separate RTCP and
\* repeated registrations: no endpoint leaks, none is dropped while a call needs it.
\* Types and indexes (TypeOK) are part of it: owners are released by the other index.
RefsAreOwnerships ==
    /\ TypeOK
    /\ \A k \in Endpoint :
          refs[k] + Pending("retain", k) = Ownerships(k) + Pending("release", k)

\* The maps of all interfaces agree with the counts, or the ticker knows what to
\* repair (exporter.go dirtyRTPEndpoints), whichever updates failed.
MapsFollowRefs ==
    \A k \in Endpoint :
        /\ dirty[k] = "clean" => \A i \in Interfaces : k \in present[i] <=> refs[k] > 0
        /\ dirty[k] = "present" => refs[k] > 0
        /\ dirty[k] = "absent" => refs[k] = 0

\* An endpoint leaves the filter when no call has it nor is about to register it
\* (exporter.go replaceMediaRevision): the kernel passes the media of a call
\* throughout a re-INVITE that keeps them.
KeptStaysFiltered ==
    [][\A k \in Endpoint : refs[k] > 0 /\ refs'[k] = 0 =>
          /\ Ownerships(k)' = 0
          /\ \A n \in DOMAIN todo' : todo'[n].op = "register" => todo'[n].medium.rtp # k
      ]_vars

\* The alias gauge (exporter.go rtpAliasLabels, emitRTPAliasReleased) counts the
\* learned ports, those the ticker has yet to report included; between two
\* handlers these are the tracker's.
AliasGaugeExact ==
    /\ gauge = Cardinality(aliasLabels) + MapThenSumSet(LAMBDA c : owed[c], Calls)
    /\ todo = <<>> => aliasLabels = {a \in [call : Calls, key : Endpoint] :
                                       mediaAliases[a.key] = a.call}

\* A map update that failed is made good (exporter.go reconcileRTPEndpoints).
MapsConverge ==
    \A k \in Endpoint :
        dirty[k] # "clean" ~> \A i \in Interfaces : k \in present[i] <=> refs[k] > 0

\* docs/METRICS.md:900 says the missing-RTP metric counts dialogs whose media had
\* no RTP observed at all; the code reports it for a call that is not in observed
\* (tracker.go dialogRTPObserved), so each packet matched to a call should put it there.
HeardIsObserved == heard \subseteq observed

=============================================================================
