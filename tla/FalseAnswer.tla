---------------------------- MODULE FalseAnswer ----------------------------
(***************************************************************************)
(* False answer supervision: fasTracker (internal/exporter/fraud.go), what *)
(* the exporter calls it for when a call is answered, re-negotiated and    *)
(* ended, and the matching of RTP packets it depends on                    *)
(* (internal/mediatracker/tracker.go), for the calls of one Call-ID.       *)
(*                                                                         *)
(* The parties send from their ports to those of the other; what SDP       *)
(* declares and where packets come from and go to need not agree.  The     *)
(* consumer handles one packet at a time and checks for answering media    *)
(* after it released the tracker, so the ticker may come between.          *)
(***************************************************************************)
EXTENDS Naturals, FiniteSets

CONSTANTS CallerPorts, CalleePorts,  \* one host each
          Forks,                     \* the dialogs of the Call-ID
          Threshold, Grace, Floor,   \* threshold, fasSRTPGrace, fasByeFloor
          MaxAnswers,                \* bound: initial INVITEs answered
          NoEntry, NoPacket

ASSUME PortAssumption == CallerPorts \cap CalleePorts = {}
ASSUME TimeAssumption == {Threshold, Grace, Floor, MaxAnswers} \subseteq Nat
ASSUME ValueAssumption == NoEntry \notin [age : Nat, deadline : Nat]

Ports == CallerPorts \cup CalleePorts
Sides == {"caller", "callee"}
SideOf(port) == IF port \in CallerPorts THEN "caller" ELSE "callee"
PortsOf(side) == IF side = "caller" THEN CallerPorts ELSE CalleePorts
Peer(side) == IF side = "caller" THEN "callee" ELSE "caller"

VARIABLES
    entry,      \* fasTracker.entries: the age of the entry and of its deadline
    offer,      \* fasTracker.offer; empty when there is none
    media,      \* the endpoints of the call in the media tracker
    aliases,    \* its learned ports
    streams,    \* packets of a sender's stream at an endpoint, counted up to two
    checking,   \* the packet between Observe and clearIfAnswerMedia
    dialogs,    \* the dialogs of the Call-ID
    reports,    \* fas_calls
    \* History.
    answers,    \* entries stored
    heard,      \* answering media were heard at the caller's declared port since
    callerSDP,  \* the ports of the caller's latest description
    reoffered   \* the offer may be one the answering side made

vars == <<entry, offer, media, aliases, streams, checking, dialogs, reports,
          answers, heard, callerSDP, reoffered>>

fasState == <<entry, offer>>
tracker == <<media, aliases, streams>>
history == <<answers, heard, callerSDP, reoffered>>

Silence == [p \in Ports |-> [s \in Sides |-> 0]]

Init ==
    /\ entry = NoEntry /\ offer = {}
    /\ media = {} /\ aliases = {} /\ streams = Silence
    /\ checking = NoPacket
    /\ dialogs = {} /\ reports = 0
    /\ answers = 0 /\ heard = FALSE /\ callerSDP = {} /\ reoffered = FALSE

-----------------------------------------------------------------------------
(* fasTracker.                                                             *)

Deadline(srtp) == IF srtp THEN Threshold + Grace ELSE Threshold

\* store keeps the offer there was if it is given none.
Store(offered, srtp) ==
    /\ entry' = [age |-> 0, deadline |-> Deadline(srtp)]
    /\ offer' = IF offered # {} THEN offered ELSE offer

\* updateOffer does not start the time again.
UpdatedAnew(old, srtp) == [age |-> 0, deadline |-> Deadline(srtp)]
Updated(old, srtp) ==
    IF srtp /\ old.deadline < Deadline(TRUE) THEN [old EXCEPT !.deadline = Deadline(TRUE)]
    ELSE old
UpdateOfferDeadline(offered, srtp) ==
    IF entry = NoEntry THEN UNCHANGED fasState
    ELSE entry' = Updated(entry, srtp) /\ UNCHANGED offer
UpdateOffer(offered, srtp) ==
    IF entry = NoEntry THEN UNCHANGED fasState
    ELSE /\ entry' = Updated(entry, srtp)
         /\ offer' = IF offered # {} THEN offered ELSE offer

Clear == entry' = NoEntry /\ offer' = {}

\* Whether a counted packet shows that the answering side sends media.
AnswersAnyMatch(packet) == packet.total >= 2 /\ (offer = {} \/ packet.ep \in offer)
Answers(packet) ==
    packet.total >= 2 /\ (offer = {} \/ (packet.ep \in offer /\ packet.by # "src"))

-----------------------------------------------------------------------------
(* Signalling, on the consumer.                                            *)

Idle == checking = NoPacket

\* Register displaces an alias, together with its streams.
WithoutStreams(gone) == [p \in Ports |-> IF p \in gone THEN Silence[p] ELSE streams[p]]

\* handleInvite200OK, for an initial INVITE: the offer was cached or not.
Answer(f, offered, answered, srtp) ==
    /\ Idle /\ f \notin dialogs /\ answers < MaxAnswers
    /\ dialogs' = dialogs \cup {f}
    /\ media' = media \cup offered \cup answered
    /\ aliases' = aliases \ media'
    /\ streams' = WithoutStreams(aliases \cap media')
    /\ IF offered \cup answered # {}
       THEN /\ Store(offered, srtp)
            /\ answers' = answers + 1 /\ heard' = FALSE
            /\ reoffered' = (reoffered /\ offered = {} /\ offer # {})
       ELSE UNCHANGED <<fasState, answers, heard, reoffered>>
    /\ callerSDP' = offered
    /\ UNCHANGED <<checking, reports>>

\* handleInvite200OK, for a re-INVITE of either side whose offer was cached:
\* replaceMediaRevision and updateOffer.
Reanswer(f, side, offered, answered, srtp) ==
    /\ Idle /\ f \in dialogs
    /\ media' = offered \cup answered /\ aliases' = {} /\ streams' = Silence
    /\ UpdateOffer(offered, srtp)
    /\ callerSDP' = IF side = "caller" THEN offered ELSE answered
    /\ reoffered' = (reoffered \/ side = "callee")
    /\ UNCHANGED <<checking, dialogs, reports, answers, heard>>

\* Unregister.
Unregister == media' = {} /\ aliases' = {} /\ streams' = Silence

Report(fires) == reports' = IF fires THEN reports + 1 ELSE reports

\* handleBye200OK: finalizeOnBye and unregisterMedia, by Call-ID.
Finalized == entry # NoEntry /\ entry.age > Floor
Bye(f) ==
    /\ Idle
    /\ dialogs' = dialogs \ {f}
    /\ Report(Finalized) /\ Clear /\ Unregister
    /\ UNCHANGED <<checking, history>>

-----------------------------------------------------------------------------
(* RTP packets, on the consumer.                                           *)

\* lookupLabels: the destination before the source; at most one match.
Match(from, to) ==
    IF to \in media \cup aliases THEN {[ep |-> to, by |-> "dst"]}
    ELSE IF from \in media \cup aliases THEN {[ep |-> from, by |-> "src"]} ELSE {}

\* learnSourceAlias: another port of the host of the other of two endpoints.
Learnable(m, from) ==
    /\ m.by = "dst" /\ m.ep \in media /\ Cardinality(media) = 2
    /\ \E peer \in media \ {m.ep} : SideOf(peer) = SideOf(from)
    /\ from \notin media \cup aliases
    /\ \A a \in aliases : SideOf(a) # SideOf(from)

\* handleRTPIPv4 with Observe: a packet that counts, ...
Observe(from, to) ==
    /\ Idle
    /\ \E m \in Match(from, to) :
         LET total == IF streams[m.ep][SideOf(from)] = 0 THEN 1 ELSE 2
         IN /\ streams' = [streams EXCEPT ![m.ep][SideOf(from)] = total]
            /\ aliases' = IF Learnable(m, from) THEN aliases \cup {from} ELSE aliases
            /\ checking' = [ep |-> m.ep, by |-> m.by, total |-> total,
                            sender |-> SideOf(from)]
    /\ UNCHANGED <<fasState, media, dialogs, reports, history>>

\* ... and one that restarts its stream.
Restart(from, to) ==
    /\ Idle
    /\ \E m \in Match(from, to) :
         /\ streams[m.ep][SideOf(from)] = 2
         /\ streams' = [streams EXCEPT ![m.ep][SideOf(from)] = 1]
    /\ UNCHANGED <<fasState, media, aliases, checking, dialogs, reports, history>>

\* clearIfAnswerMedia.
ClearIfAnswerMedia ==
    /\ ~Idle
    /\ IF entry # NoEntry /\ Answers(checking) THEN Clear ELSE UNCHANGED fasState
    /\ heard' = (heard \/ /\ checking.sender = "callee" /\ checking.total >= 2
                          /\ checking.by = "dst" /\ checking.ep \in callerSDP)
    /\ checking' = NoPacket
    /\ UNCHANGED <<tracker, dialogs, reports, answers, callerSDP, reoffered>>

-----------------------------------------------------------------------------
(* The ticker, and time.                                                   *)

LastAge == Threshold + Grace + Floor + 1
Tick ==
    /\ entry # NoEntry /\ entry.age < LastAge
    /\ entry' = [entry EXCEPT !.age = @ + 1]
    /\ UNCHANGED <<offer, tracker, checking, dialogs, reports, history>>

\* sweep.
Overdue == entry # NoEntry /\ entry.age > entry.deadline
SweepKept ==
    /\ Overdue /\ reports < answers + 1 /\ Report(TRUE) /\ UNCHANGED fasState
    /\ UNCHANGED <<tracker, checking, dialogs, history>>
Sweep ==
    /\ Overdue /\ Report(TRUE) /\ Clear
    /\ UNCHANGED <<tracker, checking, dialogs, history>>

\* cleanupExpiredDialogs.
Expire(f) ==
    /\ f \in dialogs /\ dialogs' = dialogs \ {f}
    /\ Clear /\ Unregister
    /\ UNCHANGED <<checking, reports, history>>

\* Tracker.Cleanup.
Cleanup(p, s) ==
    /\ streams[p][s] > 0
    /\ streams' = [streams EXCEPT ![p][s] = 0]
    /\ UNCHANGED <<fasState, media, aliases, checking, dialogs, reports, history>>

-----------------------------------------------------------------------------
\* A description declares one port, or holds the media or was not seen.
Declared(ports) == {{}} \cup {{p} : p \in ports}

Next ==
    \/ \E f \in Forks, srtp \in BOOLEAN :
         \/ \E offered \in Declared(CallerPorts), answered \in Declared(CalleePorts) :
              Answer(f, offered, answered, srtp)
         \/ \E side \in Sides : \E offered \in Declared(PortsOf(side)),
                                   answered \in Declared(PortsOf(Peer(side))) :
              Reanswer(f, side, offered, answered, srtp)
    \/ \E f \in Forks : Bye(f) \/ Expire(f)
    \/ \E from, to \in Ports : /\ SideOf(from) # SideOf(to)
                               /\ Observe(from, to) \/ Restart(from, to)
    \/ ClearIfAnswerMedia
    \/ Tick \/ Sweep
    \/ \E p \in Ports, s \in Sides : Cleanup(p, s)

Spec == Init /\ [][Next]_vars

\* Time passes and the ticker sweeps.
FairSpec == Spec /\ WF_vars(Tick) /\ WF_vars(Sweep)

-----------------------------------------------------------------------------
(* Properties.                                                             *)

\* Type invariant.
TypeOK ==
    /\ entry \in [age : 0..LastAge, deadline : {Threshold, Threshold + Grace}] \cup {NoEntry}
    /\ offer \subseteq Ports /\ media \subseteq Ports /\ aliases \subseteq Ports
    /\ streams \in [Ports -> [Sides -> 0..2]]
    /\ checking \in [ep : Ports, by : {"dst", "src"}, total : 1..2, sender : Sides]
                      \cup {NoPacket}
    /\ dialogs \subseteq Forks
    /\ reports \in Nat /\ answers \in 0..MaxAnswers
    /\ heard \in BOOLEAN /\ callerSDP \subseteq CallerPorts /\ reoffered \in BOOLEAN

\* However the sweep, BYE, expiry and answering media race for an entry, a call that
\* was answered is reported at most once, and not while it can still be cleared
\* (fraud.go: sweep, finalizeOnBye and clear under one mutex).
ReportedOnce == reports + (IF entry = NoEntry THEN 0 ELSE 1) <= answers

\* The caller's own media never clear the suspicion (fraud.go clearIfAnswerMedia),
\* once the offer is known and as long as all offers are the caller's.
CallerNeverClears ==
    [][entry # NoEntry /\ entry' = NoEntry /\ ~Idle /\ checking' = NoPacket
         /\ offer # {} /\ ~reoffered
       => checking.sender = "callee"]_vars

\* A call is not reported when the answering side's media were heard at the port
\* that the caller declared, whatever re-INVITEs of the caller came between.  (It is
\* reported when they went to another port of the caller, or when the answering
\* side made the last offer: fraud.go clearIfAnswerMedia asks for an offered port.)
MediaClear == [][reports' > reports => ~heard \/ reoffered]_vars

\* An answer is not suspected for ever: re-INVITEs with SRTP defer the decision
\* once only (fraud.go updateOffer).
Decided == entry # NoEntry ~> entry = NoEntry
=============================================================================
