------------------------- MODULE FalseAnswerProofs -------------------------
(***************************************************************************)
(* Theorems about FalseAnswer, for any ports, any dialogs of a Call-ID and *)
(* any thresholds.                                                         *)
(***************************************************************************)
EXTENDS FalseAnswer, TLAPS

\* As long as the answering side made no offer, the offered ports are the caller's,
\* and those of the caller's latest description are among them.
OfferIsCallers ==
    ~reoffered => /\ offer \subseteq CallerPorts
                  /\ entry # NoEntry /\ offer # {} => callerSDP \subseteq offer

\* A packet matched by its destination comes from the other side.
SentAcross ==
    checking # NoPacket /\ checking.by = "dst" => SideOf(checking.ep) # checking.sender

\* A call that is still suspected has not been heard.
HeardIsCleared == entry # NoEntry /\ heard => reoffered

IInv == TypeOK /\ ReportedOnce /\ OfferIsCallers /\ SentAcross /\ HeardIsCleared

Entries == [age : 0..LastAge, deadline : {Threshold, Threshold + Grace}]
Packets == [ep : Ports, by : {"dst", "src"}, total : 1..2, sender : Sides]

-----------------------------------------------------------------------------
(* What the operations keep.                                               *)

LEMMA Sizes == LastAge \in Nat /\ Threshold \in Nat /\ Grace \in Nat /\ MaxAnswers \in Nat
BY TimeAssumption DEF LastAge

LEMMA StoredEntry ==
  ASSUME NEW srtp \in BOOLEAN
  PROVE  [age |-> 0, deadline |-> Deadline(srtp)] \in Entries
BY Sizes DEF Entries, Deadline

LEMMA UpdatedEntry ==
  ASSUME NEW old \in Entries, NEW srtp \in BOOLEAN
  PROVE  Updated(old, srtp) \in Entries
<1>1. Deadline(TRUE) \in {Threshold, Threshold + Grace}
  BY DEF Deadline
<1> QED
  BY <1>1 DEF Updated, Entries

LEMMA InitIInv == Init => IInv
<1> SUFFICES ASSUME Init PROVE IInv
  OBVIOUS
<1>1. TypeOK
  <2>1. streams \in [Ports -> [Sides -> 0..2]]
    BY DEF Init, Silence
  <2>2. reports \in Nat /\ answers \in 0..MaxAnswers
    BY Sizes DEF Init
  <2>3. /\ offer \subseteq Ports /\ media \subseteq Ports /\ aliases \subseteq Ports
        /\ callerSDP \subseteq CallerPorts /\ dialogs \subseteq Forks
    BY DEF Init
  <2>4. entry = NoEntry /\ checking = NoPacket
    BY DEF Init
  <2>5. heard \in BOOLEAN /\ reoffered \in BOOLEAN
    BY DEF Init
  <2> QED
    BY <2>1, <2>2, <2>3, <2>4, <2>5 DEF TypeOK
<1> QED
  BY <1>1 DEF Init, IInv, ReportedOnce, OfferIsCallers, SentAcross, HeardIsCleared

LEMMA AnswerIInv ==
  ASSUME IInv, NEW f \in Forks, NEW srtp \in BOOLEAN, NEW offered \in Declared(CallerPorts),
         NEW answered \in Declared(CalleePorts), Answer(f, offered, answered, srtp)
  PROVE  IInv'
<1>1. offered \subseteq CallerPorts /\ answered \subseteq CalleePorts
  BY DEF Declared
<1>2. TypeOK'
  <2>1. media' \subseteq Ports /\ aliases' \subseteq Ports /\ callerSDP' \subseteq CallerPorts
    BY <1>1 DEF Answer, IInv, TypeOK, Ports
  <2>2. streams' \in [Ports -> [Sides -> 0..2]]
    BY DEF Answer, WithoutStreams, Silence, IInv, TypeOK
  <2>3. entry' \in Entries \cup {NoEntry} /\ offer' \subseteq Ports
    BY <1>1, StoredEntry DEF Answer, Store, fasState, IInv, TypeOK, Ports, Entries
  <2>4. answers' \in 0..MaxAnswers
    BY Sizes DEF Answer, IInv, TypeOK
  <2>5. heard' \in BOOLEAN /\ reoffered' \in BOOLEAN
    BY DEF Answer, IInv, TypeOK
  <2>6. dialogs' \subseteq Forks /\ UNCHANGED <<checking, reports>>
    BY DEF Answer, IInv, TypeOK
  <2> QED
    BY <2>1, <2>2, <2>3, <2>4, <2>5, <2>6 DEF IInv, TypeOK, Entries
<1>3. ReportedOnce'
  BY DEF Answer, Store, fasState, IInv, TypeOK, ReportedOnce
<1>4. OfferIsCallers'
  BY <1>1 DEF Answer, Store, fasState, IInv, OfferIsCallers
<1>5. SentAcross'
  BY DEF Answer, IInv, SentAcross, SideOf
<1>6. HeardIsCleared'
  BY DEF Answer, fasState, IInv, HeardIsCleared
<1> QED
  BY <1>2, <1>3, <1>4, <1>5, <1>6 DEF IInv

LEMMA ReanswerIInv ==
  ASSUME IInv, NEW f \in Forks, NEW srtp \in BOOLEAN, NEW side \in Sides,
         NEW offered \in Declared(PortsOf(side)),
         NEW answered \in Declared(PortsOf(Peer(side))),
         Reanswer(f, side, offered, answered, srtp)
  PROVE  IInv'
<1>1. /\ side = "caller" => offered \subseteq CallerPorts /\ answered \subseteq CalleePorts
      /\ side = "callee" => offered \subseteq CalleePorts /\ answered \subseteq CallerPorts
  BY DEF Declared, PortsOf, Peer, Sides
<1>2. side \in {"caller", "callee"} /\ offered \subseteq Ports /\ answered \subseteq Ports
  BY <1>1 DEF Sides, Ports
<1>3. TypeOK'
  <2>1. entry' \in Entries \cup {NoEntry} /\ offer' \subseteq Ports
    BY <1>2, UpdatedEntry DEF Reanswer, UpdateOffer, fasState, IInv, TypeOK, Entries
  <2>2. streams' \in [Ports -> [Sides -> 0..2]]
    BY DEF Reanswer, Silence
  <2>3. media' \subseteq Ports /\ aliases' \subseteq Ports /\ callerSDP' \subseteq CallerPorts
    BY <1>1, <1>2 DEF Reanswer
  <2>4. reoffered' \in BOOLEAN
    BY DEF Reanswer, IInv, TypeOK
  <2> QED
    BY <2>1, <2>2, <2>3, <2>4 DEF Reanswer, IInv, TypeOK, Entries
<1>4. entry = NoEntry => entry' = NoEntry
  BY DEF Reanswer, UpdateOffer, fasState
<1>5. ReportedOnce'
  BY <1>4 DEF Reanswer, IInv, TypeOK, ReportedOnce
<1>6. OfferIsCallers'
  BY <1>1, <1>2 DEF Reanswer, UpdateOffer, fasState, IInv, OfferIsCallers
<1>7. SentAcross' /\ HeardIsCleared'
  BY <1>4 DEF Reanswer, IInv, SentAcross, HeardIsCleared, SideOf
<1> QED
  BY <1>3, <1>5, <1>6, <1>7 DEF IInv

\* A step that ends the suspicion: at a BYE, after the expiry of a dialog, or in a sweep.
LEMMA EndIInv ==
  ASSUME IInv, (\E f \in Forks : Bye(f) \/ Expire(f)) \/ Sweep
  PROVE  IInv'
<1>1. /\ entry' = NoEntry /\ offer' = {} /\ dialogs' \subseteq Forks
      /\ UNCHANGED <<checking, history>>
      /\ reports' = reports \/ (entry # NoEntry /\ reports' = reports + 1)
  BY DEF Bye, Expire, Sweep, Clear, Report, Finalized, Overdue, IInv, TypeOK
<1>2. \/ media' = {} /\ aliases' = {} /\ streams' = Silence
      \/ UNCHANGED tracker
  BY DEF Bye, Expire, Sweep, Unregister
<1>3. TypeOK'
  <2>1. reports' \in Nat
    BY <1>1 DEF IInv, TypeOK
  <2>2. /\ media' \subseteq Ports /\ aliases' \subseteq Ports
        /\ streams' \in [Ports -> [Sides -> 0..2]]
    BY <1>2 DEF tracker, Silence, IInv, TypeOK
  <2> QED
    BY <1>1, <2>1, <2>2 DEF history, IInv, TypeOK
<1>4. ReportedOnce'
  BY <1>1 DEF history, IInv, TypeOK, ReportedOnce
<1> QED
  BY <1>1, <1>3, <1>4 DEF history, IInv, OfferIsCallers, SentAcross, HeardIsCleared, SideOf

LEMMA ObserveIInv ==
  ASSUME IInv, NEW from \in Ports, NEW to \in Ports, SideOf(from) # SideOf(to),
         Observe(from, to)
  PROVE  IInv'
<1>1. PICK m \in Match(from, to) :
        LET total == IF streams[m.ep][SideOf(from)] = 0 THEN 1 ELSE 2
        IN /\ streams' = [streams EXCEPT ![m.ep][SideOf(from)] = total]
           /\ aliases' = IF Learnable(m, from) THEN aliases \cup {from} ELSE aliases
           /\ checking' = [ep |-> m.ep, by |-> m.by, total |-> total, sender |-> SideOf(from)]
  BY DEF Observe
<1>2. /\ m.ep \in Ports /\ m.by \in {"dst", "src"} /\ (m.by = "dst" => m.ep = to)
  BY DEF Match
<1>3. SideOf(from) \in Sides
  BY DEF SideOf, Sides
<1>4. UNCHANGED <<entry, offer, media, dialogs, reports, answers, heard, callerSDP, reoffered>>
  BY DEF Observe, fasState, history
<1>5. TypeOK'
  <2>1. checking' \in Packets
    BY <1>1, <1>2, <1>3 DEF Packets
  <2>2. streams' \in [Ports -> [Sides -> 0..2]]
    BY <1>1, <1>2, <1>3 DEF IInv, TypeOK
  <2>3. aliases' \subseteq Ports
    BY <1>1 DEF IInv, TypeOK
  <2> QED
    BY <1>4, <2>1, <2>2, <2>3 DEF IInv, TypeOK, Packets
<1>6. SentAcross'
  BY <1>1, <1>2 DEF SentAcross, SideOf
<1> QED
  BY <1>4, <1>5, <1>6 DEF IInv, ReportedOnce, OfferIsCallers, HeardIsCleared

LEMMA ClearIInv ==
  ASSUME IInv, ClearIfAnswerMedia
  PROVE  IInv'
<1>1. (entry' = NoEntry /\ offer' = {}) \/ UNCHANGED fasState
  BY DEF ClearIfAnswerMedia, Clear
<1>2. /\ UNCHANGED <<media, aliases, streams, dialogs, reports, answers, callerSDP, reoffered>>
      /\ checking' = NoPacket
  BY DEF ClearIfAnswerMedia, tracker
<1>3. TypeOK'
  BY <1>1, <1>2 DEF ClearIfAnswerMedia, fasState, IInv, TypeOK
<1>4. ReportedOnce'
  BY <1>1, <1>2 DEF fasState, IInv, TypeOK, ReportedOnce
<1>5. OfferIsCallers' /\ SentAcross'
  BY <1>1, <1>2 DEF fasState, IInv, OfferIsCallers, SentAcross
<1>6. HeardIsCleared'
  <2> SUFFICES ASSUME entry' # NoEntry, heard', ~reoffered
               PROVE  FALSE
    BY <1>2 DEF HeardIsCleared
  <2>1. entry # NoEntry /\ ~Answers(checking)
    BY <1>1 DEF ClearIfAnswerMedia, Clear, fasState
  <2>2. ~heard
    BY <2>1 DEF IInv, HeardIsCleared
  <2>3. checking.total >= 2 /\ checking.by = "dst" /\ checking.ep \in callerSDP
    BY <2>2 DEF ClearIfAnswerMedia
  <2>4. offer # {} /\ checking.ep \notin offer
    BY <2>1, <2>3 DEF Answers
  <2> QED
    BY <2>1, <2>3, <2>4 DEF IInv, OfferIsCallers
<1> QED
  BY <1>3, <1>4, <1>5, <1>6 DEF IInv

\* The others change one variable.
LEMMA OtherIInv ==
  ASSUME IInv,
         \/ \E from, to \in Ports : Restart(from, to)
         \/ \E p \in Ports, s \in Sides : Cleanup(p, s)
         \/ Tick \/ UNCHANGED vars
  PROVE  IInv'
<1>1. UNCHANGED <<offer, media, aliases, checking, dialogs, reports, answers, heard,
                  callerSDP, reoffered>>
  BY DEF Restart, Cleanup, Tick, vars, fasState, tracker, history
<1>2. entry' = entry \/ (entry # NoEntry /\ entry' \in Entries)
  <2>1. ASSUME Tick PROVE entry # NoEntry /\ entry' \in Entries
    <3>1. entry \in Entries
      BY <2>1 DEF Tick, IInv, TypeOK, Entries
    <3>2. entry.age \in Nat /\ entry.age + 1 \in 0..LastAge
      BY <2>1, <3>1, Sizes DEF Tick, Entries
    <3> QED
      BY <2>1, <3>1, <3>2 DEF Tick, Entries
  <2> QED
    BY <2>1 DEF Restart, Cleanup, vars, fasState
<1>3. streams' \in [Ports -> [Sides -> 0..2]]
  <2>1. ASSUME NEW from \in Ports, NEW to \in Ports, Restart(from, to)
        PROVE  streams' \in [Ports -> [Sides -> 0..2]]
    <3>1. SideOf(from) \in Sides
      BY DEF SideOf, Sides
    <3> QED
      BY <2>1, <3>1 DEF Restart, Match, IInv, TypeOK
  <2>2. ASSUME NEW p \in Ports, NEW s \in Sides, Cleanup(p, s)
        PROVE  streams' \in [Ports -> [Sides -> 0..2]]
    BY <2>2 DEF Cleanup, IInv, TypeOK
  <2> QED
    BY <2>1, <2>2 DEF Tick, tracker, vars, IInv, TypeOK
<1>4. TypeOK'
  BY <1>1, <1>2, <1>3 DEF IInv, TypeOK, Entries
<1>5. ReportedOnce'
  BY <1>1, <1>2 DEF IInv, TypeOK, ReportedOnce
<1>6. OfferIsCallers' /\ HeardIsCleared'
  BY <1>1, <1>2 DEF IInv, OfferIsCallers, HeardIsCleared
<1>7. SentAcross'
  BY <1>1 DEF IInv, SentAcross, SideOf
<1> QED
  BY <1>4, <1>5, <1>6, <1>7 DEF IInv

LEMMA NextIInv ==
  ASSUME IInv, [Next]_vars
  PROVE  IInv'
BY AnswerIInv, ReanswerIInv, EndIInv, ObserveIInv, ClearIInv, OtherIInv DEF Next

-----------------------------------------------------------------------------
(* The theorems.                                                           *)

\* The inductive invariant.
THEOREM Inductive == Spec => []IInv
<1>1. Init => IInv
  BY InitIInv
<1>2. IInv /\ [Next]_vars => IInv'
  BY NextIInv
<1> QED
  BY <1>1, <1>2, PTL DEF Spec

\* Every variable keeps its type (fraud.go, tracker.go).
THEOREM TypeCorrect == Spec => []TypeOK
<1>1. IInv => TypeOK
  BY DEF IInv
<1> QED
  BY <1>1, Inductive, PTL

\* No answered call is reported twice (fraud.go sweep, finalizeOnBye, clear).
THEOREM ReportsOnce == Spec => []ReportedOnce
<1>1. IInv => ReportedOnce
  BY DEF IInv
<1> QED
  BY <1>1, Inductive, PTL

\* The caller's own media clear nothing (fraud.go clearIfAnswerMedia).
THEOREM CallerClearsNothing == Spec => CallerNeverClears
<1>1. ASSUME IInv, [Next]_vars, entry # NoEntry, entry' = NoEntry, ~Idle,
             checking' = NoPacket, offer # {}, ~reoffered
      PROVE  checking.sender = "callee"
  <2>1. ClearIfAnswerMedia
    BY <1>1 DEF Next, Idle, Answer, Reanswer, Bye, Expire, Observe, Restart, Tick, Sweep,
       Cleanup, vars
  <2>2. Answers(checking)
    BY <1>1, <2>1 DEF ClearIfAnswerMedia, fasState
  <2>3. checking \in Packets
    BY <1>1 DEF Idle, IInv, TypeOK, Packets
  <2>4. checking.ep \in CallerPorts /\ checking.by = "dst"
    BY <1>1, <2>2, <2>3 DEF Answers, Packets, IInv, OfferIsCallers
  <2>5. "caller" # checking.sender
    BY <1>1, <2>4 DEF Idle, IInv, SentAcross, SideOf
  <2> QED
    BY <2>3, <2>5 DEF Packets, Sides
<1> QED
  BY <1>1, Inductive, PTL DEF Spec, CallerNeverClears

\* A call whose answering side was heard where the caller asked for it is not
\* reported (fraud.go clearIfAnswerMedia, updateOffer).
THEOREM MediaClears == Spec => MediaClear
<1>1. ASSUME IInv, [Next]_vars, reports' > reports
      PROVE  ~heard \/ reoffered
  <2>1. entry # NoEntry
    BY <1>1 DEF Next, Answer, Reanswer, Bye, Expire, Observe, Restart, ClearIfAnswerMedia,
       Tick, Sweep, Cleanup, Report, Finalized, Overdue, vars, IInv, TypeOK
  <2> QED
    BY <1>1, <2>1 DEF IInv, HeardIsCleared
<1> QED
  BY <1>1, Inductive, PTL DEF Spec, MediaClear
=============================================================================
