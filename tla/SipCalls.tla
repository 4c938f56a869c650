------------------------------ MODULE SipCalls ------------------------------
(***************************************************************************)
(* The life of the calls of one Call-ID as the exporter sees it: INVITE    *)
(* transactions, dialogs, cached offers and whether media are registered   *)
(* (internal/exporter/exporter.go, internal/service/dialogs.go), and the   *)
(* counters behind SER, SEER, ISA, ASR, NER and SCR                        *)
(* (internal/service/metrics.go).                                          *)
(*                                                                         *)
(* The consumer handles a request without dialogLifecycleMu, looking up    *)
(* the dialog before it records the transaction, and a response of INVITE  *)
(* or BYE under it.  The ticker expires dialogs under it and reports them  *)
(* after releasing it.  Requests and responses come in any order, any      *)
(* number of times, or not at all; nothing of a transaction comes later    *)
(* than defaultInviteTTL after its final response, and the two tags of a   *)
(* message differ.                                                         *)
(***************************************************************************)
EXTENDS Integers, FiniteSets

CONSTANTS Tags,       \* From and To tags
          Keys,       \* the INVITE transactions of the Call-ID: CSeq and From tag
          NoTag,      \* an absent To tag
          MaxInvites  \* bound of the model: INVITEs counted

ASSUME KeysAssumption == IsFiniteSet(Keys) /\ \A k \in Keys : k.from \in Tags
ASSUME TagAssumption == NoTag \notin Tags
ASSUME BoundAssumption == MaxInvites \in Nat

\* What the code tells apart; "ok" is 200, "accepted" the other 2xx; "declined" are
\* 480, 486, 600, 603, "failed" 408, 500, 503, 504, "refused" the other 4xx to 6xx.
Status == {"provisional", "ok", "accepted", "redirect", "declined", "failed", "refused"}

VARIABLES
    tracked,      \* inviteTracker has the Call-ID
    state,        \* inviteTransactions
    reinvite,     \* inviteTransaction.reinvite
    closed,       \* closedInviteCalls has the Call-ID
    offers,       \* inviteSDP
    dialogs,      \* dialogs.storage
    media,        \* the tracker has endpoints of the Call-ID
    request,      \* the INVITE that handleRequest is in
    locked,       \* the ticker holds dialogLifecycleMu
    expired,      \* expired dialogs the ticker has not reported
    quiet,        \* transactions no packet of which is under way any more
    inviteTotal, invite3xx, invite200, effective, ineffective, completed

callVars == <<tracked, state, reinvite, closed, offers, dialogs, media>>
counters == <<inviteTotal, invite3xx, invite200, effective, ineffective, completed>>
tickVars == <<locked, expired>>
vars == <<callVars, request, tickVars, quiet, counters>>

None == [key |-> NoTag]

Init ==
    /\ tracked = FALSE /\ closed = FALSE /\ media = FALSE
    /\ state = [k \in Keys |-> "none"] /\ reinvite = [k \in Keys |-> FALSE]
    /\ offers = {} /\ dialogs = {} /\ quiet = {}
    /\ request = None /\ locked = FALSE /\ expired = 0
    /\ inviteTotal = 0 /\ invite3xx = 0 /\ invite200 = 0
    /\ effective = 0 /\ ineffective = 0 /\ completed = 0

\* normalizeDialogID; it refuses a message without a tag.
Dialog(from, to) == {from, to}
IdentifiedAlways(to) == TRUE
Identified(to) == to # NoTag
Active(from, to) == Identified(to) /\ Dialog(from, to) \in dialogs

-----------------------------------------------------------------------------
(* Requests.                                                               *)

\* handleRequest, up to the look at the dialog and the invite tracker.
MeetInvite(k, to, sdp) ==
    /\ request = None /\ k \notin quiet /\ inviteTotal < MaxInvites
    /\ request' = [key |-> k, sdp |-> sdp, reinvite |-> Active(k.from, to),
                   repeated |-> ~Active(k.from, to) /\ tracked]
    /\ UNCHANGED <<callVars, tickVars, quiet, counters>>

\* The rest of handleRequest: metrics, observeInviteTransaction, storeInviteTime,
\* storeInviteSDP.
Observe(k, re) ==
    IF state[k] = "final" THEN UNCHANGED <<state, reinvite>>
    ELSE /\ state' = [state EXCEPT ![k] = "open"]
         /\ reinvite' = [reinvite EXCEPT ![k] = re]

\* Request, or Reinvite, of the metrics.
CountRequest(new) == inviteTotal' = IF new THEN inviteTotal + 1 ELSE inviteTotal

RecordInvite ==
    /\ request # None
    /\ LET new == ~request.reinvite /\ ~request.repeated
       IN /\ CountRequest(new)
          /\ tracked' = (tracked \/ new)
    /\ Observe(request.key, request.reinvite)
    /\ offers' = IF request.sdp THEN offers \cup {request.key} ELSE offers
    /\ request' = None
    /\ UNCHANGED <<closed, dialogs, media, tickVars, quiet,
                   invite3xx, invite200, effective, ineffective, completed>>

Cancel ==
    /\ request = None
    /\ tracked' = FALSE
    /\ UNCHANGED <<state, reinvite, closed, offers, dialogs, media, request, tickVars,
                   quiet, counters>>

-----------------------------------------------------------------------------
(* Responses of INVITE.                                                    *)

\* classifyInviteResponse.
LateSettled(k) == closed /\ state[k] = "final"
Late(k) == closed /\ state[k] # "open"
IsReinvite(k, to) == IF state[k] = "none" THEN Active(k.from, to) ELSE reinvite[k]
FirstFinalClosedOnly(k, status) == ~Late(k) /\ status # "provisional"
FirstFinal(k, status) ==
    /\ ~Late(k) /\ state[k] # "final"
    /\ status # "provisional"

\* Response and ResponseWithMetrics, for a response that counts.
Count(status) ==
    /\ invite3xx' = IF status = "redirect" THEN invite3xx + 1 ELSE invite3xx
    /\ invite200' = IF status = "ok" THEN invite200 + 1 ELSE invite200
    /\ effective' = IF status \in {"ok", "declined"} THEN effective + 1 ELSE effective
    /\ ineffective' = IF status = "failed" THEN ineffective + 1 ELSE ineffective
    /\ UNCHANGED <<inviteTotal, completed>>

\* handleInvite200OK.
RefreshedAlways(d) == TRUE
Refreshed(d) == d \in dialogs
Establish(k, to, answer) ==
    LET d == Dialog(k.from, to)
        offered == k \in offers
    IN IF ~Identified(to) \/ (IsReinvite(k, to) /\ ~Refreshed(d))
       THEN UNCHANGED <<dialogs, offers, media>>
       ELSE /\ dialogs' = IF IsReinvite(k, to) THEN dialogs ELSE dialogs \cup {d}
            /\ offers' = offers \ {k}
            /\ media' = IF IsReinvite(k, to) THEN media \/ offered
                        ELSE media \/ offered \/ answer

\* handleResponse.
Respond(k, to, status, answer) ==
    /\ request = None /\ ~locked /\ k \notin quiet
    /\ IF FirstFinal(k, status)
       THEN /\ state' = [state EXCEPT ![k] = "final"]
            /\ reinvite' = [reinvite EXCEPT ![k] = IsReinvite(k, to)]
            /\ IF IsReinvite(k, to) THEN UNCHANGED counters ELSE Count(status)
       ELSE UNCHANGED <<state, reinvite, counters>>
    /\ tracked' = (tracked /\ status = "provisional")
    /\ IF FirstFinal(k, status) /\ status = "ok"
       THEN Establish(k, to, answer)
       ELSE /\ offers' = IF status \in {"provisional", "ok", "accepted"} THEN offers ELSE offers \ {k}
            /\ UNCHANGED <<dialogs, media>>
    /\ UNCHANGED <<closed, request, tickVars, quiet>>

-----------------------------------------------------------------------------
(* The end of a call.                                                      *)

\* handleBye200OK.
EndedAlways(d) == 1
Ended(d) == IF d \in dialogs THEN 1 ELSE 0
ByeOK(from, to) ==
    /\ request = None /\ ~locked
    /\ dialogs' = dialogs \ {Dialog(from, to)}
    /\ completed' = completed + Ended(Dialog(from, to))
    /\ closed' = TRUE /\ media' = FALSE
    /\ UNCHANGED <<tracked, state, reinvite, offers, request, tickVars, quiet,
                   inviteTotal, invite3xx, invite200, effective, ineffective>>

\* cleanupExpiredDialogs: Cleanup of the dialogs, then the rest for each of them.
ExpireDialogs(gone) ==
    /\ ~locked /\ expired = 0
    /\ dialogs' = dialogs \ gone
    /\ locked' = TRUE /\ expired' = Cardinality(gone)
    /\ UNCHANGED <<tracked, state, reinvite, closed, offers, media, request, quiet, counters>>

CloseExpired ==
    /\ locked
    /\ closed' = TRUE /\ media' = FALSE /\ locked' = FALSE
    /\ UNCHANGED <<tracked, state, reinvite, offers, dialogs, request, expired, quiet, counters>>

\* The ticker's loop over the expired dialogs.
ReportExpired ==
    /\ ~locked /\ expired > 0
    /\ expired' = expired - 1 /\ completed' = completed + 1
    /\ UNCHANGED <<callVars, request, locked, quiet,
                   inviteTotal, invite3xx, invite200, effective, ineffective>>

-----------------------------------------------------------------------------
(* The ratios of registerRatioCollectors, as fractions.                    *)

SER == IF inviteTotal = 0 \/ inviteTotal - invite3xx <= 0 THEN <<0, 1>>
       ELSE <<invite200, inviteTotal - invite3xx>>
SCR == IF inviteTotal = 0 THEN <<0, 1>> ELSE <<completed, inviteTotal>>
AtMost(r, s) == r[1] * s[2] <= s[1] * r[2]

-----------------------------------------------------------------------------
(* The ticker's sweeps of what is older than defaultInviteTTL.             *)

\* cleanupInviteTransactions: an INVITE that rings for too long is forgotten and
\* may still be answered; once answered nothing more of it comes.
ForgetTransaction(k) ==
    /\ state[k] # "none" /\ request.key # k
    /\ quiet' = IF state[k] = "final" THEN quiet \cup {k} ELSE quiet
    /\ state' = [state EXCEPT ![k] = "none"]
    /\ reinvite' = [reinvite EXCEPT ![k] = FALSE]
    /\ UNCHANGED <<tracked, closed, offers, dialogs, media, request, tickVars, counters>>

ForgetClosed ==
    /\ closed /\ closed' = FALSE
    /\ UNCHANGED <<tracked, state, reinvite, offers, dialogs, media, request, tickVars,
                   quiet, counters>>

\* cleanupInviteTracker.
ForgetInvite ==
    /\ tracked /\ tracked' = FALSE
    /\ UNCHANGED <<state, reinvite, closed, offers, dialogs, media, request, tickVars,
                   quiet, counters>>

\* cleanupInviteSDP.
ForgetOffer(k) ==
    /\ k \in offers /\ offers' = offers \ {k}
    /\ UNCHANGED <<tracked, state, reinvite, closed, dialogs, media, request, tickVars,
                   quiet, counters>>

-----------------------------------------------------------------------------
To(from) == (Tags \ {from}) \cup {NoTag}

Next == \/ \E k \in Keys : \E to \in To(k.from), sdp \in BOOLEAN : MeetInvite(k, to, sdp)
        \/ RecordInvite \/ Cancel
        \/ \E k \in Keys : \E to \in To(k.from), status \in Status, answer \in BOOLEAN :
              Respond(k, to, status, answer)
        \/ \E from \in Tags : \E to \in Tags \ {from} : ByeOK(from, to)
        \/ \E gone \in SUBSET dialogs \ {{}} : ExpireDialogs(gone)
        \/ CloseExpired \/ ReportExpired
        \/ \E k \in Keys : ForgetTransaction(k) \/ ForgetOffer(k)
        \/ ForgetClosed \/ ForgetInvite

Spec == Init /\ [][Next]_vars

-----------------------------------------------------------------------------
(* Properties.                                                             *)

\* Types; a dialog has two tags (normalizeDialogID).
TypeOK ==
    /\ tracked \in BOOLEAN /\ closed \in BOOLEAN /\ media \in BOOLEAN /\ locked \in BOOLEAN
    /\ state \in [Keys -> {"none", "open", "final"}] /\ reinvite \in [Keys -> BOOLEAN]
    /\ offers \subseteq Keys /\ quiet \subseteq Keys
    /\ dialogs \subseteq SUBSET Tags
    /\ \/ request = None
       \/ request \in [key : Keys, sdp : BOOLEAN, reinvite : BOOLEAN, repeated : BOOLEAN]
    /\ expired \in Nat
    /\ inviteTotal \in Nat /\ invite3xx \in Nat /\ invite200 \in Nat
    /\ effective \in Nat /\ ineffective \in Nat /\ completed \in Nat

Settled == {k \in Keys : state[k] = "final"} \cup quiet

\* An INVITE transaction adds at most one final answer to the ratios, however its
\* responses are repeated, forked or late, and its request repeated
\* (classifyInviteResponse, observeInviteTransaction).
FinalsCountedOnce ==
    invite3xx + effective + ineffective <= Cardinality(Settled)

\* A session completes at most once, by BYE or by expiry, and only if its INVITE
\* was counted as answered (dialogs.go Delete, Cleanup, exporter.go handleBye200OK).
CompletedWereAnswered == completed + expired + Cardinality(dialogs) <= invite200

\* No media of the Call-ID stay registered when it has no dialog left
\* (handleInvite200OK, unregisterMedia): nothing else would ever remove them.
MediaHaveDialog == media /\ ~locked => dialogs # {}

\* After its BYE or its expiry a call does not come to life again by a late answer: a
\* dialog is entered then only for a call that is new, by the first final answer of an
\* INVITE that was seen to ask for one (closedInviteCalls, classifyInviteResponse).
ClosedStaysClosed ==
    [][closed => \A d \in dialogs' \ dialogs :
          \E k \in Keys : /\ k.from \in d /\ ~reinvite[k]
                         /\ state[k] = "open" /\ state'[k] = "final"]_vars

\* docs/METRICS.md:1192 says "SCR is always <= SER", of the formulas of
\* registerRatioCollectors.
SCRBelowSER == AtMost(SCR, SER)
=============================================================================
