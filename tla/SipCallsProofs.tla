--------------------------- MODULE SipCallsProofs ---------------------------
(***************************************************************************)
(* Theorems about SipCalls, for any tags and any finite set of INVITE      *)
(* transactions.                                                           *)
(***************************************************************************)
EXTENDS SipCalls, FiniteSetTheorems, TLAPS

\* The dialogs are finitely many, so that they can be counted.
IInv == /\ TypeOK
        /\ IsFiniteSet(dialogs)
        /\ FinalsCountedOnce
        /\ CompletedWereAnswered
        /\ MediaHaveDialog

\* The settled transactions are finitely many.
LEMMA SettledFinite ==
  ASSUME TypeOK
  PROVE  IsFiniteSet(Settled)
<1>1. Settled \subseteq Keys
  BY DEF Settled, TypeOK
<1> QED
  BY <1>1, KeysAssumption, FS_Subset

\* A first final answer settles one more transaction.
LEMMA OneMoreSettled ==
  ASSUME TypeOK, NEW k \in Keys, state[k] # "final", k \notin quiet,
         state' = [state EXCEPT ![k] = "final"], quiet' = quiet
  PROVE  Cardinality(Settled') = Cardinality(Settled) + 1
<1>1. Settled' = Settled \cup {k}
  BY DEF Settled, TypeOK
<1>2. k \notin Settled
  BY DEF Settled
<1> QED
  BY <1>1, <1>2, SettledFinite, FS_AddElement

LEMMA SettledIsNat ==
  ASSUME TypeOK
  PROVE  Cardinality(Settled) \in Nat
BY SettledFinite, FS_CardinalityType

LEMMA InitIInv == Init => IInv
<1> SUFFICES ASSUME Init PROVE IInv
  OBVIOUS
<1>1. TypeOK
  <2>1. /\ state \in [Keys -> {"none", "open", "final"}]
        /\ reinvite \in [Keys -> BOOLEAN]
    BY DEF Init
  <2>2. tracked \in BOOLEAN /\ closed \in BOOLEAN /\ media \in BOOLEAN /\ locked \in BOOLEAN
    BY DEF Init
  <2>3. offers \subseteq Keys /\ quiet \subseteq Keys /\ dialogs \subseteq SUBSET Tags
    BY DEF Init
  <2>4. request = None /\ expired \in Nat
    BY DEF Init
  <2>5. /\ inviteTotal \in Nat /\ invite3xx \in Nat /\ invite200 \in Nat
        /\ effective \in Nat /\ ineffective \in Nat /\ completed \in Nat
    BY DEF Init
  <2> QED
    BY <2>1, <2>2, <2>3, <2>4, <2>5 DEF TypeOK
<1>2. IsFiniteSet(dialogs) /\ Cardinality(dialogs) = 0
  BY FS_EmptySet DEF Init
<1>3. FinalsCountedOnce
  BY <1>1, SettledIsNat DEF Init, FinalsCountedOnce
<1>4. CompletedWereAnswered
  BY <1>2 DEF Init, CompletedWereAnswered
<1>5. MediaHaveDialog
  BY DEF Init, MediaHaveDialog
<1> QED
  BY <1>1, <1>2, <1>3, <1>4, <1>5 DEF IInv

-----------------------------------------------------------------------------
(* Type correctness.                                                       *)

\* handleInvite200OK keeps the types of what it writes.
LEMMA EstablishTypes ==
  ASSUME TypeOK, NEW k \in Keys, NEW to \in To(k.from), NEW answer \in BOOLEAN,
         Establish(k, to, answer)
  PROVE  dialogs' \subseteq SUBSET Tags /\ offers' \subseteq Keys /\ media' \in BOOLEAN
<1> DEFINE d == Dialog(k.from, to)
<1> DEFINE nothing == ~Identified(to) \/ (IsReinvite(k, to) /\ ~Refreshed(d))
<1>1. CASE nothing
  BY <1>1 DEF Establish, TypeOK
<1>2. CASE ~nothing
  <2>1. Dialog(k.from, to) \in SUBSET Tags
    BY <1>2, KeysAssumption DEF To, Identified, Dialog
  <2>2. /\ dialogs' = IF IsReinvite(k, to) THEN dialogs ELSE dialogs \cup {d}
        /\ offers' = offers \ {k}
        /\ media' = IF IsReinvite(k, to) THEN media \/ k \in offers
                    ELSE media \/ k \in offers \/ answer
    BY <1>2 DEF Establish
  <2>3. dialogs' \subseteq SUBSET Tags
    BY <2>1, <2>2 DEF TypeOK
  <2>4. offers' \subseteq Keys
    BY <2>2 DEF TypeOK
  <2>5. media' \in BOOLEAN
    BY <2>2 DEF TypeOK
  <2> QED
    BY <2>3, <2>4, <2>5
<1> QED
  BY <1>1, <1>2

LEMMA NextTypeOK ==
  ASSUME TypeOK, IsFiniteSet(dialogs), [Next]_vars
  PROVE  TypeOK'
<1> USE DEF TypeOK, callVars, tickVars, counters
<1>1. ASSUME NEW k \in Keys, NEW to \in To(k.from), NEW sdp \in BOOLEAN,
             MeetInvite(k, to, sdp)
      PROVE  TypeOK'
  BY <1>1 DEF MeetInvite, Active
<1>2. CASE RecordInvite
  BY <1>2, TagAssumption DEF RecordInvite, CountRequest, Observe, None
<1>3. CASE Cancel
  BY <1>3 DEF Cancel
<1>4. ASSUME NEW k \in Keys, NEW to \in To(k.from), NEW status \in Status,
             NEW answer \in BOOLEAN, Respond(k, to, status, answer)
      PROVE  TypeOK'
  <2>1. IsReinvite(k, to) \in BOOLEAN
    BY DEF IsReinvite, Active
  <2>2. counters' = counters \/ Count(status)
    BY <1>4 DEF Respond
  <2>3. /\ inviteTotal' \in Nat /\ invite3xx' \in Nat /\ invite200' \in Nat
        /\ effective' \in Nat /\ ineffective' \in Nat /\ completed' \in Nat
    BY <2>2 DEF Count
  <2>4. /\ state' \in [Keys -> {"none", "open", "final"}]
        /\ reinvite' \in [Keys -> BOOLEAN]
    BY <1>4, <2>1 DEF Respond
  <2>5. dialogs' \subseteq SUBSET Tags /\ offers' \subseteq Keys /\ media' \in BOOLEAN
    <3>1. CASE FirstFinal(k, status) /\ status = "ok"
      <4>1. Establish(k, to, answer)
        BY <1>4, <3>1 DEF Respond
      <4> QED
        BY <4>1, EstablishTypes
    <3>2. CASE ~(FirstFinal(k, status) /\ status = "ok")
      BY <1>4, <3>2 DEF Respond
    <3> QED
      BY <3>1, <3>2
  <2>6. tracked' \in BOOLEAN
    BY <1>4 DEF Respond
  <2> QED
    BY <1>4, <2>3, <2>4, <2>5, <2>6 DEF Respond
<1>5. ASSUME NEW from \in Tags, NEW to \in Tags \ {from}, ByeOK(from, to)
      PROVE  TypeOK'
  <2>1. Ended(Dialog(from, to)) \in Nat
    BY DEF Ended
  <2>2. completed' \in Nat
    BY <1>5, <2>1 DEF ByeOK
  <2>3. dialogs' \subseteq SUBSET Tags
    BY <1>5 DEF ByeOK
  <2> QED
    BY <1>5, <2>2, <2>3 DEF ByeOK
<1>6. ASSUME NEW gone \in SUBSET dialogs \ {{}}, ExpireDialogs(gone)
      PROVE  TypeOK'
  <2>1. Cardinality(gone) \in Nat
    BY FS_Subset, FS_CardinalityType
  <2> QED
    BY <1>6, <2>1 DEF ExpireDialogs
<1>7. CASE CloseExpired
  BY <1>7 DEF CloseExpired
<1>8. CASE ReportExpired
  BY <1>8 DEF ReportExpired
<1>9. ASSUME NEW k \in Keys, ForgetTransaction(k)
      PROVE  TypeOK'
  BY <1>9 DEF ForgetTransaction
<1>10. CASE ForgetClosed
  BY <1>10 DEF ForgetClosed
<1>11. CASE ForgetInvite
  BY <1>11 DEF ForgetInvite
<1>12. ASSUME NEW k \in Keys, ForgetOffer(k)
       PROVE  TypeOK'
  BY <1>12 DEF ForgetOffer
<1>13. CASE UNCHANGED vars
  BY <1>13 DEF vars
<1> HIDE DEF TypeOK, callVars, tickVars, counters
<1> QED
  BY <1>1, <1>2, <1>3, <1>4, <1>5, <1>6, <1>7, <1>8, <1>9, <1>10, <1>11, <1>12, <1>13
  DEF Next

-----------------------------------------------------------------------------
(* One final answer of a transaction.                                      *)

\* Where neither the transactions nor the ratios' counters change.
LEMMA FinalsUntouched ==
  ASSUME FinalsCountedOnce, UNCHANGED <<state, quiet, invite3xx, effective, ineffective>>
  PROVE  FinalsCountedOnce'
BY DEF FinalsCountedOnce, Settled

\* Where the settled transactions stay and the counters do not change.
LEMMA FinalsSettledKept ==
  ASSUME FinalsCountedOnce, Settled' = Settled,
         UNCHANGED <<invite3xx, effective, ineffective>>
  PROVE  FinalsCountedOnce'
BY DEF FinalsCountedOnce

LEMMA NextFinals ==
  ASSUME TypeOK, FinalsCountedOnce, [Next]_vars
  PROVE  FinalsCountedOnce'
<1> USE DEF callVars, tickVars, counters
<1>1. ASSUME NEW k \in Keys, NEW to \in To(k.from), NEW sdp \in BOOLEAN,
             MeetInvite(k, to, sdp)
      PROVE  FinalsCountedOnce'
  BY <1>1, FinalsUntouched DEF MeetInvite
<1>2. CASE RecordInvite
  <2>1. Settled' = Settled
    BY <1>2 DEF RecordInvite, CountRequest, Observe, Settled, TypeOK
  <2> QED
    BY <1>2, <2>1, FinalsSettledKept DEF RecordInvite, CountRequest
<1>3. CASE Cancel
  BY <1>3, FinalsUntouched DEF Cancel
<1>4. ASSUME NEW k \in Keys, NEW to \in To(k.from), NEW status \in Status,
             NEW answer \in BOOLEAN, Respond(k, to, status, answer)
      PROVE  FinalsCountedOnce'
  <2>1. CASE ~FirstFinal(k, status)
    BY <1>4, <2>1, FinalsUntouched DEF Respond
  <2>2. CASE FirstFinal(k, status)
    <3>1. /\ state[k] # "final" /\ k \notin quiet /\ quiet' = quiet
          /\ state' = [state EXCEPT ![k] = "final"]
      BY <1>4, <2>2 DEF Respond, FirstFinal
    <3>2. Cardinality(Settled') = Cardinality(Settled) + 1
      BY <3>1, OneMoreSettled
    <3>3. counters' = counters \/ Count(status)
      BY <1>4 DEF Respond
    <3>4. Cardinality(Settled) \in Nat
      BY SettledIsNat
    <3>5. invite3xx' + effective' + ineffective' <= Cardinality(Settled) + 1
      BY <3>3, <3>4 DEF Count, TypeOK, FinalsCountedOnce
    <3> QED
      BY <3>2, <3>5 DEF FinalsCountedOnce
  <2> QED
    BY <2>1, <2>2
<1>5. ASSUME NEW from \in Tags, NEW to \in Tags \ {from}, ByeOK(from, to)
      PROVE  FinalsCountedOnce'
  BY <1>5, FinalsUntouched DEF ByeOK
<1>6. ASSUME NEW gone \in SUBSET dialogs \ {{}}, ExpireDialogs(gone)
      PROVE  FinalsCountedOnce'
  BY <1>6, FinalsUntouched DEF ExpireDialogs
<1>7. CASE CloseExpired
  BY <1>7, FinalsUntouched DEF CloseExpired
<1>8. CASE ReportExpired
  BY <1>8, FinalsUntouched DEF ReportExpired
<1>9. ASSUME NEW k \in Keys, ForgetTransaction(k)
      PROVE  FinalsCountedOnce'
  <2>1. Settled' = Settled
    BY <1>9 DEF ForgetTransaction, Settled, TypeOK
  <2> QED
    BY <1>9, <2>1, FinalsSettledKept DEF ForgetTransaction
<1>10. CASE ForgetClosed
  BY <1>10, FinalsUntouched DEF ForgetClosed
<1>11. CASE ForgetInvite
  BY <1>11, FinalsUntouched DEF ForgetInvite
<1>12. ASSUME NEW k \in Keys, ForgetOffer(k)
       PROVE  FinalsCountedOnce'
  BY <1>12, FinalsUntouched DEF ForgetOffer
<1>13. CASE UNCHANGED vars
  BY <1>13, FinalsUntouched DEF vars
<1> HIDE DEF callVars, tickVars, counters
<1> QED
  BY <1>1, <1>2, <1>3, <1>4, <1>5, <1>6, <1>7, <1>8, <1>9, <1>10, <1>11, <1>12, <1>13
  DEF Next

-----------------------------------------------------------------------------
(* Completed sessions and the dialogs still open.                          *)

\* What the invariants need of a dialog set.
Counted == IsFiniteSet(dialogs) /\ CompletedWereAnswered

LEMMA CountedUntouched ==
  ASSUME Counted, UNCHANGED <<dialogs, completed, expired, invite200>>
  PROVE  Counted'
BY DEF Counted, CompletedWereAnswered

\* handleInvite200OK opens a dialog only for an initial INVITE, and one at most.
LEMMA EstablishOne ==
  ASSUME Counted, NEW k, NEW to, NEW answer, Establish(k, to, answer)
  PROVE  /\ IsFiniteSet(dialogs')
         /\ Cardinality(dialogs') <= Cardinality(dialogs) + 1
         /\ IsReinvite(k, to) => dialogs' = dialogs
<1> DEFINE d == Dialog(k.from, to)
<1>1. IsFiniteSet(dialogs)
  BY DEF Counted
<1>2. dialogs' = dialogs \/ (~IsReinvite(k, to) /\ dialogs' = dialogs \cup {d})
  BY DEF Establish
<1>3. Cardinality(dialogs) \in Nat
  BY <1>1, FS_CardinalityType
<1>4. /\ IsFiniteSet(dialogs \cup {d})
      /\ Cardinality(dialogs \cup {d}) <= Cardinality(dialogs) + 1
  BY <1>1, <1>3, FS_AddElement
<1> QED
  BY <1>1, <1>2, <1>3, <1>4

LEMMA NextCounted ==
  ASSUME TypeOK, Counted, [Next]_vars
  PROVE  Counted'
<1> USE DEF callVars, tickVars, counters
<1>0. IsFiniteSet(dialogs) /\ Cardinality(dialogs) \in Nat
  BY FS_CardinalityType DEF Counted
<1>1. ASSUME NEW k \in Keys, NEW to \in To(k.from), NEW sdp \in BOOLEAN,
             MeetInvite(k, to, sdp)
      PROVE  Counted'
  BY <1>1, CountedUntouched DEF MeetInvite
<1>2. CASE RecordInvite
  BY <1>2, CountedUntouched DEF RecordInvite, CountRequest
<1>3. CASE Cancel
  BY <1>3, CountedUntouched DEF Cancel
<1>4. ASSUME NEW k \in Keys, NEW to \in To(k.from), NEW status \in Status,
             NEW answer \in BOOLEAN, Respond(k, to, status, answer)
      PROVE  Counted'
  <2>1. completed' = completed /\ expired' = expired
    BY <1>4 DEF Respond, Count
  <2>2. invite200' \in Nat /\ invite200' >= invite200
    BY <1>4 DEF Respond, Count, TypeOK
  <2>3. CASE ~(FirstFinal(k, status) /\ status = "ok")
    <3>1. dialogs' = dialogs
      BY <1>4, <2>3 DEF Respond
    <3> QED
      BY <1>0, <2>1, <2>2, <3>1 DEF Counted, CompletedWereAnswered, TypeOK
  <2>4. CASE FirstFinal(k, status) /\ status = "ok"
    <3>1. Establish(k, to, answer)
      BY <1>4, <2>4 DEF Respond
    <3>2. /\ IsFiniteSet(dialogs')
          /\ Cardinality(dialogs') <= Cardinality(dialogs) + 1
          /\ IsReinvite(k, to) => dialogs' = dialogs
      BY <3>1, EstablishOne
    <3>3. Cardinality(dialogs') \in Nat
      BY <3>2, FS_CardinalityType
    <3>4. CASE IsReinvite(k, to)
      BY <1>0, <2>1, <2>2, <3>2, <3>4 DEF Counted, CompletedWereAnswered, TypeOK
    <3>5. CASE ~IsReinvite(k, to)
      <4>1. invite200' = invite200 + 1
        BY <1>4, <2>4, <3>5 DEF Respond, Count
      <4> QED
        BY <1>0, <2>1, <3>2, <3>3, <4>1 DEF Counted, CompletedWereAnswered, TypeOK
    <3> QED
      BY <3>4, <3>5
  <2> QED
    BY <2>3, <2>4
<1>5. ASSUME NEW from \in Tags, NEW to \in Tags \ {from}, ByeOK(from, to)
      PROVE  Counted'
  <2> DEFINE d == Dialog(from, to)
  <2>1. /\ dialogs' = dialogs \ {d} /\ completed' = completed + Ended(d)
        /\ expired' = expired /\ invite200' = invite200
    BY <1>5 DEF ByeOK
  <2>2. /\ IsFiniteSet(dialogs \ {d})
        /\ Cardinality(dialogs \ {d}) = Cardinality(dialogs) - Ended(d)
    BY <1>0, FS_RemoveElement DEF Ended
  <2>3. Ended(d) \in Nat
    BY DEF Ended
  <2> QED
    BY <1>0, <2>1, <2>2, <2>3 DEF Counted, CompletedWereAnswered, TypeOK
<1>6. ASSUME NEW gone \in SUBSET dialogs \ {{}}, ExpireDialogs(gone)
      PROVE  Counted'
  <2>1. /\ dialogs' = dialogs \ gone /\ expired = 0 /\ expired' = Cardinality(gone)
        /\ completed' = completed /\ invite200' = invite200
    BY <1>6 DEF ExpireDialogs
  <2>2. dialogs \cap gone = gone
    OBVIOUS
  <2>3. /\ IsFiniteSet(dialogs \ gone)
        /\ Cardinality(dialogs \ gone) = Cardinality(dialogs) - Cardinality(gone)
    BY <1>0, <2>2, FS_Difference
  <2>4. Cardinality(gone) \in Nat
    BY <1>0, FS_Subset, FS_CardinalityType
  <2> QED
    BY <1>0, <2>1, <2>3, <2>4 DEF Counted, CompletedWereAnswered, TypeOK
<1>7. CASE CloseExpired
  BY <1>7, CountedUntouched DEF CloseExpired
<1>8. CASE ReportExpired
  <2>1. /\ completed' + expired' = completed + expired
        /\ dialogs' = dialogs /\ invite200' = invite200
    BY <1>8 DEF ReportExpired, TypeOK
  <2> QED
    BY <1>0, <2>1 DEF Counted, CompletedWereAnswered
<1>9. ASSUME NEW k \in Keys, ForgetTransaction(k)
      PROVE  Counted'
  BY <1>9, CountedUntouched DEF ForgetTransaction
<1>10. CASE ForgetClosed
  BY <1>10, CountedUntouched DEF ForgetClosed
<1>11. CASE ForgetInvite
  BY <1>11, CountedUntouched DEF ForgetInvite
<1>12. ASSUME NEW k \in Keys, ForgetOffer(k)
       PROVE  Counted'
  BY <1>12, CountedUntouched DEF ForgetOffer
<1>13. CASE UNCHANGED vars
  BY <1>13, CountedUntouched DEF vars
<1> HIDE DEF callVars, tickVars, counters
<1> QED
  BY <1>1, <1>2, <1>3, <1>4, <1>5, <1>6, <1>7, <1>8, <1>9, <1>10, <1>11, <1>12, <1>13
  DEF Next

-----------------------------------------------------------------------------
(* Media and dialogs.                                                      *)

LEMMA MediaUntouched ==
  ASSUME MediaHaveDialog, UNCHANGED <<media, locked, dialogs>>
  PROVE  MediaHaveDialog'
BY DEF MediaHaveDialog

LEMMA NextMedia ==
  ASSUME TypeOK, MediaHaveDialog, [Next]_vars
  PROVE  MediaHaveDialog'
<1> USE DEF callVars, tickVars, counters
<1>1. ASSUME NEW k \in Keys, NEW to \in To(k.from), NEW sdp \in BOOLEAN,
             MeetInvite(k, to, sdp)
      PROVE  MediaHaveDialog'
  BY <1>1, MediaUntouched DEF MeetInvite
<1>2. CASE RecordInvite
  BY <1>2, MediaUntouched DEF RecordInvite, CountRequest
<1>3. CASE Cancel
  BY <1>3, MediaUntouched DEF Cancel
<1>4. ASSUME NEW k \in Keys, NEW to \in To(k.from), NEW status \in Status,
             NEW answer \in BOOLEAN, Respond(k, to, status, answer)
      PROVE  MediaHaveDialog'
  <2>1. CASE ~(FirstFinal(k, status) /\ status = "ok")
    BY <1>4, <2>1, MediaUntouched DEF Respond
  <2>2. CASE FirstFinal(k, status) /\ status = "ok"
    <3> DEFINE d == Dialog(k.from, to)
    <3> DEFINE nothing == ~Identified(to) \/ (IsReinvite(k, to) /\ ~Refreshed(d))
    <3>1. Establish(k, to, answer) /\ locked' = locked
      BY <1>4, <2>2 DEF Respond
    <3>2. CASE nothing
      BY <3>1, <3>2, MediaUntouched DEF Establish
    <3>3. CASE ~nothing /\ IsReinvite(k, to)
      <4>1. dialogs' = dialogs /\ d \in dialogs
        BY <3>1, <3>3 DEF Establish, Refreshed
      <4> QED
        BY <4>1 DEF MediaHaveDialog
    <3>4. CASE ~nothing /\ ~IsReinvite(k, to)
      <4>1. dialogs' = dialogs \cup {d}
        BY <3>1, <3>4 DEF Establish
      <4> QED
        BY <4>1 DEF MediaHaveDialog
    <3> QED
      BY <3>2, <3>3, <3>4
  <2> QED
    BY <2>1, <2>2
<1>5. ASSUME NEW from \in Tags, NEW to \in Tags \ {from}, ByeOK(from, to)
      PROVE  MediaHaveDialog'
  BY <1>5 DEF ByeOK, MediaHaveDialog
<1>6. ASSUME NEW gone \in SUBSET dialogs \ {{}}, ExpireDialogs(gone)
      PROVE  MediaHaveDialog'
  BY <1>6 DEF ExpireDialogs, MediaHaveDialog
<1>7. CASE CloseExpired
  BY <1>7 DEF CloseExpired, MediaHaveDialog
<1>8. CASE ReportExpired
  BY <1>8, MediaUntouched DEF ReportExpired
<1>9. ASSUME NEW k \in Keys, ForgetTransaction(k)
      PROVE  MediaHaveDialog'
  BY <1>9, MediaUntouched DEF ForgetTransaction
<1>10. CASE ForgetClosed
  BY <1>10, MediaUntouched DEF ForgetClosed
<1>11. CASE ForgetInvite
  BY <1>11, MediaUntouched DEF ForgetInvite
<1>12. ASSUME NEW k \in Keys, ForgetOffer(k)
       PROVE  MediaHaveDialog'
  BY <1>12, MediaUntouched DEF ForgetOffer
<1>13. CASE UNCHANGED vars
  BY <1>13, MediaUntouched DEF vars
<1> HIDE DEF callVars, tickVars, counters
<1> QED
  BY <1>1, <1>2, <1>3, <1>4, <1>5, <1>6, <1>7, <1>8, <1>9, <1>10, <1>11, <1>12, <1>13
  DEF Next

-----------------------------------------------------------------------------
(* The theorems.                                                           *)

\* The inductive invariant holds in every reachable state, in every order of the
\* consumer's and the ticker's steps.
THEOREM Invariance == Spec => []IInv
<1>1. IInv /\ [Next]_vars => IInv'
  BY NextTypeOK, NextFinals, NextCounted, NextMedia DEF IInv, Counted
<1> QED
  BY InitIInv, <1>1, PTL DEF Spec

\* State keeps its types: a dialog has tags of the Call-ID and a counter never falls
\* below zero (exporter.go, dialogs.go).
THEOREM TypeCorrect == Spec => []TypeOK
BY Invariance, PTL DEF IInv

\* Repeated, forked and late responses, and repeated requests, never count an INVITE
\* transaction's final answer twice (classifyInviteResponse, observeInviteTransaction).
THEOREM FinalsOnce == Spec => []FinalsCountedOnce
BY Invariance, PTL DEF IInv

\* A session completes at most once, by BYE or by expiry, and was counted as answered
\* (handleBye200OK, cleanupExpiredDialogs, handleInvite200OK).
THEOREM CompletedAnswered == Spec => []CompletedWereAnswered
BY Invariance, PTL DEF IInv

\* Media stay registered only while the Call-ID has a dialog that will release them
\* (handleInvite200OK, handleBye200OK, cleanupExpiredDialogs).
THEOREM MediaOwned == Spec => []MediaHaveDialog
BY Invariance, PTL DEF IInv


\* Whatever answers come after the BYE or the expiry, late, repeated or forked, a dialog
\* is entered again only by the first final answer of an INVITE that was seen to open a
\* call (classifyInviteResponse).
THEOREM StaysClosed == Spec => ClosedStaysClosed
<1>1. IInv /\ [Next]_vars =>
        (closed => \A d \in dialogs' \ dialogs :
            \E k \in Keys : /\ k.from \in d /\ ~reinvite[k]
                           /\ state[k] = "open" /\ state'[k] = "final")
  <2> SUFFICES ASSUME IInv, [Next]_vars, closed, NEW d \in dialogs' \ dialogs
               PROVE  \E k \in Keys : /\ k.from \in d /\ ~reinvite[k]
                                      /\ state[k] = "open" /\ state'[k] = "final"
    OBVIOUS
  <2>1. PICK k \in Keys : \E to \in To(k.from), status \in Status, answer \in BOOLEAN :
                             Respond(k, to, status, answer)
    BY DEF Next, vars, callVars, MeetInvite, RecordInvite, Cancel, ByeOK, ExpireDialogs,
       CloseExpired, ReportExpired, ForgetTransaction, ForgetOffer, ForgetClosed, ForgetInvite
  <2>2. PICK to \in To(k.from), status \in Status, answer \in BOOLEAN :
           /\ Respond(k, to, status, answer)
           /\ FirstFinal(k, status) /\ Establish(k, to, answer)
    BY <2>1 DEF Respond
  <2>3. state[k] = "open" /\ ~reinvite[k] /\ d = Dialog(k.from, to)
    BY <2>2 DEF FirstFinal, Late, Establish, IsReinvite
  <2>4. state'[k] = "final"
    BY <2>2 DEF Respond, IInv, TypeOK
  <2> QED
    BY <2>3, <2>4 DEF Dialog
<1> QED
  BY <1>1, Invariance, PTL DEF Spec, ClosedStaysClosed

=============================================================================
