--------------------------- MODULE Registrations ---------------------------
(***************************************************************************)
(* Registrations and the detectors of signalling fraud: the REGISTER       *)
(* exchange, the active registrations and their gauge                      *)
(* (internal/exporter/exporter.go, internal/service/metrics.go), and       *)
(* registerScanTracker and inviteBurstTracker                              *)
(* (internal/exporter/fraud.go).                                           *)
(*                                                                         *)
(* A label set is the source address it was resolved from.  A user         *)
(* registers under one Call-ID, so the tables of requests and of           *)
(* registrations have the same keys.  Ages stand for times; they grow no   *)
(* more once nothing depends on them.                                      *)
(***************************************************************************)
EXTENDS Naturals, Sequences, FiniteSets

CONSTANTS Users, Homes, Registrar,   \* addresses-of-record, source addresses
          Lifetime,                  \* an Expires header
          DefaultLifetime,           \* defaultRegisterExpiresSec
          Window,                    \* of both detectors, and their thresholds
          ScanThreshold, BurstThreshold,
          MaxEntries,                \* registerScanMaxEntriesPerIP
          MaxEvents,                 \* bound: packets
          Nobody

ASSUME UserAssumption == IsFiniteSet(Users)
ASSUME PlaceAssumption == Registrar \notin Homes /\ Nobody \notin Homes \cup {Registrar}
ASSUME TimeAssumption == {Lifetime, DefaultLifetime, Window} \subseteq Nat /\ Lifetime > 0
ASSUME SizeAssumption ==
    {ScanThreshold, BurstThreshold, MaxEntries} \subseteq Nat \ {0} /\ MaxEvents \in Nat

Sources == Homes \cup {Registrar}

VARIABLES
    requests,       \* registerTracker: where the REGISTER came from
    registrations,  \* registerExpiryTracker
    countryChanges, \* register_country_change, per user
    measured,       \* register delays (RRD and LRD)
    scans,          \* registerScanTracker: the age of a user's entry at a source
    bursts,         \* inviteBurstTracker: ages, the oldest first
    tpc,            \* the ticker: what it does next
    counted,        \* the registrations it has counted last, by source
    gauge,          \* active_registrations
    prevKeys,       \* metrics.prevRegistrationKeys
    \* History.
    registers,      \* REGISTERs seen
    from,           \* the sources a user registered from
    seen,           \* the age of a user's last registration at a source
    full,           \* sources that have had MaxEntries entries
    invites,        \* ages of all initial INVITEs of a source
    scanAlert, burstAlert,  \* whether the last event raised an alert, and should have
    events

exchange == <<requests, registrations, countryChanges, measured>>
windows == <<scans, bursts>>
ticker == <<tpc, counted, gauge, prevKeys>>
history == <<registers, from, seen, full, invites>>
vars == <<exchange, windows, ticker, history, scanAlert, burstAlert, events>>

None == [age |-> 0]
Long == Window + 1   \* an age past the window

Quiet == [raised |-> FALSE, due |-> FALSE, known |-> TRUE]

Init ==
    /\ requests = [u \in Users |-> Nobody]
    /\ registrations = [u \in Users |-> None]
    /\ countryChanges = [u \in Users |-> 0] /\ measured = 0
    /\ scans = [s \in Sources |-> [u \in Users |-> Long]]
    /\ bursts = [s \in Homes |-> <<>>]
    /\ tpc = "wait" /\ counted = [s \in Sources |-> 0]
    /\ gauge = [s \in Sources |-> 0] /\ prevKeys = {}
    /\ registers = 0 /\ from = [u \in Users |-> {}]
    /\ seen = scans /\ full = {} /\ invites = bursts
    /\ scanAlert = Quiet /\ burstAlert = Quiet /\ events = 0

Event == events < MaxEvents /\ events' = events + 1

-----------------------------------------------------------------------------
(* The REGISTER exchange, on the consumer.                                 *)

\* handleRequest.
Request(u, s) ==
    /\ Event
    /\ requests' = [requests EXCEPT ![u] = s]
    /\ registers' = registers + 1
    /\ from' = [from EXCEPT ![u] = @ \cup {s}]
    /\ UNCHANGED <<registrations, countryChanges, measured, windows, ticker, seen, full,
                   invites, scanAlert, burstAlert>>

\* getRegisterCarrier: where a response is attributed to.
Origin(u) == IF requests[u] = Nobody THEN Registrar ELSE requests[u]

Tracked(u) == requests[u] # Nobody
Measure(u) == measured' = IF Tracked(u) THEN measured + 1 ELSE measured
MeasureStill(u) == Measure(u) /\ UNCHANGED requests
MeasureOnce(u) == Measure(u) /\ requests' = [requests EXCEPT ![u] = Nobody]

\* registerScanTracker.record: what it keeps, and what was registered.  At the bound it
\* refreshes nobody, so it is short of entries once it is below the bound again.
Fresh(ages) == {u \in Users : ages[u] <= Window}
Recorded(ages, u) ==
    IF Cardinality(Fresh(ages)) < MaxEntries THEN [ages EXCEPT ![u] = 0] ELSE ages

AtBound(ages) == Cardinality(Fresh(ages)) >= MaxEntries
Scan(u, s) ==
    /\ scans' = [scans EXCEPT ![s] = Recorded(@, u)]
    /\ seen' = [seen EXCEPT ![s][u] = 0]
    /\ full' = IF AtBound(scans'[s]) THEN full \cup {s} ELSE full
    /\ scanAlert' = [raised |-> Cardinality(Fresh(scans'[s])) >= ScanThreshold,
                     due    |-> Cardinality(Fresh(seen'[s])) >= ScanThreshold,
                     known  |-> s \notin full \/ (AtBound(scans'[s]) /\ ScanThreshold <= MaxEntries)]

\* storeRegistration.
Moves(u, s) == registrations[u] # None /\ registrations[u].source # s
Register(u, s, ttl) ==
    /\ registrations' = [registrations EXCEPT ![u] = [age |-> 0, source |-> s, ttl |-> ttl]]
    /\ countryChanges' = [countryChanges EXCEPT ![u] = IF Moves(u, s) THEN @ + 1 ELSE @]
    /\ Scan(u, s)

\* handleRegister200OK: an Expires header that is absent or zero gives the default.
Accepted(u, expires) ==
    /\ Event
    /\ Register(u, Origin(u), IF expires > 0 THEN expires ELSE DefaultLifetime)
    /\ MeasureOnce(u)
    /\ UNCHANGED <<bursts, ticker, registers, from, invites, burstAlert>>

\* handleRegisterNon200Response: a redirection is measured, ...
Redirected(u) ==
    /\ Event /\ MeasureOnce(u)
    /\ UNCHANGED <<registrations, countryChanges, windows, ticker, history, scanAlert,
                   burstAlert>>

\* ... any other response, a provisional one too, ends the measurement.
Refused(u) ==
    /\ Event
    /\ requests' = [requests EXCEPT ![u] = Nobody]
    /\ UNCHANGED <<registrations, countryChanges, measured, windows, ticker, history,
                   scanAlert, burstAlert>>

-----------------------------------------------------------------------------
(* Initial INVITEs.                                                        *)

\* record and cleanup trim a window up to its first entry that is not past it.
OldestRecent(ages) == CHOOSE n \in 1..(Len(ages) + 1) :
    (\A m \in 1..(n - 1) : ages[m] > Window) /\ (n <= Len(ages) => ages[n] <= Window)
Recent(ages) == SubSeq(ages, OldestRecent(ages), Len(ages))
Last(ages, n) == IF Len(ages) > n THEN SubSeq(ages, Len(ages) - n + 1, Len(ages)) ELSE ages

\* inviteBurstTracker.record keeps one more than it needs.
KeptFewer == BurstThreshold - 1
Kept == BurstThreshold + 1
Invite(s) ==
    /\ Event
    /\ bursts' = [bursts EXCEPT ![s] = Last(Append(Recent(@), 0), Kept)]
    /\ invites' = [invites EXCEPT ![s] = Append(Recent(@), 0)]
    /\ burstAlert' = [raised |-> Len(bursts'[s]) >= BurstThreshold,
                      due |-> Len(invites'[s]) >= BurstThreshold, known |-> TRUE]
    /\ UNCHANGED <<exchange, scans, ticker, registers, from, seen, full, scanAlert>>

-----------------------------------------------------------------------------
(* The ticker, and time.                                                   *)

\* The cleanups of a pass: requests of which too long nothing was heard, expired
\* registrations, windows.
Clean(old) ==
    /\ tpc = "wait" /\ tpc' = "count"
    /\ requests' = [u \in Users |-> IF u \in old THEN Nobody ELSE requests[u]]
    /\ registrations' = [u \in Users |->
           IF registrations[u] # None /\ registrations[u].age > registrations[u].ttl
           THEN None ELSE registrations[u]]
    /\ bursts' = [s \in Homes |-> Recent(bursts[s])]
    /\ UNCHANGED <<countryChanges, measured, scans, counted, gauge, prevKeys, history,
                   scanAlert, burstAlert, events>>

\* registrationCounts.
Count ==
    /\ tpc = "count" /\ tpc' = "set"
    /\ counted' = [s \in Sources |->
           Cardinality({u \in Users : registrations[u] # None /\ registrations[u].source = s})]
    /\ UNCHANGED <<exchange, windows, gauge, prevKeys, history, scanAlert, burstAlert, events>>

\* setGaugeFromCounts: what vanished is set to zero.
CurrentKeys == {s \in Sources : counted[s] > 0}
GaugedNow == [s \in Sources |-> IF s \in CurrentKeys THEN counted[s] ELSE gauge[s]]
Gauged == [s \in Sources |-> IF s \in CurrentKeys THEN counted[s]
                             ELSE IF s \in prevKeys THEN 0 ELSE gauge[s]]
SetGauge ==
    /\ tpc = "set" /\ tpc' = "wait"
    /\ gauge' = Gauged /\ prevKeys' = CurrentKeys
    /\ UNCHANGED <<exchange, windows, counted, history, scanAlert, burstAlert, events>>

Older(age, last) == IF age < last THEN age + 1 ELSE age
AllOlder(ages) == [n \in DOMAIN ages |-> Older(ages[n], Long)]
Tick ==
    /\ registrations' = [u \in Users |->
           IF registrations[u] = None THEN None
           ELSE [registrations[u] EXCEPT !.age = Older(@, registrations[u].ttl + 1)]]
    /\ scans' = [s \in Sources |-> AllOlder(scans[s])]
    /\ seen' = [s \in Sources |-> AllOlder(seen[s])]
    /\ bursts' = [s \in Homes |-> AllOlder(bursts[s])]
    /\ invites' = [s \in Homes |-> Recent(AllOlder(invites[s]))]
    /\ UNCHANGED <<requests, countryChanges, measured, ticker, registers, from, full,
                   scanAlert, burstAlert, events>>

-----------------------------------------------------------------------------
Pass == (\E old \in SUBSET Users : Clean(old)) \/ Count \/ SetGauge
Next == \/ \E u \in Users : \/ \E s \in Homes : Request(u, s)
                            \/ \E expires \in {0, Lifetime} : Accepted(u, expires)
                            \/ Redirected(u) \/ Refused(u)
        \/ \E s \in Homes : Invite(s)
        \/ Pass \/ Tick

Spec == Init /\ [][Next]_vars

\* Time passes and the ticker goes on.
FairSpec == Spec /\ WF_vars(Tick) /\ WF_vars(Pass)

-----------------------------------------------------------------------------
(* Properties.                                                             *)

\* Type invariant.
Registration == [age : Nat, source : Sources, ttl : {Lifetime, DefaultLifetime}]
TypeOK ==
    /\ requests \in [Users -> Homes \cup {Nobody}]
    /\ registrations \in [Users -> Registration \cup {None}]
    /\ countryChanges \in [Users -> Nat] /\ measured \in Nat
    /\ scans \in [Sources -> [Users -> 0..Long]]
    /\ bursts \in [Homes -> Seq(0..Long)]
    /\ tpc \in {"wait", "count", "set"}
    /\ counted \in [Sources -> Nat] /\ gauge \in [Sources -> Nat]
    /\ prevKeys \subseteq Sources
    /\ registers \in Nat /\ events \in 0..MaxEvents

\* A delay is measured once for a REGISTER, however often it is answered
\* (exporter.go removeRegisterTime).
MeasuredOnce == measured + Cardinality({u \in Users : Tracked(u)}) <= registers

\* After a pass of the ticker the gauge of every label set shows what was counted, zero
\* for those that had registrations and have none (metrics.go setGaugeFromCounts).
GaugeExact == tpc = "wait" => gauge = counted

\* Of users the detector never raises an alert without cause, and raises each that is
\* due as long as the source is at the bound or never was (fraud.go registerScanTracker).
ScansExact ==
    /\ scanAlert.raised => scanAlert.due
    /\ scanAlert.due /\ scanAlert.known => scanAlert.raised

\* The detectors, which trim their windows and bound them, raise an alert exactly when
\* the window holds the threshold (fraud.go record): of INVITEs always, of users but
\* at a source that was at the bound and is below it.
WindowsExact == (burstAlert.raised <=> burstAlert.due) /\ ScansExact

\* Once nobody registers any more the gauges come down to zero
\* (exporter.go cleanupExpiredRegistrations).
Drains == <>[](\A s \in Sources : gauge[s] = 0)

\* docs/METRICS.md:676 "Refresh from the same country does **not** trigger a signal".
\* A user who registers from one source only never changed the country
\* (exporter.go storeRegistration).
ChangesAreMoves == \A u \in Users : countryChanges[u] > 0 => Cardinality(from[u]) > 1
=============================================================================
