# Verification of sip-exporter

sip-exporter captures SIP, RTP and RTCP packets from network interfaces,
follows the calls they belong to and exports Prometheus metrics. This directory
holds TLA+ models of its concurrent and stateful parts, the TLC configurations
that check them on small instances, and theorems checked with TLAPS.

Source paths below are relative to the repository; `EX` is
`internal/exporter/exporter.go`, `PR` is `internal/exporter/packet_ring.go`.

## 1. The system

| Component | Source | State | Operations |
|---|---|---|---|
| Packet rings | `PR`, `EX` 836-932 | block status words shared with the kernel, `blockIndex`, `borrowed`, `count`, `releaseNotifications`, `references` per block | `nextPacketRingBlock`, `decodeBlock`, `track`, `retain`, `release`, `waitForRelease`, poll |
| Admission queue | `PR` 327-552 | `queuedPackets`, `pendingSIP`, `nextSIP`, `servingSIP`, `stopped`, `admissionMu`, `admissionChanged`, channel `runs` | `enqueueBlock`, `enqueueRun`, `enqueueSIPRun`, `enqueueRTPRun`, `release`, `dequeueFrame`, `stop` |
| Consumer | `EX` 791-834 | the run in hand | `readPacketRuns`, `processPacketRingRun`, `releaseQueuedPacketRuns` |
| Setup, shutdown | `EX` 347-627, 745-790 | sockets, BPF collections, `done`, `wg`, `initialized` | `Initialize` with rollback, `Close`, `IsAlive` |
| SIP calls | `EX` 1196-1240, 1469-1860, 2062-2303, `internal/service/dialogs.go` | dialogs, INVITE transactions and closed calls, cached offers, INVITE/REGISTER/OPTIONS/BYE trackers | `handleRequest`, `handleResponse`, expiry by the one-second ticker |
| Media endpoints | `internal/mediatracker/tracker.go`, `EX` 2305-2510 | owners of each endpoint, learned source aliases, RTCP endpoints, reference counts, BPF maps, `dirtyRTPEndpoints` | `Register`, `RegisterRTCP`, `Unregister`, `Replace`, `learnSourceAlias`, `retain`/`releaseRTPEndpoint`, `reconcileRTPEndpoints` |
| RTP streams, RTCP | `internal/mediatracker/stream.go`, `tracker.go` 492-800 | sequence state, loss runs, SSRC index, last cumulative loss | `observe`, `recordRTCP`, `Cleanup`, `Snapshot` |
| Fraud | `internal/exporter/fraud.go` | FAS entries and offers, scan and burst windows | `store`, `updateOffer`, `clearIfAnswerMedia`, `finalizeOnBye`, `sweep`, `record`, `cleanup` |
| Metrics | `internal/service/` | ratio counters per label set, gauges and their previous keys | `Request`, `Response`, `Invite200OK`, `SessionCompleted`, scrape |
| BPF filter | `internal/bpf/sip.c` | `sip_ports`, `rtp_endpoints` (LRU, 65536) | one decision per packet |
| Parsing, enrichment, server | `internal/{sdp,rtp,rtcp,vq,carriers,ua,geoip,config,server,telemetry}` | configuration, GeoIP database | pure functions; HTTP, signals |

Goroutines: one reader per interface, one packet consumer, one ticker (1 s) and
the HTTP server. Readers and the kernel share the ring memory; readers send
*runs* (maximal sequences of SIP or of RTP packets of a block, still lying in
it) through the admission queue to the consumer, which handles every SIP, RTP
and RTCP packet; the consumer's release goes back to the reader through
`releaseNotifications`. The consumer and the ticker share the call state, under
`dialogLifecycleMu`, `mediaLifecycleMu` and one mutex per table; the consumer
writes and the kernel reads the BPF maps; a scrape reads counters at any time.

Hard behaviours, and what makes each component correct:

* queue: lock-free accounting next to a read-write lock, a ticket line and a
  hand-made condition variable (a channel closed and replaced). Correct if no
  packet is miscounted, SIP is never dropped or overtaken by RTP, nobody sleeps
  for ever, and a stop leaves nothing behind.
* rings: memory shared with the kernel and reference counting across threads.
  Correct if a lent block stays put, every fill is read once and in order, and
  every block goes back.
* pipeline: a reader holds a block while it waits for room. Correct if this
  never closes a circle and shutdown unmaps the memory last.
* calls: responses out of order, repeated, forked, or later than the call;
  expiry from another goroutine. Correct if a call starts and ends once.
* media endpoints: several calls own one endpoint, aliases come and go, BPF
  updates fail. Correct if the maps agree with the owners.
* packet path: filter, reader and parser read the same headers with code of
  their own. Correct if they agree at every length, and a frame reaches the
  tracker exactly when a call has its endpoint.
* streams: numbers wrap, packets come late, a restart resets the counters, loss
  reports go back and carry an SSRC that other flows use too. Correct if every
  packet and every loss is counted once, for its own stream.
* fraud: the sweep, BYE, expiry, re-INVITEs and media race for one entry; windows
  are trimmed and bounded. Correct if a call is reported at most once, media of
  the answering side clear it and no other, and alerts fire exactly when due.
* setup: a step of any interface may fail. Correct if nothing is left behind.

`PROJECT.json` lists the hazards of the code with the line where each bites and
the property that covers it.

## 2. Modules

| Module | What it is |
|---|---|
| `SipFirstQueue` | what the admission queue promises: capacity, SIP in line and in order, RTP only beside an empty line |
| `PacketAdmission` | the queue, its readers, the consumer and `Close`, step by step; implements `SipFirstQueue` |
| `PacketAdmissionProofs` | theorems about it for all constants |
| `PacketRing` | the ring of each interface, its reader, the kernel, the references of its blocks |
| `PacketRingProofs` | theorems about it for any interfaces, ring size and number of runs |
| `CaptureSetup` | `Initialize` interface by interface, its rollback, and what `Close` releases |
| `Capture` | the composition of the three: setup, reader goroutines, one consumer goroutine, shutdown to the unmapping |
| `CaptureProofs` | theorems about it, composed from those of the queue and of the rings |
| `MediaEndpoints` | the media endpoint registry: the tracker's owners, aliases and streams, the exporter's reference counts, the BPF maps |
| `PacketPath` | one frame through the kernel's filter, the reader's choice and the parser (operators, no state) |
| `MediaPath` | the composition of the two: the maps of `MediaEndpoints` decide what `PacketPath` lets through |
| `MediaPathProofs` | theorems about both for any calls, endpoints and interfaces |
| `SipCalls` | the calls of one Call-ID: INVITE transactions, dialogs, offers, expiry, the counters of the ratios |
| `SipCallsProofs` | theorems about it for any tags and transactions |
| `RtpStreams` | sequence statistics of the RTP streams, the SSRC index, RTCP loss, the counters they feed |
| `RtpStreamsProofs` | theorems about it for a sequence space of any size |
| `FalseAnswer` | the FAS tracker with everything that stores, updates, clears and reports an entry |
| `FalseAnswerProofs` | theorems about it for any ports, dialogs and thresholds |
| `Registrations` | the REGISTER exchange, active registrations and their gauge, the scan and burst windows |
| `RegistrationsProofs` | theorems about it for any users, sources and bounds |
| `MC*` | model-checking instances |

### PacketAdmission

A step is what a thread does between two points another thread can observe: an
atomic load or compare-and-swap, a channel operation, an acquisition of
`admissionMu`. What happens under the lock without touching anything read
outside it is one step.

| Variables | Code |
|---|---|
| `queuedPackets`, `pendingSIP`, `nextSIP`, `servingSIP`, `stopped`, `runs` | fields of `packetBatchQueue` and its accounting |
| `writer`, `readers` | who holds `admissionMu` for writing, for reading |
| `asleep` | readers that wait on a captured `admissionChanged` that is still open |
| `pc`, `len`, `rest`, `ticket`, `accepted` | a reader in `enqueueRun`: its place, its (chunk of a) run, the packets of a long SIP run left to cut, its ticket, what RTP it reserved |
| `cpc`, `remaining`, `amount`, `draining` | the consumer: its place, `run.remaining`, the `packetCount` of the `release` under way |
| `xpc`, `done` | `Close` and the `done` channel |

A packet is not represented, a run is its length. `reserve` and `reserveAll`
are compare-and-swap loops and one atomic step each. The Go select statements
that may take either branch are two actions enabled together. The number of
RTP packets dropped is only counted by the code and left out.

### PacketRing

The kernel (`FillBlock`, external) fills blocks in turn while it owns the next
one. `content` is a history variable: which fill of the ring a block holds, so
that a run, which remembers the fill it was cut from, can tell whether its
packets are still there. `blockIndex` wraps at `Wrap`, 2^32 in the code;
`WrapAssumption` is the reason this is harmless, the constant 8 of
`packetRingBlockCount` dividing 2^32. A malformed block header (`RejectBlock`),
a failing poll (`InterfaceLost`) and a queue that stops (`Finish` with FALSE) may
happen at any time.

### CaptureSetup and Capture

| Variables | Code |
|---|---|
| `stage`, `current` | how far `Initialize` has come, and with which interface |
| `created` | `createdSocks`, `collections` and `ifaceNames`, which grow together |
| `held` | what the process holds of the kernel: collection, socket, RX ring and memory of an interface |
| `misfreed` | history: what was released while it was not held, so that a release repeated by the rollback shows |

Each step of `Initialize` that acquires something is an action, and `Fail` may
take the place of any. What it gives back is that step's own clean-up (the
deferred close of `createSocketForInterface`, the rollback of
`setupPacketRing`, `coll.Close`) and `releaseAll` for the interfaces before it.
`ring.close` releases what its flags say is there, so it is `RingParts`, an
intersection with `held`, in the rollback and in `Close` alike.

`Capture` has instances of `PacketAdmission`, `PacketRing` and `CaptureSetup`
over shared variables. The kernel fills a ring as soon as it is mapped, so an
interface may have blocks before the workers start and when a later interface
fails. A send is a step of queue and ring: the run enters the channel and takes a
reference. A reader is in `enqueueBlock` exactly while its `rpc` is `consume`,
and there `pc` says where. The consumer's place in the queue's code is `cpc`, in
the block's `kpc`. `Close` ends by closing the collections and then the rings.

### MediaEndpoints

| Variables | Code |
|---|---|
| `owners`, `order`, `media`, `sourceAliases`, `mediaAliases`, `callRTCP` | maps of `Tracker`; `callMedia` is `order` and labels, and labels are the call they belong to |
| `streams`, `observed` | `Tracker.streams` with one SSRC per endpoint, `dialogRTPObserved` |
| `refs`, `dirty`, `aliasLabels` | `rtpEndpointRefs`, `dirtyRTPEndpoints`, `rtpAliasLabels` |
| `gauge`, `owed` | `rtp_alias_active`; releases by the ticker's expiry that it has not reported yet |
| `present` | `rtp_endpoints` of each interface (external) |
| `todo` | what the handler that holds `mediaLifecycleMu` still has to do |
| `heard` | history: calls that were credited with a packet |

`handleInvite200OK`, `replaceMediaRevision`, `unregisterMedia` and
`handleRTPIPv4` are sequences of calls under `mediaLifecycleMu`. The action of
the handler puts them on `todo`; each is then a step of its own (`Register`,
`RegisterRTCP`, `Retain`, `Release`, `Replace`, `ReleaseAliases`, `Learned`),
because the kernel reads the maps and the ticker repairs them and drops idle
streams without that mutex. A step may append to `todo` what its result makes the
handler do: `Register` of a new endpoint is followed by its `Retain`. An update
of a map may fail on any subset of the interfaces. A packet may come from any
endpoint to any other, whether or not the filter lets it through at that
moment, because it may have been captured before. Calls are answered,
re-negotiated and ended at any time; that a call is answered before it is
ended, the dialog table decides, which `SipCalls` models. Two simplifications
add behaviours only: the ticker may repair a map while it expires a call itself,
and reports the alias releases of different calls in any order. An owner that goes
is taken out of an endpoint's owners at its first place (`RemoveFirst`), as
`removeOwner` does; `IndexesAgree` shows that there is no second one.

### PacketPath and MediaPath

A frame is a record of what the three pieces of code tell apart. Offsets and
lengths are the code's own numbers: 14 or 18 bytes of link header, the header
length of IPv4 in words, the snapshots of 64 and 1518 bytes. `Filter` is
`bpf_socket_filter` with the number of bytes it passes on, `IsSIPPacket` the
reader's choice of queue, `Outcome` what `parseRawPacket` makes of the snapshot.
`MediaPath` gives `Filter` the map of an interface (`present`) and compares what
comes out with the tracker's own lookup. The version nibble of an IPv4 header
goes with the Ethernet type. `MediaReachTracker` speaks of endpoints on no SIP port:
a media endpoint that is one is signalling to the filter and to the reader, by
their order of tests.

### SipCalls

| Variables | Code |
|---|---|
| `tracked`, `offers` | `inviteTracker`, `inviteSDP` |
| `state`, `reinvite` | `inviteTransactions`: "open" is an entry that is not final |
| `closed` | `closedInviteCalls` |
| `dialogs` | `dialogs.storage`; a dialog is its two tags |
| `media` | whether the tracker has endpoints of the Call-ID |
| `request` | the INVITE `handleRequest` is in, with what it saw of the dialog and of `inviteTracker` |
| `locked`, `expired` | the ticker between `Cleanup` of the dialogs and the release of `dialogLifecycleMu`; expired dialogs whose metrics it has not emitted |
| `inviteTotal` ... `completed` | the ratio counters of `carrierAtomicCounters` |
| `quiet` | transactions of which nothing is under way any more |

One Call-ID is enough because the tables are keyed by it; calls share only the
counters. A request is handled without `dialogLifecycleMu`, so `MeetInvite` and
`RecordInvite` are two steps and the ticker may come between them; a response is
one step, under the mutex. `ExpireDialogs`, `CloseExpired` and `ReportExpired`
are the ticker's three parts. Any message may come at any time, or again, or
never, with two assumptions on the network: the two tags of a message differ,
and no packet of a transaction comes later than `defaultInviteTTL` (60 s) after
its final response, which is when `cleanupInviteTransactions` forgets it. Without
the second a response repeated after a minute is counted again; the code has no
other protection. After a BYE or an expiry `closedInviteCalls` stands against late
answers, those whose INVITE was never captured included; `ClosedStaysClosed` says
that a closed call gets a dialog again only by the first final answer of an INVITE
that was seen to open one. A 2xx other than 200 settles its transaction and counts
nowhere. Time is otherwise abstracted: a dialog expires, and a table
entry grows old, whenever the model likes.

### RtpStreams

| Variables | Code |
|---|---|
| `streams` | `Tracker.streams` with `StreamState`; `idle` and `rtcpIdle` stand for the ages of `lastArrival` and `lastRTCP` |
| `ssrcIndex` | how often `Tracker.ssrcIndex` lists an endpoint |
| `exported`, `credited` | a stream's share of `rtp_packets`, lost, duplicate, out of order, and of the RTCP loss |
| `sent`, `reported`, `suffered` | the world: what the sender numbered, what the receiver reports, what was lost since the first report |
| `mixed`, `corrected` | streams given a report that was not theirs; whose receiver took a loss back |

The reference is the sender, who numbers without bound; the header carries the
number modulo `SeqMod`, and a packet is less than half the space away from the
newest one (`Window`). `Observed` is `StreamState.observe` case by case,
`Selected` is `selectStream`, `Recorded` and `Added` are `recordRTCP`. A
receiver may be replaced by one that starts again at zero, or at -1 through
duplicates, and what it reports wraps from `LossHalf - 1` to `-LossHalf` (24 bits
and a sign on the wire). Jitter and the E-model are read by their histograms only.

### FalseAnswer

| Variables | Code |
|---|---|
| `entry`, `offer` | an entry of `fasTracker.entries` (age and deadline) and its offered endpoints |
| `media`, `aliases`, `streams` | the call's endpoints and learned ports in the tracker; packets counted up to two, which is all `clearIfAnswerMedia` asks |
| `checking` | the packet the consumer has observed and not yet checked |
| `dialogs`, `reports` | dialogs of the Call-ID; `fas_calls` |
| `answers`, `heard`, `callerSDP`, `reoffered` | history, for the properties |

`Answer`, `Reanswer` and `Bye` are `handleInvite200OK` and `handleBye200OK`.
`Observe` and `ClearIfAnswerMedia` are two steps because the tracker's mutex is
released in between, where the ticker may sweep or expire. Packets come from and go
to any port of either side, declared or not; a learned port is found as the
tracker finds it.

### Registrations

| Variables | Code |
|---|---|
| `requests`, `registrations` | `registerTracker`, `registerExpiryTracker` |
| `scans`, `bursts` | the windows of `registerScanTracker` and `inviteBurstTracker`, as ages |
| `tpc`, `counted`, `gauge`, `prevKeys` | the ticker's pass: clean up, count, set the gauges; keys of the last pass |
| `countryChanges`, `measured` | `register_country_change`, delays measured |
| `registers`, `from`, `seen`, `full`, `invites`, `scanAlert`, `burstAlert` | history: the unbounded windows the bounded ones are held against |

A label set is the source it was resolved from, and a source stands for its
country. The ticker's pass is three steps, because the consumer runs between
its locks. `record` and `cleanup` cut a window before its first entry that is not past
it (`OldestRecent`); that this leaves just the entries within the window is because
they are in order, which `WindowsAreExact` rests on.

## 3. Runs

| Run | Instance | Shows |
|---|---|---|
| `admission` | 2 readers, capacity 2, runs of up to 3 packets, one run each, fair | the safety properties, the refinement of `SipFirstQueue`, the line is served, `Close` returns |
| `ring` | one ring of 3 blocks, 7 fills, index wrapping at 6, up to 2 runs of a block in flight, fair | order, accounting, blocks come back |
| `capture` | 2 interfaces set up with failures, rings of 1 block filled twice and once, capacity 1, fair | frames readable, nothing left behind or released twice, memory unmapped last, blocks come back, `Close` completes |
| `media` | 2 calls, 3 ports of one host, two descriptions, no maps, symmetric | counts, labels, aliases and streams follow ownership; a re-INVITE keeps what it keeps |
| `media_filter` | 1 call, 3 ports, 2 interfaces whose updates fail, frames of every length around the ends of headers | the maps follow the counts and are repaired; filter, reader, parser and tracker agree |
| `media_heard` | the instance of `media`, without symmetry | finding: a call credited with packets is reported as missing RTP |
| `calls` | 3 tags, 3 transactions (an INVITE, a later one of the caller, one of the callee), at most 2 INVITEs counted | an answer and a completion counted once, media only with a dialog, no late answer opens a closed call again |
| `calls_ratios` | the same | finding: SCR above SER |
| `streams` | 2 endpoints with one SSRC, a sequence space of 10, gap 3, bursts from 2, 6 events, symmetric | packets and losses counted once, exported whole, and credited to their own stream |
| `fas` | 2 ports of the caller, 1 of the callee, 2 dialogs, 2 answers, threshold, grace and floor 1, fair | at most one report, cleared by the answering side only, decided in the end |
| `registrations` | 3 users, one home and the registrar, windows of 1, thresholds and bound 2, 4 packets, fair | bounded windows alert as unbounded ones would; gauges come down |
| `registrations_moved` | 1 user, the same | finding: a user who did not move counted as having moved |

Bounds (all named). `MaxRun`, `MaxRuns`: packets of a run, runs of a reader;
`MaxBlocks`: fills of a ring; `MaxSplit`: runs that hold a block at once (for the
ring alone); `MaxInvites`: requests counted in `inviteTotal`; `MaxEvents`: packets,
reports and misses; `MaxAnswers`: initial INVITEs answered.

*Queue, rings, pipeline.* With capacity 2 a run of 1 fits beside another one, a run
of 2 only alone, and a run of 3 must be cut, or is partly dropped if it is RTP.
Two readers contend for every step, and a chunked run takes a second ticket
while the other reader stands in line; what a longer line could add is covered by
the proofs, which hold for every number of readers. Seven fills of a ring of three
are two full turns and more, so each block is lent, returned and lent again, and
the index wraps. In `capture` a ring of one block makes the reader depend on its
own block coming back, two readers make one wait for the other's packets, and two
interfaces are what a rollback needs: one that is complete and one that is not.

*Media.* The registry needs no counter bound: its state is finite. Its two
descriptions make the calls share the callee's endpoint, put the caller on a port
that is the other description's RTCP port, and leave a port of the host from which
a stream may come and be learned, then be declared and displace the alias. A third
call would repeat what the second does to the first. `media` has no interface, so
that the maps' failures, which no tracker step reads, do not multiply its states;
they are the subject of `media_filter`, where one call is enough because a map
sees only counts. There the frames have the lengths one short of, at and beyond
each header's end, with and without VLAN tag and IP options.

*Calls.* Three tags give a call and its fork; three transactions give the initial
INVITE, a re-INVITE from each side, and initial INVITEs that the exporter met late.
The other counters are bounded by the transactions, which is what
`FinalsCountedOnce` says.

*Streams.* `Half` 5 and `MaxGap` 3 leave a distance for every case of `observe`:
next, skipped with a short or a long run lost, restart, late, repeated. The first
number is 8 of 10, so the second or third packet wraps. `LossHalf` 2 makes the
cumulative loss wrap at the first packet missed, and come back to zero two packets
later. With a time-out of 0 a
stream may go idle between two packets. The proofs hold for every space.

*Fraud.* Two caller ports are the declared and an undeclared one, which may be
learned; two dialogs and two answers let an entry follow another and one dialog's
BYE meet the other's media. Three users and a bound of 2 fill the window and
leave one outside.

**Finding** (`media_heard`, `HeardIsObserved`). Two calls share an endpoint, for
instance the two legs of a relay seen on the same network, and the first one's
stream is alive when the second call registers the endpoint. `observe` resolves
the following packets to the second call, which the packet counters and the FAS
check believe, but marks a call as observed only where it creates a stream, and the
stream exists. If nothing changes before the second call ends it is counted in
`sip_exporter_sessions_missing_rtp_total`, which `docs/METRICS.md:900` defines as
"dialogs with SDP media endpoints but no RTP observed at all". The condition is
one SSRC for both calls, the normal case of a relayed stream.

**Finding** (`calls_ratios`, `SCRBelowSER`). `docs/METRICS.md:1192` says "SCR is
always <= SER". The denominator of SER is the INVITEs captured less the
redirections captured. With a redirection whose request was lost, or was sent
before the capture started, it reaches zero with answered calls present. SER is
then reported as 0 and SCR is not. In the counterexample one call is answered and
ended (SCR 100), and one redirection has no request. As the counters are shared by
all calls of a label set this needs as many such redirections as there are
requests captured, so it is a matter of small label sets or of the first minutes.

**Finding** (`registrations_moved`, `ChangesAreMoves`). `docs/METRICS.md:676` says
of the country-change signal: "Refresh from the same country does **not** trigger
a signal". A REGISTER response is attributed to the source of its request while
the request is tracked (`EX` 1552-1559), and the first 200 OK, or any other
response, ends that. A 200 OK seen twice, or one that follows a 1xx, is attributed
to the registrar's own address, and `storeRegistration` (`EX` 2014-2016) finds
another country than before. In the counterexample one user registers once, from
one place, and the 200 OK comes twice.

Each property has a faulty variant of a definition in its module, named after
the slip (`HasRoomUnchecked` before `HasRoom`) and listed under "mutants" in
`PROJECT.json`; with it in place the same run finds the property violated.

Fairness. Every goroutine that can step eventually does. For the steps that
take `admissionMu` this is strong fairness: the mutex is not continuously free,
but `sync.RWMutex` blocks new readers behind a waiting writer and hands a starved
waiter the lock. Nothing obliges packets to arrive, blocks to be filled, an
interface to fail or `Close` to be called. A block holds finitely many runs
(`SF` on `EndBlock`) and `poll` returns, which its timeout guarantees. In the
registry only the ticker's repair is fair: it comes every second, and an update
tried for ever is assumed to succeed on all interfaces once. System calls of
`Initialize` and `Close` return (`SF` on `Server`). In `FalseAnswer` time passes
and the ticker sweeps, in `Registrations` time passes and the ticker's pass
goes on (`WF`, both are steps of a one-second ticker that blocks on nothing but
short mutexes); nothing is assumed of packets.

Two results that are less obvious than they look: the send on `runs` under
`admissionMu` is safe only because every run holds at least one packet, so there
are never more runs than packets; and the unlocked look at `pendingSIP` in
`release` is safe only because it comes after the subtraction, as a reader that
announces itself after the look finds the room already there.

## 4. Proofs

`PacketAdmissionProofs` proves, for every finite set of interfaces, every
capacity and every bound, from `CapacityAssumption`, `BoundAssumption` and
`InterfacesAssumption`:

| Theorem | |
|---|---|
| `TypeCorrect` | `Spec => []TypeOK`: in particular 0 <= `queuedPackets` <= `Capacity` |
| `SendsNeverBlock` | the channel has room at every send |
| `TicketsAlwaysHeld` | every ticket from `servingSIP` on is held by one reader in line |
| `WakeupsNotLost` | nobody sleeps through room that nobody will signal |
| `SIPGoesFirst` | no RTP run is sent beside an announced SIP run |
| `ClosesEmpty` | after `Close` the channel is empty and nothing is counted |
| `EveryPacketCounted` | `queuedPackets` is exactly the packets reserved, in the channel and in hand |
| `ImplementsQueue` | `Spec => ImplementsSipFirstQueue`: the queue refines `SipFirstQueue` |

All follow from one inductive invariant, `IInv` (`Invariance`). The type
invariant is not inductive: that `Subtract` leaves `queuedPackets` non-negative
needs the accounting (`Accounted`), that a reservation stays below the capacity
needs the accounting and the length of the run (`RunsFit`), that the channel has
room needs that no run in it is empty. `Accounted` is `AccountingExact` with its
sums given by functions and their defining equations, which the provers can
handle where they cannot instantiate the folds; the lemmas before `InitIInv` show that
such functions exist and how they change when a run is reserved, sent and
received. `MutexHeld` ties the lock to the places between Lock and Unlock and makes
the sections exclusive; `PendingCounted` says `pendingSIP` is the cardinality of
the line; `TicketsInRange` and `TicketsHeld` together say the tickets of the line
are a bijection with `servingSIP..nextSIP-1`; `RoomSignalled` is the wake-up
condition while the queue runs, `StoppedQuietly` what takes its place afterwards;
`RTPAlone` is why the pending check stays true up to the send (RLock is held); and
`InHand` and `ShutInOrder` follow the consumer and `Close`.

`EveryPacketCounted` carries the accounting over to the folds that TLC evaluates.
A fold over a set is defined by a recursive function on its subsets; the lemmas
`SumStep` to `SumIs` show that what adds one element at a time is the same whichever
element is taken, by a smallest set on which two such functions would differ, so the
fold is the function that `Accounted` has as its witness.

`ImplementsQueue` takes the steps of `Next` one by one: an admission of
`SipFirstQueue` is the reservation, its line the readers that wait with their
tickets, and every other step of a reader, of the consumer or of `Close` stutters.
That the abstract queue serves the head of the line needs `TicketsHeld`, that it
admits RTP beside an empty line only needs `RTPAlone`.

`PacketRingProofs` proves, for any set of interfaces, any ring
size that divides the wrap of the index and any number of runs, from
`RingAssumption`, `WrapAssumption` and `NoRunAssumption`:

| Theorem | |
|---|---|
| `TypeCorrect` | `Spec => []TypeOK` |
| `LentBlocksStay` | a block that a run lies in is the user's and still holds the run's fill |
| `FillsAreInOrder` | the reader meets the fills of a ring in the kernel's order, none twice |
| `BorrowedIsAccounted` | references are the runs plus the reader; `count` is the borrowed list |

They are proved of `FreeSpec`, which is `Spec` without the bound `MaxSplit`, so that
`Capture` can use them. The inductive invariant counts (`Counted`: a reference is the
reader's, of a run or of the run in hand), says why a block is on the borrowed
list (`BorrowedListed`: it is referenced, or its last reference was dropped and the
notification is on its way, and only one of these), that a referenced block is
the user's, that the block the reader looks at is not lent (`LooksAtFree`), and
where the reader is among the fills (`InOrder`: it is done with the first *d*, the
others, at most a ring of them, lie in the next slots, and every further block of
the user's is referenced). The last part is what makes the kernel's full turn and
the wrap of the index harmless: its lemmas are the arithmetic of slots.

`CaptureProofs` proves, from `QueueAssumption` and `RingsAssumption`, which are those
of the parts:

| Theorem | |
|---|---|
| `QueueInside` | `Capture` implements the specification of the queue |
| `RingsInside` | it implements that of the rings (`FreeSpec`) |
| `FramesStayReadable` | a frame in the queue or in hand lies in a mapped, lent block |
| `NothingIsLeft` | after a failed `Initialize` or `Close` nothing is held, and nothing was released twice |
| `UnmappedWhenQuiet` | memory goes when no reader runs and no run is out |

The module has instances of the two proof modules, so the first two theorems bring
both inductive invariants along. Its own adds the stages of setup, what is held
in each and released once (`ReleasedOnce`: what a failing step undoes is its own
interface's, which is not on the lists yet), and `ViewsAgree`: a reader is in the queue's code only while it consumes
a block, and the queue's channel and the lent runs go together one by one. Without
that a ring could be unmapped while a reader is still at work in the other view.

`SipCallsProofs` proves, for any tags, any finite set of transactions and any
bound, from `KeysAssumption`, `TagAssumption` and `BoundAssumption`:

| Theorem | |
|---|---|
| `TypeCorrect` | `Spec => []TypeOK` |
| `FinalsOnce` | final answers counted are at most the settled transactions |
| `CompletedAnswered` | a session completes at most once, and was counted as answered |
| `MediaOwned` | no media stay behind without a dialog |
| `StaysClosed` | a closed call gets a dialog only by the first final answer of an INVITE seen to open one |

The inductive invariant is the conjunction of the four and the finiteness of
`dialogs`. `OneMoreSettled` is the step of `FinalsOnce`: the guard of
`classifyInviteResponse` makes every counted answer settle a transaction that was
not. `EstablishOne` is the step of `CompletedAnswered`: a dialog is opened by an
initial INVITE only, one per counted 200 OK, and `Delete` and `Cleanup` turn each
into one completion.

`RtpStreamsProofs` proves, for a sequence space of any size, any endpoints, SSRCs
and thresholds, from `SpaceAssumption`, `TimeAssumption`, `LossAssumption` and `BoundAssumption`:

| Theorem | |
|---|---|
| `TypeCorrect` | `Spec => []TypeOK` |
| `SpanIsAccounted` | received and lost are what lies between the first and the highest number |
| `LossesAreClassified` | each run of losses is counted once, as a burst or as a gap |
| `CountersAreComplete` | every packet and every skipped number is exported |
| `IndexIsExact` | the SSRC index lists the streams there are, once each |
| `LossIsOwn` | no stream is credited with more loss than its flow suffered |

The inductive invariant says of every flow (`Sound`) that the stream, the sender's
view and the exported counters agree (`Agree`, with `maxSeq` the highest number
modulo the space), that the index is exact, and what the stream is still owed
(`Owed`). `LossIsOwn` does not follow from the credited losses alone: one must
also know that what is outstanding (`Due`) is within what the flow suffered: what
the next report would add or, while the receiver's count is negative after a wrap,
what a later one may add, whether the count has gone back or not. `DifferenceOfRemainders` and
`DeltaInWindow` are the arithmetic: within half the space, the 16-bit difference
of two headers tells which of the two numbers is newer and by how much.
`SelectedOther` is why a report with an exact index never reaches a stream of
another flow unless the report misleads.

`FalseAnswerProofs` proves, for any ports, dialogs and thresholds, from
`TimeAssumption`:

| Theorem | |
|---|---|
| `TypeCorrect` | `Spec => []TypeOK` |
| `ReportsOnce` | reports and the standing entry are at most the answers |
| `CallerClearsNothing` | the caller's media clear nothing |
| `MediaClears` | a call heard at the declared port is not reported |

`MediaClears` needs three facts that no single step shows: the offered ports include
those of the caller's latest description and are all the caller's
(`OfferIsCallers`), a packet matched by its destination crosses from the other side
(`SentAcross`), hence a call that is heard has lost its entry (`HeardIsCleared`).

`RegistrationsProofs` proves, for any finite set of users, any sources and bounds,
from the four assumptions of the module:

| Theorem | |
|---|---|
| `MeasuresOnce` | delays measured and requests waiting are at most the REGISTERs |
| `GaugesAreExact` | between passes the gauges show what the last pass counted |
| `ScansAreExact` | the scan alert fires only with cause, and with cause unless the source was at its bound and is below it |
| `WindowsAreExact` | the same and, of bursts, the alert fires exactly when due |

Each has an invariant of its own. For the gauges it is that a source outside
`prevKeys` shows zero, so setting the previous keys to zero is enough. For the
scan window it is that the detector never has an entry younger than the registration
it stands for, and has all of them at a source that was never at the bound; at the
bound the window holds the threshold anyway, unless that is set above it. For the
burst window (`Tails`) it is that, read from the youngest back, the kept ages and
all ages in the window are the same as far as both go, that both are in order, that a
kept age within the window is in the other too, and that the kept sequence is full
or has all: hence each holds `BurstThreshold` entries when the other does.

`MediaPathProofs` proves, for any finite set of calls and of endpoints, any
interfaces, ports and descriptions, and for frames of every form and length, from
`FiniteAssumption` and `FramesAssumption` and those on the descriptions:

| Theorem | |
|---|---|
| `LabelsOfOwners` | an endpoint carries the labels of one of its owners, and none without owners |
| `PrivateAliases` | a learned port belongs to one call, one endpoint, and to nobody's description |
| `NoOrphanStream` | every stream is reported under a call that has its endpoint |
| `CountsAreOwners` | `rtpEndpointRefs` with what is left to do equals the ownerships; includes `TypeOK` |
| `MapsKnown` | every map follows the counts, or the endpoint is dirty |
| `KeptPasses` | a count never reaches zero under a call that has the endpoint or will register it |
| `GaugeOfAliases` | `rtp_alias_active` is the aliases plus the releases owed |
| `MediaReaches` | filter, reader, parser and tracker agree on every frame |

`Invariance` has fifteen parts. The handlers are unfinished lists of jobs, so
most parts say what a pending job implies. `IndexesAgree` ties owners and
order, which are kept apart and must name the same pairs, each once.
`RetainsFirst` says that no release waits behind a retain, so a count with a
pending release is positive when its turn comes. `Counted` is the equation of
`RefsAreOwnerships`. `ReplaceCovered` is what `Reinvite` relies on: until the old
revision is replaced only its references are taken, and each taken one has its
release. `KeptCovered` is why `KeptPasses` holds: a release ahead of a
registration of the same endpoint is not the last one. `AliasesLabelled`,
`LearnedIsLast`, `DropsAreStale` and `LabelsLive` follow a learned port from
`learnSourceAlias` to the report of its release, and `GaugeAccounted` counts with
a set of debts, one pair for each release owed, because a set's cardinality can be
reasoned about where a fold cannot; `GaugeOfAliases` then identifies the two.

The parts of the invariant that no run checks by name were checked on the instances
of section 3 before they were proved.

Only model-checked: all liveness (`CloseReturns`, `ServesFairly`, `BlocksComeBack`,
`CloseCompletes`, `MapsConverge`, `Decided`, `Drains`), which is out of the prover's
reach, and the three findings, which are counterexamples. Every safety invariant and
every action property that a run checks is a theorem.

## 5. Not modelled, and the plan

Left out: byte parsers (SDP, RTP and RTCP blocks, VQ reports, SIP headers) and the
frame iterator's bounds checks, which are pure and keep no state; jitter, MOS and
R-factor (floating point); the Prometheus library, logging, GeoIP and telemetry, the
HTTP server; a second call of `Close`, and the ticker goroutine as one of those
`Close` waits for (it leaves on `done` and waits for nothing else). Of modelled
components: the OPTIONS and BYE time tables, the endpoints behind the one-way
result (`callRTP`), IPv6 media (registered, never counted), an eviction from the
full LRU map (the kernel's choice, which the code does not notice), a scrape
between two increments.

Observations made while modelling, which no run states because no document of the
repository decides them, or because the model's premise excludes them:

* A late packet lowers the receiver's cumulative loss. `recordRTCP` takes a lower
  value for a new receiver and credits it whole, so losses are counted again
  (`docs/METRICS.md:919` describes the reset). `OwnLoss` leaves such streams out
  (`corrected`).
* The RTP snapshot of 64 bytes holds the headers of plain frames. With IP options
  (a header of more than 7 words, more than 6 with a VLAN tag) it cuts the RTP
  header and the packet is skipped; with more options it cuts the UDP header, and
  the reader takes the rest for signalling. `HeadersFit` excludes them.
* After a re-INVITE of the answering side the offer is that side's, and its own
  media no longer clear a suspicion while the caller's do (`docs/METRICS.md:739`;
  `reoffered`). Media to a learned or undeclared port of the caller do not clear
  it either.
* `Expires: 0` gets the default lifetime (`docs/METRICS.md:644`), so a user who
  unregisters stays counted for an hour. At `registerScanMaxEntriesPerIP` a user
  already listed is not refreshed, so once others have aged out the window may be
  short of users that did register, and `ScansExact` says nothing of that source; a
  threshold set above the bound can never be reached. A 1xx to a REGISTER ends its delay measurement.

Next, in this order:

1. The composition of `MediaEndpoints` with `SipCalls`, and an abstract
   specification of both: the maps hold the endpoints of the calls there are.
2. `callRTP` and the one-way result, the OPTIONS and BYE time tables.
3. A scrape between two increments of the ratio counters.
4. What the list above leaves out of modelled components.
