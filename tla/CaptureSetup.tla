---------------------------- MODULE CaptureSetup ----------------------------
(***************************************************************************)
(* What the capture holds of the kernel: Initialize sets the interfaces up *)
(* one after the other and rolls everything back when one step fails;      *)
(* Close releases it (internal/exporter/exporter.go,                       *)
(* internal/exporter/packet_ring.go).  Initialize and Close run on the     *)
(* goroutine of the server (internal/server/server.go), which calls Close  *)
(* only after an Initialize that succeeded.                                *)
(***************************************************************************)
EXTENDS FiniteSets

CONSTANTS Interfaces, Nobody

VARIABLES
    stage,     \* how far Initialize or Close has come
    current,   \* the interface being set up, or Nobody
    created,   \* interfaces on createdSocks and collections
    held,      \* resources the process holds: a "collection", a "socket", its "rxRing"
               \* and "memory", each with its interface
    misfreed   \* history: what was released while it was not held

setupVars == <<stage, current, created, held, misfreed>>

Init ==
    /\ stage = "start" /\ current = Nobody /\ created = {}
    /\ held = {} /\ misfreed = {}

\* ring.close releases what its flags say is there: the memory, the ring, the socket.
RingParts(i) == {<<kind, i>> : kind \in {"memory", "rxRing", "socket"}} \cap held
Collection(i) == <<"collection", i>>

-----------------------------------------------------------------------------
(* Initialize.                                                             *)

\* checkPrerequisites.
MeetPrerequisites ==
    /\ stage = "start" /\ stage' = "next"
    /\ UNCHANGED <<current, created, held, misfreed>>

Load(i) ==
    /\ stage = "next" /\ i \notin created
    /\ stage' = "loaded" /\ current' = i
    /\ held' = held \cup {Collection(i)}
    /\ UNCHANGED <<created, misfreed>>

\* configureEBPFMaps, and the program is found.
Configure ==
    /\ stage = "loaded" /\ stage' = "configured"
    /\ UNCHANGED <<current, created, held, misfreed>>

\* createSocketForInterface: the socket ...
OpenSocket ==
    /\ stage = "configured" /\ stage' = "socket"
    /\ held' = held \cup {<<"socket", current>>}
    /\ UNCHANGED <<current, created, misfreed>>

\* ... and its options, its interface, its filter, its buffer drained.
AttachFilter ==
    /\ stage = "socket" /\ stage' = "attached"
    /\ UNCHANGED <<current, created, held, misfreed>>

\* setupPacketRing: the ring of the socket ...
ConfigureRing ==
    /\ stage = "attached" /\ stage' = "ring"
    /\ held' = held \cup {<<"rxRing", current>>}
    /\ UNCHANGED <<current, created, misfreed>>

\* ... and its memory; the interface goes on the lists.
MapRing ==
    /\ stage = "ring" /\ stage' = "next"
    /\ held' = held \cup {<<"memory", current>>}
    /\ created' = created \cup {current}
    /\ current' = Nobody
    /\ UNCHANGED misfreed

\* What a failing step undoes of its own interface: the deferred close of
\* createSocketForInterface, the rollback of setupPacketRing, coll.Close.
UndoneKept == RingParts(current)
Undone ==
    CASE stage \in {"loaded", "configured"} -> {Collection(current)}
      [] stage = "socket" -> {<<"socket", current>>, Collection(current)}
      [] stage \in {"attached", "ring"} -> RingParts(current) \cup {Collection(current)}
      [] OTHER -> {}

\* releaseAll; a ring that is closed already has its flags down.
ReleasedAll == UNION {(RingParts(i) \ Undone) \cup {Collection(i)} : i \in created}

\* Any step may fail; the last one has no way to.
Fail ==
    /\ stage \in {"start", "next", "loaded", "configured", "socket", "attached", "ring"}
    /\ stage = "next" => created # Interfaces
    /\ stage' = "failed"
    /\ held' = held \ (Undone \cup ReleasedAll)
    /\ misfreed' = misfreed \cup (Undone \ held) \cup (ReleasedAll \ (held \ Undone))
    /\ UNCHANGED <<current, created>>

\* startWorkers.
Start ==
    /\ stage = "next" /\ created = Interfaces
    /\ stage' = "running"
    /\ UNCHANGED <<current, created, held, misfreed>>

Initialize == MeetPrerequisites \/ (\E i \in Interfaces : Load(i)) \/ Configure
              \/ OpenSocket \/ AttachFilter \/ ConfigureRing \/ MapRing \/ Fail \/ Start

-----------------------------------------------------------------------------
(* The end of Close.                                                       *)

CloseCollections ==
    /\ stage = "running" /\ stage' = "collectionsClosed"
    /\ held' = held \ {Collection(i) : i \in created}
    /\ misfreed' = misfreed \cup ({Collection(i) : i \in created} \ held)
    /\ UNCHANGED <<current, created>>

CloseRing(i) ==
    /\ stage = "collectionsClosed" /\ RingParts(i) # {}
    /\ held' = held \ RingParts(i)
    /\ UNCHANGED <<stage, current, created, misfreed>>

-----------------------------------------------------------------------------
\* The kernel fills a ring, and readers read it, while it is mapped.
Mapped(i) == <<"memory", i>> \in held

Ended == stage = "failed" \/ (stage = "collectionsClosed" /\ \A i \in created : ~Mapped(i))

\* Initialize that fails, at whichever step of whichever interface, and Close
\* leave nothing behind, and release nothing twice.
EverythingReleased == (Ended => held = {}) /\ misfreed = {}
=============================================================================
