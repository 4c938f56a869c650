------------------------------ MODULE MediaPath ------------------------------
(***************************************************************************)
(* The media endpoints of the calls as the kernel's filter sees them: the  *)
(* maps of MediaEndpoints decide in PacketPath which frames get to the     *)
(* tracker, which matches them again by its own tables.                    *)
(***************************************************************************)
EXTENDS MediaEndpoints

CONSTANTS SIPPorts, Frames

P == INSTANCE PacketPath

Address == [ip : Hosts, port : Nat]
ASSUME FramesAssumption ==
    Frames \subseteq [tagged : BOOLEAN, ipv4 : BOOLEAN, words : Nat, udp : BOOLEAN,
                     src : Address, dst : Address, payload : P!Payloads, len : Nat]

Datagrams == {f \in Frames : P!IsDatagram(f) /\ P!HeadersFit(f) /\ f.len > P!Payload(f) + 12}

\* Endpoints some call has, its RTCP endpoints included.
Known(k) == LabelsOf(k) # Nobody \/ \E c \in Calls : k \in callRTCP[c]

\* Once the handlers are done and the map of an interface is in step, filter, reader
\* and parser, between endpoints that are on no SIP port, bring a frame to the tracker
\* whole, or with its RTP header, when the tracker has a call for it, and drop it in the
\* kernel when nobody has (sip.c bpf_socket_filter, tracker.go lookupLabels, exporter.go
\* rtpEndpointRefs); whatever the frame, the three agree on its headers.
MediaReachTracker ==
    /\ P!FilterAgrees
    /\ todo = <<>> =>
        \A src, dst \in {k \in Endpoint : dirty[k] = "clean" /\ k.port \notin SIPPorts} :
          \A i \in Interfaces, f \in Datagrams :
            LET g == [f EXCEPT !.src = src, !.dst = dst]
                n == P!Filter(g, present[i])
            IN IF Known(src) \/ Known(dst)
               THEN /\ ~P!IsSIPPacket(g, n)
                    /\ f.payload = "rtp" => P!Outcome(g, n) = "rtp"
                    /\ f.payload = "rtcp" =>
                          P!Outcome(g, n) = "rtcp" /\ (n = f.len \/ n = P!RTCPSnapshot)
               ELSE n = 0
=============================================================================
