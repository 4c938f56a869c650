----------------------------- MODULE PacketPath -----------------------------
(***************************************************************************)
(* The way of a frame: the kernel's socket filter (internal/bpf/sip.c),    *)
(* which drops it or hands over a snapshot of so many bytes, the reader,   *)
(* which takes the snapshot for signalling or for media, and the parser    *)
(* (internal/exporter/exporter.go).  The three look at the same headers,   *)
(* each with code of its own.                                              *)
(*                                                                         *)
(* A frame is a record of what they tell apart: len, the VLAN tag, IPv4 or *)
(* another protocol, the header length in words, UDP or another one, the   *)
(* endpoints and the kind of the payload.                                  *)
(***************************************************************************)
EXTENDS Naturals

CONSTANTS SIPPorts,   \* of the interface, in the sip_ports map and in sipPortSets
          Frames      \* frames the properties are about

Payloads == {"rtp", "reserved", "rtcp", "sip", "other"}

\* Where the headers begin and end.
IPOffset(f) == IF f.tagged THEN 18 ELSE 14
UDPOffset(f) == IPOffset(f) + 4 * f.words
Payload(f) == UDPOffset(f) + 8
Words == 5..15
MinRaw == 42        \* minRawPacketLen
MinTagged == 46     \* minVLANPacketLen
MinSIP == 50        \* minSIPDataLen
RTPHeader == 12     \* minRTPHeaderLen
RTPSnapshot == 64   \* RTP_SNAPSHOT_CAP
RTCPSnapshot == 1518

OnPort(f, ports) == f.src.port \in ports \/ f.dst.port \in ports
Least(m, n) == IF m < n THEN m ELSE n

\* isRTCPPayload, of the first n bytes of f; the filter peeks at the same byte.
IsRTCPPayload(f, n) == f.payload = "rtcp" /\ n > Payload(f) + 1

-----------------------------------------------------------------------------
\* bpf_socket_filter, before it looks at a port ...
IsDatagram(f) ==
    /\ f.len >= IPOffset(f) + 20
    /\ f.ipv4 /\ f.words \in Words
    /\ f.udp
    /\ f.len >= Payload(f)

\* ... at the endpoints of media, the destination first ...
MatchesDestination(f, endpoints) == f.dst \in endpoints
Matches(f, endpoints) == f.dst \in endpoints \/ f.src \in endpoints

\* ... and the bytes it hands over.
Filter(f, endpoints) ==
    CASE IsDatagram(f) /\ OnPort(f, SIPPorts) -> f.len
      [] IsDatagram(f) /\ ~OnPort(f, SIPPorts) /\ Matches(f, endpoints) ->
            Least(f.len, IF IsRTCPPayload(f, f.len) THEN RTCPSnapshot ELSE RTPSnapshot)
      [] OTHER -> 0

\* isSIPPacket, of n bytes: what it cannot read is signalling.
IsSIPPacket(f, n) ==
    \/ n < MinRaw \/ f.words \notin Words \/ n < Payload(f)
    \/ OnPort(f, SIPPorts)

-----------------------------------------------------------------------------
\* parseRawPacket, of n bytes: parseEthernet, parseIPv4Header, parseUDPOffset, and
\* what becomes of the payload.
LinkError(f, n) == n < MinRaw \/ (f.tagged /\ n < MinTagged)
NetworkError(f, n) == ~f.ipv4 \/ n < IPOffset(f) + 20 \/ f.words \notin Words
TransportError(f, n) == ~f.udp \/ n < Payload(f)
HeaderError(f, n) == LinkError(f, n) \/ NetworkError(f, n) \/ TransportError(f, n)

\* handleRTPIPv4 skips what has no whole header, and reserved payload types.
RTPOutcome(f, n) ==
    IF n - Payload(f) >= RTPHeader /\ f.payload = "rtp" THEN "rtp" ELSE "skipped"

Outcome(f, n) ==
    IF HeaderError(f, n) THEN "error"
    ELSE CASE n = Payload(f) -> "error"
           [] n > Payload(f) /\ f.payload \in {"rtp", "reserved", "rtcp"} ->
                IF IsRTCPPayload(f, n) THEN "rtcp" ELSE RTPOutcome(f, n)
           [] n > Payload(f) /\ f.payload \in {"sip", "other"} ->
                IF n - Payload(f) >= MinSIP /\ f.payload = "sip" THEN "sip" ELSE "error"

-----------------------------------------------------------------------------
\* A snapshot of media holds all headers: with IP options it may not.
HeadersFit(f) == Payload(f) + RTPHeader <= RTPSnapshot

\* Filter, reader and parser agree on every frame, at every length: the filter
\* drops what the parser cannot read and nothing else, hands signalling over whole,
\* and what it passed for its port only is signalling to the reader too, as long as
\* the snapshot did not cut the headers (sip.c, isSIPPacket, parseRawPacket).
FilterAgrees ==
    \A f \in Frames :
        LET n == Filter(f, {f.src, f.dst})
        IN /\ n = 0 <=> HeaderError(f, f.len)
           /\ OnPort(f, SIPPorts) => n \in {0, f.len}
           /\ n > 0 /\ HeadersFit(f) =>
                /\ ~HeaderError(f, n)
                /\ IsSIPPacket(f, n) <=> OnPort(f, SIPPorts)
=============================================================================
