---------------------------- MODULE PacketParser ----------------------------
(***************************************************************************)
(* PacketParser::Parse: from a captured Ethernet frame to a packet.        *)
(*                                                                         *)
(* A frame is what the sender put on the wire, by the fields the parser    *)
(* looks at: len, its number of bytes; version and ihl of the IPv4 header; *)
(* proto; data_offset of a TCP header (in words, like ihl); the endpoints; *)
(* tcp_seq; and the bytes behind the transport header, which are data, the *)
(* payload the sender sent, and padding, with which Ethernet fills a frame *)
(* up to 60 bytes.  The record of the capture file lacks the last missing  *)
(* bytes of it, be they payload or header.                                 *)
(*                                                                         *)
(* The reader passes len to the parser, not what the record holds, and a   *)
(* header may claim to be longer than the frame.  What the parser reads    *)
(* behind the record is whatever is in memory there.                       *)
(***************************************************************************)
EXTENDS Naturals, Sequences

CONSTANT StrayMemory     \* what memory behind a record may be read as

EthernetSize == 14
MinIpv4Size == 20
MinTcpSize == 20
UdpSize == 8

(* The bytes of the record: header->caplen.                                *)
CapLen(frame) == frame.len - frame.missing

TransportOffset(frame) == EthernetSize + frame.ihl * 4

HeadersEnd(frame) ==
  TransportOffset(frame) + (IF frame.proto = "TCP" THEN MinTcpSize ELSE UdpSize)

PayloadOffset(frame) ==
  TransportOffset(frame) + (IF frame.proto = "TCP" THEN frame.data_offset * 4 ELSE UdpSize)

(* The IPv4 header claims to be longer than the frame.                     *)
Overruns(frame) == TransportOffset(frame) > frame.len

(* The headers as the parser reads them: a field that ends behind the      *)
(* record is read from memory.  Where the transport header is follows from *)
(* the ihl that was read.                                                  *)
Seen(frame, memory) ==
  LET Read(end, own, stray) == IF end <= CapLen(frame) THEN own ELSE stray
      ihl == Read(15, frame.ihl, memory.ihl)
      transport == EthernetSize + ihl * 4
      EndpointAt(ip, port, own, stray) ==
        [ip   |-> Read(ip, own.ip, stray.ip),
         port |-> Read(transport + port, own.port, stray.port)]
  IN  [frame EXCEPT !.version     = Read(15, @, memory.version),
                    !.ihl         = ihl,
                    !.proto       = Read(24, @, memory.proto),
                    !.src         = EndpointAt(30, 2, @, memory.src),
                    !.dst         = EndpointAt(34, 4, @, memory.dst),
                    !.tcp_seq     = Read(transport + 8, @, memory.tcp_seq),
                    !.data_offset = Read(transport + 13, @, memory.data_offset)]

(* len - offset is a size_t, and huge when the header overruns the frame.  *)
HasRoom(frame, n) == Overruns(frame) \/ frame.len - TransportOffset(frame) >= n

(* Mutant: the protocol is not looked at.                                  *)
Parseable_AnyProtocol(frame) ==
  /\ frame.len >= EthernetSize + MinIpv4Size
  /\ frame.version = 4
  /\ HasRoom(frame, UdpSize)

(* Parse returns a packet, not nullptr, for a frame that is read like this.*)
Parseable(frame) ==
  /\ frame.len >= EthernetSize + MinIpv4Size
  /\ frame.version = 4
  /\ \/ frame.proto = "TCP" /\ HasRoom(frame, MinTcpSize)
     \/ frame.proto = "UDP" /\ HasRoom(frame, UdpSize)

(* The byte at an offset.  Bytes of the headers have no value of their own *)
(* in a frame, and a payload that starts among them, behind a data offset  *)
(* that was read from memory, may start with any.                          *)
ByteAt(frame, memory, offset) ==
  LET bytes == frame.data \o frame.padding
  IN  IF offset \in PayloadOffset(frame) .. CapLen(frame) - 1
        THEN bytes[offset - PayloadOffset(frame) + 1]
        ELSE memory.bytes[(offset % Len(memory.bytes)) + 1]

(* Mutant: that bytes are left is seen from their difference, which is     *)
(* never negative.                                                         *)
Rest_Wraps(frame, memory) ==
  LET start == PayloadOffset(Seen(frame, memory))
  IN  IF start > frame.len THEN memory.bytes
      ELSE [i \in 1 .. frame.len - start |-> ByteAt(frame, memory, start + i - 1)]

(* What is behind the headers, the padding too: the total length of the    *)
(* IPv4 header is not looked at.                                           *)
Rest(frame, memory) ==
  LET start == PayloadOffset(Seen(frame, memory))
  IN  IF start >= frame.len THEN <<>>
      ELSE [i \in 1 .. frame.len - start |-> ByteAt(frame, memory, start + i - 1)]

(* Where the parser stops reading: it copies a whole header at a time.     *)
ReadEnd(frame, memory) ==
  LET seen == Seen(frame, memory)
  IN  IF frame.len < EthernetSize THEN 0
      ELSE IF frame.len < EthernetSize + MinIpv4Size THEN EthernetSize
      ELSE IF ~Parseable(seen) THEN EthernetSize + MinIpv4Size
      ELSE IF PayloadOffset(seen) < frame.len THEN frame.len
      ELSE HeadersEnd(seen)

(* The parser may read behind the record.                                  *)
MayStray(frame) == \E memory \in StrayMemory : ReadEnd(frame, memory) > CapLen(frame)

(* It may return nullptr.                                                  *)
MayBeSkipped(frame) == \E memory \in StrayMemory : ~Parseable(Seen(frame, memory))

(* Whatever is behind the headers becomes the payload.  When nothing is,   *)
(* SetPayload is not called and the payload stays null; so it does when    *)
(* the headers overrun the frame.                                          *)
Parse(frame, memory) ==
  LET seen == Seen(frame, memory)
      rest == Rest(frame, memory)
  IN  [timestamp_us |-> frame.timestamp_us,
       src          |-> seen.src,
       dst          |-> seen.dst,
       protocol     |-> seen.proto,
       tcp_seq      |-> IF seen.proto = "TCP" THEN seen.tcp_seq ELSE 0,
       has_buffer   |-> rest # <<>>,
       payload      |-> rest]

(* The packets that may come of a frame.                                   *)
Parsings(frame) ==
  {Parse(frame, memory) : memory \in {m \in StrayMemory : Parseable(Seen(frame, m))}}

=============================================================================
