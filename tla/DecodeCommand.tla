---------------------------- MODULE DecodeCommand ---------------------------
(***************************************************************************)
(* The decode command from end to end: PcapReader reads the capture,       *)
(* PacketParser turns each frame into a packet, the callback hands it to   *)
(* the FlowTracker, TimelineBuilder decodes what the flows hold and sorts  *)
(* the events, and the command prints them and exits.                      *)
(*                                                                         *)
(* The flow tracker's state and steps are those of FlowTracker.  The       *)
(* decoder is any that makes messages of some bytes and never returns on   *)
(* others; BinaryDecoder checks the one the code has.                      *)
(***************************************************************************)
EXTENDS FlowTracker, PacketParser, SequencesExt

CONSTANTS
  Captures,    \* captures, as sequences of frames
  Decode(_),   \* BinaryDecoder::DecodeToMessages, for the schema loaded
  Endless(_)   \* the bytes it never returns on

(* A captured frame; what its headers say need not be true of it, but what *)
(* is behind them fills it.                                                *)
Frames ==
  {frame \in [timestamp_us : Nat, len : Nat, version : Nat, ihl : Nat, data_offset : Nat,
              proto : STRING, src : Endpoint, dst : Endpoint, tcp_seq : SeqNumber,
              data : Seq(Nat), padding : Seq(Nat), missing : Nat] :
     /\ frame.missing <= frame.len
     /\ \/ frame.len = PayloadOffset(frame) + Len(frame.data) + Len(frame.padding)
        \/ frame.len <= PayloadOffset(frame) /\ frame.data = <<>> /\ frame.padding = <<>>}

Memory ==
  [version : Nat, ihl : Nat, proto : STRING, src : Endpoint, dst : Endpoint,
   tcp_seq : SeqNumber, data_offset : Nat, bytes : Seq(Nat) \ {<<>>}]

ASSUME DecodeAssumption ==
  /\ Decode(<<>>) = <<>> /\ ~Endless(<<>>)
  /\ Captures \subseteq Seq(Frames)
  /\ StrayMemory \subseteq Memory

VARIABLES
  environment,   \* what the command finds: options given, schema and pcap
                 \* readable, the pcap damaged behind its last frame
  capture,       \* the frames in the file
  position,      \* how many of them have been read
  pc,            \* where CmdDecode is
  unbuilt,       \* the flows Build has still to visit
  events,        \* TimelineBuilder::events_
  exit_code

allVars == <<flows, crashed, log, environment, capture, position, pc, unbuilt, events, exit_code>>

(* The file is opened and read.                                            *)
WillRead == environment.options /\ environment.schema /\ environment.pcap

InitCommand ==
  /\ Init
  /\ environment \in [options : BOOLEAN, schema : BOOLEAN, pcap : BOOLEAN, damaged : BOOLEAN]
  /\ capture \in (IF WillRead THEN Captures ELSE {<<>>})
  /\ position = 0
  /\ pc = "start"
  /\ unbuilt = {}
  /\ events = <<>>
  /\ exit_code = 0

(* A missing option, a schema that does not load or a file that does not   *)
(* open ends the command with exit code 1.                                 *)
Refuse ==
  /\ pc = "start"
  /\ ~WillRead
  /\ pc' = "exited"
  /\ exit_code' = 1
  /\ UNCHANGED <<flows, crashed, log, environment, capture, position, unbuilt, events>>

StartReading ==
  /\ pc = "start"
  /\ WillRead
  /\ pc' = "reading"
  /\ UNCHANGED <<flows, crashed, log, environment, capture, position, unbuilt, events, exit_code>>

(* One record of the file.  A frame that does not parse is counted and     *)
(* skipped; reading behind a record may end the process.                   *)
ReadRecord ==
  /\ pc = "reading"
  /\ ~crashed
  /\ position < Len(capture)
  /\ LET frame == capture[position + 1]
     IN  \/ \E packet \in Parsings(frame) : OnPacket(packet) \/ OnBarePacket(packet)
         \/ MayBeSkipped(frame) /\ UNCHANGED vars
         \/ MayStray(frame) /\ crashed' = TRUE /\ UNCHANGED <<flows, log>>
  /\ position' = position + 1
  /\ UNCHANGED <<environment, capture, pc, unbuilt, events, exit_code>>

(* Mutant: only the end of the file ends the loop; after an error the next *)
(* record is asked for again.                                              *)
EndOfCapture_NotOnError ==
  /\ pc = "reading"
  /\ ~crashed
  /\ position = Len(capture)
  /\ ~environment.damaged
  /\ pc' = "building"
  /\ unbuilt' = DOMAIN flows
  /\ UNCHANGED <<flows, crashed, log, environment, capture, position, events, exit_code>>

(* The end of the file, or an error in it, such as a damaged record: the   *)
(* loop ends alike for both.                                               *)
EndOfCapture ==
  /\ pc = "reading"
  /\ ~crashed
  /\ position = Len(capture)
  /\ pc' = "building"
  /\ unbuilt' = DOMAIN flows
  /\ UNCHANGED <<flows, crashed, log, environment, capture, position, events, exit_code>>

Event(ts, transport, src, dst, message) ==
  [timestamp_us |-> ts, transport |-> transport, src |-> src, dst |-> dst, message |-> message]

EventsOf(messages, ts, transport, src, dst) ==
  [i \in DOMAIN messages |-> Event(ts, transport, src, dst, messages[i])]

(* Mutant: the answers are attributed to the client as well.               *)
TcpEvents_SameSource(flow) ==
  EventsOf(Decode(flow.client_to_server.stream), flow.first_seen, "TCP", flow.key.src, flow.key.dst)
    \o EventsOf(Decode(flow.server_to_client.stream), flow.first_seen, "TCP", flow.key.src, flow.key.dst)

(* Every message of a TCP flow has the time of the flow's first packet.    *)
TcpEvents(flow) ==
  EventsOf(Decode(flow.client_to_server.stream), flow.first_seen, "TCP", flow.key.src, flow.key.dst)
    \o EventsOf(Decode(flow.server_to_client.stream), flow.first_seen, "TCP", flow.key.dst, flow.key.src)

(* Mutant: datagrams, too, get the time of the flow.                       *)
UdpEvents_FlowTime(flow) ==
  FlattenSeq([i \in DOMAIN flow.datagrams |->
    LET d == flow.datagrams[i]
    IN  EventsOf(Decode(d.payload), flow.first_seen, "UDP", d.src, d.dst)])

UdpEvents(flow) ==
  FlattenSeq([i \in DOMAIN flow.datagrams |->
    LET d == flow.datagrams[i]
    IN  EventsOf(Decode(d.payload), d.timestamp_us, "UDP", d.src, d.dst)])

(* A datagram without payload has a null buffer, which Build uses.         *)
HasBareDatagram(flow) ==
  flow.key.protocol = "UDP" /\ \E i \in DOMAIN flow.datagrams : NullPayload(flow.datagrams[i])

(* The decoder is given bytes it never returns on.                         *)
DecodesForEver(flow) ==
  IF flow.key.protocol = "TCP"
    THEN Endless(flow.client_to_server.stream) \/ Endless(flow.server_to_client.stream)
    ELSE \E i \in DOMAIN flow.datagrams :
           /\ Endless(flow.datagrams[i].payload)
           /\ \A j \in 1 .. i - 1 : ~NullPayload(flow.datagrams[j])

(* Build visits the flows in the order of the hash table, that is, in any. *)
(* A decoder that does not return stays in its loop, or ends the process   *)
(* when its messages have filled the memory.                               *)
BuildFlow ==
  /\ pc = "building"
  /\ ~crashed
  /\ \E key \in unbuilt :
       LET flow == flows[key]
       IN  /\ unbuilt' = unbuilt \ {key}
           /\ \/ /\ ~DecodesForEver(flow) /\ ~HasBareDatagram(flow)
                 /\ events' = events \o (IF key.protocol = "TCP" THEN TcpEvents(flow)
                                                                 ELSE UdpEvents(flow))
                 /\ UNCHANGED <<crashed, pc>>
              \/ /\ DecodesForEver(flow) \/ HasBareDatagram(flow)
                 /\ crashed' = TRUE
                 /\ UNCHANGED <<events, pc>>
              \/ /\ DecodesForEver(flow)
                 /\ pc' = "decoding"
                 /\ UNCHANGED <<events, crashed>>
  /\ UNCHANGED <<flows, log, environment, capture, position, exit_code>>

(* The comparator of the sort.                                             *)
Before(a, b) == a.timestamp_us < b.timestamp_us

(* What std::sort may return, which is taken at its word: it need not keep *)
(* equal events in place.                                                  *)
Sortings(seq) ==
  {s \in {[i \in DOMAIN seq |-> seq[p[i]]] : p \in Bijection(DOMAIN seq, DOMAIN seq)} :
     \A i \in 1 .. Len(s) - 1 : ~Before(s[i + 1], s[i])}

SortEvents ==
  /\ pc = "building"
  /\ ~crashed
  /\ unbuilt = {}
  /\ events' \in Sortings(events)
  /\ pc' = "printing"
  /\ UNCHANGED <<flows, crashed, log, environment, capture, position, unbuilt, exit_code>>

PrintTimeline ==
  /\ pc = "printing"
  /\ pc' = "exited"
  /\ UNCHANGED <<flows, crashed, log, environment, capture, position, unbuilt, events, exit_code>>

NextCommand ==
  Refuse \/ StartReading \/ ReadRecord \/ EndOfCapture \/ BuildFlow \/ SortEvents \/ PrintTimeline

(* The command is one thread that runs until it exits.                     *)
SpecCommand == InitCommand /\ [][NextCommand]_allVars /\ WF_allVars(NextCommand)

-----------------------------------------------------------------------------
(* Type correctness.  What the tracker keeps are packets of TCP and UDP;   *)
(* Build only visits flows that are there, and all of them.                *)
CommandTypeOK ==
  /\ TypeOK
  /\ position \in 0 .. Len(capture)
  /\ pc \in {"start", "reading", "building", "decoding", "printing", "exited"}
  /\ unbuilt \subseteq DOMAIN flows
  /\ \A i \in DOMAIN events : events[i].timestamp_us \in Nat
  /\ exit_code \in {0, 1}

Reported == pc = "exited" /\ exit_code = 0

(* The endpoints of the capture.                                           *)
Peers == {capture[i].src : i \in DOMAIN capture} \cup {capture[i].dst : i \in DOMAIN capture}

(* The frames that one endpoint sent another and the parser accepts, in    *)
(* the order of the capture: recursive, like DatagramsOf.                  *)
Between(frame, proto, from, to) ==
  Parseable(frame) /\ frame.proto = proto /\ frame.src = from /\ frame.dst = to

FramesOf(frames, proto, from, to) ==
  LET chosen[n \in 0 .. Len(frames)] ==
        IF n = 0 THEN <<>>
        ELSE IF Between(frames[n], proto, from, to) THEN Append(chosen[n - 1], frames[n])
                                                    ELSE chosen[n - 1]
  IN  chosen[Len(frames)]

(* The places of the timeline that hold what one endpoint told another.    *)
EventsBetween(transport, from, to) ==
  {i \in DOMAIN events :
     events[i].transport = transport /\ events[i].src = from /\ events[i].dst = to}

(* The values of a function with their multiplicities: equal times leave   *)
(* the order of events open.                                               *)
BagOf(f) == [x \in {f[i] : i \in DOMAIN f} |-> Cardinality({i \in DOMAIN f : f[i] = x})]

(* The first k segments follow each other without a gap.                   *)
Gapless(segments, k) ==
  \A i \in 1 .. k - 1 :
    segments[i + 1].tcp_seq = (segments[i].tcp_seq + Len(segments[i].data)) % SeqSpace

(* They hold what their sender sent, all of it and nothing else.           *)
Genuine(segments, k) == \A i \in 1 .. k : segments[i].padding = <<>> /\ segments[i].missing = 0

(* A record that holds every header the parser goes by.  One whose IPv4    *)
(* header overruns the frame has no transport header, and no payload.      *)
Settled(frame) ==
  \/ frame.len < EthernetSize + MinIpv4Size
  \/ /\ CapLen(frame) >= EthernetSize + MinIpv4Size
     /\ ~Parseable(frame) \/ Overruns(frame) \/ CapLen(frame) >= HeadersEnd(frame)

(* A record whose IPv4 header says that it is of another conversation.     *)
Elsewhere(frame, proto, from, to) ==
  /\ CapLen(frame) >= EthernetSize + MinIpv4Size
  /\ frame.proto # proto \/ frame.src.ip # from.ip \/ frame.dst.ip # to.ip

(* No record cut off in its headers may be taken for one of from to to.    *)
Certain(proto, from, to) ==
  \A i \in DOMAIN capture : Settled(capture[i]) \/ Elsewhere(capture[i], proto, from, to)

(* What the property below needs of a decoder: whatever bytes follow, the  *)
(* messages before them stay as they are.  One that takes a whole stream   *)
(* for a single message, as that of a UDP schema does, is no such decoder. *)
KeepsMessages(inputs) ==
  \A some, more \in inputs : \A i \in DOMAIN Decode(some) :
    i \in DOMAIN Decode(some \o more) /\ Decode(some \o more)[i] = Decode(some)[i]

MessagesOf(segments, k) == Decode(FlattenSeq([i \in 1 .. k |-> segments[i].data]))

Printed(from, to) == BagOf([i \in EventsBetween("TCP", from, to) |-> events[i].message])

(* From frame to timeline: as far as the capture shows every byte of one   *)
(* direction of a connection, in order and without padding, the timeline   *)
(* has the messages those bytes hold, from the right sender to the right   *)
(* receiver, however the connection is interleaved with others, with its   *)
(* own other direction, with what comes after a loss and with a later      *)
(* connection of the same endpoints; and it has no other messages when the *)
(* capture shows all of them.  Records that were cut off do no harm, in    *)
(* their payload or, between other addresses, in their transport header;   *)
(* one between the same addresses that lost its ports is read with any.    *)
CleanStreamsReported ==
  Reported =>
    \A from, to \in Peers : Certain("TCP", from, to) =>
      LET segments == FramesOf(capture, "TCP", from, to)
      IN  \A k \in 0 .. Len(segments) :
            (Gapless(segments, k) /\ Genuine(segments, k)) =>
              IF k = Len(segments) THEN Printed(from, to) = BagOf(MessagesOf(segments, k))
                                   ELSE BagOf(MessagesOf(segments, k)) \sqsubseteq Printed(from, to)

(* The messages of every datagram that was captured whole are in the       *)
(* timeline, with the time at which that datagram was captured and its own *)
(* endpoints, and nothing else is there between these endpoints.           *)
DatagramsReported ==
  Reported =>
    \A from, to \in Peers : Certain("UDP", from, to) =>
      LET frames == FramesOf(capture, "UDP", from, to)
      IN  Genuine(frames, Len(frames)) =>
            BagOf([i \in EventsBetween("UDP", from, to) |-> events[i]])
              = BagOf(FlattenSeq([i \in DOMAIN frames |->
                  EventsOf(Decode(frames[i].data), frames[i].timestamp_us, "UDP", from, to)]))

(* As far as its record shows, a frame is one from src to dst with         *)
(* something behind its headers.                                           *)
CouldBe(frame, proto, src, dst) ==
  /\ frame.len >= EthernetSize + MinIpv4Size
  /\ CapLen(frame) >= EthernetSize + MinIpv4Size =>
       /\ frame.version = 4 /\ frame.proto = proto
       /\ frame.src.ip = src.ip /\ frame.dst.ip = dst.ip
       /\ HeadersEnd(frame) <= frame.len
       /\ CapLen(frame) >= TransportOffset(frame) + 4 => frame.src = src /\ frame.dst = dst
       /\ CapLen(frame) >= HeadersEnd(frame) => PayloadOffset(frame) < frame.len

(* A printed event is of frames the capture holds: one between its two     *)
(* endpoints with its time, and one from its sender with something behind  *)
(* the headers.  No record, however its headers lie about their length,    *)
(* puts endpoints into the timeline that nobody captured, unless it was    *)
(* cut off before them: then the addresses are still those of its IPv4     *)
(* header, as long as it has one.                                          *)
EveryEventHasItsFrames ==
  Reported =>
    \A i \in DOMAIN events : \E f, g \in {capture[j] : j \in DOMAIN capture} :
      LET e == events[i]
      IN  /\ \/ CouldBe(f, e.transport, e.src, e.dst)
             \/ CouldBe(f, e.transport, e.dst, e.src)
          /\ f.timestamp_us = e.timestamp_us
          /\ CouldBe(g, e.transport, e.src, e.dst)
          /\ e.transport = "UDP" => f = g

(* The command ends, or dies, whatever is in the file and wherever that is *)
(* damaged, unless the decoder is given bytes it never returns on.         *)
CommandEnds ==
  [](\A key \in DOMAIN flows : ~DecodesForEver(flows[key])) => <>(pc = "exited" \/ crashed)

-----------------------------------------------------------------------------
(* docs/test-plan.md:195 (ST-DEC-001) runs a TCP capture through reader,   *)
(* tracker, timeline and printer and expects no exception.  Any segment    *)
(* without data, such as the SYN or a pure acknowledgement, has a null     *)
(* payload, which AddSegment uses.                                         *)
NeverCrashes == ~crashed

(* docs/test-plan.md:240 (IT-DS-004) expects the reassembled stream to be  *)
(* decoded correctly.  Padding counts as payload: it enters the stream and *)
(* moves next_seq_ past the data that follows.                             *)
PaddedStreamsReported ==
  Reported =>
    \A from, to \in Peers :
      LET segments == FramesOf(capture, "TCP", from, to)
      IN  Gapless(segments, Len(segments)) =>
            Printed(from, to) = BagOf(MessagesOf(segments, Len(segments)))

=============================================================================
