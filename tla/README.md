# GatewayForge: a verification project

GatewayForge (`src/`) is a command-line toolkit for custom TCP/UDP protocols. It has two commands: `decode` reads a
capture, reassembles the conversations in it and prints the messages they hold as a timeline; `replay` sends the
payloads of a capture to a host, at the pace of the capture. Two demo servers stand in for the gateway.

This directory holds TLA+ models of that program, TLC configurations that check them on small instances, and proofs
that TLAPS checks for all values of the constants. Everything is translated from the sources; the documents under
`src/docs/` are used only for what they *expect*, in the runs that show where the code does something else.

## 1. Inventory

| Component | Source | State it keeps | Operations | What makes it correct |
|---|---|---|---|---|
| Capture reading | `src/pcap/PcapReader.cpp` | file handle, packet count | `Open`, `ForEachPacket` (a callback per packet) | every record is looked at once, a bad one is skipped, the loop ends |
| Packet parsing | `src/pcap/PacketParser.cpp`, `Packet` | none; builds a `Packet` | `Parse` | the payload is what the sender sent; nothing is made up from outside the record |
| Flow tracking | `src/flow/FlowTracker.cpp`, `FlowKey`, `TcpFlow`, `UdpFlow` | map from normalized keys to flows | `OnPacket`, the counts, `GetFlows` | one flow per conversation, both directions in it, nothing else in it |
| TCP reassembly | `src/flow/TcpReassembler.cpp` | `stream_`, `next_seq_`, `initialized_` | `AddSegment`, `Stream` | the stream is a contiguous run of what was sent, across wraps |
| Binary decoding | `src/protocol/BinaryDecoder.cpp` | the schema; the loop's locals | `Decode`, `DecodeToMessages` | whole messages exactly, in order, for any cut; it ends |
| Timeline | `src/timeline/*` | `events_` | `Build`, `Print` | every message, right time and endpoints, in order of time |
| Replay engine | `src/replay/ReplayEngine.cpp` | `sent_count_`, `base_ts`, the static `start_us` | `Run` | each payload once, in order, not early; delays do not add up |
| TCP replay, demo server | `src/replay/TcpReplayer.cpp`, `examples/demo-server/tcp_demo_server.cpp` | sockets, `connected_` | connect, `Send`; accept, recv, ACK | what is counted was taken whole; every replay ends |
| UDP replay, demo server | `src/replay/UdpReplayer.cpp`, `udp_demo_server.cpp` | a socket; the server's `buf` | `Send`; recvfrom, print | what is counted left for the target; what is printed of a message is of that message |
| Replay command | `src/main.cpp`, `src/cli/Commands.cpp` | the options | `CmdReplay` | it refuses what is incomplete, replays the rest, and ends |
| Schema loading | `src/protocol/SchemaLoader.cpp`, `FieldType`, `Framing` | none | `LoadFromYaml` | the schema means what the document says |
| Command line | `src/cli/CommandLine.cpp` | option map | `Parse`, `GetOr` | no option takes another for its value; the last one given counts |
| `Buffer` | `src/common/Buffer.cpp` | `data_`, `size_`, the heap behind them | construct, copy, move, assign, slice, read, destroy | every block has one owner; to its users a buffer is a value |
| `Result`, `Logger` | `include/gatewayforge/common/*` | a value or an error, a logger | | no behaviour of their own |

How they interact. Everything in `decode` is one thread: `CmdDecode` loads the schema, opens the file and calls
`ForEachPacket`, whose callback hands each packet to the `FlowTracker`; a `TcpFlow` owns two `TcpReassembler`s, one per
direction, a `UdpFlow` the list of its datagrams. `TimelineBuilder::Build` then walks the flows and gives their bytes to
the `BinaryDecoder`. In `replay`, `ReplayEngine::Run` is again a callback of `ForEachPacket`; it sleeps until a packet is
due and calls `Send`. Concurrency starts at the socket: several replaying processes, the server and the kernel's
buffers between them.

What is hard here: sequence numbers that wrap; segments that the capture shows late, twice or never; two directions and
several conversations interleaved; messages that do not coincide with segments and a capture that ends in the middle of
one; unordered iteration and an unstable sort; unsigned time arithmetic, a clock that runs on while a send blocks, and a
static variable that outlives a run; blocking sends in both directions of a connection, a server that serves one client
at a time, processes that vanish in the middle of a send; datagrams lost, doubled and overtaken, and a server's buffer
that still holds the one before; records that are truncated or whose headers lie about their length; memory that cannot
be had, and sizes near the end of `size_t`. `PROJECT.json` lists these hazards at their lines, with the
properties that watch them.

## 2. Modules

| Module | Models | Role |
|---|---|---|
| `TcpReassembler` | `TcpReassembler` | the class as operators on a record: `NewReassembler`, `AddSegment`, `ByteCount`. Sequence numbers are `% SeqSpace` (2^32 in the code) |
| `CaptureReassembly` | one reassembler and the capture that feeds it | state machine: data, empty and bare segments at any position of a window |
| `OrderedDelivery` | - | abstract: the stream only grows, as one contiguous run, until the promise is void |
| `FlowTracker` | `FlowTracker`, `FlowKey`, `TcpFlow`, `UdpFlow`, `UdpDatagramTracker` | state machine: `OnPacket`; EXTENDS `TcpReassembler` |
| `ConversationTable` | - | abstract: an entry per conversation with count, first and last time |
| `PacketParser` | `PacketParser::Parse` | operators from a frame to the packets it may become: a field or byte that ends behind the record is read from memory (`StrayMemory`), be it of the headers or of the payload, or ends the process |
| `DecodeCommand` | `PcapReader::ForEachPacket`, `CmdDecode`, `TimelineBuilder`, the use of the decoder | composes `PacketParser` and `FlowTracker`; the decoder is two constant operators, `Decode` and, for the bytes it never returns on, `Endless`; the file may be damaged behind its last frame |
| `SchemaLoader` | `SchemaLoader::LoadFromYaml` | operators from a YAML document to a schema |
| `BinaryDecoder` | `BinaryDecoder::Decode` | EXTENDS `SchemaLoader`; the loop over a stream as a state machine, one message per step; the datagram branch in one step |
| `SequentialReplay` | - | abstract: packets are attempted one after another, each once, and counted at most once |
| `ReplayEngine` | `ReplayEngine::Run` | state machine with a clock; `Send` may fail at any time |
| `ReplaySession` | `TcpReplayer`, the part of `Run` that calls it, `tcp_demo_server` | clients, server and bounded buffers between them |
| `CommandLine` | `CommandLine::Parse`, `GetOr` | from arguments to a map of options, by a recursive function |
| `ReplayCommand` | `main`, `Execute`, `CmdReplay`, `UdpReplayer`, `udp_demo_server` | EXTENDS `CommandLine`; clients, the network, the receive queue and the server's buffer |
| `Buffer` | `Buffer` | objects and the heap; `malloc` may fail at any call |
| `BufferValues` | - | abstract: buffers are values |
| `SharedLemmas` | - | lemmas about remainders and quotients, greatest and least numbers, induction, recursive functions and folds, joined sequences, functions that hold the same values |
| `CaptureReassembly_proofs`, `DecodeCommand_proofs`, `BinaryDecoder_proofs`, `ReplayEngine_proofs`, `ReplaySession_proofs`, `ReplayCommand_proofs`, `Buffer_proofs` | - | theorems; `DecodeCommand_proofs` begins with those about `FlowTracker`, on which the rest of it builds |
| `MC_*` | - | values of the constants for TLC |

State and code. `reassembler.stream/next_seq/initialized` are the members of the class; a byte of the stream is named by
its position in what the sender sent, so that "the right bytes" can be said. `first`, `sent`, `inorder` and `lapped` are
history variables. `flows` is `flows_`; a flow is a record with the members of `TcpFlow` or `UdpFlow`; `log` is the history
of packets handled. In `DecodeCommand`, `position` is the place of `ForEachPacket` in the file, `unbuilt` the part of
`GetFlows()` that `Build` has not visited (the order of the hash table is any order), `events` is `events_`. In
`ReplayEngine`, `now` is `Time::NowUs`, `start_us` and `base_ts` are the variables of those names, `wake_at` is when
`sleep_for` returns; `sends` is history. In `ReplaySession`, `in_flight[c]` and `acks[c]` are the bytes in the two
directions of a connection: the send buffer of one end and the receive buffer of the other taken together. In
`ReplayCommand`, `options[c]` is `cmd.options`, `position[c]` and `sent_count[c]` are the loop of `Run` and its counter, `queue` is the
receive queue of the server's socket, and `buf` its `buf`, each cell of which names the byte it holds by client, packet and
place; `reports` and `lost` are history. In `Buffer`, `object[b]` is an object's `data_` and `size_`, `heap` the bytes of each block.

How the replay models fit together. `SequentialReplay` is what a replay promises whatever carries it; `ReplayEngine` implements
it with any `Send` and in real time, `ReplaySession` client by client over TCP, and `ReplayCommand` has the same loop over
UDP under the command that starts it.

A null payload. The parser leaves `payload_` null when nothing follows the headers, and `Payload()` dereferences it.
The models have the field `has_buffer` for this, and treat a use of a null payload as the end of the process (`crashed`).

Definitions whose names are `X_Something` are variants of `X` with a plausible mistake; no specification uses them. They show that
the property beside them in `PROJECT.json` can fail.

## 3. What is checked

| Run | Module | Bounds | Shows |
|---|---|---|---|
| `reassembly` | `CaptureReassembly` | sequence space 6 from number 4, 14 positions (two wraps), segments up to 2 bytes, window 4 | the stream is contiguous, `next_seq_` follows it, a lossless capture from mid-stream is complete, and reassembly implements `OrderedDelivery` |
| `flows` | `MC_FlowTracker` | 5 packets of 11 kinds, 3 endpoints, 2 on one address | one flow per conversation, counts and times, each direction reassembled from its own packets, implements `ConversationTable` |
| `decoder` | `MC_BinaryDecoder` | 9 documents and 2 that do not load, up to 2 messages, cut after every byte, with stray bytes, a declared length of 0 among them | a peer that follows the document is understood: exactly the whole messages, truncated datagrams; `Decode` returns unless a message declares no byte at all (`AtEmptyMessage`) |
| `decode_command` | `MC_DecodeCommand` | up to 4 frames of 8 kinds, up to 3 of 18, cut off in the payload, in every part of the TCP header, before the UDP ports and in the addresses; two contents of memory; damaged files; bytes the decoder never returns on (352,040 states) | from frames to the printed timeline: the messages before a loss, a cut or a second connection are reported, no other conversation notices a record that was cut off, no event has endpoints that the records leave no room for, and the command ends or dies, unless the decoder does not return |
| `replay_engine` | `MC_ReplayEngine` | up to 3 packets, also out of order, 2 runs, speed 2, 64 times | order, timing and counting under every delay and failing send; implements `SequentialReplay`; a run ends if every `Send` returns |
| `replay_session` | `MC_ReplaySession` | 2 clients, 5 and 6 bytes, buffers of 3 and 6 bytes, recv of 2, headers and ACKs of 2 | honest counts, also of a send that a reset interrupts, where losses come from, one client at a time, every replay ends; each client implements `SequentialReplay` |
| `replay_command` | `MC_ReplayCommand` | 2 clients, 13 command lines, 2 datagrams each, a queue of 2, one duplicate, `buf` of 4 bytes, 2 enough for a message | options as given; what is counted is printed or lost; what the server prints of short datagrams; every UDP replay ends |
| `buffers` | `MC_Buffer` | 3 objects, 3 blocks of up to 2 bytes, sizes modulo 6 | every block has one owner through any chain of operations; implements `BufferValues` |

The bounds are enough for the cases that matter to occur: the position of a reassembler passes the sequence space twice
and a segment may be a whole lap late; five packets let two conversations interleave and still leave a third; a stream
of two messages has a boundary inside and a cut on either side of it; three packets give a gap, a repeated time and a
gap again; a payload of 3 or 4 bytes is longer than a `recv` of 2 and needs two parts in a buffer of 3. Real sizes (4096,
10, socket buffers of hundreds of kilobytes) only scale these relations: a payload may be shorter than a header, as long, longer than a `recv` and
longer than the buffer. A datagram may be shorter than a message, as long as one, longer than `buf`, or between the 10 bytes
the server asks for and the 16 it prints. Three buffers are enough for a copy, its source and a third that takes a freed
block; sizes modulo 6 with blocks of 2 leave sizes that no block has and offsets that wrap. Time and clock are bounded by `MaxTime`, but a sleeper always wakes.

Runs that fail, each because the code does something else than a document, a test plan entry or a comment says
(`findings` in `PROJECT.json` quotes the line):

| Run | Property | What happens |
|---|---|---|
| `decode_bare` | `NeverCrashes` | a SYN or pure ACK has a null payload, which the reassembler dereferences |
| `decode_padded` | `PaddedStreamsReported` | Ethernet padding becomes stream data and displaces the next segment |
| `decoder_zero` | `EveryMessageAdvances` | length 0 with `length_includes_header` decodes the same message for ever; so `Terminates` and `CommandEnds` are conditional |
| `replay_blocked` | `EveryClientIsAccepted` | unread ACKs fill their buffer, server and client block, others are never accepted |

Other disagreements met while modelling, without a run of their own:

- With `length_includes_header` a payload field is never decoded (`BinaryDecoder.cpp:67` against `docs/protocol-dsl.md:16`), so
  `WholeMessagesDecoded` is about schemas without that combination (`Supported`).
- Padding is content of a datagram as well (`PacketParser.cpp:51` against `docs/test-plan.md:238`, IT-DS-002, which expects
  the decoded messages): `DatagramsReported`, like `CleanStreamsReported`, is about frames without padding, captured to their last byte
  (`Genuine`), and compares with what the sender sent, not with what the parser took.
- A record cut off in its headers (`PcapReader.cpp:47` passes the length on the wire) is read with whatever ports, sequence
  number and data offset memory holds (`PacketParser.cpp:28-45`). Between the same addresses it may enter any conversation, and both properties are
  about the pairs of endpoints to which this cannot happen (`Certain`); all others must not notice it.
- The declared byte order is ignored (`BinaryDecoder.cpp:85` against `docs/protocol-dsl.md:10`): fields are read
  big-endian, those of eight bytes in the order of the host. The properties of the decoder say what is read, not what was
  declared.
- A capture that starts with the SYN keeps its stream empty, since `next_seq_` stays at the SYN's own number
  (`TcpReassembler.cpp:10`); completeness is stated for captures that start after it. A second connection of the same
  endpoints is not reassembled; `CleanStreamsReported` says that the first one is not disturbed.
- A packet older than the first wraps `elapsed_us` (`ReplayEngine.cpp:43` against `docs/test-plan.md:209`) and the replay sleeps
  all but for ever; `NeverEarly` and `DelaysNeverAddUp` are about captures whose first packet is the oldest (`FirstIsOldest`).
- `CmdReplay` returns 0 whatever happened (`docs/test-plan.md:208` expects an error). A speed or a port that is no number
  ends the process with an exception; a host that is no address becomes 0.0.0.0, and a port is cut to 16 bits.
- The UDP server takes ten bytes for a message and prints sixteen (`udp_demo_server.cpp:45`): of a datagram between them it
  prints what an earlier one left. `ReportsAreOwn` says exactly how much may be another's.
- The TCP server ACKs what a `recv` returns, not messages (`docs/test-plan.md:218`).
- `Buffer::Slice` and `Read` add offset and length as `size_t` (`Buffer.cpp:68`, `Buffer.h:32`): a slice out of range throws
  (`docs/test-plan.md:56`), but not where the sum wraps.

Fairness. `decode` is one thread that runs to its end: weak fairness of the whole next-state relation. The decoder itself
may loop (`decoder_zero`), which no scheduler mends: in `BinaryDecoder` it keeps turning, in `DecodeCommand` it stays in
`"decoding"` or dies when its messages have filled the memory. Hence `Terminates` has the condition that the loop never meets a message that
declares no byte, and `CommandEnds` that no flow holds bytes of `Endless`. In `ReplayEngine` weak fairness of the engine's own steps and of
time, but not of `SendPacket`: `Send` blocks (`TcpReplayer.cpp:42`) and may never return (`replay_blocked`), so that `RunsEnd`
is about runs whose `Send`s return. Nobody has to start a run.
In `ReplaySession` weak fairness of each client and of the server is the scheduler's; a blocked send is not enabled, so
fairness does not help a process that waits for room. In `ReplayCommand` weak fairness of each client's steps over UDP, of
the network (what is in flight arrives or is lost) and of the server; a send over TCP may never return there. Nothing is
assumed about `StopServer` in either. `Buffer` has no liveness. `replay_session` has room for
every ACK (`AckCap = 6`; at most three `recv`s of two bytes per client), `replay_blocked` has not: that is the whole
difference between the two.

Deadlock checking is off where the system really stops: a capture ends, a call returns, all replays are done.

## 4. What is proved

`CaptureReassembly_proofs`, from `SeqSpaceAssumption` and `CaptureAssumption` (the sequence space is not empty, the window is smaller than it), for every
sequence space, initial number, segment size and number of positions:

- `TypeCorrect`, `Contiguity`, `SequenceTracking`, `MidstreamCompleteness`: the four invariants of the run. None of them
  is inductive alone. That a segment at `next_seq_` is the *right* one needs `NextSeqTracksStream` (congruent numbers),
  `NotAhead` (the stream never is ahead of what was sent) and the window, which together leave one position for a
  number (`SameNumber`), unless a lap happened; `Untouched` says what holds before the first packet. `IInv` is their conjunction.
- `Refinement`: reassembly implements `OrderedDelivery`; the first packet is a `Start`, an accepted one a `Deliver`, a dropped one
  a stutter, a lap a `Forfeit`.

`DecodeCommand_proofs`, first part, about `FlowTracker`, from `PacketsAssumption` (packets are packets) and `SeqSpaceAssumption`, for
every set of packets:

- `KeyIdentifiesConversation`: two packets get the same normalized key exactly when they have the same unordered
  endpoints and protocol. It rests on the order of endpoints being total.
- `TypeCorrect`, `OneFlow`, `FlowsSummarise`, `FlowsHoldTheirs`: all the invariants of the run. `IInv` adds that keys are
  normalized and a flow knows its key (`KeysNormalized`), that it has counted a packet (`FlowsNotEmpty`), that the
  conversations of the map are those of the log (`FlowsCoverLog`) and that there are finitely many. The step: a packet
  goes to the flow of its conversation, and to one side of it, and to no other; so one set of counted packets and one
  function over the log (`Reassembled`, `DatagramsOf`) grow by one, and the others do not notice. Where both endpoints are the same,
  every packet goes to the first side, and the property speaks of that one.
- `Refinement`: flow tracking implements `ConversationTable`.

`DecodeCommand_proofs`, second part, from `DecodeAssumption` (captures are sequences of frames, memory can be read as headers and bytes,
nothing decodes to nothing) and all of the above, for all captures and whatever memory outside a record holds. Its theorems have the hypothesis
`DecodesToSequences`: the decoder makes of any bytes a sequence of messages. `DecodeToMessages` returns a `std::vector`,
so the code justifies it; it is a hypothesis and no assumption of `DecodeCommand` because it speaks of all sequences of bytes,
which TLC cannot enumerate. Where the decoder does not return (`Endless`), the value of `Decode` is not used.

- `CommandTypeCorrect`, `EventsHaveFrames`. `CommandInv` is the tracker's `IInv` and, beside control and events, two
  facts that follow an event back to the file: each packet of the log has a frame with its time that, if the packet has a payload,
  could be one from its source to its destination (`LogFromFrames`: what `CouldBe` asks is as much as the record shows, the addresses if it
  has an IPv4 header, the ports too if it has those; `SeenFields` and `ParsedFields` say field by field what is read from the
  record and what from memory); and a direction with bytes in it has a packet in the log, as has every datagram
  (`FlowsFromLog`). An event of a stream takes its time from the flow and its endpoints from the direction, which is why the property
  asks for two frames, and not one.
- `DatagramsAllReported` (`DatagramsReported`) and `CleanStreams` (`CleanStreamsReported`), the other way, from the frames to the timeline: with `EventsHaveFrames`, it has
  what the capture shows and nothing else. The invariant is `TracedInv`, which traces every stage of the command to the capture:
  - `Certain` is what makes a frame and its packet agree: the record is one that holds every header (`Settled`), and then its packet is of
    from and to exactly when the frame is (`CertainFrame`, `OwnFrame`) and none comes of a frame that has none (`CertainSkip`), or its
    IPv4 header says that it is of others (`Elsewhere`), and then its packet is too, whatever its ports are read as.
  - `StreamsFollow`, for every key and such direction, whether its flow exists or not: the reassembler that the packets of the log make
    (`Reassembled`) holds the data of every gapless and unpadded beginning of the frames read of that direction, holds nothing else
    when that is all of them, and then waits for the byte after the last frame (`Follows`). The last part makes it inductive: the next
    segment is accepted exactly when it leaves no gap, and what comes after a gap may be dropped or appended, but is behind.
  - `DatagramsFollow`: the datagrams kept of such a direction are its frames, in number, time and data, if all are whole and without
    padding (`WholePayload`). A packet
    without a payload may have ports that no frame shows, since its headers may overrun the record; the tracker keeps such a
    datagram, but `Build` dies of it, so that no report is made (`NoneBareReported`).
  - `TimelineTraced`: once the capture has been read, the events are those of the flows that have been visited, none of which had a
    bare datagram; what is printed is of all of them.

  Times may be equal and the table has any order. Of `std::sort` it is assumed that it does what the standard says: the result is any
  permutation in which no event is before its predecessor by the comparator (`Before`, `Sortings`). That the timeline is sorted would repeat this
  and is no property here; what is checked is what is in it, and the properties compare bags. The
  provers have no theory of bags; instead `SameValues(f, g)` says that there is a bijection of places under which two functions agree. It is
  kept by joining (`SpreadAdded`, `SameJoined`), sorting (`SameSorted`) and choosing (`SameWithin`), and finite functions with the
  same values have the same bag (`SameBag`). From the whole timeline one then comes to one direction: only the flow of a
  conversation has events of it (`TimelineOfFlow`), and of those one side's reassembler has those of the direction (`PrintedStream`).

  `CleanStreams` has a second hypothesis, `DecodesAhead`: bytes that follow do not change the messages before them (`KeepsMessages`,
  which TLC checks of the runs' decoder for short inputs). Without it what comes after a loss could alter what came before. The program's
  decoder has this property for length-framed schemas with the length in the header: that is `MoreBytesMoreMessages` below. For
  a UDP schema, which makes one message of a whole stream, it is false, and the property with it when bytes follow a loss.

`BinaryDecoder_proofs`, from `StreamsAssumption`, for every schema, any number of messages, every cut of the data and any bytes
behind the messages. The assumption says what a peer is (`IsPeer`): its document has a message section, whose fields have
different names and of which one at most is variable, and which is last in a datagram; a message has a value of the right
size for every other field; and in a stream the document's length field comes before the payload and declares it. Two fields
of one name, or two payloads for one length, are documents no peer can follow so that a reader could tell them apart.

- `TypeCorrect`: whatever length the bytes declare, the loop stays in the data. `Shape` is inductive; it rests on the fields' ends,
  which the decoder computes field by field (`FrameEndSteps`, from `FoldUnique`: a recursive function is known by its equations).
- `WholeMessages` (`WholeMessagesDecoded`). `Layout` says where each field is on the wire and `Order` where each message is in the
  stream; `EndsAgree` that the decoder reckons the same ends, once it has the right length; `LengthIsRead` that it has: when the header is
  complete the length field is the only one of its name, no variable field precedes it, and its two bytes are the declared
  length. So a message is taken exactly when it is whole, and as it was sent (`MessageIsDecoded`). The invariant `InStep`
  follows: the offset is the end of the last message decoded, every message decoded so far is the one sent, and a loop that
  has returned has met the first message that is not whole. Bytes behind the messages may look like more of them, and
  then more is decoded, but only behind what was sent.
- `DecodeReturns` and `MoreBytesMoreMessages`: the decoder as a function of bytes. `Returns(s, d, made)` says which messages the loop
  makes of `d`: those of consecutive turns (`IsRun`), until none can be taken; the state machine does nothing else. A message that is whole
  stays whole, of the same size and with the same fields, when bytes are appended (`MoreBytesSameMessage`, where the length field
  has to lie in the header: the code looks for it in all of the data, `LengthInHeader`). So a run over a beginning is the beginning of
  a run, and what Decode returns of a stream begins with what it returns of a part.
- `DatagramFields` (`DatagramFieldsAgree`): the one message decoded of a datagram (`OfDatagram`) has the fields whose ends, and
  those of all before them, are in the data (`DatagramIsDecoded`); a last variable field takes the rest.

`ReplayEngine_proofs`, from `EngineAssumption` (a whole speed, times below the time space) and `TimesAssumption` (clock and capture
times are in the first half of it: of 2^64 microseconds, 292,000 years), for every capture, also out of order, and any number
of runs:

- `TypeCorrect`, `SentInOrder`, `NotEarly`. `IInv` ties the sleeping thread to its packet: `start_us` is set before anybody
  waits (`StartIsEarly`), `base_ts` is the first packet's time from the moment that is taken (`BaseIsFirst`), and a sleep
  ends when the packet in hand is due or has already ended (`WakesWhenDue`). That `wake_at` is not a wrapped sum needs the
  first half of the times and a first packet that is the oldest.
- `NoDelayAddsUp` follows from `WakesWhenDue`, since no packet is due later than the youngest one.
- `Refinement`: a run of the engine implements `SequentialReplay`: what a failing `Send` and an early packet do are steps of it.

`ReplaySession_proofs`, from `SessionAssumption` (payloads are not empty, buffers hold at least a byte), for any number of
clients, any payloads and buffers of any size:

- `TypeCorrect`, `CountsWhatWasTaken`, `NothingLost`, `OneAtATime`: all the invariants of the run. They need to know who waits: a client
  is in the backlog once, is not the one being served and has never been read from (`QueueOK`); one that has not started has
  nothing anywhere (`Unstarted`); while the server is up no connection is reset (`UpWithServer`); and what is left of a packet
  in the middle of its `Send` is at most that packet (`UnsentFits`), so that a reset interrupts exactly the packet that is not counted.
- `Refinement`: each client implements `SequentialReplay`, whatever the others and the server do.

`ReplayCommand_proofs`, from `ReplayCommandAssumption` (files hold packets, ports and sizes are numbers, the server prints no more
than its buffer holds), for any number of clients and all command lines:

- `OptionsRight`: for every command line, the recursive function `Options` gives each key the value after its last occurrence
  (`OptionsAsSet`, by induction from the end of the arguments). Options are parsed once and stay (`ParsedOnce`).
- `TypeCorrect`, `ReportsOwn`, `CountedHaveLeft`. The cells of `buf` are of datagrams already reported, each at its own place
  (`BufOK`), and so is what is printed from them; the datagrams of a client in flight, queued, reported or lost are finitely
  many packets up to its position (`LeftOK`), so that a duplicate adds nothing and the next one is new (`CountOK`).

`Buffer_proofs`, from `BufferAssumption` (the longest block `malloc` gives is less than half the space of `size_t`, markers are no
blocks or bytes), for any number of objects and blocks, any sizes and every place where `malloc` may fail:

- `TypeCorrect` and `Ownership` (`EveryBlockHasOneOwner`). `IInv` is both together: that a block's length is its owner's size
  needs to know that the pointer is a block. The argument goes through `ApartFrom(b, h)`, which says that a heap holds what every
  object but `b` owns and nothing else: it is what a constructor finds, what is left when an assignment has freed the old
  block, and what an allocation for `b` completes to the invariant. So a copy is `Freed` and then `Allocate`, and neither
  needs to know of the other.
- `Refinement`: buffers implement `BufferValues`. What users see of an object (`Value`) depends on its block alone, so an
  operation on one leaves the others alone (`OnlyOneChanges`). A slice that passes its check only because offset plus length
  wraps has to begin behind the end of its block, which holds when no block is as long as half of `size_t` (`BlocksFit`); `malloc`
  gives none over `PTRDIFF_MAX`.

Induction over data. What a recursive function or a fold computes for all inputs is proved through sets: `SetInduction` in
`SharedLemmas` is induction over a set of numbers, and `RangeInduction`, `Recursion` and `Fold` follow from it.

Only model-checked: all liveness (`Terminates`, `CommandEnds`, `RunsEnd`, both `ReplaysEnd`, `CountedIsPrintedOrLost`), since the
provers do not know `ENABLED`. Every invariant, action property and refinement that a passing run checks is also a theorem.

## 5. Abstractions

- One capture is read once; `Open` succeeds or not, and the file may be damaged behind its last frame, which ends the loop as the
  end of the file does (`environment.damaged`). `header->len` is the length of a frame on the wire, and a truncated record has
  fewer bytes. What the parser reads behind it, or behind a frame whose IPv4 header claims to be longer, be it header length, protocol,
  addresses, ports, sequence number, data offset or payload, is that of any member of `StrayMemory`, or the read ends the
  process. The transport header is where the IPv4 header says.
- A decoder that does not return stays in its loop for good, or fills the memory and dies.
- In `CaptureReassembly`, a packet may not be older than `Window` positions, which is less than the sequence space: TCP's
  maximum segment lifetime. A newer one may skip any number of positions, since a capture may lose any number of packets.
- Bytes are small numbers and endpoints are records of two numbers; addresses are compared as the code compares the
  strings, by some total order.
- Decoded summaries, log output and the layout of the printed lines are left out. Times are naturals except where they
  wrap (`ReplayEngine`). The speed is a positive whole number. The clock of `Time::NowUs` does not go back.
- In `ReplaySession`, the kernel is external: bytes on a connection that breaks may be lost from any point on, a send on a
  connection that was reset may still succeed, fail, or raise SIGPIPE. An ACK is sent whole or not yet.
- In `ReplayCommand`, the arguments are texts with or without dashes, and what `stod`, `stoi` and `inet_pton` make of a text is
  given by constants; at most `MaxDuplicates` datagrams are doubled. In `Buffer`, exceptions leave everything as it was and are
  no steps; a block has at most `MaxBlock` bytes, less than half of `size_t`, so that large sizes fail, and any size may.

Not modelled. `Result` and `Error` are a value or a text, `Logger` is output: neither has a state a property could be
about. Of modelled components the following is left out: the layout of the printed timeline and summary
(`ConsoleTimelinePrinter`), the texts of `Messages()`, the conversion of addresses to text, hash functions, `CommandLine::Get`
(which nobody calls), the fields of a schema that nothing reads, and the counters of `UdpDatagramTracker`, which are never
initialised and never read. `PcapReader` is not closed and opened again. Scripts, tests and build files are no part of the
program.

## 6. Plan

Done: every component that has behaviour of its own; the proofs of section 4.

Left: `DecodeCommand` and `BinaryDecoder` meet in the hypotheses of `CleanStreams`, and not in one specification. Putting the decoder in
place of the constant would join `CleanStreams` and `WholeMessages` into one theorem, from the messages that peers sent to the
timeline. It would need the peers' messages in the frames of a capture, and a bound on both that TLC can still enumerate.
