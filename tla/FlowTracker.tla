---------------------------- MODULE FlowTracker -----------------------------
(***************************************************************************)
(* FlowTracker, with the TcpFlow and UdpFlow objects it owns, driven by    *)
(* the packet callback of the decode command.                              *)
(*                                                                         *)
(* An endpoint is an address and a port.  The code compares addresses as   *)
(* strings and only uses that this is a total order, so an address is the  *)
(* number of its place in that order.                                      *)
(***************************************************************************)
EXTENDS TcpReassembler, FiniteSets

CONSTANTS
  Packets,       \* the packets a capture may hold
  MaxPackets     \* bound: how many of them it holds

Endpoint == [ip : Nat, port : Nat]
Protocol == {"TCP", "UDP", "UNKNOWN"}
Packet == [timestamp_us : Nat, src : Endpoint, dst : Endpoint, protocol : Protocol,
           tcp_seq : SeqNumber, has_buffer : BOOLEAN, payload : Seq(Nat)]

ASSUME PacketsAssumption == Packets \subseteq Packet

VARIABLES
  flows,      \* FlowTracker::flows_, from keys to flows
  crashed,    \* the process died on a null payload
  log         \* history: the packets handled so far

vars == <<flows, crashed, log>>

FlowKey == [src : Endpoint, dst : Endpoint, protocol : Protocol]

(* The order by which a key is normalized: by address, then by port.       *)
Greater(a, b) == a.ip > b.ip \/ (a.ip = b.ip /\ a.port > b.port)

(* Mutant: the ports are not compared.                                     *)
Normalized_ByAddress(key) ==
  IF key.src.ip > key.dst.ip
    THEN [src |-> key.dst, dst |-> key.src, protocol |-> key.protocol]
    ELSE key

(* FlowKey::Normalized: the lesser endpoint comes first.                   *)
Normalized(key) ==
  IF Greater(key.src, key.dst)
    THEN [src |-> key.dst, dst |-> key.src, protocol |-> key.protocol]
    ELSE key

(* Mutant: the protocol is left out of the key.                            *)
MakeKey_NoProtocol(packet) ==
  Normalized([src |-> packet.src, dst |-> packet.dst, protocol |-> "TCP"])

MakeKey(packet) ==
  Normalized([src |-> packet.src, dst |-> packet.dst, protocol |-> packet.protocol])

NewTcpFlow(key) ==
  [key              |-> key,
   packet_count     |-> 0,
   first_seen       |-> 0,
   last_seen        |-> 0,
   client_to_server |-> NewReassembler,
   server_to_client |-> NewReassembler]

NewUdpFlow(key) ==
  [key |-> key, datagrams |-> <<>>, first_seen |-> 0, last_seen |-> 0]

NewFlow(key) == IF key.protocol = "TCP" THEN NewTcpFlow(key) ELSE NewUdpFlow(key)

(* Mutant: only the address is compared.                                   *)
IsClientSide_ByAddress(flow, packet) == packet.src.ip = flow.key.src.ip

(* The "client" is the lesser endpoint, whoever opened the connection.     *)
IsClientSide(flow, packet) == packet.src = flow.key.src

(* Mutant: the first time is taken whenever no byte has arrived yet.       *)
TcpOnPacket_FirstByBytes(flow, packet) ==
  [flow EXCEPT
     !.first_seen = IF ByteCount(flow.client_to_server) = 0 THEN packet.timestamp_us ELSE @,
     !.last_seen = packet.timestamp_us,
     !.packet_count = @ + 1,
     !.client_to_server = IF IsClientSide(flow, packet) THEN AddSegment(@, packet) ELSE @,
     !.server_to_client = IF IsClientSide(flow, packet) THEN @ ELSE AddSegment(@, packet)]

TcpOnPacket(flow, packet) ==
  [flow EXCEPT
     !.first_seen = IF flow.packet_count = 0 THEN packet.timestamp_us ELSE @,
     !.last_seen = packet.timestamp_us,
     !.packet_count = @ + 1,
     !.client_to_server = IF IsClientSide(flow, packet) THEN AddSegment(@, packet) ELSE @,
     !.server_to_client = IF IsClientSide(flow, packet) THEN @ ELSE AddSegment(@, packet)]

(* A datagram is kept whole, payload or not.                               *)
UdpOnPacket(flow, packet) ==
  [flow EXCEPT
     !.first_seen = IF flow.datagrams = <<>> THEN packet.timestamp_us ELSE @,
     !.last_seen = packet.timestamp_us,
     !.datagrams = Append(@, packet)]

FlowOnPacket(flow, packet) ==
  IF flow.key.protocol = "TCP" THEN TcpOnPacket(flow, packet) ELSE UdpOnPacket(flow, packet)

(* Flow::PacketCount.                                                      *)
PacketCount(flow) ==
  IF flow.key.protocol = "TCP" THEN flow.packet_count ELSE Len(flow.datagrams)

(* The flow of a key: the one in the map, or a new one.                    *)
FlowAt(key) == IF key \in DOMAIN flows THEN flows[key] ELSE NewFlow(key)

Init ==
  /\ flows = [key \in {} |-> 0]
  /\ crashed = FALSE
  /\ log = <<>>

(* The callback ignores a packet that is neither TCP nor UDP: the tracker  *)
(* would dereference the null flow it creates for such a key.              *)
IgnorePacket(packet) ==
  /\ ~crashed
  /\ packet.protocol = "UNKNOWN"
  /\ UNCHANGED vars

(* FlowTracker::OnPacket: the flow of the packet is looked up, created if  *)
(* need be, and handed the packet.                                         *)
OnPacket(packet) ==
  /\ ~crashed
  /\ packet.protocol # "UNKNOWN"
  /\ ~(packet.protocol = "TCP" /\ NullPayload(packet))
  /\ LET key == MakeKey(packet)
     IN  flows' = [k \in DOMAIN flows \cup {key} |->
                     IF k = key THEN FlowOnPacket(FlowAt(key), packet) ELSE flows[k]]
  /\ log' = Append(log, packet)
  /\ UNCHANGED crashed

(* A TCP packet whose payload is null ends the process in AddSegment; its  *)
(* state goes with it.                                                     *)
OnBarePacket(packet) ==
  /\ ~crashed
  /\ packet.protocol = "TCP"
  /\ NullPayload(packet)
  /\ crashed' = TRUE
  /\ UNCHANGED <<flows, log>>

Next ==
  /\ Len(log) < MaxPackets
  /\ \E packet \in Packets :
       \/ IgnorePacket(packet)
       \/ OnPacket(packet)
       \/ OnBarePacket(packet)

Spec == Init /\ [][Next]_vars

FlowCount == Cardinality(DOMAIN flows)
TcpFlowCount == Cardinality({key \in DOMAIN flows : flows[key].key.protocol = "TCP"})
UdpFlowCount == Cardinality({key \in DOMAIN flows : flows[key].key.protocol = "UDP"})

-----------------------------------------------------------------------------
TcpFlow == [key : FlowKey, packet_count : Nat, first_seen : Nat, last_seen : Nat,
            client_to_server : Reassembler, server_to_client : Reassembler]
UdpFlow == [key : FlowKey, datagrams : Seq(Packet), first_seen : Nat, last_seen : Nat]

(* Type correctness: a flow is of the class its key's protocol calls for.  *)
TypeOK ==
  /\ DOMAIN flows \subseteq FlowKey
  /\ \A key \in DOMAIN flows :
       \/ key.protocol = "TCP" /\ flows[key] \in TcpFlow
       \/ key.protocol = "UDP" /\ flows[key] \in UdpFlow
  /\ crashed \in BOOLEAN
  /\ log \in Seq(Packet)

(* The conversation a packet or a key belongs to.                          *)
Conversation(x) == <<{x.src, x.dst}, x.protocol>>

(* Both directions of a conversation end up in one flow, two conversations *)
(* never share one, and no flow is there without a packet: a property of   *)
(* FlowKey::Normalized over the whole history of a capture.                *)
OneFlowPerConversation ==
  /\ {Conversation(log[i]) : i \in DOMAIN log} = {Conversation(key) : key \in DOMAIN flows}
  /\ \A j, k \in DOMAIN flows : Conversation(j) = Conversation(k) => j = k

(* The packets of the log that belong to a flow.                           *)
PacketsOf(key) == {i \in DOMAIN log : Conversation(log[i]) = Conversation(key)}

(* A flow's count and times summarise the packets of its conversation, in  *)
(* capture order; the flow summary the decode command prints adds up.      *)
FlowsSummariseLog ==
  /\ \A key \in DOMAIN flows :
       /\ PacketCount(flows[key]) = Cardinality(PacketsOf(key))
       /\ \E i \in PacketsOf(key) :
            /\ \A j \in PacketsOf(key) : i <= j
            /\ flows[key].first_seen = log[i].timestamp_us
       /\ \E i \in PacketsOf(key) :
            /\ \A j \in PacketsOf(key) : j <= i
            /\ flows[key].last_seen = log[i].timestamp_us
  /\ TcpFlowCount + UdpFlowCount = FlowCount

(* What the packets of a log that one endpoint sent in a conversation make *)
(* when they alone are added to a new reassembler, and the packets of the  *)
(* conversation, sent by either: recursive functions, so that the proofs   *)
(* can follow them packet by packet.                                       *)
Reassembled(packets, key, from) ==
  LET made[n \in 0 .. Len(packets)] ==
        IF n = 0 THEN NewReassembler
        ELSE IF Conversation(packets[n]) = Conversation(key) /\ packets[n].src = from
               THEN AddSegment(made[n - 1], packets[n])
               ELSE made[n - 1]
  IN  made[Len(packets)]

DatagramsOf(packets, key) ==
  LET kept[n \in 0 .. Len(packets)] ==
        IF n = 0 THEN <<>>
        ELSE IF Conversation(packets[n]) = Conversation(key) THEN Append(kept[n - 1], packets[n])
                                                             ELSE kept[n - 1]
  IN  kept[Len(packets)]

(* Each direction of a TCP flow is reassembled from the packets of that    *)
(* direction alone, in capture order, whatever else is interleaved with    *)
(* them; a UDP flow holds its datagrams, in capture order.                 *)
FlowsHoldTheirPackets ==
  \A key \in DOMAIN flows :
    IF key.protocol = "TCP"
      THEN /\ flows[key].client_to_server = Reassembled(log, key, key.src)
           /\ key.dst # key.src =>
                flows[key].server_to_client = Reassembled(log, key, key.dst)
      ELSE flows[key].datagrams = DatagramsOf(log, key)

(* Flow tracking implements the table of conversations.                    *)
Summary(flow) ==
  [count |-> PacketCount(flow), first_seen |-> flow.first_seen, last_seen |-> flow.last_seen]

TableOf(map) ==
  [c \in {Conversation(key) : key \in DOMAIN map} |->
     Summary(map[CHOOSE key \in DOMAIN map : Conversation(key) = c])]

Table == TableOf(flows)

Account(packet) == [conversation |-> Conversation(packet), time |-> packet.timestamp_us]

Accounts == [i \in 1..Len(log) |-> Account(log[i])]

Conversations == INSTANCE ConversationTable WITH captured <- Accounts, table <- Table

ImplementsConversationTable == Conversations!Spec

=============================================================================
