------------------------ MODULE DecodeCommand_proofs ------------------------
(***************************************************************************)
(* Proofs about flow tracking, for every set of packets and every order in *)
(* which a capture holds them, and then about the decode command, whose    *)
(* second pass the tracker is: for all captures, all bytes and ports that  *)
(* memory outside a record may hold and every decoder that yields          *)
(* sequences of messages.  What the timeline holds is accounted for in     *)
(* both directions: every event has its frames, and every frame the        *)
(* capture shows has its events.                                           *)
(***************************************************************************)
EXTENDS DecodeCommand, SharedLemmas, FiniteSetTheorems

(* First the tracker.                                                      *)

(* The map is keyed by normalized keys, and a flow knows its key.          *)
KeysNormalized ==
  \A key \in DOMAIN flows : Normalized(key) = key /\ flows[key].key = key

(* A flow is created for a packet, and counts it.                          *)
FlowsNotEmpty ==
  \A key \in DOMAIN flows : PacketCount(flows[key]) >= 1

(* The conversations of the map are those of the log.                      *)
FlowsCoverLog ==
  {Conversation(log[i]) : i \in DOMAIN log} = {Conversation(key) : key \in DOMAIN flows}

FlowsFinite == IsFiniteSet(DOMAIN flows)

IInv ==
  /\ TypeOK
  /\ KeysNormalized
  /\ FlowsNotEmpty
  /\ FlowsCoverLog
  /\ FlowsFinite
  /\ FlowsSummariseLog
  /\ FlowsHoldTheirPackets

-----------------------------------------------------------------------------
(* The order of endpoints is total: of two different ones, one is greater. *)
LEMMA GreaterTotal ==
  ASSUME NEW a \in Endpoint, NEW b \in Endpoint
  PROVE  /\ ~(Greater(a, b) /\ Greater(b, a))
         /\ a # b => Greater(a, b) \/ Greater(b, a)
BY DEF Greater, Endpoint

(* Normalizing keeps the conversation, and leaves the lesser endpoint      *)
(* first.                                                                  *)
LEMMA NormalizedKey ==
  ASSUME NEW key \in FlowKey
  PROVE  /\ Normalized(key) \in FlowKey
         /\ Conversation(Normalized(key)) = Conversation(key)
         /\ Normalized(key).protocol = key.protocol
         /\ Normalized(Normalized(key)) = Normalized(key)
<1>1. key.src \in Endpoint /\ key.dst \in Endpoint /\ key.protocol \in Protocol
  BY DEF FlowKey
<1>2. CASE Greater(key.src, key.dst)
  <2>1. Normalized(key) = [src |-> key.dst, dst |-> key.src, protocol |-> key.protocol]
    BY <1>2 DEF Normalized
  <2>2. ~Greater(key.dst, key.src)
    BY <1>1, <1>2, GreaterTotal
  <2>3. QED
    BY <1>1, <2>1, <2>2 DEF Normalized, FlowKey, Conversation
<1>3. CASE ~Greater(key.src, key.dst)
  BY <1>3 DEF Normalized
<1>4. QED
  BY <1>2, <1>3

(* Two normalized keys of one conversation are the same key.               *)
LEMMA NormalizedUnique ==
  ASSUME NEW j \in FlowKey, NEW k \in FlowKey,
         Normalized(j) = j, Normalized(k) = k,
         Conversation(j) = Conversation(k)
  PROVE  j = k
<1>1. /\ j.src \in Endpoint /\ j.dst \in Endpoint
      /\ k.src \in Endpoint /\ k.dst \in Endpoint
  BY DEF FlowKey
<1>2. ~Greater(j.src, j.dst) \/ j.src = j.dst
  BY <1>1, GreaterTotal DEF Normalized
<1>3. ~Greater(k.src, k.dst) \/ k.src = k.dst
  BY <1>1, GreaterTotal DEF Normalized
<1>4. {j.src, j.dst} = {k.src, k.dst} /\ j.protocol = k.protocol
  BY DEF Conversation
<1>5. \/ j.src = k.src /\ j.dst = k.dst
      \/ j.src = k.dst /\ j.dst = k.src
  BY <1>4
<1>6. j.src = k.src /\ j.dst = k.dst
  BY <1>1, <1>2, <1>3, <1>5, GreaterTotal
<1>7. QED
  BY <1>4, <1>6 DEF FlowKey

(* The key of a packet is normalized and stands for its conversation.      *)
LEMMA PacketKey ==
  ASSUME NEW packet \in Packet
  PROVE  /\ MakeKey(packet) \in FlowKey
         /\ MakeKey(packet).protocol = packet.protocol
         /\ Normalized(MakeKey(packet)) = MakeKey(packet)
         /\ Conversation(MakeKey(packet)) = Conversation(packet)
<1> DEFINE key == [src |-> packet.src, dst |-> packet.dst, protocol |-> packet.protocol]
<1>1. key \in FlowKey /\ key.protocol = packet.protocol
  BY DEF Packet, FlowKey
<1>2. Conversation(key) = Conversation(packet)
  BY DEF Conversation
<1>3. MakeKey(packet) = Normalized(key)
  BY DEF MakeKey
<1> HIDE DEF key
<1>4. QED
  BY <1>1, <1>2, <1>3, NormalizedKey

(* FlowKey::Normalized makes the two directions of a conversation share a  *)
(* key, and gives two conversations different keys.                        *)
THEOREM KeyIdentifiesConversation ==
  ASSUME NEW p \in Packet, NEW q \in Packet
  PROVE  MakeKey(p) = MakeKey(q) <=> Conversation(p) = Conversation(q)
<1>1. ASSUME MakeKey(p) = MakeKey(q)
      PROVE  Conversation(p) = Conversation(q)
  BY <1>1, PacketKey
<1>2. ASSUME Conversation(p) = Conversation(q)
      PROVE  MakeKey(p) = MakeKey(q)
  BY <1>2, PacketKey, NormalizedUnique
<1>3. QED
  BY <1>1, <1>2

-----------------------------------------------------------------------------
(* Adding a packet to a reassembler yields a reassembler.                  *)
LEMMA AddSegmentType ==
  ASSUME NEW r \in Reassembler, NEW packet \in Packet
  PROVE  AddSegment(r, packet) \in Reassembler
<1> DEFINE base == Synchronized(r, packet)
           end == packet.tcp_seq + Len(packet.payload)
<1>1. packet.tcp_seq \in SeqNumber /\ packet.payload \in Seq(Nat)
  BY DEF Packet
<1>2. base \in Reassembler
  <2>1. CASE r.initialized
    BY <2>1 DEF Synchronized
  <2>2. CASE ~r.initialized
    BY <2>2, <1>1 DEF Synchronized, Reassembler
  <2>3. QED
    BY <2>1, <2>2
<1>3. end \in Nat
  BY <1>1 DEF SeqNumber
<1>4. end % SeqSpace \in SeqNumber
  <2> HIDE DEF end
  <2>1. QED
    BY <1>3, SeqSpaceAssumption, Division DEF SeqNumber
<1>5. CASE packet.payload # <<>> /\ packet.tcp_seq = base.next_seq
  <2>1. AddSegment(r, packet)
          = [base EXCEPT !.stream = @ \o packet.payload, !.next_seq = end % SeqSpace]
    BY <1>5 DEF AddSegment
  <2> HIDE DEF base, end
  <2>2. base.stream \o packet.payload \in Seq(Nat)
    BY <1>1, <1>2 DEF Reassembler
  <2>3. QED
    BY <2>1, <2>2, <1>2, <1>4 DEF Reassembler
<1>6. CASE ~(packet.payload # <<>> /\ packet.tcp_seq = base.next_seq)
  BY <1>2, <1>6 DEF AddSegment
<1>7. QED
  BY <1>5, <1>6

(* The state a reassembler is constructed in is one of its states.         *)
LEMMA NewReassemblerType == NewReassembler \in Reassembler
<1>1. 0 \in SeqNumber
  BY SeqSpaceAssumption DEF SeqNumber
<1>2. QED
  BY <1>1 DEF NewReassembler, Reassembler

-----------------------------------------------------------------------------
(* Reassembling packets, one after the other.                              *)

(* The packet is one that this endpoint sent in the conversation.          *)
Own(packet, key, from) == Conversation(packet) = Conversation(key) /\ packet.src = from

IsReassembly(f, packets, key, from) ==
  f = [n \in 0 .. Len(packets) |->
         IF n = 0 THEN NewReassembler
         ELSE IF Own(packets[n], key, from) THEN AddSegment(f[n - 1], packets[n])
                                            ELSE f[n - 1]]

(* What Reassembled yields is the last value of such a function.           *)
LEMMA ReassemblyExists ==
  ASSUME NEW packets \in Seq(Packet), NEW key, NEW from
  PROVE  \E f : IsReassembly(f, packets, key, from)
                  /\ Reassembled(packets, key, from) = f[Len(packets)]
<1> DEFINE n == Len(packets)
           step == [i \in 1 .. n |-> [r \in Reassembler |->
                      IF Own(packets[i], key, from) THEN AddSegment(r, packets[i]) ELSE r]]
           chosen == CHOOSE f : IsReassembly(f, packets, key, from)
<1>1. n \in Nat /\ \A i \in 1 .. n : packets[i] \in Packet
  OBVIOUS
<1>2. step \in [1 .. n -> [Reassembler -> Reassembler]]
  <2>1. \A i \in 1 .. n : \A r \in Reassembler :
          (IF Own(packets[i], key, from) THEN AddSegment(r, packets[i]) ELSE r) \in Reassembler
    BY <1>1, AddSegmentType
  <2>2. QED
    BY <2>1
<1>3. PICK g : IsFold(g, Reassembler, n, NewReassembler, step)
  <2> HIDE DEF step
  <2>1. QED
    BY <1>1, <1>2, NewReassemblerType, Fold
<1>4. /\ g \in [0 .. n -> Reassembler] /\ g[0] = NewReassembler
      /\ \A i \in 1 .. n : g[i] = step[i][g[i - 1]]
  <2> HIDE DEF step
  <2>1. QED
    BY <1>3 DEF IsFold
<1>5. ASSUME NEW i \in 1 .. n
      PROVE  g[i] = IF Own(packets[i], key, from) THEN AddSegment(g[i - 1], packets[i])
                                                  ELSE g[i - 1]
  <2>1. i - 1 \in 0 .. n
    BY <1>1
  <2>2. g[i - 1] \in Reassembler
    BY <1>4, <2>1
  <2>3. QED
    BY <1>4, <2>2
<1>6. IsReassembly(g, packets, key, from)
  <2> HIDE DEF step
  <2>1. \A i \in 0 .. n : g[i] = IF i = 0 THEN NewReassembler
                                 ELSE IF Own(packets[i], key, from)
                                        THEN AddSegment(g[i - 1], packets[i]) ELSE g[i - 1]
    BY <1>1, <1>4, <1>5
  <2>2. g = [i \in 0 .. n |-> g[i]]
    BY <1>4
  <2>3. QED
    BY <2>1, <2>2 DEF IsReassembly
<1>7. IsReassembly(chosen, packets, key, from)
  BY <1>6
<1>8. Reassembled(packets, key, from) = chosen[n]
  BY DEF Reassembled, IsReassembly, Own
<1>9. QED
  BY <1>7, <1>8

(* One more packet is added when it is one of that endpoint's, and changes *)
(* nothing when it is not.                                                 *)
LEMMA ReassembledSteps ==
  ASSUME NEW key, NEW from
  PROVE  /\ Reassembled(<<>>, key, from) = NewReassembler
         /\ \A packets \in Seq(Packet), packet \in Packet :
              Reassembled(Append(packets, packet), key, from)
                = IF Own(packet, key, from)
                    THEN AddSegment(Reassembled(packets, key, from), packet)
                    ELSE Reassembled(packets, key, from)
<1>1. Reassembled(<<>>, key, from) = NewReassembler
  <2>1. <<>> \in Seq(Packet) /\ Len(<<>>) = 0
    OBVIOUS
  <2>2. PICK f : IsReassembly(f, <<>>, key, from) /\ Reassembled(<<>>, key, from) = f[Len(<<>>)]
    BY <2>1, ReassemblyExists
  <2>3. QED
    BY <2>1, <2>2 DEF IsReassembly
<1>2. ASSUME NEW packets \in Seq(Packet), NEW packet \in Packet
      PROVE  Reassembled(Append(packets, packet), key, from)
               = IF Own(packet, key, from)
                   THEN AddSegment(Reassembled(packets, key, from), packet)
                   ELSE Reassembled(packets, key, from)
  <2> DEFINE n == Len(packets)
             more == Append(packets, packet)
  <2>1. /\ n \in Nat /\ more \in Seq(Packet) /\ Len(more) = n + 1 /\ more[n + 1] = packet
        /\ \A i \in 1 .. n : more[i] = packets[i]
    OBVIOUS
  <2> HIDE DEF n, more
  <2>2. PICK f : IsReassembly(f, packets, key, from) /\ Reassembled(packets, key, from) = f[n]
    BY ReassemblyExists DEF n
  <2>3. PICK g : IsReassembly(g, more, key, from) /\ Reassembled(more, key, from) = g[n + 1]
    BY <2>1, ReassemblyExists
  <2>4. /\ f[0] = NewReassembler
        /\ \A i \in 1 .. n : f[i] = IF Own(packets[i], key, from)
                                      THEN AddSegment(f[i - 1], packets[i]) ELSE f[i - 1]
    BY <2>1, <2>2 DEF IsReassembly, n
  <2>5. /\ g[0] = NewReassembler
        /\ \A i \in 1 .. n + 1 : g[i] = IF Own(more[i], key, from)
                                          THEN AddSegment(g[i - 1], more[i]) ELSE g[i - 1]
    BY <2>1, <2>3 DEF IsReassembly
  <2> DEFINE Same == {i \in 0 .. n : f[i] = g[i]}
  <2>6. 0 \in Same
    BY <2>1, <2>4, <2>5
  <2>7. ASSUME NEW i \in 1 .. n, i - 1 \in Same PROVE i \in Same
    <3>1. i \in 1 .. n + 1 /\ i \in 0 .. n
      BY <2>1
    <3>2. QED
      BY <2>1, <2>4, <2>5, <2>7, <3>1
  <2>8. 0 .. n \subseteq Same
    <3> HIDE DEF Same
    <3>1. QED
      BY <2>1, <2>6, <2>7, RangeInduction
  <2>9. f[n] = g[n] /\ (n + 1) - 1 = n /\ n + 1 \in 1 .. n + 1
    BY <2>1, <2>8
  <2>10. QED
    BY <2>1, <2>2, <2>3, <2>5, <2>9 DEF more
<1>3. QED
  BY <1>1, <1>2

Kept(datagrams, packet, key) ==
  IF Conversation(packet) = Conversation(key) THEN Append(datagrams, packet) ELSE datagrams

IsKeeping(f, packets, key) ==
  f = [n \in 0 .. Len(packets) |-> IF n = 0 THEN <<>> ELSE Kept(f[n - 1], packets[n], key)]

(* What DatagramsOf yields is the last value of such a function.           *)
LEMMA KeepingExists ==
  ASSUME NEW packets \in Seq(Packet), NEW key
  PROVE  \E f : IsKeeping(f, packets, key) /\ DatagramsOf(packets, key) = f[Len(packets)]
<1> DEFINE n == Len(packets)
           step == [i \in 1 .. n |-> [s \in Seq(Packet) |-> Kept(s, packets[i], key)]]
           chosen == CHOOSE f : IsKeeping(f, packets, key)
<1>1. n \in Nat /\ \A i \in 1 .. n : packets[i] \in Packet
  OBVIOUS
<1>2. step \in [1 .. n -> [Seq(Packet) -> Seq(Packet)]]
  <2>1. \A i \in 1 .. n : \A s \in Seq(Packet) : Kept(s, packets[i], key) \in Seq(Packet)
    BY <1>1 DEF Kept
  <2>2. QED
    BY <2>1
<1>3. PICK g : IsFold(g, Seq(Packet), n, <<>>, step)
  <2> HIDE DEF step
  <2>1. <<>> \in Seq(Packet)
    OBVIOUS
  <2>2. QED
    BY <1>1, <1>2, <2>1, Fold
<1>4. /\ g \in [0 .. n -> Seq(Packet)] /\ g[0] = <<>>
      /\ \A i \in 1 .. n : g[i] = step[i][g[i - 1]]
  <2> HIDE DEF step
  <2>1. QED
    BY <1>3 DEF IsFold
<1>5. ASSUME NEW i \in 1 .. n
      PROVE  g[i] = Kept(g[i - 1], packets[i], key)
  <2>1. i - 1 \in 0 .. n
    BY <1>1
  <2>2. g[i - 1] \in Seq(Packet)
    BY <1>4, <2>1
  <2>3. QED
    BY <1>4, <2>2
<1>6. IsKeeping(g, packets, key)
  <2> HIDE DEF step
  <2>1. \A i \in 0 .. n : g[i] = IF i = 0 THEN <<>> ELSE Kept(g[i - 1], packets[i], key)
    BY <1>1, <1>4, <1>5
  <2>2. g = [i \in 0 .. n |-> g[i]]
    BY <1>4
  <2>3. QED
    BY <2>1, <2>2 DEF IsKeeping
<1>7. IsKeeping(chosen, packets, key)
  BY <1>6
<1>8. DatagramsOf(packets, key) = chosen[n]
  BY DEF DatagramsOf, IsKeeping, Kept
<1>9. QED
  BY <1>7, <1>8

(* One more packet is kept when it is one of the conversation.             *)
LEMMA DatagramsSteps ==
  ASSUME NEW key
  PROVE  /\ DatagramsOf(<<>>, key) = <<>>
         /\ \A packets \in Seq(Packet), packet \in Packet :
              DatagramsOf(Append(packets, packet), key)
                = Kept(DatagramsOf(packets, key), packet, key)
<1>1. DatagramsOf(<<>>, key) = <<>>
  <2>1. <<>> \in Seq(Packet) /\ Len(<<>>) = 0
    OBVIOUS
  <2>2. PICK f : IsKeeping(f, <<>>, key) /\ DatagramsOf(<<>>, key) = f[Len(<<>>)]
    BY <2>1, KeepingExists
  <2>3. QED
    BY <2>1, <2>2 DEF IsKeeping
<1>2. ASSUME NEW packets \in Seq(Packet), NEW packet \in Packet
      PROVE  DatagramsOf(Append(packets, packet), key)
               = Kept(DatagramsOf(packets, key), packet, key)
  <2> DEFINE n == Len(packets)
             more == Append(packets, packet)
  <2>1. /\ n \in Nat /\ more \in Seq(Packet) /\ Len(more) = n + 1 /\ more[n + 1] = packet
        /\ \A i \in 1 .. n : more[i] = packets[i]
    OBVIOUS
  <2> HIDE DEF n, more
  <2>2. PICK f : IsKeeping(f, packets, key) /\ DatagramsOf(packets, key) = f[n]
    BY KeepingExists DEF n
  <2>3. PICK g : IsKeeping(g, more, key) /\ DatagramsOf(more, key) = g[n + 1]
    BY <2>1, KeepingExists
  <2>4. /\ f[0] = <<>>
        /\ \A i \in 1 .. n : f[i] = Kept(f[i - 1], packets[i], key)
    BY <2>1, <2>2 DEF IsKeeping, n
  <2>5. /\ g[0] = <<>>
        /\ \A i \in 1 .. n + 1 : g[i] = Kept(g[i - 1], more[i], key)
    BY <2>1, <2>3 DEF IsKeeping
  <2> DEFINE Same == {i \in 0 .. n : f[i] = g[i]}
  <2>6. 0 \in Same
    BY <2>1, <2>4, <2>5
  <2>7. ASSUME NEW i \in 1 .. n, i - 1 \in Same PROVE i \in Same
    <3>1. i \in 1 .. n + 1 /\ i \in 0 .. n
      BY <2>1
    <3>2. QED
      BY <2>1, <2>4, <2>5, <2>7, <3>1
  <2>8. 0 .. n \subseteq Same
    <3> HIDE DEF Same
    <3>1. QED
      BY <2>1, <2>6, <2>7, RangeInduction
  <2>9. f[n] = g[n] /\ (n + 1) - 1 = n /\ n + 1 \in 1 .. n + 1
    BY <2>1, <2>8
  <2>10. QED
    BY <2>1, <2>2, <2>3, <2>5, <2>9 DEF more
<1>3. QED
  BY <1>1, <1>2

(* As long as no packet is of the conversation, nothing comes of them.     *)
LEMMA NothingYet ==
  ASSUME NEW packets \in Seq(Packet), NEW key, NEW from,
         \A i \in DOMAIN packets : Conversation(packets[i]) # Conversation(key)
  PROVE  /\ Reassembled(packets, key, from) = NewReassembler
         /\ DatagramsOf(packets, key) = <<>>
<1> DEFINE n == Len(packets)
<1>1. n \in Nat /\ DOMAIN packets = 1 .. n
  OBVIOUS
<1> HIDE DEF n
<1>2. Reassembled(packets, key, from) = NewReassembler
  <2>1. PICK f : IsReassembly(f, packets, key, from) /\ Reassembled(packets, key, from) = f[n]
    BY ReassemblyExists DEF n
  <2>2. f[0] = NewReassembler /\ \A i \in 1 .. n : f[i] = f[i - 1]
    BY <1>1, <2>1 DEF IsReassembly, Own, n
  <2> DEFINE T == {i \in 0 .. n : f[i] = NewReassembler}
  <2>3. 0 \in T /\ \A i \in 1 .. n : i - 1 \in T => i \in T
    BY <1>1, <2>2
  <2>4. 0 .. n \subseteq T
    <3> HIDE DEF T
    <3>1. QED
      BY <1>1, <2>3, RangeInduction
  <2>5. QED
    BY <1>1, <2>1, <2>4
<1>3. DatagramsOf(packets, key) = <<>>
  <2>1. PICK f : IsKeeping(f, packets, key) /\ DatagramsOf(packets, key) = f[n]
    BY KeepingExists DEF n
  <2>2. f[0] = <<>> /\ \A i \in 1 .. n : f[i] = Kept(f[i - 1], packets[i], key)
    BY <1>1, <2>1 DEF IsKeeping, n
  <2> DEFINE T == {i \in 0 .. n : f[i] = <<>>}
  <2>3. 0 \in T /\ \A i \in 1 .. n : i - 1 \in T => i \in T
    BY <1>1, <2>2 DEF Kept
  <2>4. 0 .. n \subseteq T
    <3> HIDE DEF T
    <3>1. QED
      BY <1>1, <2>3, RangeInduction
  <2>5. QED
    BY <1>1, <2>1, <2>4
<1>4. QED
  BY <1>2, <1>3

-----------------------------------------------------------------------------
(* A flow of the class its key's protocol calls for.                       *)
FlowFor(key, flow) ==
  \/ key.protocol = "TCP" /\ flow \in TcpFlow
  \/ key.protocol = "UDP" /\ flow \in UdpFlow

(* What a flow's constructor yields.                                       *)
LEMMA NewFlowEffect ==
  ASSUME NEW key \in FlowKey, key.protocol # "UNKNOWN"
  PROVE  FlowFor(key, NewFlow(key)) /\ NewFlow(key).key = key /\ PacketCount(NewFlow(key)) = 0
<1>1. key.protocol = "TCP" \/ key.protocol = "UDP"
  BY DEF FlowKey, Protocol
<1>2. CASE key.protocol = "TCP"
  <2>1. NewFlow(key) \in TcpFlow /\ NewFlow(key).key = key /\ NewFlow(key).packet_count = 0
    BY <1>2, NewReassemblerType DEF NewFlow, NewTcpFlow, TcpFlow
  <2>2. QED
    BY <1>2, <2>1 DEF FlowFor, PacketCount
<1>3. CASE key.protocol = "UDP"
  <2>1. NewFlow(key) = NewUdpFlow(key)
    BY <1>3 DEF NewFlow
  <2>2. NewFlow(key) \in UdpFlow /\ NewFlow(key).key = key /\ NewFlow(key).datagrams = <<>>
    BY <2>1 DEF NewUdpFlow, UdpFlow
  <2>3. QED
    BY <1>3, <2>2 DEF FlowFor, PacketCount
<1>4. QED
  BY <1>1, <1>2, <1>3

(* What handing a packet to a flow does to its key, count and times.       *)
LEMMA FlowOnPacketEffect ==
  ASSUME NEW key \in FlowKey, NEW flow, FlowFor(key, flow), flow.key = key,
         NEW packet \in Packet
  PROVE  LET after == FlowOnPacket(flow, packet)
         IN  /\ FlowFor(key, after)
             /\ after.key = key
             /\ PacketCount(flow) \in Nat
             /\ PacketCount(after) = PacketCount(flow) + 1
             /\ after.first_seen = IF PacketCount(flow) = 0 THEN packet.timestamp_us ELSE flow.first_seen
             /\ after.last_seen = packet.timestamp_us
<1> DEFINE after == FlowOnPacket(flow, packet)
<1>1. packet.timestamp_us \in Nat
  BY DEF Packet
<1>2. CASE key.protocol = "TCP"
  <2>1. flow \in TcpFlow
    BY <1>2 DEF FlowFor
  <2>2. after = TcpOnPacket(flow, packet)
    BY <1>2 DEF FlowOnPacket
  <2> DEFINE first == IF flow.packet_count = 0 THEN packet.timestamp_us ELSE flow.first_seen
             c2s == IF IsClientSide(flow, packet)
                      THEN AddSegment(flow.client_to_server, packet) ELSE flow.client_to_server
             s2c == IF IsClientSide(flow, packet)
                      THEN flow.server_to_client ELSE AddSegment(flow.server_to_client, packet)
  <2>3. c2s \in Reassembler /\ s2c \in Reassembler
    BY <2>1, AddSegmentType DEF TcpFlow
  <2>4. first \in Nat /\ flow.packet_count + 1 \in Nat
    BY <2>1, <1>1 DEF TcpFlow
  <2>5. after = [flow EXCEPT !.first_seen = first,
                             !.last_seen = packet.timestamp_us,
                             !.packet_count = flow.packet_count + 1,
                             !.client_to_server = c2s,
                             !.server_to_client = s2c]
    BY <2>2 DEF TcpOnPacket
  <2>6. after = [key |-> key, packet_count |-> flow.packet_count + 1, first_seen |-> first,
                 last_seen |-> packet.timestamp_us, client_to_server |-> c2s, server_to_client |-> s2c]
    <3> HIDE DEF after, first, c2s, s2c
    <3>1. QED
      BY <2>1, <2>5 DEF TcpFlow
  <2>7. after \in TcpFlow
    <3> HIDE DEF after, first, c2s, s2c
    <3>1. QED
      BY <2>3, <2>4, <2>6, <1>1 DEF TcpFlow
  <2>8. PacketCount(flow) = flow.packet_count /\ flow.packet_count \in Nat
    BY <1>2, <2>1 DEF PacketCount, TcpFlow
  <2>9. after.key = key /\ after.packet_count = flow.packet_count + 1 /\ after.first_seen = first
        /\ after.last_seen = packet.timestamp_us
    <3> HIDE DEF after, first, c2s, s2c
    <3>1. QED
      BY <2>6
  <2>10. PacketCount(after) = after.packet_count
    BY <1>2, <2>9 DEF PacketCount
  <2>11. QED
    BY <1>2, <2>7, <2>8, <2>9, <2>10 DEF FlowFor
<1>3. CASE key.protocol = "UDP"
  <2>1. flow \in UdpFlow
    BY <1>3 DEF FlowFor
  <2>2. after = UdpOnPacket(flow, packet)
    BY <1>3 DEF FlowOnPacket
  <2> DEFINE first == IF flow.datagrams = <<>> THEN packet.timestamp_us ELSE flow.first_seen
             kept == Append(flow.datagrams, packet)
  <2>3. /\ kept \in Seq(Packet) /\ Len(kept) = Len(flow.datagrams) + 1
        /\ Len(flow.datagrams) \in Nat /\ (Len(flow.datagrams) = 0 <=> flow.datagrams = <<>>)
    BY <2>1 DEF UdpFlow
  <2>4. first \in Nat
    BY <2>1, <1>1 DEF UdpFlow
  <2>5. after = [flow EXCEPT !.first_seen = first,
                             !.last_seen = packet.timestamp_us,
                             !.datagrams = kept]
    BY <2>2 DEF UdpOnPacket
  <2>6. after = [key |-> key, datagrams |-> kept, first_seen |-> first,
                 last_seen |-> packet.timestamp_us]
    <3> HIDE DEF after, first, kept
    <3>1. QED
      BY <2>1, <2>5 DEF UdpFlow
  <2>7. after \in UdpFlow
    <3> HIDE DEF after, first, kept
    <3>1. QED
      BY <2>3, <2>4, <2>6, <1>1 DEF UdpFlow
  <2>8. PacketCount(flow) = Len(flow.datagrams)
    BY <1>3 DEF PacketCount
  <2>9. after.key = key /\ after.datagrams = kept /\ after.first_seen = first
        /\ after.last_seen = packet.timestamp_us
    <3> HIDE DEF after, first, kept
    <3>1. QED
      BY <2>6
  <2>10. PacketCount(after) = Len(kept)
    BY <1>3, <2>9 DEF PacketCount
  <2>11. QED
    BY <1>3, <2>3, <2>7, <2>8, <2>9, <2>10 DEF FlowFor
<1>4. QED
  BY <1>2, <1>3 DEF FlowFor

(* What handing a packet to a flow does to what the flow holds.            *)
LEMMA HeldEffect ==
  ASSUME NEW key \in FlowKey, NEW flow, FlowFor(key, flow), flow.key = key, NEW packet \in Packet
  PROVE  LET after == FlowOnPacket(flow, packet)
         IN  IF key.protocol = "TCP"
               THEN IF packet.src = key.src
                      THEN /\ after.client_to_server = AddSegment(flow.client_to_server, packet)
                           /\ after.server_to_client = flow.server_to_client
                      ELSE /\ after.client_to_server = flow.client_to_server
                           /\ after.server_to_client = AddSegment(flow.server_to_client, packet)
               ELSE after.datagrams = Append(flow.datagrams, packet)
<1> DEFINE after == FlowOnPacket(flow, packet)
<1>1. CASE key.protocol = "TCP"
  <2>1. flow \in TcpFlow /\ after = TcpOnPacket(flow, packet)
    BY <1>1 DEF FlowFor, FlowOnPacket
  <2> DEFINE c2s == IF packet.src = key.src
                      THEN AddSegment(flow.client_to_server, packet) ELSE flow.client_to_server
             s2c == IF packet.src = key.src
                      THEN flow.server_to_client ELSE AddSegment(flow.server_to_client, packet)
  <2>2. after.client_to_server = c2s /\ after.server_to_client = s2c
    BY <2>1 DEF TcpOnPacket, IsClientSide, TcpFlow
  <2>3. QED
    BY <1>1, <2>2
<1>2. CASE key.protocol # "TCP"
  <2>1. flow \in UdpFlow /\ after = UdpOnPacket(flow, packet)
    BY <1>2 DEF FlowFor, FlowOnPacket
  <2> DEFINE kept == Append(flow.datagrams, packet)
  <2>2. after.datagrams = kept
    BY <2>1 DEF UdpOnPacket, UdpFlow
  <2>3. QED
    BY <1>2, <2>2
<1>3. QED
  BY <1>1, <1>2

-----------------------------------------------------------------------------
(* The flow of a packet's key, old or new, is of the class of that key and *)
(* it is the one that is handed the packet.                                *)
LEMMA FlowHanded ==
  ASSUME IInv, NEW packet \in Packet, OnPacket(packet)
  PROVE  LET key == MakeKey(packet)
         IN  /\ FlowFor(key, FlowAt(key))
             /\ FlowAt(key).key = key
             /\ flows'[key] = FlowOnPacket(FlowAt(key), packet)
<1> DEFINE key == MakeKey(packet)
<1>1. key \in FlowKey /\ key.protocol = packet.protocol
  BY PacketKey
<1>2. /\ flows' = [k \in DOMAIN flows \cup {key} |->
                     IF k = key THEN FlowOnPacket(FlowAt(key), packet) ELSE flows[k]]
      /\ packet.protocol # "UNKNOWN"
  BY DEF OnPacket
<1> HIDE DEF key
<1>3. FlowFor(key, FlowAt(key)) /\ FlowAt(key).key = key
  <2>1. CASE key \in DOMAIN flows
    <3>1. FlowAt(key) = flows[key]
      BY <2>1 DEF FlowAt
    <3>2. QED
      BY <2>1, <3>1 DEF IInv, TypeOK, KeysNormalized, FlowFor
  <2>2. CASE key \notin DOMAIN flows
    <3>1. FlowAt(key) = NewFlow(key)
      BY <2>2 DEF FlowAt
    <3>2. QED
      BY <3>1, <1>1, <1>2, NewFlowEffect
  <2>3. QED
    BY <2>1, <2>2
<1>4. QED
  BY <1>2, <1>3 DEF key

(* What OnPacket does to the map.                                          *)
LEMMA OnPacketEffect ==
  ASSUME IInv, NEW packet \in Packet, OnPacket(packet)
  PROVE  LET key == MakeKey(packet)
         IN  /\ key \in FlowKey
             /\ Normalized(key) = key
             /\ Conversation(key) = Conversation(packet)
             /\ DOMAIN flows' = DOMAIN flows \cup {key}
             /\ \A k \in DOMAIN flows \ {key} : flows'[k] = flows[k]
             /\ FlowFor(key, flows'[key])
             /\ flows'[key].key = key
             /\ PacketCount(FlowAt(key)) \in Nat
             /\ PacketCount(flows'[key]) = PacketCount(FlowAt(key)) + 1
             /\ flows'[key].first_seen = IF PacketCount(FlowAt(key)) = 0
                                           THEN packet.timestamp_us
                                           ELSE FlowAt(key).first_seen
             /\ flows'[key].last_seen = packet.timestamp_us
             /\ log' = Append(log, packet)
             /\ crashed' = crashed
<1> DEFINE key == MakeKey(packet)
<1>1. /\ key \in FlowKey /\ key.protocol = packet.protocol
      /\ Normalized(key) = key /\ Conversation(key) = Conversation(packet)
  BY PacketKey
<1>2. /\ flows' = [k \in DOMAIN flows \cup {key} |->
                     IF k = key THEN FlowOnPacket(FlowAt(key), packet) ELSE flows[k]]
      /\ log' = Append(log, packet)
      /\ crashed' = crashed
      /\ packet.protocol # "UNKNOWN"
  BY DEF OnPacket
<1> HIDE DEF key
<1>3. FlowFor(key, FlowAt(key)) /\ FlowAt(key).key = key
  BY FlowHanded DEF key
<1> DEFINE before == FlowAt(key)
           after == FlowOnPacket(before, packet)
<1>4. /\ FlowFor(key, after)
      /\ after.key = key
      /\ PacketCount(before) \in Nat
      /\ PacketCount(after) = PacketCount(before) + 1
      /\ after.first_seen = IF PacketCount(before) = 0 THEN packet.timestamp_us ELSE before.first_seen
      /\ after.last_seen = packet.timestamp_us
  <2> HIDE DEF before
  <2>1. FlowFor(key, before) /\ before.key = key
    BY <1>3 DEF before
  <2>2. QED
    BY <1>1, <2>1, FlowOnPacketEffect
<1>5. flows'[key] = after /\ DOMAIN flows' = DOMAIN flows \cup {key}
      /\ \A k \in DOMAIN flows \ {key} : flows'[k] = flows[k]
  <2> HIDE DEF after
  <2>1. flows' = [k \in DOMAIN flows \cup {key} |-> IF k = key THEN after ELSE flows[k]]
    BY <1>2 DEF after
  <2>2. QED
    BY <2>1
<1>6. /\ FlowFor(key, flows'[key])
      /\ flows'[key].key = key
      /\ PacketCount(flows'[key]) = PacketCount(before) + 1
      /\ flows'[key].first_seen = IF PacketCount(before) = 0 THEN packet.timestamp_us ELSE before.first_seen
      /\ flows'[key].last_seen = packet.timestamp_us
  <2> HIDE DEF after, before
  <2>1. QED
    BY <1>4, <1>5
<1>7. QED
  BY <1>1, <1>2, <1>4, <1>5, <1>6 DEF key, before

-----------------------------------------------------------------------------
(* What the flows hold and count of the log.                               *)

(* The packets of a flow in a log that is one packet longer.               *)
LEMMA PacketsOfGrow ==
  ASSUME log \in Seq(Packet), NEW packet, log' = Append(log, packet), NEW key
  PROVE  /\ Len(log) \in Nat /\ DOMAIN log = 1 .. Len(log)
         /\ PacketsOf(key) \subseteq 1 .. Len(log) /\ IsFiniteSet(PacketsOf(key))
         /\ \A i \in 1 .. Len(log) : log'[i] = log[i]
         /\ log'[Len(log) + 1] = packet
         /\ PacketsOf(key)' = PacketsOf(key) \cup
              {i \in {Len(log) + 1} : Conversation(packet) = Conversation(key)}
<1> DEFINE n == Len(log)
<1>1. /\ n \in Nat /\ DOMAIN log = 1 .. n /\ DOMAIN log' = 1 .. n + 1
      /\ \A i \in 1 .. n : log'[i] = log[i]
      /\ log'[n + 1] = packet
  OBVIOUS
<1> HIDE DEF n
<1>2. PacketsOf(key) \subseteq 1 .. n
  BY <1>1 DEF PacketsOf
<1>3. IsFiniteSet(PacketsOf(key))
  <2>1. IsFiniteSet(1 .. n)
    BY <1>1, FS_Interval
  <2>2. QED
    BY <1>2, <2>1, FS_Subset
<1>4. 1 .. n + 1 = (1 .. n) \cup {n + 1}
  BY <1>1
<1>5. PacketsOf(key)' = {i \in DOMAIN log' : Conversation(log'[i]) = Conversation(key)}
  BY DEF PacketsOf, Conversation
<1>6. PacketsOf(key)' = PacketsOf(key) \cup {i \in {n + 1} : Conversation(packet) = Conversation(key)}
  BY <1>1, <1>4, <1>5 DEF PacketsOf
<1>7. QED
  BY <1>1, <1>2, <1>3, <1>6 DEF n

(* The flows of a map are those of TCP and those of UDP.                   *)
LEMMA CountsAdd ==
  ASSUME NEW map, IsFiniteSet(DOMAIN map),
         \A key \in DOMAIN map : map[key].key.protocol \in {"TCP", "UDP"}
  PROVE  Cardinality({key \in DOMAIN map : map[key].key.protocol = "TCP"})
           + Cardinality({key \in DOMAIN map : map[key].key.protocol = "UDP"})
           = Cardinality(DOMAIN map)
<1> DEFINE tcp == {key \in DOMAIN map : map[key].key.protocol = "TCP"}
           udp == {key \in DOMAIN map : map[key].key.protocol = "UDP"}
<1>1. tcp \cup udp = DOMAIN map /\ tcp \cap udp = {}
  OBVIOUS
<1>2. tcp \in SUBSET DOMAIN map /\ udp \in SUBSET DOMAIN map
  OBVIOUS
<1> HIDE DEF tcp, udp
<1>3. IsFiniteSet(tcp) /\ IsFiniteSet(udp)
  BY <1>2, FS_Subset
<1>4. Cardinality(tcp \cup udp) = Cardinality(tcp) + Cardinality(udp) - Cardinality(tcp \cap udp)
  BY <1>3, FS_Union
<1>5. Cardinality(tcp \cap udp) = 0
  BY <1>1, FS_EmptySet
<1>6. Cardinality(tcp) \in Nat /\ Cardinality(udp) \in Nat
  BY <1>3, FS_CardinalityType
<1>7. Cardinality(tcp) + Cardinality(udp) = Cardinality(DOMAIN map)
  BY <1>1, <1>4, <1>5, <1>6
<1>8. QED
  BY <1>7 DEF tcp, udp

(* The count and the times of a flow, from the packets it is to summarise. *)
Summarises(key) ==
  /\ PacketCount(flows[key]) = Cardinality(PacketsOf(key))
  /\ \E i \in PacketsOf(key) : /\ \A j \in PacketsOf(key) : i <= j
                               /\ flows[key].first_seen = log[i].timestamp_us
  /\ \E i \in PacketsOf(key) : /\ \A j \in PacketsOf(key) : j <= i
                               /\ flows[key].last_seen = log[i].timestamp_us

(* No packet is of the conversation of a flow that is not there.           *)
LEMMA NoFlowNoPacket ==
  ASSUME IInv, NEW key \in FlowKey, Normalized(key) = key, key \notin DOMAIN flows
  PROVE  \A i \in DOMAIN log : Conversation(log[i]) # Conversation(key)
<1> SUFFICES ASSUME NEW i \in DOMAIN log, Conversation(log[i]) = Conversation(key) PROVE FALSE
  OBVIOUS
<1>1. PICK k \in DOMAIN flows : Conversation(k) = Conversation(key)
  BY DEF IInv, FlowsCoverLog
<1>2. k \in FlowKey /\ Normalized(k) = k
  BY DEF IInv, TypeOK, KeysNormalized
<1>3. k = key
  BY <1>1, <1>2, NormalizedUnique
<1>4. QED
  BY <1>3

(* A packet is counted in the summary of its own flow, and in no other.    *)
LEMMA SummaryStep ==
  ASSUME IInv, NEW packet \in Packet, OnPacket(packet), FlowsFinite'
  PROVE  FlowsSummariseLog'
<1> DEFINE key == MakeKey(packet)
           n == Len(log)
<1>1. /\ key \in FlowKey /\ Normalized(key) = key
      /\ Conversation(key) = Conversation(packet)
      /\ DOMAIN flows' = DOMAIN flows \cup {key}
      /\ \A k \in DOMAIN flows \ {key} : flows'[k] = flows[k]
      /\ FlowFor(key, flows'[key]) /\ flows'[key].key = key
      /\ PacketCount(flows'[key]) = PacketCount(FlowAt(key)) + 1
      /\ flows'[key].first_seen = IF PacketCount(FlowAt(key)) = 0 THEN packet.timestamp_us
                                                                  ELSE FlowAt(key).first_seen
      /\ flows'[key].last_seen = packet.timestamp_us
      /\ log' = Append(log, packet)
      /\ key.protocol = packet.protocol /\ packet.protocol # "UNKNOWN"
  BY OnPacketEffect, PacketKey DEF OnPacket
<1> HIDE DEF key
<1>2. log \in Seq(Packet)
  BY DEF IInv, TypeOK
<1>3. \A k \in DOMAIN flows : Summarises(k)
  BY DEF IInv, FlowsSummariseLog, Summarises
<1>4. \A k : /\ n \in Nat /\ PacketsOf(k) \subseteq 1 .. n /\ IsFiniteSet(PacketsOf(k))
             /\ \A i \in 1 .. n : log'[i] = log[i]
             /\ log'[n + 1] = packet
             /\ PacketsOf(k)' = PacketsOf(k) \cup
                  {i \in {n + 1} : Conversation(packet) = Conversation(k)}
  BY <1>1, <1>2, PacketsOfGrow
<1> HIDE DEF n
<1>5. ASSUME NEW k \in DOMAIN flows, k # key PROVE Summarises(k)'
  <2>1. Conversation(k) # Conversation(packet)
    BY <1>1, <1>5, NormalizedUnique DEF IInv, TypeOK, KeysNormalized
  <2>2. PacketsOf(k)' = PacketsOf(k) /\ flows'[k] = flows[k]
    BY <1>1, <1>4, <1>5, <2>1
  <2>3. PacketCount(flows[k])' = PacketCount(flows[k])
    BY <2>2 DEF PacketCount
  <2>4. \A i \in PacketsOf(k) : log'[i] = log[i]
    BY <1>4
  <2>5. QED
    BY <1>3, <2>2, <2>3, <2>4 DEF Summarises
<1>6. Summarises(key)'
  <2>1. PacketsOf(key)' = PacketsOf(key) \cup {n + 1} /\ n + 1 \notin PacketsOf(key)
    BY <1>1, <1>4
  <2>2. Cardinality(PacketsOf(key)') = Cardinality(PacketsOf(key)) + 1
    BY <1>4, <2>1, FS_AddElement
  <2>3. PacketCount(flows[key])' = PacketCount(FlowAt(key)) + 1
    BY <1>1 DEF PacketCount
  <2>4. \A j \in PacketsOf(key)' : j \in PacketsOf(key) \/ j = n + 1
    BY <2>1
  <2>5. n \in Nat /\ \A j \in PacketsOf(key) : j \in 1 .. n /\ log'[j] = log[j]
    BY <1>4
  <2>6. \E i \in PacketsOf(key)' : /\ \A j \in PacketsOf(key)' : j <= i
                                   /\ flows'[key].last_seen = log'[i].timestamp_us
    <3>1. n + 1 \in PacketsOf(key)' /\ log'[n + 1] = packet
      BY <1>4, <2>1
    <3>2. \A j \in PacketsOf(key)' : j <= n + 1
      BY <2>4, <2>5
    <3>3. QED
      BY <1>1, <3>1, <3>2
  <2>7. CASE key \in DOMAIN flows
    <3>1. FlowAt(key) = flows[key] /\ Summarises(key)
      BY <1>3, <2>7 DEF FlowAt
    <3>2. PacketCount(flows[key]) = Cardinality(PacketsOf(key)) /\ PacketCount(flows[key]) >= 1
      BY <2>7, <3>1 DEF Summarises, IInv, FlowsNotEmpty
    <3>3. PacketCount(flows[key]) # 0
      BY <3>2
    <3>4. flows'[key].first_seen = flows[key].first_seen
      BY <1>1, <3>1, <3>3
    <3>5. PICK i \in PacketsOf(key) : /\ \A j \in PacketsOf(key) : i <= j
                                      /\ flows[key].first_seen = log[i].timestamp_us
      BY <3>1 DEF Summarises
    <3>6. i \in PacketsOf(key)' /\ \A j \in PacketsOf(key)' : i <= j
      BY <2>1, <2>4, <2>5, <3>5
    <3>7. flows'[key].first_seen = log'[i].timestamp_us
      BY <2>5, <3>4, <3>5
    <3>8. QED
      BY <2>2, <2>3, <2>6, <3>1, <3>2, <3>6, <3>7 DEF Summarises
  <2>8. CASE key \notin DOMAIN flows
    <3>1. FlowAt(key) = NewFlow(key)
      BY <2>8 DEF FlowAt
    <3>2. PacketCount(FlowAt(key)) = 0
      BY <1>1, <3>1, NewFlowEffect
    <3>3. PacketsOf(key) = {}
      BY <1>1, <2>8, NoFlowNoPacket DEF PacketsOf
    <3>4. Cardinality(PacketsOf(key)) = 0
      BY <3>3, FS_EmptySet
    <3>5. PacketsOf(key)' = {n + 1} /\ log'[n + 1] = packet
      BY <1>4, <2>1, <3>3
    <3>6. n + 1 \in PacketsOf(key)' /\ \A j \in PacketsOf(key)' : n + 1 <= j
      BY <2>5, <3>5
    <3>7. flows'[key].first_seen = log'[n + 1].timestamp_us
      BY <1>1, <3>2, <3>5
    <3>8. QED
      BY <2>2, <2>3, <2>6, <3>2, <3>4, <3>6, <3>7 DEF Summarises
  <2>9. QED
    BY <2>7, <2>8
<1>7. \A k \in DOMAIN flows' : Summarises(k)'
  BY <1>1, <1>5, <1>6
<1>8. TcpFlowCount' + UdpFlowCount' = FlowCount'
  <2>1. \A k \in DOMAIN flows' : flows'[k].key.protocol \in {"TCP", "UDP"}
    <3>1. ASSUME NEW k \in DOMAIN flows, k # key PROVE flows'[k].key.protocol \in {"TCP", "UDP"}
      BY <1>1, <3>1 DEF IInv, TypeOK, KeysNormalized
    <3>2. flows'[key].key.protocol \in {"TCP", "UDP"}
      BY <1>1 DEF FlowFor
    <3>3. QED
      BY <1>1, <3>1, <3>2
  <2>2. IsFiniteSet(DOMAIN flows')
    BY DEF FlowsFinite
  <2>3. QED
    BY <2>1, <2>2, CountsAdd DEF TcpFlowCount, UdpFlowCount, FlowCount
<1>9. QED
  BY <1>7, <1>8 DEF FlowsSummariseLog, Summarises

(* What a flow holds of a log.                                             *)
Holds(flow, packets, key) ==
  IF key.protocol = "TCP"
    THEN /\ flow.client_to_server = Reassembled(packets, key, key.src)
         /\ key.dst # key.src => flow.server_to_client = Reassembled(packets, key, key.dst)
    ELSE flow.datagrams = DatagramsOf(packets, key)

(* A new flow holds nothing, as there is nothing for it to hold.           *)
LEMMA NewFlowHolds ==
  ASSUME NEW key \in FlowKey, NEW packets \in Seq(Packet),
         \A i \in DOMAIN packets : Conversation(packets[i]) # Conversation(key)
  PROVE  Holds(NewFlow(key), packets, key)
<1>1. /\ \A from : Reassembled(packets, key, from) = NewReassembler
      /\ DatagramsOf(packets, key) = <<>>
  BY NothingYet
<1>2. CASE key.protocol = "TCP"
  <2>1. /\ NewFlow(key).client_to_server = NewReassembler
        /\ NewFlow(key).server_to_client = NewReassembler
    BY <1>2 DEF NewFlow, NewTcpFlow
  <2>2. QED
    BY <1>1, <1>2, <2>1 DEF Holds
<1>3. CASE key.protocol # "TCP"
  <2>1. NewFlow(key).datagrams = <<>>
    BY <1>3 DEF NewFlow, NewUdpFlow
  <2>2. QED
    BY <1>1, <1>3, <2>1 DEF Holds
<1>4. QED
  BY <1>2, <1>3

(* A packet goes into its own flow, in its own direction.                  *)
LEMMA HoldsPacket ==
  ASSUME NEW key \in FlowKey, NEW flow, FlowFor(key, flow), flow.key = key,
         NEW packets \in Seq(Packet), NEW packet \in Packet,
         Conversation(packet) = Conversation(key), Holds(flow, packets, key)
  PROVE  Holds(FlowOnPacket(flow, packet), Append(packets, packet), key)
<1> DEFINE after == FlowOnPacket(flow, packet)
           more == Append(packets, packet)
<1>1. \/ packet.src = key.src /\ packet.dst = key.dst
      \/ packet.src = key.dst /\ packet.dst = key.src
  BY DEF Conversation
<1>2. ASSUME NEW from
      PROVE  Reassembled(more, key, from)
               = IF packet.src = from THEN AddSegment(Reassembled(packets, key, from), packet)
                                      ELSE Reassembled(packets, key, from)
  <2>1. Own(packet, key, from) <=> packet.src = from
    BY DEF Own
  <2>2. QED
    BY <2>1, ReassembledSteps
<1>3. DatagramsOf(more, key) = Append(DatagramsOf(packets, key), packet)
  BY DatagramsSteps DEF Kept
<1>4. IF key.protocol = "TCP"
        THEN IF packet.src = key.src
               THEN /\ after.client_to_server = AddSegment(flow.client_to_server, packet)
                    /\ after.server_to_client = flow.server_to_client
               ELSE /\ after.client_to_server = flow.client_to_server
                    /\ after.server_to_client = AddSegment(flow.server_to_client, packet)
        ELSE after.datagrams = Append(flow.datagrams, packet)
  BY HeldEffect
<1> HIDE DEF after, more
<1>5. CASE key.protocol = "TCP" /\ packet.src = key.src
  <2>1. after.client_to_server = Reassembled(more, key, key.src)
    BY <1>2, <1>4, <1>5 DEF Holds
  <2>2. key.dst # key.src => after.server_to_client = Reassembled(more, key, key.dst)
    BY <1>2, <1>4, <1>5 DEF Holds
  <2>3. QED
    BY <1>5, <2>1, <2>2 DEF Holds, after, more
<1>6. CASE key.protocol = "TCP" /\ packet.src # key.src
  <2>1. packet.src = key.dst
    BY <1>1, <1>6
  <2>2. after.client_to_server = Reassembled(more, key, key.src)
    BY <1>2, <1>4, <1>6 DEF Holds
  <2>3. after.server_to_client = Reassembled(more, key, key.dst)
    BY <1>2, <1>4, <1>6, <2>1 DEF Holds
  <2>4. QED
    BY <1>6, <2>2, <2>3 DEF Holds, after, more
<1>7. CASE key.protocol # "TCP"
  <2>1. after.datagrams = DatagramsOf(more, key)
    BY <1>3, <1>4, <1>7 DEF Holds
  <2>2. QED
    BY <1>7, <2>1 DEF Holds, after, more
<1>8. QED
  BY <1>5, <1>6, <1>7

(* A packet of another conversation changes nothing of what is to be held. *)
LEMMA HoldsWithoutPacket ==
  ASSUME NEW key, NEW flow, NEW packets \in Seq(Packet), NEW packet \in Packet,
         Conversation(packet) # Conversation(key), Holds(flow, packets, key)
  PROVE  Holds(flow, Append(packets, packet), key)
<1>1. ASSUME NEW from
      PROVE  Reassembled(Append(packets, packet), key, from) = Reassembled(packets, key, from)
  <2>1. ~Own(packet, key, from)
    BY DEF Own
  <2>2. QED
    BY <2>1, ReassembledSteps
<1>2. DatagramsOf(Append(packets, packet), key) = DatagramsOf(packets, key)
  BY DatagramsSteps DEF Kept
<1>3. QED
  BY <1>1, <1>2 DEF Holds

(* After a packet every flow holds what is its own of the longer log.      *)
LEMMA HeldStep ==
  ASSUME IInv, NEW packet \in Packet, OnPacket(packet)
  PROVE  FlowsHoldTheirPackets'
<1> DEFINE key == MakeKey(packet)
<1>1. /\ key \in FlowKey /\ Normalized(key) = key
      /\ Conversation(key) = Conversation(packet)
      /\ DOMAIN flows' = DOMAIN flows \cup {key}
      /\ \A k \in DOMAIN flows \ {key} : flows'[k] = flows[k]
      /\ log' = Append(log, packet)
      /\ key.protocol = packet.protocol /\ packet.protocol # "UNKNOWN"
  BY OnPacketEffect, PacketKey DEF OnPacket
<1>2. flows'[key] = FlowOnPacket(FlowAt(key), packet)
  BY FlowHanded
<1> HIDE DEF key
<1>3. log \in Seq(Packet)
  BY DEF IInv, TypeOK
<1>4. \A k \in DOMAIN flows : /\ Holds(flows[k], log, k) /\ k \in FlowKey /\ Normalized(k) = k
                              /\ FlowFor(k, flows[k]) /\ flows[k].key = k
  BY DEF IInv, FlowsHoldTheirPackets, Holds, TypeOK, KeysNormalized, FlowFor
<1>5. ASSUME NEW k \in DOMAIN flows, k # key PROVE Holds(flows'[k], log', k)
  <2>1. Conversation(packet) # Conversation(k)
    BY <1>1, <1>4, <1>5, NormalizedUnique
  <2>2. flows'[k] = flows[k] /\ Holds(flows[k], log, k)
    BY <1>1, <1>4, <1>5
  <2>3. QED
    BY <1>1, <1>3, <2>1, <2>2, HoldsWithoutPacket
<1>6. Holds(flows'[key], log', key)
  <2>1. Holds(FlowAt(key), log, key) /\ FlowFor(key, FlowAt(key)) /\ FlowAt(key).key = key
    <3>1. CASE key \in DOMAIN flows
      <4>1. FlowAt(key) = flows[key]
        BY <3>1 DEF FlowAt
      <4>2. QED
        BY <1>4, <3>1, <4>1
    <3>2. CASE key \notin DOMAIN flows
      <4>1. FlowAt(key) = NewFlow(key)
        BY <3>2 DEF FlowAt
      <4>2. \A i \in DOMAIN log : Conversation(log[i]) # Conversation(key)
        BY <1>1, <3>2, NoFlowNoPacket
      <4>3. QED
        BY <1>1, <1>3, <4>1, <4>2, NewFlowHolds, NewFlowEffect
    <3>3. QED
      BY <3>1, <3>2
  <2>2. Holds(FlowOnPacket(FlowAt(key), packet), Append(log, packet), key)
    BY <1>1, <1>3, <2>1, HoldsPacket
  <2>3. QED
    BY <1>1, <1>2, <2>2
<1>7. \A k \in DOMAIN flows' : Holds(flows'[k], log', k)
  BY <1>1, <1>5, <1>6
<1>8. QED
  BY <1>7 DEF FlowsHoldTheirPackets, Holds

-----------------------------------------------------------------------------
(* The invariant holds at the start, and every packet keeps it.            *)
LEMMA InitIInv ==
  ASSUME Init
  PROVE  IInv
<1>1. DOMAIN flows = {} /\ log = <<>> /\ crashed = FALSE
  BY DEF Init
<1>2. TypeOK
  <2>1. <<>> \in Seq(Packet) /\ FALSE \in BOOLEAN
    OBVIOUS
  <2>2. log \in Seq(Packet) /\ crashed \in BOOLEAN
    BY <1>1, <2>1
  <2>3. \A key \in DOMAIN flows : FALSE
    BY <1>1
  <2>4. QED
    BY <2>2, <2>3 DEF TypeOK
<1>3. FlowsCoverLog
  <2>1. DOMAIN log = {}
    BY <1>1
  <2>2. QED
    BY <1>1, <2>1 DEF FlowsCoverLog
<1>4. KeysNormalized /\ FlowsNotEmpty /\ FlowsHoldTheirPackets
  BY <1>1 DEF KeysNormalized, FlowsNotEmpty, FlowsHoldTheirPackets
<1>5. FlowsFinite
  BY <1>1, FS_EmptySet DEF FlowsFinite
<1>6. FlowsSummariseLog
  <2>1. TcpFlowCount + UdpFlowCount = FlowCount
    BY <1>1, <1>5, CountsAdd DEF TcpFlowCount, UdpFlowCount, FlowCount, FlowsFinite
  <2>2. QED
    BY <1>1, <2>1 DEF FlowsSummariseLog
<1>7. QED
  BY <1>2, <1>3, <1>4, <1>5, <1>6 DEF IInv

(* A packet that is handled keeps the invariant.                           *)
LEMMA OnPacketKeepsIInv ==
  ASSUME IInv, NEW packet \in Packet, OnPacket(packet)
  PROVE  IInv'
<1> DEFINE key == MakeKey(packet)
<1>1. /\ key \in FlowKey
      /\ Normalized(key) = key
      /\ Conversation(key) = Conversation(packet)
      /\ DOMAIN flows' = DOMAIN flows \cup {key}
      /\ \A k \in DOMAIN flows \ {key} : flows'[k] = flows[k]
      /\ FlowFor(key, flows'[key])
      /\ flows'[key].key = key
      /\ PacketCount(FlowAt(key)) \in Nat
      /\ PacketCount(flows'[key]) = PacketCount(FlowAt(key)) + 1
      /\ log' = Append(log, packet)
      /\ crashed' = crashed
  BY OnPacketEffect
<1> HIDE DEF key
<1>2. TypeOK'
  <2>1. ASSUME NEW k \in DOMAIN flows'
        PROVE  FlowFor(k, flows'[k])
    <3>1. CASE k = key
      BY <1>1, <3>1
    <3>2. CASE k # key
      BY <1>1, <3>2, <2>1 DEF IInv, TypeOK, FlowFor
    <3>3. QED
      BY <3>1, <3>2
  <2>2. DOMAIN flows' \subseteq FlowKey /\ crashed' \in BOOLEAN /\ log' \in Seq(Packet)
    BY <1>1 DEF IInv, TypeOK
  <2>3. QED
    BY <2>1, <2>2 DEF TypeOK, FlowFor
<1>3. KeysNormalized'
  <2>1. ASSUME NEW k \in DOMAIN flows'
        PROVE  Normalized(k) = k /\ flows'[k].key = k
    BY <1>1, <2>1 DEF IInv, KeysNormalized
  <2>2. QED
    BY <2>1 DEF KeysNormalized, Normalized, Greater
<1>4. FlowsNotEmpty'
  <2>1. ASSUME NEW k \in DOMAIN flows'
        PROVE  PacketCount(flows'[k]) >= 1
    BY <1>1, <2>1 DEF IInv, FlowsNotEmpty
  <2>2. QED
    BY <2>1 DEF FlowsNotEmpty, PacketCount
<1>5. FlowsCoverLog'
  <2>1. log \in Seq(Packet)
    BY DEF IInv, TypeOK
  <2>2. /\ DOMAIN log' = DOMAIN log \cup {Len(log) + 1}
        /\ \A i \in DOMAIN log : log'[i] = log[i]
        /\ log'[Len(log) + 1] = packet
    BY <2>1, <1>1
  <2>3. {Conversation(log'[i]) : i \in DOMAIN log'}
          = {Conversation(log[i]) : i \in DOMAIN log} \cup {Conversation(packet)}
    BY <2>2
  <2>4. {Conversation(k) : k \in DOMAIN flows'}
          = {Conversation(k) : k \in DOMAIN flows} \cup {Conversation(key)}
    BY <1>1
  <2>5. QED
    BY <2>3, <2>4, <1>1 DEF IInv, FlowsCoverLog, Conversation
<1>6. FlowsFinite'
  <2>1. IsFiniteSet(DOMAIN flows)
    BY DEF IInv, FlowsFinite
  <2>2. IsFiniteSet(DOMAIN flows \cup {key})
    BY <2>1, FS_AddElement
  <2>3. QED
    BY <1>1, <2>2 DEF FlowsFinite
<1>7. FlowsSummariseLog'
  BY <1>6, SummaryStep
<1>8. FlowsHoldTheirPackets'
  BY HeldStep
<1>9. QED
  BY <1>2, <1>3, <1>4, <1>5, <1>6, <1>7, <1>8 DEF IInv

(* The death of the process does, too: flows and log stay as they are.     *)
LEMMA CrashKeepsIInv ==
  ASSUME IInv, UNCHANGED <<flows, log>>, crashed' \in BOOLEAN
  PROVE  IInv'
<1>1. (TypeOK /\ KeysNormalized /\ FlowsNotEmpty /\ FlowsCoverLog /\ FlowsFinite)'
  BY DEF IInv, TypeOK, KeysNormalized, FlowsNotEmpty, FlowsCoverLog, FlowsFinite,
         Normalized, Greater, PacketCount, Conversation
<1>2. FlowsSummariseLog'
  <2>1. \A key : PacketsOf(key)' = PacketsOf(key)
    BY DEF PacketsOf, Conversation
  <2>2. TcpFlowCount' = TcpFlowCount /\ UdpFlowCount' = UdpFlowCount /\ FlowCount' = FlowCount
    BY DEF TcpFlowCount, UdpFlowCount, FlowCount
  <2>3. \A key : PacketCount(flows[key])' = PacketCount(flows[key])
    BY DEF PacketCount
  <2>4. QED
    BY <2>1, <2>2, <2>3 DEF IInv, FlowsSummariseLog
<1>3. FlowsHoldTheirPackets'
  <2>1. \A key \in DOMAIN flows : Holds(flows[key], log, key)
    BY DEF IInv, FlowsHoldTheirPackets, Holds
  <2>2. \A key \in DOMAIN flows' : Holds(flows'[key], log', key)
    BY <2>1
  <2>3. QED
    BY <2>2 DEF FlowsHoldTheirPackets, Holds
<1>4. QED
  BY <1>1, <1>2, <1>3 DEF IInv

(* So every step of the tracker keeps it.                                  *)
LEMMA NextIInv ==
  ASSUME IInv, [Next]_vars
  PROVE  IInv'
<1>1. ASSUME NEW packet \in Packets, OnPacket(packet)
      PROVE  IInv'
  BY <1>1, PacketsAssumption, OnPacketKeepsIInv
<1>2. ASSUME NEW packet \in Packets, OnBarePacket(packet)
      PROVE  IInv'
  BY <1>2, CrashKeepsIInv DEF OnBarePacket
<1>3. CASE UNCHANGED vars
  BY <1>3, CrashKeepsIInv DEF vars, IInv, TypeOK
<1>4. QED
  BY <1>1, <1>2, <1>3 DEF Next, IgnorePacket

(* The inductive invariant holds in every reachable state.                 *)
THEOREM Invariance == Spec => []IInv
<1>1. Init => IInv
  BY InitIInv
<1>2. IInv /\ [Next]_vars => IInv'
  BY NextIInv
<1>3. QED
  BY <1>1, <1>2, PTL DEF Spec

(* Every flow is of the class of its key's protocol and keeps its types.   *)
THEOREM TypeCorrect == Spec => []TypeOK
<1>1. IInv => TypeOK
  BY DEF IInv
<1>2. QED
  BY <1>1, Invariance, PTL

(* FlowTracker::OnPacket keeps one flow per conversation.                  *)
THEOREM OneFlow == Spec => []OneFlowPerConversation
<1>1. IInv => OneFlowPerConversation
  <2>1. SUFFICES ASSUME IInv PROVE OneFlowPerConversation
    OBVIOUS
  <2>2. ASSUME NEW j \in DOMAIN flows, NEW k \in DOMAIN flows, Conversation(j) = Conversation(k)
        PROVE  j = k
    BY <2>1, <2>2, NormalizedUnique DEF IInv, TypeOK, KeysNormalized
  <2>3. QED
    BY <2>1, <2>2 DEF OneFlowPerConversation, IInv, FlowsCoverLog
<1>2. QED
  BY <1>1, Invariance, PTL

(* The count and the times of a flow are those of the packets of its       *)
(* conversation, and the counts of flows the command prints add up.        *)
THEOREM FlowsSummarise == Spec => []FlowsSummariseLog
<1>1. IInv => FlowsSummariseLog
  BY DEF IInv
<1>2. QED
  BY <1>1, Invariance, PTL

(* A direction of a TCP flow holds what its own packets make of a          *)
(* reassembler, and a UDP flow its datagrams, whatever they are            *)
(* interleaved with.                                                       *)
THEOREM FlowsHoldTheirs == Spec => []FlowsHoldTheirPackets
<1>1. IInv => FlowsHoldTheirPackets
  BY DEF IInv
<1>2. QED
  BY <1>1, Invariance, PTL

-----------------------------------------------------------------------------
(* The entry that the table holds for the conversation of a key is the     *)
(* summary of that key's flow.                                             *)
LEMMA TableEntry ==
  ASSUME NEW map,
         DOMAIN map \subseteq FlowKey,
         \A key \in DOMAIN map : Normalized(key) = key
  PROVE  /\ DOMAIN TableOf(map) = {Conversation(key) : key \in DOMAIN map}
         /\ \A key \in DOMAIN map : TableOf(map)[Conversation(key)] = Summary(map[key])
<1>1. DOMAIN TableOf(map) = {Conversation(key) : key \in DOMAIN map}
  BY DEF TableOf
<1>2. ASSUME NEW key \in DOMAIN map
      PROVE  TableOf(map)[Conversation(key)] = Summary(map[key])
  <2> DEFINE chosen == CHOOSE k \in DOMAIN map : Conversation(k) = Conversation(key)
  <2>1. chosen \in DOMAIN map /\ Conversation(chosen) = Conversation(key)
    OBVIOUS
  <2>2. chosen = key
    <3> HIDE DEF chosen
    <3>1. QED
      BY <2>1, NormalizedUnique
  <2>3. TableOf(map)[Conversation(key)] = Summary(map[chosen])
    BY <1>1 DEF TableOf
  <2>4. QED
    BY <2>2, <2>3
<1>3. QED
  BY <1>1, <1>2

(* OnPacket accounts for its packet in the table.                          *)
LEMMA OnPacketAccounts ==
  ASSUME IInv, NEW packet \in Packets, OnPacket(packet)
  PROVE  Conversations!Next
<1> DEFINE key == MakeKey(packet)
           c == Conversation(packet)
           ts == packet.timestamp_us
<1>1. /\ packet \in Packet
      /\ Conversation(key) = c
      /\ DOMAIN flows' = DOMAIN flows \cup {key}
      /\ \A k \in DOMAIN flows \ {key} : flows'[k] = flows[k]
      /\ PacketCount(FlowAt(key)) \in Nat
      /\ PacketCount(flows'[key]) = PacketCount(FlowAt(key)) + 1
      /\ flows'[key].first_seen = IF PacketCount(FlowAt(key)) = 0 THEN ts ELSE FlowAt(key).first_seen
      /\ flows'[key].last_seen = ts
      /\ key \in FlowKey
      /\ Normalized(key) = key
  BY PacketsAssumption, OnPacketEffect
<1> HIDE DEF key, c, ts
<1>2. IInv'
  BY PacketsAssumption, OnPacketKeepsIInv
<1>3. /\ DOMAIN Table = {Conversation(k) : k \in DOMAIN flows}
      /\ \A k \in DOMAIN flows : Table[Conversation(k)] = Summary(flows[k])
  BY TableEntry DEF Table, IInv, TypeOK, KeysNormalized
<1>4. /\ DOMAIN Table' = {Conversation(k) : k \in DOMAIN flows'}
      /\ \A k \in DOMAIN flows' : Table'[Conversation(k)] = Summary(flows'[k])
  <2>1. DOMAIN flows' \subseteq FlowKey
    BY <1>2 DEF IInv, TypeOK
  <2>2. \A k \in DOMAIN flows' : Normalized(k) = k
    BY <1>2 DEF IInv, KeysNormalized, Normalized, Greater
  <2>3. Table' = TableOf(flows')
    BY DEF Table, TableOf, Summary, PacketCount, Conversation
  <2>4. QED
    BY <2>1, <2>2, <2>3, TableEntry
<1>5. DOMAIN Table' = DOMAIN Table \cup {c}
  BY <1>1, <1>3, <1>4
<1>6. key \in DOMAIN flows <=> c \in DOMAIN Table
  <2>1. ASSUME NEW k \in DOMAIN flows, Conversation(k) = c
        PROVE  k = key
    BY <1>1, <2>1, NormalizedUnique DEF IInv, TypeOK, KeysNormalized
  <2>2. QED
    BY <1>1, <1>3, <2>1
<1>7. Table'[c] = Conversations!Accounted(c, ts)
  <2> DEFINE entry == IF c \in DOMAIN Table
                        THEN [count      |-> Table[c].count + 1,
                              first_seen |-> Table[c].first_seen,
                              last_seen  |-> ts]
                        ELSE [count |-> 1, first_seen |-> ts, last_seen |-> ts]
  <2>1. Table'[c] = [count |-> PacketCount(flows'[key]), first_seen |-> flows'[key].first_seen,
                     last_seen |-> flows'[key].last_seen]
    <3>1. key \in DOMAIN flows' /\ Table'[c] = Summary(flows'[key])
      BY <1>1, <1>4
    <3>2. QED
      BY <3>1 DEF Summary
  <2>2. CASE key \in DOMAIN flows
    <3>1. FlowAt(key) = flows[key] /\ PacketCount(flows[key]) >= 1
      BY <2>2 DEF FlowAt, IInv, FlowsNotEmpty
    <3>2. Table[c] = [count |-> PacketCount(flows[key]), first_seen |-> flows[key].first_seen,
                      last_seen |-> flows[key].last_seen]
      BY <1>1, <1>3, <2>2 DEF Summary
    <3>3. Table[c].count = PacketCount(flows[key]) /\ Table[c].first_seen = flows[key].first_seen
      BY <3>2
    <3>4. flows'[key].first_seen = flows[key].first_seen
          /\ PacketCount(flows'[key]) = PacketCount(flows[key]) + 1
      BY <1>1, <3>1
    <3>5. Table'[c] = entry
      BY <1>1, <1>6, <2>1, <2>2, <3>3, <3>4
    <3>6. QED
      BY <3>5 DEF Conversations!Accounted
  <2>3. CASE key \notin DOMAIN flows
    <3>1. FlowAt(key) = NewFlow(key)
      BY <2>3 DEF FlowAt
    <3>2. packet.protocol # "UNKNOWN" /\ key.protocol = packet.protocol
      BY <1>1, PacketKey DEF OnPacket, key
    <3>3. PacketCount(FlowAt(key)) = 0
      BY <1>1, <3>1, <3>2, NewFlowEffect
    <3>4. PacketCount(flows'[key]) = 1 /\ flows'[key].first_seen = ts
      BY <1>1, <3>3
    <3>5. Table'[c] = entry
      BY <1>1, <1>6, <2>1, <2>3, <3>4
    <3>6. QED
      BY <3>5 DEF Conversations!Accounted
  <2>4. QED
    BY <2>2, <2>3
<1>8. ASSUME NEW d \in DOMAIN Table, d # c
      PROVE  Table'[d] = Table[d]
  <2>1. PICK k \in DOMAIN flows : d = Conversation(k)
    BY <1>3
  <2>2. k # key
    BY <1>1, <1>8, <2>1
  <2>3. k \in DOMAIN flows' /\ flows'[k] = flows[k]
    BY <1>1, <2>2
  <2>4. QED
    BY <1>3, <1>4, <2>1, <2>3
<1>9. Table' = [d \in DOMAIN Table' |-> Table'[d]]
  BY DEF Table, TableOf
<1>10. Accounts' = Append(Accounts, Account(packet)) /\ Len(Accounts) = Len(log)
  <2>1. log \in Seq(Packet) /\ log' = Append(log, packet)
    BY PacketsAssumption, OnPacketEffect DEF IInv, TypeOK
  <2>2. Accounts' = [i \in 1..Len(log') |-> Account(log'[i])]
    BY DEF Accounts, Account, Conversation
  <2>3. Append([i \in 1..Len(log) |-> Account(log[i])], Account(packet))
          = [i \in 1..Len(log') |-> Account(log'[i])]
    BY <2>1
  <2>4. QED
    BY <2>1, <2>2, <2>3 DEF Accounts
<1>11. Accounts'[Len(Accounts) + 1] = Account(packet) /\ Len(Accounts') = Len(Accounts) + 1
  <2>1. \A i \in 1..Len(log) : Account(log[i]) \in {Account(log[j]) : j \in 1..Len(log)}
    OBVIOUS
  <2>2. Accounts \in Seq({Account(log[j]) : j \in 1..Len(log)} \cup {Account(packet)})
    BY <2>1 DEF Accounts, IInv, TypeOK
  <2>3. QED
    BY <1>10, <2>2
<1>12. Account(packet).conversation = c /\ Account(packet).time = ts
  BY DEF Account, c, ts
<1>13. Table' = [d \in DOMAIN Table \cup {c} |->
                   IF d = c THEN Conversations!Accounted(c, ts) ELSE Table[d]]
  <2> DEFINE entry == Conversations!Accounted(c, ts)
  <2>1. Table'[c] = entry
    BY <1>7
  <2> HIDE DEF entry
  <2>2. QED
    BY <1>5, <1>8, <1>9, <2>1 DEF entry
<1>14. Conversations!Capture(Account(packet))
  BY <1>10, <1>12, <1>13 DEF Conversations!Capture
<1>15. QED
  BY <1>11, <1>14 DEF Conversations!Next

(* FlowTracker implements the table of conversations: every packet is      *)
(* counted once, in the entry of its own conversation, and no other entry  *)
(* changes.                                                                *)
THEOREM Refinement == Spec => ImplementsConversationTable
<1>1. Init => Conversations!Init
  <2>1. SUFFICES ASSUME Init PROVE Accounts = <<>> /\ Table = [c \in {} |-> 0]
    BY DEF Conversations!Init
  <2>2. DOMAIN Table = {}
    <3>1. DOMAIN flows = {}
      BY <2>1 DEF Init
    <3>2. DOMAIN Table = {Conversation(key) : key \in DOMAIN flows}
      BY DEF Table, TableOf
    <3>3. QED
      BY <3>1, <3>2
  <2>3. Table = [c \in DOMAIN Table |-> Table[c]]
    BY DEF Table, TableOf
  <2>4. Accounts = <<>>
    BY <2>1 DEF Init, Accounts
  <2>5. QED
    BY <2>2, <2>3, <2>4
<1>2. IInv /\ [Next]_vars => [Conversations!Next]_Conversations!vars
  <2>1. SUFFICES ASSUME IInv, [Next]_vars
                 PROVE  Conversations!Next \/ UNCHANGED Conversations!vars
    OBVIOUS
  <2>2. ASSUME NEW packet \in Packets, OnPacket(packet)
        PROVE  Conversations!Next
    BY <2>1, <2>2, OnPacketAccounts
  <2>3. CASE UNCHANGED <<flows, log>>
    BY <2>3 DEF Conversations!vars, Accounts, Account, Table, TableOf, Summary, PacketCount,
                Conversation
  <2>4. QED
    BY <2>1, <2>2, <2>3 DEF Next, IgnorePacket, OnBarePacket, vars
<1>3. QED
  BY <1>1, <1>2, Invariance, PTL DEF Spec, Conversations!Spec, ImplementsConversationTable

-----------------------------------------------------------------------------

(* The command.                                                            *)

(* DecodeToMessages returns a vector: of any bytes, it makes messages that *)
(* are numbered from one.                                                  *)
DecodesToSequences == \A bytes \in Seq(Nat) : \E n \in Nat : DOMAIN Decode(bytes) = 1 .. n

Message == {Decode(bytes)[i] : bytes \in Seq(Nat), i \in Nat}

Events == [timestamp_us : Nat, transport : {"TCP", "UDP"}, src : Endpoint, dst : Endpoint,
           message : Message]

Captured == {capture[i] : i \in DOMAIN capture}

(* What EveryEventHasItsFrames asks for one event.                         *)
HasFrames(e) ==
  \E f, g \in Captured :
    /\ CouldBe(f, e.transport, e.src, e.dst) \/ CouldBe(f, e.transport, e.dst, e.src)
    /\ f.timestamp_us = e.timestamp_us
    /\ CouldBe(g, e.transport, e.src, e.dst)
    /\ e.transport = "UDP" => f = g

FramedEvents == {e \in Events : HasFrames(e)}

(* A handled packet comes of a frame of the capture, which could be one    *)
(* between its endpoints unless the packet has no payload; TCP packets     *)
(* without are not handled.                                                *)
HasFrame(packet) ==
  /\ \E f \in Captured :
       /\ f.timestamp_us = packet.timestamp_us
       /\ packet.has_buffer => CouldBe(f, packet.protocol, packet.src, packet.dst)
  /\ packet.protocol = "TCP" => packet.has_buffer

LogFromFrames == \A i \in DOMAIN log : HasFrame(log[i])

(* The endpoint sent one of these packets in the conversation.             *)
Sent(packets, key, from) == \E i \in DOMAIN packets : Own(packets[i], key, from)

(* A direction in which bytes arrived had a packet, the second one only in *)
(* a conversation of two endpoints, and every datagram is one of the       *)
(* conversation's packets.                                                 *)
FromLog(packets, flow, key) ==
  /\ key.protocol = "TCP" =>
       /\ flow.client_to_server.stream # <<>> => Sent(packets, key, key.src)
       /\ flow.server_to_client.stream # <<>> => key.dst # key.src /\ Sent(packets, key, key.dst)
  /\ key.protocol = "UDP" =>
       \A i \in DOMAIN flow.datagrams : \E j \in DOMAIN packets :
         packets[j] = flow.datagrams[i] /\ Conversation(packets[j]) = Conversation(key)

FlowsFromLog == \A key \in DOMAIN flows : FromLog(log, flows[key], key)

Control ==
  /\ capture \in Seq(Frames)
  /\ position \in 0 .. Len(capture)
  /\ pc \in {"start", "reading", "building", "decoding", "printing", "exited"}
  /\ exit_code \in {0, 1}
  /\ unbuilt \subseteq DOMAIN flows

(* There are events only when all frames have been read, and then each of  *)
(* them has its frames.                                                    *)
EventsOK ==
  /\ events \in Seq(FramedEvents)
  /\ pc \in {"start", "reading"} => events = <<>>

CommandInv ==
  /\ IInv
  /\ Control
  /\ LogFromFrames
  /\ FlowsFromLog
  /\ EventsOK

-----------------------------------------------------------------------------
(* Joining sequences of elements of a set makes a sequence of such.        *)
LEMMA FlattenType ==
  ASSUME NEW E, NEW ss \in Seq(Seq(E))
  PROVE  FlattenSeq(ss) \in Seq(E)
<1>1. FlattenSeq(ss) = Joined(ss)
  BY DEF FlattenSeq, Joined
<1>2. PICK joined : IsJoin(joined, ss, E) /\ Joined(ss) = joined[Len(ss)]
  BY Joining
<1>3. Len(ss) \in 0 .. Len(ss)
  OBVIOUS
<1>4. QED
  BY <1>1, <1>2, <1>3 DEF IsJoin

(* The fields of a frame, and of what memory may be read as.               *)
LEMMA FrameFields ==
  ASSUME NEW frame \in Frames
  PROVE  /\ frame.timestamp_us \in Nat /\ frame.len \in Nat /\ frame.missing \in Nat
         /\ frame.version \in Nat /\ frame.ihl \in Nat /\ frame.data_offset \in Nat
         /\ frame.proto \in STRING /\ frame.tcp_seq \in SeqNumber
         /\ frame.src \in Endpoint /\ frame.dst \in Endpoint
         /\ frame.src.ip \in Nat /\ frame.src.port \in Nat
         /\ frame.dst.ip \in Nat /\ frame.dst.port \in Nat
         /\ frame.data \in Seq(Nat) /\ frame.padding \in Seq(Nat)
         /\ CapLen(frame) \in Nat /\ CapLen(frame) <= frame.len
<1>1. /\ frame.len \in Nat /\ frame.missing \in Nat /\ frame.missing <= frame.len
      /\ frame.src \in Endpoint /\ frame.dst \in Endpoint
  BY DEF Frames
<1>2. CapLen(frame) \in Nat /\ CapLen(frame) <= frame.len
  BY <1>1 DEF CapLen
<1>3. \A e \in Endpoint : e.ip \in Nat /\ e.port \in Nat
  BY DEF Endpoint
<1>4. QED
  BY <1>1, <1>2, <1>3 DEF Frames

LEMMA MemoryFields ==
  ASSUME NEW memory \in StrayMemory
  PROVE  /\ memory.version \in Nat /\ memory.ihl \in Nat /\ memory.data_offset \in Nat
         /\ memory.proto \in STRING /\ memory.tcp_seq \in SeqNumber
         /\ memory.src.ip \in Nat /\ memory.src.port \in Nat
         /\ memory.dst.ip \in Nat /\ memory.dst.port \in Nat
         /\ memory.bytes \in Seq(Nat) /\ memory.bytes # <<>>
<1>1. memory \in Memory
  BY DecodeAssumption
<1>2. memory.src \in Endpoint /\ memory.dst \in Endpoint
  BY <1>1 DEF Memory
<1>3. \A e \in Endpoint : e.ip \in Nat /\ e.port \in Nat
  BY DEF Endpoint
<1>4. QED
  BY <1>1, <1>2, <1>3 DEF Memory

(* What is read of a header, field by field: the frame's own as far as the *)
(* record goes.                                                            *)
LEMMA SeenFields ==
  ASSUME NEW frame \in Frames, NEW memory \in StrayMemory,
         NEW seen, seen = Seen(frame, memory)
  PROVE  /\ seen.timestamp_us = frame.timestamp_us /\ seen.len = frame.len
         /\ seen.version \in Nat /\ seen.ihl \in Nat /\ seen.data_offset \in Nat
         /\ seen.proto \in STRING /\ seen.tcp_seq \in SeqNumber
         /\ seen.src \in Endpoint /\ seen.dst \in Endpoint
         /\ CapLen(frame) >= 34 =>
              /\ seen.version = frame.version /\ seen.ihl = frame.ihl /\ seen.proto = frame.proto
              /\ seen.src.ip = frame.src.ip /\ seen.dst.ip = frame.dst.ip
         /\ CapLen(frame) >= 34 /\ CapLen(frame) >= TransportOffset(frame) + 4 =>
              seen.src = frame.src /\ seen.dst = frame.dst
         /\ CapLen(frame) >= 34 /\ CapLen(frame) >= TransportOffset(frame) + 13 =>
              seen.tcp_seq = frame.tcp_seq /\ seen.data_offset = frame.data_offset
<1> DEFINE Take(end, own, stray) == IF end <= CapLen(frame) THEN own ELSE stray
           ihl == Take(15, frame.ihl, memory.ihl)
           transport == EthernetSize + ihl * 4
           At(ip, port, own, stray) ==
             [ip |-> Take(ip, own.ip, stray.ip), port |-> Take(transport + port, own.port, stray.port)]
<1>1. /\ seen.timestamp_us = frame.timestamp_us /\ seen.len = frame.len
      /\ seen.version = Take(15, frame.version, memory.version)
      /\ seen.ihl = ihl
      /\ seen.proto = Take(24, frame.proto, memory.proto)
      /\ seen.src = At(30, 2, frame.src, memory.src)
      /\ seen.dst = At(34, 4, frame.dst, memory.dst)
      /\ seen.tcp_seq = Take(transport + 8, frame.tcp_seq, memory.tcp_seq)
      /\ seen.data_offset = Take(transport + 13, frame.data_offset, memory.data_offset)
  BY DEF Seen, Frames
<1>2. /\ \A end, own, stray : Take(end, own, stray) \in {own, stray}
      /\ \A end, own, stray : end <= CapLen(frame) => Take(end, own, stray) = own
  OBVIOUS
<1>3. ihl \in Nat
  BY <1>2, FrameFields, MemoryFields
<1>4. CapLen(frame) >= 34 => /\ ihl = frame.ihl
                             /\ transport = TransportOffset(frame)
  <2>1. CapLen(frame) >= 34 => 15 <= CapLen(frame)
    BY FrameFields
  <2>2. QED
    BY <2>1 DEF TransportOffset
<1>5. transport \in Nat
  BY <1>3 DEF EthernetSize
<1> HIDE DEF Take, ihl, transport
<1>6. seen.src \in Endpoint /\ seen.dst \in Endpoint
  <2>1. \A ip, port, own, stray :
          own.ip \in Nat /\ own.port \in Nat /\ stray.ip \in Nat /\ stray.port \in Nat =>
            At(ip, port, own, stray) \in Endpoint
    BY <1>2 DEF Endpoint
  <2>2. /\ frame.src.ip \in Nat /\ frame.src.port \in Nat
        /\ frame.dst.ip \in Nat /\ frame.dst.port \in Nat
    BY FrameFields
  <2>3. /\ memory.src.ip \in Nat /\ memory.src.port \in Nat
        /\ memory.dst.ip \in Nat /\ memory.dst.port \in Nat
    BY MemoryFields
  <2>4. /\ At(30, 2, frame.src, memory.src) \in Endpoint
        /\ At(34, 4, frame.dst, memory.dst) \in Endpoint
    BY <2>1, <2>2, <2>3
  <2>5. QED
    BY <1>1, <2>4
<1>7. /\ seen.version \in Nat /\ seen.ihl \in Nat /\ seen.data_offset \in Nat
      /\ seen.proto \in STRING /\ seen.tcp_seq \in SeqNumber
  <2>1. /\ frame.version \in Nat /\ frame.data_offset \in Nat
        /\ frame.proto \in STRING /\ frame.tcp_seq \in SeqNumber
    BY FrameFields
  <2>2. /\ memory.version \in Nat /\ memory.data_offset \in Nat
        /\ memory.proto \in STRING /\ memory.tcp_seq \in SeqNumber
    BY MemoryFields
  <2>3. /\ Take(15, frame.version, memory.version) \in Nat
        /\ Take(transport + 13, frame.data_offset, memory.data_offset) \in Nat
        /\ Take(24, frame.proto, memory.proto) \in STRING
        /\ Take(transport + 8, frame.tcp_seq, memory.tcp_seq) \in SeqNumber
    BY <2>1, <2>2 DEF Take
  <2>4. QED
    BY <1>1, <1>3, <2>3
<1>8. ASSUME CapLen(frame) >= 34
      PROVE  /\ seen.version = frame.version /\ seen.ihl = frame.ihl /\ seen.proto = frame.proto
             /\ seen.src.ip = frame.src.ip /\ seen.dst.ip = frame.dst.ip
  <2>1. 15 <= CapLen(frame) /\ 24 <= CapLen(frame) /\ 30 <= CapLen(frame) /\ 34 <= CapLen(frame)
    BY <1>8, FrameFields
  <2>2. QED
    BY <1>1, <1>2, <1>4, <1>8, <2>1
<1>9. ASSUME CapLen(frame) >= 34, CapLen(frame) >= TransportOffset(frame) + 4
      PROVE  seen.src = frame.src /\ seen.dst = frame.dst
  <2>1. /\ 30 <= CapLen(frame) /\ 34 <= CapLen(frame)
        /\ transport + 2 <= CapLen(frame) /\ transport + 4 <= CapLen(frame)
    BY <1>4, <1>5, <1>9, FrameFields
  <2>2. \A e \in Endpoint : [ip |-> e.ip, port |-> e.port] = e
    BY DEF Endpoint
  <2>3. frame.src \in Endpoint /\ frame.dst \in Endpoint
    BY FrameFields
  <2>4. /\ At(30, 2, frame.src, memory.src) = [ip |-> frame.src.ip, port |-> frame.src.port]
        /\ At(34, 4, frame.dst, memory.dst) = [ip |-> frame.dst.ip, port |-> frame.dst.port]
    BY <1>2, <2>1
  <2>5. QED
    BY <1>1, <2>2, <2>3, <2>4
<1>10. ASSUME CapLen(frame) >= 34, CapLen(frame) >= TransportOffset(frame) + 13
       PROVE  seen.tcp_seq = frame.tcp_seq /\ seen.data_offset = frame.data_offset
  <2>1. transport + 8 <= CapLen(frame) /\ transport + 13 <= CapLen(frame)
    BY <1>4, <1>5, <1>10, FrameFields
  <2>2. QED
    BY <1>1, <1>2, <2>1
<1>11. QED
  BY <1>1, <1>6, <1>7, <1>8, <1>9, <1>10

(* The offsets in a frame, or in what is read of it.                       *)
LEMMA Offsets ==
  ASSUME NEW frame, frame.ihl \in Nat, frame.data_offset \in Nat
  PROVE  /\ TransportOffset(frame) \in Nat /\ TransportOffset(frame) >= 14
         /\ PayloadOffset(frame) \in Nat /\ TransportOffset(frame) <= PayloadOffset(frame)
         /\ HeadersEnd(frame)
              = TransportOffset(frame) + (IF frame.proto = "TCP" THEN 20 ELSE 8)
         /\ PayloadOffset(frame)
              = TransportOffset(frame) + (IF frame.proto = "TCP" THEN frame.data_offset * 4 ELSE 8)
<1>1. frame.ihl * 4 \in Nat /\ frame.data_offset * 4 \in Nat
  OBVIOUS
<1>2. TransportOffset(frame) = 14 + frame.ihl * 4
  BY DEF TransportOffset, EthernetSize
<1>3. PayloadOffset(frame)
        = TransportOffset(frame) + (IF frame.proto = "TCP" THEN frame.data_offset * 4 ELSE 8)
  BY DEF PayloadOffset, UdpSize
<1>4. QED
  BY <1>1, <1>2, <1>3 DEF HeadersEnd, MinTcpSize, UdpSize

(* Bytes are bytes, wherever they come from.                               *)
LEMMA ByteType ==
  ASSUME NEW frame \in Frames, NEW memory \in StrayMemory, NEW offset \in Nat
  PROVE  ByteAt(frame, memory, offset) \in Nat
<1> DEFINE bytes == frame.data \o frame.padding
           at == offset - PayloadOffset(frame) + 1
           n == Len(memory.bytes)
           size == Len(bytes)
<1>1. /\ frame.len \in Nat /\ PayloadOffset(frame) \in Nat
      /\ CapLen(frame) \in Nat /\ CapLen(frame) <= frame.len
  BY Offsets, FrameFields
<1>2. frame.data \in Seq(Nat) /\ frame.padding \in Seq(Nat)
  BY FrameFields
<1>3. bytes \in Seq(Nat)
  BY <1>2
<1>4. \/ frame.len = PayloadOffset(frame) + size
      \/ frame.len <= PayloadOffset(frame)
  <2> DEFINE data == Len(frame.data)
             padding == Len(frame.padding)
  <2>1. \/ frame.len = PayloadOffset(frame) + data + padding
        \/ frame.len <= PayloadOffset(frame)
    BY DEF Frames
  <2>2. size = data + padding
    BY <1>2
  <2>3. data \in Nat /\ padding \in Nat
    BY <1>2
  <2> HIDE DEF bytes, size, data, padding
  <2>4. QED
    BY <1>1, <2>1, <2>2, <2>3
<1> HIDE DEF bytes
<1>5. size \in Nat /\ \A i \in 1 .. size : bytes[i] \in Nat
  BY <1>3
<1> HIDE DEF size
<1>6. ASSUME offset \in PayloadOffset(frame) .. CapLen(frame) - 1 PROVE bytes[at] \in Nat
  <2>1. at \in 1 .. size
    BY <1>1, <1>4, <1>6, <1>5
  <2> HIDE DEF at
  <2>2. QED
    BY <1>5, <2>1
<1>7. memory.bytes[(offset % n) + 1] \in Nat
  <2>1. memory.bytes \in Seq(Nat) /\ n \in Nat /\ n > 0
    BY MemoryFields
  <2> HIDE DEF n
  <2>2. (offset % n) \in 0 .. n - 1
    BY <2>1
  <2>3. (offset % n) + 1 \in 1 .. n
    BY <2>1, <2>2
  <2>4. QED
    BY <2>1, <2>3 DEF n
<1>8. QED
  BY <1>6, <1>7 DEF ByteAt, bytes

(* The packet that Parse makes of a frame is what was read of it.          *)
LEMMA ParsedFields ==
  ASSUME NEW frame \in Frames, NEW packet \in Parsings(frame)
  PROVE  \E memory \in StrayMemory : \E seen :
           /\ seen = Seen(frame, memory) /\ Parseable(seen)
           /\ packet.timestamp_us = frame.timestamp_us
           /\ packet.protocol = seen.proto /\ packet.protocol \in {"TCP", "UDP"}
           /\ packet.src = seen.src /\ packet.dst = seen.dst
           /\ packet.tcp_seq = (IF seen.proto = "TCP" THEN seen.tcp_seq ELSE 0)
           /\ packet.payload = Rest(frame, memory)
           /\ packet.has_buffer = (Rest(frame, memory) # <<>>)
           /\ packet.has_buffer = (PayloadOffset(seen) < frame.len)
           /\ packet \in Packet
<1>1. PICK memory \in StrayMemory : packet = Parse(frame, memory) /\ Parseable(Seen(frame, memory))
  BY DEF Parsings
<1> DEFINE seen == Seen(frame, memory)
<1>2. seen = Seen(frame, memory)
  OBVIOUS
<1>3. /\ packet.timestamp_us = frame.timestamp_us /\ packet.protocol = seen.proto
      /\ packet.src = seen.src /\ packet.dst = seen.dst
      /\ packet.tcp_seq = (IF seen.proto = "TCP" THEN seen.tcp_seq ELSE 0)
      /\ packet.payload = Rest(frame, memory)
      /\ packet.has_buffer = (Rest(frame, memory) # <<>>)
      /\ packet = [timestamp_us |-> packet.timestamp_us, src |-> packet.src, dst |-> packet.dst,
                   protocol |-> packet.protocol, tcp_seq |-> packet.tcp_seq,
                   has_buffer |-> packet.has_buffer, payload |-> packet.payload]
  BY <1>1 DEF Parse
<1> HIDE DEF seen
<1>4. /\ seen.len = frame.len /\ seen.ihl \in Nat /\ seen.data_offset \in Nat
      /\ seen.tcp_seq \in SeqNumber /\ seen.src \in Endpoint /\ seen.dst \in Endpoint
  BY <1>2, SeenFields
<1>5. seen.proto \in {"TCP", "UDP"}
  BY <1>1, <1>2 DEF Parseable
<1>6. /\ Rest(frame, memory) \in Seq(Nat)
      /\ (Rest(frame, memory) # <<>>) = (PayloadOffset(seen) < frame.len)
  <2> DEFINE start == PayloadOffset(seen)
             n == frame.len - start
  <2>1. start \in Nat /\ frame.len \in Nat
    BY <1>4, Offsets, FrameFields
  <2>2. Rest(frame, memory)
          = IF start >= frame.len THEN <<>>
            ELSE [i \in 1 .. n |-> ByteAt(frame, memory, start + i - 1)]
    BY <1>2 DEF Rest
  <2>3. \A offset \in Nat : ByteAt(frame, memory, offset) \in Nat
    BY ByteType
  <2> HIDE DEF start
  <2>4. CASE start >= frame.len
    <3>1. Rest(frame, memory) = <<>> /\ ~(start < frame.len)
      BY <2>1, <2>2, <2>4
    <3>2. <<>> \in Seq(Nat)
      OBVIOUS
    <3>3. QED
      BY <3>1, <3>2 DEF start
  <2>5. CASE ~(start >= frame.len)
    <3>1. n \in Nat /\ n > 0
      BY <2>1, <2>5
    <3>2. \A i \in 1 .. n : start + i - 1 \in Nat
      BY <2>1, <3>1
    <3> HIDE DEF n
    <3>3. \A i \in 1 .. n : ByteAt(frame, memory, start + i - 1) \in Nat
      BY <2>3, <3>2
    <3>4. Rest(frame, memory) = [i \in 1 .. n |-> ByteAt(frame, memory, start + i - 1)]
      BY <2>2, <2>5
    <3>5. Rest(frame, memory) \in Seq(Nat) /\ Len(Rest(frame, memory)) = n
      BY <3>1, <3>3, <3>4
    <3>6. Rest(frame, memory) # <<>> /\ start < frame.len
      BY <2>1, <2>5, <3>1, <3>5
    <3>7. QED
      BY <3>5, <3>6 DEF start
  <2>6. QED
    BY <2>4, <2>5
<1>7. packet \in Packet
  <2>1. 0 \in SeqNumber
    BY SeqSpaceAssumption DEF SeqNumber
  <2>2. packet.tcp_seq \in SeqNumber
    BY <1>3, <1>4, <2>1
  <2>3. packet.protocol \in Protocol /\ packet.has_buffer \in BOOLEAN
    BY <1>3, <1>5 DEF Protocol
  <2>4. packet.timestamp_us \in Nat /\ packet.payload \in Seq(Nat)
    BY <1>3, <1>6, FrameFields
  <2>5. packet.src \in Endpoint /\ packet.dst \in Endpoint
    BY <1>3, <1>4
  <2>6. QED
    BY <1>3, <2>2, <2>3, <2>4, <2>5 DEF Packet
<1>8. QED
  BY <1>1, <1>2, <1>3, <1>5, <1>6, <1>7

(* A frame of which a packet with a payload was made could be one from the *)
(* packet's source to its destination: the headers do not overrun it.      *)
LEMMA ParsedPacket ==
  ASSUME NEW frame \in Frames, NEW packet \in Parsings(frame)
  PROVE  /\ packet \in Packet /\ packet.protocol \in {"TCP", "UDP"}
         /\ packet.timestamp_us = frame.timestamp_us
         /\ packet.has_buffer => CouldBe(frame, packet.protocol, packet.src, packet.dst)
<1>1. PICK memory \in StrayMemory : \E seen :
           /\ seen = Seen(frame, memory) /\ Parseable(seen)
           /\ packet.timestamp_us = frame.timestamp_us
           /\ packet.protocol = seen.proto /\ packet.protocol \in {"TCP", "UDP"}
           /\ packet.src = seen.src /\ packet.dst = seen.dst
           /\ packet.has_buffer = (PayloadOffset(seen) < frame.len)
           /\ packet \in Packet
  BY ParsedFields
<1> DEFINE seen == Seen(frame, memory)
<1>2. ASSUME packet.has_buffer
      PROVE  CouldBe(frame, packet.protocol, packet.src, packet.dst)
  <2>1. /\ seen.len = frame.len /\ seen.ihl \in Nat /\ seen.data_offset \in Nat
    BY <1>1, SeenFields
  <2>2. /\ TransportOffset(seen) \in Nat /\ PayloadOffset(seen) \in Nat
        /\ TransportOffset(seen) <= PayloadOffset(seen)
        /\ HeadersEnd(seen) = TransportOffset(seen) + (IF seen.proto = "TCP" THEN 20 ELSE 8)
        /\ PayloadOffset(seen)
             = TransportOffset(seen) + (IF seen.proto = "TCP" THEN seen.data_offset * 4 ELSE 8)
    BY <2>1, Offsets
  <2>3. frame.len \in Nat /\ frame.len >= 34 /\ seen.version = 4
    BY <1>1, <2>1, FrameFields DEF Parseable, EthernetSize, MinIpv4Size
  <2>4. PayloadOffset(seen) < frame.len
    BY <1>1, <1>2
  <2>5. HeadersEnd(seen) <= frame.len
    <3>1. \A n : HasRoom(seen, n) => frame.len - TransportOffset(seen) >= n
      BY <2>1, <2>2, <2>3, <2>4 DEF HasRoom, Overruns
    <3>2. \/ seen.proto = "TCP" /\ frame.len - TransportOffset(seen) >= 20
          \/ seen.proto = "UDP" /\ frame.len - TransportOffset(seen) >= 8
      BY <1>1, <3>1 DEF Parseable, MinTcpSize, UdpSize
    <3>3. QED
      BY <2>2, <2>3, <3>2
  <2>6. ASSUME CapLen(frame) >= 34
        PROVE  /\ frame.version = 4 /\ frame.proto = packet.protocol
               /\ frame.src.ip = packet.src.ip /\ frame.dst.ip = packet.dst.ip
               /\ HeadersEnd(frame) <= frame.len
               /\ CapLen(frame) >= TransportOffset(frame) + 4 =>
                    frame.src = packet.src /\ frame.dst = packet.dst
               /\ CapLen(frame) >= HeadersEnd(frame) => PayloadOffset(frame) < frame.len
    <3>1. /\ seen.version = frame.version /\ seen.ihl = frame.ihl /\ seen.proto = frame.proto
          /\ seen.src.ip = frame.src.ip /\ seen.dst.ip = frame.dst.ip
          /\ CapLen(frame) >= TransportOffset(frame) + 4 =>
               seen.src = frame.src /\ seen.dst = frame.dst
          /\ CapLen(frame) >= TransportOffset(frame) + 13 => seen.data_offset = frame.data_offset
      BY <1>1, <2>6, SeenFields
    <3>2. TransportOffset(frame) = TransportOffset(seen) /\ HeadersEnd(frame) = HeadersEnd(seen)
      BY <3>1 DEF TransportOffset, HeadersEnd
    <3>3. CapLen(frame) >= HeadersEnd(frame) => PayloadOffset(frame) = PayloadOffset(seen)
      <4>1. CASE seen.proto = "TCP"
        <5>1. CapLen(frame) >= HeadersEnd(frame) => CapLen(frame) >= TransportOffset(frame) + 13
          BY <2>2, <3>2, <4>1, FrameFields
        <5>2. QED
          BY <3>1, <3>2, <5>1 DEF PayloadOffset
      <4>2. CASE seen.proto # "TCP"
        BY <3>1, <3>2, <4>2 DEF PayloadOffset
      <4>3. QED
        BY <4>1, <4>2
    <3>4. QED
      BY <1>1, <2>3, <2>4, <2>5, <3>1, <3>2, <3>3
  <2>7. QED
    BY <2>3, <2>6 DEF CouldBe, EthernetSize, MinIpv4Size
<1>3. QED
  BY <1>1, <1>2

-----------------------------------------------------------------------------
(* What a longer log still shows.                                          *)
LEMMA FromLongerLog ==
  ASSUME NEW packets \in Seq(Packet), NEW packet, NEW flow, NEW key, FromLog(packets, flow, key)
  PROVE  FromLog(Append(packets, packet), flow, key)
<1> DEFINE more == Append(packets, packet)
<1>1. \A i \in DOMAIN packets : i \in DOMAIN more /\ more[i] = packets[i]
  OBVIOUS
<1> HIDE DEF more
<1>2. ASSUME NEW from, Sent(packets, key, from) PROVE Sent(more, key, from)
  BY <1>1, <1>2 DEF Sent
<1>3. ASSUME NEW i, \E j \in DOMAIN packets : packets[j] = i /\ Conversation(packets[j]) = Conversation(key)
      PROVE  \E j \in DOMAIN more : more[j] = i /\ Conversation(more[j]) = Conversation(key)
  BY <1>1, <1>3
<1>4. QED
  BY <1>2, <1>3 DEF FromLog, more

(* A packet goes into the flow of its conversation.                        *)
LEMMA FromLogPacket ==
  ASSUME NEW key \in FlowKey, NEW flow, FlowFor(key, flow), flow.key = key,
         NEW packets \in Seq(Packet), NEW packet \in Packet,
         Conversation(packet) = Conversation(key), FromLog(packets, flow, key)
  PROVE  FromLog(Append(packets, packet), FlowOnPacket(flow, packet), key)
<1> DEFINE after == FlowOnPacket(flow, packet)
           more == Append(packets, packet)
<1>1. \/ packet.src = key.src /\ packet.dst = key.dst
      \/ packet.src = key.dst /\ packet.dst = key.src
  BY DEF Conversation
<1>2. IF key.protocol = "TCP"
        THEN IF packet.src = key.src
               THEN /\ after.client_to_server = AddSegment(flow.client_to_server, packet)
                    /\ after.server_to_client = flow.server_to_client
               ELSE /\ after.client_to_server = flow.client_to_server
                    /\ after.server_to_client = AddSegment(flow.server_to_client, packet)
        ELSE after.datagrams = Append(flow.datagrams, packet)
  BY HeldEffect
<1>3. FromLog(more, flow, key)
  BY FromLongerLog
<1>4. \E i \in DOMAIN more : more[i] = packet
  <2>1. Len(packets) + 1 \in DOMAIN more /\ more[Len(packets) + 1] = packet
    OBVIOUS
  <2>2. QED
    BY <2>1
<1> HIDE DEF after, more
<1>5. Sent(more, key, packet.src)
  BY <1>4 DEF Sent, Own
<1>6. CASE key.protocol = "TCP"
  <2>1. after.client_to_server.stream # <<>> => Sent(more, key, key.src)
    BY <1>2, <1>3, <1>5, <1>6 DEF FromLog
  <2>2. after.server_to_client.stream # <<>> => key.dst # key.src /\ Sent(more, key, key.dst)
    BY <1>1, <1>2, <1>3, <1>5, <1>6 DEF FromLog
  <2>3. QED
    BY <1>6, <2>1, <2>2 DEF FromLog, after, more
<1>7. CASE key.protocol = "UDP"
  <2>1. flow.datagrams \in Seq(Packet) /\ after.datagrams = Append(flow.datagrams, packet)
    BY <1>2, <1>7 DEF FlowFor, UdpFlow
  <2>2. ASSUME NEW i \in DOMAIN after.datagrams
        PROVE  \E j \in DOMAIN more :
                 more[j] = after.datagrams[i] /\ Conversation(more[j]) = Conversation(key)
    <3>1. \/ i \in DOMAIN flow.datagrams /\ after.datagrams[i] = flow.datagrams[i]
          \/ after.datagrams[i] = packet
      BY <2>1, <2>2
    <3>2. QED
      BY <1>3, <1>4, <1>7, <3>1 DEF FromLog
  <2>3. QED
    BY <1>7, <2>2 DEF FromLog, after, more
<1>8. QED
  BY <1>6, <1>7 DEF FlowFor

(* After a packet, all flows are backed by the longer log.                 *)
LEMMA OnPacketKeepsFlowsFromLog ==
  ASSUME IInv, FlowsFromLog, NEW packet \in Packet, OnPacket(packet)
  PROVE  FlowsFromLog'
<1> DEFINE key == MakeKey(packet)
<1>1. /\ key \in FlowKey /\ Conversation(key) = Conversation(packet)
      /\ DOMAIN flows' = DOMAIN flows \cup {key}
      /\ \A k \in DOMAIN flows \ {key} : flows'[k] = flows[k]
      /\ log' = Append(log, packet)
  BY OnPacketEffect
<1>2. /\ FlowFor(key, FlowAt(key)) /\ FlowAt(key).key = key
      /\ flows'[key] = FlowOnPacket(FlowAt(key), packet)
  BY FlowHanded
<1> HIDE DEF key
<1>3. log \in Seq(Packet)
  BY DEF IInv, TypeOK
<1>4. FromLog(log, FlowAt(key), key)
  <2>1. CASE key \in DOMAIN flows
    BY <2>1 DEF FlowAt, FlowsFromLog
  <2>2. CASE key \notin DOMAIN flows
    <3>1. FlowAt(key) = NewFlow(key)
      BY <2>2 DEF FlowAt
    <3>2. CASE key.protocol = "TCP"
      BY <3>1, <3>2 DEF NewFlow, NewTcpFlow, NewReassembler, FromLog
    <3>3. CASE key.protocol = "UDP"
      <4>1. FlowAt(key).datagrams = <<>>
        BY <3>1, <3>3 DEF NewFlow, NewUdpFlow
      <4>2. QED
        BY <3>3, <4>1 DEF FromLog
    <3>4. QED
      BY <1>2, <3>2, <3>3 DEF FlowFor
  <2>3. QED
    BY <2>1, <2>2
<1>5. FromLog(log', flows'[key], key)
  BY <1>1, <1>2, <1>3, <1>4, FromLogPacket
<1>6. ASSUME NEW k \in DOMAIN flows, k # key PROVE FromLog(log', flows'[k], k)
  <2>1. FromLog(log, flows[k], k)
    BY DEF FlowsFromLog
  <2>2. QED
    BY <1>1, <1>3, <1>6, <2>1, FromLongerLog
<1>7. \A k \in DOMAIN flows' : FromLog(log', flows'[k], k)
  BY <1>1, <1>5, <1>6
<1>8. QED
  BY <1>7 DEF FlowsFromLog

-----------------------------------------------------------------------------
(* The events of bytes, when the capture has the frames such events need.  *)
LEMMA EventsOfType ==
  ASSUME DecodesToSequences, NEW bytes \in Seq(Nat), NEW ts \in Nat,
         NEW transport \in {"TCP", "UDP"}, NEW src \in Endpoint, NEW dst \in Endpoint,
         NEW f \in Captured, NEW g \in Captured,
         CouldBe(f, transport, src, dst) \/ CouldBe(f, transport, dst, src), f.timestamp_us = ts,
         CouldBe(g, transport, src, dst), transport = "UDP" => f = g
  PROVE  EventsOf(Decode(bytes), ts, transport, src, dst) \in Seq(FramedEvents)
<1>1. PICK n \in Nat : DOMAIN Decode(bytes) = 1 .. n
  BY DEF DecodesToSequences
<1>2. ASSUME NEW i \in 1 .. n
      PROVE  Event(ts, transport, src, dst, Decode(bytes)[i]) \in FramedEvents
  <2> DEFINE message == Decode(bytes)[i]
             e == Event(ts, transport, src, dst, message)
  <2>1. message \in Message
    BY DEF Message
  <2> HIDE DEF message
  <2>2. /\ e.timestamp_us = ts /\ e.transport = transport /\ e.src = src /\ e.dst = dst
        /\ e \in Events
    BY <2>1 DEF Event, Events
  <2> HIDE DEF e
  <2>3. HasFrames(e)
    BY <2>2 DEF HasFrames
  <2>4. QED
    BY <2>2, <2>3 DEF FramedEvents, e, message
<1>3. EventsOf(Decode(bytes), ts, transport, src, dst)
        = [i \in 1 .. n |-> Event(ts, transport, src, dst, Decode(bytes)[i])]
  BY <1>1 DEF EventsOf
<1>4. QED
  BY <1>2, <1>3

(* Of no bytes there is no event.                                          *)
LEMMA NoEvents ==
  ASSUME NEW ts, NEW transport, NEW src, NEW dst
  PROVE  EventsOf(Decode(<<>>), ts, transport, src, dst) = <<>>
<1>1. Decode(<<>>) = <<>>
  BY DecodeAssumption
<1>2. DOMAIN EventsOf(Decode(<<>>), ts, transport, src, dst) = {}
  BY <1>1 DEF EventsOf
<1>3. QED
  BY <1>1 DEF EventsOf

(* What sorting may return.                                                *)
LEMMA SortedEvents ==
  ASSUME NEW E, NEW seq \in Seq(E), NEW sorted \in Sortings(seq)
  PROVE  sorted \in Seq(E)
<1>1. PICK p \in Bijection(DOMAIN seq, DOMAIN seq) : sorted = [i \in DOMAIN seq |-> seq[p[i]]]
  BY DEF Sortings
<1>2. p \in [DOMAIN seq -> DOMAIN seq]
  BY DEF Bijection, Injection
<1>3. \A i \in DOMAIN seq : seq[p[i]] \in E
  BY <1>2
<1>4. QED
  BY <1>1, <1>3

(* A TCP flow was created for a frame between its endpoints, whose time    *)
(* its events get, and bytes of a direction came of a frame of that        *)
(* direction.                                                              *)
LEMMA TcpEventsType ==
  ASSUME DecodesToSequences, IInv, LogFromFrames, FlowsFromLog,
         NEW key \in DOMAIN flows, key.protocol = "TCP"
  PROVE  TcpEvents(flows[key]) \in Seq(FramedEvents)
<1> DEFINE flow == flows[key]
<1>1. /\ flow \in TcpFlow /\ flow.key = key /\ key \in FlowKey
  BY DEF IInv, TypeOK, KeysNormalized
<1>2. PICK first \in PacketsOf(key) : flow.first_seen = log[first].timestamp_us
  BY DEF IInv, FlowsSummariseLog
<1>3. FromLog(log, flow, key)
  BY DEF FlowsFromLog
<1> HIDE DEF flow
<1>4. /\ flow.client_to_server.stream \in Seq(Nat) /\ flow.server_to_client.stream \in Seq(Nat)
      /\ flow.first_seen \in Nat /\ key.src \in Endpoint /\ key.dst \in Endpoint
  BY <1>1 DEF TcpFlow, Reassembler, FlowKey
<1>5. ASSUME NEW i \in PacketsOf(key)
      PROVE  /\ {log[i].src, log[i].dst} = {key.src, key.dst}
             /\ \E f \in Captured : /\ f.timestamp_us = log[i].timestamp_us
                                    /\ CouldBe(f, "TCP", log[i].src, log[i].dst)
  <2>1. i \in DOMAIN log /\ {log[i].src, log[i].dst} = {key.src, key.dst}
        /\ log[i].protocol = "TCP"
    BY DEF PacketsOf, Conversation
  <2>2. HasFrame(log[i])
    BY <2>1 DEF LogFromFrames
  <2>3. QED
    BY <2>1, <2>2 DEF HasFrame
<1>6. PICK f \in Captured :
        /\ f.timestamp_us = flow.first_seen
        /\ CouldBe(f, "TCP", log[first].src, log[first].dst)
  BY <1>2, <1>5
<1>7. ASSUME NEW from \in Endpoint, NEW to \in Endpoint, {from, to} = {key.src, key.dst},
             NEW bytes \in Seq(Nat), bytes # <<>> => Sent(log, key, from)
      PROVE  EventsOf(Decode(bytes), flow.first_seen, "TCP", from, to) \in Seq(FramedEvents)
  <2>1. CASE bytes = <<>>
    <3>1. EventsOf(Decode(bytes), flow.first_seen, "TCP", from, to) = <<>>
      BY <2>1, NoEvents
    <3>2. <<>> \in Seq(FramedEvents)
      OBVIOUS
    <3>3. QED
      BY <3>1, <3>2, Zenon
  <2>2. CASE bytes # <<>>
    <3>1. PICK i \in PacketsOf(key) : log[i].src = from
      BY <1>7, <2>2 DEF Sent, Own, PacketsOf
    <3>2. PICK g \in Captured : CouldBe(g, "TCP", log[i].src, log[i].dst)
      BY <1>5
    <3>3. log[i].dst = to
      BY <1>5, <1>7, <3>1
    <3>4. CouldBe(g, "TCP", from, to)
      BY <3>1, <3>2, <3>3
    <3>5. \/ log[first].src = from /\ log[first].dst = to
          \/ log[first].src = to /\ log[first].dst = from
      BY <1>2, <1>5, <1>7
    <3>6. CouldBe(f, "TCP", from, to) \/ CouldBe(f, "TCP", to, from)
      BY <1>6, <3>5
    <3>7. QED
      BY <1>4, <1>6, <1>7, <3>4, <3>6, EventsOfType
  <2>3. QED
    BY <2>1, <2>2
<1>8. EventsOf(Decode(flow.client_to_server.stream), flow.first_seen, "TCP", key.src, key.dst)
        \in Seq(FramedEvents)
  BY <1>3, <1>4, <1>7 DEF FromLog
<1>9. EventsOf(Decode(flow.server_to_client.stream), flow.first_seen, "TCP", key.dst, key.src)
        \in Seq(FramedEvents)
  <2>1. {key.dst, key.src} = {key.src, key.dst}
    OBVIOUS
  <2>2. QED
    BY <1>3, <1>4, <1>7, <2>1 DEF FromLog
<1>10. TcpEvents(flow) \in Seq(FramedEvents)
  BY <1>1, <1>8, <1>9 DEF TcpEvents
<1>11. QED
  BY <1>10 DEF flow

(* The events of a datagram have that datagram's own frame, provided that  *)
(* it has a payload.                                                       *)
LEMMA UdpEventsType ==
  ASSUME DecodesToSequences, IInv, LogFromFrames, FlowsFromLog,
         NEW key \in DOMAIN flows, key.protocol = "UDP", ~HasBareDatagram(flows[key])
  PROVE  UdpEvents(flows[key]) \in Seq(FramedEvents)
<1> DEFINE flow == flows[key]
           shown == [i \in DOMAIN flow.datagrams |->
                       LET d == flow.datagrams[i]
                       IN  EventsOf(Decode(d.payload), d.timestamp_us, "UDP", d.src, d.dst)]
<1>1. flow \in UdpFlow /\ flow.key = key /\ ~HasBareDatagram(flow)
  BY DEF IInv, TypeOK, KeysNormalized
<1>2. FromLog(log, flow, key)
  BY DEF FlowsFromLog
<1> HIDE DEF flow
<1>3. flow.datagrams \in Seq(Packet)
  BY <1>1 DEF UdpFlow
<1>4. ASSUME NEW i \in DOMAIN flow.datagrams, NEW d, d = flow.datagrams[i]
      PROVE  EventsOf(Decode(d.payload), d.timestamp_us, "UDP", d.src, d.dst) \in Seq(FramedEvents)
  <2>1. PICK j \in DOMAIN log : log[j] = d /\ Conversation(log[j]) = Conversation(key)
    BY <1>2, <1>4 DEF FromLog
  <2>2. d.protocol = "UDP"
    BY <2>1 DEF Conversation
  <2>3. d.has_buffer
    BY <1>1, <1>4 DEF HasBareDatagram, NullPayload
  <2>4. PICK f \in Captured : f.timestamp_us = d.timestamp_us /\ CouldBe(f, "UDP", d.src, d.dst)
    BY <2>1, <2>2, <2>3 DEF LogFromFrames, HasFrame
  <2>5. d \in Packet
    BY <1>3, <1>4
  <2>6. /\ d.payload \in Seq(Nat) /\ d.timestamp_us \in Nat
        /\ d.src \in Endpoint /\ d.dst \in Endpoint
    BY <2>5 DEF Packet
  <2>7. QED
    BY <2>4, <2>6, EventsOfType
<1>5. shown \in Seq(Seq(FramedEvents))
  <2>1. \A i \in DOMAIN flow.datagrams : shown[i] \in Seq(FramedEvents)
    BY <1>4
  <2>2. \E n \in Nat : DOMAIN shown = 1 .. n
    BY <1>3
  <2>3. shown = [i \in DOMAIN shown |-> shown[i]] /\ DOMAIN shown = DOMAIN flow.datagrams
    OBVIOUS
  <2> HIDE DEF shown
  <2>4. QED
    BY <2>1, <2>2, <2>3
<1>6. FlattenSeq(shown) \in Seq(FramedEvents)
  <2> HIDE DEF shown
  <2>1. QED
    BY <1>5, FlattenType
<1>7. QED
  BY <1>6 DEF UdpEvents, flow

-----------------------------------------------------------------------------
(* The invariant holds at the start.                                       *)
LEMMA InitCommandInv ==
  ASSUME InitCommand
  PROVE  CommandInv
<1>1. IInv
  BY InitIInv DEF InitCommand
<1>2. /\ DOMAIN flows = {} /\ log = <<>> /\ position = 0 /\ pc = "start" /\ unbuilt = {}
      /\ events = <<>> /\ exit_code = 0
  BY DEF InitCommand, Init
<1>3. capture \in Seq(Frames)
  <2>1. <<>> \in Seq(Frames)
    OBVIOUS
  <2>2. capture \in Captures \/ capture = <<>>
    BY DEF InitCommand
  <2>3. QED
    BY <2>1, <2>2, DecodeAssumption
<1>4. Control
  <2>1. Len(capture) \in Nat
    BY <1>3
  <2>2. QED
    BY <1>2, <1>3, <2>1 DEF Control
<1>5. LogFromFrames /\ FlowsFromLog
  <2>1. DOMAIN log = {}
    BY <1>2
  <2>2. QED
    BY <1>2, <2>1 DEF LogFromFrames, FlowsFromLog
<1>6. EventsOK
  <2>1. <<>> \in Seq(FramedEvents)
    OBVIOUS
  <2>2. QED
    BY <1>2, <2>1 DEF EventsOK
<1>7. QED
  BY <1>1, <1>4, <1>5, <1>6 DEF CommandInv

(* The steps that leave tracker and capture alone.                         *)
LEMMA TrackerUntouched ==
  ASSUME CommandInv, UNCHANGED <<flows, log, capture>>, crashed' \in BOOLEAN
  PROVE  IInv' /\ LogFromFrames' /\ FlowsFromLog' /\ FramedEvents' = FramedEvents
<1>1. IInv'
  BY CrashKeepsIInv DEF CommandInv
<1>2. Captured' = Captured
  BY DEF Captured
<1>3. FramedEvents' = FramedEvents
  <2>1. \A e : HasFrames(e)' <=> HasFrames(e)
    BY <1>2 DEF HasFrames
  <2>2. QED
    BY <2>1 DEF FramedEvents, Events, Message
<1>4. LogFromFrames'
  <2>1. \A i \in DOMAIN log : HasFrame(log[i])
    BY DEF CommandInv, LogFromFrames
  <2>2. \A packet : HasFrame(packet) => HasFrame(packet)'
    BY <1>2 DEF HasFrame
  <2>3. QED
    BY <2>1, <2>2 DEF LogFromFrames, HasFrame
<1>5. FlowsFromLog'
  <2>1. \A key \in DOMAIN flows : FromLog(log, flows[key], key)
    BY DEF CommandInv, FlowsFromLog
  <2>2. \A key \in DOMAIN flows' : FromLog(log', flows'[key], key)
    BY <2>1
  <2>3. QED
    BY <2>2 DEF FlowsFromLog
<1>6. QED
  BY <1>1, <1>3, <1>4, <1>5

(* A packet that is handled comes of the frame just read.                  *)
LEMMA OnPacketKeepsLogFromFrames ==
  ASSUME CommandInv, capture' = capture, NEW frame \in Captured,
         NEW packet \in Parsings(frame), OnPacket(packet)
  PROVE  LogFromFrames'
<1>1. frame \in Frames
  BY DEF Captured, CommandInv, Control
<1>2. HasFrame(packet)
  <2>1. /\ packet.timestamp_us = frame.timestamp_us
        /\ packet.has_buffer => CouldBe(frame, packet.protocol, packet.src, packet.dst)
    BY <1>1, ParsedPacket
  <2>2. packet.protocol = "TCP" => packet.has_buffer
    BY DEF OnPacket, NullPayload
  <2>3. QED
    BY <2>1, <2>2 DEF HasFrame
<1>3. log \in Seq(Packet) /\ log' = Append(log, packet)
  BY DEF CommandInv, IInv, TypeOK, OnPacket
<1>4. ASSUME NEW i \in DOMAIN log'
      PROVE  HasFrame(log'[i])
  <2>1. \/ i \in DOMAIN log /\ log'[i] = log[i]
        \/ log'[i] = packet
    BY <1>3, <1>4
  <2>2. QED
    BY <1>2, <2>1 DEF CommandInv, LogFromFrames
<1>5. Captured' = Captured
  BY DEF Captured
<1>6. \A p : HasFrame(p) => HasFrame(p)'
  BY <1>5 DEF HasFrame
<1>7. QED
  BY <1>4, <1>6 DEF LogFromFrames, HasFrame

(* Reading a record.                                                       *)
LEMMA ReadRecordStep ==
  ASSUME CommandInv, ReadRecord
  PROVE  CommandInv'
<1> DEFINE frame == capture[position + 1]
<1>1. /\ pc = "reading" /\ pc' = pc /\ capture' = capture /\ unbuilt' = unbuilt
      /\ events' = events /\ exit_code' = exit_code
      /\ position < Len(capture) /\ position' = position + 1
  BY DEF ReadRecord
<1>2. /\ capture \in Seq(Frames) /\ position \in 0 .. Len(capture)
      /\ exit_code \in {0, 1} /\ unbuilt \subseteq DOMAIN flows /\ events = <<>>
  BY <1>1 DEF CommandInv, Control, EventsOK
<1>3. frame \in Captured /\ frame \in Frames
  BY <1>1, <1>2 DEF Captured
<1>4. EventsOK'
  <2>1. <<>> \in Seq(FramedEvents')
    OBVIOUS
  <2>2. QED
    BY <1>1, <1>2, <2>1 DEF EventsOK
<1>5. IInv' /\ LogFromFrames' /\ FlowsFromLog' /\ DOMAIN flows \subseteq DOMAIN flows'
  <2>1. \/ \E packet \in Parsings(frame) : OnPacket(packet)
        \/ UNCHANGED <<flows, log>> /\ crashed' \in BOOLEAN
    BY DEF ReadRecord, OnBarePacket, vars, CommandInv, IInv, TypeOK
  <2> HIDE DEF frame
  <2>2. CASE UNCHANGED <<flows, log>> /\ crashed' \in BOOLEAN
    BY <1>1, <2>2, TrackerUntouched
  <2>3. ASSUME NEW packet \in Parsings(frame), OnPacket(packet)
        PROVE  IInv' /\ LogFromFrames' /\ FlowsFromLog' /\ DOMAIN flows \subseteq DOMAIN flows'
    <3>1. packet \in Packet
      BY <1>3, <2>3, ParsedPacket
    <3>2. IInv' /\ FlowsFromLog' /\ DOMAIN flows \subseteq DOMAIN flows'
      BY <2>3, <3>1, OnPacketKeepsIInv, OnPacketKeepsFlowsFromLog, OnPacketEffect DEF CommandInv
    <3>3. LogFromFrames'
      BY <1>1, <1>3, <2>3, OnPacketKeepsLogFromFrames
    <3>4. QED
      BY <3>2, <3>3
  <2>4. QED
    BY <2>1, <2>2, <2>3
<1>6. Control'
  BY <1>1, <1>2, <1>5 DEF Control
<1>7. QED
  BY <1>4, <1>5, <1>6 DEF CommandInv

(* Building the events of a flow.                                          *)
LEMMA BuildFlowStep ==
  ASSUME DecodesToSequences, CommandInv, BuildFlow
  PROVE  CommandInv'
<1>1. /\ pc = "building" /\ UNCHANGED <<flows, log, capture, position, exit_code>>
      /\ ~crashed
  BY DEF BuildFlow
<1>2. PICK key \in unbuilt :
        /\ unbuilt' = unbuilt \ {key}
        /\ pc' = pc \/ pc' = "decoding"
        /\ crashed' = crashed \/ crashed' = TRUE
        /\ \/ /\ ~HasBareDatagram(flows[key])
              /\ events' = events \o (IF key.protocol = "TCP" THEN TcpEvents(flows[key])
                                                              ELSE UdpEvents(flows[key]))
           \/ UNCHANGED events
  BY DEF BuildFlow
<1>3. key \in DOMAIN flows /\ events \in Seq(FramedEvents)
      /\ (key.protocol = "TCP" \/ key.protocol = "UDP")
  BY DEF CommandInv, Control, EventsOK, IInv, TypeOK
<1>4. crashed' \in BOOLEAN
  BY <1>1, <1>2 DEF CommandInv, IInv, TypeOK
<1>5. IInv' /\ LogFromFrames' /\ FlowsFromLog' /\ FramedEvents' = FramedEvents
  BY <1>1, <1>4, TrackerUntouched
<1>6. events' \in Seq(FramedEvents)
  <2>1. CASE UNCHANGED events
    BY <1>3, <2>1
  <2>2. ASSUME ~HasBareDatagram(flows[key]),
               events' = events \o (IF key.protocol = "TCP" THEN TcpEvents(flows[key])
                                                            ELSE UdpEvents(flows[key]))
        PROVE  events' \in Seq(FramedEvents)
    <3> DEFINE added == IF key.protocol = "TCP" THEN TcpEvents(flows[key]) ELSE UdpEvents(flows[key])
    <3>1. added \in Seq(FramedEvents)
      <4>1. CASE key.protocol = "TCP"
        BY <1>3, <4>1, TcpEventsType DEF CommandInv
      <4>2. CASE key.protocol = "UDP"
        BY <1>3, <2>2, <4>2, UdpEventsType DEF CommandInv
      <4>3. QED
        BY <1>3, <4>1, <4>2
    <3>2. events' = events \o added
      BY <2>2
    <3> HIDE DEF added
    <3>3. QED
      BY <1>3, <3>1, <3>2
  <2>3. QED
    BY <1>2, <2>1, <2>2
<1>7. EventsOK'
  BY <1>1, <1>2, <1>5, <1>6 DEF EventsOK
<1>8. Control'
  BY <1>1, <1>2 DEF CommandInv, Control
<1>9. QED
  BY <1>5, <1>7, <1>8 DEF CommandInv

(* The steps that only move the command on.                                *)
LEMMA ControlStep ==
  ASSUME CommandInv, Refuse \/ StartReading \/ EndOfCapture \/ SortEvents \/ PrintTimeline
                       \/ UNCHANGED allVars
  PROVE  CommandInv'
<1>1. UNCHANGED <<flows, crashed, log, capture, position>>
  BY DEF Refuse, StartReading, EndOfCapture, SortEvents, PrintTimeline, allVars
<1>2. crashed' \in BOOLEAN
  BY <1>1 DEF CommandInv, IInv, TypeOK
<1>3. IInv' /\ LogFromFrames' /\ FlowsFromLog' /\ FramedEvents' = FramedEvents
  BY <1>1, <1>2, TrackerUntouched
<1>4. Control'
  BY <1>1 DEF CommandInv, Control, Refuse, StartReading, EndOfCapture, SortEvents, PrintTimeline,
              allVars
<1>5. EventsOK'
  <2>1. CASE SortEvents
    <3>1. events' \in Seq(FramedEvents) /\ pc' = "printing"
      BY <2>1, SortedEvents DEF SortEvents, CommandInv, EventsOK
    <3>2. QED
      BY <1>3, <3>1 DEF EventsOK
  <2>2. CASE Refuse
    <3>1. events = <<>> /\ events' = events
      BY <2>2 DEF Refuse, CommandInv, EventsOK
    <3>2. QED
      BY <1>3, <3>1 DEF CommandInv, EventsOK
  <2>3. CASE StartReading \/ EndOfCapture \/ PrintTimeline \/ UNCHANGED allVars
    BY <1>3, <2>3 DEF StartReading, EndOfCapture, PrintTimeline, allVars, CommandInv, EventsOK
  <2>4. QED
    BY <2>1, <2>2, <2>3
<1>6. QED
  BY <1>3, <1>4, <1>5 DEF CommandInv

(* The inductive invariant holds in every reachable state.                 *)
THEOREM CommandInvariance ==
  ASSUME DecodesToSequences
  PROVE  SpecCommand => []CommandInv
<1>1. InitCommand => CommandInv
  BY InitCommandInv
<1>2. CommandInv /\ [NextCommand]_allVars => CommandInv'
  BY ReadRecordStep, BuildFlowStep, ControlStep DEF NextCommand
<1>3. QED
  BY <1>1, <1>2, PTL DEF SpecCommand

(* The tracker's state keeps its types under the whole command, and Build  *)
(* only visits flows that are there.                                       *)
THEOREM CommandTypeCorrect ==
  ASSUME DecodesToSequences
  PROVE  SpecCommand => []CommandTypeOK
<1>1. CommandInv => CommandTypeOK
  BY DEF CommandInv, IInv, Control, EventsOK, CommandTypeOK, FramedEvents, Events
<1>2. QED
  BY <1>1, CommandInvariance, PTL

(* PcapReader, PacketParser, FlowTracker and TimelineBuilder together put  *)
(* nothing into the timeline that no frame of the capture accounts for,    *)
(* however the headers of its records lie and whatever is in memory behind *)
(* them.                                                                   *)
THEOREM EventsHaveFrames ==
  ASSUME DecodesToSequences
  PROVE  SpecCommand => []EveryEventHasItsFrames
<1>1. CommandInv => EveryEventHasItsFrames
  <2>1. SUFFICES ASSUME CommandInv PROVE EveryEventHasItsFrames
    OBVIOUS
  <2>2. \A i \in DOMAIN events : HasFrames(events[i])
    BY <2>1 DEF CommandInv, EventsOK, FramedEvents
  <2>3. QED
    BY <2>2 DEF HasFrames, Captured, EveryEventHasItsFrames
<1>2. QED
  BY <1>1, CommandInvariance, PTL

-----------------------------------------------------------------------------
(* From the frames of the capture to the events of the timeline.  Times    *)
(* may be equal and the flow table has any order, so what is compared are  *)
(* values and how often they occur: functions that have the same values    *)
(* (SharedLemmas).  Each stage is traced back to the capture by a part of  *)
(* the invariant TracedInv: the log of the packets to the frames that were *)
(* read, the timeline to the flows that were visited.                      *)

(* Functions of two parts each.                                            *)
LEMMA SameUnion ==
  ASSUME NEW A, NEW B, A \cap B = {}, NEW F, DOMAIN F = A \cup B,
         NEW C, NEW D, C \cap D = {}, NEW G, DOMAIN G = C \cup D,
         SameValues(Restrict(F, A), Restrict(G, C)),
         SameValues(Restrict(F, B), Restrict(G, D))
  PROVE  SameValues(F, G)
<1>1. PICK c : Matches(c, Restrict(F, A), Restrict(G, C))
  BY DEF SameValues
<1>2. PICK d : Matches(d, Restrict(F, B), Restrict(G, D))
  BY DEF SameValues
<1>3. /\ c \in [A -> C]
      /\ \A x, y \in A : c[x] = c[y] => x = y
      /\ \A z \in C : \E x \in A : c[x] = z
      /\ \A x \in A : G[c[x]] = F[x]
  BY <1>1 DEF Matches, Restrict
<1>4. /\ d \in [B -> D]
      /\ \A x, y \in B : d[x] = d[y] => x = y
      /\ \A z \in D : \E x \in B : d[x] = z
      /\ \A x \in B : G[d[x]] = F[x]
  BY <1>2 DEF Matches, Restrict
<1> DEFINE e == [x \in A \cup B |-> IF x \in A THEN c[x] ELSE d[x]]
<1>5. /\ \A x \in A : e[x] = c[x] /\ c[x] \in C /\ c[x] \notin D
      /\ \A x \in B : e[x] = d[x] /\ d[x] \in D /\ d[x] \notin C
  BY <1>3, <1>4
<1>6. e \in [DOMAIN F -> DOMAIN G]
  BY <1>5
<1> HIDE DEF e
<1>7. \A x, y \in DOMAIN F : e[x] = e[y] => x = y
  BY <1>3, <1>4, <1>5
<1>8. \A z \in DOMAIN G : \E x \in DOMAIN F : e[x] = z
  BY <1>3, <1>4, <1>5
<1>9. \A x \in DOMAIN F : G[e[x]] = F[x]
  BY <1>3, <1>4, <1>5
<1>10. Matches(e, F, G)
  BY <1>6, <1>7, <1>8, <1>9 DEF Matches
<1>11. QED
  BY <1>10 DEF SameValues

(* The same values, the same bag.                                          *)
LEMMA SameBag ==
  ASSUME NEW f, NEW g, SameValues(f, g), IsFiniteSet(DOMAIN f)
  PROVE  BagOf(f) = BagOf(g)
<1>1. PICK c : Matches(c, f, g)
  BY DEF SameValues
<1>2. {f[i] : i \in DOMAIN f} = {g[i] : i \in DOMAIN g}
  BY <1>1 DEF Matches
<1>3. ASSUME NEW v
      PROVE  Cardinality({i \in DOMAIN f : f[i] = v}) = Cardinality({i \in DOMAIN g : g[i] = v})
  <2> DEFINE A == {i \in DOMAIN f : f[i] = v}
             B == {i \in DOMAIN g : g[i] = v}
             d == [x \in A |-> c[x]]
  <2>1. IsFiniteSet(A)
    BY FS_Subset
  <2>2. d \in [A -> B]
    BY <1>1 DEF Matches
  <2>3. \A x, y \in A : d[x] = d[y] => x = y
    BY <1>1 DEF Matches
  <2>4. \A z \in B : \E x \in A : d[x] = z
    BY <1>1 DEF Matches
  <2> HIDE DEF A, B, d
  <2>5. ExistsBijection(A, B)
    BY <2>2, <2>3, <2>4 DEF ExistsBijection, Bijection, Injection, Surjection, IsInjective
  <2>6. QED
    BY <2>1, <2>5, FS_Bijection DEF A, B
<1>4. QED
  BY <1>2, <1>3 DEF BagOf

(* A part of a finite function has a part of its bag.                      *)
LEMMA PartBag ==
  ASSUME NEW f, NEW g, IsFiniteSet(DOMAIN g),
         \A i \in DOMAIN f : i \in DOMAIN g /\ g[i] = f[i]
  PROVE  BagOf(f) \sqsubseteq BagOf(g)
<1>1. {f[i] : i \in DOMAIN f} \subseteq {g[i] : i \in DOMAIN g}
  OBVIOUS
<1>2. ASSUME NEW v
      PROVE  Cardinality({i \in DOMAIN f : f[i] = v}) <= Cardinality({i \in DOMAIN g : g[i] = v})
  <2>1. {i \in DOMAIN f : f[i] = v} \subseteq {i \in DOMAIN g : g[i] = v}
    OBVIOUS
  <2>2. IsFiniteSet({i \in DOMAIN g : g[i] = v})
    BY FS_Subset
  <2>3. QED
    BY <2>1, <2>2, FS_Subset
<1>3. QED
  BY <1>1, <1>2 DEF BagOf, \sqsubseteq

(* A joined sequence has the values of its parts.                          *)
LEMMA SameJoined ==
  ASSUME NEW E, NEW ss \in Seq(Seq(E))
  PROVE  SameValues(Spread(ss), FlattenSeq(ss))
<1> DEFINE n == Len(ss)
<1>1. FlattenSeq(ss) = Joined(ss)
  BY DEF FlattenSeq, Joined
<1>2. PICK joined : IsJoin(joined, ss, E) /\ Joined(ss) = joined[Len(ss)]
  BY Joining
<1>3. /\ n \in Nat /\ DOMAIN ss = 1 .. n
      /\ \A i \in 0 .. n : joined[i] \in Seq(E) /\ Len(joined[i]) \in Nat
      /\ \A i \in 1 .. n : ss[i] \in Seq(E) /\ Len(ss[i]) \in Nat /\ DOMAIN ss[i] = 1 .. Len(ss[i])
                           /\ i - 1 \in 0 .. n /\ i \in 0 .. n
  BY <1>2 DEF IsJoin
<1>4. \A i \in 1 .. n : /\ joined[i] = joined[i - 1] \o ss[i]
                        /\ Len(joined[i]) = Len(joined[i - 1]) + Len(ss[i])
                        /\ \A q \in 1 .. Len(ss[i]) : joined[i][Len(joined[i - 1]) + q] = ss[i][q]
  <2>1. ASSUME NEW i \in 1 .. n
        PROVE  /\ joined[i] = joined[i - 1] \o ss[i]
               /\ Len(joined[i]) = Len(joined[i - 1]) + Len(ss[i])
               /\ \A q \in 1 .. Len(ss[i]) : joined[i][Len(joined[i - 1]) + q] = ss[i][q]
    <3> DEFINE a == joined[i - 1]
               b == ss[i]
    <3>1. joined[i] = a \o b
      BY <1>2 DEF IsJoin
    <3>2. a \in Seq(E) /\ b \in Seq(E)
      BY <1>3
    <3> HIDE DEF a, b
    <3>3. Len(a \o b) = Len(a) + Len(b) /\ \A q \in 1 .. Len(b) : (a \o b)[Len(a) + q] = b[q]
      BY <3>2
    <3>4. QED
      BY <3>1, <3>3 DEF a, b
  <2>2. QED
    BY <2>1
<1>5. \A i \in 0 .. n : \A j \in i .. n :
        /\ Len(joined[i]) <= Len(joined[j])
        /\ \A p \in 1 .. Len(joined[i]) : joined[j][p] = joined[i][p]
  BY <1>2, JoinParts
<1>6. Len(joined[0]) = 0 /\ n \in 0 .. n
  BY <1>2, <1>3 DEF IsJoin
<1> DEFINE S == DOMAIN Spread(ss)
           T == 1 .. Len(joined[n])
           d == [p \in S |-> Len(joined[p[1] - 1]) + p[2]]
<1>7. /\ DOMAIN FlattenSeq(ss) = T /\ FlattenSeq(ss) = joined[n]
  BY <1>1, <1>2, <1>3, <1>6
<1> HIDE DEF n
<1>8. ASSUME NEW p \in S
      PROVE  /\ p = <<p[1], p[2]>> /\ p[1] \in 1 .. n /\ p[2] \in 1 .. Len(ss[p[1]])
             /\ Spread(ss)[p] = ss[p[1]][p[2]]
  BY <1>3, SpreadAt
<1>9. ASSUME NEW p \in S
      PROVE  /\ d[p] \in T /\ joined[n][d[p]] = Spread(ss)[p]
             /\ d[p] > Len(joined[p[1] - 1]) /\ d[p] <= Len(joined[p[1]])
  <2> DEFINE i == p[1]
             q == p[2]
  <2>1. i \in 1 .. n /\ q \in 1 .. Len(ss[i]) /\ Spread(ss)[p] = ss[i][q]
    BY <1>8
  <2>2. d[p] = Len(joined[i - 1]) + q
    OBVIOUS
  <2> HIDE DEF i, q, d, S
  <2>3. /\ Len(joined[i]) = Len(joined[i - 1]) + Len(ss[i])
        /\ joined[i][Len(joined[i - 1]) + q] = ss[i][q]
        /\ Len(joined[i - 1]) \in Nat /\ Len(joined[i]) \in Nat /\ Len(ss[i]) \in Nat
    BY <1>3, <1>4, <2>1
  <2>4. Len(joined[i]) <= Len(joined[n]) /\ \A k \in 1 .. Len(joined[i]) : joined[n][k] = joined[i][k]
    BY <1>3, <1>5, <2>1
  <2>5. Len(joined[n]) \in Nat
    BY <1>3, <1>6
  <2> DEFINE start == Len(joined[i - 1])
             end == Len(joined[i])
             more == Len(ss[i])
             whole == Len(joined[n])
  <2>6. d[p] \in 1 .. end /\ d[p] > start /\ d[p] <= end /\ d[p] \in 1 .. whole
    <3>1. /\ start \in Nat /\ end \in Nat /\ more \in Nat /\ whole \in Nat /\ q \in 1 .. more
          /\ end = start + more /\ d[p] = start + q /\ end <= whole
      BY <2>1, <2>2, <2>3, <2>4, <2>5
    <3> HIDE DEF start, end, more, whole
    <3>2. QED
      BY <3>1
  <2>7. joined[n][d[p]] = Spread(ss)[p]
    BY <2>1, <2>2, <2>3, <2>4, <2>6
  <2>8. QED
    BY <2>6, <2>7 DEF i
<1>10. d \in [S -> T] /\ \A p \in S : d[p] = Len(joined[p[1] - 1]) + p[2]
  <2>1. \A p \in S : Len(joined[p[1] - 1]) + p[2] \in T
    BY <1>9
  <2>2. QED
    BY <2>1
<1> HIDE DEF d, S, T
<1>11. ASSUME NEW p \in S, NEW q \in S, p[1] < q[1] PROVE d[p] # d[q]
  <2>1. p[1] \in 1 .. n /\ q[1] \in 1 .. n
    BY <1>8
  <2>2. p[1] \in 0 .. n /\ q[1] - 1 \in p[1] .. n
    BY <1>3, <1>11, <2>1
  <2>3. Len(joined[p[1]]) <= Len(joined[q[1] - 1])
    BY <1>5, <2>2
  <2>4. d[p] <= Len(joined[p[1]]) /\ d[q] > Len(joined[q[1] - 1])
    BY <1>9
  <2>5. Len(joined[p[1]]) \in Nat /\ Len(joined[q[1] - 1]) \in Nat
    BY <1>3, <2>1
  <2>6. d[p] \in Nat /\ d[q] \in Nat
    BY <1>9 DEF T
  <2>7. QED
    BY <2>3, <2>4, <2>5, <2>6
<1>12. ASSUME NEW p \in S, NEW q \in S, d[p] = d[q] PROVE p = q
  <2>1. p[1] \in 1 .. n /\ q[1] \in 1 .. n /\ p = <<p[1], p[2]>> /\ q = <<q[1], q[2]>>
    BY <1>8
  <2>2. p[1] = q[1]
    BY <1>3, <1>11, <1>12, <2>1
  <2>3. /\ Len(joined[p[1] - 1]) \in Nat /\ Len(ss[p[1]]) \in Nat
        /\ p[2] \in 1 .. Len(ss[p[1]]) /\ q[2] \in 1 .. Len(ss[p[1]])
    BY <1>3, <1>8, <2>1, <2>2
  <2>4. Len(joined[p[1] - 1]) + p[2] = Len(joined[p[1] - 1]) + q[2]
    BY <1>10, <1>12, <2>2
  <2>5. p[2] = q[2]
    BY <2>3, <2>4
  <2>6. QED
    BY <2>1, <2>2, <2>5
<1>13. ASSUME NEW z \in T PROVE \E p \in S : d[p] = z
  <2> DEFINE U == {i \in 0 .. n : z <= Len(joined[i])}
  <2>1. z \in Nat /\ z >= 1 /\ n \in U
    BY <1>3, <1>6 DEF T
  <2>2. PICK i \in U : \A j \in U : i <= j
    <3>1. U \subseteq Nat /\ U # {}
      BY <1>3, <2>1
    <3> HIDE DEF U
    <3>2. QED
      BY <3>1, LeastElement
  <2>3. i # 0
    BY <1>6, <2>1, <2>2
  <2>4. i \in 1 .. n /\ i - 1 \in 0 .. n
    BY <1>3, <2>2, <2>3
  <2>5. i - 1 \notin U
    BY <1>3, <2>2, <2>4
  <2>6. Len(joined[i]) \in Nat /\ Len(joined[i - 1]) \in Nat /\ Len(ss[i]) \in Nat
    BY <1>3, <2>4
  <2>7. z <= Len(joined[i]) /\ z > Len(joined[i - 1])
    BY <2>1, <2>2, <2>4, <2>5, <2>6
  <2>8. Len(joined[i]) = Len(joined[i - 1]) + Len(ss[i])
    BY <1>4, <2>4
  <2> DEFINE start == Len(joined[i - 1])
             end == Len(joined[i])
             more == Len(ss[i])
             q == z - start
  <2>9. q \in 1 .. more /\ start + q = z
    <3> HIDE DEF start, end, more
    <3>1. start \in Nat /\ end \in Nat /\ more \in Nat /\ z <= end /\ z > start /\ end = start + more
      BY <2>6, <2>7, <2>8 DEF start, end, more
    <3>2. QED
      BY <2>1, <3>1
  <2> HIDE DEF q, U
  <2>10. i \in DOMAIN ss /\ q \in DOMAIN ss[i]
    BY <1>3, <2>4, <2>9
  <2>11. <<i, q>> \in S
    BY <2>10, SpreadAt DEF S
  <2>12. d[<<i, q>>] = z
    BY <1>10, <2>9, <2>11
  <2>13. QED
    BY <2>11, <2>12
<1>14. \A p \in S : FlattenSeq(ss)[d[p]] = Spread(ss)[p]
  BY <1>7, <1>9
<1>15. Matches(d, Spread(ss), FlattenSeq(ss))
  <2>1. DOMAIN FlattenSeq(ss) = T /\ DOMAIN Spread(ss) = S
    BY <1>7 DEF S
  <2>2. d \in [S -> T]
    BY <1>10
  <2>3. QED
    BY <1>12, <1>13, <1>14, <2>1, <2>2 DEF Matches
<1>16. QED
  BY <1>15 DEF SameValues

(* More values, one more part.                                             *)
LEMMA FlattenAppend ==
  ASSUME NEW E, NEW ss \in Seq(Seq(E)), NEW s \in Seq(E)
  PROVE  FlattenSeq(Append(ss, s)) = FlattenSeq(ss) \o s
<1> DEFINE n == Len(ss)
           more == Append(ss, s)
<1>1. /\ n \in Nat /\ more \in Seq(Seq(E)) /\ Len(more) = n + 1 /\ more[n + 1] = s
      /\ [j \in 1 .. n |-> more[j]] = ss
  OBVIOUS
<1> HIDE DEF more
<1>2. PICK joined : /\ IsJoin(joined, more, E)
                    /\ \A i \in 0 .. Len(more) : Joined([j \in 1 .. i |-> more[j]]) = joined[i]
                    /\ Joined(more) = joined[Len(more)]
  BY <1>1, Joining
<1>3. n \in 0 .. Len(more) /\ n + 1 \in 1 .. Len(more) /\ (n + 1) - 1 = n
  BY <1>1
<1>4. Joined(ss) = joined[n]
  BY <1>1, <1>2, <1>3
<1>5. joined[n + 1] = joined[n] \o s
  BY <1>1, <1>2, <1>3 DEF IsJoin
<1>6. \A tt : FlattenSeq(tt) = Joined(tt)
  BY DEF FlattenSeq, Joined
<1>7. QED
  BY <1>1, <1>2, <1>4, <1>5, <1>6 DEF more

-----------------------------------------------------------------------------
(* The frames between two endpoints, one by one.                           *)
Chosen(seq, frame, proto, from, to) ==
  IF Between(frame, proto, from, to) THEN Append(seq, frame) ELSE seq

(* The recursive function that FramesOf defines.                           *)
IsChoosing(f, frames, proto, from, to) ==
  f = [n \in 0 .. Len(frames) |-> IF n = 0 THEN <<>> ELSE Chosen(f[n - 1], frames[n], proto, from, to)]

(* What FramesOf yields is the last value of such a function.              *)
LEMMA ChoosingExists ==
  ASSUME NEW frames \in Seq(Frames), NEW proto, NEW from, NEW to
  PROVE  \E f : /\ IsChoosing(f, frames, proto, from, to)
                /\ f \in [0 .. Len(frames) -> Seq(Frames)]
                /\ FramesOf(frames, proto, from, to) = f[Len(frames)]
<1> DEFINE n == Len(frames)
           step == [i \in 1 .. n |-> [s \in Seq(Frames) |-> Chosen(s, frames[i], proto, from, to)]]
           chosen == CHOOSE f : IsChoosing(f, frames, proto, from, to)
<1>1. n \in Nat /\ \A i \in 1 .. n : frames[i] \in Frames
  OBVIOUS
<1>2. step \in [1 .. n -> [Seq(Frames) -> Seq(Frames)]]
  <2>1. \A i \in 1 .. n : \A s \in Seq(Frames) : Chosen(s, frames[i], proto, from, to) \in Seq(Frames)
    <3>1. ASSUME NEW i \in 1 .. n, NEW s \in Seq(Frames)
          PROVE  Chosen(s, frames[i], proto, from, to) \in Seq(Frames)
      <4>1. frames[i] \in Frames
        BY <1>1
      <4>2. Append(s, frames[i]) \in Seq(Frames)
        BY <4>1
      <4>3. QED
        BY <4>2 DEF Chosen
    <3>2. QED
      BY <3>1
  <2>2. QED
    BY <2>1
<1>3. PICK g : IsFold(g, Seq(Frames), n, <<>>, step)
  <2> HIDE DEF step
  <2>1. <<>> \in Seq(Frames)
    OBVIOUS
  <2>2. QED
    BY <1>1, <1>2, <2>1, Fold
<1>4. /\ g \in [0 .. n -> Seq(Frames)] /\ g[0] = <<>>
      /\ \A i \in 1 .. n : g[i] = step[i][g[i - 1]]
  <2> HIDE DEF step
  <2>1. QED
    BY <1>3 DEF IsFold
<1>5. ASSUME NEW i \in 1 .. n
      PROVE  g[i] = Chosen(g[i - 1], frames[i], proto, from, to)
  <2>1. i - 1 \in 0 .. n
    BY <1>1
  <2>2. g[i - 1] \in Seq(Frames)
    BY <1>4, <2>1
  <2>3. QED
    BY <1>4, <2>2
<1>6. IsChoosing(g, frames, proto, from, to)
  <2> HIDE DEF step
  <2>1. \A i \in 0 .. n : g[i] = IF i = 0 THEN <<>>
                                 ELSE Chosen(g[i - 1], frames[i], proto, from, to)
    BY <1>1, <1>4, <1>5
  <2>2. g = [i \in 0 .. n |-> g[i]]
    BY <1>4
  <2>3. QED
    BY <2>1, <2>2 DEF IsChoosing
<1>7. IsChoosing(chosen, frames, proto, from, to)
  BY <1>6
<1>8. FramesOf(frames, proto, from, to) = chosen[n]
  BY DEF FramesOf, IsChoosing, Chosen
<1>9. chosen = g
  <2> DEFINE T == {i \in 0 .. n : chosen[i] = g[i]}
  <2> HIDE DEF chosen, step
  <2>1. /\ DOMAIN chosen = 0 .. n /\ DOMAIN g = 0 .. n
        /\ chosen = [i \in 0 .. n |-> chosen[i]] /\ g = [i \in 0 .. n |-> g[i]]
        /\ chosen[0] = <<>> /\ g[0] = <<>>
        /\ \A i \in 1 .. n : /\ chosen[i] = Chosen(chosen[i - 1], frames[i], proto, from, to)
                             /\ g[i] = Chosen(g[i - 1], frames[i], proto, from, to)
    BY <1>1, <1>6, <1>7 DEF IsChoosing
  <2>2. 0 \in T
    BY <1>1, <2>1
  <2>3. ASSUME NEW i \in 1 .. n, i - 1 \in T PROVE i \in T
    <3>1. chosen[i - 1] = g[i - 1] /\ i \in 0 .. n
      BY <1>1, <2>3
    <3>2. chosen[i] = g[i]
      BY <2>1, <3>1
    <3>3. QED
      BY <3>1, <3>2
  <2>4. 0 .. n \subseteq T
    <3> HIDE DEF T
    <3>1. QED
      BY <1>1, <2>2, <2>3, RangeInduction
  <2>5. QED
    BY <2>1, <2>4
<1>10. QED
  <2> HIDE DEF chosen, step
  <2>1. QED
    BY <1>4, <1>6, <1>8, <1>9

(* One more frame is chosen when it is one between those endpoints.        *)
LEMMA FramesSteps ==
  ASSUME NEW proto, NEW from, NEW to
  PROVE  /\ FramesOf(<<>>, proto, from, to) = <<>>
         /\ \A frames \in Seq(Frames) : FramesOf(frames, proto, from, to) \in Seq(Frames)
         /\ \A frames \in Seq(Frames), frame \in Frames :
              FramesOf(Append(frames, frame), proto, from, to)
                = Chosen(FramesOf(frames, proto, from, to), frame, proto, from, to)
<1>1. FramesOf(<<>>, proto, from, to) = <<>>
  <2>1. <<>> \in Seq(Frames) /\ Len(<<>>) = 0
    OBVIOUS
  <2>2. PICK f : /\ IsChoosing(f, <<>>, proto, from, to)
                 /\ FramesOf(<<>>, proto, from, to) = f[Len(<<>>)]
    BY <2>1, ChoosingExists
  <2>3. QED
    BY <2>1, <2>2 DEF IsChoosing
<1>2. ASSUME NEW frames \in Seq(Frames)
      PROVE  FramesOf(frames, proto, from, to) \in Seq(Frames)
  BY ChoosingExists
<1>3. ASSUME NEW frames \in Seq(Frames), NEW frame \in Frames
      PROVE  FramesOf(Append(frames, frame), proto, from, to)
               = Chosen(FramesOf(frames, proto, from, to), frame, proto, from, to)
  <2> DEFINE n == Len(frames)
             more == Append(frames, frame)
  <2>1. /\ n \in Nat /\ more \in Seq(Frames) /\ Len(more) = n + 1 /\ more[n + 1] = frame
        /\ \A i \in 1 .. n : more[i] = frames[i]
    OBVIOUS
  <2> HIDE DEF n, more
  <2>2. PICK f : /\ IsChoosing(f, frames, proto, from, to)
                 /\ FramesOf(frames, proto, from, to) = f[n]
    BY ChoosingExists DEF n
  <2>3. PICK g : /\ IsChoosing(g, more, proto, from, to)
                 /\ FramesOf(more, proto, from, to) = g[n + 1]
    BY <2>1, ChoosingExists
  <2>4. /\ f[0] = <<>>
        /\ \A i \in 1 .. n : f[i] = Chosen(f[i - 1], frames[i], proto, from, to)
    BY <2>1, <2>2 DEF IsChoosing, n
  <2>5. /\ g[0] = <<>>
        /\ \A i \in 1 .. n + 1 : g[i] = Chosen(g[i - 1], more[i], proto, from, to)
    BY <2>1, <2>3 DEF IsChoosing
  <2> DEFINE Same == {i \in 0 .. n : f[i] = g[i]}
  <2>6. 0 \in Same
    BY <2>1, <2>4, <2>5
  <2>7. ASSUME NEW i \in 1 .. n, i - 1 \in Same PROVE i \in Same
    <3>1. i \in 1 .. n + 1 /\ i \in 0 .. n
      BY <2>1
    <3>2. QED
      BY <2>1, <2>4, <2>5, <2>7, <3>1
  <2>8. 0 .. n \subseteq Same
    <3> HIDE DEF Same
    <3>1. QED
      BY <2>1, <2>6, <2>7, RangeInduction
  <2>9. f[n] = g[n] /\ (n + 1) - 1 = n /\ n + 1 \in 1 .. n + 1
    BY <2>1, <2>8
  <2>10. QED
    BY <2>1, <2>2, <2>3, <2>5, <2>9 DEF more
<1>4. QED
  BY <1>1, <1>2, <1>3

(* What Reassembled yields is a reassembler.                               *)
LEMMA ReassembledType ==
  ASSUME NEW packets \in Seq(Packet), NEW key, NEW from
  PROVE  Reassembled(packets, key, from) \in Reassembler
<1> DEFINE n == Len(packets)
<1>1. n \in Nat /\ \A i \in 1 .. n : packets[i] \in Packet
  OBVIOUS
<1>2. PICK f : IsReassembly(f, packets, key, from) /\ Reassembled(packets, key, from) = f[n]
  BY ReassemblyExists
<1> HIDE DEF n
<1>3. /\ f[0] = NewReassembler
      /\ \A i \in 1 .. n : f[i] = IF Own(packets[i], key, from)
                                    THEN AddSegment(f[i - 1], packets[i]) ELSE f[i - 1]
  BY <1>1, <1>2 DEF IsReassembly, n
<1> DEFINE T == {i \in 0 .. n : f[i] \in Reassembler}
<1>4. 0 \in T
  BY <1>1, <1>3, NewReassemblerType
<1>5. ASSUME NEW i \in 1 .. n, i - 1 \in T PROVE i \in T
  <2>1. f[i - 1] \in Reassembler /\ packets[i] \in Packet /\ i \in 0 .. n
    BY <1>1, <1>5
  <2>2. AddSegment(f[i - 1], packets[i]) \in Reassembler
    BY <2>1, AddSegmentType
  <2>3. QED
    BY <1>3, <2>1, <2>2
<1>6. 0 .. n \subseteq T
  <2> HIDE DEF T
  <2>1. QED
    BY <1>1, <1>4, <1>5, RangeInduction
<1>7. QED
  BY <1>1, <1>2, <1>6

(* What DatagramsOf yields are packets, and all those of the conversation. *)
LEMMA DatagramsKept ==
  ASSUME NEW packets \in Seq(Packet), NEW key
  PROVE  /\ DatagramsOf(packets, key) \in Seq(Packet)
         /\ \A i \in DOMAIN packets : Conversation(packets[i]) = Conversation(key) =>
              \E j \in DOMAIN DatagramsOf(packets, key) : DatagramsOf(packets, key)[j] = packets[i]
<1> DEFINE n == Len(packets)
<1>1. n \in Nat /\ DOMAIN packets = 1 .. n /\ \A i \in 1 .. n : packets[i] \in Packet
  OBVIOUS
<1>2. PICK f : IsKeeping(f, packets, key) /\ DatagramsOf(packets, key) = f[n]
  BY KeepingExists
<1> HIDE DEF n
<1>3. f[0] = <<>> /\ \A i \in 1 .. n : f[i] = Kept(f[i - 1], packets[i], key)
  BY <1>1, <1>2 DEF IsKeeping, n
<1> DEFINE Holding(i) == \A m \in 1 .. i : Conversation(packets[m]) = Conversation(key) =>
                           \E j \in DOMAIN f[i] : f[i][j] = packets[m]
           T == {i \in 0 .. n : f[i] \in Seq(Packet) /\ Holding(i)}
<1>4. 0 \in T
  <2>1. f[0] \in Seq(Packet) /\ 0 \in 0 .. n
    BY <1>1, <1>3
  <2>2. 1 .. 0 = {}
    OBVIOUS
  <2>3. Holding(0)
    BY <2>2
  <2>4. QED
    BY <2>1, <2>3
<1>5. ASSUME NEW i \in 1 .. n, i - 1 \in T PROVE i \in T
  <2> DEFINE before == f[i - 1]
             after == f[i]
             packet == packets[i]
  <2>1. /\ before \in Seq(Packet) /\ packet \in Packet /\ i \in 0 .. n /\ i - 1 \in Nat
        /\ \A m \in 1 .. i : m = i \/ m \in 1 .. i - 1
    BY <1>1, <1>5
  <2>2. after = IF Conversation(packet) = Conversation(key) THEN Append(before, packet) ELSE before
    BY <1>3 DEF Kept
  <2>3. Holding(i - 1)
    BY <1>5
  <2> HIDE DEF before, after, packet
  <2>4. after \in Seq(Packet)
    BY <2>1, <2>2
  <2>5. \A j \in DOMAIN before : j \in DOMAIN after /\ after[j] = before[j]
    BY <2>1, <2>2
  <2>6. Conversation(packet) = Conversation(key) => \E j \in DOMAIN after : after[j] = packet
    <3>1. Len(before) + 1 \in DOMAIN Append(before, packet)
          /\ Append(before, packet)[Len(before) + 1] = packet
      BY <2>1
    <3>2. QED
      BY <2>2, <3>1
  <2>7. Holding(i)
    <3>1. SUFFICES ASSUME NEW m \in 1 .. i, Conversation(packets[m]) = Conversation(key)
                   PROVE  \E j \in DOMAIN f[i] : f[i][j] = packets[m]
      OBVIOUS
    <3>2. CASE m = i
      BY <2>6, <3>1, <3>2 DEF after, packet
    <3>3. CASE m \in 1 .. i - 1
      <4>1. PICK j \in DOMAIN f[i - 1] : f[i - 1][j] = packets[m]
        BY <2>3, <3>1, <3>3
      <4>2. QED
        BY <2>5, <4>1 DEF before, after
    <3>4. QED
      BY <2>1, <3>2, <3>3
  <2>8. QED
    BY <2>1, <2>4, <2>7 DEF after
<1>6. 0 .. n \subseteq T
  <2> HIDE DEF T
  <2>1. QED
    BY <1>1, <1>4, <1>5, RangeInduction
<1>7. f[n] \in Seq(Packet) /\ Holding(n)
  BY <1>1, <1>6
<1>8. QED
  BY <1>1, <1>2, <1>7

(* The bytes of a frame that the record holds whole.                       *)
LEMMA WholePayload ==
  ASSUME NEW frame \in Frames, NEW memory \in StrayMemory, frame.missing = 0,
         PayloadOffset(Seen(frame, memory)) = PayloadOffset(frame),
         PayloadOffset(frame) < frame.len
  PROVE  Rest(frame, memory) = frame.data \o frame.padding
<1> DEFINE bytes == frame.data \o frame.padding
           start == PayloadOffset(frame)
           size == Len(bytes)
<1>1. frame.len \in Nat /\ start \in Nat /\ CapLen(frame) = frame.len
  BY Offsets, FrameFields DEF CapLen
<1>2. frame.data \in Seq(Nat) /\ frame.padding \in Seq(Nat)
  BY FrameFields
<1>3. bytes \in Seq(Nat)
  BY <1>2
<1>4. frame.len = start + size
  <2> DEFINE data == Len(frame.data)
             padding == Len(frame.padding)
  <2>1. \/ frame.len = start + data + padding
        \/ frame.len <= start
    BY DEF Frames
  <2>2. size = data + padding
    BY <1>2
  <2>3. data \in Nat /\ padding \in Nat
    BY <1>2
  <2> HIDE DEF bytes, size, data, padding
  <2>4. QED
    BY <1>1, <2>1, <2>2, <2>3
<1> HIDE DEF bytes
<1>5. size \in Nat /\ bytes = [i \in 1 .. size |-> bytes[i]]
  BY <1>3
<1>6. Rest(frame, memory) = [i \in 1 .. frame.len - start |-> ByteAt(frame, memory, start + i - 1)]
  BY <1>1 DEF Rest
<1> HIDE DEF start, size
<1>7. \A i \in 1 .. size : ByteAt(frame, memory, start + i - 1) = bytes[i]
  <2>1. ASSUME NEW i \in 1 .. size PROVE ByteAt(frame, memory, start + i - 1) = bytes[i]
    <3> DEFINE offset == start + i - 1
    <3>1. offset \in start .. CapLen(frame) - 1 /\ offset - start + 1 = i
      BY <1>1, <1>4, <1>5
    <3> HIDE DEF offset
    <3>2. ByteAt(frame, memory, offset) = bytes[offset - start + 1]
      BY <3>1 DEF ByteAt, bytes, start
    <3>3. QED
      BY <3>1, <3>2 DEF offset
  <2>2. QED
    BY <2>1
<1>8. frame.len - start = size
  BY <1>1, <1>4, <1>5
<1>9. Rest(frame, memory) = [i \in 1 .. size |-> bytes[i]]
  BY <1>6, <1>7, <1>8
<1>10. QED
  BY <1>5, <1>9 DEF bytes

(* Whether the parser accepts a record that holds the IPv4 header is in    *)
(* that header.                                                            *)
LEMMA SeenParseable ==
  ASSUME NEW frame \in Frames, NEW memory \in StrayMemory, CapLen(frame) >= 34
  PROVE  Parseable(Seen(frame, memory)) <=> Parseable(frame)
<1> DEFINE seen == Seen(frame, memory)
<1>1. /\ seen.len = frame.len /\ seen.version = frame.version /\ seen.ihl = frame.ihl
      /\ seen.proto = frame.proto
  BY SeenFields
<1> HIDE DEF seen
<1>2. \A n : HasRoom(seen, n) <=> HasRoom(frame, n)
  BY <1>1 DEF HasRoom, Overruns, TransportOffset
<1>3. Parseable(seen) <=> Parseable(frame)
  BY <1>1, <1>2 DEF Parseable
<1>4. QED
  BY <1>3 DEF seen

(* A record that is certain not to be of another conversation than it      *)
(* seems: when the parser may skip it, it is nobody's.                     *)
LEMMA CertainSkip ==
  ASSUME NEW frame \in Frames, MayBeSkipped(frame), NEW proto, NEW from, NEW to,
         Settled(frame) \/ Elsewhere(frame, proto, from, to)
  PROVE  ~Between(frame, proto, from, to)
<1>1. PICK memory \in StrayMemory : ~Parseable(Seen(frame, memory))
  BY DEF MayBeSkipped
<1>2. frame.len < 34 \/ CapLen(frame) >= 34
  BY FrameFields DEF Settled, Elsewhere, EthernetSize, MinIpv4Size
<1>3. CASE frame.len < 34
  BY <1>3, FrameFields DEF Between, Parseable, EthernetSize, MinIpv4Size
<1>4. CASE CapLen(frame) >= 34
  BY <1>1, <1>4, SeenParseable DEF Between
<1>5. QED
  BY <1>2, <1>3, <1>4

(* When a packet with a payload comes of it, the packet is between the     *)
(* endpoints that the frame is, and its contents are those of the frame.   *)
LEMMA CertainFrame ==
  ASSUME NEW frame \in Frames, NEW packet \in Parsings(frame), NEW proto, NEW from, NEW to,
         Settled(frame) \/ Elsewhere(frame, proto, from, to),
         packet.protocol = proto => packet.has_buffer
  PROVE  /\ Between(frame, proto, from, to)
              <=> (packet.protocol = proto /\ packet.src = from /\ packet.dst = to)
         /\ Between(frame, proto, from, to) =>
              /\ proto = "TCP" => packet.tcp_seq = frame.tcp_seq
              /\ packet.payload # <<>>
              /\ frame.missing = 0 => packet.payload = frame.data \o frame.padding
<1>1. PICK memory \in StrayMemory : \E s :
           /\ s = Seen(frame, memory) /\ Parseable(s)
           /\ packet.protocol = s.proto /\ packet.protocol \in {"TCP", "UDP"}
           /\ packet.src = s.src /\ packet.dst = s.dst
           /\ packet.tcp_seq = (IF s.proto = "TCP" THEN s.tcp_seq ELSE 0)
           /\ packet.payload = Rest(frame, memory)
           /\ packet.has_buffer = (Rest(frame, memory) # <<>>)
           /\ packet.has_buffer = (PayloadOffset(s) < frame.len)
  BY ParsedFields
<1> DEFINE seen == Seen(frame, memory)
<1>2. /\ Parseable(seen) /\ packet.protocol = seen.proto /\ packet.protocol \in {"TCP", "UDP"}
      /\ packet.src = seen.src /\ packet.dst = seen.dst
      /\ packet.tcp_seq = (IF seen.proto = "TCP" THEN seen.tcp_seq ELSE 0)
      /\ packet.payload = Rest(frame, memory)
      /\ packet.has_buffer = (Rest(frame, memory) # <<>>)
      /\ packet.has_buffer = (PayloadOffset(seen) < frame.len)
  BY <1>1
<1>3. /\ seen.len = frame.len /\ seen.ihl \in Nat /\ seen.data_offset \in Nat
      /\ CapLen(frame) >= 34 =>
           /\ seen.ihl = frame.ihl /\ seen.proto = frame.proto
           /\ seen.src.ip = frame.src.ip /\ seen.dst.ip = frame.dst.ip
      /\ CapLen(frame) >= 34 /\ CapLen(frame) >= TransportOffset(frame) + 4 =>
           seen.src = frame.src /\ seen.dst = frame.dst
      /\ CapLen(frame) >= 34 /\ CapLen(frame) >= TransportOffset(frame) + 13 =>
           seen.tcp_seq = frame.tcp_seq /\ seen.data_offset = frame.data_offset
  BY SeenFields
<1>4. CapLen(frame) >= 34
  <2>1. frame.len >= 34
    BY <1>2, <1>3 DEF Parseable, EthernetSize, MinIpv4Size
  <2>2. frame.len \in Nat /\ CapLen(frame) \in Nat
    BY FrameFields
  <2>3. QED
    BY <2>1, <2>2 DEF Settled, Elsewhere, EthernetSize, MinIpv4Size
<1>5. Parseable(frame)
  BY <1>2, <1>4, SeenParseable
<1> HIDE DEF seen
<1>6. packet.protocol = frame.proto
  BY <1>2, <1>3, <1>4
<1>7. CASE Elsewhere(frame, proto, from, to)
  <2>1. \/ packet.protocol # proto
        \/ packet.src # from
        \/ packet.dst # to
    BY <1>2, <1>3, <1>4, <1>6, <1>7 DEF Elsewhere
  <2>2. ~Between(frame, proto, from, to)
    BY <1>7 DEF Elsewhere, Between
  <2>3. QED
    BY <2>1, <2>2
<1>8. CASE packet.protocol # proto
  BY <1>6, <1>8 DEF Between
<1>9. CASE Settled(frame) /\ packet.protocol = proto
  <2>1. packet.has_buffer /\ PayloadOffset(seen) < frame.len
    BY <1>2, <1>9
  <2>2. /\ TransportOffset(frame) \in Nat /\ TransportOffset(frame) = TransportOffset(seen)
        /\ HeadersEnd(frame)
             = TransportOffset(frame) + (IF frame.proto = "TCP" THEN 20 ELSE 8)
    BY <1>3, <1>4, Offsets, FrameFields DEF TransportOffset
  <2>3. ~Overruns(frame)
    <3>1. /\ TransportOffset(seen) \in Nat /\ PayloadOffset(seen) \in Nat
          /\ TransportOffset(seen) <= PayloadOffset(seen)
      BY <1>3, Offsets
    <3>2. frame.len \in Nat
      BY FrameFields
    <3>3. QED
      BY <2>1, <2>2, <3>1, <3>2 DEF Overruns
  <2>4. CapLen(frame) >= HeadersEnd(frame)
    <3>1. ~(frame.len < 34)
      BY <1>4, FrameFields
    <3>2. QED
      BY <1>5, <1>9, <2>3, <3>1 DEF Settled, EthernetSize, MinIpv4Size
  <2>5. seen.src = frame.src /\ seen.dst = frame.dst
    <3>1. CapLen(frame) >= TransportOffset(frame) + 4
      BY <2>2, <2>4, FrameFields
    <3>2. QED
      BY <1>3, <1>4, <3>1
  <2>6. frame.proto = "TCP" => seen.tcp_seq = frame.tcp_seq /\ seen.data_offset = frame.data_offset
    <3>1. frame.proto = "TCP" => CapLen(frame) >= TransportOffset(frame) + 13
      BY <2>2, <2>4, FrameFields
    <3>2. QED
      BY <1>3, <1>4, <3>1
  <2>7. PayloadOffset(seen) = PayloadOffset(frame)
    BY <1>3, <1>4, <2>2, <2>6 DEF PayloadOffset
  <2>8. Between(frame, proto, from, to) <=> (packet.src = from /\ packet.dst = to)
    BY <1>2, <1>5, <1>6, <1>9, <2>5 DEF Between
  <2>9. proto = "TCP" => packet.tcp_seq = frame.tcp_seq
    BY <1>2, <1>6, <1>9, <2>6
  <2>10. packet.payload # <<>>
    BY <1>2, <2>1
  <2>11. frame.missing = 0 => packet.payload = frame.data \o frame.padding
    BY <1>2, <2>1, <2>7, WholePayload DEF seen
  <2>12. QED
    BY <1>9, <2>8, <2>9, <2>10, <2>11
<1>10. QED
  BY <1>7, <1>8, <1>9

-----------------------------------------------------------------------------
(* The data of the first k segments.                                       *)
DataOf(segments, k) == FlattenSeq([i \in 1 .. k |-> segments[i].data])

(* The capture shows the first k segments as they were sent.               *)
Clean(segments, k) == Gapless(segments, k) /\ Genuine(segments, k)

(* The stream holds what the clean part of the segments holds, and no more *)
(* when all of them are clean; then the reassembler waits for what follows *)
(* the last one.                                                           *)
Holding(segments, r, k) ==
  Clean(segments, k) => \E rest \in Seq(Nat) : r.stream = DataOf(segments, k) \o rest

(* What the reassembler of a direction knows of its segments.              *)
Follows(segments, r) ==
  LET n == Len(segments)
  IN  /\ segments = <<>> => ~r.initialized /\ r.stream = <<>>
      /\ segments # <<>> => r.initialized
      /\ \A k \in 0 .. n : Holding(segments, r, k)
      /\ Clean(segments, n) =>
           /\ r.stream = DataOf(segments, n)
           /\ segments # <<>> =>
                r.next_seq = (segments[n].tcp_seq + Len(segments[n].data)) % SeqSpace

(* The data of segments, one by one.                                       *)
LEMMA DataSteps ==
  ASSUME NEW segments \in Seq(Frames), NEW frame \in Frames
  PROVE  LET n == Len(segments)
             more == Append(segments, frame)
         IN  /\ \A k \in 0 .. n : DataOf(segments, k) \in Seq(Nat) /\ DataOf(more, k) = DataOf(segments, k)
             /\ DataOf(more, n + 1) = DataOf(segments, n) \o frame.data
             /\ DataOf(segments, 0) = <<>>
<1> DEFINE n == Len(segments)
           more == Append(segments, frame)
           Data(k) == [i \in 1 .. k |-> segments[i].data]
<1>1. /\ n \in Nat /\ more \in Seq(Frames) /\ Len(more) = n + 1 /\ more[n + 1] = frame
      /\ \A i \in 1 .. n : more[i] = segments[i] /\ segments[i] \in Frames
  OBVIOUS
<1>2. frame.data \in Seq(Nat) /\ \A i \in 1 .. n : segments[i].data \in Seq(Nat)
  BY <1>1 DEF Frames
<1> HIDE DEF n, more
<1>3. ASSUME NEW k \in 0 .. n
      PROVE  DataOf(segments, k) \in Seq(Nat) /\ DataOf(more, k) = DataOf(segments, k)
  <2>1. \A i \in 1 .. k : segments[i].data \in Seq(Nat) /\ more[i].data = segments[i].data
    BY <1>1, <1>2
  <2>2. k \in Nat /\ Data(k) \in Seq(Seq(Nat))
    BY <1>1, <2>1
  <2>3. Data(k) = [i \in 1 .. k |-> more[i].data]
    BY <2>1
  <2>4. QED
    BY <2>2, <2>3, FlattenType DEF DataOf
<1>4. DataOf(more, n + 1) = DataOf(segments, n) \o frame.data
  <2>1. Data(n) \in Seq(Seq(Nat)) /\ Len(Data(n)) = n
    BY <1>1, <1>2
  <2> DEFINE d == Data(n)
             all == [i \in 1 .. n + 1 |-> more[i].data]
  <2>2. /\ d \in Seq(Seq(Nat)) /\ Len(d) = n /\ \A i \in 1 .. n : d[i] = segments[i].data
        /\ \A i \in 1 .. n + 1 : all[i] = more[i].data
    BY <2>1
  <2>3. all = Append(d, frame.data)
    <3> DEFINE long == Append(d, frame.data)
    <3> HIDE DEF d
    <3>1. /\ long \in Seq(Seq(Nat)) /\ Len(long) = n + 1 /\ long[n + 1] = frame.data
          /\ \A i \in 1 .. n : long[i] = d[i]
      BY <1>1, <1>2, <2>2
    <3> HIDE DEF long
    <3>2. \A i \in 1 .. n + 1 : long[i] = more[i].data
      <4>1. \A i \in 1 .. n + 1 : i = n + 1 \/ i \in 1 .. n
        BY <1>1
      <4>2. QED
        BY <1>1, <2>2, <3>1, <4>1
    <3>3. long = [i \in 1 .. n + 1 |-> long[i]]
      BY <3>1
    <3>4. QED
      BY <3>2, <3>3 DEF long
  <2>4. FlattenSeq(Append(d, frame.data)) = FlattenSeq(d) \o frame.data
    <3> HIDE DEF d
    <3>1. QED
      BY <1>2, <2>2, FlattenAppend
  <2>5. QED
    BY <2>3, <2>4 DEF DataOf
<1>5. DataOf(segments, 0) = <<>>
  <2>1. [i \in 1 .. 0 |-> segments[i].data] = <<>>
    OBVIOUS
  <2>2. FlattenSeq(<<>>) = <<>>
    BY DEF FlattenSeq
  <2>3. QED
    BY <2>1, <2>2 DEF DataOf
<1>6. QED
  BY <1>3, <1>4, <1>5 DEF n, more

(* What a longer sequence of segments leaves clean.                        *)
LEMMA CleanSteps ==
  ASSUME NEW segments \in Seq(Frames), NEW frame \in Frames
  PROVE  LET n == Len(segments)
             more == Append(segments, frame)
         IN  /\ \A k \in 0 .. n : Clean(more, k) <=> Clean(segments, k)
             /\ Clean(more, n + 1) =>
                  /\ Clean(segments, n) /\ frame.padding = <<>> /\ frame.missing = 0
                  /\ segments # <<>> =>
                       frame.tcp_seq = (segments[n].tcp_seq + Len(segments[n].data)) % SeqSpace
<1> DEFINE n == Len(segments)
           more == Append(segments, frame)
<1>1. /\ n \in Nat /\ more \in Seq(Frames) /\ Len(more) = n + 1 /\ more[n + 1] = frame
      /\ \A i \in 1 .. n : more[i] = segments[i]
      /\ segments # <<>> => n \in 1 .. n
  OBVIOUS
<1> HIDE DEF n, more
<1>2. ASSUME NEW k \in 0 .. n
      PROVE  Clean(more, k) <=> Clean(segments, k)
  <2>1. \A i \in 1 .. k : more[i] = segments[i]
    BY <1>1
  <2>2. \A i \in 1 .. k - 1 : more[i] = segments[i] /\ more[i + 1] = segments[i + 1]
    BY <1>1
  <2>3. QED
    BY <2>1, <2>2 DEF Clean, Gapless, Genuine
<1>3. ASSUME Clean(more, n + 1)
      PROVE  /\ Clean(more, n) /\ frame.padding = <<>> /\ frame.missing = 0
             /\ segments # <<>> =>
                  frame.tcp_seq = (segments[n].tcp_seq + Len(segments[n].data)) % SeqSpace
  <2>1. /\ \A i \in 1 .. (n + 1) - 1 :
             more[i + 1].tcp_seq = (more[i].tcp_seq + Len(more[i].data)) % SeqSpace
        /\ \A i \in 1 .. n + 1 : more[i].padding = <<>> /\ more[i].missing = 0
    <3>1. Gapless(more, n + 1) /\ Genuine(more, n + 1)
      BY <1>3 DEF Clean
    <3>2. QED
      BY <3>1 DEF Gapless, Genuine
  <2>2. 1 .. (n + 1) - 1 = 1 .. n /\ n + 1 \in 1 .. n + 1
        /\ (\A i \in 1 .. n : i \in 1 .. n + 1) /\ (\A i \in 1 .. n - 1 : i \in 1 .. n)
    BY <1>1
  <2>3. Clean(more, n)
    BY <2>1, <2>2 DEF Clean, Gapless, Genuine
  <2>4. QED
    BY <1>1, <2>1, <2>2, <2>3
<1>4. n \in 0 .. n
  BY <1>1
<1>5. QED
  BY <1>2, <1>3, <1>4 DEF n, more

(* Joining is associative.                                                 *)
LEMMA JoinAssociative ==
  ASSUME NEW a \in Seq(Nat), NEW b \in Seq(Nat), NEW c \in Seq(Nat)
  PROVE  b \o c \in Seq(Nat) /\ (a \o b) \o c = a \o (b \o c)
OBVIOUS

(* A segment of the direction and the packet that comes of it.             *)
LEMMA FollowsStep ==
  ASSUME NEW segments \in Seq(Frames), NEW frame \in Frames, NEW r \in Reassembler,
         Follows(segments, r), NEW packet \in Packet, packet.tcp_seq = frame.tcp_seq,
         packet.payload # <<>>,
         frame.missing = 0 => packet.payload = frame.data \o frame.padding
  PROVE  Follows(Append(segments, frame), AddSegment(r, packet))
<1> DEFINE n == Len(segments)
           more == Append(segments, frame)
           base == Synchronized(r, packet)
           after == AddSegment(r, packet)
<1>1. /\ n \in Nat /\ more \in Seq(Frames) /\ Len(more) = n + 1 /\ more[n + 1] = frame
      /\ more # <<>> /\ (n = 0 <=> segments = <<>>)
  OBVIOUS
<1>2. /\ packet.tcp_seq \in SeqNumber /\ packet.payload \in Seq(Nat)
      /\ frame.data \in Seq(Nat) /\ frame.padding \in Seq(Nat)
      /\ r.stream \in Seq(Nat)
  BY DEF Packet, Frames, Reassembler
<1>3. /\ base \in Reassembler /\ base.stream = r.stream /\ base.initialized
      /\ r.initialized => base.next_seq = r.next_seq
      /\ ~r.initialized => base.next_seq = packet.tcp_seq
  BY <1>2 DEF Synchronized, Reassembler
<1>4. after = IF packet.tcp_seq = base.next_seq
                THEN [base EXCEPT !.stream = @ \o packet.payload,
                                  !.next_seq = (packet.tcp_seq + Len(packet.payload)) % SeqSpace]
                ELSE base
  BY DEF AddSegment
<1> HIDE DEF n, more, base, after
<1>5. /\ after.initialized
      /\ packet.tcp_seq = base.next_seq =>
           /\ after.stream = r.stream \o packet.payload
           /\ after.next_seq = (packet.tcp_seq + Len(packet.payload)) % SeqSpace
      /\ packet.tcp_seq # base.next_seq => after.stream = r.stream
  BY <1>3, <1>4 DEF Reassembler
<1>6. /\ segments = <<>> => ~r.initialized /\ r.stream = <<>>
      /\ segments # <<>> => r.initialized
      /\ \A k \in 0 .. n : Holding(segments, r, k)
      /\ Clean(segments, n) =>
           /\ r.stream = DataOf(segments, n)
           /\ segments # <<>> =>
                r.next_seq = (segments[n].tcp_seq + Len(segments[n].data)) % SeqSpace
  BY DEF Follows, n
<1>7. /\ \A k \in 0 .. n : DataOf(segments, k) \in Seq(Nat) /\ DataOf(more, k) = DataOf(segments, k)
      /\ DataOf(more, n + 1) = DataOf(segments, n) \o frame.data
  BY DataSteps DEF n, more
<1>8. /\ \A k \in 0 .. n : Clean(more, k) <=> Clean(segments, k)
      /\ Clean(more, n + 1) =>
           /\ Clean(segments, n) /\ frame.padding = <<>> /\ frame.missing = 0
           /\ segments # <<>> =>
                frame.tcp_seq = (segments[n].tcp_seq + Len(segments[n].data)) % SeqSpace
  BY CleanSteps DEF n, more
<1>9. ASSUME NEW k \in 0 .. n PROVE Holding(more, after, k)
  <2>1. SUFFICES ASSUME Clean(more, k)
                 PROVE  \E rest \in Seq(Nat) : after.stream = DataOf(more, k) \o rest
    BY DEF Holding
  <2> DEFINE data == DataOf(segments, k)
  <2>2. PICK rest \in Seq(Nat) : r.stream = data \o rest
    BY <1>6, <1>8, <2>1 DEF Holding
  <2>3. data \in Seq(Nat) /\ DataOf(more, k) = data
    BY <1>7
  <2> HIDE DEF data
  <2>4. CASE packet.tcp_seq = base.next_seq
    <3>1. rest \o packet.payload \in Seq(Nat)
          /\ (data \o rest) \o packet.payload = data \o (rest \o packet.payload)
      <4> DEFINE p == packet.payload
      <4>1. p \in Seq(Nat)
        BY <1>2
      <4> HIDE DEF p
      <4>2. QED
        BY <2>3, <4>1, JoinAssociative DEF p
    <3>2. after.stream = data \o (rest \o packet.payload)
      BY <1>5, <2>2, <2>4, <3>1
    <3>3. QED
      BY <2>3, <3>1, <3>2
  <2>5. CASE packet.tcp_seq # base.next_seq
    BY <1>5, <2>2, <2>3, <2>5
  <2>6. QED
    BY <2>4, <2>5
<1>10. ASSUME Clean(more, n + 1)
       PROVE  /\ after.stream = DataOf(more, n + 1)
              /\ after.next_seq = (frame.tcp_seq + Len(frame.data)) % SeqSpace
  <2>1. packet.payload = frame.data
    <3>1. packet.payload = frame.data \o <<>>
      BY <1>8, <1>10
    <3>2. QED
      BY <1>2, <3>1
  <2>2. packet.tcp_seq = base.next_seq
    <3>1. CASE segments = <<>>
      BY <1>3, <1>6, <3>1
    <3>2. CASE segments # <<>>
      BY <1>3, <1>6, <1>8, <1>10, <3>2
    <3>3. QED
      BY <3>1, <3>2
  <2>3. r.stream = DataOf(segments, n)
    BY <1>6, <1>8, <1>10
  <2>4. QED
    BY <1>5, <1>7, <2>1, <2>2, <2>3
<1>11. Holding(more, after, n + 1)
  <2>1. ASSUME Clean(more, n + 1) PROVE \E rest \in Seq(Nat) : after.stream = DataOf(more, n + 1) \o rest
    <3>1. n \in 0 .. n
      BY <1>1
    <3>2. DataOf(segments, n) \o frame.data \in Seq(Nat)
      BY <1>2, <1>7, <3>1
    <3>3. DataOf(more, n + 1) \o <<>> = DataOf(more, n + 1) /\ <<>> \in Seq(Nat)
      BY <1>7, <3>2
    <3>4. QED
      BY <1>10, <2>1, <3>3
  <2>2. QED
    BY <2>1 DEF Holding
<1>12. \A k \in 0 .. n + 1 : Holding(more, after, k)
  <2>1. \A k \in 0 .. n + 1 : k \in 0 .. n \/ k = n + 1
    BY <1>1
  <2>2. QED
    BY <1>9, <1>11, <2>1
<1>13. Follows(more, after)
  BY <1>1, <1>5, <1>10, <1>12 DEF Follows
<1>14. QED
  BY <1>13 DEF more, after

(* Before the first segment there is nothing to follow.                    *)
LEMMA FollowsFromNothing == Follows(<<>>, NewReassembler)
<1>1. Len(<<>>) = 0 /\ NewReassembler.stream = <<>> /\ ~NewReassembler.initialized
  BY DEF NewReassembler
<1>2. DataOf(<<>>, 0) = <<>>
  <2>1. [i \in 1 .. 0 |-> <<>>[i].data] = <<>>
    OBVIOUS
  <2>2. FlattenSeq(<<>>) = <<>>
    BY DEF FlattenSeq
  <2>3. QED
    BY <2>1, <2>2 DEF DataOf
<1>3. \A k \in 0 .. 0 : Holding(<<>>, NewReassembler, k)
  <2>1. \A k \in 0 .. 0 : k = 0
    OBVIOUS
  <2>2. Holding(<<>>, NewReassembler, 0)
    <3>1. <<>> = <<>> \o <<>> /\ <<>> \in Seq(Nat)
      OBVIOUS
    <3>2. QED
      BY <1>1, <1>2, <3>1 DEF Holding
  <2>3. QED
    BY <2>1, <2>2
<1>4. QED
  BY <1>1, <1>2, <1>3 DEF Follows

-----------------------------------------------------------------------------
(* The datagrams that one of a conversation's endpoints sent the other.    *)
Directed(datagrams, from, to) ==
  {j \in DOMAIN datagrams : datagrams[j].src = from /\ datagrams[j].dst = to}

(* They are, with their times and payloads, the frames.                    *)
FrameContents(frames) ==
  [i \in DOMAIN frames |-> <<frames[i].timestamp_us, frames[i].data>>]

(* The times and payloads of the datagrams.                                *)
PacketContents(datagrams, from, to) ==
  [j \in Directed(datagrams, from, to) |-> <<datagrams[j].timestamp_us, datagrams[j].payload>>]

(* The datagrams are the frames: as many, with the same times and          *)
(* payloads.                                                               *)
Pairs(frames, datagrams, from, to) ==
  SameValues(FrameContents(frames), PacketContents(datagrams, from, to))

(* A frame and the packet that comes of it.                                *)
LEMMA PairsBoth ==
  ASSUME NEW frames \in Seq(Frames), NEW datagrams \in Seq(Packet), NEW from, NEW to,
         Pairs(frames, datagrams, from, to), NEW frame \in Frames, NEW packet \in Packet,
         packet.src = from, packet.dst = to, packet.timestamp_us = frame.timestamp_us,
         packet.payload = frame.data
  PROVE  Pairs(Append(frames, frame), Append(datagrams, packet), from, to)
<1> DEFINE n == Len(frames)
           m == Len(datagrams)
           more == Append(frames, frame)
           longer == Append(datagrams, packet)
           A == 1 .. n
           B == {n + 1}
           C == Directed(datagrams, from, to)
           D == {m + 1}
           F == FrameContents(more)
           G == PacketContents(longer, from, to)
<1>1. /\ n \in Nat /\ DOMAIN frames = 1 .. n /\ DOMAIN more = 1 .. n + 1 /\ more[n + 1] = frame
      /\ \A i \in 1 .. n : more[i] = frames[i]
      /\ m \in Nat /\ DOMAIN datagrams = 1 .. m /\ DOMAIN longer = 1 .. m + 1
      /\ longer[m + 1] = packet
      /\ \A i \in 1 .. m : longer[i] = datagrams[i]
  OBVIOUS
<1> HIDE DEF n, m, more, longer
<1>2. 1 .. n + 1 = A \cup B /\ A \cap B = {} /\ C \subseteq 1 .. m /\ C \cap D = {}
      /\ 1 .. m + 1 = 1 .. m \cup D
  BY <1>1 DEF Directed
<1>3. Directed(longer, from, to) = C \cup D
  <2>1. \A j \in 1 .. m + 1 : j \in 1 .. m \/ j = m + 1
    BY <1>1
  <2>2. \A j : j \in Directed(longer, from, to) <=> j \in C \cup D
    BY <1>1, <1>2, <2>1 DEF Directed
  <2>3. QED
    BY <2>2
<1>4. DOMAIN F = A \cup B /\ DOMAIN G = C \cup D
  BY <1>1, <1>2, <1>3 DEF FrameContents, PacketContents
<1>5. Restrict(F, A) = FrameContents(frames)
  <2>1. \A x \in A : F[x] = <<frames[x].timestamp_us, frames[x].data>>
    BY <1>1, <1>2 DEF FrameContents
  <2>2. FrameContents(frames) = [x \in A |-> <<frames[x].timestamp_us, frames[x].data>>]
    BY <1>1 DEF FrameContents
  <2>3. QED
    BY <2>1, <2>2 DEF Restrict
<1>6. Restrict(G, C) = PacketContents(datagrams, from, to)
  <2>1. \A x \in C : G[x] = <<datagrams[x].timestamp_us, datagrams[x].payload>>
    BY <1>1, <1>2, <1>3 DEF PacketContents
  <2>2. PacketContents(datagrams, from, to) = [x \in C |-> <<datagrams[x].timestamp_us, datagrams[x].payload>>]
    BY DEF PacketContents
  <2>3. QED
    BY <2>1, <2>2 DEF Restrict
<1>7. F[n + 1] = G[m + 1]
  BY <1>1, <1>2, <1>3 DEF FrameContents, PacketContents
<1>8. SameValues(Restrict(F, A), Restrict(G, C))
  BY <1>5, <1>6 DEF Pairs
<1>9. SameValues(Restrict(F, B), Restrict(G, D))
  <2> DEFINE f == Restrict(F, B)
             g == Restrict(G, D)
  <2>1. DOMAIN f = {n + 1} /\ DOMAIN g = {m + 1} /\ f[n + 1] = g[m + 1]
    BY <1>7 DEF Restrict
  <2> HIDE DEF f, g
  <2>2. SameValues(f, g)
    BY <2>1, SameSingle
  <2>3. QED
    BY <2>2 DEF f, g
<1> HIDE DEF A, B, C, D, F, G
<1>10. SameValues(F, G)
  BY <1>2, <1>4, <1>8, <1>9, SameUnion
<1>11. QED
  BY <1>10 DEF Pairs, F, G, more, longer

(* A packet of the other direction.                                        *)
LEMMA PairsOther ==
  ASSUME NEW frames, NEW datagrams \in Seq(Packet), NEW from, NEW to,
         Pairs(frames, datagrams, from, to), NEW packet \in Packet,
         ~(packet.src = from /\ packet.dst = to)
  PROVE  Pairs(frames, Append(datagrams, packet), from, to)
<1> DEFINE m == Len(datagrams)
           longer == Append(datagrams, packet)
           C == Directed(datagrams, from, to)
<1>1. /\ m \in Nat /\ DOMAIN datagrams = 1 .. m /\ DOMAIN longer = 1 .. m + 1
      /\ longer[m + 1] = packet
      /\ \A i \in 1 .. m : longer[i] = datagrams[i]
      /\ \A j \in 1 .. m + 1 : j \in 1 .. m \/ j = m + 1
      /\ \A j \in 1 .. m : j \in 1 .. m + 1
  OBVIOUS
<1> HIDE DEF m, longer
<1>2. \A j : j \in Directed(longer, from, to) <=> j \in C
  BY <1>1 DEF Directed
<1>3. Directed(longer, from, to) = C
  BY <1>2
<1>4. \A j \in C : longer[j] = datagrams[j]
  BY <1>1 DEF Directed
<1>5. PacketContents(longer, from, to) = PacketContents(datagrams, from, to)
  BY <1>3, <1>4 DEF PacketContents
<1>6. QED
  BY <1>5 DEF Pairs, longer

-----------------------------------------------------------------------------
(* The frames read so far.                                                 *)
Read == SubSeq(capture, 1, position)

(* The key is of a conversation between these endpoints.                   *)
Ends(key, proto, from, to) == key.protocol = proto /\ {key.src, key.dst} = {from, to}

(* The stream of a direction follows the frames that were read of it.      *)
StreamFollows(key, from, to) ==
  Follows(FramesOf(Read, "TCP", from, to), Reassembled(log, key, from))

(* The part of the inductive invariant about streams: it does for every    *)
(* key a flow may have, in both directions, whether the flow exists or     *)
(* not, if no record that was cut off may be taken for one of them.        *)
StreamsFollow ==
  ~crashed =>
    \A key \in FlowKey, from, to \in Endpoint :
      (Ends(key, "TCP", from, to) /\ Certain("TCP", from, to)) => StreamFollows(key, from, to)

(* No packet is without a payload.                                         *)
NoneBare(packets) == \A i \in DOMAIN packets : packets[i].has_buffer

(* The capture shows the frames as they were sent.                         *)
Whole(frames) == \A i \in DOMAIN frames : frames[i].padding = <<>> /\ frames[i].missing = 0

(* The datagrams kept of a direction are the frames that were read of it.  *)
DatagramsFollowFrames(key, from, to) ==
  Whole(FramesOf(Read, "UDP", from, to)) =>
    Pairs(FramesOf(Read, "UDP", from, to), DatagramsOf(log, key), from, to)

(* The part of the inductive invariant about datagrams.  A bare one would  *)
(* be kept without a frame that shows it, but Build dies of it.            *)
DatagramsFollow ==
  (~crashed /\ NoneBare(log)) =>
    \A key \in FlowKey, from, to \in Endpoint :
      (Ends(key, "UDP", from, to) /\ Certain("UDP", from, to)) => DatagramsFollowFrames(key, from, to)

(* The condition is one on the capture.                                    *)
LEMMA CertainStays ==
  ASSUME capture' = capture
  PROVE  \A proto, from, to : Certain(proto, from, to)' <=> Certain(proto, from, to)
BY DEF Certain

(* A packet belongs to a direction when its frame does.                    *)
LEMMA OwnFrame ==
  ASSUME NEW frame \in Frames, NEW packet \in Parsings(frame), NEW proto,
         packet.protocol = proto => packet.has_buffer,
         NEW key \in FlowKey, NEW from \in Endpoint, NEW to \in Endpoint,
         Ends(key, proto, from, to), Settled(frame) \/ Elsewhere(frame, proto, from, to)
  PROVE  /\ Between(frame, proto, from, to) <=> Own(packet, key, from)
         /\ Between(frame, proto, from, to) <=>
              /\ Conversation(packet) = Conversation(key)
              /\ packet.src = from /\ packet.dst = to
<1>1. Between(frame, proto, from, to)
        <=> (packet.protocol = proto /\ packet.src = from /\ packet.dst = to)
  <2>1. packet.protocol = proto => packet.has_buffer
    OBVIOUS
  <2>2. Settled(frame) \/ Elsewhere(frame, proto, from, to)
    OBVIOUS
  <2>3. /\ Between(frame, proto, from, to)
             <=> (packet.protocol = proto /\ packet.src = from /\ packet.dst = to)
        /\ Between(frame, proto, from, to) =>
             /\ proto = "TCP" => packet.tcp_seq = frame.tcp_seq
             /\ packet.payload # <<>>
             /\ frame.missing = 0 => packet.payload = frame.data \o frame.padding
    BY <2>1, <2>2, CertainFrame, Zenon
  <2>4. QED
    BY <2>3
<1>2. Conversation(key) = <<{from, to}, proto>>
  BY DEF Ends, Conversation
<1>3. Conversation(packet) = <<{packet.src, packet.dst}, packet.protocol>>
  BY DEF Conversation
<1>4. (packet.src = from /\ {packet.src, packet.dst} = {from, to})
        <=> (packet.src = from /\ packet.dst = to)
  OBVIOUS
<1>5. QED
  BY <1>1, <1>2, <1>3, <1>4 DEF Own

(* Reading a record moves the frame to those that have been read.          *)
LEMMA ReadMore ==
  ASSUME capture \in Seq(Frames), position \in 0 .. Len(capture), position < Len(capture),
         capture' = capture, position' = position + 1
  PROVE  Read \in Seq(Frames) /\ capture[position + 1] \in Frames
         /\ Read' = Append(Read, capture[position + 1])
<1>1. Read \in Seq(Frames) /\ capture[position + 1] \in Frames
  BY DEF Read
<1>2. Read' = SubSeq(capture, 1, position + 1)
  BY DEF Read
<1>3. SubSeq(capture, 1, position + 1) = Append(SubSeq(capture, 1, position), capture[position + 1])
  OBVIOUS
<1>4. QED
  BY <1>1, <1>2, <1>3 DEF Read

(* The streams that reassembly makes of the log follow the capture.        *)
LEMMA StreamsFollowPacket ==
  ASSUME CommandInv, StreamsFollow, ~crashed, capture' = capture, NEW frame \in Captured,
         NEW packet \in Parsings(frame), OnPacket(packet), Read \in Seq(Frames),
         Read' = Append(Read, frame)
  PROVE  StreamsFollow'
<1>1. /\ frame \in Frames /\ packet \in Packet
      /\ log \in Seq(Packet) /\ log' = Append(log, packet)
      /\ packet.protocol = "TCP" => packet.has_buffer
  <2>1. frame \in Frames
    BY DEF Captured, CommandInv, Control
  <2>2. QED
    BY <2>1, ParsedPacket DEF CommandInv, IInv, TypeOK, OnPacket, NullPayload
<1>2. SUFFICES ASSUME NEW key \in FlowKey, NEW from \in Endpoint, NEW to \in Endpoint,
                      Ends(key, "TCP", from, to), Certain("TCP", from, to)
               PROVE  StreamFollows(key, from, to)'
  BY CertainStays DEF StreamsFollow, Ends
<1>3. Settled(frame) \/ Elsewhere(frame, "TCP", from, to)
  BY <1>2 DEF Certain, Captured
<1> DEFINE segments == FramesOf(Read, "TCP", from, to)
           r == Reassembled(log, key, from)
<1>4. segments \in Seq(Frames) /\ r \in Reassembler /\ Follows(segments, r)
  BY <1>1, <1>2, FramesSteps, ReassembledType DEF StreamsFollow, StreamFollows
<1>5. FramesOf(Append(Read, frame), "TCP", from, to)
        = IF Between(frame, "TCP", from, to) THEN Append(segments, frame) ELSE segments
  <2>1. FramesOf(Append(Read, frame), "TCP", from, to) = Chosen(segments, frame, "TCP", from, to)
    BY <1>1, FramesSteps
  <2>2. QED
    BY <2>1 DEF Chosen
<1>6. Reassembled(Append(log, packet), key, from)
        = IF Own(packet, key, from) THEN AddSegment(r, packet) ELSE r
  BY <1>1, ReassembledSteps
<1> HIDE DEF segments, r
<1>7. Follows(FramesOf(Append(Read, frame), "TCP", from, to),
              Reassembled(Append(log, packet), key, from))
  <2>1. Between(frame, "TCP", from, to) <=> Own(packet, key, from)
    BY <1>1, <1>2, <1>3, OwnFrame
  <2>2. CASE Between(frame, "TCP", from, to)
    <3>1. /\ packet.tcp_seq = frame.tcp_seq /\ packet.payload # <<>>
          /\ frame.missing = 0 => packet.payload = frame.data \o frame.padding
      BY <1>1, <1>3, <2>2, CertainFrame
    <3>2. Follows(Append(segments, frame), AddSegment(r, packet))
      BY <1>1, <1>4, <3>1, FollowsStep
    <3>3. QED
      BY <1>5, <1>6, <2>1, <2>2, <3>2
  <2>3. CASE ~Between(frame, "TCP", from, to)
    BY <1>4, <1>5, <1>6, <2>1, <2>3
  <2>4. QED
    BY <2>2, <2>3
<1>8. QED
  BY <1>1, <1>7 DEF StreamFollows

(* So do the datagrams, as long as none is without a payload.              *)
LEMMA DatagramsFollowPacket ==
  ASSUME CommandInv, DatagramsFollow, ~crashed, capture' = capture, NEW frame \in Captured,
         NEW packet \in Parsings(frame), OnPacket(packet), Read \in Seq(Frames),
         Read' = Append(Read, frame)
  PROVE  DatagramsFollow'
<1>1. /\ frame \in Frames /\ packet \in Packet /\ packet.timestamp_us = frame.timestamp_us
      /\ log \in Seq(Packet) /\ log' = Append(log, packet)
  <2>1. frame \in Frames
    BY DEF Captured, CommandInv, Control
  <2>2. QED
    BY <2>1, ParsedPacket DEF CommandInv, IInv, TypeOK, OnPacket
<1>2. SUFFICES ASSUME NoneBare(log'), NEW key \in FlowKey, NEW from \in Endpoint, NEW to \in Endpoint,
                      Ends(key, "UDP", from, to), Certain("UDP", from, to)
               PROVE  DatagramsFollowFrames(key, from, to)'
  BY CertainStays DEF DatagramsFollow, Ends, NoneBare
<1>3. Settled(frame) \/ Elsewhere(frame, "UDP", from, to)
  BY <1>2 DEF Certain, Captured
<1>4. NoneBare(log) /\ packet.has_buffer
  <2>1. /\ \A i \in DOMAIN log : i \in DOMAIN log' /\ log'[i] = log[i]
        /\ Len(log) + 1 \in DOMAIN log' /\ log'[Len(log) + 1] = packet
    BY <1>1
  <2>2. QED
    BY <1>2, <2>1 DEF NoneBare
<1> DEFINE frames == FramesOf(Read, "UDP", from, to)
           datagrams == DatagramsOf(log, key)
           more == FramesOf(Append(Read, frame), "UDP", from, to)
           longer == DatagramsOf(Append(log, packet), key)
<1>5. frames \in Seq(Frames) /\ datagrams \in Seq(Packet) /\ (Whole(frames) => Pairs(frames, datagrams, from, to))
  BY <1>1, <1>2, <1>4, FramesSteps, DatagramsKept DEF DatagramsFollow, DatagramsFollowFrames
<1>6. more = IF Between(frame, "UDP", from, to) THEN Append(frames, frame) ELSE frames
  <2>1. more = Chosen(frames, frame, "UDP", from, to)
    BY <1>1, FramesSteps
  <2>2. QED
    BY <2>1 DEF Chosen
<1>7. longer = IF Conversation(packet) = Conversation(key) THEN Append(datagrams, packet) ELSE datagrams
  BY <1>1, DatagramsSteps DEF Kept
<1> HIDE DEF frames, datagrams, more, longer
<1>8. Between(frame, "UDP", from, to) <=>
        /\ Conversation(packet) = Conversation(key)
        /\ packet.src = from /\ packet.dst = to
  BY <1>1, <1>2, <1>3, <1>4, OwnFrame
<1>9. ASSUME Whole(more) PROVE Pairs(more, longer, from, to)
  <2>1. CASE Between(frame, "UDP", from, to)
    <3>1. more = Append(frames, frame) /\ longer = Append(datagrams, packet)
          /\ packet.src = from /\ packet.dst = to
      BY <1>6, <1>7, <1>8, <2>1
    <3>2. /\ \A i \in DOMAIN frames : i \in DOMAIN more /\ more[i] = frames[i]
          /\ Len(frames) + 1 \in DOMAIN more /\ more[Len(frames) + 1] = frame
      BY <1>5, <3>1
    <3>3. Whole(frames) /\ frame.missing = 0 /\ frame.padding = <<>>
      BY <1>9, <3>2 DEF Whole
    <3>4. packet.payload = frame.data
      <4>1. frame.missing = 0 => packet.payload = frame.data \o frame.padding
        BY <1>1, <1>3, <1>4, <2>1, CertainFrame, Zenon
      <4>2. frame.data \in Seq(Nat)
        BY <1>1, FrameFields
      <4>3. QED
        BY <3>3, <4>1, <4>2
    <3>5. QED
      BY <1>1, <1>5, <3>1, <3>3, <3>4, PairsBoth
  <2>2. CASE ~Between(frame, "UDP", from, to)
    <3>1. more = frames /\ Pairs(frames, datagrams, from, to)
      BY <1>5, <1>6, <1>9, <2>2
    <3>2. CASE Conversation(packet) = Conversation(key)
      <4>1. ~(packet.src = from /\ packet.dst = to) /\ longer = Append(datagrams, packet)
        BY <1>7, <1>8, <2>2, <3>2
      <4>2. QED
        BY <1>1, <1>5, <3>1, <4>1, PairsOther
    <3>3. CASE Conversation(packet) # Conversation(key)
      BY <1>7, <3>1, <3>3
    <3>4. QED
      BY <3>2, <3>3
  <2>3. QED
    BY <2>1, <2>2
<1>10. QED
  BY <1>1, <1>9 DEF DatagramsFollowFrames, more, longer

(* One more function to spread is one more part to join.                   *)
LEMMA SpreadAdded ==
  ASSUME NEW E, NEW s \in Seq(E), NEW t \in Seq(E), NEW f, SameValues(Spread(f), s),
         NEW x, x \notin DOMAIN f, NEW g, DOMAIN g = DOMAIN f \cup {x}, g[x] = t,
         \A y \in DOMAIN f : g[y] = f[y]
  PROVE  SameValues(Spread(g), s \o t)
<1> DEFINE A == DOMAIN Spread(f)
           B == {x} \X DOMAIN t
           n == Len(s)
           m == Len(t)
           C == 1 .. n
           D == n + 1 .. n + m
           F == Spread(g)
           G == s \o t
<1>1. /\ n \in Nat /\ m \in Nat /\ DOMAIN s = C /\ DOMAIN t = 1 .. m
      /\ DOMAIN G = C \cup D
      /\ \A i \in 1 .. n : G[i] = s[i]
      /\ \A i \in 1 .. m : G[n + i] = t[i]
  BY JoinedPlaces
<1> HIDE DEF n, m, G
<1>2. C \cap D = {}
  BY <1>1
<1>3. \A p \in A : p = <<p[1], p[2]>> /\ p[1] \in DOMAIN f /\ p[2] \in DOMAIN f[p[1]]
  BY SpreadAt
<1>4. A \cap B = {}
  BY <1>3
<1>5. ASSUME NEW p \in A PROVE p \in DOMAIN F /\ F[p] = Spread(f)[p]
  <2>1. p = <<p[1], p[2]>> /\ p[1] \in DOMAIN f /\ p[2] \in DOMAIN f[p[1]]
        /\ Spread(f)[p] = f[p[1]][p[2]]
    BY SpreadAt
  <2>2. p[1] \in DOMAIN g /\ g[p[1]] = f[p[1]]
    BY <2>1
  <2>3. <<p[1], p[2]>> \in DOMAIN F /\ F[<<p[1], p[2]>>] = g[p[1]][p[2]]
    BY <2>1, <2>2, SpreadAt
  <2>4. QED
    BY <2>1, <2>2, <2>3
<1>6. \A q \in 1 .. m : <<x, q>> \in DOMAIN F /\ F[<<x, q>>] = t[q]
  BY <1>1, SpreadAt
<1>7. DOMAIN F = A \cup B
  <2>1. ASSUME NEW p \in DOMAIN F PROVE p \in A \cup B
    <3>1. p = <<p[1], p[2]>> /\ p[1] \in DOMAIN g /\ p[2] \in DOMAIN g[p[1]]
      BY SpreadAt
    <3>2. CASE p[1] = x
      BY <3>1, <3>2
    <3>3. CASE p[1] \in DOMAIN f
      <4>1. p[2] \in DOMAIN f[p[1]]
        BY <3>1, <3>3
      <4>2. <<p[1], p[2]>> \in A
        BY <3>3, <4>1, SpreadAt
      <4>3. QED
        BY <3>1, <4>2
    <3>4. QED
      BY <3>1, <3>2, <3>3
  <2>2. B \subseteq DOMAIN F
    BY <1>1, <1>6
  <2>3. A \subseteq DOMAIN F
    BY <1>5
  <2> HIDE DEF A, B, F
  <2>4. QED
    BY <2>1, <2>2, <2>3
<1>8. SameValues(Restrict(F, A), Restrict(G, C))
  <2>1. Restrict(F, A) = Spread(f)
    <3>1. Spread(f) = [p \in A |-> Spread(f)[p]]
      BY DEF Spread
    <3>2. [p \in A |-> Spread(f)[p]] = [p \in A |-> F[p]]
      BY <1>5
    <3>3. QED
      BY <3>1, <3>2 DEF Restrict
  <2>2. Restrict(G, C) = s
    <3>1. s = [i \in C |-> s[i]]
      BY <1>1
    <3>2. [i \in C |-> s[i]] = [i \in C |-> G[i]]
      BY <1>1
    <3>3. QED
      BY <3>1, <3>2 DEF Restrict
  <2>3. QED
    BY <2>1, <2>2
<1>9. SameValues(Restrict(F, B), Restrict(G, D))
  <2> DEFINE c == [p \in B |-> n + p[2]]
             f1 == Restrict(F, B)
             g1 == Restrict(G, D)
  <2>1. \A p \in B : p = <<x, p[2]>> /\ p[2] \in 1 .. m
    BY <1>1
  <2>2. \A p \in B : c[p] = n + p[2] /\ c[p] \in D
    BY <1>1, <2>1
  <2>3. c \in [B -> D]
    BY <2>2
  <2>4. DOMAIN f1 = B /\ (\A p \in B : f1[p] = F[p]) /\ DOMAIN g1 = D /\ (\A i \in D : g1[i] = G[i])
    BY DEF Restrict
  <2>5. ASSUME NEW p \in B, NEW q \in B, c[p] = c[q] PROVE p = q
    <3>1. p[2] = q[2]
      BY <1>1, <2>1, <2>2, <2>5
    <3>2. QED
      BY <2>1, <3>1
  <2>6. ASSUME NEW i \in D PROVE \E p \in B : c[p] = i
    <3>1. i - n \in 1 .. m /\ n + (i - n) = i
      BY <1>1
    <3>2. <<x, i - n>> \in B
      BY <1>1, <3>1
    <3>3. c[<<x, i - n>>] = i
      BY <2>2, <3>1, <3>2
    <3>4. QED
      BY <3>2, <3>3
  <2>7. ASSUME NEW p \in B PROVE g1[c[p]] = f1[p]
    <3>1. F[p] = t[p[2]]
      BY <1>6, <2>1
    <3>2. G[n + p[2]] = t[p[2]]
      BY <1>1, <2>1
    <3>3. QED
      BY <2>2, <2>4, <3>1, <3>2
  <2> HIDE DEF B, D, c, f1, g1
  <2>8. Matches(c, f1, g1)
    BY <2>3, <2>4, <2>5, <2>6, <2>7 DEF Matches
  <2>9. QED
    BY <2>8 DEF SameValues, f1, g1
<1> HIDE DEF A, B, C, D, F
<1>10. SameValues(F, G)
  BY <1>1, <1>2, <1>4, <1>7, <1>8, <1>9, SameUnion
<1>11. QED
  BY <1>10 DEF F, G

(* Sorting keeps the values.                                               *)
LEMMA SameSorted ==
  ASSUME NEW E, NEW seq \in Seq(E), NEW sorted \in Sortings(seq)
  PROVE  SameValues(seq, sorted)
<1>1. PICK p \in Bijection(DOMAIN seq, DOMAIN seq) : sorted = [i \in DOMAIN seq |-> seq[p[i]]]
  BY DEF Sortings
<1>2. /\ p \in [DOMAIN seq -> DOMAIN seq]
      /\ \A x, y \in DOMAIN seq : p[x] = p[y] => x = y
      /\ \A z \in DOMAIN seq : \E x \in DOMAIN seq : p[x] = z
  BY DEF Bijection, Injection, Surjection, IsInjective
<1>3. DOMAIN sorted = DOMAIN seq /\ \A i \in DOMAIN seq : sorted[i] = seq[p[i]]
  BY <1>1
<1>4. Matches(p, sorted, seq)
  BY <1>2, <1>3 DEF Matches
<1>5. SameValues(sorted, seq)
  BY <1>4 DEF SameValues
<1>6. QED
  BY <1>5, SameSymmetric

-----------------------------------------------------------------------------
(* What Build has made of the flows it has visited.                        *)
FlowEvents(key, flow) == IF key.protocol = "TCP" THEN TcpEvents(flow) ELSE UdpEvents(flow)

(* The flows that Build has visited.                                       *)
BuiltFlows == DOMAIN flows \ unbuilt

(* The events of each.                                                     *)
EventsPerFlow == [key \in BuiltFlows |-> FlowEvents(key, flows[key])]

(* None of them had a datagram without a payload.                          *)
NoBareBuilt == \A key \in BuiltFlows : ~HasBareDatagram(flows[key])

(* Reading is over.                                                        *)
Past == pc \in {"building", "printing"} \/ Reported

(* When the whole capture has been read, the events are those of the flows *)
(* that have been visited; what is printed is of all flows.                *)
TimelineTraced ==
  /\ Past => position = Len(capture)
  /\ (pc = "printing" \/ Reported) => unbuilt = {} /\ ~crashed
  /\ (Past /\ ~crashed) => NoBareBuilt /\ SameValues(Spread(EventsPerFlow), events)

(* The inductive invariant of the theorems below: every stage of the       *)
(* command, traced back to the capture.                                    *)
TracedInv ==
  /\ CommandInv
  /\ StreamsFollow
  /\ DatagramsFollow
  /\ TimelineTraced

(* At the start nothing has been read.                                     *)
LEMMA InitTraced ==
  ASSUME InitCommand
  PROVE  TracedInv
<1>1. CommandInv
  BY InitCommandInv
<1>2. pc = "start" /\ position = 0 /\ log = <<>> /\ capture \in Seq(Frames)
  BY <1>1 DEF InitCommand, Init, CommandInv, Control
<1>3. Read = <<>>
  BY <1>2 DEF Read
<1>4. StreamsFollow
  <2>1. \A key, from, to : StreamFollows(key, from, to)
    BY <1>2, <1>3, FramesSteps, ReassembledSteps, FollowsFromNothing DEF StreamFollows
  <2>2. QED
    BY <2>1 DEF StreamsFollow
<1>5. DatagramsFollow
  <2>1. ASSUME NEW key, NEW from, NEW to PROVE DatagramsFollowFrames(key, from, to)
    <3>1. FramesOf(Read, "UDP", from, to) = <<>> /\ DatagramsOf(log, key) = <<>>
      BY <1>2, <1>3, FramesSteps, DatagramsSteps
    <3>2. DOMAIN FrameContents(<<>>) = {} /\ DOMAIN PacketContents(<<>>, from, to) = {}
      BY DEF FrameContents, PacketContents, Directed
    <3>3. Pairs(<<>>, <<>>, from, to)
      BY <3>2, SameNothing DEF Pairs
    <3>4. QED
      BY <3>1, <3>3 DEF DatagramsFollowFrames
  <2>2. QED
    BY <2>1 DEF DatagramsFollow
<1>6. TimelineTraced
  BY <1>2 DEF TimelineTraced, Past, Reported
<1>7. QED
  BY <1>1, <1>4, <1>5, <1>6 DEF TracedInv

(* A frame that is skipped is nobody's.                                    *)
LEMMA FollowsUnparsed ==
  ASSUME CommandInv, StreamsFollow, DatagramsFollow, ~crashed, NEW frame \in Captured,
         MayBeSkipped(frame), UNCHANGED <<flows, crashed, log, capture>>,
         Read \in Seq(Frames), Read' = Append(Read, frame)
  PROVE  StreamsFollow' /\ DatagramsFollow'
<1>1. frame \in Frames
  BY DEF Captured, CommandInv, Control
<1>2. ASSUME NEW proto, NEW from, NEW to, Certain(proto, from, to)
      PROVE  FramesOf(Read', proto, from, to) = FramesOf(Read, proto, from, to)
  <2>1. ~Between(frame, proto, from, to)
    <3>1. Settled(frame) \/ Elsewhere(frame, proto, from, to)
      BY <1>2 DEF Certain, Captured
    <3>2. QED
      BY <1>1, <3>1, CertainSkip
  <2>2. FramesOf(Append(Read, frame), proto, from, to)
          = Chosen(FramesOf(Read, proto, from, to), frame, proto, from, to)
    BY <1>1, FramesSteps
  <2>3. QED
    BY <2>1, <2>2 DEF Chosen
<1>3. \A key, from, to : Certain("TCP", from, to) =>
        (StreamFollows(key, from, to)' <=> StreamFollows(key, from, to))
  BY <1>2 DEF StreamFollows
<1>4. \A key, from, to : Certain("UDP", from, to) =>
        (DatagramsFollowFrames(key, from, to)' <=> DatagramsFollowFrames(key, from, to))
  BY <1>2 DEF DatagramsFollowFrames
<1>5. StreamsFollow'
  BY <1>3, CertainStays DEF StreamsFollow, Ends
<1>6. DatagramsFollow'
  BY <1>4, CertainStays DEF DatagramsFollow, Ends, NoneBare
<1>7. QED
  BY <1>5, <1>6

(* Reading a record.                                                       *)
LEMMA ReadRecordTraced ==
  ASSUME TracedInv, ReadRecord
  PROVE  TracedInv'
<1> DEFINE frame == capture[position + 1]
<1>1. /\ pc = "reading" /\ pc' = pc /\ capture' = capture /\ ~crashed
      /\ position < Len(capture) /\ position' = position + 1
  BY DEF ReadRecord
<1>2. CommandInv /\ StreamsFollow /\ DatagramsFollow
  BY DEF TracedInv
<1>3. CommandInv'
  BY <1>2, ReadRecordStep
<1>4. TimelineTraced'
  BY <1>1 DEF TimelineTraced, Past, Reported
<1>5. Read \in Seq(Frames) /\ frame \in Captured /\ Read' = Append(Read, frame)
  <2>1. capture \in Seq(Frames) /\ position \in 0 .. Len(capture)
    BY <1>2 DEF CommandInv, Control
  <2>2. position + 1 \in DOMAIN capture
    BY <1>1, <2>1
  <2>3. QED
    BY <1>1, <2>1, <2>2, ReadMore DEF Captured
<1>6. \/ \E packet \in Parsings(frame) : OnPacket(packet)
      \/ crashed' = TRUE
      \/ MayBeSkipped(frame) /\ UNCHANGED <<flows, crashed, log>>
  BY DEF ReadRecord, OnBarePacket, vars
<1> HIDE DEF frame
<1>7. StreamsFollow' /\ DatagramsFollow'
  <2>1. ASSUME NEW packet \in Parsings(frame), OnPacket(packet)
        PROVE  StreamsFollow' /\ DatagramsFollow'
    BY <1>1, <1>2, <1>5, <2>1, StreamsFollowPacket, DatagramsFollowPacket
  <2>2. CASE crashed' = TRUE
    BY <2>2 DEF StreamsFollow, DatagramsFollow
  <2>3. CASE MayBeSkipped(frame) /\ UNCHANGED <<flows, crashed, log>>
    BY <1>1, <1>2, <1>5, <2>3, FollowsUnparsed
  <2>4. QED
    BY <1>6, <2>1, <2>2, <2>3
<1>8. QED
  BY <1>3, <1>4, <1>7 DEF TracedInv

(* The steps that leave what has been read and handled alone.              *)
LEMMA FollowsOn ==
  ASSUME StreamsFollow, DatagramsFollow, ~crashed, UNCHANGED <<log, capture, position>>
  PROVE  StreamsFollow' /\ DatagramsFollow'
<1>1. Read' = Read
  BY DEF Read
<1>2. \A key, from, to : StreamFollows(key, from, to)' <=> StreamFollows(key, from, to)
  BY <1>1 DEF StreamFollows
<1>3. \A key, from, to : DatagramsFollowFrames(key, from, to)' <=> DatagramsFollowFrames(key, from, to)
  BY <1>1 DEF DatagramsFollowFrames
<1>4. StreamsFollow'
  BY <1>2, CertainStays DEF StreamsFollow, Ends
<1>5. DatagramsFollow'
  BY <1>3, CertainStays DEF DatagramsFollow, Ends, NoneBare
<1>6. QED
  BY <1>4, <1>5

(* The events of a flow that is visited are a part more.                   *)
LEMMA BuildFlowTraced ==
  ASSUME DecodesToSequences, TracedInv, BuildFlow
  PROVE  TracedInv'
<1>1. /\ pc = "building" /\ UNCHANGED <<flows, log, capture, position, exit_code>>
      /\ ~crashed
  BY DEF BuildFlow
<1>2. PICK key \in unbuilt :
        /\ unbuilt' = unbuilt \ {key}
        /\ \/ /\ ~HasBareDatagram(flows[key])
              /\ events' = events \o FlowEvents(key, flows[key])
              /\ UNCHANGED <<crashed, pc>>
           \/ crashed' = TRUE /\ UNCHANGED pc
           \/ pc' = "decoding"
  BY DEF BuildFlow, FlowEvents
<1>3. CommandInv /\ StreamsFollow /\ DatagramsFollow /\ position = Len(capture)
      /\ NoBareBuilt /\ SameValues(Spread(EventsPerFlow), events)
  BY <1>1 DEF TracedInv, TimelineTraced, Past
<1>4. CommandInv'
  BY <1>3, BuildFlowStep
<1>5. StreamsFollow' /\ DatagramsFollow'
  BY <1>1, <1>3, FollowsOn
<1>6. TimelineTraced'
  <2>1. CASE (crashed' = TRUE /\ UNCHANGED pc) \/ pc' = "decoding"
    BY <1>1, <1>3, <2>1 DEF TimelineTraced, Past, Reported
  <2>2. ASSUME ~HasBareDatagram(flows[key]), events' = events \o FlowEvents(key, flows[key]),
               UNCHANGED <<crashed, pc>>
        PROVE  TimelineTraced'
    <3>1. key \in DOMAIN flows /\ unbuilt \subseteq DOMAIN flows /\ events \in Seq(FramedEvents)
          /\ (key.protocol = "TCP" \/ key.protocol = "UDP")
      BY <1>2, <1>3 DEF CommandInv, Control, EventsOK, IInv, TypeOK
    <3>2. FlowEvents(key, flows[key]) \in Seq(FramedEvents)
      <4>1. CASE key.protocol = "TCP"
        BY <1>3, <3>1, <4>1, TcpEventsType DEF CommandInv, FlowEvents
      <4>2. CASE key.protocol = "UDP"
        BY <1>3, <2>2, <3>1, <4>2, UdpEventsType DEF CommandInv, FlowEvents
      <4>3. QED
        BY <3>1, <4>1, <4>2
    <3>3. BuiltFlows' = BuiltFlows \cup {key} /\ key \notin BuiltFlows
      BY <1>1, <1>2, <3>1 DEF BuiltFlows
    <3> DEFINE f == EventsPerFlow
               g == EventsPerFlow'
    <3>4. /\ DOMAIN f = BuiltFlows /\ \A k \in BuiltFlows : f[k] = FlowEvents(k, flows[k])
          /\ DOMAIN g = BuiltFlows' /\ \A k \in BuiltFlows' : g[k] = FlowEvents(k, flows[k])
      <4>1. EventsPerFlow = [k \in BuiltFlows |-> FlowEvents(k, flows[k])]
        BY DEF EventsPerFlow
      <4>2. EventsPerFlow' = [k \in BuiltFlows' |-> FlowEvents(k, flows[k])]
        BY <1>1 DEF EventsPerFlow, FlowEvents, TcpEvents, UdpEvents, EventsOf, Event
      <4>3. QED
        BY <4>1, <4>2
    <3> HIDE DEF f, g
    <3>5. SameValues(Spread(g), events \o FlowEvents(key, flows[key]))
      <4>1. SameValues(Spread(f), events)
        BY <1>3 DEF f
      <4>2. DOMAIN g = DOMAIN f \cup {key} /\ key \notin DOMAIN f /\ g[key] = FlowEvents(key, flows[key])
            /\ \A k \in DOMAIN f : g[k] = f[k]
        BY <3>3, <3>4
      <4>3. QED
        BY <3>1, <3>2, <4>1, <4>2, SpreadAdded
    <3>6. SameValues(Spread(g), events')
      BY <2>2, <3>5
    <3>7. SameValues(Spread(EventsPerFlow), events)'
      BY <3>6 DEF g, SameValues, Matches, Spread
    <3>8. NoBareBuilt'
      BY <1>1, <1>3, <2>2, <3>3 DEF NoBareBuilt, HasBareDatagram
    <3>9. QED
      BY <1>1, <1>3, <2>2, <3>7, <3>8 DEF TimelineTraced, Reported
  <2>3. QED
    BY <1>2, <2>1, <2>2
<1>7. QED
  BY <1>4, <1>5, <1>6 DEF TracedInv

(* Sorting keeps them, and the other steps leave them alone.               *)
LEMMA ControlTraced ==
  ASSUME TracedInv, Refuse \/ StartReading \/ EndOfCapture \/ SortEvents \/ PrintTimeline
                      \/ UNCHANGED allVars
  PROVE  TracedInv'
<1>1. UNCHANGED <<flows, crashed, log, capture, position>>
  BY DEF Refuse, StartReading, EndOfCapture, SortEvents, PrintTimeline, allVars
<1>2. CommandInv /\ StreamsFollow /\ DatagramsFollow /\ TimelineTraced
  BY DEF TracedInv
<1>3. CommandInv'
  BY <1>2, ControlStep
<1>4. StreamsFollow' /\ DatagramsFollow'
  <2>1. CASE ~crashed
    BY <1>1, <1>2, <2>1, FollowsOn
  <2>2. CASE crashed
    BY <1>1, <2>2 DEF StreamsFollow, DatagramsFollow
  <2>3. QED
    BY <2>1, <2>2
<1>5. ASSUME UNCHANGED unbuilt
      PROVE  BuiltFlows' = BuiltFlows /\ EventsPerFlow' = EventsPerFlow /\ (NoBareBuilt' <=> NoBareBuilt)
  <2>1. BuiltFlows' = BuiltFlows
    BY <1>1, <1>5 DEF BuiltFlows
  <2>2. EventsPerFlow' = EventsPerFlow
    BY <1>1, <2>1 DEF EventsPerFlow, FlowEvents, TcpEvents, UdpEvents, EventsOf, Event
  <2>3. QED
    BY <1>1, <2>1, <2>2 DEF NoBareBuilt, HasBareDatagram
<1>6. ASSUME UNCHANGED <<unbuilt, events>>
      PROVE  SameValues(Spread(EventsPerFlow), events)' <=> SameValues(Spread(EventsPerFlow), events)
  <2>1. EventsPerFlow' = EventsPerFlow /\ events' = events
    BY <1>5, <1>6
  <2>2. QED
    BY <2>1 DEF SameValues, Matches, Spread
<1>7. TimelineTraced'
  <2>1. CASE Refuse
    BY <2>1 DEF Refuse, TimelineTraced, Past, Reported
  <2>2. CASE StartReading
    BY <2>2 DEF StartReading, TimelineTraced, Past, Reported
  <2>3. CASE EndOfCapture
    <3>1. /\ position = Len(capture) /\ pc' = "building" /\ unbuilt' = DOMAIN flows
          /\ events' = <<>>
      BY <1>2, <2>3 DEF EndOfCapture, CommandInv, EventsOK
    <3>2. BuiltFlows' = {}
      BY <1>1, <3>1 DEF BuiltFlows
    <3>3. NoBareBuilt'
      BY <3>2 DEF NoBareBuilt
    <3>4. DOMAIN EventsPerFlow' = {}
      BY <3>2 DEF EventsPerFlow
    <3> DEFINE g == EventsPerFlow'
    <3>5. DOMAIN Spread(g) = {}
      <4>1. DOMAIN g = {}
        BY <3>4
      <4> HIDE DEF g
      <4>2. QED
        BY <4>1 DEF Spread
    <3>6. DOMAIN events' = {}
      BY <3>1
    <3>7. SameValues(Spread(g), events')
      <4> HIDE DEF g
      <4>1. QED
        BY <3>5, <3>6, SameNothing
    <3>8. SameValues(Spread(EventsPerFlow), events)'
      BY <3>7 DEF SameValues, Matches, Spread
    <3>9. QED
      BY <1>1, <3>1, <3>3, <3>8 DEF TimelineTraced, Reported
  <2>4. CASE SortEvents
    <3>1. /\ pc = "building" /\ pc' = "printing" /\ ~crashed /\ unbuilt = {} /\ unbuilt' = unbuilt
          /\ events' \in Sortings(events)
      BY <2>4 DEF SortEvents
    <3>2. /\ position = Len(capture) /\ NoBareBuilt /\ SameValues(Spread(EventsPerFlow), events)
          /\ events \in Seq(FramedEvents)
      BY <1>2, <3>1 DEF TimelineTraced, Past, CommandInv, EventsOK
    <3>3. SameValues(events, events')
      BY <3>1, <3>2, SameSorted
    <3> DEFINE s == Spread(EventsPerFlow)
    <3>4. SameValues(s, events')
      <4>1. SameValues(s, events)
        BY <3>2
      <4> HIDE DEF s
      <4>2. QED
        BY <3>3, <4>1, SameTransitive
    <3>5. Spread(EventsPerFlow') = s
      BY <1>5, <3>1
    <3>6. SameValues(Spread(EventsPerFlow), events)'
      <4>1. SameValues(Spread(EventsPerFlow'), events')
        BY <3>4, <3>5, Zenon
      <4>2. QED
        BY <4>1 DEF SameValues, Matches, Spread
    <3>7. QED
      BY <1>1, <1>5, <3>1, <3>2, <3>6 DEF TimelineTraced
  <2>5. CASE PrintTimeline
    BY <1>1, <1>2, <1>5, <1>6, <2>5 DEF PrintTimeline, TimelineTraced, Past, Reported
  <2>6. CASE UNCHANGED allVars
    BY <1>1, <1>2, <1>5, <1>6, <2>6 DEF allVars, TimelineTraced, Past, Reported
  <2>7. QED
    BY <2>1, <2>2, <2>3, <2>4, <2>5, <2>6
<1>8. QED
  BY <1>3, <1>4, <1>7 DEF TracedInv

(* What has been read, handled and built can be traced to the capture in   *)
(* every reachable state.                                                  *)
THEOREM Traced ==
  ASSUME DecodesToSequences
  PROVE  SpecCommand => []TracedInv
<1>1. InitCommand => TracedInv
  BY InitTraced
<1>2. TracedInv /\ [NextCommand]_allVars => TracedInv'
  BY ReadRecordTraced, BuildFlowTraced, ControlTraced DEF NextCommand
<1>3. QED
  BY <1>1, <1>2, PTL DEF SpecCommand

-----------------------------------------------------------------------------
(* What the events say.                                                    *)
Messages(f) == [i \in DOMAIN f |-> f[i].message]

(* The same events say the same.                                           *)
LEMMA SameMessages ==
  ASSUME NEW f, NEW g, SameValues(f, g)
  PROVE  SameValues(Messages(f), Messages(g))
<1>1. PICK c : Matches(c, f, g)
  BY DEF SameValues
<1>2. Matches(c, Messages(f), Messages(g))
  BY <1>1 DEF Matches, Messages
<1>3. QED
  BY <1>2 DEF SameValues

(* The events that one endpoint told another, and those of a flow's two.   *)
Told(transport, from, to) ==
  {e \in Events : e.transport = transport /\ e.src = from /\ e.dst = to}

(* The events between the two endpoints of a flow.                         *)
Concerning(key) ==
  {e \in Events : e.transport = key.protocol /\ {e.src, e.dst} = {key.src, key.dst}}

(* The messages of bytes are told by the one they came from.               *)
LEMMA EventsOfTold ==
  ASSUME DecodesToSequences, NEW bytes \in Seq(Nat), NEW ts \in Nat,
         NEW transport \in {"TCP", "UDP"}, NEW src \in Endpoint, NEW dst \in Endpoint
  PROVE  LET told == EventsOf(Decode(bytes), ts, transport, src, dst)
         IN  /\ told \in Seq(Told(transport, src, dst))
             /\ DOMAIN told = DOMAIN Decode(bytes)
             /\ \A i \in DOMAIN told : told[i].message = Decode(bytes)[i]
<1>1. PICK n \in Nat : DOMAIN Decode(bytes) = 1 .. n
  BY DEF DecodesToSequences
<1>2. ASSUME NEW i \in 1 .. n
      PROVE  /\ Event(ts, transport, src, dst, Decode(bytes)[i]) \in Told(transport, src, dst)
             /\ Event(ts, transport, src, dst, Decode(bytes)[i]).message = Decode(bytes)[i]
  <2> DEFINE message == Decode(bytes)[i]
             e == Event(ts, transport, src, dst, message)
  <2>1. message \in Message
    BY DEF Message
  <2> HIDE DEF message
  <2>2. /\ e.transport = transport /\ e.src = src /\ e.dst = dst /\ e.message = message
        /\ e \in Events
    BY <2>1 DEF Event, Events
  <2> HIDE DEF e
  <2>3. QED
    BY <2>2 DEF Told, e, message
<1>3. EventsOf(Decode(bytes), ts, transport, src, dst)
        = [i \in 1 .. n |-> Event(ts, transport, src, dst, Decode(bytes)[i])]
  BY <1>1 DEF EventsOf
<1>4. QED
  BY <1>1, <1>2, <1>3

(* Sequences over a larger set.                                            *)
LEMMA LargerSet ==
  ASSUME NEW A, NEW B, A \subseteq B, NEW s \in Seq(A)
  PROVE  s \in Seq(B)
OBVIOUS

(* The events of a TCP flow in one direction are the messages of the bytes *)
(* that were reassembled from that endpoint's packets.                     *)
LEMMA TcpFlowTold ==
  ASSUME DecodesToSequences, IInv, FlowsFromLog, NEW key \in DOMAIN flows,
         NEW from \in Endpoint, NEW to \in Endpoint, Ends(key, "TCP", from, to)
  PROVE  SameValues(EventsOf(Decode(Reassembled(log, key, from).stream), flows[key].first_seen,
                             "TCP", from, to),
                    Within(TcpEvents(flows[key]), Told("TCP", from, to)))
<1> DEFINE flow == flows[key]
           s == EventsOf(Decode(flow.client_to_server.stream), flow.first_seen, "TCP", key.src, key.dst)
           t == EventsOf(Decode(flow.server_to_client.stream), flow.first_seen, "TCP", key.dst, key.src)
           V == Told("TCP", from, to)
<1>1. /\ flow \in TcpFlow /\ flow.key = key /\ key \in FlowKey
      /\ flow.client_to_server = Reassembled(log, key, key.src)
      /\ key.dst # key.src => flow.server_to_client = Reassembled(log, key, key.dst)
      /\ FromLog(log, flow, key)
  BY DEF IInv, TypeOK, KeysNormalized, FlowsHoldTheirPackets, FlowsFromLog, Ends
<1>2. {key.src, key.dst} = {from, to} /\ key.protocol = "TCP"
  BY DEF Ends
<1> HIDE DEF flow
<1>3. /\ flow.client_to_server.stream \in Seq(Nat) /\ flow.server_to_client.stream \in Seq(Nat)
      /\ flow.first_seen \in Nat /\ key.src \in Endpoint /\ key.dst \in Endpoint
  BY <1>1 DEF TcpFlow, Reassembler, FlowKey
<1>4. s \in Seq(Told("TCP", key.src, key.dst)) /\ t \in Seq(Told("TCP", key.dst, key.src))
  BY <1>3, EventsOfTold
<1>5. TcpEvents(flow) = s \o t
  BY <1>1 DEF TcpEvents
<1>6. key.dst = key.src => DOMAIN t = {}
  <2>1. SUFFICES ASSUME key.dst = key.src PROVE DOMAIN t = {}
    OBVIOUS
  <2>2. flow.server_to_client.stream = <<>>
    BY <1>1, <1>2, <2>1 DEF FromLog
  <2>3. t = <<>>
    BY <2>2, NoEvents
  <2>4. QED
    BY <2>3
<1> HIDE DEF s, t
<1>7. s \in Seq(Events) /\ t \in Seq(Events)
  <2>1. \A a, b : Told("TCP", a, b) \subseteq Events
    BY DEF Told
  <2>2. QED
    BY <1>4, <2>1, LargerSet
<1>8. /\ \A i \in DOMAIN s : s[i] \in Told("TCP", key.src, key.dst)
      /\ \A i \in DOMAIN t : t[i] \in Told("TCP", key.dst, key.src)
  BY <1>4
<1>9. CASE from = key.src
  <2>1. to = key.dst
    BY <1>2, <1>9
  <2>2. \A i \in DOMAIN s : s[i] \in V
    BY <1>8, <1>9, <2>1
  <2>3. \A i \in DOMAIN t : t[i] \notin V
    <3>1. CASE key.dst = key.src
      BY <1>6, <3>1
    <3>2. CASE key.dst # key.src
      BY <1>8, <1>9, <3>2 DEF Told
    <3>3. QED
      BY <3>1, <3>2
  <2> HIDE DEF V
  <2>4. SameValues(s, Within(s \o t, V))
    BY <1>7, <2>2, <2>3, OnlyFirst
  <2>5. QED
    BY <1>1, <1>5, <1>9, <2>1, <2>4 DEF s, V, flow
<1>10. CASE from # key.src
  <2>1. from = key.dst /\ to = key.src /\ key.dst # key.src
    BY <1>2, <1>10
  <2>2. \A i \in DOMAIN t : t[i] \in V
    BY <1>8, <2>1
  <2>3. \A i \in DOMAIN s : s[i] \notin V
    BY <1>8, <2>1 DEF Told
  <2> HIDE DEF V
  <2>4. SameValues(t, Within(s \o t, V))
    BY <1>7, <2>2, <2>3, OnlySecond
  <2>5. QED
    BY <1>1, <1>5, <2>1, <2>4 DEF t, V, flow
<1>11. QED
  BY <1>9, <1>10

(* The events of each datagram.                                            *)
DatagramEvents(datagrams) ==
  [i \in DOMAIN datagrams |->
    EventsOf(Decode(datagrams[i].payload), datagrams[i].timestamp_us, "UDP",
             datagrams[i].src, datagrams[i].dst)]

(* They are told by the datagram's sender to its receiver.                 *)
LEMMA DatagramEventsTold ==
  ASSUME DecodesToSequences, NEW datagrams \in Seq(Packet)
  PROVE  /\ DatagramEvents(datagrams) \in Seq(Seq(Events))
         /\ \A i \in DOMAIN datagrams :
              DatagramEvents(datagrams)[i] \in Seq(Told("UDP", datagrams[i].src, datagrams[i].dst))
<1> DEFINE shown == DatagramEvents(datagrams)
<1>1. \A src, dst : Told("UDP", src, dst) \subseteq Events
  BY DEF Told
<1>2. ASSUME NEW i \in DOMAIN datagrams
      PROVE  /\ shown[i] \in Seq(Told("UDP", datagrams[i].src, datagrams[i].dst))
             /\ shown[i] \in Seq(Events)
  <2> DEFINE d == datagrams[i]
  <2>1. d \in Packet
    OBVIOUS
  <2> HIDE DEF d
  <2>2. /\ d.payload \in Seq(Nat) /\ d.timestamp_us \in Nat
        /\ d.src \in Endpoint /\ d.dst \in Endpoint
    BY <2>1 DEF Packet
  <2>3. EventsOf(Decode(d.payload), d.timestamp_us, "UDP", d.src, d.dst) \in Seq(Told("UDP", d.src, d.dst))
    BY <2>2, EventsOfTold
  <2>4. shown[i] = EventsOf(Decode(d.payload), d.timestamp_us, "UDP", d.src, d.dst)
    BY DEF d, DatagramEvents
  <2>5. shown[i] \in Seq(Told("UDP", d.src, d.dst))
    BY <2>3, <2>4
  <2>6. shown[i] \in Seq(Events)
    BY <1>1, <2>5, LargerSet
  <2>7. QED
    BY <2>5, <2>6 DEF d
<1>3. shown \in Seq(Seq(Events))
  <2>1. DOMAIN shown = DOMAIN datagrams /\ shown = [i \in DOMAIN datagrams |-> shown[i]]
    BY DEF DatagramEvents
  <2>2. \E n \in Nat : DOMAIN datagrams = 1 .. n
    OBVIOUS
  <2> HIDE DEF shown
  <2>3. QED
    BY <1>2, <2>1, <2>2
<1>4. QED
  BY <1>2, <1>3

(* A flow's events are of its protocol and between its endpoints.          *)
LEMMA FlowEventsConcern ==
  ASSUME DecodesToSequences, IInv, FlowsFromLog, NEW key \in DOMAIN flows
  PROVE  /\ FlowEvents(key, flows[key]) \in Seq(Concerning(key))
         /\ key.protocol = "UDP" =>
              FlowEvents(key, flows[key]) = FlattenSeq(DatagramEvents(DatagramsOf(log, key)))
<1> DEFINE flow == flows[key]
<1>1. key \in FlowKey /\ flow.key = key /\ FromLog(log, flow, key)
  BY DEF IInv, TypeOK, KeysNormalized, FlowsFromLog
<1>2. CASE key.protocol = "TCP"
  <2> DEFINE s == EventsOf(Decode(flow.client_to_server.stream), flow.first_seen, "TCP", key.src, key.dst)
             t == EventsOf(Decode(flow.server_to_client.stream), flow.first_seen, "TCP", key.dst, key.src)
  <2>1. flow \in TcpFlow
    BY <1>2 DEF IInv, TypeOK
  <2> HIDE DEF flow
  <2>2. /\ flow.client_to_server.stream \in Seq(Nat) /\ flow.server_to_client.stream \in Seq(Nat)
        /\ flow.first_seen \in Nat /\ key.src \in Endpoint /\ key.dst \in Endpoint
    BY <1>1, <2>1 DEF TcpFlow, Reassembler, FlowKey
  <2>3. s \in Seq(Told("TCP", key.src, key.dst)) /\ t \in Seq(Told("TCP", key.dst, key.src))
    BY <2>2, EventsOfTold
  <2>4. /\ Told("TCP", key.src, key.dst) \subseteq Concerning(key)
        /\ Told("TCP", key.dst, key.src) \subseteq Concerning(key)
    BY <1>2 DEF Told, Concerning
  <2>5. TcpEvents(flow) = s \o t
    BY <1>1 DEF TcpEvents
  <2> HIDE DEF s, t
  <2>6. s \in Seq(Concerning(key)) /\ t \in Seq(Concerning(key))
    BY <2>3, <2>4, LargerSet
  <2>7. QED
    BY <1>2, <2>5, <2>6 DEF FlowEvents, flow
<1>3. CASE key.protocol = "UDP"
  <2>1. flow \in UdpFlow /\ flow.datagrams = DatagramsOf(log, key)
    BY <1>3 DEF IInv, TypeOK, FlowsHoldTheirPackets
  <2> HIDE DEF flow
  <2> DEFINE shown == DatagramEvents(flow.datagrams)
  <2>2. flow.datagrams \in Seq(Packet)
    BY <2>1 DEF UdpFlow
  <2>3. ASSUME NEW i \in DOMAIN flow.datagrams PROVE shown[i] \in Seq(Concerning(key))
    <3>1. Conversation(flow.datagrams[i]) = Conversation(key)
      BY <1>1, <1>3 DEF FromLog
    <3>2. Told("UDP", flow.datagrams[i].src, flow.datagrams[i].dst) \subseteq Concerning(key)
      BY <1>3, <3>1 DEF Told, Concerning, Conversation
    <3>3. shown[i] \in Seq(Told("UDP", flow.datagrams[i].src, flow.datagrams[i].dst))
      BY <2>2, DatagramEventsTold
    <3> HIDE DEF shown
    <3>4. QED
      BY <3>2, <3>3, LargerSet
  <2>4. shown \in Seq(Seq(Concerning(key)))
    <3>1. DOMAIN shown = DOMAIN flow.datagrams /\ shown = [i \in DOMAIN flow.datagrams |-> shown[i]]
      BY DEF DatagramEvents
    <3>2. \E n \in Nat : DOMAIN flow.datagrams = 1 .. n
      BY <2>2
    <3> HIDE DEF shown
    <3>3. QED
      BY <2>3, <3>1, <3>2
  <2>5. UdpEvents(flow) = FlattenSeq(shown)
    BY DEF UdpEvents, DatagramEvents
  <2> HIDE DEF shown
  <2>6. FlattenSeq(shown) \in Seq(Concerning(key))
    BY <2>4, FlattenType
  <2>7. FlowEvents(key, flow) = FlattenSeq(shown)
    BY <1>3, <2>5 DEF FlowEvents
  <2>8. QED
    BY <2>1, <2>6, <2>7 DEF shown, flow
<1>4. QED
  BY <1>2, <1>3 DEF IInv, TypeOK

-----------------------------------------------------------------------------
(* When the command has reported, all has been read and built.             *)
LEMMA AtTheEnd ==
  ASSUME TracedInv, Reported
  PROVE  /\ Read = capture /\ capture \in Seq(Frames) /\ ~crashed
         /\ events \in Seq(Events)
         /\ DOMAIN EventsPerFlow = DOMAIN flows
         /\ \A key \in DOMAIN flows : EventsPerFlow[key] = FlowEvents(key, flows[key])
         /\ \A key \in DOMAIN flows : ~HasBareDatagram(flows[key])
         /\ SameValues(Spread(EventsPerFlow), events)
<1>1. /\ position = Len(capture) /\ unbuilt = {} /\ ~crashed
      /\ NoBareBuilt /\ SameValues(Spread(EventsPerFlow), events)
  BY DEF TracedInv, TimelineTraced, Past
<1>2. capture \in Seq(Frames) /\ events \in Seq(FramedEvents)
  BY DEF TracedInv, CommandInv, Control, EventsOK
<1>3. Read = capture
  BY <1>1, <1>2 DEF Read
<1>4. BuiltFlows = DOMAIN flows
  BY <1>1 DEF BuiltFlows
<1>5. events \in Seq(Events)
  <2>1. FramedEvents \subseteq Events
    BY DEF FramedEvents
  <2>2. QED
    BY <1>2, <2>1, LargerSet
<1>6. EventsPerFlow = [key \in DOMAIN flows |-> FlowEvents(key, flows[key])]
  BY <1>4 DEF EventsPerFlow
<1>7. QED
  BY <1>1, <1>2, <1>3, <1>4, <1>5, <1>6 DEF NoBareBuilt

(* Of all flows, only the one of the conversation puts events of that      *)
(* conversation into the timeline.                                         *)
LEMMA TimelineOfFlow ==
  ASSUME DecodesToSequences, TracedInv, Reported, NEW proto, NEW from, NEW to,
         NEW key \in DOMAIN flows, Ends(key, proto, from, to)
  PROVE  SameValues(Within(FlowEvents(key, flows[key]), Told(proto, from, to)),
                    Within(events, Told(proto, from, to)))
<1> DEFINE V == Told(proto, from, to)
           f == EventsPerFlow
<1>1. /\ DOMAIN f = DOMAIN flows
      /\ \A k \in DOMAIN flows : f[k] = FlowEvents(k, flows[k])
      /\ SameValues(Spread(f), events)
  BY AtTheEnd
<1>2. IInv /\ FlowsFromLog
  BY DEF TracedInv, CommandInv
<1>3. ASSUME NEW k \in DOMAIN flows, k # key
      PROVE  \A i \in DOMAIN f[k] : f[k][i] \notin V
  <2>1. /\ k \in FlowKey /\ Normalized(k) = k /\ key \in FlowKey /\ Normalized(key) = key
    BY <1>2 DEF IInv, TypeOK, KeysNormalized
  <2>2. Conversation(k) # Conversation(key)
    BY <1>3, <2>1, NormalizedUnique
  <2>3. {k.src, k.dst} # {from, to} \/ k.protocol # proto
    BY <2>2 DEF Conversation, Ends
  <2>4. f[k] \in Seq(Concerning(k))
    BY <1>1, <1>2, FlowEventsConcern
  <2> HIDE DEF f
  <2>5. \A i \in DOMAIN f[k] : f[k][i] \in Concerning(k)
    BY <2>4
  <2>6. QED
    BY <2>3, <2>5 DEF Concerning, Told
<1> HIDE DEF f, V
<1>4. SameValues(Within(f[key], V), Within(Spread(f), V))
  BY <1>1, <1>3, OnlyOne
<1>5. SameValues(Within(Spread(f), V), Within(events, V))
  BY <1>1, SameWithin
<1>6. SameValues(Within(f[key], V), Within(events, V))
  BY <1>4, <1>5, SameTransitive
<1>7. QED
  BY <1>1, <1>6 DEF V

(* Where there is no flow, there is no event.                              *)
LEMMA TimelineOfNone ==
  ASSUME DecodesToSequences, TracedInv, Reported, NEW proto, NEW from, NEW to,
         \A key \in DOMAIN flows : ~Ends(key, proto, from, to)
  PROVE  DOMAIN Within(events, Told(proto, from, to)) = {}
<1> DEFINE V == Told(proto, from, to)
           f == EventsPerFlow
<1>1. /\ DOMAIN f = DOMAIN flows
      /\ \A k \in DOMAIN flows : f[k] = FlowEvents(k, flows[k])
      /\ SameValues(Spread(f), events)
  BY AtTheEnd
<1>2. ASSUME NEW k \in DOMAIN f
      PROVE  \A i \in DOMAIN f[k] : f[k][i] \notin V
  <2>1. f[k] \in Seq(Concerning(k))
    BY <1>1, FlowEventsConcern DEF TracedInv, CommandInv
  <2>2. {k.src, k.dst} # {from, to} \/ k.protocol # proto
    BY <1>1 DEF Ends
  <2> HIDE DEF f
  <2>3. \A i \in DOMAIN f[k] : f[k][i] \in Concerning(k)
    BY <2>1
  <2>4. QED
    BY <2>2, <2>3 DEF Concerning, Told
<1> HIDE DEF f, V
<1>3. DOMAIN Within(Spread(f), V) = {}
  BY <1>2, NotOne
<1>4. SameValues(Within(Spread(f), V), Within(events, V))
  BY <1>1, SameWithin
<1>5. DOMAIN Within(events, V) = {}
  BY <1>3, <1>4, SameAsNothing
<1>6. QED
  BY <1>5 DEF V

(* Every two endpoints have a key, and where there is no flow for it there *)
(* is no packet.                                                           *)
LEMMA SomeKey ==
  ASSUME IInv, NEW proto \in {"TCP", "UDP"}, NEW from \in Endpoint, NEW to \in Endpoint
  PROVE  \/ \E key \in DOMAIN flows : Ends(key, proto, from, to)
         \/ /\ \A key \in DOMAIN flows : ~Ends(key, proto, from, to)
            /\ \E key \in FlowKey :
                 /\ Ends(key, proto, from, to)
                 /\ \A i \in DOMAIN log : Conversation(log[i]) # Conversation(key)
<1> DEFINE key == [src |-> from, dst |-> to, protocol |-> proto]
<1>1. key \in FlowKey /\ Ends(key, proto, from, to)
  BY DEF FlowKey, Protocol, Ends
<1>2. Conversation(key) = <<{from, to}, proto>>
  BY DEF Conversation
<1> HIDE DEF key
<1>3. SUFFICES ASSUME \A k \in DOMAIN flows : ~Ends(k, proto, from, to)
               PROVE  \A i \in DOMAIN log : Conversation(log[i]) # Conversation(key)
  BY <1>1
<1>4. \A k \in DOMAIN flows : Conversation(k) # Conversation(key)
  BY <1>2, <1>3 DEF Ends, Conversation
<1>5. \A i \in DOMAIN log : \E k \in DOMAIN flows : Conversation(k) = Conversation(log[i])
  BY DEF IInv, FlowsCoverLog
<1>6. QED
  BY <1>4, <1>5

(* What is printed of a direction is what its reassembled bytes say, and   *)
(* those follow the frames of that direction.                              *)
LEMMA PrintedStream ==
  ASSUME DecodesToSequences, TracedInv, Reported, NEW from \in Endpoint, NEW to \in Endpoint,
         Certain("TCP", from, to)
  PROVE  \E r \in Reassembler :
           /\ Follows(FramesOf(capture, "TCP", from, to), r)
           /\ Printed(from, to) = BagOf(Decode(r.stream))
<1> DEFINE V == Told("TCP", from, to)
           W == Within(events, V)
<1>1. /\ Read = capture /\ ~crashed /\ events \in Seq(Events)
      /\ IInv /\ FlowsFromLog /\ StreamsFollow
  BY AtTheEnd DEF TracedInv, CommandInv
<1>2. log \in Seq(Packet)
  BY <1>1 DEF IInv, TypeOK
<1>3. Printed(from, to) = BagOf(Messages(W))
  <2>1. \A i \in DOMAIN events : events[i] \in Events
    BY <1>1
  <2>2. EventsBetween("TCP", from, to) = {i \in DOMAIN events : events[i] \in V}
    BY <2>1 DEF EventsBetween, Told
  <2>3. DOMAIN W = EventsBetween("TCP", from, to) /\ \A i \in DOMAIN W : W[i] = events[i]
    BY <2>2 DEF Within
  <2> HIDE DEF W
  <2>4. Messages(W) = [i \in EventsBetween("TCP", from, to) |-> events[i].message]
    BY <2>3 DEF Messages
  <2>5. QED
    BY <2>4 DEF Printed
<1>4. SUFFICES \E r \in Reassembler : /\ Follows(FramesOf(capture, "TCP", from, to), r)
                                      /\ SameValues(Decode(r.stream), Messages(W))
  <2>1. SUFFICES ASSUME NEW r \in Reassembler, SameValues(Decode(r.stream), Messages(W))
                 PROVE  Printed(from, to) = BagOf(Decode(r.stream))
    OBVIOUS
  <2>2. r.stream \in Seq(Nat)
    BY DEF Reassembler
  <2>3. PICK n \in Nat : DOMAIN Decode(r.stream) = 1 .. n
    BY <2>2 DEF DecodesToSequences
  <2>4. IsFiniteSet(DOMAIN Decode(r.stream))
    BY <2>3, FS_Interval
  <2> HIDE DEF W
  <2>5. BagOf(Decode(r.stream)) = BagOf(Messages(W))
    BY <2>1, <2>4, SameBag
  <2>6. QED
    BY <1>3, <2>5
<1>5. ASSUME NEW key \in DOMAIN flows, Ends(key, "TCP", from, to)
      PROVE  \E r \in Reassembler : /\ Follows(FramesOf(capture, "TCP", from, to), r)
                                    /\ SameValues(Decode(r.stream), Messages(W))
  <2> DEFINE r == Reassembled(log, key, from)
             s == EventsOf(Decode(r.stream), flows[key].first_seen, "TCP", from, to)
  <2>1. /\ key \in FlowKey /\ flows[key] \in TcpFlow
    BY <1>1, <1>5 DEF IInv, TypeOK, Ends
  <2>2. r \in Reassembler
    BY <1>2, ReassembledType
  <2>3. Follows(FramesOf(capture, "TCP", from, to), r)
    BY <1>1, <1>5, <2>1 DEF StreamsFollow, StreamFollows
  <2>4. SameValues(s, Within(TcpEvents(flows[key]), V))
    BY <1>1, <1>5, TcpFlowTold
  <2>5. SameValues(Within(TcpEvents(flows[key]), V), W)
    <3>1. FlowEvents(key, flows[key]) = TcpEvents(flows[key])
      BY <1>5 DEF FlowEvents, Ends
    <3>2. QED
      BY <1>5, <3>1, TimelineOfFlow
  <2>6. r.stream \in Seq(Nat) /\ flows[key].first_seen \in Nat
    BY <2>1, <2>2 DEF Reassembler, TcpFlow
  <2>7. DOMAIN s = DOMAIN Decode(r.stream) /\ \A i \in DOMAIN s : s[i].message = Decode(r.stream)[i]
    BY <2>6, EventsOfTold
  <2> HIDE DEF r, s, V, W
  <2>8. SameValues(s, W)
    <3> DEFINE u == Within(TcpEvents(flows[key]), V)
    <3>1. SameValues(s, u) /\ SameValues(u, W)
      BY <2>4, <2>5
    <3> HIDE DEF u
    <3>2. QED
      BY <3>1, SameTransitive
  <2>9. SameValues(Messages(s), Messages(W))
    BY <2>8, SameMessages
  <2>10. SameValues(Decode(r.stream), Messages(s))
    <3>1. DOMAIN Messages(s) = DOMAIN s /\ \A i \in DOMAIN s : Messages(s)[i] = s[i].message
      BY DEF Messages
    <3> DEFINE d == Decode(r.stream)
    <3>2. DOMAIN d = DOMAIN Messages(s) /\ \A i \in DOMAIN d : Messages(s)[i] = d[i]
      BY <2>7, <3>1
    <3> HIDE DEF d
    <3>3. SameValues(d, Messages(s))
      BY <3>2, SameAlike
    <3>4. QED
      BY <3>3 DEF d
  <2>11. SameValues(Decode(r.stream), Messages(W))
    <3> DEFINE d == Decode(r.stream)
    <3> HIDE DEF d
    <3>1. SameValues(d, Messages(s))
      BY <2>10 DEF d
    <3>2. SameValues(d, Messages(W))
      BY <2>9, <3>1, SameTransitive
    <3>3. QED
      BY <3>2 DEF d
  <2>12. QED
    BY <2>2, <2>3, <2>11
<1>6. ASSUME \A key \in DOMAIN flows : ~Ends(key, "TCP", from, to),
             NEW key \in FlowKey, Ends(key, "TCP", from, to),
             \A i \in DOMAIN log : Conversation(log[i]) # Conversation(key)
      PROVE  \E r \in Reassembler : /\ Follows(FramesOf(capture, "TCP", from, to), r)
                                    /\ SameValues(Decode(r.stream), Messages(W))
  <2>1. Reassembled(log, key, from) = NewReassembler
    BY <1>2, <1>6, NothingYet
  <2>2. Follows(FramesOf(capture, "TCP", from, to), NewReassembler)
    BY <1>1, <1>6, <2>1 DEF StreamsFollow, StreamFollows
  <2>3. DOMAIN W = {}
    BY <1>6, TimelineOfNone
  <2> HIDE DEF W
  <2>4. DOMAIN Messages(W) = {}
    BY <2>3 DEF Messages
  <2>5. Decode(NewReassembler.stream) = <<>>
    BY DecodeAssumption DEF NewReassembler
  <2>6. DOMAIN <<>> = {}
    OBVIOUS
  <2>7. SameValues(Decode(NewReassembler.stream), Messages(W))
    BY <2>4, <2>5, <2>6, SameNothing
  <2>8. QED
    BY <2>2, <2>7, NewReassemblerType
<1>7. QED
  <2> HIDE DEF W
  <2>1. "TCP" \in {"TCP", "UDP"}
    OBVIOUS
  <2>2. QED
    BY <1>1, <1>5, <1>6, <2>1, SomeKey

-----------------------------------------------------------------------------
(* Unless the command died, every handled packet had a payload: bare       *)
(* segments end it in the tracker, bare datagrams in Build.                *)
LEMMA NoneBareReported ==
  ASSUME TracedInv, Reported
  PROVE  NoneBare(log)
<1>1. /\ IInv /\ LogFromFrames
      /\ \A key \in DOMAIN flows : ~HasBareDatagram(flows[key])
  BY AtTheEnd DEF TracedInv, CommandInv
<1>2. log \in Seq(Packet)
  BY <1>1 DEF IInv, TypeOK
<1>3. ASSUME NEW i \in DOMAIN log
      PROVE  log[i].has_buffer
  <2>1. PICK key \in DOMAIN flows : Conversation(key) = Conversation(log[i])
    BY <1>1 DEF IInv, FlowsCoverLog
  <2>2. /\ key.protocol = log[i].protocol /\ flows[key].key = key
        /\ key.protocol = "TCP" \/ key.protocol = "UDP"
    BY <1>1, <2>1 DEF Conversation, IInv, TypeOK, KeysNormalized
  <2>3. CASE key.protocol = "TCP"
    BY <1>1, <2>2, <2>3 DEF LogFromFrames, HasFrame
  <2>4. CASE key.protocol = "UDP"
    <3>1. flows[key].datagrams = DatagramsOf(log, key)
      BY <1>1, <2>4 DEF IInv, FlowsHoldTheirPackets
    <3>2. PICK j \in DOMAIN flows[key].datagrams : flows[key].datagrams[j] = log[i]
      BY <1>2, <2>1, <3>1, DatagramsKept
    <3>3. ~NullPayload(flows[key].datagrams[j])
      BY <1>1, <2>2, <2>4, <3>2 DEF HasBareDatagram
    <3>4. QED
      BY <3>2, <3>3 DEF NullPayload
  <2>5. QED
    BY <2>2, <2>3, <2>4
<1>4. QED
  BY <1>3 DEF NoneBare

(* The events of a direction are those of the kept datagrams.              *)
LEMMA ToldByDatagrams ==
  ASSUME DecodesToSequences, TracedInv, Reported, NEW from \in Endpoint, NEW to \in Endpoint
  PROVE  \E key \in FlowKey :
           /\ Ends(key, "UDP", from, to)
           /\ SameValues(Within(FlattenSeq(DatagramEvents(DatagramsOf(log, key))), Told("UDP", from, to)),
                         Within(events, Told("UDP", from, to)))
<1> DEFINE W == Within(events, Told("UDP", from, to))
<1>1. IInv /\ FlowsFromLog /\ log \in Seq(Packet)
  BY DEF TracedInv, CommandInv, IInv, TypeOK
<1>2. ASSUME NEW key \in DOMAIN flows, Ends(key, "UDP", from, to)
      PROVE  /\ key \in FlowKey
             /\ SameValues(Within(FlattenSeq(DatagramEvents(DatagramsOf(log, key))), Told("UDP", from, to)), W)
  <2>1. key \in FlowKey /\ key.protocol = "UDP"
    BY <1>1, <1>2 DEF IInv, TypeOK, Ends
  <2>2. FlowEvents(key, flows[key]) = FlattenSeq(DatagramEvents(DatagramsOf(log, key)))
    BY <1>1, <2>1, FlowEventsConcern
  <2>3. SameValues(Within(FlowEvents(key, flows[key]), Told("UDP", from, to)), W)
    BY <1>2, TimelineOfFlow
  <2>4. QED
    BY <2>1, <2>2, <2>3
<1>3. ASSUME \A key \in DOMAIN flows : ~Ends(key, "UDP", from, to),
             NEW key \in FlowKey, Ends(key, "UDP", from, to),
             \A i \in DOMAIN log : Conversation(log[i]) # Conversation(key)
      PROVE  SameValues(Within(FlattenSeq(DatagramEvents(DatagramsOf(log, key))), Told("UDP", from, to)), W)
  <2>1. DatagramsOf(log, key) = <<>>
    BY <1>1, <1>3, NothingYet
  <2>2. FlattenSeq(DatagramEvents(<<>>)) = <<>>
    <3>1. DatagramEvents(<<>>) = <<>>
      BY DEF DatagramEvents
    <3>2. QED
      BY <3>1 DEF FlattenSeq
  <2>3. DOMAIN Within(<<>>, Told("UDP", from, to)) = {}
    BY DEF Within
  <2>4. DOMAIN W = {}
    BY <1>3, TimelineOfNone
  <2> HIDE DEF W
  <2>5. SameValues(Within(<<>>, Told("UDP", from, to)), W)
    BY <2>3, <2>4, SameNothing
  <2>6. QED
    BY <2>1, <2>2, <2>5
<1>4. QED
  <2> HIDE DEF W
  <2>1. "UDP" \in {"TCP", "UDP"}
    OBVIOUS
  <2>2. CASE \E key \in DOMAIN flows : Ends(key, "UDP", from, to)
    BY <1>2, <2>2 DEF W
  <2>3. CASE ~\E key \in DOMAIN flows : Ends(key, "UDP", from, to)
    <3>1. PICK key \in FlowKey : /\ Ends(key, "UDP", from, to)
                                 /\ \A i \in DOMAIN log : Conversation(log[i]) # Conversation(key)
      BY <1>1, <2>1, <2>3, SomeKey
    <3>2. QED
      BY <1>3, <2>3, <3>1 DEF W
  <2>4. QED
    BY <2>2, <2>3

(* The events that frames between two endpoints should make.               *)
FrameEvents(frames, from, to) ==
  [i \in DOMAIN frames |->
    EventsOf(Decode(frames[i].data), frames[i].timestamp_us, "UDP", from, to)]

(* They are sequences of events.                                           *)
LEMMA FrameEventsType ==
  ASSUME DecodesToSequences, NEW frames \in Seq(Frames), NEW from \in Endpoint, NEW to \in Endpoint
  PROVE  FrameEvents(frames, from, to) \in Seq(Seq(Events))
<1> DEFINE shown == FrameEvents(frames, from, to)
<1>1. ASSUME NEW i \in DOMAIN frames PROVE shown[i] \in Seq(Events)
  <2> DEFINE f == frames[i]
             bytes == f.data
  <2>1. f \in Frames
    OBVIOUS
  <2> HIDE DEF f
  <2>2. f.timestamp_us \in Nat /\ bytes \in Seq(Nat)
    BY <2>1 DEF Frames
  <2> HIDE DEF bytes
  <2>3. EventsOf(Decode(bytes), f.timestamp_us, "UDP", from, to) \in Seq(Told("UDP", from, to))
    BY <2>2, EventsOfTold
  <2>4. Told("UDP", from, to) \subseteq Events
    BY DEF Told
  <2>5. EventsOf(Decode(bytes), f.timestamp_us, "UDP", from, to) \in Seq(Events)
    BY <2>3, <2>4, LargerSet
  <2>6. shown[i] = EventsOf(Decode(bytes), f.timestamp_us, "UDP", from, to)
    BY DEF f, bytes, FrameEvents
  <2>7. QED
    BY <2>5, <2>6
<1>2. DOMAIN shown = DOMAIN frames /\ shown = [i \in DOMAIN frames |-> shown[i]]
  BY DEF FrameEvents
<1>3. \E n \in Nat : DOMAIN frames = 1 .. n
  OBVIOUS
<1> HIDE DEF shown
<1>4. shown \in Seq(Seq(Events))
  BY <1>1, <1>2, <1>3
<1>5. QED
  BY <1>4 DEF shown

(* Frames and datagrams that are paired make the same events.              *)
LEMMA PairedEvents ==
  ASSUME NEW frames, NEW datagrams, NEW from, NEW to, Pairs(frames, datagrams, from, to)
  PROVE  SameValues(FrameEvents(frames, from, to),
                    Restrict(DatagramEvents(datagrams), Directed(datagrams, from, to)))
<1> DEFINE D == Directed(datagrams, from, to)
           F == FrameContents(frames)
           G == PacketContents(datagrams, from, to)
           f == FrameEvents(frames, from, to)
           g == Restrict(DatagramEvents(datagrams), D)
<1>1. PICK c : Matches(c, F, G)
  BY DEF Pairs, SameValues
<1>2. /\ DOMAIN F = DOMAIN frames /\ DOMAIN f = DOMAIN frames
      /\ \A i \in DOMAIN frames :
           /\ F[i] = <<frames[i].timestamp_us, frames[i].data>>
           /\ f[i] = EventsOf(Decode(frames[i].data), frames[i].timestamp_us,
                              "UDP", from, to)
  BY DEF FrameContents, FrameEvents
<1>3. /\ DOMAIN G = D /\ DOMAIN g = D /\ D \subseteq DOMAIN datagrams
      /\ \A j \in D :
           /\ datagrams[j].src = from /\ datagrams[j].dst = to
           /\ G[j] = <<datagrams[j].timestamp_us, datagrams[j].payload>>
           /\ g[j] = DatagramEvents(datagrams)[j]
  BY DEF PacketContents, Directed, Restrict
<1>4. \A j \in D : g[j] = EventsOf(Decode(datagrams[j].payload), datagrams[j].timestamp_us,
                                   "UDP", from, to)
  BY <1>3 DEF DatagramEvents
<1> HIDE DEF F, G, f, g, D
<1>5. ASSUME NEW i \in DOMAIN f PROVE g[c[i]] = f[i]
  <2>1. c[i] \in D /\ G[c[i]] = F[i]
    BY <1>1, <1>2, <1>3 DEF Matches
  <2>2. /\ datagrams[c[i]].timestamp_us = frames[i].timestamp_us
        /\ datagrams[c[i]].payload = frames[i].data
    <3> DEFINE bytes == frames[i].data
    <3>1. F[i] = <<frames[i].timestamp_us, bytes>>
      BY <1>2
    <3>2. G[c[i]] = <<datagrams[c[i]].timestamp_us, datagrams[c[i]].payload>>
      BY <1>3, <2>1
    <3> DEFINE d == datagrams[c[i]]
               time == frames[i].timestamp_us
    <3> HIDE DEF bytes, d, time
    <3>3. F[i] = <<time, bytes>> /\ G[c[i]] = <<d.timestamp_us, d.payload>>
      BY <3>1, <3>2 DEF d, time
    <3>4. d.timestamp_us = time /\ d.payload = bytes
      BY <2>1, <3>3
    <3>5. QED
      BY <3>4 DEF bytes, d, time
  <2>3. QED
    BY <1>2, <1>4, <2>1, <2>2
<1>6. Matches(c, f, g)
  BY <1>1, <1>2, <1>3, <1>5 DEF Matches
<1>7. SameValues(f, g)
  BY <1>6 DEF SameValues
<1>8. QED
  BY <1>7 DEF f, g, D

(* Of the events of datagrams, those of a direction are the events of the  *)
(* datagrams of that direction.                                            *)
LEMMA DirectedEvents ==
  ASSUME DecodesToSequences, NEW datagrams \in Seq(Packet), NEW from, NEW to
  PROVE  SameValues(Spread(Restrict(DatagramEvents(datagrams), Directed(datagrams, from, to))),
                    Within(Spread(DatagramEvents(datagrams)), Told("UDP", from, to)))
<1> DEFINE D == Directed(datagrams, from, to)
           V == Told("UDP", from, to)
           ss == DatagramEvents(datagrams)
           some == Restrict(ss, D)
<1>1. DOMAIN ss = DOMAIN datagrams
  BY DEF DatagramEvents
<1>2. ASSUME NEW i \in DOMAIN datagrams, NEW q \in DOMAIN ss[i]
      PROVE  ss[i][q] \in V <=> i \in D
  <2>1. ss[i] \in Seq(Told("UDP", datagrams[i].src, datagrams[i].dst))
    BY DatagramEventsTold
  <2> HIDE DEF ss
  <2>2. ss[i][q] \in Told("UDP", datagrams[i].src, datagrams[i].dst)
    BY <1>2, <2>1
  <2>3. QED
    BY <2>2 DEF Told, Directed
<1>3. D \subseteq DOMAIN datagrams
  BY DEF Directed
<1> HIDE DEF D, V, ss
<1>4. DOMAIN some = D /\ \A i \in D : some[i] = ss[i]
  BY DEF Restrict
<1> HIDE DEF some
<1> DEFINE f == Spread(some)
           g == Within(Spread(ss), V)
<1>5. /\ DOMAIN g = {p \in DOMAIN Spread(ss) : Spread(ss)[p] \in V}
      /\ \A p \in DOMAIN g : g[p] = Spread(ss)[p]
  BY DEF Within
<1>6. ASSUME NEW p \in DOMAIN f PROVE p \in DOMAIN g /\ g[p] = f[p]
  <2>1. p = <<p[1], p[2]>> /\ p[1] \in DOMAIN some /\ p[2] \in DOMAIN some[p[1]]
        /\ f[p] = some[p[1]][p[2]]
    BY SpreadAt
  <2>2. p[1] \in D /\ p[1] \in DOMAIN ss /\ some[p[1]] = ss[p[1]] /\ p[2] \in DOMAIN ss[p[1]]
    BY <1>1, <1>3, <1>4, <2>1
  <2>3. <<p[1], p[2]>> \in DOMAIN Spread(ss) /\ Spread(ss)[<<p[1], p[2]>>] = ss[p[1]][p[2]]
    BY <2>2, SpreadAt
  <2>4. ss[p[1]][p[2]] \in V
    BY <1>1, <1>2, <2>2
  <2> HIDE DEF f, g
  <2>5. QED
    BY <1>5, <2>1, <2>2, <2>3, <2>4
<1>7. ASSUME NEW p \in DOMAIN g PROVE p \in DOMAIN f
  <2>1. p \in DOMAIN Spread(ss) /\ Spread(ss)[p] \in V
    BY <1>5
  <2>2. p = <<p[1], p[2]>> /\ p[1] \in DOMAIN ss /\ p[2] \in DOMAIN ss[p[1]]
        /\ Spread(ss)[p] = ss[p[1]][p[2]]
    BY <2>1, SpreadAt
  <2>3. p[1] \in D
    BY <1>1, <1>2, <2>1, <2>2
  <2>4. p[1] \in DOMAIN some /\ p[2] \in DOMAIN some[p[1]]
    BY <1>4, <2>2, <2>3
  <2>5. <<p[1], p[2]>> \in DOMAIN f
    BY <2>4, SpreadAt
  <2>6. QED
    BY <2>2, <2>5
<1> HIDE DEF f, g
<1>8. DOMAIN f = DOMAIN g
  BY <1>6, <1>7
<1>9. SameValues(f, g)
  BY <1>6, <1>8, SameAlike
<1>10. QED
  BY <1>9 DEF f, g, some, ss, V, D

(* What the frames of a direction should make is what the timeline has.    *)
LEMMA DatagramsTraced ==
  ASSUME DecodesToSequences, TracedInv, Reported, NEW from \in Endpoint, NEW to \in Endpoint,
         Certain("UDP", from, to), Whole(FramesOf(capture, "UDP", from, to))
  PROVE  SameValues(FlattenSeq(FrameEvents(FramesOf(capture, "UDP", from, to), from, to)),
                    Within(events, Told("UDP", from, to)))
<1> DEFINE frames == FramesOf(capture, "UDP", from, to)
           V == Told("UDP", from, to)
           W == Within(events, V)
<1>1. PICK key \in FlowKey :
        /\ Ends(key, "UDP", from, to)
        /\ SameValues(Within(FlattenSeq(DatagramEvents(DatagramsOf(log, key))), V), W)
  BY ToldByDatagrams
<1> DEFINE datagrams == DatagramsOf(log, key)
           ss == DatagramEvents(datagrams)
           tt == FrameEvents(frames, from, to)
           some == Restrict(ss, Directed(datagrams, from, to))
<1>2. /\ Read = capture /\ capture \in Seq(Frames) /\ ~crashed /\ NoneBare(log)
      /\ log \in Seq(Packet) /\ DatagramsFollow
  BY AtTheEnd, NoneBareReported DEF TracedInv, CommandInv, IInv, TypeOK
<1>3. frames \in Seq(Frames) /\ datagrams \in Seq(Packet)
  BY <1>2, FramesSteps, DatagramsKept
<1>4. Pairs(frames, datagrams, from, to)
  BY <1>1, <1>2 DEF DatagramsFollow, DatagramsFollowFrames
<1> HIDE DEF datagrams, frames
<1>5. SameValues(tt, some)
  BY <1>4, PairedEvents
<1>6. SameValues(Spread(some), Within(Spread(ss), V))
  BY <1>3, DirectedEvents
<1>7. tt \in Seq(Seq(Events)) /\ ss \in Seq(Seq(Events))
  BY <1>3, FrameEventsType, DatagramEventsTold
<1>8. SameValues(Within(FlattenSeq(ss), V), W)
  BY <1>1 DEF datagrams
<1> HIDE DEF ss, tt, some, V, W
<1>9. SameValues(Spread(tt), FlattenSeq(tt)) /\ SameValues(Spread(ss), FlattenSeq(ss))
  BY <1>7, SameJoined
<1>10. SameValues(Spread(tt), Spread(some))
  BY <1>5, SameSpread
<1>11. SameValues(FlattenSeq(tt), Spread(tt))
  BY <1>9, SameSymmetric
<1>12. SameValues(Within(Spread(ss), V), Within(FlattenSeq(ss), V))
  BY <1>9, SameWithin
<1> DEFINE a == FlattenSeq(tt)
           b == Spread(tt)
           c == Spread(some)
           d == Within(Spread(ss), V)
           e == Within(FlattenSeq(ss), V)
<1>13. /\ SameValues(a, b) /\ SameValues(b, c) /\ SameValues(c, d) /\ SameValues(d, e)
       /\ SameValues(e, W)
  BY <1>6, <1>8, <1>10, <1>11, <1>12
<1> HIDE DEF a, b, c, d, e
<1>14. SameValues(a, c)
  BY <1>13, SameTransitive
<1>15. SameValues(a, d)
  BY <1>13, <1>14, SameTransitive
<1>16. SameValues(a, e)
  BY <1>13, <1>15, SameTransitive
<1>17. SameValues(a, W)
  BY <1>13, <1>16, SameTransitive
<1>18. QED
  BY <1>17 DEF a, tt, frames, W, V

(* The endpoints of the capture are endpoints.                             *)
LEMMA PeersType ==
  ASSUME capture \in Seq(Frames)
  PROVE  Peers \subseteq Endpoint
<1>1. \A i \in DOMAIN capture : capture[i] \in Frames
  OBVIOUS
<1>2. \A frame \in Frames : frame.src \in Endpoint /\ frame.dst \in Endpoint
  BY DEF Frames
<1>3. QED
  BY <1>1, <1>2 DEF Peers

(* Every datagram's messages are in the timeline, with its own time and    *)
(* endpoints, and nothing else is: PacketParser, UdpFlow::OnPacket and     *)
(* TimelineBuilder::Build, for every capture that shows the datagrams      *)
(* whole and cuts off no other record so that it may be taken for one of   *)
(* them, every order of the flow table and every outcome of the sorting.   *)
THEOREM DatagramsAllReported ==
  ASSUME DecodesToSequences
  PROVE  SpecCommand => []DatagramsReported
<1>1. TracedInv => DatagramsReported
  <2>1. SUFFICES ASSUME TracedInv, Reported, NEW from \in Peers, NEW to \in Peers,
                        Certain("UDP", from, to), Whole(FramesOf(capture, "UDP", from, to))
                 PROVE  BagOf([i \in EventsBetween("UDP", from, to) |-> events[i]])
                          = BagOf(FlattenSeq(FrameEvents(FramesOf(capture, "UDP", from, to), from, to)))
    <3>1. ASSUME TracedInv, Reported, NEW from \in Peers, NEW to \in Peers,
                 Genuine(FramesOf(capture, "UDP", from, to), Len(FramesOf(capture, "UDP", from, to)))
          PROVE  Whole(FramesOf(capture, "UDP", from, to))
      <4> DEFINE frames == FramesOf(capture, "UDP", from, to)
      <4>1. frames \in Seq(Frames)
        BY <3>1, AtTheEnd, FramesSteps
      <4> HIDE DEF frames
      <4>2. DOMAIN frames = 1 .. Len(frames)
        BY <4>1
      <4>3. Genuine(frames, Len(frames))
        BY <3>1 DEF frames
      <4>4. Whole(frames)
        BY <4>2, <4>3 DEF Genuine, Whole
      <4>5. QED
        BY <4>4 DEF frames
    <3>2. QED
      BY <3>1 DEF DatagramsReported, FrameEvents
  <2> DEFINE frames == FramesOf(capture, "UDP", from, to)
             V == Told("UDP", from, to)
             W == Within(events, V)
             all == FlattenSeq(FrameEvents(frames, from, to))
  <2>2. capture \in Seq(Frames) /\ events \in Seq(Events)
    BY <2>1, AtTheEnd
  <2>3. from \in Endpoint /\ to \in Endpoint
    BY <2>2, PeersType
  <2>4. SameValues(all, W)
    BY <2>1, <2>3, DatagramsTraced
  <2>5. IsFiniteSet(DOMAIN all)
    <3>1. frames \in Seq(Frames)
      BY <2>2, FramesSteps
    <3>2. FrameEvents(frames, from, to) \in Seq(Seq(Events))
      BY <2>3, <3>1, FrameEventsType
    <3>3. all \in Seq(Events)
      BY <3>2, FlattenType
    <3> HIDE DEF all
    <3>4. DOMAIN all = 1 .. Len(all) /\ Len(all) \in Nat
      BY <3>3
    <3>5. QED
      BY <3>4, FS_Interval
  <2>6. BagOf(all) = BagOf(W)
    <3> HIDE DEF all, W
    <3>1. QED
      BY <2>4, <2>5, SameBag
  <2>7. W = [i \in EventsBetween("UDP", from, to) |-> events[i]]
    <3>1. \A i \in DOMAIN events : events[i] \in Events
      BY <2>2
    <3>2. EventsBetween("UDP", from, to) = {i \in DOMAIN events : events[i] \in V}
      BY <3>1 DEF EventsBetween, Told
    <3>3. QED
      BY <3>2 DEF Within
  <2>8. QED
    BY <2>6, <2>7
<1>2. QED
  BY <1>1, Traced, PTL

(* The decoder is one that keeps messages, of whatever bytes.  That of a   *)
(* length-framed schema is (MoreBytesMoreMessages, BinaryDecoder_proofs).  *)
DecodesAhead == KeepsMessages(Seq(Nat))

(* As far as the capture shows a direction of a connection without a gap   *)
(* and without padding, its messages are in the timeline, from the right   *)
(* sender to the right receiver, and when it does so to the end there are  *)
(* no others: PacketParser, TcpReassembler::AddSegment, FlowTracker and    *)
(* TimelineBuilder::Build, whatever the direction is interleaved with and  *)
(* whatever comes after a loss.                                            *)
THEOREM CleanStreams ==
  ASSUME DecodesToSequences, DecodesAhead
  PROVE  SpecCommand => []CleanStreamsReported
<1>1. TracedInv => CleanStreamsReported
  <2>1. SUFFICES ASSUME TracedInv, Reported, NEW from \in Peers, NEW to \in Peers,
                        Certain("TCP", from, to),
                        NEW k \in 0 .. Len(FramesOf(capture, "TCP", from, to)),
                        Gapless(FramesOf(capture, "TCP", from, to), k),
                        Genuine(FramesOf(capture, "TCP", from, to), k)
                 PROVE  LET segments == FramesOf(capture, "TCP", from, to)
                        IN  IF k = Len(segments)
                              THEN Printed(from, to) = BagOf(MessagesOf(segments, k))
                              ELSE BagOf(MessagesOf(segments, k)) \sqsubseteq Printed(from, to)
    BY DEF CleanStreamsReported
  <2> DEFINE segments == FramesOf(capture, "TCP", from, to)
             data == DataOf(segments, k)
  <2>2. capture \in Seq(Frames)
    BY <2>1, AtTheEnd
  <2>3. from \in Endpoint /\ to \in Endpoint
    BY <2>2, PeersType
  <2>4. PICK r \in Reassembler : Follows(segments, r) /\ Printed(from, to) = BagOf(Decode(r.stream))
    BY <2>1, <2>3, PrintedStream
  <2>5. Clean(segments, k) /\ MessagesOf(segments, k) = Decode(data) /\ k \in 0 .. Len(segments)
    BY <2>1 DEF Clean, MessagesOf, DataOf
  <2>6. segments \in Seq(Frames)
    BY <2>2, FramesSteps
  <2> HIDE DEF segments
  <2>7. CASE k = Len(segments)
    <3>1. r.stream = data
      BY <2>4, <2>5, <2>7 DEF Follows
    <3>2. QED
      BY <2>4, <2>5, <2>7, <3>1 DEF segments
  <2>8. CASE k # Len(segments)
    <3>1. PICK rest \in Seq(Nat) : r.stream = data \o rest
      BY <2>4, <2>5 DEF Follows, Holding
    <3>2. data \in Seq(Nat) /\ r.stream \in Seq(Nat)
      <4>1. segments # <<>>
        BY <2>5, <2>6, <2>8
      <4>2. segments[1] \in Frames
        BY <2>6, <4>1
      <4>3. data \in Seq(Nat)
        BY <2>5, <2>6, <4>2, DataSteps
      <4>4. QED
        BY <4>3 DEF Reassembler
    <3>3. \A i \in DOMAIN Decode(data) :
            i \in DOMAIN Decode(r.stream) /\ Decode(r.stream)[i] = Decode(data)[i]
      BY <3>1, <3>2 DEF DecodesAhead, KeepsMessages
    <3>4. PICK n \in Nat : DOMAIN Decode(r.stream) = 1 .. n
      BY <3>2 DEF DecodesToSequences
    <3>5. IsFiniteSet(DOMAIN Decode(r.stream))
      BY <3>4, FS_Interval
    <3>6. BagOf(Decode(data)) \sqsubseteq BagOf(Decode(r.stream))
      <4> DEFINE f == Decode(data)
                 g == Decode(r.stream)
      <4> HIDE DEF f, g
      <4>1. IsFiniteSet(DOMAIN g) /\ \A i \in DOMAIN f : i \in DOMAIN g /\ g[i] = f[i]
        BY <3>3, <3>5 DEF f, g
      <4>2. BagOf(f) \sqsubseteq BagOf(g)
        BY <4>1, PartBag
      <4>3. QED
        BY <4>2 DEF f, g
    <3>7. QED
      BY <2>4, <2>5, <2>8, <3>6 DEF segments
  <2>9. QED
    BY <2>7, <2>8 DEF segments
<1>2. QED
  BY <1>1, Traced, PTL

=============================================================================
