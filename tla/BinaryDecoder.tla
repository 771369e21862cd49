---------------------------- MODULE BinaryDecoder ---------------------------
(***************************************************************************)
(* BinaryDecoder::Decode: from the bytes of a reassembled TCP stream, or   *)
(* of one datagram, to messages, as a protocol schema describes them.      *)
(*                                                                         *)
(* A schema is a record as LoadFromYaml builds it.  A peer speaks what its *)
(* document says, the decoder has what the loader made of the document.    *)
(* A byte is a number below 256.  The value of a field is                  *)
(* the sequence of its bytes, most significant first, which is all that    *)
(* the properties tell apart; the host is little-endian.  A decoded        *)
(* message is a function from field names to values.                       *)
(*                                                                         *)
(* Decode has no state of its own but its locals: the loop over the        *)
(* messages of a stream is the state machine, one step per message.        *)
(***************************************************************************)
EXTENDS SchemaLoader, Integers, SequencesExt

CONSTANTS
  Streams,      \* what peers may send: records (document, sent, noise)
  MaxMessages   \* bound: messages after which a call is not followed

VARIABLES
  document,     \* history: the document the peer follows
  schema,       \* the schema the decoder holds
  sent,         \* history: the messages the peer sent
  noise,        \* history: bytes after them which are no message
  data,         \* the bytes given to Decode
  offset,       \* offset of the next message in data
  messages,     \* decoded so far
  done          \* Decode has returned

vars == <<document, schema, sent, noise, data, offset, messages, done>>

Byte == 0 .. 255

FieldTypeSize(type) ==
  [u8 |-> 1, u16 |-> 2, u32 |-> 4, u64 |-> 8,
   i8 |-> 1, i16 |-> 2, i32 |-> 4, i64 |-> 8, bytes |-> 0, string |-> 0][type]

IsVariable(field) == field.type \in {"bytes", "string"}

LengthFramed(s) == s.transport = "tcp" /\ s.framing.type = "length_field"

IsDatagram(s) == s.transport = "udp"

(* Where the first i fields end when the first starts at start and a       *)
(* variable one takes variable_len bytes.                                  *)
FrameEnd(s, i, start, variable_len) ==
  LET end[k \in 0..i] ==
        IF k = 0 THEN start
        ELSE end[k - 1] + (IF IsVariable(s.fields[k]) THEN variable_len
                                                     ELSE FieldTypeSize(s.fields[k].type))
  IN  end[i]

(* The same in a datagram, where a variable field takes all that is left.  *)
DatagramEnd(s, i, len) ==
  LET end[k \in 0..i] ==
        IF k = 0 THEN 0
        ELSE IF IsVariable(s.fields[k]) THEN len
        ELSE end[k - 1] + FieldTypeSize(s.fields[k].type)
  IN  end[i]

U16(bytes) == 256 * bytes[1] + bytes[2]

(* Mutant: the length is read without ntohs.                               *)
PayloadLen_HostOrder(s, d, start) ==
  LET hits == {i \in 1..Len(s.fields) :
                 /\ FrameEnd(s, i, start, 0) <= Len(d)
                 /\ s.fields[i].name = s.framing.length_field
                 /\ s.fields[i].type = "u16"}
      end  == FrameEnd(s, Max(hits), start, 0)
  IN  IF hits = {} THEN 0 ELSE U16(Reverse(SubSeq(d, end - 1, end)))

(* The length a message at start declares: the u16 of the last field with  *)
(* the name of the length field, and 0 when there is none within the data. *)
(* Variable fields before it are taken to be empty.                        *)
PayloadLen(s, d, start) ==
  LET hits == {i \in 1..Len(s.fields) :
                 /\ FrameEnd(s, i, start, 0) <= Len(d)
                 /\ s.fields[i].name = s.framing.length_field
                 /\ s.fields[i].type = "u16"}
      end  == FrameEnd(s, Max(hits), start, 0)
  IN  IF hits = {} THEN 0 ELSE U16(SubSeq(d, end - 1, end))

(* Mutant: the length always counts the whole message.                     *)
MsgSize_NoHeader(s, payload_len) == payload_len

MsgSize(s, payload_len) ==
  IF s.framing.length_includes_header THEN payload_len
                                      ELSE s.framing.header_len + payload_len

(* Mutant: a message is taken as soon as its header is there.              *)
FrameFits_HeaderOnly(s, d, start) == start + s.framing.header_len <= Len(d)

(* A whole message starts at start.                                        *)
FrameFits(s, d, start) ==
  /\ start + s.framing.header_len <= Len(d)
  /\ start + MsgSize(s, PayloadLen(s, d, start)) <= Len(d)

(* The value of a field that takes the bytes from up to, not including,    *)
(* to.  Fields of two and four bytes go through ntohs and ntohl, those of  *)
(* eight are kept as the host has them.                                    *)
ReadField(type, d, from, to) ==
  LET bytes == SubSeq(d, from + 1, to)
  IN  IF type \in {"u64", "i64"} THEN Reverse(bytes) ELSE bytes

(* The message made of the fields taken, a set of indexes.  End(i) is      *)
(* where field i ends; of two fields with the same name the last wins.     *)
MessageOf(s, d, start, taken, End(_)) ==
  [name \in {s.fields[i].name : i \in taken} |->
     LET i == Max({j \in taken : s.fields[j].name = name})
     IN  ReadField(s.fields[i].type, d, IF i = 1 THEN start ELSE End(i - 1), End(i))]

FrameMessage(s, d, start) ==
  LET payload_len == PayloadLen(s, d, start)
      End(i)      == FrameEnd(s, i, start, payload_len)
      taken       == {i \in 1..Len(s.fields) : End(i) <= start + MsgSize(s, payload_len)}
  IN  MessageOf(s, d, start, taken, End)

(* Mutant: a field that does not fit is skipped, the fields after it are   *)
(* not.                                                                    *)
DatagramMessage_SkipsField(s, d) ==
  LET End(i) == DatagramEnd(s, i, Len(d))
      taken  == {i \in 1..Len(s.fields) : End(i) <= Len(d)}
  IN  MessageOf(s, d, 0, taken, End)

(* The fields of a datagram up to the first that does not fit.             *)
DatagramMessage(s, d) ==
  LET End(i) == DatagramEnd(s, i, Len(d))
      taken  == {i \in 1..Len(s.fields) : \A j \in 1..i : End(j) <= Len(d)}
  IN  MessageOf(s, d, 0, taken, End)

-----------------------------------------------------------------------------
(* What the peer puts on the wire, for the properties.  A message is a     *)
(* record: values, a function from the names of the fixed fields to their  *)
(* values, and payload, the bytes its length field counts.  The payload is *)
(* the variable field of the schema, or follows the fields if it has none. *)

WireField(doc, f, m) ==
  IF IsVariable(f) THEN m.payload
  ELSE IF Get(doc, "endian", "big") = "little" THEN Reverse(m.values[f.name])
  ELSE m.values[f.name]

HasVariable(doc) == \E i \in DOMAIN doc.message : IsVariable(doc.message[i])

Wire(doc, m) ==
  FlattenSeq([i \in DOMAIN doc.message |-> WireField(doc, doc.message[i], m)])
    \o (IF HasVariable(doc) THEN <<>> ELSE m.payload)

WireAll(doc, ms) == FlattenSeq([k \in 1..Len(ms) |-> Wire(doc, ms[k])])

(* A message has what its document asks for: bytes for every fixed field,  *)
(* as many as its type has, and a payload.                                 *)
Follows(doc, m) ==
  LET fixed == {i \in DOMAIN doc.message : ~IsVariable(doc.message[i])}
  IN  /\ m.payload \in Seq(Byte)
      /\ DOMAIN m.values = {doc.message[i].name : i \in fixed}
      /\ \A i \in fixed :
           /\ m.values[doc.message[i].name] \in Seq(Byte)
           /\ Len(m.values[doc.message[i].name]) = FieldTypeSize(doc.message[i].type)

(* Its length field comes before the payload and counts it, and also the   *)
(* header if the document says so; the header is all but the payload.      *)
DeclaresLength(doc, m) ==
  LET framing  == Framing(doc)
      declared == Len(m.payload) + (IF framing.length_includes_header THEN framing.header_len ELSE 0)
  IN  /\ Len(Wire(doc, m)) = framing.header_len + Len(m.payload)
      /\ \E i \in DOMAIN doc.message :
           /\ doc.message[i].name = framing.length_field /\ doc.message[i].type = "u16"
           /\ m.values[framing.length_field] = <<declared \div 256, declared % 256>>
           /\ \A j \in DOMAIN doc.message : IsVariable(doc.message[j]) => i < j

(* A peer sends messages of its document, whose fields have different      *)
(* names and of which one at most is variable, and then any bytes.         *)
IsPeer(stream) ==
  LET doc == stream.document
  IN  /\ "message" \in DOMAIN doc /\ doc.message \in Seq([name : STRING, type : FieldTypes])
      /\ Framing(doc).header_len \in Nat /\ Framing(doc).length_includes_header \in BOOLEAN
      /\ \A i, j \in DOMAIN doc.message :
           \/ doc.message[i].name = doc.message[j].name
           \/ IsVariable(doc.message[i]) /\ IsVariable(doc.message[j])
           => i = j
      /\ stream.sent \in Seq({stream.sent[k] : k \in DOMAIN stream.sent})
      /\ \A k \in DOMAIN stream.sent :
           /\ Follows(doc, stream.sent[k])
           /\ LengthFramed(LoadFromYaml(doc)) => DeclaresLength(doc, stream.sent[k])
      /\ IsDatagram(LoadFromYaml(doc)) =>
           /\ Len(stream.sent) = 1
           /\ \A i \in DOMAIN doc.message : IsVariable(doc.message[i]) => i = Len(doc.message)
      /\ stream.noise \in Seq(Byte)

ASSUME StreamsAssumption ==
  /\ MaxMessages \in Nat
  /\ \A stream \in Streams : Loadable(stream.document) => IsPeer(stream)

(* A message as its receiver should see it.                                *)
Received(doc, m) ==
  [name \in {doc.message[i].name : i \in DOMAIN doc.message} |->
     IF name \in DOMAIN m.values THEN m.values[name] ELSE m.payload]

(* How many of the sent messages lie wholly in the data.                   *)
Contained ==
  Cardinality({k \in 1..Len(sent) : Len(WireAll(document, SubSeq(sent, 1, k))) <= Len(data)})

-----------------------------------------------------------------------------
(* A capture ends anywhere, so the data is any prefix of what was sent.    *)
Init ==
  /\ \E stream \in Streams :
       LET wire == WireAll(stream.document, stream.sent) \o stream.noise
       IN  /\ Loadable(stream.document)
           /\ document = stream.document
           /\ schema = LoadFromYaml(stream.document)
           /\ sent = stream.sent
           /\ noise = stream.noise
           /\ \E cut \in 0..Len(wire) : data = SubSeq(wire, 1, cut)
  /\ offset = 0
  /\ messages = <<>>
  /\ done = FALSE

(* One turn of the loop: a whole message is decoded.                       *)
DecodeMessage ==
  /\ ~done
  /\ LengthFramed(schema)
  /\ offset < Len(data)
  /\ Len(messages) < MaxMessages
  /\ FrameFits(schema, data, offset)
  /\ messages' = Append(messages, FrameMessage(schema, data, offset))
  /\ offset' = offset + MsgSize(schema, PayloadLen(schema, data, offset))
  /\ UNCHANGED <<document, schema, sent, noise, data, done>>

(* The rest of the data is the beginning of a message; it is dropped.      *)
StopAtPartial ==
  /\ ~done
  /\ LengthFramed(schema)
  /\ offset < Len(data)
  /\ ~FrameFits(schema, data, offset)
  /\ done' = TRUE
  /\ UNCHANGED <<document, schema, sent, noise, data, offset, messages>>

Finish ==
  /\ ~done
  /\ LengthFramed(schema)
  /\ offset >= Len(data)
  /\ done' = TRUE
  /\ UNCHANGED <<document, schema, sent, noise, data, offset, messages>>

(* A datagram is one message, whatever it holds.                           *)
DecodeDatagram ==
  /\ ~done
  /\ IsDatagram(schema)
  /\ data # <<>>
  /\ messages' = <<DatagramMessage(schema, data)>>
  /\ done' = TRUE
  /\ UNCHANGED <<document, schema, sent, noise, data, offset>>

(* No data, or a schema that is neither length-framed TCP nor UDP, such as *)
(* the loader's default of TCP with datagram framing.                      *)
DecodeNothing ==
  /\ ~done
  /\ ~LengthFramed(schema)
  /\ IsDatagram(schema) => data = <<>>
  /\ done' = TRUE
  /\ UNCHANGED <<document, schema, sent, noise, data, offset, messages>>

Next == DecodeMessage \/ StopAtPartial \/ Finish \/ DecodeDatagram \/ DecodeNothing

(* Decode is a function call: it runs on until it returns.                 *)
Spec == Init /\ [][Next]_vars /\ WF_vars(Next)

-----------------------------------------------------------------------------
(* Type correctness; the loop never moves past the end of the data.        *)
TypeOK ==
  /\ data \in Seq(Byte)
  /\ offset \in 0..Len(data)
  /\ \A k \in 1..Len(messages) : \A name \in DOMAIN messages[k] : messages[k][name] \in Seq(Byte)
  /\ done \in BOOLEAN

(* The peer sends a stream of messages with their lengths, or one message  *)
(* per datagram.                                                           *)
StreamPeer ==
  /\ Get(document, "transport", "tcp") = "tcp"
  /\ Get(Get(document, "framing", NoFraming), "type", "datagram") = "length_field"

DatagramPeer == Get(document, "transport", "tcp") = "udp"

RoundTrip ==
  (StreamPeer /\ done) =>
    LET expected == [k \in 1..Contained |-> Received(document, sent[k])]
    IN  IF noise = <<>> THEN messages = expected ELSE IsPrefix(expected, messages)

DatagramRoundTrip ==
  (DatagramPeer /\ done /\ data # <<>>) =>
    LET m      == sent[1]
        got    == messages[1]
        fields == document.message
        end(i) == Len(FlattenSeq([j \in 1..i |-> WireField(document, fields[j], m)]))
    IN  /\ Len(messages) = 1
        /\ \A i \in DOMAIN fields :
             LET f == fields[i]
             IN  IF IsVariable(f)
                   THEN /\ f.name \in DOMAIN got <=> end(i - 1) <= Len(data)
                        /\ f.name \in DOMAIN got => IsPrefix(got[f.name], m.payload \o noise)
                   ELSE /\ f.name \in DOMAIN got <=> end(i) <= Len(data)
                        /\ f.name \in DOMAIN got => got[f.name] = m.values[f.name]

(* What Decode supports: big-endian fields of at most four bytes, and in a *)
(* stream a length that counts the payload alone, unless the payload is no *)
(* field.                                                                  *)
Supported(doc) ==
  /\ Get(doc, "endian", "big") = "big"
  /\ \A i \in DOMAIN doc.message : FieldTypeSize(doc.message[i].type) <= 4
  /\ Get(Get(doc, "framing", NoFraming), "length_includes_header", FALSE) => ~HasVariable(doc)

(* Sticky and half packets: from a stream of any number of messages, cut   *)
(* anywhere, Decode returns exactly the messages that are whole, in order  *)
(* and with the values that were sent by the document, and bytes that are  *)
(* no message never disturb the messages before them.                      *)
WholeMessagesDecoded == Supported(document) => RoundTrip

(* From a datagram the capture may have truncated, every fixed field that  *)
(* is whole is decoded with the value sent, none after the first missing   *)
(* byte appears, and a variable field holds the part of the payload that   *)
(* was captured.                                                           *)
DatagramFieldsAgree == Supported(document) => DatagramRoundTrip

(* A message starts at offset whose declared length is that of no byte at  *)
(* all.                                                                    *)
AtEmptyMessage ==
  /\ LengthFramed(schema)
  /\ offset < Len(data)
  /\ FrameFits(schema, data, offset)
  /\ PayloadLen(schema, data, offset) = 0
  /\ schema.framing.length_includes_header \/ schema.framing.header_len = 0

(* Decode returns, unless it meets a message that declares no byte at all: *)
(* whatever else the bytes are, and a message without payload included,    *)
(* every turn of the loop gets on.                                         *)
Terminates == []~AtEmptyMessage => <>done

-----------------------------------------------------------------------------
(* BinaryDecoder.cpp:47 allows a declared length of 0.  A length that      *)
(* includes the header and is 0 leaves the offset where it was, and the    *)
(* same message is decoded for ever.                                       *)
EveryMessageAdvances == [][messages' # messages => offset' > offset]_vars

=============================================================================
