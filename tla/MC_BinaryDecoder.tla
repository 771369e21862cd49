--------------------------- MODULE MC_BinaryDecoder -------------------------
(***************************************************************************)
(* Documents and streams on which BinaryDecoder is checked.  The documents *)
(* have the shapes of those in examples/schemas and                        *)
(* tests/ut/test_binary_decoder.cpp, with a few bytes per field.           *)
(***************************************************************************)
EXTENDS BinaryDecoder

Field(name, type) == [name |-> name, type |-> type]

LengthField(header_len) ==
  [type |-> "length_field", length_field |-> "payload_len", header_len |-> header_len]

Datagram == [type |-> "datagram"]

Document(transport, framing, message) ==
  [name |-> "sample", transport |-> transport, framing |-> framing, message |-> message]

Kind == Field("kind", "u8")
Seq32 == Field("seq", "u32")
Length == Field("payload_len", "u16")
Body == Field("body", "bytes")
Text == Field("text", "string")
Check == Field("check", "i16")
Device == Field("device_id", "u64")

(* A header, whose payload is no field, as in vehicle-tcp.yaml.            *)
HeaderOnly == Document("tcp", LengthField(3), <<Kind, Length>>)
(* The payload is the last field; the endianness is the fallback's.        *)
WithBody == Document("tcp", LengthField(3), <<Kind, Length, Body>>)
(* A checksum follows the payload and counts as header.                    *)
WithTrailer == [endian |-> "big"] @@ Document("tcp", LengthField(4), <<Length, Text, Check>>)
(* The length counts the header too.                                       *)
Included ==
  Document("tcp", [length_includes_header |-> TRUE] @@ LengthField(3), <<Length, Kind>>)
(* One datagram is one message, as in vehicle-udp.yaml.                    *)
Report == Document("udp", Datagram, <<Kind, Seq32, Body>>)
ReportFixed == [transport |-> "udp", message |-> <<Kind, Check, Length>>]
ReportDevice == Document("udp", Datagram, <<Kind, Device>>)
(* Nothing but the fields.                                                 *)
Unframed == [message |-> <<Kind, Length>>]
(* Little-endian.                                                          *)
LittleEndian == [endian |-> "little"] @@ Document("tcp", LengthField(3), <<Kind, Length>>)
(* Not loadable: a type that is not there, a framing that is not known.    *)
NoType == [message |-> <<Kind, [name |-> "payload_len"]>>]
NoSuchFraming == Document("tcp", [type |-> "delimiter"], <<Kind>>)

Widths == [kind |-> {<<1>>, <<255>>}, seq |-> {<<0, 1, 2, 3>>},
           check |-> {<<128, 7>>}, device_id |-> {<<1, 0, 0, 0, 0, 0, 2, 3>>}]

Payloads == {<<>>, <<7>>, <<0, 3>>}

(* The length a sender declares for a payload.                             *)
Declared(doc, payload) ==
  LET section == Get(doc, "framing", NoFraming)
      n == Len(payload)
             + (IF Get(section, "length_includes_header", FALSE) THEN section.header_len ELSE 0)
  IN  <<n \div 256, n % 256>>

MessagesOf(doc) ==
  LET names == {doc.message[i].name : i \in DOMAIN doc.message} \ {"body", "text"}
      values(p) == [name \in names |-> IF name = "payload_len" THEN {Declared(doc, p)} ELSE Widths[name]]
  IN  UNION {{[values |-> v, payload |-> p] :
                v \in {w \in [names -> UNION {values(p)[n] : n \in names}] :
                         \A n \in names : w[n] \in values(p)[n]}} :
             p \in Payloads}

StreamsOf(doc, most, noises) ==
  {[document |-> doc, sent |-> ms, noise |-> x] :
     ms \in UNION {[1..n -> MessagesOf(doc)] :
                     n \in (IF Get(doc, "transport", "tcp") = "udp" THEN {1} ELSE 0..most)},
     x \in noises}

(* Stray bytes: none, padding, a header that declares more than there is.  *)
Noises == {<<>>, <<0, 0, 0, 0, 0, 0>>, <<9, 1, 0, 5>>}

MCStreams ==
  UNION {StreamsOf(s, 2, Noises) : s \in {HeaderOnly, WithBody, WithTrailer, Report, ReportFixed, Unframed}}
    \cup StreamsOf(Included, 2, {<<>>, <<0, 9, 5, 5, 5>>, <<0, 0, 1>>, <<0, 1, 0>>})
    \cup StreamsOf(LittleEndian, 1, {<<>>}) \cup StreamsOf(ReportDevice, 1, {<<>>})
    \cup {[document |-> doc, sent |-> <<>>, noise |-> <<1>>] : doc \in {NoType, NoSuchFraming}}

MCHeaderOnlyStreams == StreamsOf(Included, 1, {<<0, 0, 1>>})

=============================================================================
