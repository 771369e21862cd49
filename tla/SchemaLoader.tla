---------------------------- MODULE SchemaLoader ----------------------------
(***************************************************************************)
(* SchemaLoader::LoadFromYaml: from a YAML document to a protocol schema.  *)
(*                                                                         *)
(* A mapping of the document is a function from the keys it has; a         *)
(* sequence is a sequence.  A scalar that a key demands has its type; a    *)
(* file that is no YAML is no document.  Of a schema only what the decoder *)
(* reads is kept: const, payload and analysis are loaded and not used.     *)
(***************************************************************************)
EXTENDS Naturals, Sequences

FieldTypes == {"u8", "u16", "u32", "u64", "i8", "i16", "i32", "i64", "bytes", "string"}

FramingTypes == {"length_field", "datagram"}

(* The value of a key, or the one to fall back on.                         *)
Get(node, key, fallback) == IF key \in DOMAIN node THEN node[key] ELSE fallback

(* Nothing throws: the types have known names, and no field lacks its name *)
(* or type.  Otherwise LoadFromYaml returns an error.                      *)
Loadable(doc) ==
  /\ "framing" \in DOMAIN doc => Get(doc.framing, "type", "datagram") \in FramingTypes
  /\ "message" \in DOMAIN doc =>
       \A i \in DOMAIN doc.message :
         /\ {"name", "type"} \subseteq DOMAIN doc.message[i]
         /\ doc.message[i].type \in FieldTypes

NoFraming ==
  [type |-> "datagram", length_field |-> "", header_len |-> 0, length_includes_header |-> FALSE]

(* Whatever the framing section leaves out is as without the section.      *)
Framing(doc) ==
  LET section == Get(doc, "framing", NoFraming)
  IN  [key \in DOMAIN NoFraming |-> Get(section, key, NoFraming[key])]

(* The schema of a document that can be loaded.                            *)
LoadFromYaml(doc) ==
  LET message == Get(doc, "message", <<>>)
  IN  [transport |-> Get(doc, "transport", "tcp"),
       endian    |-> Get(doc, "endian", "big"),
       framing   |-> Framing(doc),
       fields    |-> [i \in DOMAIN message |-> [name |-> message[i].name, type |-> message[i].type]]]

=============================================================================
