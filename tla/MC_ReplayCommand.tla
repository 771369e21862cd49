--------------------------- MODULE MC_ReplayCommand --------------------------
(***************************************************************************)
(* Two clients, a server on port 1 of four, and the command lines that     *)
(* differ in what the program does with them.  A message of four bytes is  *)
(* whole, one of two or three bytes is printed with what was there before. *)
(***************************************************************************)
EXTENDS ReplayCommand

CONSTANTS c1, c2

MCClients == {c1, c2}

Key(text) == [dashed |-> TRUE, text |-> text]
Word(text) == [dashed |-> FALSE, text |-> text]

Replay(pcap, target) ==
  <<Word("replay"), Key("pcap"), Word(pcap), Key("target"), Word(target),
    Key("transport"), Word("udp")>>

Given == {
  Replay("bare", "name:5"),                          \* 0.0.0.0, and 5 % 4 is the port
  Replay("short", "far:1"),
  Replay("none", "lo:1"),
  Replay("long", "lo"),
  Replay("long", "lo:x"),
  <<Word("replay"), Key("pcap"), Key("target"), Word("lo:1")>>,
  <<Word("replay"), Word("lo:1"), Key("pcap"), Word("short"), Word("x")>>,
  <<Word("replay"), Key("speed")>>,
  Replay("short", "lo:2") \o <<Key("target"), Word("lo:1")>>,
  Replay("short", "lo:1") \o <<Key("transport"), Word("tcp")>>,
  <<>>, <<Word("help")>>, <<Key("pcap"), Word("short")>> }

(* c2 always replays the long messages to the server.                      *)
MCArgvs ==
  {[c \in MCClients |-> IF c = c1 THEN given ELSE Replay("long", "lo:1")] : given \in Given}

MCSpeeds == {"1.0"}

Host(host, port) == [host |-> host, port |-> port]

MCTargets ==
  [text \in {"lo:1", "lo:2", "lo:x", "far:1", "name:5"} |->
     CASE text = "lo:1"   -> Host("lo", 1)
       [] text = "lo:2"   -> Host("lo", 2)
       [] text = "lo:x"   -> Host("lo", NotANumber)
       [] text = "far:1"  -> Host("far", 1)
       [] text = "name:5" -> Host("name", 5)]

MCAddresses == [host \in {"lo", "far"} |-> host]

Payload(size, magic) == [has_buffer |-> TRUE, size |-> size, magic |-> magic]

Bare == [has_buffer |-> FALSE, size |-> 0, magic |-> FALSE]

MCFiles ==
  [path \in {"long", "short", "bare"} |->
     CASE path = "long"  -> <<Payload(5, TRUE), Payload(3, TRUE)>>
       [] path = "short" -> <<Payload(2, TRUE), Payload(4, FALSE)>>
       [] path = "bare"  -> <<Payload(1, TRUE), Bare>>]

=============================================================================
