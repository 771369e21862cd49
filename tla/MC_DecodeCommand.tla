--------------------------- MODULE MC_DecodeCommand -------------------------
(***************************************************************************)
(* Captures for the decode command: a client and a server that talk TCP    *)
(* and UDP, a second client, frames the parser refuses and frames that     *)
(* were cut off anywhere.  A message is two bytes.                         *)
(***************************************************************************)
EXTENDS DecodeCommand

LOCAL INSTANCE SequencesExt

Client == [ip |-> 1, port |-> 7]
Server == [ip |-> 2, port |-> 5]
Other  == [ip |-> 2, port |-> 9]

Headers(proto, ihl, data_offset) ==
  14 + ihl * 4 + (IF proto = "TCP" THEN data_offset * 4 ELSE 8)

Frame(ts, proto, src, dst, seq, data, padding) ==
  [timestamp_us |-> ts, len |-> Headers(proto, 5, 5) + Len(data) + Len(padding),
   version |-> 4, ihl |-> 5, data_offset |-> 5, proto |-> proto,
   src |-> src, dst |-> dst, tcp_seq |-> seq, data |-> data, padding |-> padding,
   missing |-> 0]

(* The same frame with options in both headers.                            *)
WithOptions(f) ==
  [f EXCEPT !.ihl = 6, !.data_offset = 8, !.len = @ + 4 + (IF f.proto = "TCP" THEN 12 ELSE 0)]

(* What MCDecode makes of bytes: a message for every two of them.          *)
MCDecode(bytes) ==
  [i \in 1 .. Len(bytes) \div 2 |-> <<bytes[2 * i - 1], bytes[2 * i]>>]

(* It never gets past a message of two nines.                              *)
MCEndless(bytes) ==
  \E i \in 1 .. Len(bytes) \div 2 : bytes[2 * i - 1] = 9 /\ bytes[2 * i] = 9

(* It keeps messages, as the proofs ask of a decoder.                      *)
ASSUME MCDecodeAssumption == KeepsMessages(BoundedSeq(1 .. 2, 4))

Request1 == Frame(5, "TCP", Client, Server, 6, <<1, 2, 3>>, <<>>)
Request2 == WithOptions(Frame(7, "TCP", Client, Server, 1, <<4>>, <<>>))
Answer   == Frame(6, "TCP", Server, Client, 3, <<1, 2>>, <<>>)
Apart    == Frame(4, "TCP", Other, Server, 0, <<8, 9>>, <<>>)
Report1  == Frame(3, "UDP", Client, Server, 0, <<1, 2>>, <<>>)
Report2  == WithOptions(Frame(8, "UDP", Server, Client, 0, <<3, 4, 5>>, <<>>))
Padded   == Frame(6, "UDP", Client, Server, 0, <<>>, <<0, 0>>)
Bare     == Frame(6, "TCP", Server, Client, 5, <<>>, <<>>)
BareReport == Frame(2, "UDP", Other, Server, 0, <<>>, <<>>)
PaddedAck == Frame(6, "TCP", Client, Server, 1, <<>>, <<0, 0>>)
Ping     == Frame(1, "ICMP", Client, Server, 0, <<6, 6>>, <<>>)
Version6 == [Request1 EXCEPT !.version = 6]
Cut      == [Request1 EXCEPT !.len = 50, !.data = <<>>]
Again    == Frame(9, "TCP", Client, Server, 3, <<5, 6>>, <<>>)
Truncated == [Frame(2, "TCP", Other, Server, 2, <<3, 4>>, <<>>) EXCEPT !.missing = 1]
Overrun  == [Frame(9, "TCP", Client, Server, 4, <<>>, <<>>) EXCEPT !.ihl = 15]
OverrunReport == [Frame(4, "UDP", Client, Other, 0, <<>>, <<>>) EXCEPT !.ihl = 15]
Stuck    == Frame(2, "UDP", Server, Other, 0, <<9, 9>>, <<>>)

(* The same frame of which only the first n bytes were captured.           *)
CutAt(f, n) == [f EXCEPT !.missing = f.len - n]

CutPort    == CutAt(Frame(4, "TCP", Server, Other, 0, <<8, 9>>, <<>>), 36)
CutSeq     == CutAt(Request1, 40)
CutOffset  == CutAt([Bare EXCEPT !.data_offset = 6, !.len = @ + 4], 46)
CutReport  == CutAt(Report1, 34)
CutAddress == CutAt(Report2, 33)

(* Behind a record, memory holds the headers of an earlier one, which may  *)
(* be those of the very conversation the properties look at, or others.    *)
MCStrayMemory ==
  { [version |-> 4, ihl |-> 5, proto |-> "TCP", src |-> Client, dst |-> Server,
     tcp_seq |-> 1, data_offset |-> 5, bytes |-> <<0, 4>>],
    [version |-> 6, ihl |-> 5, proto |-> "UDP", src |-> [ip |-> 3, port |-> 5],
     dst |-> [ip |-> 1, port |-> 3], tcp_seq |-> 6, data_offset |-> 6, bytes |-> <<4>>] }

Whole == {Request1, Request2, Answer, Apart, Report1, Report2, Again, Truncated}

Few == {Request1, Request2, Report1}

Odd == {PaddedAck, Padded, Bare, BareReport, Ping, Version6, Cut, Overrun, OverrunReport, Stuck,
        CutPort, CutSeq, CutOffset, CutReport, CutAddress}

MCCaptures == BoundedSeq(Whole, 4) \cup BoundedSeq(Few \cup Odd, 3)

MCTcpCaptures == BoundedSeq({Request1, Request2, Bare}, 3)

MCPaddedCaptures == BoundedSeq({Request1, Request2, PaddedAck}, 3)

=============================================================================
