--------------------------- MODULE MC_FlowTracker ---------------------------
(***************************************************************************)
(* Three endpoints, two on one address, chosen so that ordering by address *)
(* and ordering by port disagree.  TCP runs both ways between two pairs of *)
(* them, UDP uses the endpoints of a TCP conversation and one that talks   *)
(* to itself.                                                              *)
(***************************************************************************)
EXTENDS FlowTracker

A == [ip |-> 1, port |-> 7]
B == [ip |-> 1, port |-> 9]
C == [ip |-> 2, port |-> 8]

Tcp(ts, src, dst, seq, payload) ==
  [timestamp_us |-> ts, src |-> src, dst |-> dst, protocol |-> "TCP",
   tcp_seq |-> seq, has_buffer |-> TRUE, payload |-> payload]

Udp(ts, src, dst, payload) ==
  [Tcp(ts, src, dst, 0, payload) EXCEPT !.protocol = "UDP"]

Bare(packet) == [packet EXCEPT !.has_buffer = FALSE, !.payload = <<>>]

MCPackets ==
  { Tcp(1, A, B, 3, <<11, 12>>), Tcp(3, A, B, 1, <<13>>),
    Tcp(2, B, A, 1, <<21>>),     Tcp(4, B, A, 2, <<>>),
    Tcp(2, C, B, 0, <<31>>),     Tcp(5, B, C, 3, <<22>>),
    Bare(Tcp(4, A, B, 3, <<>>)),
    Udp(2, B, A, <<23>>),        Bare(Udp(3, A, B, <<>>)),
    Udp(1, A, A, <<14>>),
    [Udp(1, A, C, <<15>>) EXCEPT !.protocol = "UNKNOWN"] }

=============================================================================
