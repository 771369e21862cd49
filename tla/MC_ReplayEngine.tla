--------------------------- MODULE MC_ReplayEngine --------------------------
(***************************************************************************)
(* Captures of up to three packets for ReplayEngine: with equal, growing   *)
(* and decreasing times, with time 0, and with a null payload.             *)
(***************************************************************************)
EXTENDS ReplayEngine
LOCAL INSTANCE SequencesExt

Packet(ts) == [timestamp_us |-> ts, has_buffer |-> TRUE]
Bare(ts) == [timestamp_us |-> ts, has_buffer |-> FALSE]

InOrder ==
  {c \in BoundedSeq({Packet(ts) : ts \in {1, 4, 8}}, 3) :
     \A i \in 1 .. Len(c) - 1 : c[i].timestamp_us <= c[i + 1].timestamp_us}

Mixed == {<<Packet(1), Packet(8), Packet(4)>>}

Reordered == {<<Packet(3), Packet(5), Packet(1)>>}

MCCaptures ==
  InOrder \cup Mixed \cup Reordered \cup {<<Packet(0), Packet(4)>>, <<Packet(2), Bare(4)>>}

=============================================================================
