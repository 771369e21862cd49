--------------------------- MODULE TcpReassembler ---------------------------
(***************************************************************************)
(* One TcpReassembler object: the in-order byte stream of one direction of *)
(* a TCP flow.  The object is a record, each of its methods an operator on *)
(* that record; CaptureReassembly and FlowTracker are the state machines   *)
(* that call them.                                                         *)
(*                                                                         *)
(* Sequence numbers are uint32_t in the code.  SeqSpace is the size of the *)
(* sequence space, 2^32 there and small in the model-checked instances, so *)
(* that wrap-around really happens.                                        *)
(*                                                                         *)
(* A packet is a record with, at least, tcp_seq, has_buffer and payload.   *)
(* has_buffer is FALSE when the packet's unique_ptr<Buffer> is null: the   *)
(* parser leaves it so when no byte follows the headers, and Payload()     *)
(* dereferences it all the same.                                           *)
(***************************************************************************)
EXTENDS Naturals, Sequences

CONSTANT SeqSpace        \* number of distinct sequence numbers

ASSUME SeqSpaceAssumption == SeqSpace \in Nat \ {0}

SeqNumber == 0 .. (SeqSpace - 1)

Reassembler == [stream : Seq(Nat), next_seq : SeqNumber, initialized : BOOLEAN]

NewReassembler == [stream |-> <<>>, next_seq |-> 0, initialized |-> FALSE]

(* Mutant: every first packet is taken for a SYN.                          *)
Synchronized_AsSyn(r, packet) ==
  IF r.initialized
    THEN r
    ELSE [r EXCEPT !.next_seq = (packet.tcp_seq + 1) % SeqSpace, !.initialized = TRUE]

(* The first packet ever seen, whatever its flags, sets the sequence       *)
(* number the stream starts from.                                          *)
Synchronized(r, packet) ==
  IF r.initialized
    THEN r
    ELSE [r EXCEPT !.next_seq = packet.tcp_seq, !.initialized = TRUE]

(* A packet whose payload buffer is null cannot be added: the process dies *)
(* on the null reference.                                                  *)
NullPayload(packet) == ~packet.has_buffer

(* Mutant: the end of a segment is kept in more than 32 bits.              *)
AddSegment_NoWrap(r, packet) ==
  LET base == Synchronized(r, packet)
  IN  IF packet.payload # <<>> /\ packet.tcp_seq = base.next_seq
        THEN [base EXCEPT !.stream = @ \o packet.payload,
                          !.next_seq = packet.tcp_seq + Len(packet.payload)]
        ELSE base

(* Mutant: a segment beyond a gap is appended as well.                     *)
AddSegment_SkipsGaps(r, packet) ==
  LET base == Synchronized(r, packet)
  IN  IF packet.payload # <<>> /\ packet.tcp_seq >= base.next_seq
        THEN [base EXCEPT !.stream = @ \o packet.payload,
                          !.next_seq = (packet.tcp_seq + Len(packet.payload)) % SeqSpace]
        ELSE base

(* Mutant: next_seq follows every segment, appended or not.                *)
AddSegment_AlwaysAdvances(r, packet) ==
  LET base == Synchronized(r, packet)
  IN  [base EXCEPT !.stream = IF packet.tcp_seq = base.next_seq THEN @ \o packet.payload ELSE @,
                   !.next_seq = (packet.tcp_seq + Len(packet.payload)) % SeqSpace]

(* Mutant: the newest bytes win, as if the stream were a window.           *)
AddSegment_Restarts(r, packet) ==
  LET base == Synchronized(r, packet)
  IN  IF packet.payload # <<>> /\ packet.tcp_seq # base.next_seq
        THEN [base EXCEPT !.stream = packet.payload,
                          !.next_seq = (packet.tcp_seq + Len(packet.payload)) % SeqSpace]
        ELSE base

(* Only a segment that starts exactly at next_seq is appended.  Any other  *)
(* one, early, late or overlapping, is dropped.                            *)
AddSegment(r, packet) ==
  LET base == Synchronized(r, packet)
  IN  IF packet.payload # <<>> /\ packet.tcp_seq = base.next_seq
        THEN [base EXCEPT !.stream = @ \o packet.payload,
                          !.next_seq = (packet.tcp_seq + Len(packet.payload)) % SeqSpace]
        ELSE base

ByteCount(r) == Len(r.stream)

=============================================================================
