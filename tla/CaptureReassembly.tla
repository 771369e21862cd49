-------------------------- MODULE CaptureReassembly -------------------------
(***************************************************************************)
(* One TcpReassembler fed with what a packet capture holds of one          *)
(* direction of a connection.  The capture may start anywhere, may have    *)
(* lost packets, and holds retransmitted and reordered ones.               *)
(*                                                                         *)
(* A position is an offset in the sender's sequence space: 0 is the SYN,   *)
(* which takes one sequence number and carries no byte, and 1, 2, ... are  *)
(* the bytes of data.  A byte is represented by its position, so that the  *)
(* stream shows which bytes it holds; on the wire position p has sequence  *)
(* number SeqOf(p).                                                        *)
(***************************************************************************)
EXTENDS TcpReassembler

CONSTANTS
  ISN,       \* initial sequence number of the sender
  MaxPos,    \* bound: positions a sender may reach
  MaxLen,    \* largest payload of a segment
  Window     \* how far behind the newest byte a stale segment may be

ASSUME CaptureAssumption ==
  /\ ISN \in SeqNumber
  /\ MaxPos \in Nat
  /\ MaxLen \in Nat
  /\ Window \in Nat
  /\ Window < SeqSpace

VARIABLES
  reassembler,   \* the object
  crashed,       \* the process died on a null payload
  first,         \* history: position of the first packet captured
  sent,          \* history: positions sent, as far as the capture shows
  inorder,       \* history: no byte lost, none out of order so far
  lapped         \* history: a segment came a whole sequence space too late

vars == <<reassembler, crashed, first, sent, inorder, lapped>>

Positions == 0 .. MaxPos

SeqOf(pos) == (ISN + pos) % SeqSpace

(* The segment that carries n bytes from position pos on.                  *)
Bytes(pos, n) == [i \in 1..n |-> pos + i - 1]

Segment(pos, n, has_buffer) ==
  [tcp_seq |-> SeqOf(pos), payload |-> Bytes(pos, n), has_buffer |-> has_buffer]

(* The position the stream has reached.                                    *)
NextPos == first + ByteCount(reassembler)

Init ==
  /\ reassembler = NewReassembler
  /\ crashed = FALSE
  /\ first = 0
  /\ sent = 0
  /\ inorder = TRUE
  /\ lapped = FALSE

(* What the packet just captured tells of the sender.  The packet covers   *)
(* the positions from pos up to, not including, end.                       *)
Record(pos, end) ==
  IF ~reassembler.initialized
    THEN /\ first' = pos
         /\ sent' = end
         /\ UNCHANGED <<inorder, lapped>>
    ELSE /\ sent' = IF end > sent THEN end ELSE sent
         /\ inorder' = (inorder /\ (pos = sent \/ end <= sent))
         /\ lapped' = (lapped \/ pos >= NextPos + SeqSpace)
         /\ UNCHANGED first

(* A packet may not be older than the window allows; a newer one may skip  *)
(* any number of positions, which the capture then lost.                   *)
Fresh(pos) == reassembler.initialized => pos + Window >= sent

(* A data segment.  Data starts after the SYN.                             *)
CaptureData(pos, n) ==
  /\ ~crashed
  /\ Fresh(pos)
  /\ pos >= 1
  /\ n >= 1
  /\ pos + n <= MaxPos
  /\ reassembler' = AddSegment(reassembler, Segment(pos, n, TRUE))
  /\ Record(pos, pos + n)
  /\ UNCHANGED crashed

(* A packet without data whose buffer exists but is empty, as SetPayload   *)
(* builds it: the SYN at position 0, which consumes that position, or an   *)
(* acknowledgement at a later one.                                         *)
CaptureEmpty(pos) ==
  /\ ~crashed
  /\ Fresh(pos)
  /\ reassembler' = AddSegment(reassembler, Segment(pos, 0, TRUE))
  /\ Record(pos, IF pos = 0 THEN 1 ELSE pos)
  /\ UNCHANGED crashed

(* A packet without data as the parser builds it: its buffer is null, and  *)
(* the first use of it ends the process.                                   *)
CaptureBare(pos) ==
  /\ ~crashed
  /\ Fresh(pos)
  /\ NullPayload(Segment(pos, 0, FALSE))
  /\ crashed' = TRUE
  /\ UNCHANGED <<reassembler, first, sent, inorder, lapped>>

Next ==
  \E pos \in Positions :
    \/ \E n \in 1..MaxLen : CaptureData(pos, n)
    \/ CaptureEmpty(pos)
    \/ CaptureBare(pos)

Spec == Init /\ [][Next]_vars

-----------------------------------------------------------------------------
(* Type correctness of the reassembler and of the history.                 *)
TypeOK ==
  /\ reassembler \in Reassembler
  /\ crashed \in BOOLEAN
  /\ first \in Nat
  /\ sent \in Nat
  /\ inorder \in BOOLEAN
  /\ lapped \in BOOLEAN

(* However segments are lost, repeated, overlapped or reordered, and       *)
(* however often the sequence number wraps, the stream TcpReassembler      *)
(* hands to the decoder is one contiguous run of the sender's bytes, as    *)
(* long as no segment is a whole sequence space ahead of it.               *)
StreamIsContiguous ==
  ~lapped => reassembler.stream = Bytes(first, ByteCount(reassembler))

(* next_seq_ always is the sequence number of the byte after the last one  *)
(* in the stream, also after a wrap and after a lap.                       *)
NextSeqTracksStream ==
  reassembler.initialized => reassembler.next_seq = SeqOf(NextPos)

(* When a capture that starts after the SYN shows every byte in order,     *)
(* repeated segments included, the stream holds every byte shown: nothing  *)
(* AddSegment drops was needed.                                            *)
MidstreamLosslessIsComplete ==
  (reassembler.initialized /\ inorder /\ first >= 1) => NextPos = sent

(* Reassembly implements ordered delivery, forfeited only by a lap.        *)
Delivery ==
  INSTANCE OrderedDelivery WITH
    started <- reassembler.initialized,
    start   <- first,
    stream  <- reassembler.stream,
    trusted <- ~lapped

ImplementsOrderedDelivery == Delivery!Spec

=============================================================================
