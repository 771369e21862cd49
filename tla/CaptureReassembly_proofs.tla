---------------------- MODULE CaptureReassembly_proofs ----------------------
(***************************************************************************)
(* Proofs about reassembly, for every size of the sequence space, every    *)
(* initial sequence number and every bound.                                *)
(***************************************************************************)
EXTENDS CaptureReassembly, SharedLemmas

(* Before the first packet nothing is recorded.                            *)
Untouched ==
  ~reassembler.initialized =>
     /\ reassembler.stream = <<>>
     /\ first = 0
     /\ sent = 0
     /\ inorder
     /\ ~lapped

(* The stream never is ahead of what was sent.                             *)
NotAhead == reassembler.initialized => NextPos <= sent

(* The inductive invariant: the checked invariants and the two facts above *)
(* on which a step's effect depends.                                       *)
IInv ==
  /\ TypeOK
  /\ Untouched
  /\ NotAhead
  /\ StreamIsContiguous
  /\ NextSeqTracksStream
  /\ MidstreamLosslessIsComplete

-----------------------------------------------------------------------------
(* The constants, as the provers need them.                                *)
LEMMA Constants ==
  /\ SeqSpace \in Nat \ {0}
  /\ ISN \in Nat
  /\ ISN < SeqSpace
  /\ MaxPos \in Nat
  /\ MaxLen \in Nat
  /\ Window \in Nat
  /\ Window < SeqSpace
BY SeqSpaceAssumption, CaptureAssumption DEF SeqNumber

(* Every position has a sequence number.                                   *)
LEMMA SeqOfType ==
  ASSUME NEW pos \in Nat
  PROVE  SeqOf(pos) \in SeqNumber
BY Constants, Division, ISN + pos \in Nat DEF SeqOf, SeqNumber

(* Advancing the sequence number by a length is advancing the position.    *)
LEMMA SeqOfAdvances ==
  ASSUME NEW pos \in Nat, NEW n \in Nat
  PROVE  (SeqOf(pos) + n) % SeqSpace = SeqOf(pos + n)
<1> DEFINE a == ISN + pos
<1>1. a \in Nat /\ ISN + (pos + n) = a + n
  BY Constants
<1>2. SeqOf(pos) = a % SeqSpace /\ SeqOf(pos + n) = (a + n) % SeqSpace
  BY <1>1 DEF SeqOf
<1> HIDE DEF a
<1>3. ((a % SeqSpace) + n) % SeqSpace = (a + n) % SeqSpace
  BY <1>1, Constants, AddThenReduce
<1>4. QED
  BY <1>2, <1>3

(* Equal sequence numbers stay equal when both advance by the same length. *)
LEMMA SeqOfCongruent ==
  ASSUME NEW pos \in Nat, NEW q \in Nat, NEW n \in Nat, SeqOf(pos) = SeqOf(q)
  PROVE  SeqOf(pos + n) = SeqOf(q + n)
<1>1. SeqOf(pos + n) = (SeqOf(pos) + n) % SeqSpace
  BY SeqOfAdvances
<1>2. SeqOf(q + n) = (SeqOf(q) + n) % SeqSpace
  BY SeqOfAdvances
<1>3. QED
  BY <1>1, <1>2

(* A segment that is not too old and carries the expected sequence number  *)
(* starts at the expected position or at least a whole lap after it.       *)
LEMMA SameNumber ==
  ASSUME NEW pos \in Nat, NEW q \in Nat,
         SeqOf(pos) = SeqOf(q), q < pos + SeqSpace
  PROVE  pos = q \/ pos >= q + SeqSpace
<1> DEFINE a == ISN + pos
           b == ISN + q
<1>1. a \in Nat /\ b \in Nat /\ a % SeqSpace = b % SeqSpace
  BY Constants DEF SeqOf
<1>2. CASE pos <= q
  <2>1. a <= b /\ b < a + SeqSpace
    BY <1>2, Constants
  <2>2. a = b
    <3> HIDE DEF a, b
    <3>1. QED
      BY <1>1, <2>1, Constants, CloseRemainders
  <2>3. QED
    BY <2>2, Constants
<1>3. CASE q < pos /\ pos < q + SeqSpace
  <2>1. b <= a /\ a < b + SeqSpace
    BY <1>3, Constants
  <2>2. a = b
    <3> HIDE DEF a, b
    <3>1. QED
      BY <1>1, <2>1, Constants, CloseRemainders
  <2>3. QED
    BY <2>2, Constants
<1>4. QED
  BY <1>2, <1>3, Constants

(* A run of bytes followed by the run that continues it is one run.        *)
LEMMA BytesConcat ==
  ASSUME NEW from \in Nat, NEW n \in Nat, NEW m \in Nat
  PROVE  /\ Bytes(from, n) \in Seq(Nat)
         /\ Len(Bytes(from, n)) = n
         /\ Bytes(from, n) \o Bytes(from + n, m) = Bytes(from, n + m)
BY DEF Bytes

(* The same for the provers that do not instantiate it themselves.         *)
LEMMA BytesJoin ==
  \A from, n, m \in Nat : Bytes(from, n) \o Bytes(from + n, m) = Bytes(from, n + m)
BY BytesConcat

(* Two sequences put together.                                             *)
LEMMA ConcatLength ==
  ASSUME NEW S, NEW s \in Seq(S), NEW t \in Seq(S)
  PROVE  /\ s \o t \in Seq(S)
         /\ Len(s \o t) = Len(s) + Len(t)
OBVIOUS

(* The sequence number the reassembler waits for when a packet at position *)
(* pos arrives.                                                            *)
Awaited(pos) ==
  IF reassembler.initialized THEN reassembler.next_seq ELSE SeqOf(pos)

(* What adding a segment amounts to: the bytes are appended and next_seq   *)
(* follows, or at most the synchronisation happens.                        *)
LEMMA AddSegmentEffect ==
  ASSUME TypeOK, NEW pos \in Nat, NEW n \in Nat
  PROVE  /\ n > 0 /\ SeqOf(pos) = Awaited(pos)
              => AddSegment(reassembler, Segment(pos, n, TRUE))
                   = [stream      |-> reassembler.stream \o Bytes(pos, n),
                      next_seq    |-> SeqOf(pos + n),
                      initialized |-> TRUE]
         /\ ~(n > 0 /\ SeqOf(pos) = Awaited(pos))
              => AddSegment(reassembler, Segment(pos, n, TRUE))
                   = [stream      |-> reassembler.stream,
                      next_seq    |-> Awaited(pos),
                      initialized |-> TRUE]
<1> DEFINE packet == Segment(pos, n, TRUE)
           base == Synchronized(reassembler, packet)
           bytes == Bytes(pos, n)
<1>1. packet.tcp_seq = SeqOf(pos) /\ packet.payload = bytes
  BY DEF Segment
<1>2. base = [stream |-> reassembler.stream, next_seq |-> Awaited(pos), initialized |-> TRUE]
  BY <1>1 DEF Synchronized, TypeOK, Reassembler, Awaited
<1>3. bytes \in Seq(Nat) /\ Len(bytes) = n
  BY BytesConcat
<1> HIDE DEF bytes
<1>4. n > 0 <=> bytes # <<>>
  BY <1>3
<1>5. AddSegment(reassembler, packet)
        = IF bytes # <<>> /\ packet.tcp_seq = base.next_seq
            THEN [base EXCEPT !.stream = @ \o bytes,
                              !.next_seq = (packet.tcp_seq + Len(bytes)) % SeqSpace]
            ELSE base
  BY <1>1 DEF AddSegment
<1>6. (packet.tcp_seq + Len(bytes)) % SeqSpace = SeqOf(pos + n)
  BY <1>1, <1>3, SeqOfAdvances
<1> HIDE DEF packet, base
<1>7. CASE n > 0 /\ SeqOf(pos) = Awaited(pos)
  BY <1>1, <1>2, <1>4, <1>5, <1>6, <1>7 DEF bytes, packet
<1>8. CASE ~(n > 0 /\ SeqOf(pos) = Awaited(pos))
  BY <1>1, <1>2, <1>4, <1>5, <1>8 DEF packet
<1>9. QED
  BY <1>7, <1>8

-----------------------------------------------------------------------------
(* What CaptureData and CaptureEmpty have in common.                       *)
Captured(pos, n, end) ==
  /\ pos + n <= end
  /\ n > 0 => pos >= 1
  /\ pos >= 1 => end = pos + n
  /\ Fresh(pos)
  /\ reassembler' = AddSegment(reassembler, Segment(pos, n, TRUE))
  /\ Record(pos, end)
  /\ crashed' \in BOOLEAN

(* The first packet captured establishes the invariant's content.          *)
LEMMA FirstPacket ==
  ASSUME IInv, ~reassembler.initialized,
         NEW pos \in Nat, NEW n \in Nat, NEW end \in Nat,
         Captured(pos, n, end)
  PROVE  IInv' /\ first' = pos /\ ~lapped' /\ reassembler'.initialized
<1>1. first' = pos /\ sent' = end /\ inorder' /\ ~lapped'
  BY DEF Record, IInv, Untouched, Captured
<1>2. reassembler' = [stream |-> Bytes(pos, n), next_seq |-> SeqOf(pos + n), initialized |-> TRUE]
  <2>1. TypeOK /\ reassembler.stream = <<>> /\ Awaited(pos) = SeqOf(pos)
    BY DEF IInv, Untouched, Awaited
  <2>2. CASE n > 0
    <3>1. reassembler' = [stream |-> <<>> \o Bytes(pos, n), next_seq |-> SeqOf(pos + n),
                          initialized |-> TRUE]
      BY <2>1, <2>2, AddSegmentEffect DEF Captured
    <3>2. <<>> \o Bytes(pos, n) = Bytes(pos, n)
      BY BytesConcat
    <3>3. QED
      BY <3>1, <3>2
  <2>3. CASE n = 0
    <3>1. ~(n > 0 /\ SeqOf(pos) = Awaited(pos))
      BY <2>3
    <3>2. reassembler' = [stream |-> <<>>, next_seq |-> SeqOf(pos), initialized |-> TRUE]
      BY <2>1, <3>1, AddSegmentEffect DEF Captured
    <3>3. Bytes(pos, n) = <<>> /\ pos + n = pos
      BY <2>3, BytesConcat
    <3>4. QED
      BY <3>2, <3>3
  <2>4. QED
    BY <2>2, <2>3
<1>3. Bytes(pos, n) \in Seq(Nat) /\ Len(Bytes(pos, n)) = n
  BY BytesConcat
<1>4. NextPos' = pos + n
  <2>1. reassembler'.stream = Bytes(pos, n)
    BY <1>2
  <2>2. Len(reassembler'.stream) = n
    BY <2>1, <1>3
  <2>3. NextPos' = first' + Len(reassembler'.stream)
    BY DEF NextPos, ByteCount
  <2>4. QED
    BY <1>1, <2>2, <2>3
<1>5. TypeOK'
  <2>1. SeqOf(pos + n) \in SeqNumber
    BY SeqOfType
  <2>2. reassembler' \in Reassembler
    BY <2>1, <1>2, <1>3 DEF Reassembler
  <2>3. inorder' \in BOOLEAN /\ lapped' \in BOOLEAN /\ crashed' \in BOOLEAN
    BY <1>1 DEF Record, Captured, IInv, TypeOK, Reassembler
  <2>4. QED
    BY <2>2, <2>3, <1>1 DEF TypeOK, Reassembler
<1>6. Untouched'
  BY <1>2 DEF Untouched
<1>7. NotAhead' /\ NextSeqTracksStream' /\ MidstreamLosslessIsComplete'
  <2>1. NextPos' = pos + n /\ sent' = end /\ first' = pos
    BY <1>1, <1>4
  <2>2. pos + n <= end /\ (pos >= 1 => end = pos + n)
    BY DEF Captured
  <2>3. NotAhead'
    BY <2>1, <2>2 DEF NotAhead
  <2>4. NextSeqTracksStream'
    <3>1. SeqOf(NextPos)' = SeqOf(pos + n)
      BY <2>1 DEF SeqOf
    <3>2. QED
      BY <3>1, <1>2 DEF NextSeqTracksStream
  <2>5. MidstreamLosslessIsComplete'
    BY <2>1, <2>2 DEF MidstreamLosslessIsComplete
  <2>6. QED
    BY <2>3, <2>4, <2>5
<1>8. StreamIsContiguous'
  BY <1>1, <1>2, <1>3 DEF StreamIsContiguous, ByteCount
<1>9. reassembler'.initialized
  BY <1>2
<1>10. QED
  BY <1>1, <1>5, <1>6, <1>7, <1>8, <1>9 DEF IInv

(* A later packet that is dropped.                                         *)
LEMMA DroppedPacket ==
  ASSUME IInv, reassembler.initialized,
         NEW pos \in Nat, NEW n \in Nat, NEW end \in Nat,
         ~(n > 0 /\ SeqOf(pos) = reassembler.next_seq),
         Captured(pos, n, end)
  PROVE  IInv' /\ reassembler' = reassembler /\ first' = first
<1>1. reassembler' = reassembler
  <2>1. TypeOK /\ Awaited(pos) = reassembler.next_seq
    BY DEF IInv, Awaited
  <2>2. reassembler' = [stream      |-> reassembler.stream,
                        next_seq    |-> reassembler.next_seq,
                        initialized |-> TRUE]
    BY <2>1, AddSegmentEffect DEF Captured
  <2>3. QED
    BY <2>1, <2>2 DEF TypeOK, Reassembler
<1>2. /\ first' = first
      /\ sent' = IF end > sent THEN end ELSE sent
      /\ inorder' = (inorder /\ (pos = sent \/ end <= sent))
      /\ lapped' = (lapped \/ pos >= NextPos + SeqSpace)
  BY DEF Record, Captured
<1>3. NextPos' = NextPos /\ NextPos \in Nat /\ first <= NextPos
  BY <1>1, <1>2 DEF NextPos, ByteCount, IInv, TypeOK, Reassembler
<1>4. TypeOK'
  BY <1>1, <1>2 DEF TypeOK, Reassembler, IInv, Captured
<1>5. Untouched' /\ StreamIsContiguous'
  BY <1>1, <1>2 DEF Untouched, StreamIsContiguous, ByteCount, IInv
<1>6. NextSeqTracksStream'
  BY <1>1, <1>3 DEF NextSeqTracksStream, IInv, SeqOf
<1>7. NotAhead'
  BY <1>1, <1>2, <1>3 DEF NotAhead, IInv, TypeOK, Reassembler
<1>8. MidstreamLosslessIsComplete'
  <2>1. SUFFICES ASSUME inorder', first' >= 1
                 PROVE  NextPos' = sent'
    BY DEF MidstreamLosslessIsComplete
  <2>2. inorder /\ (pos = sent \/ end <= sent) /\ first >= 1
    BY <2>1, <1>2
  <2>3. NextPos = sent /\ sent >= 1
    BY <2>2, <1>3 DEF IInv, MidstreamLosslessIsComplete, TypeOK, Reassembler
  <2>4. end <= sent
    <3>1. CASE pos = sent /\ n > 0
      BY <3>1, <2>3 DEF IInv, NextSeqTracksStream
    <3>2. CASE pos = sent /\ n = 0
      BY <3>2, <2>3 DEF Captured
    <3>3. QED
      BY <3>1, <3>2, <2>2
  <2>5. QED
    BY <2>3, <2>4, <1>2, <1>3
<1>9. QED
  BY <1>1, <1>2, <1>4, <1>5, <1>6, <1>7, <1>8 DEF IInv

(* A later packet that is appended: it starts at the end of the stream,    *)
(* unless the sender is a lap ahead.                                       *)
LEMMA AppendedPacket ==
  ASSUME IInv, reassembler.initialized,
         NEW pos \in Nat, NEW n \in Nat, NEW end \in Nat,
         n > 0, SeqOf(pos) = reassembler.next_seq,
         Captured(pos, n, end)
  PROVE  /\ IInv'
         /\ first' = first
         /\ reassembler'.initialized
         /\ reassembler'.stream \in Seq(Nat)
         /\ Len(reassembler'.stream) >= Len(reassembler.stream)
<1>1. reassembler' = [stream      |-> reassembler.stream \o Bytes(pos, n),
                      next_seq    |-> SeqOf(pos + n),
                      initialized |-> TRUE]
  <2>1. TypeOK /\ Awaited(pos) = reassembler.next_seq
    BY DEF IInv, Awaited
  <2>2. QED
    BY <2>1, AddSegmentEffect DEF Captured
<1>2. /\ first' = first
      /\ sent' = IF end > sent THEN end ELSE sent
      /\ inorder' = (inorder /\ (pos = sent \/ end <= sent))
      /\ lapped' = (lapped \/ pos >= NextPos + SeqSpace)
  BY DEF Record, Captured
<1>3. /\ reassembler.stream \in Seq(Nat)
      /\ Bytes(pos, n) \in Seq(Nat)
      /\ Len(Bytes(pos, n)) = n
      /\ NextPos \in Nat /\ first \in Nat /\ sent \in Nat
      /\ NextPos = first + Len(reassembler.stream)
  BY BytesConcat DEF IInv, TypeOK, Reassembler, NextPos, ByteCount
<1>4. /\ reassembler.stream \o Bytes(pos, n) \in Seq(Nat)
      /\ Len(reassembler.stream \o Bytes(pos, n)) = Len(reassembler.stream) + n
  <2>1. /\ reassembler.stream \o Bytes(pos, n) \in Seq(Nat)
        /\ Len(reassembler.stream \o Bytes(pos, n))
             = Len(reassembler.stream) + Len(Bytes(pos, n))
    BY <1>3, ConcatLength, Zenon
  <2>2. QED
    BY <2>1, <1>3, Zenon
<1>5. NextPos' = NextPos + n
  <2>1. reassembler'.stream = reassembler.stream \o Bytes(pos, n)
    BY <1>1
  <2>2. Len(reassembler'.stream) = Len(reassembler.stream) + n
    BY <2>1, <1>4
  <2>3. NextPos' = first' + Len(reassembler'.stream)
    BY DEF NextPos, ByteCount
  <2>4. Len(reassembler.stream) \in Nat
    BY <1>3
  <2>5. QED
    BY <2>2, <2>3, <2>4, <1>2, <1>3
<1>6. NextPos <= sent /\ SeqOf(pos) = SeqOf(NextPos)
  BY DEF IInv, NotAhead, NextSeqTracksStream
<1>7. pos = NextPos \/ pos >= NextPos + SeqSpace
  <2>1. NextPos < pos + SeqSpace
    BY <1>3, <1>6, Constants DEF Fresh, Captured
  <2>2. QED
    BY <2>1, <1>3, <1>6, SameNumber
<1>8. TypeOK'
  <2>1. SeqOf(pos + n) \in SeqNumber
    BY SeqOfType
  <2>2. reassembler' \in Reassembler
    BY <2>1, <1>1, <1>4 DEF Reassembler
  <2>3. inorder' \in BOOLEAN /\ lapped' \in BOOLEAN /\ crashed' \in BOOLEAN
    BY <1>2 DEF Captured, IInv, TypeOK, Reassembler
  <2>4. first' \in Nat /\ sent' \in Nat
    BY <1>2, <1>3
  <2>5. QED
    BY <2>2, <2>3, <2>4 DEF TypeOK, Reassembler
<1>9. Untouched'
  BY <1>1 DEF Untouched
<1>10. NotAhead'
  <2>1. NextPos <= pos /\ end = pos + n /\ end <= sent'
    BY <1>2, <1>3, <1>7, Constants DEF Captured
  <2>2. QED
    BY <2>1, <1>2, <1>3, <1>5 DEF NotAhead
<1>11. NextSeqTracksStream'
  <2>1. SeqOf(pos + n) = SeqOf(NextPos + n)
    BY <1>3, <1>6, SeqOfCongruent
  <2>2. SeqOf(NextPos)' = SeqOf(NextPos + n)
    BY <1>5 DEF SeqOf
  <2>3. QED
    BY <1>1, <2>1, <2>2 DEF NextSeqTracksStream
<1>12. StreamIsContiguous'
  <2>1. SUFFICES ASSUME ~lapped'
                 PROVE  reassembler'.stream = Bytes(first', Len(reassembler'.stream))
    BY DEF StreamIsContiguous, ByteCount, Bytes
  <2>2. pos = NextPos /\ reassembler.stream = Bytes(first, Len(reassembler.stream))
    BY <2>1, <1>2, <1>7 DEF IInv, StreamIsContiguous, ByteCount
  <2> DEFINE len == Len(reassembler.stream)
  <2>3. len \in Nat /\ NextPos = first + len
    BY <1>3
  <2>4. Bytes(first, len) \o Bytes(first + len, n) = Bytes(first, len + n)
    <3>1. first \in Nat /\ len \in Nat /\ n \in Nat
      BY <1>3, <2>3
    <3> HIDE DEF len
    <3>2. QED
      BY <3>1, BytesJoin, Zenon
  <2>5. reassembler'.stream = Bytes(first, len + n) /\ Len(reassembler'.stream) = len + n
    BY <2>2, <2>3, <2>4, <1>1, <1>4
  <2>6. QED
    BY <2>5, <1>2
<1>13. MidstreamLosslessIsComplete'
  <2>1. SUFFICES ASSUME inorder', first' >= 1
                 PROVE  NextPos' = sent'
    BY DEF MidstreamLosslessIsComplete
  <2>2. inorder /\ (pos = sent \/ pos + n <= sent) /\ first >= 1 /\ end = pos + n
    BY <2>1, <1>2 DEF Captured
  <2>3. NextPos = sent
    BY <2>2 DEF IInv, MidstreamLosslessIsComplete
  <2>4. pos = sent
    <3>1. pos >= NextPos
      BY <1>3, <1>7, Constants
    <3>2. QED
      BY <2>2, <2>3, <3>1, <1>3
  <2>5. QED
    BY <2>2, <2>3, <2>4, <1>2, <1>3, <1>5
<1>14. IInv'
  BY <1>8, <1>9, <1>10, <1>11, <1>12, <1>13 DEF IInv
<1>15. reassembler'.stream = reassembler.stream \o Bytes(pos, n) /\ reassembler'.initialized
  BY <1>1
<1>16. QED
  BY <1>2, <1>3, <1>4, <1>14, <1>15

-----------------------------------------------------------------------------
(* Every step of the specification keeps the invariant, and maps to a step *)
(* of ordered delivery or to a stutter.                                    *)
LEMMA CapturedKeepsIInv ==
  ASSUME IInv, NEW pos \in Nat, NEW n \in Nat, NEW end \in Nat,
         Captured(pos, n, end)
  PROVE  IInv'
<1>1. CASE ~reassembler.initialized
  BY <1>1, FirstPacket
<1>2. CASE reassembler.initialized /\ n > 0 /\ SeqOf(pos) = reassembler.next_seq
  BY <1>2, AppendedPacket
<1>3. CASE reassembler.initialized /\ ~(n > 0 /\ SeqOf(pos) = reassembler.next_seq)
  BY <1>3, DroppedPacket
<1>4. QED
  BY <1>1, <1>2, <1>3

LEMMA CapturedIsDelivered ==
  ASSUME IInv, NEW pos \in Nat, NEW n \in Nat, NEW end \in Nat,
         Captured(pos, n, end)
  PROVE  Delivery!Next \/ UNCHANGED Delivery!vars
<1>1. IInv'
  BY CapturedKeepsIInv
<1>2. \A from, k : Delivery!Run(from, k) = Bytes(from, k)
  BY DEF Delivery!Run, Bytes
<1>3. Len(reassembler.stream) \in Nat /\ Len(reassembler'.stream) \in Nat /\ reassembler'.stream \in Seq(Nat)
  BY <1>1 DEF IInv, TypeOK, Reassembler
<1>4. CASE ~reassembler.initialized
  <2>1. first' = pos /\ ~lapped' /\ ~lapped /\ reassembler.stream = <<>>
    BY <1>4, FirstPacket DEF IInv, Untouched
  <2>2. reassembler'.initialized
    BY <1>4, FirstPacket
  <2>3. Delivery!Grows
    BY <2>1, <1>1, <1>2, <1>3 DEF Delivery!Grows, IInv, StreamIsContiguous, ByteCount
  <2>4. Delivery!Start
    BY <2>1, <2>2, <2>3, <1>4 DEF Delivery!Start
  <2>5. QED
    BY <2>4 DEF Delivery!Next
<1>5. CASE reassembler.initialized /\ ~(n > 0 /\ SeqOf(pos) = reassembler.next_seq)
  <2>1. reassembler' = reassembler /\ first' = first
    BY <1>5, DroppedPacket
  <2>2. CASE lapped' = lapped
    BY <2>1, <2>2 DEF Delivery!vars
  <2>3. CASE lapped'
    BY <2>1, <2>3, <1>3, <1>5 DEF Delivery!Next, Delivery!Forfeit
  <2>4. QED
    BY <2>2, <2>3, <1>1, <1>5 DEF Captured, Record, IInv, TypeOK, Reassembler
<1>6. CASE reassembler.initialized /\ n > 0 /\ SeqOf(pos) = reassembler.next_seq
  <2>1. /\ first' = first
        /\ reassembler'.initialized
        /\ Len(reassembler'.stream) >= Len(reassembler.stream)
    BY <1>6, AppendedPacket
  <2>2. CASE lapped'
    BY <2>1, <2>2, <1>3, <1>6 DEF Delivery!Next, Delivery!Forfeit
  <2>3. CASE ~lapped'
    <3>1. ~lapped
      BY <2>3, <1>6 DEF Captured, Record
    <3>2. Delivery!Grows
      BY <2>1, <2>3, <1>1, <1>2 DEF Delivery!Grows, IInv, StreamIsContiguous, ByteCount
    <3>3. Delivery!Deliver
      BY <2>1, <2>3, <3>1, <3>2, <1>6 DEF Delivery!Deliver
    <3>4. QED
      BY <3>3 DEF Delivery!Next
  <2>4. QED
    BY <2>2, <2>3
<1>7. QED
  BY <1>4, <1>5, <1>6

(* The two actions that reach the reassembler are captured packets.        *)
LEMMA ActionsCapture ==
  ASSUME IInv, Next
  PROVE  \/ \E pos, n, end \in Nat : Captured(pos, n, end)
         \/ UNCHANGED <<reassembler, first, sent, inorder, lapped>> /\ crashed' \in BOOLEAN
<1>1. PICK pos \in Positions :
        \/ \E n \in 1..MaxLen : CaptureData(pos, n)
        \/ CaptureEmpty(pos)
        \/ CaptureBare(pos)
  BY DEF Next
<1>2. pos \in Nat
  BY DEF Positions
<1>3. ASSUME NEW n \in 1..MaxLen, CaptureData(pos, n)
      PROVE  Captured(pos, n, pos + n)
  BY <1>2, <1>3, Constants DEF CaptureData, Captured, IInv, TypeOK, Reassembler
<1>4. ASSUME CaptureEmpty(pos)
      PROVE  Captured(pos, 0, IF pos = 0 THEN 1 ELSE pos)
  BY <1>2, <1>4 DEF CaptureEmpty, Captured, IInv, TypeOK, Reassembler
<1>5. ASSUME CaptureBare(pos)
      PROVE  UNCHANGED <<reassembler, first, sent, inorder, lapped>> /\ crashed' \in BOOLEAN
  BY <1>5 DEF CaptureBare
<1>6. \A n \in 1..MaxLen : n \in Nat /\ pos + n \in Nat
  BY <1>2, Constants
<1>7. (IF pos = 0 THEN 1 ELSE pos) \in Nat /\ 0 \in Nat
  BY <1>2
<1>8. QED
  BY <1>1, <1>2, <1>3, <1>4, <1>5, <1>6, <1>7

LEMMA InitIInv ==
  ASSUME Init
  PROVE  IInv
<1>1. 0 \in SeqNumber
  BY Constants DEF SeqNumber
<1>2. reassembler = [stream |-> <<>>, next_seq |-> 0, initialized |-> FALSE]
  BY DEF Init, NewReassembler
<1>3. TypeOK
  <2>1. reassembler \in Reassembler
    BY <1>1, <1>2 DEF Reassembler
  <2>2. QED
    BY <2>1 DEF Init, TypeOK, Reassembler
<1>4. StreamIsContiguous
  <2>1. first = 0 /\ Len(<<>>) = 0 /\ Bytes(0, 0) = <<>>
    BY BytesConcat DEF Init
  <2>2. QED
    BY <1>2, <2>1 DEF StreamIsContiguous, ByteCount
<1>5. ~reassembler.initialized /\ reassembler.stream = <<>>
  BY <1>2
<1>6. Untouched /\ NotAhead /\ NextSeqTracksStream /\ MidstreamLosslessIsComplete
  BY <1>5 DEF Init, Untouched, NotAhead, NextSeqTracksStream, MidstreamLosslessIsComplete
<1>7. QED
  BY <1>3, <1>4, <1>6 DEF IInv

LEMMA NextIInv ==
  ASSUME IInv, [Next]_vars
  PROVE  IInv'
<1>1. CASE \E pos, n, end \in Nat : Captured(pos, n, end)
  BY <1>1, CapturedKeepsIInv
<1>2. CASE UNCHANGED <<reassembler, first, sent, inorder, lapped>> /\ crashed' \in BOOLEAN
  BY <1>2
  DEF IInv, TypeOK, Reassembler, Untouched, NotAhead, StreamIsContiguous, NextSeqTracksStream,
      MidstreamLosslessIsComplete, NextPos, ByteCount, SeqOf, Bytes
<1>3. CASE UNCHANGED vars
  <2>1. UNCHANGED <<reassembler, first, sent, inorder, lapped>> /\ crashed' \in BOOLEAN
    BY <1>3 DEF vars, IInv, TypeOK, Reassembler
  <2>2. QED
    BY <2>1, <1>2
<1>4. QED
  BY <1>1, <1>2, <1>3, ActionsCapture

(* The inductive invariant holds in every reachable state.                 *)
THEOREM Invariance == Spec => []IInv
<1>1. Init => IInv
  BY InitIInv
<1>2. IInv /\ [Next]_vars => IInv'
  BY NextIInv
<1>3. QED
  BY <1>1, <1>2, PTL DEF Spec

(* The reassembler's fields keep their types: next_seq stays within 32     *)
(* bits, the stream holds only bytes of the sender.                        *)
THEOREM TypeCorrect == Spec => []TypeOK
<1>1. IInv => TypeOK
  BY DEF IInv
<1>2. QED
  BY <1>1, Invariance, PTL

(* TcpReassembler::AddSegment never lets a gap, a repetition or a          *)
(* reordering into the stream, unless the sender is 2^32 bytes ahead.      *)
THEOREM Contiguity == Spec => []StreamIsContiguous
<1>1. IInv => StreamIsContiguous
  BY DEF IInv
<1>2. QED
  BY <1>1, Invariance, PTL

(* next_seq_ is the number of the byte after the stream, across wraps.     *)
THEOREM SequenceTracking == Spec => []NextSeqTracksStream
<1>1. IInv => NextSeqTracksStream
  BY DEF IInv
<1>2. QED
  BY <1>1, Invariance, PTL

(* A lossless capture that starts after the SYN is reassembled completely. *)
THEOREM MidstreamCompleteness == Spec => []MidstreamLosslessIsComplete
<1>1. IInv => MidstreamLosslessIsComplete
  BY DEF IInv
<1>2. QED
  BY <1>1, Invariance, PTL

(* Reassembly implements ordered delivery.                                 *)
THEOREM Refinement == Spec => ImplementsOrderedDelivery
<1>1. Init => Delivery!Init
  BY DEF Init, NewReassembler, Delivery!Init
<1>2. IInv /\ [Next]_vars => [Delivery!Next]_Delivery!vars
  <2>1. SUFFICES ASSUME IInv, [Next]_vars
                 PROVE  Delivery!Next \/ UNCHANGED Delivery!vars
    OBVIOUS
  <2>2. CASE \E pos, n, end \in Nat : Captured(pos, n, end)
    BY <2>1, <2>2, CapturedIsDelivered
  <2>3. CASE UNCHANGED <<reassembler, first, sent, inorder, lapped>>
    BY <2>3 DEF Delivery!vars
  <2>4. CASE UNCHANGED vars
    BY <2>4 DEF vars, Delivery!vars
  <2>5. QED
    BY <2>1, <2>2, <2>3, <2>4, ActionsCapture
<1>3. QED
  BY <1>1, <1>2, Invariance, PTL DEF Spec, Delivery!Spec, ImplementsOrderedDelivery

=============================================================================
