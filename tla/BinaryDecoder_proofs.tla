------------------------ MODULE BinaryDecoder_proofs ------------------------
(***************************************************************************)
(* Proofs about the decoder, for every schema, every peer that follows it, *)
(* every cut of what the peer sent and any bytes after it.                 *)
(***************************************************************************)
EXTENDS BinaryDecoder, SharedLemmas, FiniteSetTheorems

Field == [name : STRING, type : FieldTypes]

(* The bytes that field k takes of a frame.                                *)
Width(s, k, variable_len) ==
  IF IsVariable(s.fields[k]) THEN variable_len ELSE FieldTypeSize(s.fields[k].type)

(* The sequences of ss are joined one by one.                              *)
LEMMA Flattening ==
  ASSUME NEW E, NEW ss \in Seq(Seq(E))
  PROVE  \E joined : /\ IsJoin(joined, ss, E)
                     /\ \A i \in 0 .. Len(ss) : FlattenSeq([j \in 1 .. i |-> ss[j]]) = joined[i]
                     /\ FlattenSeq(ss) = joined[Len(ss)]
<1>1. \A seq : FlattenSeq(seq) = Joined(seq)
  BY DEF FlattenSeq, Joined
<1>2. PICK joined : /\ IsJoin(joined, ss, E)
                    /\ \A i \in 0 .. Len(ss) : Joined([j \in 1 .. i |-> ss[j]]) = joined[i]
                    /\ Joined(ss) = joined[Len(ss)]
  BY Joining
<1>3. QED
  BY <1>1, <1>2

-----------------------------------------------------------------------------
(* The ends of the fields.                                                 *)

(* A field takes no negative number of bytes.                              *)
LEMMA WidthType ==
  ASSUME NEW s, s.fields \in Seq(Field), NEW variable_len \in Nat, NEW k \in 1 .. Len(s.fields)
  PROVE  Width(s, k, variable_len) \in Nat
<1>1. s.fields[k] \in Field
  OBVIOUS
<1>2. s.fields[k].type \in FieldTypes
  BY <1>1 DEF Field
<1>3. FieldTypeSize(s.fields[k].type) \in Nat
  BY <1>2 DEF FieldTypeSize, FieldTypes
<1>4. QED
  BY <1>3 DEF Width

(* Every field ends where the one before it does, and its width on.        *)
LEMMA FrameEndSteps ==
  ASSUME NEW s, s.fields \in Seq(Field), NEW start \in Nat, NEW variable_len \in Nat
  PROVE  /\ FrameEnd(s, 0, start, variable_len) = start
         /\ \A i \in 0 .. Len(s.fields) : FrameEnd(s, i, start, variable_len) \in Nat
         /\ \A i \in 1 .. Len(s.fields) :
              FrameEnd(s, i, start, variable_len)
                = FrameEnd(s, i - 1, start, variable_len) + Width(s, i, variable_len)
<1> DEFINE n == Len(s.fields)
           step == [k \in 1 .. n |-> [x \in Nat |-> x + Width(s, k, variable_len)]]
           IsEnd(i, f) == f = [k \in 0 .. i |->
             IF k = 0 THEN start
             ELSE f[k - 1] + (IF IsVariable(s.fields[k]) THEN variable_len
                                                         ELSE FieldTypeSize(s.fields[k].type))]
           chosen(i) == CHOOSE f : IsEnd(i, f)
<1>1. n \in Nat
  OBVIOUS
<1>2. step \in [1 .. n -> [Nat -> Nat]]
  <2>1. \A k \in 1 .. n : \A x \in Nat : x + Width(s, k, variable_len) \in Nat
    BY WidthType
  <2>2. QED
    BY <2>1
<1>3. PICK e : IsFold(e, Nat, n, start, step)
  <2> HIDE DEF step, n
  <2>1. QED
    BY <1>1, <1>2, Fold
<1>4. /\ e \in [0 .. n -> Nat] /\ e[0] = start
      /\ \A k \in 1 .. n : e[k] = e[k - 1] + Width(s, k, variable_len)
  <2>1. e \in [0 .. n -> Nat] /\ e[0] = start
    BY <1>3 DEF IsFold
  <2>2. ASSUME NEW k \in 1 .. n PROVE e[k] = e[k - 1] + Width(s, k, variable_len)
    <3>1. k - 1 \in 0 .. n
      BY <1>1
    <3>2. e[k - 1] \in Nat /\ e[k] = step[k][e[k - 1]]
      <4> HIDE DEF step
      <4>1. QED
        BY <1>3, <2>1, <3>1 DEF IsFold
    <3>3. QED
      BY <3>2
  <2>3. QED
    BY <2>1, <2>2
<1>5. ASSUME NEW i \in 0 .. n PROVE FrameEnd(s, i, start, variable_len) = e[i]
  <2> DEFINE front == [k \in 0 .. i |-> e[k]]
             f == chosen(i)
  <2>1. IsEnd(i, front)
    <3>1. ASSUME NEW k \in 0 .. i
          PROVE  front[k] = IF k = 0 THEN start ELSE front[k - 1] + Width(s, k, variable_len)
      <4>1. k = 0 \/ (k \in 1 .. n /\ k - 1 \in 0 .. i /\ k # 0)
        BY <1>1
      <4>2. QED
        BY <1>4, <4>1
    <3>2. front = [k \in 0 .. i |-> front[k]]
      OBVIOUS
    <3> HIDE DEF front
    <3>3. QED
      BY <3>1, <3>2 DEF Width
  <2>2. IsEnd(i, f)
    <3> HIDE DEF IsEnd, front
    <3>1. QED
      BY <2>1
  <2>3. FrameEnd(s, i, start, variable_len) = f[i]
    BY DEF FrameEnd
  <2> HIDE DEF f
  <2>4. f[0] = start /\ \A k \in 1 .. i : f[k] = f[k - 1] + Width(s, k, variable_len)
    <3>1. \A k \in 0 .. i : f[k] = IF k = 0 THEN start ELSE f[k - 1] + Width(s, k, variable_len)
      BY <2>2 DEF Width
    <3>2. 0 \in 0 .. i /\ \A k \in 1 .. i : k \in 0 .. i /\ k # 0
      BY <1>1
    <3>3. QED
      BY <3>1, <3>2
  <2>5. \A k \in 1 .. i : f[k - 1] \in Nat => f[k] = step[k][f[k - 1]]
    BY <1>1, <2>4
  <2> HIDE DEF step, n
  <2>6. f[i] = e[i]
    <3>1. FoldsTo(i, f, Nat, start, step)
      BY <2>4, <2>5 DEF FoldsTo
    <3>2. QED
      BY <1>1, <1>3, <3>1, FoldUnique
  <2>7. QED
    BY <2>3, <2>6
<1>6. \A i \in 1 .. n : i \in 0 .. n /\ i - 1 \in 0 .. n
  BY <1>1
<1>7. 0 \in 0 .. n
  BY <1>1
<1> HIDE DEF step
<1>8. QED
  BY <1>4, <1>5, <1>6, <1>7

(* A field ends behind those before it, as far from the start wherever the *)
(* frame begins.                                                           *)
LEMMA FrameEndGrows ==
  ASSUME NEW s, s.fields \in Seq(Field), NEW start \in Nat, NEW variable_len \in Nat,
         NEW i \in 0 .. Len(s.fields), NEW j \in i .. Len(s.fields)
  PROVE  FrameEnd(s, i, start, variable_len) <= FrameEnd(s, j, start, variable_len)
<1> DEFINE n == Len(s.fields)
           E(k) == FrameEnd(s, k, start, variable_len)
           T == {k \in 0 .. n - i : E(i) <= E(i + k)}
<1>1. n \in Nat /\ n - i \in Nat /\ \A k \in 0 .. n : E(k) \in Nat
  <2>1. \A k \in 0 .. n : E(k) \in Nat
    BY FrameEndSteps, Zenon
  <2>2. n \in Nat /\ n - i \in Nat
    OBVIOUS
  <2>3. QED
    BY <2>1, <2>2
<1>2. 0 \in T
  <2>1. E(i) \in Nat /\ i + 0 = i
    BY <1>1
  <2> HIDE DEF E
  <2>2. QED
    BY <1>1, <2>1
<1>3. ASSUME NEW k \in 1 .. n - i, k - 1 \in T PROVE k \in T
  <2>1. i + k \in 1 .. n /\ (i + k) - 1 = i + (k - 1) /\ (i + k) - 1 \in 0 .. n /\ i + k \in 0 .. n
    BY <1>1
  <2>2. E(i + k) = E((i + k) - 1) + Width(s, i + k, variable_len)
    BY <2>1, FrameEndSteps
  <2>3. Width(s, i + k, variable_len) \in Nat
    BY <2>1, WidthType
  <2>4. E(i) \in Nat /\ E((i + k) - 1) \in Nat
    BY <1>1, <2>1
  <2>5. E(i) <= E((i + k) - 1)
    BY <1>3, <2>1
  <2> HIDE DEF E
  <2>6. QED
    BY <1>1, <2>2, <2>3, <2>4, <2>5
<1>4. 0 .. n - i \subseteq T
  <2> HIDE DEF T
  <2>1. QED
    BY <1>1, <1>2, <1>3, RangeInduction
<1>5. j - i \in 0 .. n - i /\ i + (j - i) = j
  BY <1>1
<1>6. QED
  BY <1>4, <1>5

(* A frame that starts elsewhere ends as much later.                       *)
LEMMA FrameEndMoves ==
  ASSUME NEW s, s.fields \in Seq(Field), NEW start \in Nat, NEW variable_len \in Nat,
         NEW i \in 0 .. Len(s.fields)
  PROVE  FrameEnd(s, i, start, variable_len) = start + FrameEnd(s, i, 0, variable_len)
<1> DEFINE n == Len(s.fields)
           E(k) == FrameEnd(s, k, start, variable_len)
           F(k) == FrameEnd(s, k, 0, variable_len)
           T == {k \in 0 .. n : E(k) = start + F(k)}
<1>1. n \in Nat /\ 0 \in 0 .. n /\ E(0) = start /\ F(0) = 0 /\ \A k \in 0 .. n : F(k) \in Nat
  <2>1. 0 \in Nat /\ n \in Nat /\ 0 \in 0 .. n
    OBVIOUS
  <2>2. F(0) = 0 /\ \A k \in 0 .. n : F(k) \in Nat
    BY <2>1, FrameEndSteps, Zenon
  <2>3. E(0) = start
    BY FrameEndSteps, Zenon
  <2>4. QED
    BY <2>1, <2>2, <2>3
<1>2. ASSUME NEW k \in 1 .. n, k - 1 \in T PROVE k \in T
  <2>1. k \in 0 .. n /\ k - 1 \in 0 .. n
    BY <1>1
  <2>2. E(k) = E(k - 1) + Width(s, k, variable_len) /\ F(k) = F(k - 1) + Width(s, k, variable_len)
    <3>1. 0 \in Nat
      OBVIOUS
    <3>2. F(k) = F(k - 1) + Width(s, k, variable_len)
      BY <3>1, FrameEndSteps, Zenon
    <3>3. E(k) = E(k - 1) + Width(s, k, variable_len)
      BY FrameEndSteps, Zenon
    <3>4. QED
      BY <3>2, <3>3
  <2>3. Width(s, k, variable_len) \in Nat /\ F(k - 1) \in Nat /\ E(k - 1) = start + F(k - 1)
    BY <1>1, <1>2, <2>1, WidthType
  <2> HIDE DEF E, F
  <2>4. QED
    BY <2>1, <2>2, <2>3
<1>3. 0 \in T
  <2> HIDE DEF E, F
  <2>1. QED
    BY <1>1
<1>4. 0 .. n \subseteq T
  <2> HIDE DEF T
  <2>1. QED
    BY <1>1, <1>2, <1>3, RangeInduction
<1>5. QED
  BY <1>4

(* The same in a datagram.                                                 *)
LEMMA DatagramEndSteps ==
  ASSUME NEW s, s.fields \in Seq(Field), NEW len \in Nat
  PROVE  /\ DatagramEnd(s, 0, len) = 0
         /\ \A i \in 0 .. Len(s.fields) : DatagramEnd(s, i, len) \in Nat
         /\ \A i \in 1 .. Len(s.fields) :
              DatagramEnd(s, i, len)
                = IF IsVariable(s.fields[i]) THEN len ELSE DatagramEnd(s, i - 1, len) + Width(s, i, len)
<1> DEFINE n == Len(s.fields)
           Then(k, x) == IF IsVariable(s.fields[k]) THEN len ELSE x + Width(s, k, len)
           step == [k \in 1 .. n |-> [x \in Nat |-> Then(k, x)]]
           IsEnd(i, f) == f = [k \in 0 .. i |->
             IF k = 0 THEN 0
             ELSE IF IsVariable(s.fields[k]) THEN len
             ELSE f[k - 1] + FieldTypeSize(s.fields[k].type)]
           chosen(i) == CHOOSE f : IsEnd(i, f)
<1>1. n \in Nat /\ 0 \in Nat
  OBVIOUS
<1>2. step \in [1 .. n -> [Nat -> Nat]]
  <2>1. \A k \in 1 .. n : \A x \in Nat : Then(k, x) \in Nat
    BY WidthType
  <2> HIDE DEF Then
  <2>2. QED
    BY <2>1
<1>3. PICK e : IsFold(e, Nat, n, 0, step)
  <2> HIDE DEF step, n
  <2>1. QED
    BY <1>1, <1>2, Fold
<1>4. /\ e \in [0 .. n -> Nat] /\ e[0] = 0
      /\ \A k \in 1 .. n : e[k] = Then(k, e[k - 1])
  <2> HIDE DEF Then
  <2>1. e \in [0 .. n -> Nat] /\ e[0] = 0
    BY <1>3 DEF IsFold
  <2>2. ASSUME NEW k \in 1 .. n PROVE e[k] = Then(k, e[k - 1])
    <3>1. k - 1 \in 0 .. n
      BY <1>1
    <3>2. e[k - 1] \in Nat /\ e[k] = step[k][e[k - 1]]
      <4> HIDE DEF step
      <4>1. QED
        BY <1>3, <2>1, <3>1 DEF IsFold
    <3>3. QED
      BY <3>2
  <2>3. QED
    BY <2>1, <2>2
<1>5. ASSUME NEW i \in 0 .. n PROVE DatagramEnd(s, i, len) = e[i]
  <2> DEFINE front == [k \in 0 .. i |-> e[k]]
             f == chosen(i)
  <2>1. IsEnd(i, front)
    <3>1. ASSUME NEW k \in 0 .. i
          PROVE  front[k] = IF k = 0 THEN 0
                            ELSE IF IsVariable(s.fields[k]) THEN len
                            ELSE front[k - 1] + FieldTypeSize(s.fields[k].type)
      <4>1. CASE k = 0
        BY <1>4, <4>1
      <4>2. CASE k # 0
        <5>1. k \in 1 .. n /\ k - 1 \in 0 .. i
          BY <1>1, <4>2
        <5>2. front[k] = Then(k, front[k - 1])
          <6>1. front[k] = e[k] /\ front[k - 1] = e[k - 1]
            BY <5>1
          <6> HIDE DEF front, Then
          <6>2. QED
            BY <1>4, <5>1, <6>1
        <5> HIDE DEF front
        <5>3. CASE IsVariable(s.fields[k])
          BY <4>2, <5>2, <5>3
        <5>4. CASE ~IsVariable(s.fields[k])
          BY <4>2, <5>2, <5>4 DEF Width
        <5>5. QED
          BY <5>3, <5>4
      <4>3. QED
        BY <4>1, <4>2
    <3>2. front = [k \in 0 .. i |-> front[k]]
      OBVIOUS
    <3> HIDE DEF front
    <3>3. QED
      BY <3>1, <3>2
  <2>2. IsEnd(i, f)
    <3> HIDE DEF IsEnd, front
    <3>1. QED
      BY <2>1
  <2>3. DatagramEnd(s, i, len) = f[i]
    BY DEF DatagramEnd
  <2> HIDE DEF f
  <2>4. f[0] = 0 /\ \A k \in 1 .. i : f[k] = Then(k, f[k - 1])
    <3>1. \A k \in 0 .. i : f[k] = IF k = 0 THEN 0
                                     ELSE IF IsVariable(s.fields[k]) THEN len
                                     ELSE f[k - 1] + FieldTypeSize(s.fields[k].type)
      BY <2>2
    <3>2. 0 \in 0 .. i /\ \A k \in 1 .. i : k \in 0 .. i /\ k # 0
      BY <1>1
    <3>3. f[0] = 0
      BY <3>1, <3>2
    <3>4. ASSUME NEW k \in 1 .. i PROVE f[k] = Then(k, f[k - 1])
      <4>1. k \in 0 .. i /\ k # 0
        BY <3>2
      <4>2. CASE IsVariable(s.fields[k])
        BY <3>1, <4>1, <4>2
      <4>3. CASE ~IsVariable(s.fields[k])
        BY <3>1, <4>1, <4>3 DEF Width
      <4>4. QED
        BY <4>2, <4>3
    <3>5. QED
      BY <3>3, <3>4
  <2> HIDE DEF Then
  <2>5. \A k \in 1 .. i : f[k - 1] \in Nat => f[k] = step[k][f[k - 1]]
    BY <1>1, <2>4
  <2> HIDE DEF step, n
  <2>6. f[i] = e[i]
    <3>1. FoldsTo(i, f, Nat, 0, step)
      BY <2>4, <2>5 DEF FoldsTo
    <3>2. QED
      BY <1>1, <1>3, <3>1, FoldUnique
  <2>7. QED
    BY <2>3, <2>6
<1>6. \A i \in 1 .. n : i \in 0 .. n /\ i - 1 \in 0 .. n
  BY <1>1
<1>7. 0 \in 0 .. n
  BY <1>1
<1> HIDE DEF step
<1>8. QED
  BY <1>4, <1>5, <1>6, <1>7

-----------------------------------------------------------------------------
(* What is read of the data.                                               *)

(* An element of a sequence over E is in E.                                *)
LEMMA ElementType ==
  ASSUME NEW E, NEW seq \in Seq(E), NEW i \in 1 .. Len(seq)
  PROVE  seq[i] \in E
  OBVIOUS

(* What SubSeq takes of a sequence.                                        *)
LEMMA Slice ==
  ASSUME NEW E, NEW d \in Seq(E), NEW from \in 0 .. Len(d), NEW to \in from .. Len(d)
  PROVE  /\ SubSeq(d, from + 1, to) \in Seq(E)
         /\ Len(SubSeq(d, from + 1, to)) = to - from
         /\ \A p \in 1 .. to - from : SubSeq(d, from + 1, to)[p] = d[from + p]
<1>1. Len(d) \in Nat /\ from \in Nat /\ to \in Nat /\ from <= to /\ to <= Len(d)
  OBVIOUS
<1>2. SubSeq(d, from + 1, to) = [i \in 1 .. to - from |-> d[from + i]]
  BY <1>1
<1>3. \A i \in 1 .. to - from : from + i \in 1 .. Len(d)
  BY <1>1
<1>4. QED
  BY <1>1, <1>2, <1>3

(* Sequences with the same elements are the same.                          *)
LEMMA EqualElements ==
  ASSUME NEW E, NEW a \in Seq(E), NEW b \in Seq(E), Len(a) = Len(b),
         \A p \in 1 .. Len(a) : a[p] = b[p]
  PROVE  a = b
  OBVIOUS

(* The elements of a concatenation.                                        *)
LEMMA Concatenation ==
  ASSUME NEW E, NEW a \in Seq(E), NEW b \in Seq(E)
  PROVE  /\ a \o b \in Seq(E) /\ Len(a \o b) = Len(a) + Len(b)
         /\ \A p \in 1 .. Len(a) : (a \o b)[p] = a[p]
         /\ \A p \in 1 .. Len(b) : (a \o b)[Len(a) + p] = b[p]
  OBVIOUS

(* A sequence with the elements another begins with is a prefix of it.     *)
LEMMA PrefixByElements ==
  ASSUME NEW E, NEW a \in Seq(E), NEW b \in Seq(E), Len(a) <= Len(b),
         \A p \in 1 .. Len(a) : a[p] = b[p]
  PROVE  IsPrefix(a, b)
<1> DEFINE c == Len(a)
<1>1. c \in Nat /\ Len(b) \in Nat /\ 0 + 1 = 1 /\ c - 0 = c /\ \A p \in 1 .. c : 0 + p = p
  OBVIOUS
<1>2. c \in 0 .. Len(a) /\ c \in 0 .. Len(b) /\ 0 \in 0 .. Len(a) /\ 0 \in 0 .. Len(b)
  BY <1>1
<1> HIDE DEF c
<1>3. /\ SubSeq(a, 0 + 1, c) \in Seq(E) /\ Len(SubSeq(a, 0 + 1, c)) = c - 0
      /\ \A p \in 1 .. c - 0 : SubSeq(a, 0 + 1, c)[p] = a[0 + p]
  BY <1>1, <1>2, Slice
<1>4. /\ SubSeq(b, 0 + 1, c) \in Seq(E) /\ Len(SubSeq(b, 0 + 1, c)) = c - 0
      /\ \A p \in 1 .. c - 0 : SubSeq(b, 0 + 1, c)[p] = b[0 + p]
  BY <1>1, <1>2, Slice
<1>5. \A p \in 1 .. c : a[p] = b[p]
  BY DEF c
<1>6. SubSeq(a, 0 + 1, c) = SubSeq(b, 0 + 1, c)
  <2> DEFINE x == SubSeq(a, 0 + 1, c)
             y == SubSeq(b, 0 + 1, c)
  <2>1. x \in Seq(E) /\ y \in Seq(E) /\ Len(x) = Len(y)
    BY <1>3, <1>4
  <2>2. \A p \in 1 .. Len(x) : x[p] = y[p]
    BY <1>1, <1>3, <1>4, <1>5
  <2> HIDE DEF x, y
  <2>3. x = y
    BY <2>1, <2>2, EqualElements
  <2>4. QED
    BY <2>3 DEF x, y
<1>7. QED
  BY <1>1, <1>6 DEF IsPrefix, c

(* A reversed sequence has the same elements.                              *)
LEMMA ReverseType ==
  ASSUME NEW E, NEW seq \in Seq(E)
  PROVE  Reverse(seq) \in Seq(E) /\ Len(Reverse(seq)) = Len(seq)
<1>1. \A i \in 1 .. Len(seq) : seq[(Len(seq) - i) + 1] \in E
  OBVIOUS
<1>2. QED
  BY <1>1 DEF Reverse

(* The greatest of some indexes is one of them.                            *)
LEMMA MaxIn ==
  ASSUME NEW n \in Nat, NEW T, T \subseteq 1 .. n, T # {}
  PROVE  Max(T) \in T /\ \A k \in T : k <= Max(T)
<1>1. \E m \in T : \A k \in T : k <= m
  <2>1. T \subseteq Nat /\ \A k \in T : k <= n
    OBVIOUS
  <2>2. QED
    BY <2>1, GreatestElement
<1>2. \E m \in T : \A k \in T : m >= k
  BY <1>1
<1>3. Max(T) \in T /\ \A k \in T : Max(T) >= k
  BY <1>2 DEF Max
<1>4. Max(T) \in Nat /\ \A k \in T : k \in Nat
  <2>1. \A k \in T : k \in Nat
    OBVIOUS
  <2>2. QED
    BY <1>3, <2>1
<1>5. QED
  BY <1>3, <1>4

(* The declared length is a number, whatever the bytes are.                *)
LEMMA PayloadLenType ==
  ASSUME NEW s, s.fields \in Seq(Field), NEW d \in Seq(Byte), NEW start \in Nat
  PROVE  PayloadLen(s, d, start) \in Nat
<1> DEFINE hits == {i \in 1 .. Len(s.fields) :
                      /\ FrameEnd(s, i, start, 0) <= Len(d)
                      /\ s.fields[i].name = s.framing.length_field
                      /\ s.fields[i].type = "u16"}
           last == Max(hits)
           end  == FrameEnd(s, last, start, 0)
<1>1. PayloadLen(s, d, start) = IF hits = {} THEN 0 ELSE U16(SubSeq(d, end - 1, end))
  BY DEF PayloadLen
<1>2. CASE hits = {}
  BY <1>1, <1>2
<1>3. CASE hits # {}
  <2>1. last \in hits
    <3>1. hits \subseteq 1 .. Len(s.fields) /\ Len(s.fields) \in Nat
      OBVIOUS
    <3> HIDE DEF hits
    <3>2. QED
      BY <1>3, <3>1, MaxIn
  <2>2. /\ last \in 1 .. Len(s.fields) /\ FrameEnd(s, last, start, 0) <= Len(d)
        /\ s.fields[last].type = "u16"
    <3> HIDE DEF last
    <3>1. QED
      BY <2>1
  <2> HIDE DEF last, hits
  <2>3. /\ FrameEnd(s, last - 1, start, 0) \in Nat
        /\ end = FrameEnd(s, last - 1, start, 0) + Width(s, last, 0)
    <3>1. 0 \in Nat /\ last - 1 \in 0 .. Len(s.fields)
      BY <2>2
    <3>2. QED
      BY <2>2, <3>1, FrameEndSteps, Zenon
  <2>4. Width(s, last, 0) = 2
    BY <2>2 DEF Width, IsVariable, FieldTypeSize
  <2>5. /\ end - 2 \in 0 .. Len(d) /\ end \in end - 2 .. Len(d)
        /\ end - (end - 2) = 2 /\ (end - 2) + 1 = end - 1
    <3> HIDE DEF end
    <3>1. end <= Len(d) /\ Len(d) \in Nat
      BY <2>2 DEF end
    <3>2. QED
      BY <2>3, <2>4, <3>1
  <2> HIDE DEF end
  <2>6. /\ SubSeq(d, (end - 2) + 1, end) \in Seq(Byte)
        /\ Len(SubSeq(d, (end - 2) + 1, end)) = end - (end - 2)
    BY <2>5, Slice
  <2> DEFINE bytes == SubSeq(d, end - 1, end)
  <2>7. bytes \in Seq(Byte) /\ Len(bytes) = 2
    BY <2>5, <2>6
  <2> HIDE DEF bytes
  <2>8. \A i \in 1 .. 2 : bytes[i] \in Nat
    <3>1. \A i \in 1 .. Len(bytes) : bytes[i] \in Byte
      BY <2>7, ElementType
    <3>2. \A b \in Byte : b \in Nat
      BY DEF Byte
    <3>3. QED
      BY <2>7, <3>1, <3>2
  <2>9. U16(bytes) \in Nat
    <3>1. 1 \in 1 .. 2 /\ 2 \in 1 .. 2
      OBVIOUS
    <3>2. bytes[1] \in Nat /\ bytes[2] \in Nat
      BY <2>8, <3>1
    <3>3. QED
      BY <3>2 DEF U16
  <2>10. QED
    BY <1>1, <1>3, <2>9 DEF bytes
<1>4. QED
  BY <1>2, <1>3

(* The fields that are read lie in the data, so that they hold its bytes.  *)
LEMMA ReadFieldType ==
  ASSUME NEW type, NEW d \in Seq(Byte), NEW from \in 0 .. Len(d), NEW to \in from .. Len(d)
  PROVE  ReadField(type, d, from, to) \in Seq(Byte)
<1>1. SubSeq(d, from + 1, to) \in Seq(Byte)
  BY Slice
<1>2. Reverse(SubSeq(d, from + 1, to)) \in Seq(Byte)
  BY <1>1, ReverseType
<1>3. QED
  BY <1>1, <1>2 DEF ReadField

(* What is decoded are messages: fields by their names, each with bytes.   *)
Message == UNION {[names -> Seq(Byte)] : names \in SUBSET STRING}

(* A frame is decoded to a message, and ends within the data.              *)
LEMMA FrameMessageType ==
  ASSUME NEW s, s.fields \in Seq(Field), NEW d \in Seq(Byte), NEW start \in Nat,
         s.framing.header_len \in Nat, FrameFits(s, d, start)
  PROVE  /\ FrameMessage(s, d, start) \in Message
         /\ start + MsgSize(s, PayloadLen(s, d, start)) \in 0 .. Len(d)
<1> DEFINE n == Len(s.fields)
           size == PayloadLen(s, d, start)
           End(i) == FrameEnd(s, i, start, size)
           limit == start + MsgSize(s, size)
           taken == {i \in 1 .. n : End(i) <= limit}
           names == {s.fields[i].name : i \in taken}
           last(name) == Max({j \in taken : s.fields[j].name = name})
           Value(name) == ReadField(s.fields[last(name)].type, d,
                            IF last(name) = 1 THEN start ELSE End(last(name) - 1), End(last(name)))
<1>1. size \in Nat /\ n \in Nat
  BY PayloadLenType
<1>2. limit \in 0 .. Len(d)
  <2>1. limit <= Len(d)
    BY DEF FrameFits
  <2> HIDE DEF size
  <2>2. MsgSize(s, size) \in Nat
    BY <1>1 DEF MsgSize
  <2>3. QED
    BY <2>1, <2>2
<1>3. names \in SUBSET STRING
  <2>1. \A i \in 1 .. n : s.fields[i] \in Field
    BY ElementType
  <2>2. QED
    BY <2>1 DEF Field
<1>4. ASSUME NEW name \in names PROVE Value(name) \in Seq(Byte)
  <2> DEFINE same == {j \in taken : s.fields[j].name = name}
             i == Max(same)
             from == IF i = 1 THEN start ELSE End(i - 1)
  <2>1. i \in same
    <3>1. same \subseteq 1 .. n /\ same # {}
      OBVIOUS
    <3> HIDE DEF same, n
    <3>2. QED
      BY <1>1, <3>1, MaxIn
  <2>2. i \in 1 .. n /\ End(i) <= limit
    <3> HIDE DEF i
    <3>1. QED
      BY <2>1
  <2> HIDE DEF size, i, same
  <2>3. /\ End(0) = start /\ End(i - 1) \in Nat /\ End(i) \in Nat
        /\ End(0) <= End(i - 1) /\ End(i - 1) <= End(i)
    <3>1. /\ 0 \in 0 .. n /\ i - 1 \in 0 .. n /\ i \in 0 .. n
          /\ i \in i - 1 .. n
      BY <1>1, <2>2
    <3>2. End(0) = start /\ End(i - 1) \in Nat /\ End(i) \in Nat
      BY <1>1, <3>1, FrameEndSteps, Zenon
    <3>3. End(0) <= End(i - 1)
      BY <1>1, <3>1, FrameEndGrows, Zenon
    <3>4. End(i - 1) <= End(i)
      BY <1>1, <3>1, FrameEndGrows, Zenon
    <3>5. QED
      BY <3>2, <3>3, <3>4
  <2>4. from \in 0 .. Len(d) /\ End(i) \in from .. Len(d)
    <3>1. i = 1 => End(i - 1) = start
      BY <2>3
    <3> HIDE DEF End, limit
    <3>2. QED
      BY <1>2, <2>2, <2>3, <3>1
  <2>5. ReadField(s.fields[i].type, d, from, End(i)) \in Seq(Byte)
    <3> HIDE DEF from, End
    <3>1. QED
      BY <2>4, ReadFieldType
  <2>6. QED
    BY <2>5 DEF i, same
<1>5. FrameMessage(s, d, start) = [name \in names |-> Value(name)]
  BY DEF FrameMessage, MessageOf
<1> HIDE DEF names, Value, limit
<1>6. FrameMessage(s, d, start) \in [names -> Seq(Byte)]
  BY <1>4, <1>5
<1>7. QED
  BY <1>2, <1>3, <1>6 DEF Message, limit

(* So is a datagram.                                                       *)
LEMMA DatagramMessageType ==
  ASSUME NEW s, s.fields \in Seq(Field), NEW d \in Seq(Byte)
  PROVE  DatagramMessage(s, d) \in Message
<1> DEFINE n == Len(s.fields)
           len == Len(d)
           End(i) == DatagramEnd(s, i, len)
           taken == {i \in 1 .. n : \A j \in 1 .. i : End(j) <= len}
           names == {s.fields[i].name : i \in taken}
           last(name) == Max({j \in taken : s.fields[j].name = name})
           Value(name) == ReadField(s.fields[last(name)].type, d,
                            IF last(name) = 1 THEN 0 ELSE End(last(name) - 1), End(last(name)))
<1>1. n \in Nat /\ len \in Nat
  OBVIOUS
<1>2. names \in SUBSET STRING
  <2>1. \A i \in 1 .. n : s.fields[i] \in Field
    BY ElementType
  <2>2. QED
    BY <2>1 DEF Field
<1>3. ASSUME NEW name \in names PROVE Value(name) \in Seq(Byte)
  <2> DEFINE same == {j \in taken : s.fields[j].name = name}
             i == Max(same)
             from == IF i = 1 THEN 0 ELSE End(i - 1)
  <2>1. i \in same
    <3>1. same \subseteq 1 .. n /\ same # {}
      OBVIOUS
    <3> HIDE DEF same, n
    <3>2. QED
      BY <1>1, <3>1, MaxIn
  <2>2. i \in 1 .. n /\ \A j \in 1 .. i : End(j) <= len
    <3> HIDE DEF i
    <3>1. QED
      BY <2>1
  <2> HIDE DEF i, same, len
  <2>3. /\ End(0) = 0 /\ End(i - 1) \in Nat /\ End(i) \in Nat
        /\ End(i) = IF IsVariable(s.fields[i]) THEN len ELSE End(i - 1) + Width(s, i, len)
    <3>1. i - 1 \in 0 .. n /\ i \in 0 .. n
      BY <1>1, <2>2
    <3>2. QED
      BY <1>1, <2>2, <3>1, DatagramEndSteps, Zenon
  <2>4. Width(s, i, len) \in Nat
    BY <1>1, <2>2, WidthType
  <2>5. End(i) <= len /\ (i # 1 => End(i - 1) <= len)
    <3>1. i \in 1 .. i /\ (i # 1 => i - 1 \in 1 .. i)
      BY <1>1, <2>2
    <3> HIDE DEF End
    <3>2. QED
      BY <2>2, <3>1
  <2>6. from \in 0 .. len /\ End(i) \in from .. len
    <3>1. i = 1 => End(i - 1) = 0
      BY <2>3
    <3> HIDE DEF End
    <3>2. QED
      BY <1>1, <2>3, <2>4, <2>5, <3>1
  <2>7. ReadField(s.fields[i].type, d, from, End(i)) \in Seq(Byte)
    <3>1. from \in 0 .. Len(d) /\ End(i) \in from .. Len(d)
      <4> HIDE DEF from, End
      <4>1. QED
        BY <2>6 DEF len
    <3> HIDE DEF from, End
    <3>2. QED
      BY <3>1, ReadFieldType
  <2>8. QED
    BY <2>7 DEF i, same, len
<1>4. DatagramMessage(s, d) = [name \in names |-> Value(name)]
  BY DEF DatagramMessage, MessageOf
<1> HIDE DEF names, Value
<1>5. DatagramMessage(s, d) \in [names -> Seq(Byte)]
  BY <1>3, <1>4
<1>6. QED
  BY <1>2, <1>5 DEF Message

-----------------------------------------------------------------------------
(* What the peer sends.                                                    *)

(* The document, the schema made of it and what was sent stay as they are, *)
(* and the data is the beginning of it.                                    *)
WireOf(stream) == WireAll(stream.document, stream.sent) \o stream.noise

Given == [document |-> document, sent |-> sent, noise |-> noise]

DataOK ==
  /\ IsPeer(Given)
  /\ schema = LoadFromYaml(document)
  /\ \E cut \in 0 .. Len(WireOf(Given)) : data = SubSeq(WireOf(Given), 1, cut)

(* The schema has the document's fields and framing.                       *)
LEMMA SchemaOf ==
  ASSUME NEW stream, IsPeer(stream)
  PROVE  LET doc == stream.document
             s   == LoadFromYaml(doc)
         IN  /\ s.fields \in Seq(Field) /\ s.fields = doc.message
             /\ DOMAIN doc.message = 1 .. Len(s.fields) /\ Len(s.fields) \in Nat
             /\ s.framing = Framing(doc)
             /\ s.framing.header_len \in Nat /\ s.framing.length_includes_header \in BOOLEAN
<1> DEFINE doc == stream.document
           s == LoadFromYaml(doc)
           message == doc.message
<1>1. /\ "message" \in DOMAIN doc /\ message \in Seq(Field)
      /\ Framing(doc).header_len \in Nat /\ Framing(doc).length_includes_header \in BOOLEAN
  BY DEF IsPeer, Field
<1>2. Get(doc, "message", <<>>) = message
  BY <1>1 DEF Get
<1>3. /\ s.framing = Framing(doc)
      /\ s.fields = [i \in DOMAIN message |-> [name |-> message[i].name, type |-> message[i].type]]
  BY <1>2 DEF LoadFromYaml
<1> HIDE DEF message, s, doc
<1>4. \A f \in Field : [name |-> f.name, type |-> f.type] = f
  BY DEF Field
<1>5. DOMAIN message = 1 .. Len(message) /\ Len(message) \in Nat
  BY <1>1
<1>6. \A i \in 1 .. Len(message) : message[i] \in Field
  BY <1>1, ElementType
<1>7. s.fields = [i \in 1 .. Len(message) |-> message[i]]
  BY <1>3, <1>4, <1>5, <1>6
<1>8. message = [i \in 1 .. Len(message) |-> message[i]]
  BY <1>1
<1>9. s.fields = message
  BY <1>7, <1>8
<1>10. QED
  BY <1>1, <1>3, <1>5, <1>9 DEF message, s, doc

(* The bytes of a message's fields.                                        *)
Parts(doc, m) == [i \in DOMAIN doc.message |-> WireField(doc, doc.message[i], m)]

(* The fields are joined to the wire.                                      *)
LEMMA PartsType ==
  ASSUME NEW stream, IsPeer(stream), NEW m, Follows(stream.document, m)
  PROVE  /\ Parts(stream.document, m) \in Seq(Seq(Byte))
         /\ Len(Parts(stream.document, m)) = Len(stream.document.message)
<1> DEFINE doc == stream.document
           n == Len(doc.message)
<1>1. DOMAIN doc.message = 1 .. n /\ n \in Nat
  BY SchemaOf
<1>2. ASSUME NEW i \in 1 .. n PROVE WireField(doc, doc.message[i], m) \in Seq(Byte)
  <2>1. m.payload \in Seq(Byte)
    BY DEF Follows
  <2>2. CASE IsVariable(doc.message[i])
    BY <2>1, <2>2 DEF WireField
  <2>3. CASE ~IsVariable(doc.message[i])
    <3>1. m.values[doc.message[i].name] \in Seq(Byte)
      BY <1>1, <2>3 DEF Follows
    <3>2. Reverse(m.values[doc.message[i].name]) \in Seq(Byte)
      BY <3>1, ReverseType
    <3>3. QED
      BY <2>3, <3>1, <3>2 DEF WireField
  <2>4. QED
    BY <2>2, <2>3
<1>3. Parts(doc, m) = [i \in 1 .. n |-> WireField(doc, doc.message[i], m)]
  BY <1>1 DEF Parts
<1> HIDE DEF doc, n
<1>4. Parts(doc, m) \in [1 .. n -> Seq(Byte)]
  BY <1>2, <1>3
<1>5. Parts(doc, m) \in Seq(Seq(Byte)) /\ Len(Parts(doc, m)) = n
  BY <1>1, <1>4
<1>6. QED
  BY <1>5 DEF doc, n

(* The wire is bytes.                                                      *)
LEMMA WireType ==
  ASSUME NEW stream, IsPeer(stream), NEW m, Follows(stream.document, m)
  PROVE  Wire(stream.document, m) \in Seq(Byte)
<1> DEFINE doc == stream.document
           parts == Parts(doc, m)
<1>1. parts \in Seq(Seq(Byte))
  BY PartsType
<1>2. FlattenSeq(parts) \in Seq(Byte)
  <2>1. PICK joined : IsJoin(joined, parts, Byte) /\ FlattenSeq(parts) = joined[Len(parts)]
    <3> HIDE DEF parts
    <3>1. QED
      BY <1>1, Flattening
  <2>2. Len(parts) \in 0 .. Len(parts)
    <3> HIDE DEF parts
    <3>1. QED
      BY <1>1
  <2>3. QED
    BY <2>1, <2>2 DEF IsJoin
<1>3. m.payload \in Seq(Byte) /\ <<>> \in Seq(Byte)
  BY DEF Follows
<1>4. Wire(doc, m) = FlattenSeq(parts) \o (IF HasVariable(doc) THEN <<>> ELSE m.payload)
  BY DEF Wire, Parts
<1> HIDE DEF parts, doc
<1>5. (IF HasVariable(doc) THEN <<>> ELSE m.payload) \in Seq(Byte)
  BY <1>3
<1>6. FlattenSeq(parts) \o (IF HasVariable(doc) THEN <<>> ELSE m.payload) \in Seq(Byte)
  BY <1>2, <1>5
<1>7. QED
  BY <1>4, <1>6 DEF doc

(* The wires of the messages a peer sends.                                 *)
Wires(stream) == [k \in 1 .. Len(stream.sent) |-> Wire(stream.document, stream.sent[k])]

LEMMA WiresType ==
  ASSUME NEW stream, IsPeer(stream)
  PROVE  /\ Wires(stream) \in Seq(Seq(Byte)) /\ Len(Wires(stream)) = Len(stream.sent)
         /\ Len(stream.sent) \in Nat /\ DOMAIN stream.sent = 1 .. Len(stream.sent)
         /\ WireOf(stream) \in Seq(Byte)
<1> DEFINE n == Len(stream.sent)
<1>1. n \in Nat /\ DOMAIN stream.sent = 1 .. n
  BY DEF IsPeer
<1>2. ASSUME NEW k \in 1 .. n PROVE Wire(stream.document, stream.sent[k]) \in Seq(Byte)
  <2>1. Follows(stream.document, stream.sent[k])
    BY <1>1 DEF IsPeer
  <2>2. QED
    BY <2>1, WireType
<1>3. Wires(stream) \in [1 .. n -> Seq(Byte)]
  BY <1>2 DEF Wires
<1>4. Wires(stream) \in Seq(Seq(Byte)) /\ Len(Wires(stream)) = n
  <2> HIDE DEF n
  <2>1. QED
    BY <1>1, <1>3
<1>5. WireAll(stream.document, stream.sent) = FlattenSeq(Wires(stream))
  BY DEF WireAll, Wires
<1>6. FlattenSeq(Wires(stream)) \in Seq(Byte)
  <2>1. PICK joined : /\ IsJoin(joined, Wires(stream), Byte)
                     /\ FlattenSeq(Wires(stream)) = joined[Len(Wires(stream))]
    BY <1>4, Flattening
  <2>2. Len(Wires(stream)) \in 0 .. Len(Wires(stream))
    BY <1>4
  <2>3. QED
    BY <2>1, <2>2 DEF IsJoin
<1>7. stream.noise \in Seq(Byte)
  BY DEF IsPeer
<1>8. WireOf(stream) \in Seq(Byte)
  BY <1>5, <1>6, <1>7 DEF WireOf
<1>9. QED
  BY <1>1, <1>4, <1>8

-----------------------------------------------------------------------------
(* Types.                                                                  *)

Shape ==
  /\ DataOK
  /\ offset \in 0 .. Len(data)
  /\ messages \in Seq(Message)
  /\ done \in BOOLEAN

(* What the decoder is given: bytes of the wire and a schema.              *)
LEMMA Typed ==
  ASSUME DataOK
  PROVE  /\ data \in Seq(Byte)
         /\ schema.fields \in Seq(Field)
         /\ schema.framing.header_len \in Nat
         /\ Len(data) \in 0 .. Len(WireOf(Given))
         /\ \A p \in 1 .. Len(data) : data[p] = WireOf(Given)[p]
<1>1. IsPeer(Given) /\ schema = LoadFromYaml(Given.document)
  BY DEF DataOK, Given
<1>2. schema.fields \in Seq(Field) /\ schema.framing.header_len \in Nat
  BY <1>1, SchemaOf
<1>3. WireOf(Given) \in Seq(Byte)
  BY <1>1, WiresType
<1>4. PICK cut \in 0 .. Len(WireOf(Given)) : data = SubSeq(WireOf(Given), 1, cut)
  BY DEF DataOK
<1> DEFINE wire == WireOf(Given)
<1> HIDE DEF wire
<1>5. 0 \in 0 .. Len(wire) /\ 0 + 1 = 1 /\ cut \in 0 .. Len(wire) /\ wire \in Seq(Byte) /\ cut - 0 = cut
  BY <1>3, <1>4 DEF wire
<1>6. /\ SubSeq(wire, 0 + 1, cut) \in Seq(Byte) /\ Len(SubSeq(wire, 0 + 1, cut)) = cut - 0
      /\ \A p \in 1 .. cut - 0 : SubSeq(wire, 0 + 1, cut)[p] = wire[0 + p]
  BY <1>5, Slice
<1>7. /\ data \in Seq(Byte) /\ Len(data) = cut
      /\ \A p \in 1 .. cut : data[p] = wire[p]
  <2>1. SubSeq(wire, 0 + 1, cut) = data
    BY <1>4, <1>5 DEF wire
  <2>2. \A p \in 1 .. cut : 0 + p = p
    BY <1>5
  <2>3. QED
    BY <1>5, <1>6, <2>1, <2>2
<1>8. QED
  BY <1>2, <1>5, <1>7 DEF wire

(* The type invariant is inductive.                                        *)
LEMMA InitShape == Init => Shape
<1> SUFFICES ASSUME Init PROVE Shape
  OBVIOUS
<1>1. PICK stream \in Streams :
        /\ Loadable(stream.document)
        /\ document = stream.document /\ schema = LoadFromYaml(stream.document)
        /\ sent = stream.sent /\ noise = stream.noise
        /\ \E cut \in 0 .. Len(WireOf(stream)) : data = SubSeq(WireOf(stream), 1, cut)
  BY DEF Init, WireOf
<1>2. IsPeer(stream)
  BY <1>1, StreamsAssumption
<1>3. Given.document = stream.document /\ Given.sent = stream.sent /\ Given.noise = stream.noise
  BY <1>1 DEF Given
<1>4. IsPeer(Given)
  BY <1>2, <1>3 DEF IsPeer
<1>5. WireOf(Given) = WireOf(stream)
  BY <1>3 DEF WireOf
<1>6. DataOK
  BY <1>1, <1>4, <1>5 DEF DataOK
<1>7. Len(data) \in Nat
  BY <1>6, Typed
<1>8. offset \in 0 .. Len(data) /\ messages \in Seq(Message) /\ done \in BOOLEAN
  <2>1. offset = 0 /\ messages = <<>> /\ done = FALSE
    BY DEF Init
  <2>2. <<>> \in Seq(Message)
    OBVIOUS
  <2>3. messages \in Seq(Message)
    BY <2>1, <2>2, Zenon
  <2>4. 0 \in 0 .. Len(data)
    BY <1>7
  <2>5. QED
    BY <2>1, <2>3, <2>4, Zenon
<1>9. QED
  BY <1>6, <1>8 DEF Shape

LEMMA NextShape ==
  ASSUME Shape, [Next]_vars
  PROVE  Shape'
<1>1. UNCHANGED <<document, schema, sent, noise, data>>
  BY DEF Next, vars, DecodeMessage, StopAtPartial, Finish, DecodeDatagram, DecodeNothing
<1>2. Given' = Given /\ WireOf(Given)' = WireOf(Given)
  BY <1>1 DEF Given, WireOf
<1>3. DataOK'
  BY <1>1, <1>2 DEF DataOK, Shape
<1>4. /\ data \in Seq(Byte) /\ schema.fields \in Seq(Field) /\ schema.framing.header_len \in Nat
      /\ offset \in 0 .. Len(data) /\ messages \in Seq(Message) /\ done \in BOOLEAN
      /\ Len(data) \in Nat
  BY Typed DEF Shape
<1>5. CASE DecodeMessage
  <2>1. /\ FrameMessage(schema, data, offset) \in Message
        /\ offset + MsgSize(schema, PayloadLen(schema, data, offset)) \in 0 .. Len(data)
    <3>1. FrameFits(schema, data, offset) /\ offset \in Nat
      BY <1>4, <1>5 DEF DecodeMessage
    <3>2. QED
      BY <1>4, <3>1, FrameMessageType
  <2>2. messages' = Append(messages, FrameMessage(schema, data, offset)) /\ done' = done
    BY <1>5 DEF DecodeMessage
  <2>3. messages' \in Seq(Message)
    BY <1>4, <2>1, <2>2
  <2>4. offset' \in 0 .. Len(data')
    BY <1>1, <1>5, <2>1 DEF DecodeMessage
  <2>5. QED
    BY <1>3, <1>4, <2>2, <2>3, <2>4 DEF Shape
<1>6. CASE StopAtPartial \/ Finish \/ DecodeNothing
  BY <1>1, <1>3, <1>4, <1>6 DEF Shape, StopAtPartial, Finish, DecodeNothing
<1>7. CASE DecodeDatagram
  <2>1. DatagramMessage(schema, data) \in Message
    BY <1>4, DatagramMessageType
  <2>2. messages' = <<DatagramMessage(schema, data)>> /\ done' = TRUE /\ offset' = offset
    BY <1>7 DEF DecodeDatagram
  <2>3. messages' \in Seq(Message)
    BY <2>1, <2>2
  <2>4. QED
    BY <1>1, <1>3, <1>4, <2>2, <2>3 DEF Shape
<1>8. CASE UNCHANGED vars
  BY <1>1, <1>3, <1>4, <1>8 DEF Shape, vars
<1>9. QED
  BY <1>5, <1>6, <1>7, <1>8 DEF Next

(* The loop stays in the data, whatever length the bytes declare, and what *)
(* it reads are bytes of the data.                                         *)
THEOREM TypeCorrect == Spec => []TypeOK
<1>1. Shape => TypeOK
  <2> SUFFICES ASSUME Shape PROVE TypeOK
    OBVIOUS
  <2>1. data \in Seq(Byte)
    BY Typed DEF Shape
  <2>2. ASSUME NEW k \in 1 .. Len(messages), NEW name \in DOMAIN messages[k]
        PROVE  messages[k][name] \in Seq(Byte)
    <3>1. messages[k] \in Message
      <4>1. messages \in Seq(Message)
        BY DEF Shape
      <4>2. QED
        BY <4>1, ElementType
    <3>2. PICK names \in SUBSET STRING : messages[k] \in [names -> Seq(Byte)]
      BY <3>1 DEF Message
    <3>3. QED
      BY <2>2, <3>2
  <2>3. QED
    BY <2>1, <2>2 DEF TypeOK, Shape
<1>2. QED
  BY <1>1, InitShape, NextShape, PTL DEF Spec

-----------------------------------------------------------------------------
(* Where the fields of a message are, on the wire and for the decoder.     *)

(* Where the first i fields of the message m end.                          *)
PartsEnd(doc, m, i) == Len(FlattenSeq([j \in 1 .. i |-> WireField(doc, doc.message[j], m)]))

(* Every field is in its place on the wire.                                *)
LEMMA Layout ==
  ASSUME NEW stream, IsPeer(stream), NEW m, Follows(stream.document, m)
  PROVE  LET doc    == stream.document
             n      == Len(doc.message)
             End(i) == PartsEnd(doc, m, i)
             part(i) == WireField(doc, doc.message[i], m)
             wire   == Wire(doc, m)
         IN  /\ n \in Nat /\ End(0) = 0 /\ \A i \in 0 .. n : End(i) \in Nat
             /\ wire \in Seq(Byte) /\ Len(wire) \in Nat
             /\ \A i \in 1 .. n :
                  /\ part(i) \in Seq(Byte) /\ Len(part(i)) \in Nat
                  /\ End(i) = End(i - 1) + Len(part(i)) /\ End(i) <= End(n)
                  /\ \A p \in 1 .. Len(part(i)) : wire[End(i - 1) + p] = part(i)[p]
             /\ Len(wire) = End(n) + (IF HasVariable(doc) THEN 0 ELSE Len(m.payload))
             /\ End(n) <= Len(wire) /\ Len(m.payload) \in Nat
             /\ \A i \in 0 .. n : \A j \in i .. n : End(i) <= End(j)
<1> DEFINE doc == stream.document
           n == Len(doc.message)
           End(i) == PartsEnd(doc, m, i)
           part(i) == WireField(doc, doc.message[i], m)
           parts == Parts(doc, m)
           wire == Wire(doc, m)
           rest == IF HasVariable(doc) THEN <<>> ELSE m.payload
<1>1. n \in Nat /\ DOMAIN doc.message = 1 .. n
  BY SchemaOf
<1>2. parts \in Seq(Seq(Byte)) /\ Len(parts) = n
  BY PartsType
<1>3. \A i \in 1 .. n : parts[i] = part(i)
  BY <1>1 DEF Parts
<1>4. PICK J : /\ IsJoin(J, parts, Byte)
               /\ \A i \in 0 .. n : FlattenSeq([j \in 1 .. i |-> parts[j]]) = J[i]
               /\ FlattenSeq(parts) = J[n]
  <2> HIDE DEF parts, n
  <2>1. QED
    BY <1>2, Flattening
<1>5. \A i \in 0 .. n : End(i) = Len(J[i])
  <2>1. ASSUME NEW i \in 0 .. n PROVE End(i) = Len(J[i])
    <3>1. \A j \in 1 .. i : j \in 1 .. n
      BY <1>1
    <3> HIDE DEF n, parts, doc
    <3>2. [j \in 1 .. i |-> WireField(doc, doc.message[j], m)] = [j \in 1 .. i |-> parts[j]]
      BY <1>3, <3>1
    <3>3. QED
      BY <1>4, <3>2 DEF PartsEnd
  <2>2. QED
    BY <2>1
<1>6. /\ J \in [0 .. n -> Seq(Byte)] /\ J[0] = <<>>
      /\ \A i \in 1 .. n : J[i] = J[i - 1] \o parts[i]
  BY <1>2, <1>4 DEF IsJoin
<1>7. rest \in Seq(Byte) /\ m.payload \in Seq(Byte)
  <2>1. m.payload \in Seq(Byte) /\ <<>> \in Seq(Byte)
    BY DEF Follows
  <2>2. QED
    BY <2>1
<1>8. wire = J[n] \o rest
  BY <1>4 DEF Wire, Parts
<1>9. n \in 0 .. n /\ 0 \in 0 .. n
  BY <1>1
<1>10. /\ J[n] \in Seq(Byte) /\ wire \in Seq(Byte) /\ Len(J[n]) \in Nat /\ Len(rest) \in Nat
       /\ Len(wire) = Len(J[n]) + Len(rest)
       /\ \A p \in 1 .. Len(J[n]) : wire[p] = J[n][p]
  <2> HIDE DEF n, wire, rest
  <2>1. J[n] \in Seq(Byte)
    BY <1>6, <1>9
  <2>2. QED
    BY <1>7, <1>8, <2>1
<1>11. Len(rest) = IF HasVariable(doc) THEN 0 ELSE Len(m.payload)
  OBVIOUS
<1>12. ASSUME NEW i \in 1 .. n
       PROVE  /\ part(i) \in Seq(Byte) /\ Len(part(i)) \in Nat
              /\ End(i) = End(i - 1) + Len(part(i)) /\ End(i) <= End(n)
              /\ \A p \in 1 .. Len(part(i)) : wire[End(i - 1) + p] = part(i)[p]
  <2>1. i \in 0 .. n /\ i - 1 \in 0 .. n /\ n \in i .. n
    BY <1>1
  <2>2. part(i) \in Seq(Byte)
    <3> HIDE DEF n, part, parts
    <3>1. parts[i] \in Seq(Byte)
      BY <1>2
    <3>2. QED
      BY <1>3, <3>1
  <2>3. J[i] = J[i - 1] \o part(i) /\ J[i - 1] \in Seq(Byte)
    <3> HIDE DEF n, part, parts
    <3>1. QED
      BY <1>3, <1>6, <2>1
  <2>4. /\ Len(J[i]) \in Nat /\ Len(J[n]) \in Nat /\ Len(J[i]) <= Len(J[n])
        /\ \A p \in 1 .. Len(J[i]) : J[n][p] = J[i][p]
    <3> HIDE DEF n, parts
    <3>1. i \in 0 .. Len(parts) /\ n \in i .. Len(parts)
      BY <1>2, <2>1
    <3>2. QED
      BY <1>2, <1>4, <3>1, JoinParts
  <2> HIDE DEF part
  <2>5. /\ Len(J[i]) = Len(J[i - 1]) + Len(part(i)) /\ Len(part(i)) \in Nat /\ Len(J[i - 1]) \in Nat
        /\ \A p \in 1 .. Len(part(i)) : J[i][Len(J[i - 1]) + p] = part(i)[p]
    BY <2>2, <2>3
  <2> HIDE DEF n, End, wire
  <2>6. End(i) = Len(J[i]) /\ End(i - 1) = Len(J[i - 1]) /\ End(n) = Len(J[n])
    BY <1>5, <1>9, <2>1
  <2>7. ASSUME NEW p \in 1 .. Len(part(i)) PROVE wire[End(i - 1) + p] = part(i)[p]
    <3>1. Len(J[i - 1]) + p \in 1 .. Len(J[i]) /\ Len(J[i - 1]) + p \in 1 .. Len(J[n])
      BY <2>4, <2>5
    <3>2. QED
      BY <1>10, <2>4, <2>5, <2>6, <3>1
  <2>8. QED
    BY <2>2, <2>4, <2>5, <2>6, <2>7
<1>13. End(0) = 0 /\ End(n) = Len(J[n]) /\ \A i \in 0 .. n : End(i) \in Nat
  <2>1. \A i \in 0 .. n : Len(J[i]) \in Nat
    <3> HIDE DEF n
    <3>1. \A i \in 0 .. n : J[i] \in Seq(Byte)
      BY <1>6
    <3>2. QED
      BY <3>1
  <2>2. Len(J[0]) = 0
    BY <1>6
  <2> HIDE DEF End, n
  <2>3. QED
    BY <1>5, <1>9, <2>1, <2>2
<1>14. /\ Len(wire) = End(n) + (IF HasVariable(doc) THEN 0 ELSE Len(m.payload))
       /\ Len(wire) \in Nat /\ End(n) <= Len(wire) /\ Len(m.payload) \in Nat
  <2>1. Len(m.payload) \in Nat
    BY <1>7
  <2>2. Len(rest) = IF HasVariable(doc) THEN 0 ELSE Len(m.payload)
    BY <1>11
  <2> HIDE DEF wire, End, n, rest
  <2>3. Len(wire) = End(n) + Len(rest) /\ Len(wire) \in Nat /\ Len(rest) \in Nat /\ End(n) \in Nat
    BY <1>9, <1>10, <1>13
  <2>4. End(n) <= Len(wire)
    BY <2>3
  <2>5. QED
    BY <2>1, <2>2, <2>3, <2>4
<1>15. ASSUME NEW i \in 0 .. n, NEW j \in i .. n PROVE End(i) <= End(j)
  <2>1. i \in 0 .. Len(parts) /\ j \in i .. Len(parts)
    BY <1>2
  <2>2. j \in 0 .. n
    BY <1>1
  <2> HIDE DEF n, parts, End
  <2>3. Len(J[i]) <= Len(J[j])
    BY <1>2, <1>4, <2>1, JoinParts
  <2>4. QED
    BY <1>5, <2>2, <2>3
<1>16. QED
  BY <1>1, <1>10, <1>12, <1>13, <1>14, <1>15

(* A field has as many bytes as its type, a variable one the payload.      *)
LEMMA PartLength ==
  ASSUME NEW stream, IsPeer(stream), NEW m, Follows(stream.document, m),
         NEW i \in 1 .. Len(stream.document.message)
  PROVE  LET f == stream.document.message[i]
         IN  Len(WireField(stream.document, f, m))
               = IF IsVariable(f) THEN Len(m.payload) ELSE FieldTypeSize(f.type)
<1> DEFINE doc == stream.document
           f == doc.message[i]
           value == m.values[f.name]
<1>1. i \in DOMAIN doc.message
  BY SchemaOf
<1>2. CASE IsVariable(f)
  BY <1>2 DEF WireField
<1>3. CASE ~IsVariable(f)
  <2>1. value \in Seq(Byte) /\ Len(value) = FieldTypeSize(f.type)
    BY <1>1, <1>3 DEF Follows
  <2>2. Len(Reverse(value)) = Len(value)
    <3> HIDE DEF value
    <3>1. QED
      BY <2>1, ReverseType
  <2>3. QED
    BY <1>3, <2>1, <2>2 DEF WireField
<1>4. QED
  BY <1>2, <1>3

(* The decoder's ends are the peer's, as far as a variable field is        *)
(* reckoned with the length it has.                                        *)
LEMMA EndsAgree ==
  ASSUME NEW stream, IsPeer(stream), NEW m, Follows(stream.document, m),
         NEW start \in Nat, NEW variable_len \in Nat,
         NEW i \in 0 .. Len(stream.document.message),
         \A j \in 1 .. i : IsVariable(stream.document.message[j]) => variable_len = Len(m.payload)
  PROVE  FrameEnd(LoadFromYaml(stream.document), i, start, variable_len)
           = start + PartsEnd(stream.document, m, i)
<1> DEFINE doc == stream.document
           s == LoadFromYaml(doc)
           n == Len(doc.message)
           E(k) == FrameEnd(s, k, start, variable_len)
           End(k) == PartsEnd(doc, m, k)
           T == {k \in 0 .. i : E(k) = start + End(k)}
<1>1. n \in Nat /\ s.fields \in Seq(Field) /\ s.fields = doc.message /\ Len(s.fields) = n
  <2>1. s.fields \in Seq(Field) /\ s.fields = doc.message
    BY SchemaOf
  <2> HIDE DEF s, doc
  <2>2. QED
    BY <2>1
<1>2. /\ E(0) = start
      /\ \A k \in 1 .. n : E(k) = E(k - 1) + Width(s, k, variable_len)
  <2> HIDE DEF s
  <2>1. /\ FrameEnd(s, 0, start, variable_len) = start
        /\ \A k \in 1 .. Len(s.fields) :
             FrameEnd(s, k, start, variable_len)
               = FrameEnd(s, k - 1, start, variable_len) + Width(s, k, variable_len)
    BY <1>1, FrameEndSteps
  <2>2. QED
    BY <1>1, <2>1
<1>3. /\ End(0) = 0 /\ \A k \in 0 .. n : End(k) \in Nat
      /\ \A k \in 1 .. n : /\ End(k) = End(k - 1) + Len(WireField(doc, doc.message[k], m))
                           /\ Len(WireField(doc, doc.message[k], m)) \in Nat
  BY Layout
<1> HIDE DEF s, E, End, n
<1>4. 0 \in T
  BY <1>2, <1>3
<1>5. ASSUME NEW k \in 1 .. i, k - 1 \in T PROVE k \in T
  <2>1. k \in 1 .. n /\ k - 1 \in 0 .. n /\ k \in 0 .. i
    BY <1>1 DEF n
  <2>2. Width(s, k, variable_len) = Len(WireField(doc, doc.message[k], m))
    <3>1. Len(WireField(doc, doc.message[k], m))
            = IF IsVariable(doc.message[k]) THEN Len(m.payload) ELSE FieldTypeSize(doc.message[k].type)
      BY <2>1, PartLength DEF n
    <3> HIDE DEF doc
    <3>2. QED
      BY <1>1, <3>1 DEF Width, doc
  <2>3. E(k - 1) = start + End(k - 1)
    BY <1>5
  <2>4. E(k) = start + End(k)
    <3>1. E(k) = E(k - 1) + Width(s, k, variable_len)
      BY <1>2, <2>1
    <3>2. /\ End(k) = End(k - 1) + Len(WireField(doc, doc.message[k], m))
          /\ Len(WireField(doc, doc.message[k], m)) \in Nat /\ End(k - 1) \in Nat
      BY <1>3, <2>1
    <3> HIDE DEF doc
    <3>3. QED
      BY <2>2, <2>3, <3>1, <3>2
  <2>5. QED
    BY <2>1, <2>4
<1>6. 0 .. i \subseteq T
  <2>1. i \in Nat
    OBVIOUS
  <2> HIDE DEF T
  <2>2. QED
    BY <1>4, <1>5, <2>1, RangeInduction
<1>7. i \in 0 .. i
  OBVIOUS
<1>8. QED
  BY <1>6, <1>7 DEF E, End, s

-----------------------------------------------------------------------------
(* What the decoder reads where a message was sent.                        *)

(* The data hold the message from start on, as far as they reach.          *)
Holds(d, start, wire) == \A p \in 1 .. Len(wire) : start + p <= Len(d) => d[start + p] = wire[p]

(* A field that lies within the data is read as it was sent.               *)
LEMMA FieldIsRead ==
  ASSUME NEW stream, IsPeer(stream), Supported(stream.document),
         NEW m, Follows(stream.document, m),
         NEW d \in Seq(Byte), NEW start \in Nat, Holds(d, start, Wire(stream.document, m)),
         NEW i \in 1 .. Len(stream.document.message),
         start + PartsEnd(stream.document, m, i) <= Len(d)
  PROVE  LET doc == stream.document
             f   == doc.message[i]
         IN  ReadField(f.type, d, start + PartsEnd(doc, m, i - 1), start + PartsEnd(doc, m, i))
               = IF IsVariable(f) THEN m.payload ELSE m.values[f.name]
<1> DEFINE doc == stream.document
           f == doc.message[i]
           part == WireField(doc, f, m)
           wire == Wire(doc, m)
           before == PartsEnd(doc, m, i - 1)
           after == PartsEnd(doc, m, i)
           from == start + before
           to == start + after
           bytes == SubSeq(d, from + 1, to)
<1>1. i \in DOMAIN doc.message /\ FieldTypeSize(f.type) <= 4
  <2>1. i \in DOMAIN doc.message
    BY SchemaOf
  <2>2. QED
    BY <2>1 DEF Supported
<1>2. /\ part \in Seq(Byte) /\ Len(part) \in Nat
      /\ before \in Nat /\ after \in Nat /\ after = before + Len(part) /\ after <= Len(wire)
      /\ \A p \in 1 .. Len(part) : wire[before + p] = part[p]
      /\ Len(wire) \in Nat
  <2> DEFINE n == Len(doc.message)
  <2>1. /\ n \in Nat /\ \A k \in 0 .. n : PartsEnd(doc, m, k) \in Nat
        /\ part \in Seq(Byte) /\ Len(part) \in Nat /\ after = before + Len(part)
        /\ after <= PartsEnd(doc, m, n) /\ PartsEnd(doc, m, n) <= Len(wire) /\ Len(wire) \in Nat
        /\ \A p \in 1 .. Len(part) : wire[before + p] = part[p]
    BY Layout
  <2>2. i \in 0 .. n /\ i - 1 \in 0 .. n /\ n \in 0 .. n
    BY <2>1
  <2>3. before \in Nat /\ after \in Nat /\ PartsEnd(doc, m, n) \in Nat
    BY <2>1, <2>2
  <2> HIDE DEF n, part, wire, before, after
  <2>4. after <= Len(wire)
    BY <2>1, <2>3
  <2>5. QED
    BY <2>1, <2>3, <2>4
<1>3. part = IF IsVariable(f) THEN m.payload ELSE m.values[f.name]
  <2>1. Get(doc, "endian", "big") # "little"
    BY DEF Supported
  <2>2. QED
    BY <2>1 DEF WireField
<1>4. ~(f.type \in {"u64", "i64"})
  BY <1>1 DEF FieldTypeSize
<1>5. ReadField(f.type, d, from, to) = bytes
  BY <1>4 DEF ReadField
<1>6. /\ bytes \in Seq(Byte) /\ Len(bytes) = Len(part)
      /\ \A p \in 1 .. Len(part) : bytes[p] = d[from + p]
  <2>1. to <= Len(d) /\ Len(d) \in Nat
    OBVIOUS
  <2> HIDE DEF part, before, after, wire
  <2>2. from \in 0 .. Len(d) /\ to \in from .. Len(d) /\ to - from = Len(part)
    BY <1>2, <2>1
  <2> HIDE DEF from, to
  <2>3. QED
    BY <2>2, Slice
<1>7. ASSUME NEW p \in 1 .. Len(part) PROVE d[from + p] = part[p]
  <2>1. to <= Len(d) /\ Len(d) \in Nat
    OBVIOUS
  <2> HIDE DEF part, before, after, wire
  <2>2. /\ before + p \in 1 .. Len(wire) /\ start + (before + p) <= Len(d)
        /\ from + p = start + (before + p)
    BY <1>2, <2>1
  <2>3. d[start + (before + p)] = wire[before + p]
    BY <2>2 DEF Holds, wire
  <2>4. QED
    BY <1>2, <2>2, <2>3
<1>8. bytes = part
  <2> HIDE DEF part, bytes, from
  <2>1. \A p \in 1 .. Len(bytes) : bytes[p] = part[p]
    BY <1>6, <1>7
  <2>2. QED
    BY <1>2, <1>6, <2>1, EqualElements
<1>9. QED
  BY <1>3, <1>5, <1>8

(* The length that the decoder finds is the one that the peer declared.    *)
LEMMA LengthIsRead ==
  ASSUME NEW stream, IsPeer(stream), Supported(stream.document),
         NEW m, Follows(stream.document, m), DeclaresLength(stream.document, m),
         NEW d \in Seq(Byte), NEW start \in Nat, Holds(d, start, Wire(stream.document, m)),
         start + Framing(stream.document).header_len <= Len(d)
  PROVE  LET doc     == stream.document
             framing == Framing(doc)
         IN  /\ PayloadLen(LoadFromYaml(doc), d, start)
                  = Len(m.payload) + (IF framing.length_includes_header THEN framing.header_len ELSE 0)
             /\ Len(Wire(doc, m)) = framing.header_len + Len(m.payload)
             /\ framing.header_len \in Nat /\ framing.header_len > 0 /\ Len(m.payload) \in Nat
<1> DEFINE doc == stream.document
           s == LoadFromYaml(doc)
           framing == Framing(doc)
           header_len == framing.header_len
           declared == Len(m.payload) + (IF framing.length_includes_header THEN header_len ELSE 0)
           n == Len(doc.message)
           End(k) == PartsEnd(doc, m, k)
           wire == Wire(doc, m)
<1>1. /\ s.fields \in Seq(Field) /\ s.fields = doc.message /\ Len(s.fields) = n /\ n \in Nat
      /\ DOMAIN doc.message = 1 .. n /\ s.framing = framing /\ header_len \in Nat
  <2>1. /\ s.fields \in Seq(Field) /\ s.fields = doc.message /\ DOMAIN doc.message = 1 .. Len(s.fields)
        /\ Len(s.fields) \in Nat /\ s.framing = framing /\ s.framing.header_len \in Nat
    BY SchemaOf
  <2> HIDE DEF s, doc, framing
  <2>2. QED
    BY <2>1
<1>2. PICK i \in 1 .. n :
        /\ doc.message[i].name = framing.length_field /\ doc.message[i].type = "u16"
        /\ m.values[framing.length_field] = <<declared \div 256, declared % 256>>
        /\ \A j \in 1 .. n : IsVariable(doc.message[j]) => i < j
  <2> HIDE DEF n
  <2>1. QED
    BY <1>1 DEF DeclaresLength
<1>3. Len(wire) = header_len + Len(m.payload)
  BY DEF DeclaresLength
<1>4. /\ \A k \in 0 .. n : End(k) \in Nat
      /\ \A k \in 0 .. n : \A j \in k .. n : End(k) <= End(j)
      /\ \A k \in 1 .. n : End(k) = End(k - 1) + Len(WireField(doc, doc.message[k], m))
      /\ Len(wire) = End(n) + (IF HasVariable(doc) THEN 0 ELSE Len(m.payload))
      /\ Len(m.payload) \in Nat
  BY Layout
<1>5. i \in 0 .. n /\ i - 1 \in 0 .. n /\ n \in i .. n /\ n \in 0 .. n
  BY <1>1
<1>6. ~IsVariable(doc.message[i]) /\ FieldTypeSize(doc.message[i].type) = 2
  BY <1>2 DEF IsVariable, FieldTypeSize
<1>7. End(i) = End(i - 1) + 2
  <2>1. Len(WireField(doc, doc.message[i], m)) = 2
    BY <1>6, PartLength
  <2> HIDE DEF End, doc, n
  <2>2. QED
    BY <1>4, <2>1
<1>8. End(i) <= header_len
  <2>1. CASE HasVariable(doc)
    <3>1. PICK k \in 1 .. n : IsVariable(doc.message[k])
      BY <1>1, <2>1 DEF HasVariable
    <3>2. k - 1 \in i .. n /\ k \in 0 .. n /\ n \in k .. n /\ k - 1 \in 0 .. n
      BY <1>1, <1>2, <3>1
    <3>3. Len(WireField(doc, doc.message[k], m)) = Len(m.payload)
      BY <3>1, PartLength
    <3> HIDE DEF End, doc, n, wire, header_len
    <3>4. /\ End(i) <= End(k - 1) /\ End(k) = End(k - 1) + Len(m.payload) /\ End(k) <= End(n)
          /\ Len(wire) = End(n)
      <4>1. End(i) <= End(k - 1) /\ End(k) <= End(n)
        BY <1>4, <1>5, <3>2
      <4>2. End(k) = End(k - 1) + Len(m.payload)
        BY <1>4, <3>3
      <4>3. End(n) \in Nat
        BY <1>4, <1>5
      <4>4. Len(wire) = End(n)
        BY <1>4, <2>1, <4>3
      <4>5. QED
        BY <4>1, <4>2, <4>4
    <3>5. End(i) \in Nat /\ End(k - 1) \in Nat /\ End(k) \in Nat /\ End(n) \in Nat
      BY <1>4, <1>5, <3>2
    <3>6. header_len \in Nat /\ Len(m.payload) \in Nat
      BY <1>1, <1>4
    <3>7. QED
      BY <1>3, <3>4, <3>5, <3>6
  <2>2. CASE ~HasVariable(doc)
    <3> HIDE DEF End, doc, n, wire, header_len
    <3>1. End(i) <= End(n) /\ Len(wire) = End(n) + Len(m.payload)
      BY <1>4, <1>5, <2>2
    <3>2. End(i) \in Nat /\ End(n) \in Nat
      BY <1>4, <1>5
    <3>3. QED
      BY <1>1, <1>3, <1>4, <3>1, <3>2
  <2>3. QED
    BY <2>1, <2>2
<1>9. FrameEnd(s, i, start, 0) = start + End(i)
  <2>1. \A j \in 1 .. i : IsVariable(doc.message[j]) => 0 = Len(m.payload)
    <3>1. \A j \in 1 .. i : j \in 1 .. n /\ ~(i < j)
      BY <1>1
    <3>2. QED
      BY <1>2, <3>1
  <2>2. 0 \in Nat
    OBVIOUS
  <2> HIDE DEF End
  <2>3. QED
    BY <1>5, <2>1, <2>2, EndsAgree DEF End
<1>10. start + End(i) <= Len(d) /\ Len(d) \in Nat /\ End(i) \in Nat /\ End(i - 1) \in Nat
  <2>1. start + header_len <= Len(d) /\ Len(d) \in Nat
    OBVIOUS
  <2>2. End(i) \in Nat /\ End(i - 1) \in Nat
    BY <1>4, <1>5
  <2> HIDE DEF End, header_len
  <2>3. QED
    BY <1>1, <1>8, <2>1, <2>2
<1> DEFINE hits == {k \in 1 .. Len(s.fields) :
                      /\ FrameEnd(s, k, start, 0) <= Len(d)
                      /\ s.fields[k].name = s.framing.length_field
                      /\ s.fields[k].type = "u16"}
           end == FrameEnd(s, Max(hits), start, 0)
<1>11. hits # {} /\ Max(hits) = i
  <2>1. i \in hits
    <3> HIDE DEF s, n, doc, framing
    <3>1. QED
      BY <1>1, <1>2, <1>9, <1>10
  <2>2. ASSUME NEW k \in hits PROVE k = i
    <3>1. \A a, b \in 1 .. n : doc.message[a].name = doc.message[b].name => a = b
      BY <1>1 DEF IsPeer
    <3>2. k \in 1 .. n /\ doc.message[k].name = framing.length_field
      <4> HIDE DEF s, n, doc, framing
      <4>1. QED
        BY <1>1
    <3> HIDE DEF s, n, doc, framing, hits
    <3>3. QED
      BY <1>2, <3>1, <3>2
  <2>3. hits \subseteq 1 .. Len(s.fields) /\ Len(s.fields) \in Nat
    BY <1>1
  <2> HIDE DEF hits, s
  <2>4. Max(hits) \in hits
    BY <2>1, <2>3, MaxIn
  <2>5. QED
    BY <2>1, <2>2, <2>4
<1>12. PayloadLen(s, d, start) = U16(SubSeq(d, end - 1, end))
  <2>1. PayloadLen(s, d, start) = IF hits = {} THEN 0 ELSE U16(SubSeq(d, end - 1, end))
    BY DEF PayloadLen
  <2> HIDE DEF hits, end
  <2>2. QED
    BY <1>11, <2>1
<1>13. end = start + End(i)
  <2> HIDE DEF hits, End, s
  <2>1. QED
    BY <1>9, <1>11
<1> HIDE DEF hits, end
<1> DEFINE bytes == SubSeq(d, end - 1, end)
           length == m.values[framing.length_field]
<1>14. bytes = length
  <2>1. ReadField("u16", d, start + End(i - 1), start + End(i)) = length
    <3>1. start + PartsEnd(doc, m, i) <= Len(d)
      BY <1>10
    <3>2. ReadField(doc.message[i].type, d, start + End(i - 1), start + End(i))
            = IF IsVariable(doc.message[i]) THEN m.payload ELSE m.values[doc.message[i].name]
      BY <3>1, FieldIsRead
    <3> HIDE DEF doc, End, framing
    <3>3. QED
      BY <1>2, <1>6, <3>2
  <2>2. ReadField("u16", d, start + End(i - 1), start + End(i))
          = SubSeq(d, (start + End(i - 1)) + 1, start + End(i))
    BY DEF ReadField
  <2>3. (start + End(i - 1)) + 1 = end - 1 /\ start + End(i) = end
    <3> HIDE DEF End
    <3>1. QED
      BY <1>7, <1>10, <1>13
  <2> HIDE DEF End, length
  <2>4. QED
    BY <2>1, <2>2, <2>3
<1>15. declared \in Nat
  BY <1>1, <1>4
<1>16. U16(bytes) = declared
  <2>1. bytes = <<declared \div 256, declared % 256>>
    BY <1>2, <1>14
  <2> HIDE DEF bytes, declared
  <2>2. bytes[1] = declared \div 256 /\ bytes[2] = declared % 256
    BY <2>1
  <2>3. declared = 256 * (declared \div 256) + (declared % 256)
    <3>1. 256 \in Nat \ {0}
      OBVIOUS
    <3>2. QED
      BY <1>15, <3>1, Division
  <2>4. QED
    BY <2>2, <2>3 DEF U16
<1>17. header_len > 0
  <2> HIDE DEF End, header_len
  <2>1. QED
    BY <1>1, <1>7, <1>8, <1>10
<1>18. QED
  BY <1>1, <1>3, <1>4, <1>12, <1>16, <1>17

(* The loop takes a message when it is whole, steps over it, and makes of  *)
(* it what its receiver should see.                                        *)
LEMMA MessageIsDecoded ==
  ASSUME NEW stream, IsPeer(stream), Supported(stream.document),
         NEW m, Follows(stream.document, m), DeclaresLength(stream.document, m),
         NEW d \in Seq(Byte), NEW start \in Nat, Holds(d, start, Wire(stream.document, m))
  PROVE  LET doc  == stream.document
             s    == LoadFromYaml(doc)
             wire == Wire(doc, m)
         IN  /\ Len(wire) \in Nat /\ Len(wire) > 0
             /\ FrameFits(s, d, start) <=> start + Len(wire) <= Len(d)
             /\ FrameFits(s, d, start) =>
                  /\ MsgSize(s, PayloadLen(s, d, start)) = Len(wire)
                  /\ FrameMessage(s, d, start) = Received(doc, m)
<1> DEFINE doc == stream.document
           s == LoadFromYaml(doc)
           framing == Framing(doc)
           header_len == framing.header_len
           payload_len == PayloadLen(s, d, start)
           n == Len(doc.message)
           wire == Wire(doc, m)
           size == MsgSize(s, payload_len)
           End(k) == FrameEnd(s, k, start, payload_len)
           Sent(k) == PartsEnd(doc, m, k)
<1>1. /\ s.fields = doc.message /\ Len(s.fields) = n /\ n \in Nat
      /\ DOMAIN doc.message = 1 .. n /\ s.framing = framing
  <2>1. /\ s.fields = doc.message /\ DOMAIN doc.message = 1 .. Len(s.fields)
        /\ Len(s.fields) \in Nat /\ s.framing = framing
    BY SchemaOf
  <2> HIDE DEF s, doc, framing
  <2>2. QED
    BY <2>1
<1>2. header_len \in Nat /\ framing.length_includes_header \in BOOLEAN
  BY SchemaOf
<1>3. Len(m.payload) \in Nat /\ Len(wire) \in Nat
  BY Layout
<1>4. Len(wire) = header_len + Len(m.payload)
  BY DEF DeclaresLength
<1>5. Len(d) \in Nat
  OBVIOUS
<1>6. ASSUME start + header_len <= Len(d)
      PROVE  /\ payload_len = Len(m.payload) + (IF framing.length_includes_header THEN header_len ELSE 0)
             /\ size = Len(wire) /\ Len(wire) > 0
  <2>1. /\ payload_len = Len(m.payload) + (IF framing.length_includes_header THEN header_len ELSE 0)
        /\ header_len > 0
    BY <1>6, LengthIsRead
  <2>2. size = IF framing.length_includes_header THEN payload_len ELSE header_len + payload_len
    BY <1>1 DEF MsgSize
  <2> HIDE DEF payload_len, size, wire, header_len
  <2>3. size = Len(wire)
    <3>1. CASE framing.length_includes_header
      <4>1. payload_len = Len(m.payload) + header_len /\ size = payload_len
        BY <2>1, <2>2, <3>1
      <4> HIDE DEF framing
      <4>2. QED
        BY <1>2, <1>3, <1>4, <4>1
    <3>2. CASE ~framing.length_includes_header
      <4>1. payload_len = Len(m.payload) + 0 /\ size = header_len + payload_len
        BY <2>1, <2>2, <3>2
      <4> HIDE DEF framing
      <4>2. QED
        BY <1>2, <1>3, <1>4, <4>1
    <3>3. QED
      BY <3>1, <3>2
  <2>4. Len(wire) > 0
    <3> HIDE DEF framing
    <3>1. QED
      BY <1>2, <1>3, <1>4, <2>1
  <2>5. QED
    BY <2>1, <2>3, <2>4
<1>7. FrameFits(s, d, start) <=> start + header_len <= Len(d) /\ start + size <= Len(d)
  BY <1>1 DEF FrameFits
<1>8. FrameFits(s, d, start) <=> start + Len(wire) <= Len(d)
  <2>1. start + header_len <= Len(d) => size = Len(wire)
    BY <1>6
  <2>2. header_len \in Nat
    BY <1>2
  <2> HIDE DEF s, size, wire, header_len, framing, payload_len
  <2>3. start + Len(wire) <= Len(d) => start + header_len <= Len(d)
    BY <1>3, <1>4, <1>5, <2>2
  <2>4. QED
    BY <1>7, <2>1, <2>3
<1>9. Len(wire) > 0
  <2>1. PICK i \in DOMAIN doc.message : doc.message[i].type = "u16"
    BY DEF DeclaresLength
  <2>2. Len(WireField(doc, doc.message[i], m)) = 2
    <3>1. i \in 1 .. Len(doc.message)
      BY <1>1, <2>1
    <3>2. Len(WireField(doc, doc.message[i], m))
            = IF IsVariable(doc.message[i]) THEN Len(m.payload) ELSE FieldTypeSize(doc.message[i].type)
      BY <3>1, PartLength
    <3>3. QED
      BY <2>1, <3>2 DEF IsVariable, FieldTypeSize
  <2>3. /\ Sent(i) = Sent(i - 1) + Len(WireField(doc, doc.message[i], m))
        /\ Sent(i - 1) \in Nat /\ Sent(i) <= Sent(n) /\ Sent(n) <= Len(wire) /\ Sent(n) \in Nat
    <3>1. i \in 1 .. n /\ i - 1 \in 0 .. n /\ n \in 0 .. n
      BY <1>1, <2>1
    <3>2. QED
      BY <3>1, Layout
  <2> HIDE DEF Sent, wire, doc, n
  <2>4. QED
    BY <1>3, <2>2, <2>3
<1>10. ASSUME FrameFits(s, d, start)
       PROVE  FrameMessage(s, d, start) = Received(doc, m)
  <2>1. /\ payload_len = Len(m.payload) + (IF framing.length_includes_header THEN header_len ELSE 0)
        /\ size = Len(wire)
    BY <1>6, <1>7, <1>10
  <2>2. start + Len(wire) <= Len(d)
    BY <1>8, <1>10
  <2>3. \A k \in 1 .. n : IsVariable(doc.message[k]) => payload_len = Len(m.payload)
    <3> SUFFICES ASSUME NEW k \in 1 .. n, IsVariable(doc.message[k]) PROVE payload_len = Len(m.payload)
      OBVIOUS
    <3>1. HasVariable(doc)
      BY <1>1 DEF HasVariable
    <3>2. Get(Get(doc, "framing", NoFraming), "length_includes_header", FALSE)
            = framing.length_includes_header
      BY DEF Framing, NoFraming
    <3>3. ~framing.length_includes_header
      BY <3>1, <3>2 DEF Supported
    <3> HIDE DEF payload_len, framing
    <3>4. QED
      BY <1>3, <2>1, <3>3
  <2>4. payload_len \in Nat
    <3>1. header_len \in Nat
      BY <1>2
    <3> HIDE DEF payload_len, header_len
    <3>2. (IF framing.length_includes_header THEN header_len ELSE 0) \in Nat
      BY <3>1
    <3> HIDE DEF framing
    <3>3. QED
      BY <1>3, <2>1, <3>2
  <2>5. ASSUME NEW k \in 0 .. n PROVE End(k) = start + Sent(k)
    <3>1. \A j \in 1 .. k : IsVariable(doc.message[j]) => payload_len = Len(m.payload)
      <4>1. \A j \in 1 .. k : j \in 1 .. n
        BY <1>1
      <4> HIDE DEF payload_len
      <4>2. QED
        BY <2>3, <4>1
    <3> HIDE DEF payload_len
    <3>2. QED
      BY <2>4, <3>1, EndsAgree
  <2>6. /\ \A k \in 0 .. n : Sent(k) \in Nat
        /\ \A k \in 1 .. n : Sent(k) <= Len(wire)
        /\ Sent(0) = 0
    <3>1. /\ \A k \in 0 .. n : Sent(k) \in Nat
          /\ \A k \in 1 .. n : Sent(k) <= Sent(n)
          /\ Sent(n) <= Len(wire) /\ Sent(0) = 0
      BY Layout
    <3>2. \A k \in 1 .. n : k \in 0 .. n /\ n \in 0 .. n
      BY <1>1
    <3> HIDE DEF Sent, wire, n
    <3>3. QED
      BY <1>3, <3>1, <3>2
  <2> DEFINE taken == {i \in 1 .. Len(s.fields) : End(i) <= start + size}
             names == {s.fields[i].name : i \in taken}
             last(name) == Max({j \in taken : s.fields[j].name = name})
             Value(name) == ReadField(s.fields[last(name)].type, d,
                              IF last(name) = 1 THEN start ELSE End(last(name) - 1), End(last(name)))
             all == {doc.message[i].name : i \in DOMAIN doc.message}
             Wanted(name) == IF name \in DOMAIN m.values THEN m.values[name] ELSE m.payload
  <2>7. FrameMessage(s, d, start) = [name \in names |-> Value(name)]
    BY DEF FrameMessage, MessageOf
  <2>8. Received(doc, m) = [name \in all |-> Wanted(name)]
    BY DEF Received
  <2>9. taken = 1 .. n
    <3>1. ASSUME NEW k \in 1 .. n PROVE End(k) <= start + size
      <4>1. k \in 0 .. n
        OBVIOUS
      <4> HIDE DEF End, Sent, size, wire, n
      <4>2. End(k) = start + Sent(k) /\ Sent(k) \in Nat /\ Sent(k) <= Len(wire)
        BY <2>5, <2>6, <4>1
      <4>3. QED
        BY <1>3, <2>1, <4>2
    <3> HIDE DEF End, size, s, n
    <3>2. QED
      BY <1>1, <3>1
  <2>10. names = all
    <3> HIDE DEF taken, s, doc, n
    <3>1. QED
      BY <1>1, <2>9
  <2>11. ASSUME NEW i \in 1 .. n PROVE Value(doc.message[i].name) = Wanted(doc.message[i].name)
    <3> DEFINE name == doc.message[i].name
               same == {j \in taken : s.fields[j].name = name}
    <3>1. \A a, b \in 1 .. n : doc.message[a].name = doc.message[b].name => a = b
      BY <1>1 DEF IsPeer
    <3>2. i \in same /\ \A j \in same : j = i
      <4> HIDE DEF taken, s, doc, n
      <4>1. QED
        BY <1>1, <2>9, <3>1
    <3>3. same \subseteq 1 .. n
      <4> HIDE DEF taken, n
      <4>1. QED
        BY <2>9
    <3>4. Max(same) = i
      <4> HIDE DEF same, n
      <4>1. same # {} /\ Max(same) \in same
        BY <1>1, <3>2, <3>3, MaxIn
      <4>2. QED
        BY <3>2, <4>1
    <3>5. Value(name) = ReadField(s.fields[i].type, d, IF i = 1 THEN start ELSE End(i - 1), End(i))
      <4>1. last(name) = i
        BY <3>4
      <4> HIDE DEF last, End, s
      <4>2. QED
        BY <4>1
    <3>6. /\ End(i) = start + Sent(i)
          /\ (IF i = 1 THEN start ELSE End(i - 1)) = start + Sent(i - 1)
      <4>1. i \in 0 .. n /\ i - 1 \in 0 .. n /\ 0 \in 0 .. n
        BY <1>1
      <4>2. End(i) = start + Sent(i) /\ End(i - 1) = start + Sent(i - 1)
        BY <2>5, <4>1
      <4> HIDE DEF End, Sent
      <4>3. QED
        BY <2>6, <4>2
    <3>7. start + Sent(i) <= Len(d)
      <4>1. Sent(i) \in Nat /\ Sent(i) <= Len(wire)
        <5>1. i \in 0 .. n
          OBVIOUS
        <5>2. QED
          BY <2>6, <5>1
      <4> HIDE DEF Sent, wire
      <4>2. QED
        BY <1>3, <1>5, <2>2, <4>1
    <3>8. ReadField(doc.message[i].type, d, start + Sent(i - 1), start + Sent(i))
            = IF IsVariable(doc.message[i]) THEN m.payload ELSE m.values[name]
      BY <3>7, FieldIsRead
    <3>9. Value(name) = IF IsVariable(doc.message[i]) THEN m.payload ELSE m.values[name]
      <4> HIDE DEF Value, End, Sent, s, name
      <4>1. QED
        BY <1>1, <3>5, <3>6, <3>8
    <3>10. name \in DOMAIN m.values <=> ~IsVariable(doc.message[i])
      <4>1. DOMAIN m.values = {doc.message[j].name : j \in {k \in 1 .. n : ~IsVariable(doc.message[k])}}
        <5> HIDE DEF n
        <5>1. QED
          BY <1>1 DEF Follows
      <4> HIDE DEF n, doc
      <4>2. QED
        BY <3>1, <4>1
    <3> HIDE DEF Value, name
    <3>11. QED
      BY <3>9, <3>10 DEF name
  <2>12. \A name \in all : Value(name) = Wanted(name)
    <3> HIDE DEF Value, Wanted, n
    <3>1. QED
      BY <1>1, <2>11
  <2> HIDE DEF names, all, Value, Wanted
  <2>13. QED
    BY <2>7, <2>8, <2>10, <2>12
<1>11. QED
  BY <1>3, <1>6, <1>7, <1>8, <1>9, <1>10

-----------------------------------------------------------------------------
(* A stream: the loop is in step with the messages of the peer.            *)

(* The bytes of the first k messages of a peer.                            *)
Leading(stream, k) == WireAll(stream.document, SubSeq(stream.sent, 1, k))

(* Every message is in its place in what the peer sends.                   *)
LEMMA Order ==
  ASSUME NEW stream, IsPeer(stream)
  PROVE  LET n      == Len(stream.sent)
             End(k) == Len(Leading(stream, k))
             wire(k) == Wire(stream.document, stream.sent[k])
         IN  /\ n \in Nat /\ End(0) = 0 /\ \A k \in 0 .. n : End(k) \in Nat
             /\ \A k \in 0 .. n : \A j \in k .. n : End(k) <= End(j)
             /\ \A k \in 1 .. n :
                  /\ wire(k) \in Seq(Byte) /\ Len(wire(k)) \in Nat
                  /\ End(k) = End(k - 1) + Len(wire(k))
                  /\ \A p \in 1 .. Len(wire(k)) : WireOf(stream)[End(k - 1) + p] = wire(k)[p]
             /\ Len(WireOf(stream)) = End(n) + Len(stream.noise) /\ Len(stream.noise) \in Nat
             /\ \A p \in 1 .. Len(stream.noise) : WireOf(stream)[End(n) + p] = stream.noise[p]
<1> DEFINE n == Len(stream.sent)
           E(k) == Leading(stream, k)
           End(k) == Len(E(k))
           wire(k) == Wire(stream.document, stream.sent[k])
           wires == Wires(stream)
           all == WireOf(stream)
           Kinds == {stream.sent[k] : k \in DOMAIN stream.sent}
<1>1. wires \in Seq(Seq(Byte)) /\ Len(wires) = n /\ n \in Nat /\ all \in Seq(Byte)
  BY WiresType
<1>2. \A k \in 1 .. n : wires[k] = wire(k)
  BY DEF Wires
<1>3. PICK J : /\ IsJoin(J, wires, Byte)
               /\ \A k \in 0 .. n : FlattenSeq([j \in 1 .. k |-> wires[j]]) = J[k]
               /\ FlattenSeq(wires) = J[n]
  <2> HIDE DEF wires, n
  <2>1. QED
    BY <1>1, Flattening
<1>4. ASSUME NEW k \in 0 .. n PROVE E(k) = J[k]
  <2> DEFINE front == SubSeq(stream.sent, 1, k)
  <2>1. Len(front) = k /\ \A j \in 1 .. k : front[j] = stream.sent[j]
    <3>1. stream.sent \in Seq(Kinds)
      BY DEF IsPeer
    <3>2. 0 \in 0 .. n /\ k \in 0 .. n /\ 0 + 1 = 1 /\ k - 0 = k
      BY <1>1
    <3>3. Len(SubSeq(stream.sent, 0 + 1, k)) = k - 0
          /\ \A j \in 1 .. k - 0 : SubSeq(stream.sent, 0 + 1, k)[j] = stream.sent[0 + j]
      BY <3>1, <3>2, Slice
    <3>4. \A j \in 1 .. k : 0 + j = j
      OBVIOUS
    <3>5. QED
      BY <3>2, <3>3, <3>4
  <2> HIDE DEF front
  <2>2. \A j \in 1 .. k : j \in 1 .. n
    BY <1>1
  <2> HIDE DEF wires, n
  <2>3. \A j \in 1 .. k : Wire(stream.document, front[j]) = wires[j]
    BY <1>2, <2>1, <2>2
  <2>4. [j \in 1 .. Len(front) |-> Wire(stream.document, front[j])] = [j \in 1 .. k |-> wires[j]]
    BY <2>1, <2>3
  <2>5. E(k) = FlattenSeq([j \in 1 .. Len(front) |-> Wire(stream.document, front[j])])
    BY DEF Leading, WireAll, front
  <2>6. QED
    BY <1>3, <2>4, <2>5
<1>5. /\ J \in [0 .. n -> Seq(Byte)] /\ J[0] = <<>>
      /\ \A k \in 1 .. n : J[k] = J[k - 1] \o wires[k]
  BY <1>1, <1>3 DEF IsJoin
<1>6. n \in 0 .. n /\ 0 \in 0 .. n
  BY <1>1
<1>7. \A k \in 0 .. n : J[k] \in Seq(Byte) /\ Len(J[k]) \in Nat /\ End(k) = Len(J[k])
  <2> HIDE DEF n, E
  <2>1. \A k \in 0 .. n : J[k] \in Seq(Byte)
    BY <1>5
  <2>2. \A k \in 0 .. n : Len(J[k]) \in Nat
    BY <2>1
  <2>3. QED
    BY <1>4, <2>1, <2>2
<1>8. stream.noise \in Seq(Byte) /\ Len(stream.noise) \in Nat
  <2>1. stream.noise \in Seq(Byte)
    BY DEF IsPeer
  <2>2. QED
    BY <2>1
<1>9. all = J[n] \o stream.noise
  <2>1. WireAll(stream.document, stream.sent) = FlattenSeq(wires)
    BY DEF WireAll, Wires
  <2>2. QED
    BY <1>3, <2>1 DEF WireOf
<1>10. /\ Len(all) = Len(J[n]) + Len(stream.noise)
       /\ \A p \in 1 .. Len(J[n]) : all[p] = J[n][p]
       /\ \A p \in 1 .. Len(stream.noise) : all[Len(J[n]) + p] = stream.noise[p]
  <2>1. J[n] \in Seq(Byte)
    BY <1>6, <1>7
  <2> HIDE DEF all, n
  <2> DEFINE last == J[n]
  <2> HIDE DEF last
  <2>2. last \in Seq(Byte) /\ all = last \o stream.noise
    BY <1>9, <2>1 DEF last
  <2>3. /\ Len(last \o stream.noise) = Len(last) + Len(stream.noise)
        /\ \A p \in 1 .. Len(last) : (last \o stream.noise)[p] = last[p]
        /\ \A p \in 1 .. Len(stream.noise) : (last \o stream.noise)[Len(last) + p] = stream.noise[p]
    BY <1>8, <2>2, Concatenation
  <2>4. QED
    BY <2>2, <2>3 DEF last
<1>11. ASSUME NEW k \in 0 .. n, NEW j \in k .. n
       PROVE  /\ Len(J[k]) <= Len(J[j])
              /\ \A p \in 1 .. Len(J[k]) : J[j][p] = J[k][p]
  <2>1. k \in 0 .. Len(wires) /\ j \in k .. Len(wires)
    BY <1>1
  <2> HIDE DEF wires, n
  <2>2. QED
    BY <1>1, <1>3, <2>1, JoinParts
<1>12. ASSUME NEW k \in 1 .. n
       PROVE  /\ wire(k) \in Seq(Byte) /\ Len(wire(k)) \in Nat
              /\ End(k) = End(k - 1) + Len(wire(k))
              /\ \A p \in 1 .. Len(wire(k)) : all[End(k - 1) + p] = wire(k)[p]
  <2>1. k \in 0 .. n /\ k - 1 \in 0 .. n /\ n \in k .. n
    BY <1>1
  <2>2. wire(k) \in Seq(Byte)
    <3> HIDE DEF wires, wire
    <3>1. wires[k] \in Seq(Byte)
      BY <1>1
    <3>2. QED
      BY <1>2, <3>1
  <2> HIDE DEF wire, wires
  <2>3. J[k] = J[k - 1] \o wire(k) /\ J[k - 1] \in Seq(Byte)
    BY <1>2, <1>5, <1>7, <2>1
  <2>4. /\ Len(J[k]) = Len(J[k - 1]) + Len(wire(k)) /\ Len(wire(k)) \in Nat /\ Len(J[k - 1]) \in Nat
        /\ \A p \in 1 .. Len(wire(k)) : J[k][Len(J[k - 1]) + p] = wire(k)[p]
    BY <2>2, <2>3
  <2>5. Len(J[k]) <= Len(J[n]) /\ \A p \in 1 .. Len(J[k]) : J[n][p] = J[k][p]
    BY <1>11, <2>1
  <2>6. End(k) = Len(J[k]) /\ End(k - 1) = Len(J[k - 1]) /\ Len(J[n]) \in Nat
    BY <1>6, <1>7, <2>1
  <2> HIDE DEF End, all
  <2>7. ASSUME NEW p \in 1 .. Len(wire(k)) PROVE all[End(k - 1) + p] = wire(k)[p]
    <3>1. Len(J[k - 1]) + p \in 1 .. Len(J[k]) /\ Len(J[k - 1]) + p \in 1 .. Len(J[n])
      BY <2>4, <2>5, <2>6
    <3>2. QED
      BY <1>10, <2>4, <2>5, <2>6, <3>1
  <2>8. QED
    BY <2>2, <2>4, <2>6, <2>7
<1>13. \A k \in 0 .. n : \A j \in k .. n : End(k) <= End(j)
  <2>1. \A k \in 0 .. n : \A j \in k .. n : j \in 0 .. n
    BY <1>1
  <2> HIDE DEF End, n
  <2>2. QED
    BY <1>7, <1>11, <2>1
<1>14. /\ End(0) = 0 /\ Len(all) = End(n) + Len(stream.noise)
       /\ \A p \in 1 .. Len(stream.noise) : all[End(n) + p] = stream.noise[p]
  <2>1. Len(J[0]) = 0
    BY <1>5
  <2> HIDE DEF End, all, n
  <2>2. QED
    BY <1>6, <1>7, <1>10, <2>1
<1>15. QED
  BY <1>1, <1>7, <1>8, <1>12, <1>13, <1>14

(* The loop is at the end of the last message that it has decoded, and has *)
(* decoded them as they were sent; it stops before the first message that  *)
(* the data cut.                                                           *)
InStep ==
  (LengthFramed(schema) /\ Supported(document)) =>
    LET n      == Len(messages)
        End(k) == Len(Leading(Given, k))
    IN  /\ n <= Len(sent) => offset = End(n)
        /\ \A k \in 1 .. n : k <= Len(sent) =>
             messages[k] = Received(document, sent[k]) /\ End(k) <= Len(data)
        /\ done => n >= Len(sent) \/ End(n + 1) > Len(data)
        /\ noise = <<>> => n <= Len(sent)

(* The loop starts in step, before the first message.                      *)
LEMMA InitInStep == Init => InStep
<1> SUFFICES ASSUME Init PROVE InStep
  OBVIOUS
<1>1. Shape
  BY InitShape
<1>2. offset = 0 /\ messages = <<>> /\ done = FALSE
  BY DEF Init
<1>3. Len(Leading(Given, 0)) = 0 /\ Len(sent) \in Nat
  <2>1. IsPeer(Given)
    BY <1>1 DEF Shape, DataOK
  <2>2. Len(Leading(Given, 0)) = 0 /\ Len(Given.sent) \in Nat
    BY <2>1, Order
  <2>3. Given.sent = sent
    BY DEF Given
  <2>4. QED
    BY <2>2, <2>3
<1>4. Len(messages) = 0
  BY <1>2
<1>5. 1 .. Len(messages) = {}
  BY <1>4
<1>6. QED
  BY <1>2, <1>3, <1>4, <1>5 DEF InStep

(* What the loop meets where a message was sent.                           *)
LEMMA AtMessage ==
  ASSUME Shape, InStep, LengthFramed(schema), Supported(document), Len(messages) < Len(sent)
  PROVE  LET n      == Len(messages)
             End(k) == Len(Leading(Given, k))
         IN  /\ offset = End(n) /\ n \in Nat /\ Len(sent) \in Nat
             /\ End(n) \in Nat /\ End(n + 1) \in Nat /\ End(n) < End(n + 1)
             /\ FrameFits(schema, data, offset) <=> End(n + 1) <= Len(data)
             /\ FrameFits(schema, data, offset) =>
                  /\ offset + MsgSize(schema, PayloadLen(schema, data, offset)) = End(n + 1)
                  /\ FrameMessage(schema, data, offset) = Received(document, sent[n + 1])
<1> DEFINE n == Len(messages)
           End(k) == Len(Leading(Given, k))
           m == sent[n + 1]
           wire == Wire(document, m)
           all == WireOf(Given)
<1>1. /\ IsPeer(Given) /\ schema = LoadFromYaml(document)
      /\ Given.document = document /\ Given.sent = sent
  BY DEF Shape, DataOK, Given
<1>2. data \in Seq(Byte) /\ Len(data) \in Nat /\ offset \in Nat
      /\ \A p \in 1 .. Len(data) : data[p] = all[p]
  BY Typed DEF Shape
<1>3. messages \in Seq(Message) /\ n \in Nat
  BY DEF Shape
<1>4. /\ Len(sent) \in Nat /\ \A k \in 0 .. Len(sent) : End(k) \in Nat
      /\ \A k \in 1 .. Len(sent) :
           /\ Wire(document, sent[k]) \in Seq(Byte) /\ Len(Wire(document, sent[k])) \in Nat
           /\ End(k) = End(k - 1) + Len(Wire(document, sent[k]))
           /\ \A p \in 1 .. Len(Wire(document, sent[k])) :
                all[End(k - 1) + p] = Wire(document, sent[k])[p]
  <2>1. /\ Len(Given.sent) \in Nat /\ \A k \in 0 .. Len(Given.sent) : End(k) \in Nat
        /\ \A k \in 1 .. Len(Given.sent) :
             /\ Wire(Given.document, Given.sent[k]) \in Seq(Byte)
             /\ Len(Wire(Given.document, Given.sent[k])) \in Nat
             /\ End(k) = End(k - 1) + Len(Wire(Given.document, Given.sent[k]))
             /\ \A p \in 1 .. Len(Wire(Given.document, Given.sent[k])) :
                  all[End(k - 1) + p] = Wire(Given.document, Given.sent[k])[p]
    BY <1>1, Order
  <2> HIDE DEF End, all
  <2>2. QED
    BY <1>1, <2>1
<1>5. n + 1 \in 1 .. Len(sent) /\ n \in 0 .. Len(sent) /\ n + 1 \in 0 .. Len(sent) /\ (n + 1) - 1 = n
  <2>1. n < Len(sent)
    OBVIOUS
  <2> HIDE DEF n
  <2>2. QED
    BY <1>3, <1>4, <2>1
<1>6. /\ End(n) \in Nat /\ End(n + 1) \in Nat /\ Len(wire) \in Nat
      /\ End(n + 1) = End(n) + Len(wire)
      /\ \A p \in 1 .. Len(wire) : all[End(n) + p] = wire[p]
  <2> HIDE DEF End, all, n
  <2>1. QED
    BY <1>4, <1>5
<1>7. offset = End(n)
  <2>1. n <= Len(sent) => offset = End(n)
    BY DEF InStep
  <2> HIDE DEF End, n
  <2>2. QED
    BY <1>4, <1>5, <2>1
<1>8. Holds(data, offset, wire)
  <2> HIDE DEF End, all, wire, n
  <2>1. ASSUME NEW p \in 1 .. Len(wire), offset + p <= Len(data) PROVE data[offset + p] = wire[p]
    <3>1. offset + p \in 1 .. Len(data)
      BY <1>2, <1>6, <2>1
    <3>2. QED
      BY <1>2, <1>6, <1>7, <3>1
  <2>2. QED
    BY <2>1 DEF Holds
<1>9. Follows(document, m) /\ DeclaresLength(document, m)
  <2>1. n + 1 \in DOMAIN sent
    <3>1. sent \in Seq({sent[k] : k \in DOMAIN sent})
      BY <1>1 DEF IsPeer
    <3>2. QED
      BY <1>5, <3>1
  <2>2. QED
    BY <1>1, <2>1 DEF IsPeer
<1>10. /\ Len(wire) > 0
       /\ FrameFits(schema, data, offset) <=> offset + Len(wire) <= Len(data)
       /\ FrameFits(schema, data, offset) =>
            /\ MsgSize(schema, PayloadLen(schema, data, offset)) = Len(wire)
            /\ FrameMessage(schema, data, offset) = Received(document, m)
  <2> HIDE DEF m
  <2>1. QED
    BY <1>1, <1>2, <1>8, <1>9, MessageIsDecoded
<1> HIDE DEF wire, End, n
<1>11. /\ End(n) < End(n + 1)
       /\ FrameFits(schema, data, offset) <=> End(n + 1) <= Len(data)
       /\ FrameFits(schema, data, offset) =>
            offset + MsgSize(schema, PayloadLen(schema, data, offset)) = End(n + 1)
  BY <1>6, <1>7, <1>10
<1>12. QED
  BY <1>3, <1>4, <1>6, <1>7, <1>10, <1>11 DEF n, End

(* Every turn of the loop leaves it in step.                               *)
LEMMA NextInStep ==
  ASSUME Shape, InStep, [Next]_vars
  PROVE  InStep'
<1>1. UNCHANGED <<document, schema, sent, noise, data>>
  BY DEF Next, vars, DecodeMessage, StopAtPartial, Finish, DecodeDatagram, DecodeNothing
<1>2. Given' = Given
  BY <1>1 DEF Given
<1>3. LengthFramed(schema)' = LengthFramed(schema) /\ Supported(document)' = Supported(document)
  BY <1>1
<1> SUFFICES ASSUME LengthFramed(schema), Supported(document)
             PROVE  LET n      == Len(messages')
                        End(k) == Len(Leading(Given, k))
                    IN  /\ n <= Len(sent) => offset' = End(n)
                        /\ \A k \in 1 .. n : k <= Len(sent) =>
                             messages'[k] = Received(document, sent[k]) /\ End(k) <= Len(data)
                        /\ done' => n >= Len(sent) \/ End(n + 1) > Len(data)
                        /\ noise = <<>> => n <= Len(sent)
  BY <1>1, <1>2, <1>3 DEF InStep
<1> DEFINE n == Len(messages)
           End(k) == Len(Leading(Given, k))
<1>4. /\ n <= Len(sent) => offset = End(n)
      /\ \A k \in 1 .. n : k <= Len(sent) =>
           messages[k] = Received(document, sent[k]) /\ End(k) <= Len(data)
      /\ done => n >= Len(sent) \/ End(n + 1) > Len(data)
      /\ noise = <<>> => n <= Len(sent)
  BY DEF InStep
<1>5. messages \in Seq(Message) /\ n \in Nat
  BY DEF Shape
<1>6. Len(sent) \in Nat /\ Len(data) \in Nat /\ Len(data) <= Len(WireOf(Given))
      /\ Len(WireOf(Given)) = End(Len(sent)) + Len(noise) /\ End(Len(sent)) \in Nat
  <2>1. IsPeer(Given) /\ Given.sent = sent /\ Given.noise = noise
    BY DEF Shape, DataOK, Given
  <2>2. /\ Len(sent) \in Nat /\ Len(WireOf(Given)) = End(Len(sent)) + Len(noise)
        /\ \A k \in 0 .. Len(sent) : End(k) \in Nat
    BY <2>1, Order
  <2>3. Len(data) \in 0 .. Len(WireOf(Given))
    BY Typed DEF Shape
  <2>4. Len(sent) \in 0 .. Len(sent)
    BY <2>2
  <2>5. data \in Seq(Byte)
    BY Typed DEF Shape
  <2>6. Len(data) \in Nat /\ Len(data) <= Len(WireOf(Given))
    BY <2>3, <2>5
  <2> HIDE DEF End
  <2>7. QED
    BY <2>2, <2>4, <2>6
<1>7. CASE DecodeMessage
  <2>1. /\ offset < Len(data) /\ FrameFits(schema, data, offset) /\ ~done
        /\ messages' = Append(messages, FrameMessage(schema, data, offset))
        /\ offset' = offset + MsgSize(schema, PayloadLen(schema, data, offset))
        /\ done' = done
    BY <1>7 DEF DecodeMessage
  <2>2. /\ Len(messages') = n + 1 /\ messages'[n + 1] = FrameMessage(schema, data, offset)
        /\ \A k \in 1 .. n : messages'[k] = messages[k]
    BY <1>5, <2>1
  <2>3. ASSUME NEW k \in 1 .. n + 1 PROVE k = n + 1 \/ k \in 1 .. n
    BY <1>5
  <2>4. CASE n < Len(sent)
    <3>1. /\ offset' = End(n + 1) /\ End(n + 1) <= Len(data)
          /\ FrameMessage(schema, data, offset) = Received(document, sent[n + 1])
      BY <2>1, <2>4, AtMessage
    <3> HIDE DEF n, End
    <3>2. n + 1 <= Len(sent)
      BY <1>5, <1>6, <2>4
    <3>3. ASSUME NEW k \in 1 .. n + 1, k <= Len(sent)
          PROVE  messages'[k] = Received(document, sent[k]) /\ End(k) <= Len(data)
      BY <1>4, <2>2, <2>3, <3>1, <3>3
    <3>4. QED
      BY <2>1, <2>2, <3>1, <3>2, <3>3 DEF End
  <2>5. CASE ~(n < Len(sent))
    <3> HIDE DEF n, End
    <3>1. ~(n + 1 <= Len(sent)) /\ n >= Len(sent)
      BY <1>5, <1>6, <2>5
    <3>2. ASSUME NEW k \in 1 .. n + 1, k <= Len(sent)
          PROVE  messages'[k] = Received(document, sent[k]) /\ End(k) <= Len(data)
      BY <1>4, <2>2, <2>3, <3>1, <3>2
    <3>3. noise # <<>>
      <4> SUFFICES ASSUME noise = <<>> PROVE FALSE
        OBVIOUS
      <4>1. n = Len(sent) /\ offset = End(Len(sent)) /\ Len(noise) = 0
        BY <1>4, <1>5, <1>6, <3>1
      <4>2. QED
        BY <1>6, <2>1, <4>1
    <3>4. QED
      BY <2>1, <2>2, <3>1, <3>2, <3>3 DEF End
  <2>6. QED
    BY <2>4, <2>5
<1>8. CASE StopAtPartial \/ Finish
  <2>1. UNCHANGED <<offset, messages>> /\ (~FrameFits(schema, data, offset) \/ offset >= Len(data))
    BY <1>8 DEF StopAtPartial, Finish
  <2>2. n >= Len(sent) \/ End(n + 1) > Len(data)
    <3> SUFFICES ASSUME n < Len(sent) PROVE End(n + 1) > Len(data)
      <4> HIDE DEF n, End
      <4>1. QED
        BY <1>5, <1>6
    <3>1. /\ offset = End(n) /\ End(n) < End(n + 1) /\ End(n) \in Nat /\ End(n + 1) \in Nat
          /\ FrameFits(schema, data, offset) <=> End(n + 1) <= Len(data)
      BY AtMessage
    <3> HIDE DEF n, End
    <3>2. QED
      BY <1>6, <2>1, <3>1
  <2>3. QED
    BY <1>4, <2>1, <2>2
<1>9. CASE DecodeDatagram \/ DecodeNothing
  BY <1>9 DEF DecodeDatagram, DecodeNothing, LengthFramed, IsDatagram
<1>10. CASE UNCHANGED vars
  BY <1>4, <1>10 DEF vars
<1>11. QED
  BY <1>7, <1>8, <1>9, <1>10 DEF Next

(* As many messages are whole as have been decoded, but for what the noise *)
(* may look like.                                                          *)
LEMMA ContainedDecoded ==
  ASSUME Shape, InStep, LengthFramed(schema), Supported(document), done
  PROVE  /\ Contained \in Nat /\ Contained <= Len(messages) /\ Contained <= Len(sent)
         /\ noise = <<>> => Contained = Len(messages)
<1> DEFINE n == Len(messages)
           End(k) == Len(Leading(Given, k))
           c == IF n <= Len(sent) THEN n ELSE Len(sent)
           whole == {k \in 1 .. Len(sent) : End(k) <= Len(data)}
<1>1. /\ \A k \in 1 .. n : k <= Len(sent) => End(k) <= Len(data)
      /\ n >= Len(sent) \/ End(n + 1) > Len(data)
      /\ noise = <<>> => n <= Len(sent)
  BY DEF InStep
<1>2. messages \in Seq(Message) /\ n \in Nat
  BY DEF Shape
<1>3. /\ Len(sent) \in Nat /\ \A k \in 0 .. Len(sent) : End(k) \in Nat
      /\ \A k \in 0 .. Len(sent) : \A j \in k .. Len(sent) : End(k) <= End(j)
  <2>1. IsPeer(Given) /\ Given.sent = sent
    BY DEF Shape, DataOK, Given
  <2>2. QED
    BY <2>1, Order
<1>4. data \in Seq(Byte) /\ Len(data) \in Nat
  BY Typed DEF Shape
<1>5. c \in Nat /\ c <= n /\ c <= Len(sent) /\ (noise = <<>> => c = n)
  <2> HIDE DEF n
  <2>1. QED
    BY <1>1, <1>2, <1>3
<1>6. whole = 1 .. c
  <2>1. ASSUME NEW k \in 1 .. Len(sent) PROVE End(k) <= Len(data) <=> k <= c
    <3> HIDE DEF n, End
    <3>1. CASE k <= n
      BY <1>1, <1>2, <1>3, <3>1
    <3>2. CASE ~(k <= n)
      <4>1. /\ c = n /\ n < Len(sent) /\ n + 1 \in 0 .. Len(sent)
            /\ k \in n + 1 .. Len(sent) /\ k \in 0 .. Len(sent)
        BY <1>2, <1>3, <3>2
      <4>2. End(n + 1) > Len(data) /\ End(n + 1) <= End(k) /\ End(n + 1) \in Nat /\ End(k) \in Nat
        BY <1>1, <1>2, <1>3, <4>1
      <4>3. ~(End(k) <= Len(data))
        BY <1>4, <4>2
      <4>4. QED
        BY <3>2, <4>1, <4>3
    <3>3. QED
      BY <3>1, <3>2
  <2> HIDE DEF c, End
  <2>2. QED
    BY <1>3, <1>5, <2>1
<1>7. Contained = Cardinality(whole)
  BY DEF Contained, Leading, Given
<1>8. Cardinality(1 .. c) = c
  <2>1. Cardinality(1 .. c) = IF 1 > c THEN 0 ELSE (c - 1) + 1
    <3> HIDE DEF c
    <3>1. QED
      BY <1>5, FS_Interval
  <2> HIDE DEF c
  <2>2. QED
    BY <1>5, <2>1
<1> HIDE DEF c, whole
<1>9. QED
  BY <1>5, <1>6, <1>7, <1>8 DEF n

(* Sticky and half packets: whatever the peer sends and wherever the       *)
(* capture cuts it, Decode returns the messages that are whole, in order   *)
(* and with the values sent, and noise after them never disturbs them.     *)
THEOREM WholeMessages == Spec => []WholeMessagesDecoded
<1>1. ASSUME Shape, InStep PROVE WholeMessagesDecoded
  <2> SUFFICES ASSUME Supported(document), StreamPeer, done
               PROVE  LET expected == [k \in 1 .. Contained |-> Received(document, sent[k])]
                      IN  IF noise = <<>> THEN messages = expected ELSE IsPrefix(expected, messages)
    BY DEF WholeMessagesDecoded, RoundTrip
  <2> DEFINE expected == [k \in 1 .. Contained |-> Received(document, sent[k])]
             n == Len(messages)
  <2>1. LengthFramed(schema)
    <3>1. schema = LoadFromYaml(document)
      BY <1>1 DEF Shape, DataOK
    <3>2. schema.transport = Get(document, "transport", "tcp") /\ schema.framing = Framing(document)
      BY <3>1 DEF LoadFromYaml
    <3>3. Framing(document).type = Get(Get(document, "framing", NoFraming), "type", "datagram")
      BY DEF Framing, NoFraming
    <3>4. QED
      BY <3>2, <3>3 DEF LengthFramed, StreamPeer
  <2>2. /\ Contained \in Nat /\ Contained <= n /\ Contained <= Len(sent)
        /\ noise = <<>> => Contained = n
    BY <1>1, <2>1, ContainedDecoded
  <2>3. messages \in Seq(Message) /\ n \in Nat
    BY <1>1 DEF Shape
  <2>4. Len(sent) \in Nat
    <3>1. IsPeer(Given) /\ Given.sent = sent
      BY <1>1 DEF Shape, DataOK, Given
    <3>2. QED
      BY <3>1, Order
  <2>5. \A k \in 1 .. Contained : messages[k] = Received(document, sent[k])
    <3>1. \A k \in 1 .. n : k <= Len(sent) => messages[k] = Received(document, sent[k])
      BY <1>1, <2>1 DEF InStep
    <3> HIDE DEF n
    <3>2. QED
      BY <2>2, <2>3, <2>4, <3>1
  <2> DEFINE c == Contained
  <2> HIDE DEF c
  <2>6. expected = [k \in 1 .. c |-> messages[k]]
    BY <2>5 DEF c
  <2>7. CASE noise = <<>>
    <3>1. messages = [k \in 1 .. n |-> messages[k]]
      BY <2>3
    <3>2. c = n
      BY <2>2, <2>7 DEF c
    <3>3. messages = expected
      BY <2>6, <3>1, <3>2
    <3>4. QED
      BY <2>7, <3>3
  <2>8. CASE noise # <<>>
    <3>1. c \in Nat /\ c <= n
      BY <2>2 DEF c
    <3>2. \A k \in 1 .. c : messages[k] \in Message
      <4>1. \A k \in 1 .. n : messages[k] \in Message
        BY <2>3, ElementType
      <4> HIDE DEF n
      <4>2. QED
        BY <2>3, <3>1, <4>1
    <3> HIDE DEF n
    <3>3. /\ expected \in Seq(Message) /\ Len(expected) = c
          /\ \A k \in 1 .. c : expected[k] = messages[k]
      <4> HIDE DEF expected
      <4>1. expected \in [1 .. c -> Message] /\ \A k \in 1 .. c : expected[k] = messages[k]
        BY <2>6, <3>2
      <4>2. expected \in Seq(Message) /\ Len(expected) = c
        BY <3>1, <4>1
      <4>3. QED
        BY <4>1, <4>2
    <3> HIDE DEF expected
    <3>4. IsPrefix(expected, messages)
      BY <2>3, <3>1, <3>3, PrefixByElements DEF n
    <3>5. QED
      BY <2>8, <3>4 DEF expected
  <2>9. QED
    BY <2>7, <2>8
<1>2. Init => Shape /\ InStep
  BY InitShape, InitInStep
<1>3. Shape /\ InStep /\ [Next]_vars => (Shape /\ InStep)'
  BY NextShape, NextInStep
<1>4. QED
  BY <1>1, <1>2, <1>3, PTL DEF Spec

-----------------------------------------------------------------------------
(* A datagram: one message, as far as the data goes.                       *)

(* In a datagram too the fixed fields end where the peer put their ends.   *)
LEMMA DatagramEndsAgree ==
  ASSUME NEW stream, IsPeer(stream), NEW m, Follows(stream.document, m), NEW len \in Nat,
         NEW i \in 0 .. Len(stream.document.message),
         \A j \in 1 .. i : ~IsVariable(stream.document.message[j])
  PROVE  DatagramEnd(LoadFromYaml(stream.document), i, len) = PartsEnd(stream.document, m, i)
<1> DEFINE doc == stream.document
           s == LoadFromYaml(doc)
           n == Len(doc.message)
           E(k) == DatagramEnd(s, k, len)
           End(k) == PartsEnd(doc, m, k)
           T == {k \in 0 .. i : E(k) = End(k)}
<1>1. n \in Nat /\ s.fields \in Seq(Field) /\ s.fields = doc.message /\ Len(s.fields) = n
  <2>1. s.fields \in Seq(Field) /\ s.fields = doc.message
    BY SchemaOf
  <2> HIDE DEF s, doc
  <2>2. QED
    BY <2>1
<1>2. /\ E(0) = 0
      /\ \A k \in 1 .. n : E(k) = IF IsVariable(s.fields[k]) THEN len ELSE E(k - 1) + Width(s, k, len)
  <2> HIDE DEF s
  <2>1. /\ DatagramEnd(s, 0, len) = 0
        /\ \A k \in 1 .. Len(s.fields) :
             DatagramEnd(s, k, len)
               = IF IsVariable(s.fields[k]) THEN len ELSE DatagramEnd(s, k - 1, len) + Width(s, k, len)
    BY <1>1, DatagramEndSteps
  <2>2. QED
    BY <1>1, <2>1
<1>3. /\ End(0) = 0
      /\ \A k \in 1 .. n : End(k) = End(k - 1) + Len(WireField(doc, doc.message[k], m))
  BY Layout
<1> HIDE DEF s, E, End, n
<1>4. 0 \in T
  BY <1>2, <1>3
<1>5. ASSUME NEW k \in 1 .. i, k - 1 \in T PROVE k \in T
  <2>1. k \in 1 .. n /\ k \in 0 .. i
    BY <1>1 DEF n
  <2>2. ~IsVariable(doc.message[k])
    OBVIOUS
  <2>3. Width(s, k, len) = Len(WireField(doc, doc.message[k], m))
    <3>1. Len(WireField(doc, doc.message[k], m))
            = IF IsVariable(doc.message[k]) THEN Len(m.payload) ELSE FieldTypeSize(doc.message[k].type)
      BY <2>1, PartLength DEF n
    <3> HIDE DEF doc
    <3>2. QED
      BY <1>1, <2>2, <3>1 DEF Width, doc
  <2>4. E(k) = E(k - 1) + Width(s, k, len)
    BY <1>1, <1>2, <2>1, <2>2
  <2>5. E(k) = End(k)
    BY <1>3, <1>5, <2>1, <2>3, <2>4
  <2>6. QED
    BY <2>1, <2>5
<1>6. 0 .. i \subseteq T
  <2>1. i \in Nat
    OBVIOUS
  <2> HIDE DEF T
  <2>2. QED
    BY <1>4, <1>5, <2>1, RangeInduction
<1>7. i \in 0 .. i
  OBVIOUS
<1>8. QED
  BY <1>6, <1>7 DEF E, End, s

(* Of what a peer sends last, the bytes from one inside it on are the      *)
(* beginning of its payload and of the noise behind it.                    *)
LEMMA RestOfPayload ==
  ASSUME NEW E, NEW payload \in Seq(E), NEW behind \in Seq(E),
         NEW wire \in Seq(E), NEW all \in Seq(E), NEW d \in Seq(E), NEW from \in Nat,
         Len(wire) = from + Len(payload), Holds(wire, from, payload),
         Len(all) = Len(wire) + Len(behind),
         \A p \in 1 .. Len(wire) : all[p] = wire[p],
         \A p \in 1 .. Len(behind) : all[Len(wire) + p] = behind[p],
         from <= Len(d), Len(d) <= Len(all), \A p \in 1 .. Len(d) : d[p] = all[p]
  PROVE  IsPrefix(SubSeq(d, from + 1, Len(d)), payload \o behind)
<1> DEFINE bytes == SubSeq(d, from + 1, Len(d))
           want == payload \o behind
           a == Len(payload)
           b == Len(behind)
           c == Len(d)
<1>1. a \in Nat /\ b \in Nat /\ c \in Nat /\ from <= c /\ c <= (from + a) + b
  OBVIOUS
<1>2. /\ bytes \in Seq(E) /\ Len(bytes) = c - from
      /\ \A p \in 1 .. c - from : bytes[p] = d[from + p]
  <2>1. from \in 0 .. Len(d) /\ c \in from .. Len(d)
    BY <1>1
  <2>2. QED
    BY <2>1, Slice
<1>3. /\ want \in Seq(E) /\ Len(want) = a + b
      /\ \A p \in 1 .. a : want[p] = payload[p]
      /\ \A p \in 1 .. b : want[a + p] = behind[p]
  BY Concatenation
<1>4. /\ \A p \in 1 .. a : wire[from + p] = payload[p]
      /\ \A p \in 1 .. from + a : all[p] = wire[p]
      /\ \A p \in 1 .. b : all[(from + a) + p] = behind[p]
      /\ \A p \in 1 .. c : d[p] = all[p]
  <2>1. ASSUME NEW p \in 1 .. a PROVE wire[from + p] = payload[p]
    <3>1. from + p <= Len(wire)
      BY <1>1
    <3>2. QED
      BY <3>1 DEF Holds
  <2>2. QED
    BY <2>1
<1> HIDE DEF bytes, want, a, b, c
<1>5. Len(bytes) <= Len(want)
  BY <1>1, <1>2, <1>3
<1>6. ASSUME NEW p \in 1 .. Len(bytes) PROVE bytes[p] = want[p]
  <2>1. p \in 1 .. c - from /\ p \in Nat /\ from + p \in 1 .. c
    BY <1>1, <1>2
  <2>2. bytes[p] = all[from + p]
    BY <1>2, <1>4, <2>1
  <2>3. CASE p <= a
    <3>1. p \in 1 .. a /\ from + p \in 1 .. from + a
      BY <1>1, <2>1, <2>3
    <3>2. QED
      BY <1>3, <1>4, <2>2, <3>1
  <2>4. CASE ~(p <= a)
    <3> DEFINE q == p - a
    <3>1. q \in 1 .. b /\ from + p = (from + a) + q /\ p = a + q
      BY <1>1, <2>1, <2>4
    <3> HIDE DEF q
    <3>2. QED
      BY <1>3, <1>4, <2>2, <3>1
  <2>5. QED
    BY <2>3, <2>4
<1>7. IsPrefix(bytes, want)
  BY <1>2, <1>3, <1>5, <1>6, PrefixByElements
<1>8. QED
  BY <1>7 DEF bytes, want

(* The payload that is the last field is the last on the wire.             *)
LEMMA PayloadIsLast ==
  ASSUME NEW stream, IsPeer(stream), NEW m, Follows(stream.document, m),
         NEW i \in 1 .. Len(stream.document.message), i = Len(stream.document.message),
         IsVariable(stream.document.message[i])
  PROVE  LET doc  == stream.document
             wire == Wire(doc, m)
             from == PartsEnd(doc, m, i - 1)
         IN  /\ wire \in Seq(Byte) /\ from \in Nat /\ Len(wire) = from + Len(m.payload)
             /\ Holds(wire, from, m.payload)
<1> DEFINE doc == stream.document
           n == Len(doc.message)
           part == WireField(doc, doc.message[i], m)
           wire == Wire(doc, m)
           from == PartsEnd(doc, m, i - 1)
           to == PartsEnd(doc, m, i)
<1>1. part = m.payload
  BY DEF WireField
<1>2. HasVariable(doc)
  BY SchemaOf DEF HasVariable
<1>3. /\ n \in Nat /\ \A k \in 0 .. n : PartsEnd(doc, m, k) \in Nat
      /\ wire \in Seq(Byte) /\ to = from + Len(part)
      /\ \A p \in 1 .. Len(part) : wire[from + p] = part[p]
      /\ Len(wire) = PartsEnd(doc, m, n) + (IF HasVariable(doc) THEN 0 ELSE Len(m.payload))
  BY Layout
<1>4. from \in Nat /\ to \in Nat /\ Len(wire) = to
  <2>1. i - 1 \in 0 .. n /\ i \in 0 .. n /\ n = i
    BY <1>3
  <2> HIDE DEF n, wire
  <2>2. Len(wire) = PartsEnd(doc, m, n) + 0
    BY <1>2, <1>3
  <2>3. QED
    BY <1>3, <2>1, <2>2
<1> HIDE DEF part, wire, from, to
<1>5. Holds(wire, from, part)
  BY <1>3 DEF Holds
<1>6. QED
  BY <1>1, <1>3, <1>4, <1>5 DEF from, wire

(* Of a datagram, the fields that are whole are read as they were sent,    *)
(* and a variable one, which is last, takes what there is of the payload.  *)
LEMMA DatagramIsDecoded ==
  ASSUME NEW stream, IsPeer(stream), Supported(stream.document),
         IsDatagram(LoadFromYaml(stream.document)),
         NEW d \in Seq(Byte), Len(d) <= Len(WireOf(stream)),
         \A p \in 1 .. Len(d) : d[p] = WireOf(stream)[p],
         NEW i \in 1 .. Len(stream.document.message)
  PROVE  LET doc  == stream.document
             got  == DatagramMessage(LoadFromYaml(doc), d)
             m    == stream.sent[1]
             f    == doc.message[i]
         IN  IF IsVariable(f)
               THEN /\ f.name \in DOMAIN got <=> PartsEnd(doc, m, i - 1) <= Len(d)
                    /\ f.name \in DOMAIN got => IsPrefix(got[f.name], m.payload \o stream.noise)
               ELSE /\ f.name \in DOMAIN got <=> PartsEnd(doc, m, i) <= Len(d)
                    /\ f.name \in DOMAIN got => got[f.name] = m.values[f.name]
<1> DEFINE doc == stream.document
           s == LoadFromYaml(doc)
           m == stream.sent[1]
           f == doc.message[i]
           name == f.name
           n == Len(doc.message)
           len == Len(d)
           wire == Wire(doc, m)
           all == WireOf(stream)
           End(k) == DatagramEnd(s, k, len)
           Sent(k) == PartsEnd(doc, m, k)
           got == DatagramMessage(s, d)
           taken == {k \in 1 .. Len(s.fields) : \A j \in 1 .. k : End(j) <= len}
           same(x) == {j \in taken : s.fields[j].name = x}
           last(x) == Max(same(x))
           Value(x) == ReadField(s.fields[last(x)].type, d,
                         IF last(x) = 1 THEN 0 ELSE End(last(x) - 1), End(last(x)))
<1>1. /\ s.fields \in Seq(Field) /\ s.fields = doc.message /\ Len(s.fields) = n /\ n \in Nat
      /\ DOMAIN doc.message = 1 .. n
  <2>1. /\ s.fields \in Seq(Field) /\ s.fields = doc.message /\ DOMAIN doc.message = 1 .. Len(s.fields)
        /\ Len(s.fields) \in Nat
    BY SchemaOf
  <2> HIDE DEF s, doc
  <2>2. QED
    BY <2>1
<1>2. Follows(doc, m) /\ Len(stream.sent) = 1
  <2>1. Len(stream.sent) = 1
    BY DEF IsPeer
  <2>2. DOMAIN stream.sent = 1 .. Len(stream.sent)
    BY WiresType
  <2>3. QED
    BY <2>1, <2>2 DEF IsPeer
<1>3. /\ \A k \in 1 .. n : IsVariable(doc.message[k]) => k = n
      /\ \A j, k \in 1 .. n : doc.message[j].name = doc.message[k].name => j = k
  <2> HIDE DEF n, doc
  <2>1. QED
    BY <1>1 DEF IsPeer, doc
<1>4. /\ Sent(0) = 0 /\ \A k \in 0 .. n : Sent(k) \in Nat
      /\ \A k \in 0 .. n : \A j \in k .. n : Sent(k) <= Sent(j)
      /\ Len(m.payload) \in Nat /\ Len(wire) \in Nat
  BY <1>2, Layout
<1>5. len \in Nat /\ i \in 1 .. n /\ i \in 0 .. n /\ i - 1 \in 0 .. n /\ n \in 0 .. n /\ i \in i - 1 .. n
  <2>1. len \in Nat /\ i \in 1 .. n
    OBVIOUS
  <2> HIDE DEF len, n
  <2>2. QED
    BY <1>1, <2>1
<1>6. ASSUME NEW k \in 0 .. n, \A j \in 1 .. k : ~IsVariable(doc.message[j])
      PROVE  End(k) = Sent(k)
  BY <1>2, <1>5, <1>6, DatagramEndsAgree
<1>7. ASSUME NEW k \in 1 .. i - 1
      PROVE  k \in 0 .. n /\ i - 1 \in k .. n /\ i \in k .. n /\ End(k) = Sent(k)
  <2>1. k \in 0 .. n /\ i - 1 \in k .. n /\ i \in k .. n
    BY <1>1, <1>5
  <2>2. \A j \in 1 .. k : ~IsVariable(doc.message[j])
    <3>1. \A j \in 1 .. k : j \in 1 .. n /\ j # n
      BY <1>1, <1>5
    <3>2. QED
      BY <1>3, <3>1
  <2> HIDE DEF End, Sent
  <2>3. QED
    BY <1>6, <2>1, <2>2
<1>8. End(i - 1) = Sent(i - 1)
  <2>1. \A j \in 1 .. i - 1 : ~IsVariable(doc.message[j])
    <3>1. \A j \in 1 .. i - 1 : j \in 1 .. n /\ j # n
      BY <1>1, <1>5
    <3>2. QED
      BY <1>3, <3>1
  <2> HIDE DEF End, Sent
  <2>2. QED
    BY <1>5, <1>6, <2>1
<1>9. End(i) = IF IsVariable(f) THEN len ELSE Sent(i)
  <2>1. CASE IsVariable(f)
    <3>1. DatagramEnd(s, i, len)
            = IF IsVariable(s.fields[i]) THEN len ELSE DatagramEnd(s, i - 1, len) + Width(s, i, len)
      <4> HIDE DEF s, len, n
      <4>1. QED
        BY <1>1, <1>5, DatagramEndSteps
    <3> HIDE DEF s, len, Sent
    <3>2. QED
      BY <1>1, <2>1, <3>1
  <2>2. CASE ~IsVariable(f)
    <3>1. \A j \in 1 .. i : ~IsVariable(doc.message[j])
      <4>1. \A j \in 1 .. i : j = i \/ (j \in 1 .. n /\ j # n)
        BY <1>1, <1>5
      <4>2. QED
        BY <1>3, <2>2, <4>1
    <3> HIDE DEF End, Sent, len
    <3>2. QED
      BY <1>5, <1>6, <2>2, <3>1
  <2>3. QED
    BY <2>1, <2>2
(* Which fields are taken.                                                 *)
<1>10. i \in taken <=> (IF IsVariable(f) THEN Sent(i - 1) ELSE Sent(i)) <= len
  <2>1. i \in taken <=> \A j \in 1 .. i : End(j) <= len
    BY <1>1, <1>5
  <2>2. (\A j \in 1 .. i : End(j) <= len) <=> End(i) <= len /\ Sent(i - 1) <= len
    <3> HIDE DEF End, Sent, len, n
    <3>1. ASSUME \A j \in 1 .. i : End(j) <= len PROVE End(i) <= len /\ Sent(i - 1) <= len
      <4>1. i \in 1 .. i /\ (i - 1 = 0 \/ i - 1 \in 1 .. i)
        BY <1>5
      <4>2. QED
        BY <1>4, <1>5, <1>8, <3>1, <4>1
    <3>2. ASSUME End(i) <= len, Sent(i - 1) <= len, NEW j \in 1 .. i PROVE End(j) <= len
      <4>1. j = i \/ j \in 1 .. i - 1
        BY <1>5
      <4>2. CASE j \in 1 .. i - 1
        <5>1. End(j) = Sent(j) /\ Sent(j) <= Sent(i - 1) /\ Sent(j) \in Nat /\ Sent(i - 1) \in Nat
          BY <1>4, <1>5, <1>7, <4>2
        <5>2. QED
          BY <1>5, <3>2, <5>1
      <4>3. QED
        BY <3>2, <4>1, <4>2
    <3>3. QED
      BY <3>1, <3>2
  <2>3. Sent(i - 1) <= Sent(i) /\ Sent(i - 1) \in Nat /\ Sent(i) \in Nat
    BY <1>4, <1>5
  <2> HIDE DEF End, Sent, len, taken
  <2>4. CASE IsVariable(f)
    BY <1>5, <1>9, <2>1, <2>2, <2>3, <2>4
  <2>5. CASE ~IsVariable(f)
    BY <1>5, <1>9, <2>1, <2>2, <2>3, <2>5
  <2>6. QED
    BY <2>4, <2>5
<1>11. got = [x \in {s.fields[k].name : k \in taken} |-> Value(x)]
  BY DEF DatagramMessage, MessageOf
<1>12. name \in DOMAIN got <=> i \in taken
  <2>1. DOMAIN got = {s.fields[k].name : k \in taken}
    <3> HIDE DEF got, Value, taken, s
    <3>1. QED
      BY <1>11
  <2>2. taken \subseteq 1 .. n
    BY <1>1
  <2> HIDE DEF got, taken, s, doc, n
  <2>3. QED
    BY <1>1, <1>3, <1>5, <2>1, <2>2
<1>13. ASSUME name \in DOMAIN got
       PROVE  got[name] = ReadField(f.type, d, Sent(i - 1), End(i))
  <2>1. i \in taken
    BY <1>12, <1>13
  <2>2. got[name] = Value(name)
    <3>1. name \in {s.fields[k].name : k \in taken}
      <4> HIDE DEF taken, s, doc
      <4>1. QED
        BY <1>1, <2>1
    <3> HIDE DEF got, Value, taken, s, doc
    <3>2. QED
      BY <1>11, <3>1
  <2>3. last(name) = i
    <3> DEFINE here == same(name)
    <3>1. here \subseteq 1 .. n
      BY <1>1
    <3>2. i \in here /\ \A j \in here : j = i
      <4>1. taken \subseteq 1 .. n
        BY <1>1
      <4> HIDE DEF taken, s, doc, n
      <4>2. QED
        BY <1>1, <1>3, <1>5, <2>1, <4>1
    <3>3. Max(here) = i
      <4> HIDE DEF here, n
      <4>1. here # {} /\ Max(here) \in here
        BY <1>1, <3>1, <3>2, MaxIn
      <4>2. QED
        BY <3>2, <4>1
    <3>4. QED
      BY <3>3
  <2>4. Value(name) = ReadField(s.fields[i].type, d, IF i = 1 THEN 0 ELSE End(i - 1), End(i))
    <3> HIDE DEF last, End, s
    <3>1. QED
      BY <2>3
  <2>5. (IF i = 1 THEN 0 ELSE End(i - 1)) = Sent(i - 1)
    <3> HIDE DEF End, Sent
    <3>1. i = 1 => i - 1 = 0
      OBVIOUS
    <3>2. QED
      BY <1>4, <1>8, <3>1
  <2> HIDE DEF Value, End, Sent, s, got
  <2>6. QED
    BY <1>1, <2>2, <2>4, <2>5
(* What they hold.                                                         *)
<1>14. /\ Len(all) = Len(wire) + Len(stream.noise) /\ Len(stream.noise) \in Nat
       /\ \A p \in 1 .. Len(wire) : all[p] = wire[p]
       /\ \A p \in 1 .. Len(stream.noise) : all[Len(wire) + p] = stream.noise[p]
  <2> DEFINE F(k) == Len(Leading(stream, k))
  <2>1. /\ F(0) = 0 /\ F(1) = F(0) + Len(wire) /\ Len(wire) \in Nat /\ F(1) \in Nat
        /\ \A p \in 1 .. Len(wire) : all[F(0) + p] = wire[p]
        /\ Len(all) = F(1) + Len(stream.noise) /\ Len(stream.noise) \in Nat
        /\ \A p \in 1 .. Len(stream.noise) : all[F(1) + p] = stream.noise[p]
    <3>1. 1 \in 1 .. 1 /\ 1 \in 0 .. 1 /\ 1 - 1 = 0
      OBVIOUS
    <3>2. /\ F(0) = 0 /\ \A k \in 0 .. Len(stream.sent) : F(k) \in Nat
          /\ \A k \in 1 .. Len(stream.sent) :
               /\ Len(Wire(doc, stream.sent[k])) \in Nat
               /\ F(k) = F(k - 1) + Len(Wire(doc, stream.sent[k]))
               /\ \A p \in 1 .. Len(Wire(doc, stream.sent[k])) :
                    all[F(k - 1) + p] = Wire(doc, stream.sent[k])[p]
          /\ Len(all) = F(Len(stream.sent)) + Len(stream.noise) /\ Len(stream.noise) \in Nat
          /\ \A p \in 1 .. Len(stream.noise) : all[F(Len(stream.sent)) + p] = stream.noise[p]
      BY Order
    <3> HIDE DEF F, all, doc
    <3>3. QED
      BY <1>2, <3>1, <3>2
  <2>2. \A p \in 1 .. Len(wire) : 0 + p = p
    BY <2>1
  <2> HIDE DEF F, wire, all
  <2>3. QED
    BY <2>1, <2>2
<1>15. Holds(d, 0, wire)
  <2>1. ASSUME NEW p \in 1 .. Len(wire), 0 + p <= Len(d) PROVE d[0 + p] = wire[p]
    <3>1. 0 + p = p /\ p \in 1 .. Len(d)
      BY <2>1
    <3> HIDE DEF wire
    <3>2. d[p] = all[p] /\ all[p] = wire[p]
      BY <1>14, <3>1
    <3>3. QED
      BY <3>1, <3>2
  <2>2. QED
    BY <2>1 DEF Holds
<1>16. CASE ~IsVariable(f)
  <2>1. name \in DOMAIN got <=> Sent(i) <= len
    <3> HIDE DEF Sent, len, taken, got
    <3>1. QED
      BY <1>10, <1>12, <1>16
  <2>2. ASSUME name \in DOMAIN got PROVE got[name] = m.values[name]
    <3>1. got[name] = ReadField(f.type, d, Sent(i - 1), Sent(i))
      <4> HIDE DEF got, Sent, End
      <4>1. QED
        BY <1>9, <1>13, <1>16, <2>2
    <3>2. Sent(i - 1) \in Nat /\ Sent(i) \in Nat
      BY <1>4, <1>5
    <3>3. 0 + PartsEnd(doc, m, i) <= Len(d) /\ 0 \in Nat
      BY <2>1, <2>2, <3>2
    <3>4. ReadField(f.type, d, 0 + PartsEnd(doc, m, i - 1), 0 + PartsEnd(doc, m, i)) = m.values[f.name]
      <4>1. ReadField(f.type, d, 0 + PartsEnd(doc, m, i - 1), 0 + PartsEnd(doc, m, i))
              = IF IsVariable(f) THEN m.payload ELSE m.values[f.name]
        <5> HIDE DEF m
        <5>1. QED
          BY <1>2, <1>15, <3>3, FieldIsRead
      <4>2. QED
        BY <1>16, <4>1
    <3>5. 0 + PartsEnd(doc, m, i - 1) = Sent(i - 1) /\ 0 + PartsEnd(doc, m, i) = Sent(i)
      BY <3>2
    <3> HIDE DEF got, Sent
    <3>6. QED
      BY <3>1, <3>4, <3>5
  <2>3. QED
    BY <1>16, <2>1, <2>2
<1>17. CASE IsVariable(f)
  <2>1. name \in DOMAIN got <=> Sent(i - 1) <= len
    <3> HIDE DEF Sent, len, taken, got
    <3>1. QED
      BY <1>10, <1>12, <1>17
  <2>2. ASSUME name \in DOMAIN got PROVE IsPrefix(got[name], m.payload \o stream.noise)
    <3> DEFINE bytes == SubSeq(d, Sent(i - 1) + 1, len)
               want == m.payload \o stream.noise
    <3>1. got[name] = bytes
      <4>1. got[name] = ReadField(f.type, d, Sent(i - 1), len)
        <5> HIDE DEF got, Sent, End, len
        <5>1. QED
          BY <1>9, <1>13, <1>17, <2>2
      <4>2. ~(f.type \in {"u64", "i64"})
        BY <1>17 DEF IsVariable
      <4>3. QED
        BY <4>1, <4>2 DEF ReadField
    <3>2. Sent(i - 1) <= len /\ Sent(i - 1) \in Nat
      BY <1>4, <1>5, <2>1, <2>2
    <3>3. m.payload \in Seq(Byte) /\ stream.noise \in Seq(Byte) /\ all \in Seq(Byte)
      <4>1. m.payload \in Seq(Byte) /\ stream.noise \in Seq(Byte)
        BY <1>2 DEF Follows, IsPeer
      <4>2. all \in Seq(Byte)
        BY WiresType
      <4>3. QED
        BY <4>1, <4>2
    <3>4. /\ wire \in Seq(Byte) /\ Len(wire) = Sent(i - 1) + Len(m.payload)
          /\ Holds(wire, Sent(i - 1), m.payload)
      <4>1. i = n
        BY <1>1, <1>3, <1>5, <1>17
      <4> HIDE DEF m
      <4>2. wire \in Seq(Byte)
        BY <1>2, <1>17, <4>1, PayloadIsLast
      <4>3. Len(wire) = Sent(i - 1) + Len(m.payload)
        BY <1>2, <1>17, <4>1, PayloadIsLast
      <4>4. Holds(wire, Sent(i - 1), m.payload)
        BY <1>2, <1>17, <4>1, PayloadIsLast
      <4>5. QED
        BY <4>2, <4>3, <4>4
    <3>5. len <= Len(all) /\ \A p \in 1 .. len : d[p] = all[p]
      OBVIOUS
    <3>6. IsPrefix(SubSeq(d, Sent(i - 1) + 1, Len(d)), want)
      <4> DEFINE from == Sent(i - 1)
                 payload == m.payload
      <4>1. /\ payload \in Seq(Byte) /\ from \in Nat /\ from <= Len(d)
            /\ wire \in Seq(Byte) /\ Len(wire) = from + Len(payload)
            /\ Holds(wire, from, payload)
        BY <3>2, <3>3, <3>4
      <4> HIDE DEF wire, Sent, m, all, from, payload
      <4>2. IsPrefix(SubSeq(d, from + 1, Len(d)), payload \o stream.noise)
        BY <1>14, <3>3, <3>5, <4>1, RestOfPayload
      <4>3. QED
        BY <4>2 DEF from, payload
    <3>7. QED
      BY <3>1, <3>6
  <2>3. QED
    BY <1>17, <2>1, <2>2
<1>18. QED
  BY <1>16, <1>17

(* Decode returns one message of what it was given of a datagram.          *)
OfDatagram ==
  (IsDatagram(schema) /\ data # <<>>) =>
    messages = IF done THEN <<DatagramMessage(schema, data)>> ELSE <<>>

(* No other step is taken of a datagram.                                   *)
LEMMA NextOfDatagram ==
  ASSUME OfDatagram, [Next]_vars
  PROVE  OfDatagram'
<1> SUFFICES ASSUME IsDatagram(schema)', (data # <<>>)'
             PROVE  messages' = IF done' THEN <<DatagramMessage(schema', data')>> ELSE <<>>
  BY DEF OfDatagram
<1>1. UNCHANGED <<schema, data>>
  BY DEF Next, vars, DecodeMessage, StopAtPartial, Finish, DecodeDatagram, DecodeNothing
<1>2. IsDatagram(schema) /\ data # <<>>
  BY <1>1
<1>3. ~LengthFramed(schema)
  BY <1>2 DEF LengthFramed, IsDatagram
<1>4. CASE DecodeDatagram
  <2>1. messages' = <<DatagramMessage(schema, data)>> /\ done' = TRUE
    BY <1>4 DEF DecodeDatagram
  <2>2. QED
    BY <1>1, <2>1
<1>5. CASE UNCHANGED vars
  <2>1. messages' = messages /\ done' = done
    BY <1>5 DEF vars
  <2>2. messages = IF done THEN <<DatagramMessage(schema, data)>> ELSE <<>>
    BY <1>2 DEF OfDatagram
  <2>3. QED
    BY <1>1, <2>1, <2>2
<1>6. ~DecodeMessage /\ ~StopAtPartial /\ ~Finish /\ ~DecodeNothing
  BY <1>2, <1>3 DEF DecodeMessage, StopAtPartial, Finish, DecodeNothing
<1>7. QED
  BY <1>4, <1>5, <1>6 DEF Next

(* Half a datagram: wherever the capture truncates it, every fixed field   *)
(* that is whole has the value sent, none after the first missing byte     *)
(* appears, and a variable one holds the beginning of its payload.         *)
THEOREM DatagramFields == Spec => []DatagramFieldsAgree
<1>1. ASSUME Shape, OfDatagram PROVE DatagramFieldsAgree
  <2> SUFFICES ASSUME Supported(document), DatagramPeer, done, data # <<>>
               PROVE  LET m      == sent[1]
                          got    == messages[1]
                          fields == document.message
                          end(i) == Len(FlattenSeq([j \in 1 .. i |-> WireField(document, fields[j], m)]))
                      IN  /\ Len(messages) = 1
                          /\ \A i \in DOMAIN fields :
                               LET f == fields[i]
                               IN  IF IsVariable(f)
                                     THEN /\ f.name \in DOMAIN got <=> end(i - 1) <= Len(data)
                                          /\ f.name \in DOMAIN got => IsPrefix(got[f.name], m.payload \o noise)
                                     ELSE /\ f.name \in DOMAIN got <=> end(i) <= Len(data)
                                          /\ f.name \in DOMAIN got => got[f.name] = m.values[f.name]
    BY DEF DatagramFieldsAgree, DatagramRoundTrip
  <2> DEFINE m == sent[1]
             got == messages[1]
             decoded == DatagramMessage(LoadFromYaml(document), data)
             fields == document.message
  <2>1. /\ IsPeer(Given) /\ schema = LoadFromYaml(document)
        /\ Given.document = document /\ Given.sent = sent /\ Given.noise = noise
    BY <1>1 DEF Shape, DataOK, Given
  <2>2. IsDatagram(LoadFromYaml(document))
    BY DEF IsDatagram, LoadFromYaml, DatagramPeer
  <2>3. messages = <<decoded>>
    <3>1. messages = <<DatagramMessage(schema, data)>>
      BY <1>1, <2>1, <2>2 DEF OfDatagram
    <3>2. QED
      BY <2>1, <3>1
  <2>4. Len(messages) = 1 /\ got = decoded
    <3> HIDE DEF decoded
    <3>1. QED
      BY <2>3
  <2>5. /\ data \in Seq(Byte) /\ Len(data) <= Len(WireOf(Given))
        /\ \A p \in 1 .. Len(data) : data[p] = WireOf(Given)[p]
    BY <1>1, Typed DEF Shape
  <2>6. DOMAIN fields = 1 .. Len(fields)
    <3>1. DOMAIN fields = 1 .. Len(fields)
      BY <2>1 DEF IsPeer
    <3>2. QED
      BY <3>1
  <2>7. ASSUME NEW i \in DOMAIN fields
        PROVE  LET f == fields[i]
               IN  IF IsVariable(f)
                     THEN /\ f.name \in DOMAIN got <=> PartsEnd(document, m, i - 1) <= Len(data)
                          /\ f.name \in DOMAIN got => IsPrefix(got[f.name], m.payload \o noise)
                     ELSE /\ f.name \in DOMAIN got <=> PartsEnd(document, m, i) <= Len(data)
                          /\ f.name \in DOMAIN got => got[f.name] = m.values[f.name]
    <3>1. i \in 1 .. Len(Given.document.message)
      BY <2>1, <2>6
    <3>2. Supported(Given.document) /\ IsDatagram(LoadFromYaml(Given.document))
      BY <2>1, <2>2
    <3>3. LET doc == Given.document
              all == DatagramMessage(LoadFromYaml(doc), data)
              first == Given.sent[1]
              f   == doc.message[i]
          IN  IF IsVariable(f)
                THEN /\ f.name \in DOMAIN all <=> PartsEnd(doc, first, i - 1) <= Len(data)
                     /\ f.name \in DOMAIN all => IsPrefix(all[f.name], first.payload \o Given.noise)
                ELSE /\ f.name \in DOMAIN all <=> PartsEnd(doc, first, i) <= Len(data)
                     /\ f.name \in DOMAIN all => all[f.name] = first.values[f.name]
      BY <2>1, <2>5, <3>1, <3>2, DatagramIsDecoded
    <3> HIDE DEF got
    <3>4. QED
      BY <2>1, <2>4, <3>3
  <2>8. QED
    BY <2>4, <2>7 DEF PartsEnd
<1>2. Init => Shape /\ OfDatagram
  <2>1. Init => messages = <<>> /\ done = FALSE
    BY DEF Init
  <2>2. QED
    BY <2>1, InitShape DEF OfDatagram
<1>3. Shape /\ OfDatagram /\ [Next]_vars => (Shape /\ OfDatagram)'
  BY NextShape, NextOfDatagram
<1>4. QED
  BY <1>1, <1>2, <1>3, PTL DEF Spec

-----------------------------------------------------------------------------
(* A slice of a sequence stays when more is appended.                      *)
LEMMA SliceStays ==
  ASSUME NEW E, NEW d \in Seq(E), NEW more \in Seq(E),
         NEW from \in 0 .. Len(d), NEW to \in from .. Len(d)
  PROVE  SubSeq(d \o more, from + 1, to) = SubSeq(d, from + 1, to)
<1> DEFINE longer == d \o more
           a == SubSeq(longer, from + 1, to)
           b == SubSeq(d, from + 1, to)
<1>1. /\ longer \in Seq(E) /\ Len(longer) = Len(d) + Len(more)
      /\ \A p \in 1 .. Len(d) : longer[p] = d[p]
  BY Concatenation
<1>2. Len(d) \in Nat /\ Len(more) \in Nat
  OBVIOUS
<1> HIDE DEF longer
<1>3. from \in 0 .. Len(longer) /\ to \in from .. Len(longer)
  BY <1>1, <1>2
<1>4. /\ a \in Seq(E) /\ Len(a) = to - from
      /\ \A p \in 1 .. to - from : a[p] = longer[from + p]
  BY <1>1, <1>3, Slice
<1>5. /\ b \in Seq(E) /\ Len(b) = to - from
      /\ \A p \in 1 .. to - from : b[p] = d[from + p]
  BY Slice
<1>6. \A p \in 1 .. to - from : from + p \in 1 .. Len(d)
  BY <1>2
<1>7. \A p \in 1 .. Len(a) : a[p] = b[p]
  BY <1>1, <1>4, <1>5, <1>6
<1> HIDE DEF a, b
<1>8. a = b
  BY <1>4, <1>5, <1>7, EqualElements
<1>9. QED
  BY <1>8 DEF a, b, longer

(* The fields that may declare the length lie in the header.               *)
LengthInHeader(s) ==
  \A i \in 1 .. Len(s.fields) :
    s.fields[i].name = s.framing.length_field /\ s.fields[i].type = "u16"
      => FrameEnd(s, i, 0, 0) <= s.framing.header_len

(* A length that is in the data stays what it is.                          *)
LEMMA LengthStays ==
  ASSUME NEW s, s.fields \in Seq(Field), s.framing.header_len \in Nat, LengthInHeader(s),
         NEW d \in Seq(Byte), NEW more \in Seq(Byte), NEW start \in Nat,
         start + s.framing.header_len <= Len(d)
  PROVE  PayloadLen(s, d \o more, start) = PayloadLen(s, d, start)
<1> DEFINE n == Len(s.fields)
           longer == d \o more
           Names(i) == s.fields[i].name = s.framing.length_field /\ s.fields[i].type = "u16"
           hits == {i \in 1 .. n : /\ FrameEnd(s, i, start, 0) <= Len(d)
                                   /\ s.fields[i].name = s.framing.length_field
                                   /\ s.fields[i].type = "u16"}
           more_hits == {i \in 1 .. n : /\ FrameEnd(s, i, start, 0) <= Len(longer)
                                        /\ s.fields[i].name = s.framing.length_field
                                        /\ s.fields[i].type = "u16"}
           last == Max(hits)
           end  == FrameEnd(s, last, start, 0)
<1>1. Len(longer) = Len(d) + Len(more) /\ Len(d) \in Nat /\ Len(more) \in Nat /\ n \in Nat
  BY Concatenation
<1>2. ASSUME NEW i \in 1 .. n, Names(i)
      PROVE  FrameEnd(s, i, start, 0) <= Len(d) /\ FrameEnd(s, i, start, 0) <= Len(longer)
  <2>1. i \in 0 .. n /\ 0 \in Nat
    BY <1>1
  <2>2. FrameEnd(s, i, start, 0) = start + FrameEnd(s, i, 0, 0)
    BY <2>1, FrameEndMoves, Zenon
  <2>3. FrameEnd(s, i, 0, 0) \in Nat
    BY <2>1, FrameEndSteps, Zenon
  <2>4. FrameEnd(s, i, 0, 0) <= s.framing.header_len
    BY <1>2 DEF LengthInHeader
  <2> DEFINE e == FrameEnd(s, i, 0, 0)
  <2> HIDE DEF longer, e
  <2>5. start + e <= Len(d) /\ start + e <= Len(longer)
    BY <1>1, <2>3, <2>4 DEF e
  <2>6. QED
    BY <2>2, <2>5 DEF e
<1>3. more_hits = hits
  BY <1>2
<1>4. PayloadLen(s, d, start) = IF hits = {} THEN 0 ELSE U16(SubSeq(d, end - 1, end))
  BY DEF PayloadLen
<1>5. PayloadLen(s, longer, start) = IF hits = {} THEN 0 ELSE U16(SubSeq(longer, end - 1, end))
  <2>1. PayloadLen(s, longer, start) =
          IF more_hits = {} THEN 0
          ELSE U16(SubSeq(longer, FrameEnd(s, Max(more_hits), start, 0) - 1,
                                  FrameEnd(s, Max(more_hits), start, 0)))
    BY DEF PayloadLen
  <2> HIDE DEF hits, more_hits
  <2>2. QED
    BY <1>3, <2>1
<1>6. CASE hits = {}
  BY <1>4, <1>5, <1>6
<1>7. CASE hits # {}
  <2>1. last \in hits
    <3>1. hits \subseteq 1 .. n
      OBVIOUS
    <3> HIDE DEF hits
    <3>2. QED
      BY <1>1, <1>7, <3>1, MaxIn
  <2>2. last \in 1 .. n /\ FrameEnd(s, last, start, 0) <= Len(d) /\ s.fields[last].type = "u16"
    <3> HIDE DEF last
    <3>1. QED
      BY <2>1
  <2> HIDE DEF last, hits
  <2>3. /\ FrameEnd(s, last - 1, start, 0) \in Nat
        /\ end = FrameEnd(s, last - 1, start, 0) + Width(s, last, 0)
    <3>1. 0 \in Nat /\ last - 1 \in 0 .. Len(s.fields) /\ last \in 1 .. Len(s.fields)
      BY <2>2
    <3> HIDE DEF longer, n, Names, more_hits
    <3>2. FrameEnd(s, last - 1, start, 0) \in Nat
      BY <3>1, FrameEndSteps, Zenon
    <3>3. FrameEnd(s, last, start, 0) = FrameEnd(s, last - 1, start, 0) + Width(s, last, 0)
      BY <3>1, FrameEndSteps, Zenon
    <3>4. QED
      BY <3>2, <3>3
  <2>4. Width(s, last, 0) = 2
    BY <2>2 DEF Width, IsVariable, FieldTypeSize
  <2>5. end - 2 \in 0 .. Len(d) /\ end \in end - 2 .. Len(d) /\ (end - 2) + 1 = end - 1
    <3> HIDE DEF end
    <3>1. end <= Len(d)
      BY <2>2 DEF end
    <3>2. QED
      BY <1>1, <2>3, <2>4, <3>1
  <2> HIDE DEF end
  <2>6. SubSeq(longer, (end - 2) + 1, end) = SubSeq(d, (end - 2) + 1, end)
    BY <2>5, SliceStays
  <2>7. SubSeq(longer, end - 1, end) = SubSeq(d, end - 1, end)
    BY <2>5, <2>6
  <2> HIDE DEF longer
  <2>8. PayloadLen(s, longer, start) = PayloadLen(s, d, start)
    BY <1>4, <1>5, <1>7, <2>7
  <2>9. QED
    BY <2>8 DEF longer
<1>8. QED
  BY <1>6, <1>7

(* A message that is whole stays the message it is, whatever the stream    *)
(* goes on with, so that the loop of Decode takes it and moves to the same *)
(* offset behind it.                                                       *)
LEMMA MoreBytesSameMessage ==
  ASSUME NEW s, s.fields \in Seq(Field), s.framing.header_len \in Nat, LengthInHeader(s),
         NEW d \in Seq(Byte), NEW more \in Seq(Byte), NEW start \in Nat, FrameFits(s, d, start)
  PROVE  /\ FrameFits(s, d \o more, start)
         /\ PayloadLen(s, d \o more, start) = PayloadLen(s, d, start)
         /\ FrameMessage(s, d \o more, start) = FrameMessage(s, d, start)
<1> DEFINE n == Len(s.fields)
           longer == d \o more
           size == PayloadLen(s, d, start)
           End(i) == FrameEnd(s, i, start, size)
           limit == start + MsgSize(s, size)
           taken == {i \in 1 .. n : End(i) <= limit}
           names == {s.fields[i].name : i \in taken}
           last(name) == Max({j \in taken : s.fields[j].name = name})
           Value(name, bytes) ==
             ReadField(s.fields[last(name)].type, bytes,
                       IF last(name) = 1 THEN start ELSE End(last(name) - 1), End(last(name)))
<1>1. PayloadLen(s, longer, start) = size
  <2>1. start + s.framing.header_len <= Len(d)
    BY DEF FrameFits
  <2>2. QED
    BY <2>1, LengthStays
<1>2. size \in Nat /\ n \in Nat
  BY PayloadLenType
<1>3. Len(longer) = Len(d) + Len(more) /\ Len(d) \in Nat /\ Len(more) \in Nat
  BY Concatenation
<1>4. MsgSize(s, size) \in Nat /\ limit \in Nat
  <2> HIDE DEF size
  <2>1. MsgSize(s, size) \in Nat
    BY <1>2 DEF MsgSize
  <2>2. QED
    BY <2>1
<1>5. limit <= Len(d) /\ start + s.framing.header_len <= Len(d)
  BY DEF FrameFits
<1>6. FrameFits(s, longer, start)
  <2> HIDE DEF longer, size
  <2>1. limit <= Len(longer) /\ start + s.framing.header_len <= Len(longer)
    <3> HIDE DEF limit
    <3>1. QED
      BY <1>3, <1>4, <1>5
  <2>2. QED
    BY <1>1, <2>1 DEF FrameFits
<1>7. ASSUME NEW name \in names PROVE Value(name, longer) = Value(name, d)
  <2> DEFINE same == {j \in taken : s.fields[j].name = name}
             i == Max(same)
             from == IF i = 1 THEN start ELSE End(i - 1)
  <2>1. i \in same
    <3>1. same \subseteq 1 .. n /\ same # {}
      OBVIOUS
    <3> HIDE DEF same, n
    <3>2. QED
      BY <1>2, <3>1, MaxIn
  <2>2. i \in 1 .. n /\ End(i) <= limit
    <3> HIDE DEF i
    <3>1. QED
      BY <2>1
  <2> HIDE DEF size, i, same
  <2>3. /\ End(0) = start /\ End(i - 1) \in Nat /\ End(i) \in Nat
        /\ End(0) <= End(i - 1) /\ End(i - 1) <= End(i)
    <3>1. /\ 0 \in 0 .. n /\ i - 1 \in 0 .. n /\ i \in 0 .. n
          /\ i \in i - 1 .. n
      BY <1>2, <2>2
    <3>2. End(0) = start /\ End(i - 1) \in Nat /\ End(i) \in Nat
      BY <1>2, <3>1, FrameEndSteps, Zenon
    <3>3. End(0) <= End(i - 1)
      BY <1>2, <3>1, FrameEndGrows, Zenon
    <3>4. End(i - 1) <= End(i)
      BY <1>2, <3>1, FrameEndGrows, Zenon
    <3>5. QED
      BY <3>2, <3>3, <3>4
  <2>4. from \in 0 .. Len(d) /\ End(i) \in from .. Len(d)
    <3>1. i = 1 => End(i - 1) = start
      BY <2>3
    <3> HIDE DEF End, limit
    <3>2. QED
      BY <1>3, <1>4, <1>5, <2>2, <2>3, <3>1
  <2>5. SubSeq(longer, from + 1, End(i)) = SubSeq(d, from + 1, End(i))
    <3> HIDE DEF from, End
    <3>1. QED
      BY <2>4, SliceStays
  <2>6. ReadField(s.fields[i].type, longer, from, End(i)) = ReadField(s.fields[i].type, d, from, End(i))
    BY <2>5 DEF ReadField
  <2>7. QED
    BY <2>6 DEF i, same
<1>8. FrameMessage(s, d, start) = [name \in names |-> Value(name, d)]
  BY DEF FrameMessage, MessageOf
<1>9. FrameMessage(s, longer, start) = [name \in names |-> Value(name, longer)]
  <2>1. FrameMessage(s, longer, start) =
          LET payload_len == PayloadLen(s, longer, start)
              E(i) == FrameEnd(s, i, start, payload_len)
              t == {i \in 1 .. Len(s.fields) : E(i) <= start + MsgSize(s, payload_len)}
          IN  MessageOf(s, longer, start, t, E)
    BY DEF FrameMessage
  <2>2. FrameMessage(s, longer, start) = MessageOf(s, longer, start, taken, End)
    BY <1>1, <2>1
  <2>3. QED
    BY <2>2 DEF MessageOf
<1> HIDE DEF names, Value
<1>10. FrameMessage(s, longer, start) = FrameMessage(s, d, start)
  BY <1>7, <1>8, <1>9
<1>11. QED
  BY <1>1, <1>6, <1>10

-----------------------------------------------------------------------------
(* A turn of the loop can be taken at an offset, and where it leads.       *)
CanTurn(s, d, at) == at < Len(d) /\ FrameFits(s, d, at)

TurnsTo(s, d, at) == at + MsgSize(s, PayloadLen(s, d, at))

(* The loop has made these messages of the data, one at each offset.       *)
IsRun(s, d, offsets, made) ==
  /\ made \in Seq(Message)
  /\ offsets \in [0 .. Len(made) -> 0 .. Len(d)]
  /\ offsets[0] = 0
  /\ \A k \in 1 .. Len(made) :
       /\ CanTurn(s, d, offsets[k - 1])
       /\ made[k] = FrameMessage(s, d, offsets[k - 1])
       /\ offsets[k] = TurnsTo(s, d, offsets[k - 1])

(* And there it ends.                                                      *)
Returns(s, d, made) ==
  \E offsets : IsRun(s, d, offsets, made) /\ ~CanTurn(s, d, offsets[Len(made)])

(* How far the loop has come.                                              *)
Running ==
  LengthFramed(schema) =>
    \E offsets : /\ IsRun(schema, data, offsets, messages)
                 /\ offsets[Len(messages)] = offset
                 /\ done => ~CanTurn(schema, data, offset)

(* At the start it has made nothing.                                       *)
LEMMA InitRunning == Init => Running
<1> SUFFICES ASSUME Init PROVE Running
  OBVIOUS
<1>1. offset = 0 /\ messages = <<>> /\ ~done
  BY DEF Init
<1>2. Len(data) \in Nat
  BY InitShape, Typed DEF Shape
<1> DEFINE offsets == [k \in 0 .. 0 |-> 0]
<1>3. /\ messages \in Seq(Message) /\ Len(messages) = 0
      /\ offsets \in [0 .. 0 -> 0 .. Len(data)] /\ offsets[0] = 0
  BY <1>1, <1>2
<1> HIDE DEF offsets
<1>4. IsRun(schema, data, offsets, messages)
  BY <1>3 DEF IsRun
<1>5. QED
  BY <1>1, <1>3, <1>4 DEF Running

(* A turn makes one message more, and the steps that return take none.     *)
LEMMA NextRunning ==
  ASSUME Shape, Running, [Next]_vars
  PROVE  Running'
<1>1. UNCHANGED <<schema, data>>
  BY DEF Next, vars, DecodeMessage, StopAtPartial, Finish, DecodeDatagram, DecodeNothing
<1> SUFFICES ASSUME LengthFramed(schema)
             PROVE  \E offsets : /\ IsRun(schema, data, offsets, messages')
                                 /\ offsets[Len(messages')] = offset'
                                 /\ done' => ~CanTurn(schema, data, offset')
  BY <1>1 DEF Running, LengthFramed
<1>2. PICK offsets : /\ IsRun(schema, data, offsets, messages)
                     /\ offsets[Len(messages)] = offset
                     /\ done => ~CanTurn(schema, data, offset)
  BY DEF Running
<1>3. /\ data \in Seq(Byte) /\ schema.fields \in Seq(Field) /\ schema.framing.header_len \in Nat
      /\ offset \in 0 .. Len(data) /\ messages \in Seq(Message) /\ Len(data) \in Nat
  BY Typed DEF Shape
<1>4. CASE DecodeMessage
  <2> DEFINE n == Len(messages)
             m == FrameMessage(schema, data, offset)
             to == TurnsTo(schema, data, offset)
             longer == [k \in 0 .. n + 1 |-> IF k = n + 1 THEN to ELSE offsets[k]]
  <2>1. /\ CanTurn(schema, data, offset) /\ messages' = Append(messages, m) /\ offset' = to
        /\ ~done' /\ FrameFits(schema, data, offset)
    BY <1>4 DEF DecodeMessage, CanTurn, TurnsTo
  <2>2. m \in Message /\ to \in 0 .. Len(data)
    BY <1>3, <2>1, FrameMessageType DEF TurnsTo
  <2> HIDE DEF m, to
  <2>3. /\ n \in Nat /\ messages' \in Seq(Message) /\ Len(messages') = n + 1
        /\ messages'[n + 1] = m /\ \A k \in 1 .. n : messages'[k] = messages[k]
    BY <1>3, <2>1, <2>2
  <2>4. /\ offsets \in [0 .. n -> 0 .. Len(data)] /\ offsets[0] = 0
        /\ \A k \in 1 .. n : /\ CanTurn(schema, data, offsets[k - 1])
                             /\ messages[k] = FrameMessage(schema, data, offsets[k - 1])
                             /\ offsets[k] = TurnsTo(schema, data, offsets[k - 1])
    BY <1>2 DEF IsRun
  <2> HIDE DEF n
  <2>5. /\ longer[n + 1] = to /\ \A k \in 0 .. n : longer[k] = offsets[k]
        /\ longer \in [0 .. n + 1 -> 0 .. Len(data)]
    BY <2>2, <2>3, <2>4
  <2> HIDE DEF longer
  <2>6. longer[0] = 0 /\ longer[n] = offset
    BY <1>2, <2>3, <2>4, <2>5 DEF n
  <2>7. ASSUME NEW k \in 1 .. n + 1
        PROVE  /\ CanTurn(schema, data, longer[k - 1])
               /\ messages'[k] = FrameMessage(schema, data, longer[k - 1])
               /\ longer[k] = TurnsTo(schema, data, longer[k - 1])
    <3>1. CASE k \in 1 .. n
      <4>1. k \in 0 .. n /\ k - 1 \in 0 .. n
        BY <2>3, <3>1
      <4>2. QED
        BY <2>3, <2>4, <2>5, <3>1, <4>1
    <3>2. CASE k = n + 1
      <4>1. k - 1 = n
        BY <2>3, <3>2
      <4>2. QED
        BY <2>1, <2>3, <2>5, <2>6, <3>2, <4>1 DEF m, to
    <3>3. QED
      BY <2>3, <3>1, <3>2
  <2>8. IsRun(schema, data, longer, messages')
    BY <2>3, <2>5, <2>6, <2>7 DEF IsRun
  <2>9. QED
    BY <2>1, <2>3, <2>5, <2>8
<1>5. CASE StopAtPartial \/ Finish
  <2>1. UNCHANGED <<offset, messages>> /\ ~CanTurn(schema, data, offset)
    <3>1. offset >= Len(data) => ~(offset < Len(data))
      BY <1>3
    <3>2. QED
      BY <1>5, <3>1 DEF StopAtPartial, Finish, CanTurn
  <2>2. QED
    BY <1>2, <2>1
<1>6. CASE UNCHANGED vars
  BY <1>2, <1>6 DEF vars
<1>7. ~DecodeDatagram /\ ~DecodeNothing
  BY DEF DecodeDatagram, DecodeNothing, LengthFramed, IsDatagram
<1>8. QED
  BY <1>4, <1>5, <1>6, <1>7 DEF Next

(* What Decode returns of a stream is what its bytes determine: the        *)
(* messages of consecutive turns from its first byte to where no whole     *)
(* message follows.                                                        *)
THEOREM DecodeReturns == Spec => [](LengthFramed(schema) /\ done => Returns(schema, data, messages))
<1>1. Running => (LengthFramed(schema) /\ done => Returns(schema, data, messages))
  BY DEF Running, Returns
<1>2. QED
  BY <1>1, InitShape, NextShape, InitRunning, NextRunning, PTL DEF Spec

(* What Decode returns of a stream begins with what it returns of any      *)
(* beginning of that stream: what a capture shows after a message, and     *)
(* what comes after a loss, does not change it.                            *)
THEOREM MoreBytesMoreMessages ==
  ASSUME NEW s, s.fields \in Seq(Field), s.framing.header_len \in Nat, LengthInHeader(s),
         NEW d \in Seq(Byte), NEW more \in Seq(Byte),
         NEW some, Returns(s, d, some), NEW all, Returns(s, d \o more, all)
  PROVE  Len(some) <= Len(all) /\ \A k \in 1 .. Len(some) : all[k] = some[k]
<1> DEFINE longer == d \o more
           n == Len(some)
           m == Len(all)
<1>1. PICK e : IsRun(s, d, e, some) /\ ~CanTurn(s, d, e[n])
  BY DEF Returns
<1>2. PICK f : IsRun(s, longer, f, all) /\ ~CanTurn(s, longer, f[m])
  BY DEF Returns
<1>3. /\ n \in Nat /\ e \in [0 .. n -> 0 .. Len(d)] /\ e[0] = 0
      /\ \A k \in 1 .. n : /\ CanTurn(s, d, e[k - 1]) /\ e[k] = TurnsTo(s, d, e[k - 1])
                           /\ some[k] = FrameMessage(s, d, e[k - 1])
  BY <1>1 DEF IsRun
<1>4. /\ m \in Nat /\ f[0] = 0
      /\ \A k \in 1 .. m : /\ CanTurn(s, longer, f[k - 1]) /\ f[k] = TurnsTo(s, longer, f[k - 1])
                           /\ all[k] = FrameMessage(s, longer, f[k - 1])
  <2> HIDE DEF longer
  <2>1. QED
    BY <1>2 DEF IsRun
<1>5. Len(longer) = Len(d) + Len(more) /\ Len(d) \in Nat /\ Len(more) \in Nat
  BY Concatenation
<1>6. ASSUME NEW at \in 0 .. Len(d), CanTurn(s, d, at)
      PROVE  /\ CanTurn(s, longer, at) /\ TurnsTo(s, longer, at) = TurnsTo(s, d, at)
             /\ FrameMessage(s, longer, at) = FrameMessage(s, d, at)
  <2>1. at \in Nat /\ FrameFits(s, d, at) /\ at < Len(d)
    BY <1>6 DEF CanTurn
  <2>2. /\ FrameFits(s, longer, at) /\ PayloadLen(s, longer, at) = PayloadLen(s, d, at)
        /\ FrameMessage(s, longer, at) = FrameMessage(s, d, at)
    BY <2>1, MoreBytesSameMessage
  <2>3. at < Len(longer)
    <3> HIDE DEF longer
    <3>1. QED
      BY <1>5, <2>1
  <2> HIDE DEF longer
  <2>4. QED
    BY <2>2, <2>3 DEF CanTurn, TurnsTo
<1> HIDE DEF longer, n, m
<1> DEFINE T == {k \in 0 .. n : k <= m /\ f[k] = e[k]}
<1>7. 0 \in T
  BY <1>3, <1>4
<1>8. ASSUME NEW k \in 1 .. n, k - 1 \in T PROVE k \in T /\ all[k] = some[k]
  <2>1. k - 1 \in 0 .. n /\ k - 1 <= m /\ f[k - 1] = e[k - 1] /\ e[k - 1] \in 0 .. Len(d)
    BY <1>3, <1>8
  <2>2. /\ CanTurn(s, longer, e[k - 1]) /\ TurnsTo(s, longer, e[k - 1]) = TurnsTo(s, d, e[k - 1])
        /\ FrameMessage(s, longer, e[k - 1]) = FrameMessage(s, d, e[k - 1])
    BY <1>3, <1>6, <2>1
  <2>3. k - 1 # m
    BY <1>2, <2>1, <2>2
  <2>4. k \in 1 .. m /\ k \in 0 .. n
    BY <1>3, <1>4, <2>1, <2>3
  <2>5. QED
    BY <1>3, <1>4, <2>1, <2>2, <2>4
<1>9. 0 .. n \subseteq T
  <2> HIDE DEF T
  <2>1. QED
    BY <1>3, <1>7, <1>8, RangeInduction
<1>10. n \in T /\ \A k \in 1 .. n : k - 1 \in T
  <2> HIDE DEF T
  <2>1. QED
    BY <1>3, <1>9
<1>11. QED
  BY <1>8, <1>10 DEF n, m

=============================================================================
