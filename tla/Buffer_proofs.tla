---------------------------- MODULE Buffer_proofs ----------------------------
(***************************************************************************)
(* Proofs about Buffer, for every number of objects and blocks, all sizes  *)
(* and every place where malloc may fail.                                  *)
(***************************************************************************)
EXTENDS Buffer, SharedLemmas

IInv == TypeOK /\ EveryBlockHasOneOwner

(* The heap h holds what every object but b owns, and nothing else.        *)
ApartFrom(b, h) ==
  /\ h \in [Blocks -> Seq(Byte) \cup {Free}]
  /\ \A block \in Blocks :
       h[block] # Free <=> \E c \in Names : c # b /\ Live(c) /\ object[c].data = block
  /\ \A c, d \in Names :
       (c # b /\ d # b /\ c # d /\ Live(c) /\ Live(d) /\ object[c].data = object[d].data)
         => object[c].data = Null
  /\ \A c \in Names :
       (c # b /\ Live(c) /\ object[c].data # Null) => Len(h[object[c].data]) = object[c].size

-----------------------------------------------------------------------------
(* What a constructor finds: b owns nothing.                               *)
LEMMA NotLiveApart ==
  ASSUME IInv, NEW b \in Names, ~Live(b)
  PROVE  ApartFrom(b, heap)
BY DEF IInv, TypeOK, EveryBlockHasOneOwner, ApartFrom, Live

(* What is left when the block of b is freed.                              *)
LEMMA FreedApart ==
  ASSUME IInv, NEW b \in Names, Live(b)
  PROVE  ApartFrom(b, Freed(object[b].data))
<1> DEFINE h == Freed(object[b].data)
<1>1. object[b].data \in Blocks \cup {Null}
  BY DEF IInv, TypeOK, Live
<1>2. /\ h \in [Blocks -> Seq(Byte) \cup {Free}]
      /\ \A block \in Blocks : h[block] = IF block = object[b].data THEN Free ELSE heap[block]
  BY DEF IInv, TypeOK, Freed
<1>3. \A c \in Names : (c # b /\ Live(c) /\ object[c].data # Null) =>
        /\ object[c].data \in Blocks
        /\ object[c].data # object[b].data
  BY DEF IInv, TypeOK, EveryBlockHasOneOwner, Live
<1>4. \A block \in Blocks :
        h[block] # Free <=> \E c \in Names : c # b /\ Live(c) /\ object[c].data = block
  <2> SUFFICES ASSUME NEW block \in Blocks
               PROVE  h[block] # Free <=> \E c \in Names : c # b /\ Live(c) /\ object[c].data = block
    OBVIOUS
  <2>1. block # Null
    BY BufferAssumption
  <2>2. CASE block = object[b].data
    BY <1>2, <1>3, <2>1, <2>2
  <2>3. CASE block # object[b].data
    BY <1>2, <2>3 DEF IInv, EveryBlockHasOneOwner
  <2>4. QED
    BY <2>2, <2>3
<1>5. \A c \in Names :
        (c # b /\ Live(c) /\ object[c].data # Null) => Len(h[object[c].data]) = object[c].size
  BY <1>2, <1>3 DEF IInv, EveryBlockHasOneOwner
<1>6. QED
  BY <1>2, <1>4, <1>5 DEF ApartFrom, IInv, EveryBlockHasOneOwner

(* Whether malloc finds a block or not, afterwards b owns what it got.     *)
LEMMA AllocateOwned ==
  ASSUME IInv, NEW b \in Names, NEW h, ApartFrom(b, h),
         NEW cells \in Seq(Byte), Allocate(h, b, cells)
  PROVE  IInv'
<1>1. fate' \in {"alive", "null", "stray"}
  BY DEF IInv, TypeOK, Allocate
<1>2. Len(cells) \in Nat /\ cells # Free
  BY BufferAssumption DEF Byte
<1>3. CASE /\ object' = [object EXCEPT ![b] = [data |-> Null, size |-> Len(cells)]]
           /\ heap' = h
  <2>1. /\ object'[b] = [data |-> Null, size |-> Len(cells)]
        /\ \A c \in Names : c # b => object'[c] = object[c]
    BY <1>3 DEF IInv, TypeOK
  <2>2. TypeOK'
    BY <1>1, <1>2, <1>3 DEF IInv, TypeOK, ApartFrom
  <2>3. EveryBlockHasOneOwner'
    BY <1>3, <2>1, BufferAssumption DEF EveryBlockHasOneOwner, ApartFrom, Live
  <2>4. QED
    BY <2>2, <2>3 DEF IInv
<1>4. ASSUME NEW block \in Blocks, h[block] = Free,
             object' = [object EXCEPT ![b] = [data |-> block, size |-> Len(cells)]],
             heap' = [h EXCEPT ![block] = cells]
      PROVE  IInv'
  <2>1. /\ object'[b] = [data |-> block, size |-> Len(cells)]
        /\ \A c \in Names : c # b => object'[c] = object[c]
    BY <1>4 DEF IInv, TypeOK
  <2>2. /\ heap'[block] = cells
        /\ \A other \in Blocks : other # block => heap'[other] = h[other]
    BY <1>4 DEF ApartFrom
  <2>3. \A c \in Names : (c # b /\ Live(c)) => object[c].data # block
    BY <1>4 DEF ApartFrom
  <2>4. TypeOK'
    BY <1>1, <1>2, <1>4 DEF IInv, TypeOK, ApartFrom
  <2>5. Live(b)'
    BY <1>2, <2>1, BufferAssumption DEF Live
  <2>6. \A other \in Blocks :
          heap'[other] # Free <=> \E c \in Names : Live(c)' /\ object'[c].data = other
    BY <1>2, <2>1, <2>2, <2>3, <2>5 DEF ApartFrom, Live
  <2>7. \A c, d \in Names :
          (Live(c)' /\ Live(d)' /\ c # d /\ object'[c].data = object'[d].data)
            => object'[c].data = Null
    BY <2>1, <2>3 DEF ApartFrom, Live
  <2>8. \A c \in Names :
          (Live(c)' /\ object'[c].data # Null) => Len(heap'[object'[c].data]) = object'[c].size
    BY <2>1, <2>2, <2>3 DEF ApartFrom, Live, IInv, TypeOK
  <2>9. QED
    BY <2>4, <2>6, <2>7, <2>8 DEF IInv, EveryBlockHasOneOwner
<1>5. QED
  BY <1>3, <1>4 DEF Allocate

(* b takes the block of another object, which is left empty.               *)
LEMMA TakeOwned ==
  ASSUME IInv, NEW b \in Names, NEW other \in Names, b # other, Live(other),
         ApartFrom(b, heap'),
         object' = [object EXCEPT ![b] = object[other], ![other] = Emptied],
         UNCHANGED fate
  PROVE  IInv'
<1>1. /\ object'[b] = object[other]
      /\ object'[other] = Emptied
      /\ \A c \in Names : c \notin {b, other} => object'[c] = object[c]
  BY DEF IInv, TypeOK
<1>2. TypeOK'
  BY DEF IInv, TypeOK, ApartFrom, Emptied
<1>3. /\ object'[other].data = Null
      /\ object[other] # None
      /\ object'[other] # None
  BY <1>1, BufferAssumption DEF Emptied, Live
<1>4. \A block \in Blocks :
        heap'[block] # Free <=> \E c \in Names : Live(c)' /\ object'[c].data = block
  <2> SUFFICES ASSUME NEW block \in Blocks
               PROVE  (\E c \in Names : c # b /\ object[c] # None /\ object[c].data = block)
                        <=> \E c \in Names : object'[c] # None /\ object'[c].data = block
    BY DEF ApartFrom, Live
  <2>1. block # Null
    BY BufferAssumption
  <2>2. ASSUME NEW c \in Names, c # b, object[c] # None, object[c].data = block
        PROVE  \E d \in Names : object'[d] # None /\ object'[d].data = block
    <3>1. CASE c = other
      BY <1>1, <1>3, <2>2, <3>1
    <3>2. CASE c # other
      BY <1>1, <2>2, <3>2
    <3>3. QED
      BY <3>1, <3>2
  <2>3. ASSUME NEW c \in Names, object'[c] # None, object'[c].data = block
        PROVE  \E d \in Names : d # b /\ object[d] # None /\ object[d].data = block
    <3>1. CASE c = b
      BY <1>1, <1>3, <2>3, <3>1
    <3>2. CASE c # b
      BY <1>1, <1>3, <2>1, <2>3, <3>2
    <3>3. QED
      BY <3>1, <3>2
  <2>4. QED
    BY <2>2, <2>3
<1>5. ASSUME NEW c \in Names, NEW d \in Names, c # d,
             object'[c] # None, object'[d] # None, object'[c].data = object'[d].data
      PROVE  object'[c].data = Null
  <2>1. \A e, f \in Names :
          (e # b /\ f # b /\ e # f /\ object[e] # None /\ object[f] # None
             /\ object[e].data = object[f].data) => object[e].data = Null
    BY DEF ApartFrom, Live
  <2>2. CASE c = other \/ d = other
    BY <1>3, <1>5, <2>2
  <2>3. CASE c # other /\ d # other /\ c = b
    <3>1. object'[c] = object[other] /\ object'[d] = object[d] /\ d # b
      BY <1>1, <1>5, <2>3
    <3>2. QED
      BY <1>3, <1>5, <2>1, <2>3, <3>1
  <2>4. CASE c # other /\ d # other /\ d = b
    <3>1. object'[d] = object[other] /\ object'[c] = object[c] /\ c # b
      BY <1>1, <1>5, <2>4
    <3>2. QED
      BY <1>3, <1>5, <2>1, <2>4, <3>1
  <2>5. CASE c \notin {b, other} /\ d \notin {b, other}
    BY <1>1, <1>5, <2>1, <2>5
  <2>6. QED
    BY <2>2, <2>3, <2>4, <2>5
<1>6. \A c \in Names :
        (Live(c)' /\ object'[c].data # Null) => Len(heap'[object'[c].data]) = object'[c].size
  <2> SUFFICES ASSUME NEW c \in Names, object'[c] # None, object'[c].data # Null
               PROVE  Len(heap'[object'[c].data]) = object'[c].size
    BY DEF Live
  <2>1. \A e \in Names : (e # b /\ object[e] # None /\ object[e].data # Null) =>
          Len(heap'[object[e].data]) = object[e].size
    BY DEF ApartFrom, Live
  <2>2. CASE c = b
    BY <1>1, <1>3, <2>1, <2>2
  <2>3. CASE c # b
    BY <1>1, <1>3, <2>1, <2>3
  <2>4. QED
    BY <2>2, <2>3
<1>7. QED
  BY <1>2, <1>4, <1>5, <1>6 DEF IInv, EveryBlockHasOneOwner, Live

-----------------------------------------------------------------------------
(* The bytes operations allocate are sequences of bytes.                   *)
LEMMA FilledType ==
  ASSUME NEW n \in Nat, NEW byte \in Byte
  PROVE  Filled(n, byte) \in Seq(Byte)
BY DEF Filled

LEMMA CellsType ==
  ASSUME IInv, NEW b \in Names, Live(b)
  PROVE  Cells(b) \in Seq(Byte)
<1>1. object[b].data \in Blocks \cup {Null} /\ object[b].size \in Nat
  BY DEF IInv, TypeOK, Live
<1>2. CASE object[b].data = Null
  BY <1>1, <1>2, FilledType DEF Cells, Byte
<1>3. CASE object[b].data # Null
  BY <1>1, <1>3 DEF Cells, IInv, TypeOK, EveryBlockHasOneOwner
<1>4. QED
  BY <1>2, <1>3

LEMMA CellsFromType ==
  ASSUME IInv, NEW b \in Names, Live(b), NEW offset, NEW length \in Nat
  PROVE  CellsFrom(b, offset, length) \in Seq(Byte)
<1>1. Cells(b) \in Seq(Byte)
  BY CellsType
<1>2. \A i \in DOMAIN Cells(b) : Cells(b)[i] \in Byte
  BY <1>1
<1>3. QED
  BY <1>2 DEF CellsFrom, Byte

(* Writing a byte leaves the block allocated and as long as it was.        *)
LEMMA WriteOwned ==
  ASSUME IInv, NEW b \in Names, Write(b)
  PROVE  IInv'
<1> DEFINE data == object[b].data
<1>1. PICK i \in 1 .. object[b].size, byte \in Bytes :
        heap' = [heap EXCEPT ![data][i] = byte]
  BY DEF Write
<1>2. data \in Blocks /\ heap[data] \in Seq(Byte) /\ Len(heap[data]) = object[b].size
  BY DEF Write, IInv, TypeOK, EveryBlockHasOneOwner, Live
<1>3. /\ [heap[data] EXCEPT ![i] = byte] \in Seq(Byte)
      /\ Len([heap[data] EXCEPT ![i] = byte]) = Len(heap[data])
  BY <1>1, <1>2 DEF Byte
<1>4. /\ heap'[data] \in Seq(Byte) /\ Len(heap'[data]) = Len(heap[data])
      /\ \A block \in Blocks : block # data => heap'[block] = heap[block]
      /\ heap' \in [Blocks -> Seq(Byte) \cup {Free}]
  BY <1>1, <1>2, <1>3 DEF IInv, TypeOK
<1>5. \A block \in Blocks : heap'[block] # Free <=> heap[block] # Free
  BY <1>2, <1>4, BufferAssumption DEF Byte
<1>6. object' = object /\ fate' = fate
  BY DEF Write
<1>7. QED
  BY <1>2, <1>4, <1>5, <1>6 DEF IInv, TypeOK, EveryBlockHasOneOwner, Live

(* Dying changes no memory.                                                *)
LEMMA DieOwned ==
  ASSUME IInv, NEW of \in {"null", "stray"}, Die(of)
  PROVE  IInv'
BY DEF Die, IInv, TypeOK, EveryBlockHasOneOwner, Live

(* IInv is inductive.                                                      *)
LEMMA Step ==
  ASSUME IInv, [Next]_vars
  PROVE  IInv'
<1>1. CASE UNCHANGED vars
  BY <1>1 DEF vars, IInv, TypeOK, EveryBlockHasOneOwner, Live
<1>2. ASSUME NEW b \in Names, ConstructEmpty(b)
      PROVE  IInv'
  <2>1. ApartFrom(b, heap) /\ heap' = heap /\ fate' = fate
    BY <1>2, NotLiveApart DEF ConstructEmpty
  <2>2. /\ object'[b] = [data |-> Null, size |-> 0]
        /\ \A c \in Names : c # b => object'[c] = object[c]
    BY <1>2 DEF ConstructEmpty, IInv, TypeOK
  <2>3. TypeOK'
    BY <1>2, <2>1 DEF ConstructEmpty, IInv, TypeOK
  <2>4. EveryBlockHasOneOwner'
    BY <2>1, <2>2, BufferAssumption DEF EveryBlockHasOneOwner, ApartFrom, Live
  <2>5. QED
    BY <2>3, <2>4 DEF IInv
<1>3. ASSUME NEW b \in Names, Construct(b)
      PROVE  IInv'
  <2>1. PICK cells \in Given :
          Allocate(heap, b, cells) \/ Allocate(heap, b, Filled(Len(cells), Garbage))
    BY <1>3 DEF Construct
  <2>2. cells \in Seq(Byte) /\ Filled(Len(cells), Garbage) \in Seq(Byte)
    <3>1. cells \in Seq(Bytes) /\ Len(cells) \in Nat
      BY BufferAssumption
    <3>2. cells \in Seq(Byte)
      BY <3>1 DEF Byte
    <3>3. QED
      BY <3>1, <3>2, FilledType DEF Byte
  <2>3. QED
    BY <1>3, <2>1, <2>2, NotLiveApart, AllocateOwned DEF Construct
<1>4. ASSUME NEW b \in Names, ConstructZeroed(b)
      PROVE  IInv'
  <2>1. PICK cells \in Given : Allocate(heap, b, Filled(Len(cells), 0))
    BY <1>4 DEF ConstructZeroed
  <2>2. Filled(Len(cells), 0) \in Seq(Byte)
    BY FilledType, BufferAssumption DEF Byte
  <2>3. QED
    BY <1>4, <2>1, <2>2, NotLiveApart, AllocateOwned DEF ConstructZeroed
<1>5. ASSUME NEW b \in Names, Destroy(b)
      PROVE  IInv'
  <2>1. ApartFrom(b, heap') /\ fate' = fate
    BY <1>5, FreedApart DEF Destroy
  <2>2. /\ object'[b] = None
        /\ \A c \in Names : c # b => object'[c] = object[c]
    BY <1>5 DEF Destroy, IInv, TypeOK
  <2>3. TypeOK'
    BY <1>5, <2>1 DEF Destroy, IInv, TypeOK, ApartFrom
  <2>4. EveryBlockHasOneOwner'
    BY <2>1, <2>2 DEF EveryBlockHasOneOwner, ApartFrom, Live
  <2>5. QED
    BY <2>3, <2>4 DEF IInv
<1>6. ASSUME NEW b \in Names, NEW other \in Names, CopyConstruct(b, other)
      PROVE  IInv'
  BY <1>6, CellsType, NotLiveApart, AllocateOwned DEF CopyConstruct, CopyInto
<1>7. ASSUME NEW b \in Names, NEW other \in Names, CopyAssign(b, other)
      PROVE  IInv'
  BY <1>7, CellsType, FreedApart, AllocateOwned DEF CopyAssign, CopyInto
<1>8. ASSUME NEW b \in Names, NEW other \in Names, MoveConstruct(b, other)
      PROVE  IInv'
  <2>1. b # other /\ heap' = heap
    BY <1>8 DEF MoveConstruct
  <2>2. ApartFrom(b, heap')
    BY <1>8, <2>1, NotLiveApart DEF MoveConstruct
  <2>3. QED
    BY <1>8, <2>1, <2>2, TakeOwned DEF MoveConstruct
<1>9. ASSUME NEW b \in Names, NEW other \in Names, MoveAssign(b, other)
      PROVE  IInv'
  BY <1>9, FreedApart, TakeOwned DEF MoveAssign
<1>10. ASSUME NEW b \in Names, NEW other \in Names, Slice(b, other)
       PROVE  IInv'
  <2>1. PICK offset \in Sizes, length \in Sizes :
          Allocate(heap, b, CellsFrom(other, offset, length))
    BY <1>10 DEF Slice
  <2>2. length \in Nat
    BY BufferAssumption DEF Sizes
  <2>3. QED
    BY <1>10, <2>1, <2>2, CellsFromType, NotLiveApart, AllocateOwned DEF Slice
<1>11. ASSUME NEW b \in Names, NEW other \in Names, 
              Touch(b) \/ ReadStray(b) \/ DieCopying(b, other) \/ DieSlicing(b, other)
       PROVE  IInv'
  BY <1>11, DieOwned DEF Touch, ReadStray, DieCopying, DieSlicing
<1>12. QED
  BY <1>1, <1>2, <1>3, <1>4, <1>5, <1>6, <1>7, <1>8, <1>9, <1>10, <1>11, WriteOwned DEF Next

(* Nothing is allocated in the beginning.                                  *)
LEMMA Initially == Init => IInv
BY DEF Init, IInv, TypeOK, EveryBlockHasOneOwner, Live

(* No block is ever lost, freed twice or shared, whatever the operations,  *)
(* their order and the failures of malloc.                                 *)
THEOREM Ownership == Spec => []EveryBlockHasOneOwner
<1>1. IInv => EveryBlockHasOneOwner
  BY DEF IInv
<1>2. QED
  BY <1>1, Initially, Step, PTL DEF Spec

(* Objects and blocks have their types.                                    *)
THEOREM TypeCorrect == Spec => []TypeOK
<1>1. IInv => TypeOK
  BY DEF IInv
<1>2. QED
  BY <1>1, Initially, Step, PTL DEF Spec

-----------------------------------------------------------------------------
(* No block is longer than malloc's longest.                               *)
BlocksFit == \A block \in Blocks : heap[block] # Free => Len(heap[block]) <= MaxBlock

LEMMA BlocksFitStep ==
  ASSUME IInv, BlocksFit, [Next]_vars
  PROVE  BlocksFit'
<1> SUFFICES ASSUME NEW block \in Blocks, heap'[block] # Free
             PROVE  Len(heap'[block]) <= MaxBlock
  BY DEF BlocksFit
<1>1. heap \in [Blocks -> Seq(Byte) \cup {Free}]
  BY DEF IInv, TypeOK
<1>2. CASE heap'[block] = heap[block]
  BY <1>2 DEF BlocksFit
<1>3. ASSUME NEW data PROVE Freed(data)[block] # Free => Freed(data)[block] = heap[block]
  BY DEF Freed
<1>4. ASSUME NEW b \in Names, NEW h, NEW cells, Allocate(h, b, cells),
             h = heap \/ \E data : h = Freed(data)
      PROVE  Len(heap'[block]) <= MaxBlock
  <2>1. h[block] # Free => Len(h[block]) <= MaxBlock
    BY <1>3, <1>4 DEF BlocksFit
  <2>2. h \in [Blocks -> Seq(Byte) \cup {Free}]
    BY <1>1, <1>4 DEF Freed
  <2>3. CASE heap' = h
    BY <2>1, <2>3
  <2>4. ASSUME NEW found \in Blocks, Len(cells) <= MaxBlock, heap' = [h EXCEPT ![found] = cells]
        PROVE  Len(heap'[block]) <= MaxBlock
    <3>1. heap'[block] = IF block = found THEN cells ELSE h[block]
      BY <2>2, <2>4
    <3>2. QED
      BY <2>1, <2>4, <3>1
  <2>5. QED
    BY <1>4, <2>3, <2>4 DEF Allocate
<1>5. ASSUME NEW b \in Names, Write(b) PROVE Len(heap'[block]) <= MaxBlock
  <2> DEFINE data == object[b].data
  <2>1. PICK i \in 1 .. object[b].size, byte \in Bytes : heap' = [heap EXCEPT ![data][i] = byte]
    BY <1>5 DEF Write
  <2>2. data \in Blocks /\ heap[data] \in Seq(Byte)
    BY <1>5 DEF Write, IInv, TypeOK, EveryBlockHasOneOwner, Live
  <2>3. CASE block = data
    <3>1. heap'[block] = [heap[block] EXCEPT ![i] = byte]
      BY <1>1, <2>1, <2>3
    <3>2. Len(heap'[block]) = Len(heap[block])
      BY <2>2, <2>3, <3>1
    <3>3. heap[block] # Free
      BY <2>2, <2>3, BufferAssumption DEF Byte
    <3>4. QED
      BY <3>2, <3>3 DEF BlocksFit
  <2>4. CASE block # data
    BY <1>1, <1>2, <2>1, <2>4
  <2>5. QED
    BY <2>3, <2>4
<1>6. ASSUME NEW data, heap' = Freed(data) PROVE Len(heap'[block]) <= MaxBlock
  BY <1>2, <1>3, <1>6
<1>7. ASSUME NEW b \in Names, ConstructEmpty(b) \/ Construct(b) \/ ConstructZeroed(b) \/ Destroy(b)
      PROVE  Len(heap'[block]) <= MaxBlock
  BY <1>2, <1>4, <1>6, <1>7 DEF ConstructEmpty, Construct, ConstructZeroed, Destroy
<1>8. ASSUME NEW b \in Names, NEW other \in Names,
             \/ CopyConstruct(b, other) \/ CopyAssign(b, other)
             \/ MoveConstruct(b, other) \/ MoveAssign(b, other) \/ Slice(b, other)
      PROVE  Len(heap'[block]) <= MaxBlock
  BY <1>2, <1>4, <1>6, <1>8 DEF CopyConstruct, CopyAssign, CopyInto, MoveConstruct, MoveAssign, Slice
<1>9. ASSUME NEW b \in Names, NEW other \in Names,
             Touch(b) \/ ReadStray(b) \/ DieCopying(b, other) \/ DieSlicing(b, other)
      PROVE  Len(heap'[block]) <= MaxBlock
  BY <1>2, <1>9 DEF Touch, ReadStray, DieCopying, DieSlicing, Die
<1>10. QED
  BY <1>2, <1>5, <1>7, <1>8, <1>9 DEF Next, vars

-----------------------------------------------------------------------------
(* What callers see of a live object.                                      *)
LEMMA SeenOf ==
  ASSUME IInv, NEW b \in Names, Live(b)
  PROVE  /\ object[b].data \in Blocks \cup {Null} /\ object[b].size \in Nat
         /\ Value[b] = [size |-> object[b].size, cells |-> IF Bare(b) THEN Lost ELSE Cells(b)]
         /\ Value[b] # None /\ Value[b].size = object[b].size
         /\ Bare(b) <=> Value[b].cells = Lost
         /\ ~Bare(b) => Value[b].cells = Cells(b)
         /\ Cells(b) \in Seq(Byte) /\ Len(Cells(b)) = object[b].size
<1>1. object[b].data \in Blocks \cup {Null} /\ object[b].size \in Nat
  BY DEF IInv, TypeOK, Live
<1>2. Value[b] = [size |-> object[b].size, cells |-> IF Bare(b) THEN Lost ELSE Cells(b)]
  BY DEF Value
<1>3. Cells(b) \in Seq(Byte)
  BY CellsType
<1>4. Len(Cells(b)) = object[b].size
  <2>1. CASE object[b].data = Null
    BY <1>1, <2>1 DEF Cells, Filled
  <2>2. CASE object[b].data # Null
    BY <2>2 DEF Cells, IInv, EveryBlockHasOneOwner
  <2>3. QED
    BY <2>1, <2>2
<1>5. Cells(b) # Lost
  BY <1>3, BufferAssumption DEF Byte
<1>6. Value[b] # None
  <2> DEFINE seen == IF Bare(b) THEN Lost ELSE Cells(b)
  <2>1. seen \in Seq(Byte) \cup {Lost}
    BY <1>3
  <2> HIDE DEF seen
  <2>2. [size |-> object[b].size, cells |-> seen] \in [size : Nat, cells : Seq(Byte) \cup {Lost}]
    BY <1>1, <2>1
  <2>3. Value[b] = [size |-> object[b].size, cells |-> seen]
    BY <1>2 DEF seen
  <2>4. QED
    BY <2>2, <2>3, BufferAssumption DEF Byte
<1>7. QED
  BY <1>1, <1>2, <1>3, <1>4, <1>5, <1>6

(* An object keeps its value when it and its block stay as they are.       *)
LEMMA ValueKept ==
  ASSUME IInv, NEW c \in Names, object'[c] = object[c],
         (Live(c) /\ object[c].data # Null) => heap'[object[c].data] = heap[object[c].data]
  PROVE  Value'[c] = Value[c]
<1>1. CASE ~Live(c)
  BY <1>1 DEF Value, Live
<1>2. CASE Live(c)
  <2>1. Live(c)' /\ (Bare(c)' <=> Bare(c)) /\ Cells(c)' = Cells(c)
    BY <1>2 DEF Live, Bare, Cells, Filled
  <2>2. QED
    BY <1>2, <2>1 DEF Value
<1>3. QED
  BY <1>1, <1>2

(* An operation that only gives b a new value is seen as that.             *)
LEMMA OnlyOneChanges ==
  ASSUME NEW b \in Names, \A c \in Names \ {b} : Value'[c] = Value[c]
  PROVE  Value' = [Value EXCEPT ![b] = Value'[b]]
<1>1. /\ Value = [c \in Names |-> Value[c]]
      /\ Value' = [c \in Names |-> Value'[c]]
  BY DEF Value
<1>2. QED
  BY <1>1

(* What is not b's is the same in this heap.                               *)
OthersKept(b, h) ==
  \A c \in Names : (c # b /\ Live(c) /\ object[c].data # Null) =>
    h[object[c].data] = heap[object[c].data]

(* Freeing the block of b changes nobody else's.                           *)
LEMMA FreedOthersKept ==
  ASSUME IInv, NEW b \in Names, Live(b)
  PROVE  OthersKept(b, Freed(object[b].data))
BY DEF OthersKept, Freed, IInv, TypeOK, EveryBlockHasOneOwner, Live

(* Whether malloc finds a block or not, b is seen to get the bytes, or     *)
(* their number and no bytes.                                              *)
LEMMA AllocateSeen ==
  ASSUME IInv, NEW b \in Names, NEW h, ApartFrom(b, h), OthersKept(b, h),
         NEW cells \in Seq(Byte), Allocate(h, b, cells)
  PROVE  /\ \/ Values!Become(b, Values!Whole(cells))
            \/ /\ object'[b].data = Null
               /\ Values!Become(b, Values!WithoutMemory(Len(cells)))
         /\ (object'[b].data = Null /\ Len(cells) > 0)
              => Values!Become(b, Values!WithoutMemory(Len(cells)))
         /\ object'[b].data # Null => Len(cells) <= MaxBlock
<1>1. IInv'
  BY AllocateOwned
<1>2. Len(cells) \in Nat /\ fate' = fate
  BY DEF Allocate
<1>3. CASE /\ object' = [object EXCEPT ![b] = [data |-> Null, size |-> Len(cells)]]
           /\ heap' = h
  <2>1. /\ object'[b] = [data |-> Null, size |-> Len(cells)]
        /\ \A c \in Names : c # b => object'[c] = object[c]
    BY <1>3 DEF IInv, TypeOK
  <2>2. \A c \in Names \ {b} : Value'[c] = Value[c]
    BY <1>3, <2>1, ValueKept DEF OthersKept
  <2>3. Live(b)' /\ object'[b].data = Null /\ object'[b].size = Len(cells)
    BY <1>2, <2>1, BufferAssumption DEF Live
  <2>4. Value'[b] = IF Len(cells) > 0 THEN [size |-> Len(cells), cells |-> Lost]
                                      ELSE [size |-> Len(cells), cells |-> Cells(b)']
    BY <2>3 DEF Value, Bare
  <2>5. Len(cells) = 0 => Cells(b)' = cells
    BY <2>3 DEF Cells, Filled
  <2>6. Value'[b] = Values!Whole(cells) \/ Value'[b] = Values!WithoutMemory(Len(cells))
    BY <1>2, <2>4, <2>5 DEF Values!Whole, Values!WithoutMemory
  <2>7. Value' = [Value EXCEPT ![b] = Value'[b]]
    BY <2>2, OnlyOneChanges
  <2>8. \/ Values!Become(b, Values!Whole(cells))
        \/ Values!Become(b, Values!WithoutMemory(Len(cells)))
    BY <1>2, <2>6, <2>7 DEF Values!Become
  <2>9. Len(cells) > 0 => Values!Become(b, Values!WithoutMemory(Len(cells)))
    BY <1>2, <2>4, <2>7 DEF Values!Become, Values!WithoutMemory
  <2>10. QED
    BY <2>3, <2>8, <2>9
<1>4. ASSUME NEW block \in Blocks, h[block] = Free, Len(cells) <= MaxBlock,
             object' = [object EXCEPT ![b] = [data |-> block, size |-> Len(cells)]],
             heap' = [h EXCEPT ![block] = cells]
      PROVE  Values!Become(b, Values!Whole(cells)) /\ object'[b].data # Null
  <2>1. /\ object'[b] = [data |-> block, size |-> Len(cells)]
        /\ \A c \in Names : c # b => object'[c] = object[c]
    BY <1>4 DEF IInv, TypeOK
  <2>2. /\ heap'[block] = cells
        /\ \A other \in Blocks : other # block => heap'[other] = h[other]
    BY <1>4 DEF ApartFrom
  <2>3. \A c \in Names : (c # b /\ Live(c) /\ object[c].data # Null) =>
          object[c].data \in Blocks /\ object[c].data # block
    BY <1>4 DEF ApartFrom, IInv, TypeOK, Live
  <2>4. \A c \in Names \ {b} : Value'[c] = Value[c]
    BY <2>1, <2>2, <2>3, ValueKept DEF OthersKept
  <2>5. Live(b)' /\ object'[b].data = block /\ object'[b].size = Len(cells) /\ block # Null
    BY <1>2, <2>1, BufferAssumption DEF Live
  <2>6. Cells(b)' = cells /\ ~Bare(b)'
    BY <2>2, <2>5 DEF Cells, Bare
  <2>7. Value'[b] = [size |-> Len(cells), cells |-> cells]
    BY <2>5, <2>6 DEF Value
  <2>8. QED
    BY <1>2, <2>4, <2>5, <2>7, OnlyOneChanges DEF Values!Become, Values!Whole
<1>5. object'[b].data # Null => Len(cells) <= MaxBlock
  <2>1. b \in DOMAIN object
    BY DEF IInv, TypeOK
  <2>2. QED
    BY <2>1 DEF Allocate
<1>6. QED
  BY <1>3, <1>4, <1>5 DEF Allocate

(* b takes the bytes of another object, which is left with none.           *)
LEMMA TakeSeen ==
  ASSUME IInv, NEW b \in Names, NEW other \in Names, b # other, Live(other), OthersKept(b, heap'),
         object' = [object EXCEPT ![b] = object[other], ![other] = Emptied],
         UNCHANGED fate
  PROVE  Values!Move(b, other)
<1>1. /\ object'[b] = object[other]
      /\ object'[other] = Emptied
      /\ \A c \in Names \ {b, other} : object'[c] = object[c]
  BY DEF IInv, TypeOK
<1>2. \A c \in Names \ {b, other} : Value'[c] = Value[c]
  BY <1>1, ValueKept DEF OthersKept
<1>3. Value'[b] = Value[other]
  <2>1. Live(b)' /\ (Bare(b)' <=> Bare(other)) /\ Cells(b)' = Cells(other)
    BY <1>1 DEF Live, Bare, Cells, Filled, OthersKept
  <2>2. QED
    BY <1>1, <2>1 DEF Value
<1>4. Value'[other] = Values!Whole(<<>>)
  <2>1. Live(other)' /\ object'[other].data = Null /\ object'[other].size = 0
    BY <1>1, BufferAssumption DEF Live, Emptied
  <2>2. ~Bare(other)' /\ Cells(other)' = <<>>
    <3>1. ~Bare(other)'
      BY <2>1 DEF Bare
    <3>2. Cells(other)' = [k \in 1 .. 0 |-> Garbage]
      BY <2>1 DEF Cells, Filled
    <3>3. [k \in 1 .. 0 |-> Garbage] = <<>>
      OBVIOUS
    <3>4. QED
      BY <3>1, <3>2, <3>3, Zenon
  <2>3. Value'[other] = [size |-> 0, cells |-> <<>>]
    BY <2>1, <2>2 DEF Value
  <2>4. QED
    BY <2>3 DEF Values!Whole
<1>5. Value' = [Value EXCEPT ![b] = Value[other], ![other] = Values!Whole(<<>>)]
  <2>1. Value = [c \in Names |-> Value[c]] /\ Value' = [c \in Names |-> Value'[c]]
    BY DEF Value
  <2>2. QED
    BY <1>2, <1>3, <1>4, <2>1
<1>6. Values!Live(other)
  BY SeenOf DEF Values!Live
<1>7. QED
  BY <1>5, <1>6 DEF Values!Move

(* A copy is seen to have the value of its source, or its size and no      *)
(* bytes.                                                                  *)
LEMMA CopySeen ==
  ASSUME IInv, NEW b \in Names, NEW other \in Names, b # other, Live(other),
         NEW h, ApartFrom(b, h), OthersKept(b, h), CopyInto(h, b, other)
  PROVE  Values!Copy(b, other)
<1> DEFINE cells == Cells(other)
<1>1. /\ cells \in Seq(Byte) /\ Len(cells) = object[other].size
      /\ object[other].size \in Nat
      /\ Value[other] # None /\ Value[other].size = object[other].size
      /\ Value[other] = [size |-> object[other].size, cells |-> IF Bare(other) THEN Lost ELSE cells]
  BY SeenOf
<1> HIDE DEF cells
<1>2. /\ \/ Values!Become(b, Values!Whole(cells))
         \/ Values!Become(b, Values!WithoutMemory(Len(cells)))
      /\ (object'[b].data = Null /\ Len(cells) > 0)
           => Values!Become(b, Values!WithoutMemory(Len(cells)))
  BY <1>1, AllocateSeen DEF CopyInto, cells
<1>3. CASE Bare(other)
  <2>1. object'[b].data = Null /\ Len(cells) > 0
    BY <1>1, <1>3 DEF CopyInto, Bare
  <2>2. Values!Become(b, Values!WithoutMemory(Len(cells)))
    BY <1>2, <2>1
  <2>3. QED
    BY <1>1, <2>2 DEF Values!Copy, Values!Live
<1>4. CASE ~Bare(other)
  <2>1. Values!Whole(cells) = Value[other]
    BY <1>1, <1>4 DEF Values!Whole
  <2>2. QED
    BY <1>1, <1>2, <2>1 DEF Values!Copy, Values!Live
<1>5. QED
  BY <1>3, <1>4

(* A slice is seen to have the bytes it should, unless the end it was      *)
(* given is no size: then it has none, or first one from before the block, *)
(* which is short enough for that.                                         *)
LEMMA SliceSeen ==
  ASSUME IInv, BlocksFit, NEW b \in Names, NEW other \in Names, Slice(b, other)
  PROVE  Values!Slice(b, other) \/ Values!StraySlice(b)
<1>1. PICK offset \in Sizes, length \in Sizes :
        /\ ~Throws(other, offset, length)
        /\ Allocate(heap, b, CellsFrom(other, offset, length))
  BY DEF Slice
<1> DEFINE n == object[other].size
           cells == CellsFrom(other, offset, length)
<1>2. /\ ~Live(b) /\ Live(other) /\ offset \in Nat /\ length \in Nat
      /\ offset < SizeSpace /\ length < SizeSpace /\ SizeSpace \in Nat \ {0} /\ MaxBlock \in Nat
  BY BufferAssumption DEF Slice, Sizes
<1>3. /\ Cells(other) \in Seq(Byte) /\ Len(Cells(other)) = n /\ n \in Nat
      /\ Value[other] # None /\ Value[other].size = n
      /\ Bare(other) <=> Value[other].cells = Lost
      /\ ~Bare(other) => Value[other].cells = Cells(other)
      /\ object[other].data \in Blocks \cup {Null}
  BY <1>2, SeenOf
<1>4. /\ cells \in Seq(Byte) /\ Len(cells) = length
      /\ cells = [k \in 1 .. length |-> IF (offset + k) % SizeSpace \in 1 .. n
                                          THEN Cells(other)[(offset + k) % SizeSpace] ELSE Garbage]
  <2>1. cells \in Seq(Byte)
    BY <1>2, CellsFromType
  <2>2. DOMAIN Cells(other) = 1 .. n
    BY <1>3
  <2>3. QED
    BY <1>2, <2>1, <2>2 DEF CellsFrom
<1>5. ApartFrom(b, heap) /\ OthersKept(b, heap)
  BY <1>2, NotLiveApart DEF OthersKept
<1> HIDE DEF cells
<1>6. /\ \/ Values!Become(b, Values!Whole(cells))
         \/ Values!Become(b, Values!WithoutMemory(length))
      /\ (object'[b].data = Null /\ length > 0) => Values!Become(b, Values!WithoutMemory(length))
      /\ object'[b].data # Null => length <= MaxBlock
  <2>1. Allocate(heap, b, cells)
    BY <1>1 DEF cells
  <2>2. QED
    BY <1>4, <1>5, <2>1, AllocateSeen
<1> HIDE DEF n
<1>7. Bare(other) => cells = [k \in 1 .. length |-> Garbage]
  <2>1. Bare(other) => \A i \in 1 .. n : Cells(other)[i] = Garbage
    BY DEF Bare, Cells, Filled, n
  <2>2. QED
    BY <1>4, <2>1
<1>8. Values!Live(other) /\ ~Values!Live(b)
  BY <1>2, <1>3 DEF Values!Live, Value
<1>9. CASE offset + length < SizeSpace
  <2>1. offset + length <= n
    <3>1. (offset + length) % SizeSpace = offset + length
      BY <1>2, <1>9, SmallRemainder
    <3>2. QED
      BY <1>1, <1>2, <1>3, <3>1 DEF Throws, n
  <2>2. offset \in 0 .. n /\ length \in 0 .. n - offset
    BY <1>2, <1>3, <2>1
  <2>3. ~Bare(other) => cells = SubSeq(Cells(other), offset + 1, offset + length)
    <3>1. ASSUME NEW k \in 1 .. length
          PROVE  (offset + k) % SizeSpace = offset + k /\ offset + k \in 1 .. n
      <4>1. offset + k \in 0 .. (SizeSpace - 1)
        BY <1>2, <1>9
      <4>2. (offset + k) % SizeSpace = offset + k
        BY <1>2, <4>1, SmallRemainder
      <4>3. offset + k \in 1 .. n
        BY <1>2, <1>3, <2>1
      <4>4. QED
        BY <4>2, <4>3
    <3>2. cells = [k \in 1 .. length |-> Cells(other)[offset + k]]
      BY <1>4, <3>1
    <3>3. SubSeq(Cells(other), offset + 1, offset + length)
            = [k \in 1 .. length |-> Cells(other)[offset + k]]
      BY <1>2, <1>3, <2>1
    <3>4. QED
      BY <3>2, <3>3
  <2>4. Values!Slice(b, other)
    BY <1>3, <1>6, <1>7, <1>8, <2>2, <2>3 DEF Values!Slice
  <2>5. QED
    BY <2>4
<1>10. CASE ~(offset + length < SizeSpace)
  <2>1. length > 0
    BY <1>2, <1>10
  <2>2. ASSUME NEW v, Values!Become(b, v), v # None,
               v.cells = Lost \/ (v.cells # <<>> /\ Head(v.cells) = Garbage)
        PROVE  Values!StraySlice(b)
    <3>1. Value' = [Value EXCEPT ![b] = v] /\ fate' = fate
      BY <2>2 DEF Values!Become
    <3>2. Value'[b] = v
      BY <3>1 DEF Value
    <3>3. QED
      BY <1>8, <2>2, <3>1, <3>2 DEF Values!StraySlice
  <2>3. CASE object'[b].data = Null
    <3> DEFINE v == Values!WithoutMemory(length)
    <3>1. v = [size |-> length, cells |-> Lost]
      BY DEF Values!WithoutMemory
    <3>2. v # None
      BY <1>2, <3>1, BufferAssumption
    <3>3. v.cells = Lost
      BY <3>1
    <3> HIDE DEF v
    <3>4. QED
      BY <1>6, <2>1, <2>2, <2>3, <3>2, <3>3 DEF v
  <2>4. CASE object'[b].data # Null
    <3>1. cells[1] = Garbage
      <4>1. CASE Bare(other)
        BY <1>2, <1>7, <2>1, <4>1
      <4>2. CASE ~Bare(other)
        <5>1. n <= MaxBlock
          BY <1>2, <1>3, <4>2, BufferAssumption DEF Bare, BlocksFit, IInv, EveryBlockHasOneOwner, n
        <5>2. offset + 1 > n /\ offset + 1 <= SizeSpace
          BY <1>2, <1>3, <1>6, <1>10, <2>4, <5>1, BufferAssumption
        <5>3. (offset + 1) % SizeSpace \notin 1 .. n
          <6>1. CASE offset + 1 < SizeSpace
            <7>1. (offset + 1) % SizeSpace = offset + 1
              BY <1>2, <6>1, SmallRemainder
            <7>2. QED
              BY <1>2, <1>3, <5>2, <7>1
          <6>2. CASE offset + 1 = SizeSpace
            <7>1. (offset + 1) % SizeSpace = 0
              BY <1>2, <6>2, RemainderUnique
            <7>2. QED
              BY <7>1
          <6>3. QED
            BY <1>2, <5>2, <6>1, <6>2
        <5>4. QED
          BY <1>2, <1>4, <2>1, <5>3
      <4>3. QED
        BY <4>1, <4>2
    <3>2. Values!Become(b, Values!WithoutMemory(length)) => Values!StraySlice(b)
      <4> DEFINE v == Values!WithoutMemory(length)
      <4>1. v = [size |-> length, cells |-> Lost]
        BY DEF Values!WithoutMemory
      <4>2. v # None
        BY <1>2, <4>1, BufferAssumption
      <4> HIDE DEF v
      <4>3. QED
        BY <2>2, <4>1, <4>2 DEF v
    <3>3. Values!Become(b, Values!Whole(cells)) => Values!StraySlice(b)
      <4> DEFINE v == Values!Whole(cells)
      <4>1. v = [size |-> length, cells |-> cells]
        BY <1>4 DEF Values!Whole
      <4>2. v # None
        BY <1>2, <1>4, <4>1, BufferAssumption DEF Byte
      <4>3. cells # <<>> /\ Head(cells) = Garbage
        <5>1. cells \in Seq(Byte) /\ Len(cells) > 0
          BY <1>4, <2>1
        <5>2. cells # <<>> /\ Head(cells) = cells[1]
          BY <5>1
        <5>3. QED
          BY <3>1, <5>2
      <4> HIDE DEF v
      <4>4. QED
        BY <2>2, <4>1, <4>2, <4>3 DEF v
    <3>4. QED
      BY <1>6, <3>2, <3>3
  <2>5. QED
    BY <2>3, <2>4
<1>11. QED
  BY <1>9, <1>10

(* Writing is seen in the buffer that is written to, and nowhere else.     *)
LEMMA WriteSeen ==
  ASSUME IInv, NEW b \in Names, Write(b)
  PROVE  Values!Write(b)
<1> DEFINE data == object[b].data
<1>1. PICK i \in 1 .. object[b].size, byte \in Bytes :
        heap' = [heap EXCEPT ![data][i] = byte]
  BY DEF Write
<1>2. /\ Live(b) /\ data \in Blocks /\ data # Null /\ object' = object /\ fate' = fate
      /\ heap \in [Blocks -> Seq(Byte) \cup {Free}]
  BY DEF Write, IInv, TypeOK, Live
<1>3. ~Bare(b) /\ Cells(b) = heap[data]
  BY <1>2 DEF Bare, Cells
<1>4. /\ Value[b] # None /\ Value[b].size = object[b].size /\ Value[b].cells # Lost
      /\ Value[b] = [size |-> object[b].size, cells |-> heap[data]]
  BY <1>2, <1>3, SeenOf
<1>5. /\ heap'[data] = [heap[data] EXCEPT ![i] = byte]
      /\ \A block \in Blocks : block # data => heap'[block] = heap[block]
  BY <1>1, <1>2
<1>6. \A c \in Names \ {b} : Value'[c] = Value[c]
  <2>1. ASSUME NEW c \in Names \ {b}, Live(c), object[c].data # Null
        PROVE  object[c].data \in Blocks /\ object[c].data # data
    BY <1>2, <2>1 DEF IInv, TypeOK, EveryBlockHasOneOwner, Live
  <2>2. QED
    BY <1>2, <1>5, <2>1, ValueKept
<1>7. Value'[b] = [size |-> object[b].size, cells |-> heap'[data]]
  <2>1. Live(b)' /\ ~Bare(b)' /\ Cells(b)' = heap'[data]
    BY <1>2 DEF Live, Bare, Cells
  <2>2. QED
    BY <1>2, <2>1 DEF Value
<1> HIDE DEF data
<1>8. Value' = [Value EXCEPT ![b].cells[i] = byte]
  <2> DEFINE written == [heap[data] EXCEPT ![i] = byte]
  <2>1. [Value[b] EXCEPT !.cells = written] = [size |-> object[b].size, cells |-> written]
    <3> HIDE DEF written
    <3>1. QED
      BY <1>4
  <2>2. Value[b].cells = heap[data]
    BY <1>4
  <2>3. Value'[b] = [Value[b] EXCEPT !.cells = [Value[b].cells EXCEPT ![i] = byte]]
    BY <1>5, <1>7, <2>1, <2>2
  <2>4. Value' = [Value EXCEPT ![b] = Value'[b]]
    BY <1>6, OnlyOneChanges
  <2>5. QED
    BY <2>3, <2>4
<1>9. QED
  BY <1>1, <1>2, <1>4, <1>8 DEF Values!Write, Values!Live

(* What the process dies of, its callers could know.                       *)
LEMMA DieSeen ==
  ASSUME IInv, NEW b \in Names, NEW other \in Names,
         Touch(b) \/ ReadStray(b) \/ DieCopying(b, other) \/ DieSlicing(b, other)
  PROVE  Values!DieOfNull \/ Values!DieOfStray
<1>1. ASSUME NEW of, Die(of) PROVE fate' = of /\ UNCHANGED Value
  <2>1. UNCHANGED <<object, heap>> /\ fate' = of
    BY <1>1 DEF Die
  <2>2. QED
    BY <2>1 DEF Value, Live, Bare, Cells, Filled
<1>2. ASSUME NEW c \in Names, Live(c), Bare(c), Die("null") PROVE Values!DieOfNull
  <2>1. Value[c] # None /\ Value[c].cells = Lost
    BY <1>2, SeenOf
  <2>2. QED
    BY <1>1, <1>2, <2>1 DEF Values!DieOfNull, Values!Live
<1>3. ASSUME Die("stray") PROVE Values!DieOfStray
  BY <1>1, <1>3 DEF Values!DieOfStray
<1>4. CASE Touch(b)
  BY <1>2, <1>4 DEF Touch
<1>5. CASE ReadStray(b)
  BY <1>3, <1>5 DEF ReadStray
<1>6. CASE DieCopying(b, other)
  BY <1>2, <1>6 DEF DieCopying
<1>7. CASE DieSlicing(b, other)
  <2>1. PICK offset \in Sizes \ {0}, length \in 1 .. MaxBlock :
          /\ ~Throws(other, offset, length)
          /\ \/ Wraps(offset, length) /\ Die("stray")
             \/ ~Wraps(offset, length) /\ object[other].data = Null /\ Die("null")
    BY <1>7 DEF DieSlicing
  <2>2. CASE Die("stray")
    BY <1>3, <2>2
  <2>3. CASE ~Wraps(offset, length) /\ object[other].data = Null /\ Die("null")
    <3>1. /\ offset \in Nat /\ length \in Nat /\ length > 0 /\ offset + length \in 0 .. (SizeSpace - 1)
          /\ SizeSpace \in Nat \ {0}
      BY <2>3, BufferAssumption DEF Wraps, Sizes
    <3>2. (offset + length) % SizeSpace = offset + length
      BY <3>1, SmallRemainder
    <3>3. Live(other) /\ object[other].size \in Nat
      BY <1>7 DEF DieSlicing, IInv, TypeOK, Live
    <3>4. Bare(other)
      BY <2>1, <2>3, <3>1, <3>2, <3>3 DEF Throws, Bare
    <3>5. QED
      BY <1>2, <2>3, <3>3, <3>4
  <2>4. QED
    BY <2>1, <2>2, <2>3
<1>8. QED
  BY <1>4, <1>5, <1>6, <1>7

(* The other constructors, and the destructor.                             *)
LEMMA MakeSeen ==
  ASSUME IInv, NEW b \in Names, ConstructEmpty(b) \/ Construct(b) \/ ConstructZeroed(b)
  PROVE  Values!Make(b)
<1>1. ~Live(b) /\ ~Values!Live(b)
  BY DEF ConstructEmpty, Construct, ConstructZeroed, Values!Live, Value
<1>2. ApartFrom(b, heap) /\ OthersKept(b, heap)
  BY <1>1, NotLiveApart DEF OthersKept
<1>3. CASE ConstructEmpty(b)
  <2>1. /\ object'[b] = [data |-> Null, size |-> 0] /\ heap' = heap /\ fate' = fate
        /\ \A c \in Names \ {b} : object'[c] = object[c]
    BY <1>3 DEF ConstructEmpty, IInv, TypeOK
  <2>2. \A c \in Names \ {b} : Value'[c] = Value[c]
    BY <2>1, ValueKept
  <2>3. Live(b)' /\ object'[b].data = Null /\ object'[b].size = 0
    BY <2>1, BufferAssumption DEF Live
  <2>4. Value'[b] = [size |-> 0, cells |-> <<>>]
    <3>1. ~Bare(b)'
      BY <2>3 DEF Bare
    <3>2. Cells(b)' = [k \in 1 .. 0 |-> Garbage]
      BY <2>3 DEF Cells, Filled
    <3>3. [k \in 1 .. 0 |-> Garbage] = <<>>
      OBVIOUS
    <3>4. QED
      BY <2>3, <3>1, <3>2, <3>3 DEF Value
  <2>5. Value'[b] = Values!Whole(<<>>)
    BY <2>4 DEF Values!Whole
  <2>6. Values!Become(b, Values!Whole(<<>>))
    BY <2>1, <2>2, <2>5, OnlyOneChanges DEF Values!Become
  <2>7. QED
    BY <1>1, <2>6 DEF Values!Make
<1>4. ASSUME NEW cells \in Given
      PROVE  /\ cells \in Seq(Byte) /\ Len(cells) \in Nat
             /\ \A byte \in Byte : /\ Filled(Len(cells), byte) \in Seq(Byte)
                                   /\ Len(Filled(Len(cells), byte)) = Len(cells)
  <2>1. cells \in Seq(Bytes) /\ Len(cells) \in Nat
    BY BufferAssumption
  <2>2. cells \in Seq(Byte)
    BY <2>1 DEF Byte
  <2>3. QED
    BY <2>1, <2>2, FilledType DEF Filled
<1>5. ASSUME NEW cells \in Given, Allocate(heap, b, cells) PROVE Values!Make(b)
  BY <1>1, <1>2, <1>4, <1>5, AllocateSeen DEF Values!Make
<1>6. ASSUME NEW cells \in Given, NEW byte \in {0, Garbage},
             Allocate(heap, b, Filled(Len(cells), byte))
      PROVE  Values!Make(b)
  <2>1. byte \in Byte
    BY BufferAssumption DEF Byte
  <2>2. \/ Values!Become(b, Values!Whole(Filled(Len(cells), byte)))
        \/ Values!Become(b, Values!WithoutMemory(Len(cells)))
    BY <1>2, <1>4, <1>6, <2>1, AllocateSeen
  <2>3. QED
    BY <1>1, <2>2 DEF Values!Make, Filled
<1>7. QED
  BY <1>3, <1>5, <1>6 DEF Construct, ConstructZeroed

LEMMA DestroySeen ==
  ASSUME IInv, NEW b \in Names, Destroy(b)
  PROVE  Values!Destroy(b)
<1>1. /\ Live(b) /\ heap' = Freed(object[b].data) /\ fate' = fate
      /\ object'[b] = None /\ \A c \in Names \ {b} : object'[c] = object[c]
  BY DEF Destroy, IInv, TypeOK
<1>2. \A c \in Names \ {b} : Value'[c] = Value[c]
  BY <1>1, FreedOthersKept, ValueKept DEF OthersKept
<1>3. Value'[b] = None
  BY <1>1 DEF Value, Live
<1>4. QED
  BY <1>1, <1>2, <1>3, OnlyOneChanges, SeenOf DEF Values!Destroy, Values!Become, Values!Live

(* To its callers a buffer is a value: whatever blocks the heap gives or   *)
(* refuses, an operation on one buffer is seen in that one, and in the one *)
(* it is moved from, and in no other.                                      *)
THEOREM Refinement == Spec => ImplementsBufferValues
<1>1. Init => Values!Init
  BY DEF Init, Values!Init, Value, Live
<1>2. Init => BlocksFit
  BY DEF Init, BlocksFit
<1>3. IInv /\ BlocksFit /\ [Next]_vars => [Values!Next]_Values!vars
  <2>1. SUFFICES ASSUME IInv, BlocksFit, [Next]_vars
                 PROVE  [Values!Next]_Values!vars
    OBVIOUS
  <2>2. CASE UNCHANGED vars
    BY <2>2 DEF vars, Values!vars, Value, Live, Bare, Cells, Filled
  <2>3. CASE Next
    <3>1. fate = "alive"
      BY <2>3 DEF Next
    <3>2. ASSUME NEW b \in Names,
                 \/ ConstructEmpty(b) \/ Construct(b) \/ ConstructZeroed(b) \/ Destroy(b)
                 \/ Write(b)
          PROVE  Values!Next
      BY <2>1, <3>1, <3>2, MakeSeen, DestroySeen, WriteSeen DEF Values!Next
    <3>3. ASSUME NEW b \in Names, NEW other \in Names, CopyConstruct(b, other) \/ CopyAssign(b, other)
          PROVE  Values!Copy(b, other)
      <4>1. CASE CopyConstruct(b, other)
        BY <2>1, <4>1, NotLiveApart, CopySeen DEF CopyConstruct, OthersKept
      <4>2. CASE CopyAssign(b, other)
        BY <2>1, <4>2, FreedApart, FreedOthersKept, CopySeen DEF CopyAssign
      <4>3. QED
        BY <3>3, <4>1, <4>2
    <3>4. ASSUME NEW b \in Names, NEW other \in Names, MoveConstruct(b, other) \/ MoveAssign(b, other)
          PROVE  Values!Move(b, other)
      <4>1. CASE MoveConstruct(b, other)
        <5>1. b # other /\ OthersKept(b, heap')
          BY <4>1 DEF MoveConstruct, OthersKept
        <5>2. QED
          BY <2>1, <4>1, <5>1, TakeSeen DEF MoveConstruct
      <4>2. CASE MoveAssign(b, other)
        BY <2>1, <4>2, FreedOthersKept, TakeSeen DEF MoveAssign
      <4>3. QED
        BY <3>4, <4>1, <4>2
    <3>5. ASSUME NEW b \in Names, NEW other \in Names, Slice(b, other)
          PROVE  Values!Next
      BY <2>1, <3>1, <3>5, SliceSeen DEF Values!Next
    <3>6. ASSUME NEW b \in Names, NEW other \in Names,
                 Touch(b) \/ ReadStray(b) \/ DieCopying(b, other) \/ DieSlicing(b, other)
          PROVE  Values!Next
      BY <2>1, <3>1, <3>6, DieSeen DEF Values!Next
    <3>7. QED
      BY <2>3, <3>1, <3>2, <3>3, <3>4, <3>5, <3>6 DEF Next, Values!Next
  <2>4. QED
    BY <2>1, <2>2, <2>3
<1>4. QED
  BY <1>1, <1>2, <1>3, Initially, Step, BlocksFitStep, PTL
     DEF Spec, Values!Spec, ImplementsBufferValues

=============================================================================
