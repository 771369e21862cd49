------------------------------- MODULE Buffer --------------------------------
(***************************************************************************)
(* The Buffer class over the heap: objects with a pointer and a size, and  *)
(* the blocks malloc gives and free takes back.  malloc may fail for any   *)
(* size; nothing in the class looks at that but to skip the copying.  An   *)
(* exception leaves everything as it was, and is not a step.               *)
(***************************************************************************)
EXTENDS Naturals, Sequences

CONSTANTS
  Names,       \* places for Buffer objects
  Blocks,      \* addresses of the heap
  Given,       \* sequences of bytes the callers have
  Bytes,       \* bytes callers write
  SizeSpace,   \* size_t counts modulo this
  MaxBlock,    \* bound: malloc has no block of more bytes (PTRDIFF_MAX)
  Garbage,     \* a byte nobody wrote
  Null,        \* nullptr
  Free,        \* a block that is not allocated
  Lost,        \* the bytes of a buffer that has none
  None         \* no object

ASSUME BufferAssumption ==
  /\ SizeSpace \in Nat \ {0} /\ MaxBlock \in Nat /\ 2 * MaxBlock < SizeSpace
  /\ Null \notin Blocks
  /\ 0 \in Bytes /\ Garbage \notin Bytes
  /\ \A cells \in Given : cells \in Seq(Bytes) /\ Len(cells) < SizeSpace
  /\ Free \notin Seq(Bytes \cup {Garbage}) /\ Lost \notin Seq(Bytes \cup {Garbage})
  /\ None \notin [data : Blocks \cup {Null}, size : Nat]
  /\ None \notin [size : Nat, cells : Seq(Bytes \cup {Garbage}) \cup {Lost}]

VARIABLES
  object,      \* of each place: None, or data_ and size_
  heap,        \* of each block: its bytes, or Free
  fate         \* "alive", or what the process died of: "null" or "stray"

vars == <<object, heap, fate>>

Init ==
  /\ object = [b \in Names |-> None]
  /\ heap = [block \in Blocks |-> Free]
  /\ fate = "alive"

Live(b) == object[b] # None

Sizes == 0 .. SizeSpace - 1

(* free: of nullptr it does nothing.                                       *)
Freed(data) == [block \in Blocks |-> IF block = data THEN Free ELSE heap[block]]

(* b is given these bytes in a block of the heap h; or there is none to be *)
(* had, and b has their number and no bytes.                               *)
Allocate(h, b, cells) ==
  /\ \/ \E block \in Blocks :
          /\ h[block] = Free /\ Len(cells) <= MaxBlock
          /\ object' = [object EXCEPT ![b] = [data |-> block, size |-> Len(cells)]]
          /\ heap' = [h EXCEPT ![block] = cells]
     \/ /\ object' = [object EXCEPT ![b] = [data |-> Null, size |-> Len(cells)]]
        /\ heap' = h
  /\ UNCHANGED fate

Filled(n, byte) == [k \in 1 .. n |-> byte]

Die(of) == fate' = of /\ UNCHANGED <<object, heap>>

-----------------------------------------------------------------------------
ConstructEmpty(b) ==
  /\ ~Live(b)
  /\ object' = [object EXCEPT ![b] = [data |-> Null, size |-> 0]]
  /\ UNCHANGED <<heap, fate>>

(* From data, or from nullptr and a size: then the bytes stay as malloc    *)
(* left them.                                                              *)
Construct(b) ==
  /\ ~Live(b)
  /\ \E cells \in Given :
       Allocate(heap, b, cells) \/ Allocate(heap, b, Filled(Len(cells), Garbage))

ConstructZeroed(b) ==
  /\ ~Live(b)
  /\ \E cells \in Given : Allocate(heap, b, Filled(Len(cells), 0))

Destroy(b) ==
  /\ Live(b)
  /\ heap' = Freed(object[b].data)
  /\ object' = [object EXCEPT ![b] = None]
  /\ UNCHANGED fate

(* The bytes an object has: behind a null pointer, nobody's.               *)
Cells(b) ==
  IF object[b].data = Null THEN Filled(object[b].size, Garbage) ELSE heap[object[b].data]

Bare(b) == object[b].data = Null /\ object[b].size > 0

(* The object at b becomes a copy: h is the heap it finds.  Copying from   *)
(* nullptr ends the process, if there is memory to copy to.                *)
CopyInto(h, b, other) ==
  /\ Allocate(h, b, Cells(other))
  /\ Bare(other) => object'[b].data = Null

CopyConstruct(b, other) == ~Live(b) /\ Live(other) /\ CopyInto(heap, b, other)

(* Mutant: an object assigned to itself is freed before it is copied.      *)
CopyAssign_NoSelfCheck(b, other) ==
  /\ Live(b) /\ Live(other)
  /\ IF b = other
       THEN Allocate(Freed(object[b].data), b, Filled(object[b].size, Garbage))
       ELSE CopyInto(Freed(object[b].data), b, other)

(* The old bytes go first, and their block may be the new one.             *)
CopyAssign(b, other) ==
  /\ Live(b) /\ Live(other) /\ b # other
  /\ CopyInto(Freed(object[b].data), b, other)

DieCopying(b, other) ==
  /\ Live(other) /\ b # other /\ Bare(other)
  /\ object[other].size <= MaxBlock
  /\ \E block \in Blocks : heap[block] = Free \/ (Live(b) /\ object[b].data = block)
  /\ Die("null")

Emptied == [data |-> Null, size |-> 0]

MoveConstruct(b, other) ==
  /\ ~Live(b) /\ Live(other)
  /\ object' = [object EXCEPT ![b] = object[other], ![other] = Emptied]
  /\ UNCHANGED <<heap, fate>>

(* Mutant: the source keeps its pointer.                                   *)
MoveAssign_Keeps(b, other) ==
  /\ Live(b) /\ Live(other) /\ b # other
  /\ heap' = Freed(object[b].data)
  /\ object' = [object EXCEPT ![b] = object[other]]
  /\ UNCHANGED fate

(* Moving an object to itself does nothing.                                *)
MoveAssign(b, other) ==
  /\ Live(b) /\ Live(other) /\ b # other
  /\ heap' = Freed(object[b].data)
  /\ object' = [object EXCEPT ![b] = object[other], ![other] = Emptied]
  /\ UNCHANGED fate

-----------------------------------------------------------------------------
(* Through Data().                                                         *)
Write(b) ==
  /\ Live(b)
  /\ object[b].data # Null
  /\ \E i \in 1 .. object[b].size : \E byte \in Bytes :
       heap' = [heap EXCEPT ![object[b].data][i] = byte]
  /\ UNCHANGED <<object, fate>>

(* operator[], Read and Data() of bytes that malloc did not give.          *)
Touch(b) ==
  /\ Live(b)
  /\ Bare(b)
  /\ Die("null")

(* The check of Read and Slice: the sum is a size_t.                       *)
Throws(b, offset, length) == (offset + length) % SizeSpace > object[b].size

Wraps(offset, length) == offset + length >= SizeSpace

(* A read that wraps takes bytes from before the block, or dies.           *)
ReadStray(b) ==
  /\ Live(b)
  /\ \E offset \in Sizes : \E n \in 1 .. MaxBlock :
       ~Throws(b, offset, n) /\ Wraps(offset, n)
  /\ Die("stray")

(* The bytes from data_ + offset on: the object's own and, for an offset   *)
(* that wraps, some from before the block.                                 *)
CellsFrom(b, offset, length) ==
  [k \in 1 .. length |->
     LET i == (offset + k) % SizeSpace
     IN  IF i \in DOMAIN Cells(b) THEN Cells(b)[i] ELSE Garbage]

(* From nullptr and no offset nothing is copied; from nullptr and an       *)
(* offset everything is, which ends the process if there is memory.        *)
Slice(b, other) ==
  /\ ~Live(b) /\ Live(other)
  /\ \E offset, length \in Sizes :
       /\ ~Throws(other, offset, length)
       /\ Allocate(heap, b, CellsFrom(other, offset, length))
       /\ (object[other].data = Null /\ offset > 0 /\ length > 0) => object'[b].data = Null

DieSlicing(b, other) ==
  /\ ~Live(b) /\ Live(other)
  /\ \E block \in Blocks : heap[block] = Free
  /\ \E offset \in Sizes \ {0} : \E length \in 1 .. MaxBlock :
       /\ ~Throws(other, offset, length)
       /\ \/ Wraps(offset, length) /\ Die("stray")
          \/ ~Wraps(offset, length) /\ object[other].data = Null /\ Die("null")

Next ==
  /\ fate = "alive"
  /\ \E b \in Names :
       \/ ConstructEmpty(b) \/ Construct(b) \/ ConstructZeroed(b) \/ Destroy(b)
       \/ Write(b) \/ Touch(b) \/ ReadStray(b)
       \/ \E other \in Names :
            \/ CopyConstruct(b, other) \/ CopyAssign(b, other) \/ DieCopying(b, other)
            \/ MoveConstruct(b, other) \/ MoveAssign(b, other)
            \/ Slice(b, other) \/ DieSlicing(b, other)

Spec == Init /\ [][Next]_vars

-----------------------------------------------------------------------------
Byte == Bytes \cup {Garbage}

(* An object has a pointer and a size, and an allocated block its bytes.   *)
TypeOK ==
  /\ object \in [Names -> [data : Blocks \cup {Null}, size : Nat] \cup {None}]
  /\ heap \in [Blocks -> Seq(Byte) \cup {Free}]
  /\ fate \in {"alive", "null", "stray"}

(* Every block has one owner and every owner its block, of its size: no    *)
(* sequence of copies, moves, assignments and failures of malloc leaves a  *)
(* block behind, frees one twice or has two buffers share one.             *)
EveryBlockHasOneOwner ==
  /\ \A block \in Blocks :
       heap[block] # Free <=> \E b \in Names : Live(b) /\ object[b].data = block
  /\ \A b, c \in Names :
       (Live(b) /\ Live(c) /\ b # c /\ object[b].data = object[c].data) => object[b].data = Null
  /\ \A b \in Names :
       (Live(b) /\ object[b].data # Null) => Len(heap[object[b].data]) = object[b].size

(* To its callers a buffer is a value: copies and slices are apart from    *)
(* what they were taken from, though blocks are used again, and only a     *)
(* failed malloc or an offset near the end of size_t makes it dangerous.   *)
Value ==
  [b \in Names |->
     IF ~Live(b) THEN None
     ELSE [size  |-> object[b].size,
           cells |-> IF Bare(b) THEN Lost ELSE Cells(b)]]

Values == INSTANCE BufferValues WITH value <- Value

ImplementsBufferValues == Values!Spec

=============================================================================
