----------------------------- MODULE BufferValues ----------------------------
(***************************************************************************)
(* What the callers of Buffer may rely on: a buffer is a value.  A copy    *)
(* has the bytes of its source and nothing to do with it afterwards, a     *)
(* move empties its source, and nothing changes a buffer but an operation  *)
(* on it.  When there is no memory a buffer has its size and no bytes, and *)
(* the process dies of touching them.                                      *)
(***************************************************************************)
EXTENDS Naturals, Sequences

CONSTANTS
  Names,     \* places for buffers
  Given,     \* sequences of bytes buffers are made from
  Bytes,     \* bytes callers write
  Garbage,   \* a byte nobody wrote
  Lost,      \* the bytes of a buffer that has none
  None       \* no buffer

VARIABLES
  value,     \* of each place: None, or the size and the bytes
  fate       \* "alive", or what the process died of: "null" or "stray"

vars == <<value, fate>>

Init == value = [b \in Names |-> None] /\ fate = "alive"

Whole(cells) == [size |-> Len(cells), cells |-> cells]

WithoutMemory(n) == [size |-> n, cells |-> Lost]

Live(b) == value[b] # None

Become(b, v) == value' = [value EXCEPT ![b] = v] /\ UNCHANGED fate

(* A buffer is made of bytes, of zeroes, or of nothing.                    *)
Make(b) ==
  /\ ~Live(b)
  /\ \/ Become(b, Whole(<<>>))
     \/ \E cells \in Given : Become(b, Whole(cells)) \/ Become(b, WithoutMemory(Len(cells)))
     \/ \E n \in {Len(cells) : cells \in Given} :
          \E byte \in {0, Garbage} : Become(b, Whole([k \in 1 .. n |-> byte]))

Copy(b, source) ==
  /\ Live(source) /\ b # source
  /\ Become(b, value[source]) \/ Become(b, WithoutMemory(value[source].size))

Move(b, source) ==
  /\ Live(source) /\ b # source
  /\ value' = [value EXCEPT ![b] = value[source], ![source] = Whole(<<>>)]
  /\ UNCHANGED fate

Slice(b, source) ==
  /\ ~Live(b) /\ Live(source)
  /\ \/ \E offset \in 0 .. value[source].size : \E length \in 0 .. value[source].size - offset :
          \/ Become(b, WithoutMemory(length))
          \/ /\ value[source].cells # Lost
             /\ Become(b, Whole(SubSeq(value[source].cells, offset + 1, offset + length)))
          \/ /\ value[source].cells = Lost
             /\ Become(b, Whole([k \in 1 .. length |-> Garbage]))

(* An end of a slice that is no size: what comes of it starts before the   *)
(* bytes of the source.                                                    *)
StraySlice(b) ==
  /\ ~Live(b)
  /\ value' = [value EXCEPT ![b] = value'[b]]
  /\ value'[b] # None
  /\ \/ value'[b].cells = Lost
     \/ value'[b].cells # <<>> /\ Head(value'[b].cells) = Garbage
  /\ UNCHANGED fate

Write(b) ==
  /\ Live(b)
  /\ value[b].cells # Lost
  /\ \E i \in 1 .. value[b].size : \E byte \in Bytes :
       value' = [value EXCEPT ![b].cells[i] = byte]
  /\ UNCHANGED fate

Destroy(b) == Live(b) /\ Become(b, None)

(* The bytes of a buffer without memory were touched.                      *)
DieOfNull ==
  /\ \E b \in Names : Live(b) /\ value[b].cells = Lost
  /\ fate' = "null"
  /\ UNCHANGED value

DieOfStray == fate' = "stray" /\ UNCHANGED value

Next ==
  /\ fate = "alive"
  /\ \/ \E b \in Names :
          \/ Make(b) \/ StraySlice(b) \/ Write(b) \/ Destroy(b)
          \/ \E source \in Names : Copy(b, source) \/ Move(b, source) \/ Slice(b, source)
     \/ DieOfNull \/ DieOfStray

Spec == Init /\ [][Next]_vars

=============================================================================
