-------------------------- MODULE OrderedDelivery ---------------------------
(***************************************************************************)
(* What TCP reassembly promises to the protocol decoder, without sequence  *)
(* numbers: the stream is one contiguous run of the sender's bytes.  It    *)
(* starts at some byte, only ever grows at its end, and never skips,       *)
(* repeats or reorders a byte.  A byte is named by its position in what    *)
(* the sender sent.                                                        *)
(*                                                                         *)
(* The promise is void once the sender is a whole sequence space ahead of  *)
(* the stream (trusted = FALSE), since two different bytes then carry the  *)
(* same 32-bit number.                                                     *)
(***************************************************************************)
EXTENDS Naturals, Sequences

VARIABLES
  started,    \* has the stream got a starting position?
  start,      \* the position of its first byte
  stream,     \* the bytes delivered so far
  trusted     \* FALSE once the promise is void

vars == <<started, start, stream, trusted>>

Init ==
  /\ started = FALSE
  /\ start = 0
  /\ stream = <<>>
  /\ trusted = TRUE

(* The n bytes of the sender that start at position from.                  *)
Run(from, n) == [i \in 1..n |-> from + i - 1]

(* The stream is the run of bytes from its starting position, and has not  *)
(* become shorter.                                                         *)
Grows ==
  /\ Len(stream') >= Len(stream)
  /\ stream' = Run(start', Len(stream'))

(* The first packet fixes the starting position, with or without bytes.    *)
Start ==
  /\ ~started
  /\ started' = TRUE
  /\ start' \in Nat
  /\ Grows
  /\ UNCHANGED trusted

Deliver ==
  /\ started
  /\ trusted
  /\ Grows
  /\ UNCHANGED <<started, start, trusted>>

Forfeit ==
  /\ started
  /\ trusted' = FALSE
  /\ stream' \in Seq(Nat)
  /\ UNCHANGED <<started, start>>

Next == Start \/ Deliver \/ Forfeit

Spec == Init /\ [][Next]_vars

=============================================================================
