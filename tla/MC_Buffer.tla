------------------------------ MODULE MC_Buffer ------------------------------
(***************************************************************************)
(* Three buffers over three blocks of at most two bytes; a size_t counts   *)
(* modulo 6, so that sizes no block can have, and offsets that wrap, occur.*)
(***************************************************************************)
EXTENDS Buffer, TLC

CONSTANTS b1, b2, b3, m1, m2, m3

MCNames == {b1, b2, b3}
MCBlocks == {m1, m2, m3}
MCGiven == {<<>>, <<1, 0>>}
MCBytes == {0, 1}

MCSymmetry == Permutations(MCNames) \cup Permutations(MCBlocks)

=============================================================================
