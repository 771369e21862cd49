--------------------------- MODULE MC_ReplaySession -------------------------
(***************************************************************************)
(* Two clients for ReplaySession.  A header and an answer are two bytes;   *)
(* payloads are shorter than a header, equal, and longer than a recv.      *)
(***************************************************************************)
EXTENDS ReplaySession

CONSTANTS c1, c2

MCClients == {c1, c2}

MCPayloads == [c \in MCClients |-> IF c = c1 THEN <<3, 1, 2>> ELSE <<1, 4>>]

MCLongPayloads == [c \in MCClients |-> IF c = c1 THEN <<4, 4>> ELSE <<1>>]

=============================================================================
