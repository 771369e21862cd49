------------------------- MODULE ConversationTable --------------------------
(***************************************************************************)
(* What flow tracking promises: one entry for each conversation, that is,  *)
(* for each unordered pair of endpoints and transport protocol, whichever  *)
(* side sends first.  An entry counts the packets of the conversation and  *)
(* remembers when the first and the last of them were captured.  A packet  *)
(* touches the entry of its own conversation and no other.                 *)
(***************************************************************************)
EXTENDS Naturals, Sequences

VARIABLES
  captured,   \* the packets so far: the conversation and the time of each
  table       \* from the conversations seen to their entries

vars == <<captured, table>>

Init ==
  /\ captured = <<>>
  /\ table = [c \in {} |-> 0]

(* The entry of conversation c after a packet at time ts.                  *)
Accounted(c, ts) ==
  IF c \in DOMAIN table
    THEN [count      |-> table[c].count + 1,
          first_seen |-> table[c].first_seen,
          last_seen  |-> ts]
    ELSE [count |-> 1, first_seen |-> ts, last_seen |-> ts]

(* One more packet is captured, and its conversation's entry accounts for  *)
(* it.                                                                     *)
Capture(packet) ==
  /\ captured' = Append(captured, packet)
  /\ table' = [c \in DOMAIN table \cup {packet.conversation} |->
                 IF c = packet.conversation
                   THEN Accounted(packet.conversation, packet.time)
                   ELSE table[c]]

Next ==
  /\ Len(captured') = Len(captured) + 1
  /\ Capture(captured'[Len(captured) + 1])

Spec == Init /\ [][Next]_vars

=============================================================================
