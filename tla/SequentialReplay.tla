--------------------------- MODULE SequentialReplay --------------------------
(***************************************************************************)
(* What a replay promises, whatever its timing and its transport: the      *)
(* packets of a capture are attempted one after another, each once, an     *)
(* attempt is counted at most once, and the replay is over when all of     *)
(* them have been attempted, unless the process dies before.               *)
(***************************************************************************)
EXTENDS Naturals

VARIABLES
  state,       \* "idle", "running" or, when the process has died, "dead"
  total,       \* packets the replay has to attempt
  attempted,   \* packets it has attempted
  counted      \* attempts counted as sent, of all replays

vars == <<state, total, attempted, counted>>

Init ==
  /\ state = "idle"
  /\ total = 0
  /\ attempted = 0
  /\ counted = 0

Begin ==
  /\ state = "idle"
  /\ state' = "running"
  /\ total' \in Nat
  /\ attempted' = 0
  /\ UNCHANGED counted

Attempt ==
  /\ state = "running"
  /\ attempted < total
  /\ attempted' = attempted + 1
  /\ counted' \in {counted, counted + 1}
  /\ UNCHANGED <<state, total>>

Finish ==
  /\ state = "running"
  /\ attempted = total
  /\ state' = "idle"
  /\ UNCHANGED <<total, attempted, counted>>

(* The process dies, for good.                                             *)
Die ==
  /\ state = "running"
  /\ state' = "dead"
  /\ UNCHANGED <<total, attempted, counted>>

Next == Begin \/ Attempt \/ Finish \/ Die

Spec == Init /\ [][Next]_vars

=============================================================================
