------------------------- MODULE OneShotConfirmation -------------------------
(* What a Confirm button promises: a call that was offered is accepted at most *)
(* once, runs at most once and only after it was accepted, and never after it  *)
(* was withdrawn (cancelled, expired or lost with the process).                *)
CONSTANT Tokens

VARIABLE status

Statuses == {"none", "offered", "accepted", "done", "withdrawn"}

Lawful == {<<"none", "offered">>, <<"offered", "accepted">>,
           <<"offered", "withdrawn">>, <<"accepted", "done">>}

Init == status = [t \in Tokens |-> "none"]

\* A restart withdraws every offer at once.
Next ==
  /\ status' \in [Tokens -> Statuses]
  /\ \A t \in Tokens : status'[t] = status[t] \/ <<status[t], status'[t]>> \in Lawful

Spec == Init /\ [][Next]_status
=============================================================================
