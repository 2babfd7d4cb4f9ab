---------------------------- MODULE TestLifecycle ----------------------------
(***************************************************************************)
(* What the orchestrator promises about the status column of the tests     *)
(* table, whoever writes it and whatever crashes: a row is created pending *)
(* and afterwards moves only along the edges of legalTransitions           *)
(* (services/orchestrator/state_machine.go:22), one edge at a time.        *)
(* completed and failed are final.                                         *)
(***************************************************************************)

CONSTANT Tests

VARIABLE status

Statuses == {"absent", "pending", "running", "stopping", "completed", "failed"}
Terminal == {"completed", "failed"}

\* state_machine.go:22-26, the targets allowed from each status.
legalTransitions ==
  [absent    |-> {},
   pending   |-> {"running", "failed"},
   running   |-> {"stopping", "failed"},
   stopping  |-> {"completed", "failed"},
   completed |-> {},
   failed    |-> {}]

Init == status = [t \in Tests |-> "absent"]

\* POST /v1/tests inserts the row.
Create(t) ==
  /\ status[t] = "absent"
  /\ status' = [status EXCEPT ![t] = "pending"]

Move(t) ==
  \E new \in legalTransitions[status[t]] : status' = [status EXCEPT ![t] = new]

Next == \E t \in Tests : Create(t) \/ Move(t)

Spec == Init /\ [][Next]_status

=============================================================================
