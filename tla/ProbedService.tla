--------------------------- MODULE ProbedService ---------------------------
(***************************************************************************)
(* What ssbucketeer promises about a service with an access group, that    *)
(* is a StatefulSet with the impersonate-group annotation: its users       *)
(* choose how many pods it has; it has none before a probe has completed,  *)
(* and from then on as many as they chose.  There is one probe at a time,  *)
(* none starts once the service runs, and none goes while it is needed.    *)
(* The promise ends when somebody meddles with the service otherwise.      *)
(***************************************************************************)
EXTENDS Naturals

CONSTANT Counts    \* the replica counts that users choose

VARIABLES
  phase,     \* "absent", "suspended", "running" or "meddled"
  chosen,    \* the count that was chosen last
  pods,      \* how many pods Kubernetes is told to run
  probe      \* "none", "running", "failed" or "complete"

vars == <<phase, chosen, pods, probe>>

Init == phase = "absent" /\ chosen = 0 /\ pods = 0 /\ probe = "none"

Create(n) ==
  /\ phase = "absent"
  /\ phase' = "suspended"
  /\ chosen' = n
  /\ UNCHANGED <<pods, probe>>

Scale(n) ==
  /\ phase \in {"suspended", "running"}
  /\ chosen' = n
  /\ pods' = IF phase = "running" THEN n ELSE 0
  /\ UNCHANGED <<phase, probe>>

Revive ==
  /\ phase = "suspended"
  /\ probe = "complete"
  /\ phase' = "running"
  /\ pods' = chosen
  /\ UNCHANGED <<chosen, probe>>

\* A probe may be started before the service is there: in admission.
Launch ==
  /\ probe = "none"
  /\ phase \in {"absent", "suspended"}
  /\ probe' = "running"
  /\ UNCHANGED <<phase, chosen, pods>>

Finish ==
  /\ probe = "running"
  /\ probe' \in {"complete", "failed"}
  /\ UNCHANGED <<phase, chosen, pods>>

Release ==
  /\ probe = "complete"
  /\ phase \in {"absent", "running"}
  /\ probe' = "none"
  /\ UNCHANGED <<phase, chosen, pods>>

Meddle ==
  /\ phase' = "meddled"
  /\ chosen' = 0 /\ pods' = 0 /\ probe' = "none"

Next ==
  \/ \E n \in Counts : Create(n) \/ Scale(n)
  \/ Revive \/ Launch \/ Finish \/ Release \/ Meddle

Spec == Init /\ [][Next]_vars
=============================================================================
