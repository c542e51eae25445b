------------------------------ MODULE CallSpec ------------------------------
(***************************************************************************)
(* What one call on skyl's Client promises its caller, whatever the        *)
(* provider does and however long it waits between attempts: a bounded     *)
(* number of attempts, one verdict, and a cancelled caller is not kept     *)
(* busy with new retries.                                                  *)
(***************************************************************************)
EXTENDS Naturals

VARIABLES
  budget,     \* attempts the call may make; fixed when the Client is made
  tries,      \* attempts made so far
  phase,      \* where the call is
  cancelled,  \* the caller's context is done
  verdict     \* what the call returned

vars == <<budget, tries, phase, cancelled, verdict>>

Phases   == {"idle", "trying", "between", "closed"}
Verdicts == {"none", "ok", "invalid", "error", "waiting", "gaveUp"}

Init ==
  /\ budget \in Nat \ {0}
  /\ tries = 0
  /\ phase = "idle"
  /\ cancelled \in BOOLEAN
  /\ verdict = "none"

\* Another attempt, within the budget.
Try ==
  /\ phase \in {"idle", "between"}
  /\ tries < budget
  /\ tries' = tries + 1
  /\ phase' = "trying"
  /\ UNCHANGED <<budget, cancelled, verdict>>

\* The attempt failed and the call will try again: never once cancelled.
TryFails ==
  /\ phase = "trying"
  /\ ~ cancelled
  /\ tries < budget
  /\ phase' = "between"
  /\ UNCHANGED <<budget, tries, cancelled, verdict>>

\* The one answer, each kind from the phase that justifies it.
Conclude(v) ==
  /\ \/ v = "invalid" /\ phase = "idle"
     \/ v \in {"ok", "error"} /\ phase = "trying"
     \/ v = "gaveUp" /\ phase = "trying" /\ tries = budget
     \/ v = "waiting" /\ phase = "between" /\ cancelled
  /\ verdict' = v
  /\ phase' = "closed"
  /\ UNCHANGED <<budget, tries, cancelled>>

Cancel ==
  /\ phase # "closed"
  /\ cancelled' = TRUE
  /\ UNCHANGED <<budget, tries, phase, verdict>>

Next ==
  \/ Try
  \/ TryFails
  \/ \E v \in Verdicts : Conclude(v)
  \/ Cancel

Spec == Init /\ [][Next]_vars
=============================================================================
