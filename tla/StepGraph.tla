------------------------------ MODULE StepGraph ------------------------------
(***************************************************************************)
(* What a durable run promises about its steps, with no files, processes   *)
(* or passes: the step lifecycle of lib/durable-runtime/types.ts and the   *)
(* conditions under which a run is over.  Once the outcome of the run is   *)
(* known nothing changes any more, and a step that ended never moves.      *)
(***************************************************************************)
EXTENDS Integers, FiniteSets

CONSTANTS
  Step,         \* the steps of the run's graph
  Deps,         \* dependsOn of each step
  MaxParallel   \* policy.maxParallelSteps

VARIABLES
  status,       \* of each step
  outcome       \* of the run, "running" until it is over

vars == <<status, outcome>>

EndStatus == {"completed", "blocked", "failed", "cancelled", "stale"}

Active == {s \in Step : status[s] = "running"}

Init == status = [s \in Step |-> "pending"] /\ outcome = "running"

Move(s, from, to) ==
  /\ outcome = "running"
  /\ status[s] \in from
  /\ status' = [status EXCEPT ![s] = to]
  /\ UNCHANGED outcome

Enable(s) ==
  /\ \A d \in Deps[s] : status[d] = "completed"
  /\ Move(s, {"pending"}, "ready")

Start(s) ==
  /\ Cardinality(Active) < MaxParallel
  /\ Move(s, {"ready"}, "running")

Retry(s) == Move(s, {"running"}, "ready")

\* Only a step that may not run at all ends without running.
End(s) ==
  \/ \E e \in EndStatus : Move(s, {"running"}, e)
  \/ Move(s, {"ready"}, "blocked")

\* Nobody is at work, and the outcome is the one the steps account for.
Finish(o) ==
  /\ outcome = "running"
  /\ Active = {}
  /\ \E s \in Step : status[s] = o
  /\ o = "completed" => \A s \in Step : status[s] = "completed"
  /\ o # "blocked" => \A s \in Step : status[s] \in EndStatus \ {"blocked"}
  /\ o \in EndStatus
  /\ outcome' = o
  /\ UNCHANGED status

Next ==
  \/ \E s \in Step : Enable(s) \/ Start(s) \/ Retry(s) \/ End(s)
  \/ \E o \in EndStatus : Finish(o)

Spec == Init /\ [][Next]_vars

=============================================================================
