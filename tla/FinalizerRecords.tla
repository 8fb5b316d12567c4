---------------------------- MODULE FinalizerRecords ----------------------------
(***************************************************************************)
(* `run drive --resume` retries a pending finalization outside the graph:  *)
(* it emits the events of the finalizers, and the projector of the event   *)
(* sink rewrites the step and attempt files by them                        *)
(* (src/lib/driver/durable-steps.ts), so that the graph that goes on finds *)
(* what was done.  A write that fails is only reported, the process may    *)
(* die between two writes, and no lock keeps two retries apart.            *)
(*                                                                         *)
(* The files of an attempt are one write.  Left out: the artifacts and     *)
(* commits listed in a result, diagnostics, the events of the other log    *)
(* (module RunEvents), and git, which passes or fails (module DriveRun).   *)
(***************************************************************************)
EXTENDS Naturals, Sequences

CONSTANTS Process,
          MaxRetries, MaxFailures, MaxDeaths

RecordsAssumption == {MaxRetries, MaxFailures, MaxDeaths} \subseteq Nat

Finalizer == {"commit", "status", "state"}

VARIABLES
  pending,   \* phase of pending-finalization.json
  step,      \* step files: status, number of the latest attempt, outcome of the result
  attempts,  \* finalizer -> its attempt files: "open", or the outcome
  proc,      \* process -> the event it is at, the files of it that are written, its memory
  last,      \* history: how the last retry ended, and whether all its files were written
  overlapped, \* history: two retries ran at once
  retries, failures, deaths
vars == <<pending, step, attempts, proc, last, overlapped, retries, failures, deaths>>

\* An event of a finalizer, or what comes between: <<"commit", "started">>.
Idle == [at |-> <<"none", "idle">>, write |-> 0, attempt |-> 0,
         active |-> [f \in Finalizer |-> 0], result |-> "none", clean |-> TRUE]
Goto(p, at) == proc' = [proc EXCEPT ![p].at = at, ![p].write = 0]
Ends(p, how) ==
  /\ proc' = [proc EXCEPT ![p] = Idle]
  /\ last' = [ended |-> how, phase |-> proc[p].at[1], clean |-> proc[p].clean]
Bounds == UNCHANGED <<retries, failures, deaths>>

------------------------------------------------------------------------------
(* The retry.                                                              *)

\* The pending phase says where the retry begins; the file is not written again until the
\* last finalizer has passed.
Retry(p) ==
  /\ proc[p] = Idle /\ pending # "none" /\ retries < MaxRetries
  /\ retries' = retries + 1
  /\ Goto(p, <<pending, "started">>)
  /\ overlapped' = (overlapped \/ \E q \in Process \ {p} : proc[q] # Idle)
  /\ UNCHANGED <<pending, step, attempts, last, failures, deaths>>

\* Git, or the task's file; a state commit may find nothing to commit.
Work(p) ==
  /\ proc[p].at[2] = "work"
  /\ LET f == proc[p].at[1]
     IN \E e \in CASE f = "commit" -> {"made", "record"}
                   [] f = "status" -> {"passed", "record"}
                   [] f = "state"  -> {"passed", "skipped", "failed"} : Goto(p, <<f, e>>)
  /\ UNCHANGED <<pending, step, attempts, last, overlapped>> /\ Bounds

\* acceptExternalStateCommit: the tasks are done and their files committed by somebody else
CheckFiles(p) ==
  /\ proc[p].at = <<"state", "check">>
  /\ \E e \in {"accepted", "record"} : Goto(p, <<"state", e>>)
  /\ UNCHANGED <<pending, step, attempts, last, overlapped>> /\ Bounds

ClearPending(p) ==
  /\ proc[p].at[2] = "clear"
  /\ pending' = "none" /\ Ends(p, "done")
  /\ UNCHANGED <<step, attempts, overlapped>> /\ Bounds

\* What follows an event that is recorded.
Then(p) ==
  LET f == proc[p].at[1]
      e == proc[p].at[2]
  IN CASE e = "started"                 -> <<f, "work">>
       [] e = "made"                    -> <<"commit", "passed">>
       [] e = "passed" /\ f = "commit"  -> <<"status", "started">>
       [] e = "passed" /\ f = "status"  -> <<"status", "done">>
       [] e = "skipped"                 -> <<"state", "check">>
       [] e = "failed"                  -> <<"state", "record">>
       [] OTHER                         -> <<f, "clear">>
GoOn(p, memory, written) ==
  IF proc[p].at[2] = "record"
  THEN /\ proc' = [proc EXCEPT ![p] = Idle]
       /\ last' = [ended |-> "failed", phase |-> proc[p].at[1],
                   clean |-> written /\ proc[p].clean]
  ELSE /\ proc' = [proc EXCEPT ![p] = [memory EXCEPT !.at = Then(p), !.write = 0,
                                                     !.clean = written /\ @]]
       /\ UNCHANGED last

\* The line of the event cannot be written: where the command line looks out for errors the
\* finalizer has failed, otherwise the process ends.
EventFails(p) ==
  /\ proc[p] # Idle /\ proc[p].write = 0
  /\ failures < MaxFailures /\ failures' = failures + 1
  /\ LET f == proc[p].at[1]
         e == proc[p].at[2]
     IN CASE e = "made" \/ (e = "passed" /\ f # "state") \/ e = "done"
               \/ (e = "started" /\ f = "status")              -> Goto(p, <<f, "record">>)
          [] e = "skipped" -> Goto(p, <<f, "failed">>) \/ proc' = [proc EXCEPT ![p] = Idle]
          [] e = "passed" /\ f = "state" -> Goto(p, <<f, "failed">>)
          [] e \in {"started", "failed", "accepted"} /\ f # "status" ->
               proc' = [proc EXCEPT ![p] = Idle]
          [] OTHER                                             -> FALSE
  /\ last' = IF proc'[p] = Idle THEN [last EXCEPT !.ended = "died"] ELSE last
  /\ UNCHANGED <<pending, step, attempts, overlapped, retries, deaths>>

------------------------------------------------------------------------------
(* The projector: for an event of a finalizer it chooses an attempt,       *)
(* writes its file, and then the step's.                                   *)

Projected == {"started", "passed", "skipped", "accepted", "failed", "record"}
OutcomeOf(e) == CASE e = "started"              -> "open"
                  [] e \in {"failed", "record"} -> "failed"
                  [] OTHER                      -> "success"

LatestIs(f, outcome) == step[f].latest # 0 /\ attempts[f][step[f].latest] = outcome
NextAttempt(f) == Len(attempts[f]) + 1

OpenOr(f, other) == IF LatestIs(f, "open") THEN step[f].latest ELSE other

\* activeAttemptFromExistingFinalizer, unless the process remembers the attempt
Finished(p, f) == IF proc[p].active[f] # 0 THEN proc[p].active[f] ELSE OpenOr(f, NextAttempt(f))

\* Mutant: a failure is only recorded in an attempt that is open.
RecordedIfOpen(f) == OpenOr(f, 0)

\* activeAttemptForRetryableFinalizerFailure, by a projector without a memory: a failure that
\* is recorded already is left
Recorded(f) == OpenOr(f, IF LatestIs(f, "failed") THEN 0 ELSE NextAttempt(f))

Choose(p) ==
  LET f == proc[p].at[1]
      e == proc[p].at[2]
      n == CASE e = "started" -> NextAttempt(f)
             [] e = "record"  -> Recorded(f)
             [] OTHER         -> Finished(p, f)
  IN /\ e \in Projected /\ proc[p].write = 0
     /\ IF n = 0 THEN GoOn(p, proc[p], TRUE)
        ELSE /\ proc' = [proc EXCEPT ![p].write = 1, ![p].attempt = n,
                                     ![p].active[f] = IF e = "started" THEN n ELSE @]
             /\ UNCHANGED last
     /\ UNCHANGED <<pending, step, attempts, overlapped>> /\ Bounds

WriteAttempt(p) ==
  LET f == proc[p].at[1]
      n == proc[p].attempt
      outcome == OutcomeOf(proc[p].at[2])
  IN /\ proc[p].write = 1
     /\ attempts' = [attempts EXCEPT ![f] = IF n > Len(@) THEN Append(@, outcome)
                                            ELSE [@ EXCEPT ![n] = outcome]]
     /\ proc' = [proc EXCEPT ![p].write = 2]
     /\ UNCHANGED <<pending, step, last, overlapped>> /\ Bounds

\* upsertFinalizerStep
WriteStep(p) ==
  LET f == proc[p].at[1]
      outcome == OutcomeOf(proc[p].at[2])
  IN /\ proc[p].write = 2
     /\ step' = [step EXCEPT
          ![f].status = CASE outcome = "open"    -> "running"
                          [] outcome = "failed"  -> "failed"
                          [] outcome = "success" -> "completed",
          ![f].latest = proc[p].attempt,
          ![f].result = IF outcome = "open" THEN @ ELSE outcome]
     /\ GoOn(p, IF outcome = "open" THEN proc[p] ELSE [proc[p] EXCEPT !.active[f] = 0], TRUE)
     /\ UNCHANGED <<pending, attempts, overlapped>> /\ Bounds

\* Mutant: what the step says is not looked at.
Fabricated(p) == IF proc[p].result # "none" THEN proc[p].result ELSE "success"

\* recordCommitMade, recordTaskDone: the result the process remembers, else the one on disk
ResultFor(p) == IF proc[p].result # "none" THEN proc[p].result
                ELSE IF step["task"].result # "none" THEN step["task"].result
                ELSE "success"

\* upsertTaskStep
WriteTask(p) ==
  /\ proc[p].at[2] \in {"made", "done"}
  /\ step' = [step EXCEPT !["task"].result = ResultFor(p),
                          !["task"].status = IF proc[p].at[2] = "done" THEN "completed" ELSE @]
  /\ GoOn(p, [proc[p] EXCEPT !.result = ResultFor(p)], TRUE)
  /\ UNCHANGED <<pending, attempts, overlapped>> /\ Bounds

\* projectDurableStep: what fails is reported, and the event is over
WriteFails(p) ==
  /\ \/ proc[p].write \in {1, 2}
     \/ proc[p].at[2] \in {"made", "done"}
  /\ failures < MaxFailures /\ failures' = failures + 1
  /\ GoOn(p, IF proc[p].at[2] \in {"made", "done"}
             THEN [proc[p] EXCEPT !.result = ResultFor(p)] ELSE proc[p], FALSE)
  /\ UNCHANGED <<pending, step, attempts, overlapped, retries, deaths>>

Die(p) ==
  /\ proc[p] # Idle /\ deaths < MaxDeaths /\ deaths' = deaths + 1
  /\ proc' = [proc EXCEPT ![p] = Idle] /\ last' = [last EXCEPT !.ended = "died"]
  /\ UNCHANGED <<pending, step, attempts, overlapped, retries, failures>>

------------------------------------------------------------------------------
(* What the graph left: the finalizer failed, or its process died after    *)
(* pending-finalization.json was there and before its files were written.  *)
Fresh == [status |-> "pending", latest |-> 0, result |-> "none"]
Left == {[status |-> "ready", latest |-> 1, result |-> "failed", attempt |-> "failed"],
         [status |-> "running", latest |-> 1, result |-> "none", attempt |-> "failed"],
         [status |-> "running", latest |-> 1, result |-> "none", attempt |-> "open"]}

Init ==
  /\ pending \in Finalizer
  /\ \E l \in Left, r \in {"success", "partial"} :
       LET of(f) == IF f = pending THEN [status |-> l.status, latest |-> 1, result |-> l.result]
                    ELSE IF f = "commit" \/ (f = "status" /\ pending = "state")
                    THEN [status |-> "completed", latest |-> 1, result |-> "success"]
                    ELSE IF f = "task" THEN [status |-> "completed", latest |-> 1, result |-> r]
                    ELSE Fresh
       IN /\ step = [f \in Finalizer \cup {"task"} |-> of(f)]
          /\ attempts = [f \in Finalizer |-> IF f = pending THEN <<l.attempt>>
                                             ELSE IF of(f).latest = 1 THEN <<"success">> ELSE <<>>]
  /\ proc = [p \in Process |-> Idle]
  /\ last = [ended |-> "none", phase |-> "none", clean |-> TRUE] /\ overlapped = FALSE
  /\ retries = 0 /\ failures = 0 /\ deaths = 0

Next ==
  \E p \in Process :
    \/ Retry(p) \/ Work(p) \/ CheckFiles(p) \/ ClearPending(p) \/ EventFails(p)
    \/ Choose(p) \/ WriteAttempt(p) \/ WriteStep(p) \/ WriteTask(p) \/ WriteFails(p) \/ Die(p)

Spec == Init /\ [][Next]_vars

------------------------------------------------------------------------------
TypeOK ==
  /\ pending \in Finalizer \cup {"none"}
  /\ \A f \in Finalizer : /\ step[f].latest \in 0 .. Len(attempts[f])
                          /\ attempts[f] \in Seq({"open", "success", "failed"})
  /\ \A f \in DOMAIN step : step[f].status \in {"pending", "ready", "running", "completed", "failed"}
  /\ \A p \in Process : proc[p].write \in 0 .. 2

(* When a retry of its own has ended and its files could be written, they  *)
(* say so: all of the finalizers it went through have completed, or the    *)
(* attempt of the one that failed has, and its step says it failed or is   *)
(* still running, which the graph recovers by the attempt.                 *)
RetryIsRecorded ==
  (~overlapped /\ last.clean /\ \A p \in Process : proc[p] = Idle) =>
    /\ last.ended = "done" =>
         \A f \in IF last.phase = "state" THEN {"state"} ELSE {"commit", "status"} :
           step[f].status = "completed" /\ step[f].result = "success" /\ LatestIs(f, "success")
    /\ last.ended = "failed" =>
         /\ LatestIs(last.phase, "failed")
         /\ step[last.phase].result = "failed" \/ step[last.phase].status = "running"

(* An attempt that ended is not written again with another outcome.        *)
AttemptsStand ==
  ~overlapped' =>
    \A f \in Finalizer : \A n \in DOMAIN attempts[f] :
      attempts[f][n] # "open" => attempts'[f][n] = attempts[f][n]

(* "a malformed-report `unknown` result is never silently overwritten with *)
(* success": the result of the task stays what its agent reported.         *)
ResultKept == step["task"].result # "none" => step'["task"].result = step["task"].result
==============================================================================
