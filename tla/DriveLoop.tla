------------------------------- MODULE DriveLoop -------------------------------
(***************************************************************************)
(* The loop that drives tasks without a graph (runRunLoop of               *)
(* run-run-loop.ts, runOneTask of run-one-task.ts): one task after the     *)
(* other is checked, given to a backend under a time limit, verified,      *)
(* committed and marked; what goes wrong on the way decides whether the    *)
(* backend is asked again, the next task is begun, or the loop ends.  Tests*)
(* characterize the loop; the entry points drive the graph of DriveRun.    *)
(*                                                                         *)
(* Appending to the log, writing a task's file and git may fail at each of *)
(* their calls.  Left out: prompts, notes, and the lock of commits.        *)
(***************************************************************************)
EXTENDS Integers, Sequences, FiniteSets, SequencesExt

CONSTANTS N,          \* number of tasks
          Policies,   \* bound: those to explore
          MaxMishaps  \* bound: how many calls fail

Task == 1 .. N

\* checks: there are preflight and postflight commands; rest: the plan has a task that is
\* not of the run and not Done; the others as in module DriveRun.
Policy == [source: BOOLEAN, state: BOOLEAN, continues: BOOLEAN, retries: BOOLEAN,
           checks: BOOLEAN, rest: BOOLEAN]
LoopAssumption == N \in Nat \ {0} /\ Policies \subseteq Policy /\ MaxMishaps \in Nat

VARIABLES
  policy, pc,
  now,         \* the task of the loop, how often its backend was asked again; of the attempt:
               \* its outcome, whether its reason names a file that is there, and whether a
               \* commit was made
  log,         \* the events, those that tell of decisions
  file,        \* status in the task's file
  dirty,       \* changes not committed: of which task, and by its agent or by a stray one
  commits,     \* the changes of each commit
  pending,     \* phase and task of pending-finalization.json
  stray,       \* tasks whose backend was given up and may still be at work
  done, blocked, result,
  completion,  \* the result is written to run.completion.json
  aborted,     \* the signal
  verified,    \* history: tasks whose last answer is a success nothing contradicts
  mute,        \* history: the last words of the loop could not be written
  mishaps
tree == <<file, dirty, commits>>
tally == <<done, blocked, result, completion>>
vars == <<policy, pc, now, log, tree, pending, stray, tally, aborted, verified, mute, mishaps>>

at == now.at
tries == now.tries
Attempt(t, k) == [at |-> t, tries |-> k, outcome |-> "none", names |-> FALSE, sha |-> FALSE]
Goto(l) == pc' = l
Emit(e) == log' = Append(log, <<e, at>>)
SetFile(s) == file' = [file EXCEPT ![at] = s]
Mishap == mishaps > 0 /\ mishaps' = mishaps - 1
Pend(phase) == pending' = <<phase, at>>
\* A command started after the signal is killed at once.
CommandFails == (aborted /\ UNCHANGED mishaps) \/ Mishap
Endings == {"run_completed", "run_aborted", "run_finalization_failed"}

\* The error is thrown out of the loop, which tries to say so.
Throw ==
  /\ Goto("over") /\ result' = "thrown"
  /\ \/ Emit("run_aborted") /\ UNCHANGED mute
     \/ mute' = TRUE /\ UNCHANGED log
  /\ UNCHANGED <<policy, now, done, blocked, completion, stray, aborted, verified>>

------------------------------------------------------------------------------
(* runRunLoop.                                                             *)
Begin ==
  /\ pc = "start" /\ Emit("run_started") /\ Goto("next")
  /\ UNCHANGED <<policy, now, tree, pending, stray, tally, aborted, verified, mute, mishaps>>

TaskStarts ==
  /\ pc = "next" /\ at <= N
  /\ Emit("task_started") /\ Goto("preflight") /\ now' = Attempt(at, 0)
  /\ UNCHANGED <<policy, tree, pending, stray, tally, aborted, verified, mute, mishaps>>

LoopEnds ==
  /\ pc = "next" /\ at > N /\ Goto("state")
  /\ UNCHANGED <<policy, now, log, tree, pending, stray, tally, aborted, verified, mute, mishaps>>

\* A preflight that fails leaves the task's file and the log of the task as they are.
Preflight ==
  /\ pc = "preflight"
  /\ \/ /\ policy.checks => ~aborted
        /\ Goto("progress") /\ UNCHANGED <<now, blocked, mishaps>>
     \/ /\ policy.checks /\ CommandFails
        /\ Goto("stop") /\ now' = [now EXCEPT !.outcome = "refused"] /\ blocked' = blocked + 1
  /\ UNCHANGED <<policy, log, tree, pending, stray, done, result, completion, aborted,
                 verified, mute>>

Progress ==
  /\ pc = "progress" /\ SetFile("In Progress") /\ Goto("spawn")
  /\ UNCHANGED <<policy, now, log, dirty, commits, pending, stray, tally, aborted, verified,
                 mute, mishaps>>

Spawn ==
  /\ pc = "spawn" /\ Emit("spawn_started") /\ Goto("backend")
  /\ UNCHANGED <<policy, now, tree, pending, stray, tally, aborted, verified, mute, mishaps>>

Answers ==
  /\ pc = "backend"
  /\ \E report \in {"success", "partial", "failure", "unknown"}, names \in BOOLEAN,
        changes \in SUBSET {<<at, "agent">>} :
       /\ now' = [now EXCEPT !.outcome = report, !.names = names]
       /\ dirty' = dirty \cup changes
  /\ Goto("verify")
  /\ UNCHANGED <<policy, log, file, commits, pending, stray, tally, aborted, verified,
                 mute, mishaps>>

\* It exits with an error or cannot be run.
BackendFails ==
  /\ pc = "backend" /\ Goto("decide")
  /\ \E names \in BOOLEAN : now' = [now EXCEPT !.outcome = "spawn", !.names = names]
  /\ verified' = verified \ {at}
  /\ UNCHANGED <<policy, log, tree, pending, stray, tally, aborted, mute, mishaps>>

\* Its answer is not waited for any longer; it is told to stop, which may take its time.  The
\* reason names no file.
TimesOut ==
  /\ pc = "backend" /\ Goto("decide")
  /\ now' = [now EXCEPT !.outcome = "spawn", !.names = FALSE]
  /\ stray' = stray \cup {at} /\ verified' = verified \ {at}
  /\ UNCHANGED <<policy, log, tree, pending, tally, aborted, mute, mishaps>>

\* An unknown report stands for success when the checks passed and there is what to commit.
Inferred(post) == post = "pass" /\ (policy.source => dirty # {})
Derived(post) ==
  IF post = "fail" THEN "failure"
  ELSE IF now.outcome # "unknown" THEN now.outcome
  ELSE IF Inferred(post) THEN "success" ELSE "failure"

Verify ==
  /\ pc = "verify"
  /\ \E post \in IF ~policy.checks THEN {"none"} ELSE IF aborted THEN {"fail"} ELSE {"pass", "fail"},
        unchecked \in BOOLEAN :
       LET success == Derived(post) = "success" /\ ~unchecked
           outcome == IF Derived(post) = "success" /\ unchecked THEN "failure" ELSE Derived(post)
       IN /\ now' = [now EXCEPT !.outcome = outcome,
                                !.names = @ /\ ~(Derived(post) = "success" /\ unchecked)]
          /\ verified' = IF success /\ now.outcome # "failure" THEN verified \cup {at} ELSE verified \ {at}
          /\ Goto(IF policy.source /\ outcome # "failure" THEN "commit"
                  ELSE IF outcome = "success" THEN "status" ELSE "decide")
  /\ UNCHANGED <<policy, log, tree, pending, stray, tally, aborted, mute, mishaps>>

------------------------------------------------------------------------------
(* maybeCommit.                                                            *)
Committing == commits' = Append(commits, dirty) /\ dirty' = {}

Commit ==
  /\ pc = "commit" /\ ~aborted
  /\ IF dirty = {} THEN UNCHANGED <<dirty, commits>> ELSE Committing
  /\ now' = [now EXCEPT !.sha = dirty # {}]
  /\ Goto(IF now.outcome = "success" THEN "status" ELSE "decide")
  /\ UNCHANGED <<policy, log, file, pending, stray, tally, aborted, verified, mute, mishaps>>

\* HEAD cannot be read before or after the commit: nothing catches that.
HeadUnread ==
  /\ pc = "commit" /\ CommandFails /\ Throw
  /\ \/ UNCHANGED <<dirty, commits>>
     \/ ~aborted /\ dirty # {} /\ Committing
  /\ UNCHANGED <<file, pending>>

CommitFails ==
  /\ pc = "commit" /\ CommandFails
  /\ IF now.outcome = "success"
     THEN Pend("commit") /\ SetFile("In Progress") /\ Goto("recorded") /\ UNCHANGED <<log, now, blocked>>
     ELSE SetFile("Blocked") /\ Emit("task_blocked") /\ Goto("stop") /\ UNCHANGED pending
          /\ now' = [now EXCEPT !.outcome = "blocked"] /\ blocked' = blocked + 1
  /\ UNCHANGED <<policy, dirty, commits, stray, done, result, completion, aborted,
                 verified, mute>>

------------------------------------------------------------------------------
(* A task that is not done, and the marking of one that is.                *)
\* Mutant: the backend is asked again for as long as its answers contradict themselves.
ContradictedAgain == policy.retries /\ now.names
Contradicted == policy.retries /\ tries = 0 /\ now.names

\* The attempt is put down as blocked, its task's file is left alone, and the backend asked again.
AskAgain ==
  /\ pc = "decide" /\ Contradicted
  /\ Emit(IF now.outcome = "spawn" THEN "spawn_failed" ELSE "task_blocked")
  /\ now' = Attempt(at, 1) /\ Goto("spawn")
  /\ UNCHANGED <<policy, tree, pending, stray, tally, aborted, verified, mute, mishaps>>

\* With a commit made in the attempt, an event that cannot be appended leaves a status pending,
\* and the backend is asked again all the same.
AskAgainUnheard ==
  /\ pc = "decide" /\ Contradicted /\ now.sha /\ Mishap
  /\ Pend("task_status") /\ Emit("task_finalization_failed")
  /\ now' = Attempt(at, 1) /\ Goto("spawn")
  /\ UNCHANGED <<policy, tree, stray, tally, aborted, verified, mute>>

LetItStand ==
  /\ pc = "decide" /\ ~Contradicted /\ Goto("status")
  /\ UNCHANGED <<policy, now, log, tree, pending, stray, tally, aborted, verified, mute, mishaps>>

\* transitionDriveTaskStatus, blockTask
StatusFor == CASE now.outcome = "success" -> "Done"
               [] now.outcome = "partial" -> "In Progress"
               [] OTHER                   -> "Blocked"
Mark ==
  /\ pc = "status" /\ SetFile(StatusFor) /\ Goto("announce")
  /\ UNCHANGED <<policy, now, log, dirty, commits, pending, stray, tally, aborted, verified,
                 mute, mishaps>>

\* The file cannot be written, or, where a commit was made, the log before or after it: then
\* the status is left pending.
MarkFails ==
  /\ pc \in {"progress", "status"} \/ (pc = "announce" /\ now.sha)
  /\ Mishap
  /\ IF now.sha THEN /\ Pend("task_status") /\ Goto("recorded")
                     /\ UNCHANGED <<policy, now, log, tree, stray, tally, aborted, verified, mute>>
     ELSE Throw /\ UNCHANGED <<tree, pending>>

\* The loop goes on after a task that is done, and if the policy says so after one that is done
\* in part.
GoesOn == now.outcome = "success" \/ (now.outcome = "partial" /\ policy.continues)
Announce ==
  /\ pc = "announce"
  /\ Emit(IF now.outcome = "success" THEN "task_done" ELSE "task_blocked")
  /\ done' = done + (IF now.outcome = "success" THEN 1 ELSE 0)
  /\ blocked' = blocked + (IF now.outcome = "success" THEN 0 ELSE 1)
  /\ IF GoesOn THEN now' = Attempt(at + 1, 0) /\ Goto("next") ELSE Goto("stop") /\ UNCHANGED now
  /\ UNCHANGED <<policy, tree, pending, stray, result, completion, aborted, verified,
                 mute, mishaps>>

Stop ==
  /\ pc = "stop" /\ Emit("run_aborted") /\ Goto("over")
  /\ result' = IF now.outcome = "partial" THEN "aborted" ELSE "blocked"
  /\ UNCHANGED <<policy, now, tree, pending, stray, done, blocked, completion, aborted, verified,
                 mute, mishaps>>

------------------------------------------------------------------------------
(* finalizeRunState, emitPlanCompletionCandidate, the result.              *)
Recorded ==
  /\ pc = "recorded" /\ Emit("task_finalization_failed") /\ Goto("failed")
  /\ UNCHANGED <<policy, now, tree, pending, stray, tally, aborted, verified, mute, mishaps>>

\* The commit of the task files is skipped if none is there or git sees no change of them.
FinalizeState ==
  /\ pc = "state" /\ Goto("candidate")
  /\ IF blocked > 0 \/ ~policy.state THEN UNCHANGED log
     ELSE ~aborted /\ \E how \in {"state_committed", "state_unchanged"} : Emit(how)
  /\ UNCHANGED <<policy, now, tree, pending, stray, tally, aborted, verified, mute, mishaps>>

StateFails ==
  /\ pc = "state" /\ blocked = 0 /\ policy.state
  /\ \/ CommandFails /\ Throw /\ UNCHANGED pending
     \/ /\ CommandFails /\ Pend("state_commit") /\ Goto("failed")
        /\ UNCHANGED <<policy, now, log, stray, tally, aborted, verified, mute>>
  /\ UNCHANGED tree

Candidate ==
  /\ pc = "candidate" /\ Goto("completed")
  /\ IF blocked = 0 /\ ~policy.rest /\ \A t \in Task : file[t] = "Done"
     THEN Emit("plan_completion_candidate") ELSE UNCHANGED log
  /\ UNCHANGED <<policy, now, tree, pending, stray, tally, aborted, verified, mute, mishaps>>

Completed ==
  /\ pc = "completed" /\ Emit("run_completed") /\ Goto("over") /\ result' = "completed"
  /\ UNCHANGED <<policy, now, tree, pending, stray, done, blocked, completion, aborted, verified,
                 mute, mishaps>>

Failed ==
  /\ pc = "failed" /\ Emit("run_finalization_failed") /\ Goto("write")
  /\ UNCHANGED <<policy, now, tree, pending, stray, tally, aborted, verified, mute, mishaps>>

WriteCompletion ==
  /\ pc = "write"
  /\ \/ /\ result' = "finalization_failed" /\ completion' = TRUE /\ Goto("over")
        /\ UNCHANGED <<policy, now, log, done, blocked, stray, aborted, verified, mute, mishaps>>
     \/ Mishap /\ Throw
  /\ UNCHANGED <<tree, pending>>

\* An event cannot be appended where no handler of the task catches it; a last line is tried.
LogFails ==
  /\ pc \in {"start", "next", "preflight", "spawn", "verify", "commit", "stop", "recorded",
             "state", "candidate", "completed", "failed"}
     \/ (pc = "announce" /\ ~now.sha) \/ (pc = "decide" /\ Contradicted /\ ~now.sha)
     \/ (pc = "status" /\ policy.source /\ now.outcome = "success" /\ ~now.sha)
  /\ Mishap /\ Goto("over") /\ result' = "aborted"
  /\ \/ Emit("run_aborted") /\ UNCHANGED mute
     \/ mute' = TRUE /\ UNCHANGED log
  /\ UNCHANGED <<policy, now, tree, pending, stray, done, blocked, completion, aborted, verified>>

------------------------------------------------------------------------------
Abort ==
  /\ pc # "over" /\ ~aborted /\ aborted' = TRUE
  /\ UNCHANGED <<policy, pc, now, log, tree, pending, stray, tally, verified, mute, mishaps>>

StrayWrites ==
  /\ \E t \in stray : <<t, "stray">> \notin dirty /\ dirty' = dirty \cup {<<t, "stray">>}
  /\ UNCHANGED <<policy, pc, now, log, file, commits, pending, stray, tally, aborted, verified,
                 mute, mishaps>>

Init ==
  /\ policy \in Policies /\ pc = "start" /\ now = Attempt(1, 0)
  /\ log = <<>> /\ file = [t \in Task |-> "To Do"] /\ dirty = {} /\ commits = <<>>
  /\ pending = <<"none", 0>> /\ stray = {} /\ done = 0 /\ blocked = 0 /\ result = "none"
  /\ completion = FALSE /\ aborted = FALSE /\ verified = {} /\ mute = FALSE
  /\ mishaps = MaxMishaps

Next ==
  \/ Begin \/ TaskStarts \/ LoopEnds \/ Preflight \/ Progress \/ Spawn \/ Answers \/ BackendFails
  \/ TimesOut \/ Verify \/ Commit \/ HeadUnread \/ CommitFails \/ AskAgain \/ AskAgainUnheard
  \/ LetItStand \/ Mark \/ MarkFails \/ Announce \/ Stop \/ Recorded \/ FinalizeState \/ StateFails \/ Candidate
  \/ Completed \/ Failed \/ WriteCompletion \/ LogFails \/ Abort \/ StrayWrites

Spec == Init /\ [][Next]_vars

------------------------------------------------------------------------------
TypeOK ==
  /\ policy \in Policy /\ at \in 1 .. N + 1 /\ tries \in {0, 1}
  /\ file \in [Task -> {"To Do", "In Progress", "Blocked", "Done"}]
  /\ done + blocked <= N /\ stray \subseteq Task /\ verified \subseteq Task
  /\ result \in {"none", "completed", "blocked", "aborted", "finalization_failed", "thrown"}

Count(e) == Len(SelectSeq(log, LAMBDA x : x[1] = e))
Said(e, t) == <<e, t>> \in ToSet(log)

(* A run that is called completed did its tasks: those counted as done are *)
(* marked Done, each of them verified, the others done in part under a     *)
(* policy that goes on, and task files are committed only with all done.   *)
CompletedIsTrue ==
  result = "completed" =>
    /\ done + blocked = N /\ done = Cardinality({t \in Task : file[t] = "Done"})
    /\ \A t \in Task : \/ file[t] = "Done" /\ t \in verified /\ Said("task_done", t)
                       \/ file[t] = "In Progress" /\ policy.continues
    /\ (blocked > 0 => Count("state_committed") = 0 /\ Count("plan_completion_candidate") = 0)
    /\ (policy.state /\ blocked = 0 =>
          Count("state_committed") + Count("state_unchanged") = 1)

(* What is pending is work that was verified and, for its status, committed;*)
(* a result that says so has both files, for whoever resumes.              *)
PendingIsVerified ==
  /\ pending[1] \in {"commit", "task_status"} =>
       pending[2] \in verified \/ (pending[1] = "task_status" /\ file[pending[2]] # "Done")
  /\ pending[1] = "task_status" => commits # <<>>
  /\ pending[1] = "commit" => file[pending[2]] = "In Progress"
  /\ result = "finalization_failed" => pending[1] # "none" /\ completion

(* Under the policy that the driver commits, a task marked Done has no     *)
(* changes left in the worktree.                                           *)
DoneIsCommitted ==
  policy.source => \A t \in Task : file[t] = "Done" => <<t, "agent">> \notin dirty

(* No commit holds what an agent wrote after its time was up.              *)
NoStrayCommitted == \A c \in ToSet(commits) : \A x \in c : x[2] = "agent"

(* The log ends with one ending, that of the result, where its last words  *)
(* could be written; a run whose completion could not be written has two.  *)
EndsOnce ==
  pc = "over" /\ ~mute =>
    /\ Last(log)[1] = CASE result = "completed"           -> "run_completed"
                        [] result = "finalization_failed" -> "run_finalization_failed"
                        [] OTHER                          -> "run_aborted"
    /\ Cardinality({k \in DOMAIN log : log[k][1] \in Endings}) =
         IF result = "thrown" /\ Count("run_finalization_failed") = 1 THEN 2 ELSE 1

(* A backend is asked at most twice for a task, and no task is begun after *)
(* one that stopped the loop.                                              *)
AskedTwiceAtMost ==
  \A t \in Task :
    /\ Len(SelectSeq(log, LAMBDA x : x = <<"spawn_started", t>>)) <= 2
    /\ (\E u \in Task : u < t /\ file[u] = "Blocked") => ~Said("task_started", t)
==============================================================================
