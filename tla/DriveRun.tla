------------------------------ MODULE DriveRun ------------------------------
(***************************************************************************)
(* A Drive run: its graph of steps, one task after the other, each with    *)
(* the finalizers that commit its source changes and write its status, and *)
(* at the end one that commits the task files; and the command line that   *)
(* starts the run and resumes it.                                          *)
(*                                                                         *)
(* Work that was verified and could not be committed or marked Done leaves *)
(* pending-finalization.json.  `run drive --resume` retries that first,    *)
(* without the plan lock, records it in the step files as the graph would, *)
(* and only then hands the run back to the graph under the plan lock.      *)
(*                                                                         *)
(* A pass of the scheduler is here what it decides about steps that run    *)
(* one at a time; its writes one by one are the subject of module          *)
(* DurableScheduler.  Git is a sequence of commits, each with the tasks    *)
(* whose changes it holds; an external actor may commit as well.  Left     *)
(* out: prompts, reports and notes, events other than task_done and        *)
(* task_blocked, episodes, and the steps that race for a lock file         *)
(* (module FileLock).                                                      *)
(***************************************************************************)
EXTENDS Integers, Sequences, FiniteSets

CONSTANTS
  N,            \* number of tasks of the run
  Cli,          \* processes of the command line
  Nobody,       \* what a lock that is free names
  Dead,         \* what a lock left by a dead process names
  Scenarios,    \* bound: the policies to explore, each with how many times
                \* a command fails, a process dies or an outsider commits
  MaxResumes    \* bound: how many times the run is resumed

Task == 1..N

(***************************************************************************)
(* source: commitPolicy is driver-commits.  state: stateCommitPolicy is    *)
(* final-state-commit.  continues: partialMode is continue.  commits: the  *)
(* backend of the tasks canCommit.  retries: a blocked report that the     *)
(* worktree contradicts is retried once.                                   *)
(***************************************************************************)
Policy == [source: BOOLEAN, state: BOOLEAN, continues: BOOLEAN,
           commits: BOOLEAN, retries: BOOLEAN]

ASSUME DriveAssumption ==
  /\ N \in Nat \ {0}
  /\ Nobody \notin Cli /\ Dead \notin Cli /\ Nobody # Dead
  /\ Scenarios \subseteq [policy: Policy, mishaps: Nat]
  /\ MaxResumes \in Nat

\* Steps are named by their phase and their task, 0 for the one state commit.
Step == ({"task", "commit", "status"} \X Task) \cup {<<"state", 0>>}
Phase(s) == s[1]
TaskOf(s) == s[2]

\* Who a commit is by: a task's number, or one of these.
Outside == 0
StateCommit == N + 1

Result == {"success", "partial", "blocked", "failed", "retry"}
NoPending == [phase |-> "none", task |-> 0, head |-> 0, sha |-> 0]
Blank == [step |-> <<"state", 0>>, res |-> "none", head |-> 0, sha |-> 0,
          pend |-> NoPending, left |-> {}]

VARIABLES
  policy,      \* spec.json and the capabilities of the backend
  run,         \* status of run.json
  step,        \* steps/<id>/step.json and its latest attempt
  pending,     \* pending-finalization.json
  completion,  \* outcome in run.completion.json
  ended,       \* tasks with task_done or task_blocked in events.jsonl
  file,        \* status in the task's file
  fileDirty,   \* tasks whose file differs from the last commit
  dirty,       \* tasks whose source changes are not committed
  commits,     \* the commits since the run began; HEAD is the last one
  planLock,    \* who holds the plan lock
  commitLock,  \* who holds the repository's commit lock
  pc,          \* where each process is
  my,          \* the local variables of each process
  agents,      \* history: how often the backend was given each task
  verified,    \* history: tasks whose last answer is a success no
               \* check contradicts
  alone,       \* history: no process was started while another was at work
  resumes,     \* how many times it was resumed
  mishaps      \* how many mishaps are left to happen

records == <<run, step>>
workdir == <<pending, completion, ended>>
worktree == <<file, fileDirty, dirty, commits>>
locks == <<planLock, commitLock>>
history == <<agents, verified, alone>>
used == <<resumes, mishaps>>
vars == <<policy, records, workdir, worktree, locks, pc, my, history, used>>

------------------------------------------------------------------------------
(* The compiled graph.                                                     *)

Graph ==
  {s \in Step : /\ Phase(s) = "commit" => policy.source
                /\ Phase(s) = "state" => policy.state}

\* Mutant: the status of a task does not wait for its commit.
DependsOnTaskOnly(s) ==
  CASE Phase(s) = "task"  -> IF TaskOf(s) = 1 THEN {} ELSE {<<"status", TaskOf(s) - 1>>}
    [] Phase(s) = "state" -> {<<"status", t>> : t \in Task}
    [] OTHER              -> {<<"task", TaskOf(s)>>}

\* Mutant: a task waits for the task before it, not for its finalizers.
DependsOnAgent(s) ==
  CASE Phase(s) = "task"   -> IF TaskOf(s) = 1 THEN {} ELSE {<<"task", TaskOf(s) - 1>>}
    [] Phase(s) = "commit" -> {<<"task", TaskOf(s)>>}
    [] Phase(s) = "status" -> IF policy.source THEN {<<"commit", TaskOf(s)>>}
                              ELSE {<<"task", TaskOf(s)>>}
    [] Phase(s) = "state"  -> {<<"status", t>> : t \in Task}

DependsOn(s) ==
  CASE Phase(s) = "task"   -> IF TaskOf(s) = 1 THEN {} ELSE {<<"status", TaskOf(s) - 1>>}
    [] Phase(s) = "commit" -> {<<"task", TaskOf(s)>>}
    [] Phase(s) = "status" -> IF policy.source THEN {<<"commit", TaskOf(s)>>}
                              ELSE {<<"task", TaskOf(s)>>}
    [] Phase(s) = "state"  -> {<<"status", t>> : t \in Task}

\* Finalizers may have committed, and so may the agent of some backends.
CanCommit(s) == Phase(s) # "task" \/ policy.commits

Runnable ==
  {s \in Graph : \/ step[s].status = "ready"
                 \/ /\ step[s].status = "pending"
                    /\ \A d \in DependsOn(s) : step[d].status = "completed"}

\* readRetryableDriveFinalizerFailure: a finalizer of the pending phase that
\* failed and may be retried, by its record and by its latest attempt.
RetryableFailure ==
  \E s \in Graph : /\ Phase(s) = pending.phase
                   /\ step[s].result = "retry" /\ step[s].attempt = "retry"

\* Mutant: the outcome of the result is stored as the status of the step.
StatusVerbatim(r) == IF r \in {"success", "partial"} THEN "completed" ELSE r

StatusFor(r) ==
  CASE r \in {"success", "partial"} -> "completed"
    [] r = "retry"                  -> "ready"
    [] OTHER                        -> r

\* finalizeRun of the scheduler.
RunOutcome ==
  LET statuses == {step[s].status : s \in Graph}
  IN  IF statuses = {"completed"} THEN "completed"
      ELSE IF "blocked" \in statuses THEN "blocked"
      ELSE IF statuses \subseteq {"completed", "failed"} THEN "failed"
      ELSE "running"

IsDone(t) == step[<<"status", t>>].status = "completed"
             /\ step[<<"status", t>>].result = "success"

\* toDriverResult.
DriverOutcome ==
  IF run = "completed" \/ \A s \in Graph : step[s].status = "completed" THEN "completed"
  ELSE IF run = "blocked" THEN "blocked" ELSE "aborted"

HEAD == Len(commits)
Goto(p, l) == pc' = [pc EXCEPT ![p] = l]
Leave(p) == Goto(p, "idle") /\ my' = [my EXCEPT ![p] = Blank]
Mine(p) == my[p].step

\* A handler is done: runDriveOnGraph settles the step when it is back.
Answer(p, r) == Goto(p, "settle") /\ my' = [my EXCEPT ![p].res = r]

Mishap == mishaps > 0 /\ mishaps' = mishaps - 1

------------------------------------------------------------------------------
(* runDriveOnGraph: the plan lock, the passes, the terminal result.        *)

\* The lock is free or breakable; the run is created or taken up.
LockPlan(p) ==
  /\ pc[p] = "lock" /\ planLock \in {Nobody, Dead}
  /\ planLock' = p
  /\ run' = IF run = "none" THEN "running" ELSE run
  /\ Goto(p, "pass")
  /\ UNCHANGED <<policy, step, workdir, worktree, commitLock, my, history, used>>

\* The plan is being driven: the command writes that it was aborted.
LockRefused(p) ==
  /\ pc[p] = "lock" /\ planLock \in Cli
  /\ completion' = "aborted"
  /\ Leave(p)
  /\ UNCHANGED <<policy, records, pending, ended, worktree, locks, history, used>>

\* Mutant: what a dead process left is put back in the queue.
QueueCommitted(p) ==
  /\ pc[p] = "pass" /\ ~RetryableFailure /\ run = "running"
  /\ \E s \in Graph :
       /\ step[s].status = "running" /\ CanCommit(s)
       /\ step' = [step EXCEPT ![s].status = "ready"]
  /\ UNCHANGED <<policy, run, workdir, worktree, locks, pc, my, history, used>>

\* A running step nobody runs is what a dead process left.  It is blocked
\* when it may have committed, and otherwise stays as it is.
BlockCommitted(p) ==
  /\ pc[p] = "pass" /\ ~RetryableFailure /\ run = "running"
  /\ \E s \in Graph :
       /\ step[s].status = "running" /\ CanCommit(s)
       /\ step' = [step EXCEPT ![s].status = "blocked"]
  /\ UNCHANGED <<policy, run, workdir, worktree, locks, pc, my, history, used>>

LeftBehind == {s \in Graph : step[s].status = "running" /\ CanCommit(s)}

StartStep(p) ==
  /\ pc[p] = "pass" /\ ~RetryableFailure /\ run = "running" /\ LeftBehind = {}
  /\ \E s \in Runnable :
       /\ step' = [step EXCEPT ![s].status = "running", ![s].attempt = "open"]
       /\ my' = [my EXCEPT ![p].step = s, ![p].sha = 0]
       /\ Goto(p, Phase(s))
  /\ UNCHANGED <<policy, run, workdir, worktree, locks, history, used>>

Settle(p) ==
  /\ pc[p] = "settle"
  /\ LET r == my[p].res IN
     step' = [step EXCEPT ![Mine(p)] = [status |-> StatusFor(r), result |-> r,
                                        attempt |-> r, sha |-> my[p].sha]]
  /\ Goto(p, "pass")
  /\ my' = [my EXCEPT ![p] = [Blank EXCEPT !.left = my[p].left]]
  /\ UNCHANGED <<policy, run, workdir, worktree, locks, history, used>>

\* beforePass and afterPass stop the run for a finalizer that is to be retried.
StopForFinalizer(p) ==
  /\ pc[p] = "pass" /\ RetryableFailure
  /\ completion' = "finalization_failed"
  /\ Goto(p, "unlock")
  /\ UNCHANGED <<policy, records, pending, ended, worktree, locks, my, history, used>>

\* Nothing is left to do: the scheduler gives the run its outcome.
Drained(p) ==
  /\ pc[p] = "pass" /\ ~RetryableFailure
  /\ run # "running" \/ (LeftBehind = {} /\ Runnable = {})
  /\ run' = IF run = "running" THEN RunOutcome ELSE run
  /\ Goto(p, "result")
  /\ UNCHANGED <<policy, step, workdir, worktree, locks, my, history, used>>

Complete(p) ==
  /\ pc[p] = "result"
  /\ completion' = DriverOutcome
  /\ Goto(p, "unlock")
  /\ UNCHANGED <<policy, records, pending, ended, worktree, locks, my, history, used>>

Unlock(p) ==
  /\ pc[p] = "unlock"
  /\ planLock' = Nobody
  /\ Leave(p)
  /\ UNCHANGED <<policy, records, workdir, worktree, commitLock, history, used>>

------------------------------------------------------------------------------
(* The steps of tasks (drive-scheduler-backend.ts).                        *)

SetFile(t, status) ==
  /\ file' = [file EXCEPT ![t] = status]
  /\ fileDirty' = fileDirty \cup {t}

\* The status of the task cannot be written: the backend throws.
TaskFails(p) ==
  /\ pc[p] = "task" /\ Mishap
  /\ Answer(p, "failed")
  /\ UNCHANGED <<policy, records, workdir, worktree, locks, history,
                 resumes>>

\* A preflight command fails: blocked, and the task's file is as it was.
PreflightFails(p) ==
  /\ pc[p] = "task" /\ Mishap
  /\ Answer(p, "blocked")
  /\ UNCHANGED <<policy, records, workdir, worktree, locks, history,
                 resumes>>

GiveToAgent(p) ==
  /\ pc[p] = "task"
  /\ SetFile(TaskOf(Mine(p)), "In Progress")
  /\ agents' = [agents EXCEPT ![TaskOf(Mine(p))] = @ + 1]
  /\ Goto(p, "agent")
  /\ UNCHANGED <<policy, records, workdir, dirty, commits, locks, my, verified, alone, used>>

\* Mutant: what the agent reports stands, whatever the postflight says.
VerdictAsReported(a, changed) ==
  IF a.exit = "failed" THEN "failed"
  ELSE IF a.report = "partial" \/ (a.report = "success" /\ ~a.unchecked) THEN a.report
  ELSE "blocked"

\* deriveOutcome: a report that cannot be read stands for success when there
\* was a postflight, all of it passed, and what the driver is to commit is there.
Derived(a, changed) ==
  IF a.post = "fail" THEN "failure"
  ELSE IF a.report # "unknown" THEN a.report
  ELSE IF a.post = "pass" /\ (policy.source => changed) THEN "success" ELSE "failure"

\* A success with acceptance criteria unchecked is none.
Verdict(a, changed) ==
  LET outcome == Derived(a, changed)
  IN  IF a.exit = "failed" THEN "failed"
      ELSE IF outcome = "partial" \/ (outcome = "success" /\ ~a.unchecked) THEN outcome
      ELSE "blocked"

\* What comes back from the backend: it fails, is killed at its time limit or
\* exits with an error; or it reports, and the postflight commands are run.
BackendAnswer ==
  [exit: {"ok", "failed"}, report: {"success", "partial", "failure", "unknown"},
   post: {"none", "pass", "fail"}, unchecked: BOOLEAN]

AgentEnds(p) ==
  /\ pc[p] = "agent"
  /\ \E a \in BackendAnswer, changes \in SUBSET {TaskOf(Mine(p))} :
       /\ dirty' = dirty \cup changes
       /\ LET r == Verdict(a, dirty \cup changes # {}) IN
          /\ my' = [my EXCEPT ![p].res = r]
          /\ Goto(p, IF r = "success" THEN "settle" ELSE "report")
          /\ verified' = IF /\ r = "success" /\ a.exit = "ok"
                            /\ a.post # "fail" /\ ~a.unchecked
                         THEN verified \cup {TaskOf(Mine(p))}
                         ELSE verified \ {TaskOf(Mine(p))}
  /\ UNCHANGED <<policy, records, workdir, file, fileDirty, commits, locks,
                 agents, alone, used>>

\* A failure whose reason the worktree contradicts is announced like any other,
\* leaves the task's file alone and is tried once more.
RetryContradicted(p) ==
  /\ pc[p] = "report" /\ policy.retries /\ my[p].head = 0
  /\ ended' = IF my[p].res = "failed" THEN ended
              ELSE ended \cup {TaskOf(Mine(p))}
  /\ my' = [my EXCEPT ![p].head = 1, ![p].res = "none"]
  /\ Goto(p, "agent")
  /\ UNCHANGED <<policy, records, pending, completion, worktree, locks, history, used>>

ReportBlock(p) ==
  /\ pc[p] = "report"
  /\ LET t == TaskOf(Mine(p))
         partial == my[p].res = "partial"
     IN  /\ SetFile(t, IF partial THEN "In Progress" ELSE "Blocked")
         /\ ended' = ended \cup {t}
         /\ Answer(p, IF partial /\ policy.continues THEN "partial" ELSE "blocked")
  /\ UNCHANGED <<policy, records, pending, completion, dirty, commits, locks,
                 history, used>>

------------------------------------------------------------------------------
(* The finalizer of source changes.                                        *)

\* finalizeDriveSourceCommit reads HEAD before it waits for the lock.
CommitBegins(p) ==
  /\ pc[p] = "commit"
  /\ my' = [my EXCEPT ![p].head = HEAD]
  /\ Goto(p, "commit lock")
  /\ UNCHANGED <<policy, records, workdir, worktree, locks, history, used>>

LockCommits(p, from, to) ==
  /\ pc[p] = from /\ commitLock \in {Nobody, Dead}
  /\ commitLock' = p
  /\ Goto(p, to)
  /\ UNCHANGED <<policy, records, workdir, worktree, planLock, my, history, used>>

AddCommit(by, has, files) ==
  /\ commits' = Append(commits, [by |-> by, has |-> has])
  /\ dirty' = dirty \ has
  /\ fileDirty' = fileDirty \ files

\* Under the lock everything but missions/tasks is added and committed.
CommitSource(p) ==
  /\ pc[p] = "git" /\ dirty # {}
  /\ AddCommit(TaskOf(Mine(p)), dirty, {})
  /\ commitLock' = Nobody
  /\ Goto(p, "committed")
  /\ UNCHANGED <<policy, records, workdir, file, planLock, my, history, used>>

NothingToCommit(p) ==
  /\ pc[p] = "git" /\ dirty = {}
  /\ commitLock' = Nobody
  /\ Answer(p, "success")
  /\ UNCHANGED <<policy, records, workdir, worktree, planLock, history, used>>

\* The commit is named by what HEAD is once the lock is released.
NameCommit(p) ==
  /\ pc[p] = "committed"
  /\ my' = [my EXCEPT ![p].res = "success", ![p].sha = HEAD]
  /\ Goto(p, "settle")
  /\ UNCHANGED <<policy, records, workdir, worktree, locks, history, used>>

\* Git fails: the work of a success is kept for a retry, a partial is blocked.
CommitFails(p) ==
  /\ pc[p] = "git" /\ Mishap
  /\ commitLock' = Nobody
  /\ Goto(p, IF step[<<"task", TaskOf(Mine(p))>>].result = "partial"
             THEN "commit blocks" ELSE "commit pends")
  /\ UNCHANGED <<policy, records, workdir, worktree, planLock, my, history,
                 resumes>>

BlockPartial(p) ==
  /\ pc[p] = "commit blocks"
  /\ SetFile(TaskOf(Mine(p)), "Blocked")
  /\ ended' = ended \cup {TaskOf(Mine(p))}
  /\ Answer(p, "blocked")
  /\ UNCHANGED <<policy, records, pending, completion, dirty, commits, locks,
                 history, used>>

PendCommit(p) ==
  /\ pc[p] = "commit pends"
  /\ pending' = [phase |-> "commit", task |-> TaskOf(Mine(p)),
                 head |-> my[p].head, sha |-> 0]
  /\ Goto(p, "commit pending")
  /\ UNCHANGED <<policy, records, completion, ended, worktree, locks, my, history, used>>

NoteCommitPending(p) ==
  /\ pc[p] = "commit pending"
  /\ SetFile(TaskOf(Mine(p)), "In Progress")
  /\ Answer(p, "retry")
  /\ UNCHANGED <<policy, records, workdir, dirty, commits, locks, history, used>>

------------------------------------------------------------------------------
(* The finalizer of a task's status.                                       *)

Committed(t) == step[<<"commit", t>>].sha

Reported(p) == step[<<"task", TaskOf(Mine(p))>>].result

MarkDone(p) ==
  /\ pc[p] = "status" /\ Reported(p) = "success"
  /\ SetFile(TaskOf(Mine(p)), "Done")
  /\ Goto(p, "announce")
  /\ UNCHANGED <<policy, records, workdir, dirty, commits, locks, my, history, used>>

\* A partial that the run goes on after stays In Progress.
KeepPartial(p) ==
  /\ pc[p] = "status" /\ Reported(p) = "partial"
  /\ SetFile(TaskOf(Mine(p)), "In Progress")
  /\ Goto(p, "announce")
  /\ UNCHANGED <<policy, records, workdir, dirty, commits, locks, my, history, used>>

\* task_done, or the task_blocked of a partial.
AnnounceStatus(p) ==
  /\ pc[p] = "announce"
  /\ ended' = ended \cup {TaskOf(Mine(p))}
  /\ Goto(p, "settle")
  /\ my' = [my EXCEPT ![p].res = Reported(p), ![p].sha = Committed(TaskOf(Mine(p)))]
  /\ UNCHANGED <<policy, records, pending, completion, worktree, locks, history, used>>

\* The file or the event cannot be written, of a success or of a partial.  A
\* commit that is known is kept for a retry; without one the finalizer throws.
StatusFails(p) ==
  /\ pc[p] \in {"status", "announce"} /\ Mishap
  /\ LET t == TaskOf(Mine(p)) IN
     IF policy.source /\ Committed(t) # 0
       THEN /\ pending' = [phase |-> "status", task |-> t, head |-> 0,
                           sha |-> Committed(t)]
            /\ Goto(p, "settle")
            /\ my' = [my EXCEPT ![p].res = "retry", ![p].sha = Committed(t)]
       ELSE /\ Answer(p, "failed")
            /\ UNCHANGED pending
  /\ UNCHANGED <<policy, records, completion, ended, worktree, locks, history,
                 resumes>>

------------------------------------------------------------------------------
(* The finalizer of the task files.                                        *)

SkipStateCommit(p) ==
  /\ pc[p] = "state" /\ ~\A t \in Task : IsDone(t)
  /\ Answer(p, "success")
  /\ UNCHANGED <<policy, records, workdir, worktree, locks, history, used>>

StateBegins(p) ==
  /\ pc[p] = "state" /\ \A t \in Task : IsDone(t)
  /\ my' = [my EXCEPT ![p].head = HEAD]
  /\ Goto(p, "state lock")
  /\ UNCHANGED <<policy, records, workdir, worktree, locks, history, used>>

\* commitDriveFinalState, for the graph and for a retry: commits the task
\* files under the lock, and reads HEAD before it releases it.
CommitFiles(p, at, committed, unchanged) ==
  /\ pc[p] = at
  /\ IF fileDirty # {}
       THEN /\ AddCommit(StateCommit, {}, fileDirty)
            /\ my' = [my EXCEPT ![p].res = "success", ![p].sha = HEAD + 1]
            /\ Goto(p, committed)
       ELSE /\ my' = [my EXCEPT ![p].res = "success"]
            /\ Goto(p, unchanged)
            /\ UNCHANGED <<dirty, fileDirty, commits>>
  /\ commitLock' = Nobody
  /\ UNCHANGED <<policy, records, workdir, file, planLock, history, used>>

\* Mutant: a state commit that fails is taken for one with nothing to do.
ForgetState(p) ==
  /\ pc[p] = "state git" /\ Mishap
  /\ commitLock' = Nobody
  /\ Answer(p, "success")
  /\ UNCHANGED <<policy, records, workdir, worktree, planLock, history, resumes>>

PendState(p) ==
  /\ pc[p] = "state git" /\ Mishap
  /\ pending' = [phase |-> "state", task |-> 0, head |-> my[p].head, sha |-> 0]
  /\ commitLock' = Nobody
  /\ Answer(p, "retry")
  /\ UNCHANGED <<policy, records, completion, ended, worktree, planLock, history,
                 resumes>>

------------------------------------------------------------------------------
(* cosmonauts run drive --resume: first the pending finalization.          *)

\* Mutant: the task after the last one that ended is taken for done as well.
ResumeLate(p) ==
  /\ pc[p] = "idle" /\ resumes < MaxResumes
  /\ resumes' = resumes + 1
  /\ alone' = (alone /\ \A q \in Cli : pc[q] = "idle")
  /\ my' = [my EXCEPT ![p].pend = pending,
                      ![p].left = {t \in Task : \A u \in ended : u + 1 < t}]
  /\ Goto(p, CASE pending.phase = "none"   -> "decide"
               [] pending.phase = "commit" -> "retry commit"
               [] pending.phase = "status" -> "retry status"
               [] pending.phase = "state"  -> "retry state")
  /\ UNCHANGED <<policy, records, workdir, worktree, locks, agents, verified, mishaps>>

\* loadResumeDefaults: what is left is what follows the last task with a
\* task_done or a task_blocked.
Resume(p) ==
  /\ pc[p] = "idle" /\ resumes < MaxResumes
  /\ resumes' = resumes + 1
  /\ alone' = (alone /\ \A q \in Cli : pc[q] = "idle")
  /\ my' = [my EXCEPT ![p].pend = pending,
                      ![p].left = {t \in Task : \A u \in ended : u < t}]
  /\ Goto(p, CASE pending.phase = "none"   -> "decide"
               [] pending.phase = "commit" -> "retry commit"
               [] pending.phase = "status" -> "retry status"
               [] pending.phase = "state"  -> "retry state")
  /\ UNCHANGED <<policy, records, workdir, worktree, locks, agents, verified, mishaps>>

\* The durable sink turns the finalize events of a retry into step records.
Opened(s) == [step EXCEPT ![s].status = "running", ![s].attempt = "open"]
Passed(s, sha) == [step EXCEPT ![s] = [status |-> "completed", result |-> "success",
                                      attempt |-> "success", sha |-> sha]]
FailedAgain(s) == [step EXCEPT ![s].status = "failed", ![s].result = "retry",
                              ![s].attempt = "retry"]

RetryFails(p, s) ==
  /\ step' = FailedAgain(s)
  /\ completion' = "finalization_failed"
  /\ Leave(p)

RetryCommit(p) ==
  /\ pc[p] = "retry commit"
  /\ step' = Opened(<<"commit", my[p].pend.task>>)
  /\ Goto(p, "retry commit lock")
  /\ UNCHANGED <<policy, run, workdir, worktree, locks, my, history, used>>

\* Whatever is in the worktree is committed under the subject that is pending.
CommitPending(p) ==
  /\ pc[p] = "retry git" /\ dirty # {}
  /\ AddCommit(my[p].pend.task, dirty, {})
  /\ my' = [my EXCEPT ![p].sha = HEAD + 1]
  /\ commitLock' = Nobody
  /\ Goto(p, "accept")
  /\ UNCHANGED <<policy, records, workdir, file, planLock, history, used>>

\* There is nothing to commit: someone may have committed it elsewhere.
FindNothing(p) ==
  /\ pc[p] = "retry git" /\ dirty = {}
  /\ commitLock' = Nobody
  /\ Goto(p, "check head")
  /\ UNCHANGED <<policy, records, workdir, worktree, planLock, my, history, used>>

CheckHead(p) ==
  /\ pc[p] = "check head"
  /\ IF HEAD # my[p].pend.head
       THEN /\ my' = [my EXCEPT ![p].sha = HEAD]
            /\ Goto(p, "accept")
            /\ UNCHANGED <<step, completion>>
       ELSE RetryFails(p, <<"commit", my[p].pend.task>>)
  /\ UNCHANGED <<policy, run, pending, ended, worktree, locks, history, used>>

CommitFailsAgain(p) ==
  /\ pc[p] = "retry git" /\ Mishap
  /\ commitLock' = Nobody
  /\ RetryFails(p, <<"commit", my[p].pend.task>>)
  /\ UNCHANGED <<policy, run, pending, ended, worktree, planLock, history,
                 resumes>>

AcceptCommit(p) ==
  /\ pc[p] = "accept"
  /\ step' = Passed(<<"commit", my[p].pend.task>>, my[p].sha)
  /\ Goto(p, "retry status")
  /\ UNCHANGED <<policy, run, workdir, worktree, locks, my, history, used>>

\* finalizePendingTaskStatus.  A failure is recorded with the status step; the
\* pending file still says what it said.
RetryStatus(p) ==
  /\ pc[p] = "retry status"
  /\ step' = Opened(<<"status", my[p].pend.task>>)
  /\ SetFile(my[p].pend.task, "Done")
  /\ Goto(p, "status passed")
  /\ UNCHANGED <<policy, run, workdir, dirty, commits, locks, my, history, used>>

StatusFailsAgain(p) ==
  /\ pc[p] \in {"retry status", "status passed"} /\ Mishap
  /\ RetryFails(p, <<"status", my[p].pend.task>>)
  /\ UNCHANGED <<policy, run, pending, ended, worktree, locks, history,
                 resumes>>

StatusPassed(p) ==
  /\ pc[p] = "status passed"
  /\ step' = Passed(<<"status", my[p].pend.task>>, my[p].sha)
  /\ ended' = ended \cup {my[p].pend.task}
  /\ Goto(p, "clear")
  /\ UNCHANGED <<policy, run, pending, completion, worktree, locks, my, history, used>>

RetryState(p) ==
  /\ pc[p] = "retry state"
  /\ step' = Opened(<<"state", 0>>)
  /\ Goto(p, "retry state lock")
  /\ UNCHANGED <<policy, run, workdir, worktree, locks, my, history, used>>

StateFailsAgain(p) ==
  /\ pc[p] = "retry state git" /\ Mishap
  /\ commitLock' = Nobody
  /\ RetryFails(p, <<"state", 0>>)
  /\ UNCHANGED <<policy, run, pending, ended, worktree, planLock, history,
                 resumes>>

StatePassed(p) ==
  /\ pc[p] = "state passed"
  /\ step' = Passed(<<"state", 0>>, my[p].sha)
  /\ Goto(p, "clear")
  /\ UNCHANGED <<policy, run, workdir, worktree, locks, my, history, used>>

\* acceptExternalStateCommit: the files are committed, all of them Done, by a
\* commit that is not the one the failed attempt started from.
AcceptFiles(p) ==
  /\ pc[p] = "check files"
  /\ IF /\ \A t \in Task : file[t] = "Done"
        /\ fileDirty = {}
        /\ HEAD # my[p].pend.head
       THEN /\ step' = Passed(<<"state", 0>>, HEAD)
            /\ Goto(p, "clear")
            /\ UNCHANGED <<completion, my>>
       ELSE RetryFails(p, <<"state", 0>>)
  /\ UNCHANGED <<policy, run, pending, ended, worktree, locks, history, used>>

ClearPending(p) ==
  /\ pc[p] = "clear"
  /\ pending' = NoPending
  /\ my' = [my EXCEPT ![p].left = IF my[p].pend.phase = "state" THEN @
                                  ELSE {t \in @ : t > my[p].pend.task}]
  /\ Goto(p, "decide")
  /\ UNCHANGED <<policy, records, completion, ended, worktree, locks, history, used>>

------------------------------------------------------------------------------
(* Then the run itself.                                                    *)

\* prepareResume: what was pending was the last thing left.
ResumeCompletes(p) ==
  /\ pc[p] = "decide" /\ my[p].left = {} /\ my[p].pend # NoPending
  /\ completion' = "completed"
  /\ Leave(p)
  /\ UNCHANGED <<policy, records, pending, ended, worktree, locks, history, used>>

\* Nothing is left and the terminal result is there: it is written once more.
ResumeRepeats(p) ==
  /\ pc[p] = "decide" /\ my[p].left = {} /\ my[p].pend = NoPending
  /\ completion # "none"
  /\ Leave(p)
  /\ UNCHANGED <<policy, records, workdir, worktree, locks, history, used>>

\* The terminal result is removed, before anything is refused.
ResumeContinues(p) ==
  /\ pc[p] = "decide"
  /\ my[p].left # {} \/ (my[p].pend = NoPending /\ completion = "none")
  /\ completion' = "none"
  /\ Goto(p, "dirty")
  /\ UNCHANGED <<policy, records, pending, ended, worktree, locks, my, history, used>>

RefuseDirty(p) ==
  /\ pc[p] = "dirty" /\ dirty \cup fileDirty # {}
  /\ Leave(p)
  /\ UNCHANGED <<policy, records, workdir, worktree, locks, history, used>>

\* The worktree is clean, or --resume-dirty is given.
Prepare(p) ==
  /\ pc[p] = "dirty"
  /\ completion' = "none"
  /\ Goto(p, "lock")
  /\ UNCHANGED <<policy, records, pending, ended, worktree, locks, my, history, used>>

------------------------------------------------------------------------------
(* What happens around the run.                                            *)

Crash(p) ==
  /\ pc[p] # "idle" /\ Mishap
  /\ planLock' = IF planLock = p THEN Dead ELSE planLock
  /\ commitLock' = IF commitLock = p THEN Dead ELSE commitLock
  /\ Leave(p)
  /\ UNCHANGED <<policy, records, workdir, worktree, history, resumes>>

\* A commit made outside Drive, of source changes, of task files or of neither.
CommitOutside ==
  /\ Mishap
  /\ \E has \in {{}, dirty}, files \in {{}, fileDirty} : AddCommit(Outside, has, files)
  /\ UNCHANGED <<policy, records, workdir, file, locks, pc, my, history, resumes>>

Init ==
  /\ \E c \in Scenarios : policy = c.policy /\ mishaps = c.mishaps
  /\ run = "none"
  /\ step = [s \in Step |-> [status |-> "pending", result |-> "none",
                             attempt |-> "none", sha |-> 0]]
  /\ pending = NoPending /\ completion = "none" /\ ended = {}
  /\ file = [t \in Task |-> "To Do"] /\ fileDirty = {}
  /\ dirty = {} /\ commits = <<>>
  /\ planLock = Nobody /\ commitLock = Nobody
  /\ \E p \in Cli : pc = [q \in Cli |-> IF q = p THEN "lock" ELSE "idle"]
  /\ my = [p \in Cli |-> Blank]
  /\ agents = [t \in Task |-> 0] /\ verified = {} /\ alone = TRUE
  /\ resumes = 0

GraphStep(p) ==
  \/ LockPlan(p) \/ LockRefused(p) \/ BlockCommitted(p) \/ StartStep(p)
  \/ Settle(p) \/ StopForFinalizer(p) \/ Drained(p) \/ Complete(p) \/ Unlock(p)

TaskWork(p) ==
  \/ TaskFails(p) \/ PreflightFails(p) \/ GiveToAgent(p) \/ AgentEnds(p)
  \/ RetryContradicted(p) \/ ReportBlock(p)

Finalize(p) ==
  \/ CommitBegins(p) \/ LockCommits(p, "commit lock", "git") \/ CommitSource(p)
  \/ NothingToCommit(p) \/ NameCommit(p) \/ CommitFails(p) \/ BlockPartial(p)
  \/ PendCommit(p) \/ NoteCommitPending(p)
  \/ MarkDone(p) \/ KeepPartial(p) \/ AnnounceStatus(p) \/ StatusFails(p)
  \/ SkipStateCommit(p) \/ StateBegins(p)
  \/ LockCommits(p, "state lock", "state git")
  \/ CommitFiles(p, "state git", "settle", "settle") \/ PendState(p)

Retry(p) ==
  \/ RetryCommit(p) \/ LockCommits(p, "retry commit lock", "retry git")
  \/ CommitPending(p) \/ FindNothing(p) \/ CheckHead(p) \/ CommitFailsAgain(p)
  \/ AcceptCommit(p) \/ RetryStatus(p) \/ StatusFailsAgain(p) \/ StatusPassed(p)
  \/ RetryState(p) \/ LockCommits(p, "retry state lock", "retry state git")
  \/ CommitFiles(p, "retry state git", "state passed", "check files")
  \/ StateFailsAgain(p) \/ StatePassed(p) \/ AcceptFiles(p) \/ ClearPending(p)

Continue(p) ==
  \/ ResumeCompletes(p) \/ ResumeRepeats(p) \/ ResumeContinues(p)
  \/ RefuseDirty(p) \/ Prepare(p)

Proceed(p) == GraphStep(p) \/ TaskWork(p) \/ Finalize(p) \/ Retry(p) \/ Continue(p)

Next ==
  \/ \E p \in Cli : Proceed(p) \/ Resume(p) \/ Crash(p)
  \/ CommitOutside

Spec == Init /\ [][Next]_vars

------------------------------------------------------------------------------
Place ==
  {"idle", "lock", "pass", "settle", "result", "unlock", "task", "agent",
   "report", "commit", "commit lock", "git", "committed", "commit blocks",
   "commit pends", "commit pending", "status", "announce", "state",
   "state lock", "state git", "retry commit", "retry commit lock", "retry git",
   "check head", "accept", "retry status", "status passed", "retry state",
   "retry state lock", "retry state git", "state passed", "check files",
   "clear", "decide", "dirty"}

PendingRec == [phase: {"none", "commit", "status", "state"}, task: 0..N,
               head: Nat, sha: Nat]

TypeOK ==
  /\ policy \in Policy
  /\ run \in {"none", "running", "completed", "blocked", "failed"}
  /\ step \in [Step -> [status: {"pending", "ready", "running", "completed",
                                 "blocked", "failed"},
                        result: {"none"} \cup Result,
                        attempt: {"none", "open"} \cup Result, sha: Nat]]
  /\ pending \in PendingRec
  /\ completion \in {"none", "completed", "blocked", "aborted", "finalization_failed"}
  /\ ended \subseteq Task /\ fileDirty \subseteq Task /\ dirty \subseteq Task
  /\ file \in [Task -> {"To Do", "In Progress", "Done", "Blocked"}]
  /\ commits \in Seq([by: 0..(N + 1), has: SUBSET Task])
  /\ planLock \in Cli \cup {Nobody, Dead} /\ commitLock \in Cli \cup {Nobody, Dead}
  /\ pc \in [Cli -> Place]
  /\ my \in [Cli -> [step: Step, res: {"none"} \cup Result, head: Nat, sha: Nat,
                     pend: PendingRec, left: SUBSET Task]]
  /\ agents \in [Task -> Nat] /\ verified \subseteq Task /\ alone \in BOOLEAN

------------------------------------------------------------------------------
(* Properties.  Retries hold no plan lock, so some of them need that no     *)
(* process was started while another was at work.                          *)

\* When the driver commits, a task is Done only when none of its changes is
\* left out of the commits, whoever marked it: finalizer or retry.
WorkCommittedBeforeDone ==
  policy.source => \A t \in Task : file[t] = "Done" => t \notin dirty

\* A task is marked Done when its last answer was a success that no check
\* contradicted: no failing agent, no failing postflight command, no criteria
\* left unchecked.  The one exception is a partial that the run goes on after
\* and that is committed: when its status cannot be written, what is pending no
\* longer says that it was a partial, and a resumed run marks it Done.
DoneWasVerified ==
  \A t \in Task : file[t] = "Done" =>
    \/ t \in verified
    \/ /\ policy.source /\ policy.continues /\ Committed(t) # 0
       /\ step[<<"task", t>>].result = "partial"

\* Not what holds: that a Done task was verified, whatever failed on the way.
DoneIsVerified == \A t \in Task : file[t] = "Done" => t \in verified

\* However often a run dies and is resumed, the backend is given no task twice:
\* a retry of a finalizer never runs the agent again.  (The one repetition after
\* a contradicted failure is part of the same step.)
GivenOnce == \A t \in Task : agents[t] <= 1

\* A commit under a task's subject holds changes of that task alone.
OwnWorkOnly ==
  alone => \A i \in DOMAIN commits :
             commits[i].by \in Task => commits[i].has \subseteq {commits[i].by}

Settled(t) ==
  \/ file[t] = "Done"
  \/ policy.continues /\ step[<<"task", t>>].result = "partial"

\* A run that is said to be completed, by its record or by its terminal
\* result, has every task Done, or partial where that lets the run go on.
CompletedMeansDone ==
  alone /\ "completed" \in {run, completion} => \A t \in Task : Settled(t)

AllDone == \A t \in Task : file[t] = "Done"

\* A graph that completed with every task Done has committed their files.
FilesCommitted ==
  alone /\ run = "completed" /\ policy.state /\ AllDone => fileDirty = {}

\* What the README says of the terminal result: the state commit comes after
\* all the tasks were finalized.  A retry of the last task's commit or status
\* ends the run as completed and never makes it.
CompletedFilesCommitted ==
  alone /\ completion = "completed" /\ policy.state /\ AllDone => fileDirty = {}

=============================================================================
