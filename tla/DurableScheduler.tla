-------------------------- MODULE DurableScheduler --------------------------
(***************************************************************************)
(* The durable graph scheduler of lib/durable-runtime: runStart calls      *)
(* runDurableGraphScheduler pass after pass until the run is over, and     *)
(* each pass reads the persisted records of the run, repairs what a dead   *)
(* process left behind, starts the runnable steps and records how they     *)
(* ended.                                                                  *)
(*                                                                         *)
(* Everything a pass knows it reads from files, and every file is written  *)
(* by an await of its own.  The model therefore has one action per write,  *)
(* so that a crash, or a step of another process, can come between any two *)
(* of them.  What a pass read at its start (view) is kept apart from what  *)
(* the files hold now (step), since the code writes records back from it.  *)
(*                                                                         *)
(* Left out: titles, summaries, artifacts and diagnostics; the snapshot    *)
(* scheduler.json, which every pass rebuilds and no decision reads; damaged*)
(* or missing step records.                                                *)
(***************************************************************************)
EXTENDS Integers, Sequences, FiniteSets

CONSTANTS
  N,               \* number of steps; a step is its position in graph.steps
  Deps,            \* dependsOn of each step
  Holder,          \* holderIds of the processes that may run the scheduler
  NoHolder,        \* the absent lease
  Exclusive,       \* TRUE when a lock lets one process at a time run the run
  MaxAttempts,     \* effectiveMaxAttempts of each step
  MaxParallel,     \* policy.maxParallelSteps
  SharedWorktree,  \* policy.worktree.mode is "shared"
  Isolated,        \* steps whose backend is isolatedFromHostSource
  CanCommit,       \* steps whose backend canCommit
  CanCancel,       \* steps whose backend canCancel
  Registered,      \* steps whose backend has an adapter in this invocation
  Unknown,         \* steps whose backend is the sentinel "unknown"
  StaleDetection,  \* policy.staleHeartbeatMs is set
  RetryCommitted,  \* policy.retryPotentiallyCommittedSteps
  HeartbeatTimer,  \* heartbeatIntervalMs is set
  HasSignal,       \* an AbortSignal is given
  Answers,         \* bound: the results the backends return
  MaxCrashes,      \* bound: how many times a process may die
  MaxOpened,       \* bound: how many attempts of a step are opened
  Restarts         \* bound: whether a stopped process may be started again

Step == 1..N

ASSUME SchedulerAssumption ==
  /\ N \in Nat \ {0}
  /\ Deps \in [Step -> SUBSET Step]
  /\ NoHolder \notin Holder
  /\ MaxAttempts \in [Step -> Nat \ {0}]
  /\ MaxParallel \in Nat \ {0}
  /\ Isolated \subseteq Step /\ CanCommit \subseteq Step
  /\ CanCancel \subseteq Step
  /\ Registered \subseteq Step /\ Unknown \subseteq Step
  /\ Registered \cap Unknown = {}
  /\ {Exclusive, SharedWorktree, StaleDetection, RetryCommitted,
      HeartbeatTimer, HasSignal, Restarts} \subseteq BOOLEAN
  /\ Answers \subseteq {"success", "failed", "cancelled", "retry", "unclear"}
  /\ MaxCrashes \in Nat /\ MaxOpened \in Nat

EndStatus == {"completed", "blocked", "failed", "cancelled", "stale"}
StepStatus == {"pending", "ready", "running"} \cup EndStatus

(***************************************************************************)
(* What a StepResult means to the scheduler: "retry" is any result with    *)
(* nextAction retry, "unclear" one that is partial, unknown, blocked,      *)
(* malformed or asks for a human.                                          *)
(***************************************************************************)
Result == {"success", "failed", "cancelled", "retry", "unclear"}
AttemptState == {"open"} \cup Result

StepRecord == [status: StepStatus, lease: Holder \cup {NoHolder}, latest: Nat]
Event == {"step_ready", "step_end"} \X Step

VARIABLES
  run,        \* status of run.json
  step,       \* steps/<id>/step.json
  attempt,    \* steps/<id>/attempts: per step, the attempts in order
  heartbeat,  \* steps/<id>/heartbeat.json: none, fresh, or older than the policy
  owed,       \* ready transitions written minus step_ready events appended
  ended,      \* steps with a terminal event in events.jsonl
  outcomes,   \* outcomes with a terminal run event in events.jsonl
  launched,   \* history: the attempts whose backend was started
  succeeded,  \* history: the steps whose backend returned success
  crashes,    \* history: how many processes died
  pc,         \* where each process is in its pass
  view,       \* the step records it read when the pass began
  todo,       \* steps the loop it is in has yet to examine
  changed,    \* whether that loop wrote anything
  queue,      \* steps it has yet to start
  execs,      \* executions it started and has yet to finish
  number,     \* attemptNumber of each of its executions
  live,       \* backend handle of each of its executions
  emit,       \* the event it appends next, after the record it announces
  decided,    \* the outcome finalizeRun is writing
  after,      \* where finalizeRun returns to when the run is not over
  abort,      \* its AbortSignal
  renewal     \* the step record its heartbeat renewal read

store == <<run, step, attempt, heartbeat>>
log == <<owed, ended, outcomes>>
history == <<launched, succeeded, crashes>>
local == <<view, todo, changed, queue, execs, number, live, emit, decided,
           after, abort, renewal>>
vars == <<store, log, history, pc, local>>

------------------------------------------------------------------------------
(* Helpers of the scheduler that read, and write nothing.                  *)

First(S) == CHOOSE s \in S : \A t \in S : s <= t
After(S, s) == {t \in S : t > s}
FirstOf(S, k) == {s \in S : Cardinality({t \in S : t < s}) < k}

WithStatus(v, status) == {s \in Step : v[s].status = status}

\* Mutant: a dependency that ended badly counts as done.
UnblockedByAnyEnd(v) ==
  {s \in WithStatus(v, "pending") : \A d \in Deps[s] : v[d].status \in EndStatus}

\* Pending steps whose dependencies were all completed when they were read.
Unblocked(v) ==
  {s \in WithStatus(v, "pending") : \A d \in Deps[s] : v[d].status = "completed"}

\* The attempt whose recorded result decides the step: the one the record
\* names or, when it names none, the last that has a result; 0 if there is none.
TerminalAttempt(s, latest) ==
  LET terminal == {n \in DOMAIN attempt[s] : attempt[s][n] \in Result}
  IN  IF latest # 0
        THEN IF latest \in terminal THEN latest ELSE 0
        ELSE IF terminal = {} THEN 0
             ELSE CHOOSE n \in terminal : \A m \in terminal : m <= n

\* Mutant: the outcome of the result is stored as the status of the step.
TransitionVerbatim(s, n, r) ==
  CASE r = "retry" /\ n < MaxAttempts[s] -> "ready"
    [] r = "success" -> "completed"
    [] OTHER -> r

\* The status a step takes when its n-th attempt ended with result r.
Transition(s, n, r) ==
  CASE r = "retry"     -> IF n < MaxAttempts[s] THEN "ready" ELSE "blocked"
    [] r = "unclear"   -> "blocked"
    [] r = "success"   -> "completed"
    [] r = "failed"    -> "failed"
    [] r = "cancelled" -> "cancelled"

\* Mutant: the run is over as soon as no step is ready or running.
OutcomeOnceIdle(v) ==
  LET statuses == {v[s].status : s \in Step}
  IN  IF statuses \cap {"ready", "running"} # {} THEN "running"
      ELSE IF statuses = {"completed"} THEN "completed"
      ELSE IF "blocked" \in statuses THEN "blocked" ELSE "failed"

\* Mutant: one completed step completes a run that is over.
OutcomeOfSome(v) ==
  LET statuses == {v[s].status : s \in Step}
  IN  IF ~(statuses \subseteq EndStatus) THEN "running"
      ELSE IF "completed" \in statuses THEN "completed"
      ELSE IF "blocked" \in statuses THEN "blocked" ELSE "failed"

\* Mutant: a blocked step does not end a run that has pending steps.
OutcomeAllEnded(v) ==
  LET statuses == {v[s].status : s \in Step}
  IN  IF ~(statuses \subseteq EndStatus) THEN "running"
      ELSE IF statuses = {"completed"} THEN "completed"
      ELSE IF "blocked" \in statuses THEN "blocked" ELSE "failed"

\* The outcome finalizeRun gives the run, "running" while it is not over.
Outcome(v) ==
  LET statuses == {v[s].status : s \in Step}
      over == \/ statuses \subseteq EndStatus
              \/ "blocked" \in statuses /\ statuses \cap {"ready", "running"} = {}
  IN  CASE ~over                    -> "running"
        [] statuses = {"completed"} -> "completed"
        [] OTHER ->
             IF "blocked" \in statuses THEN "blocked"
             ELSE IF "failed" \in statuses THEN "failed"
             ELSE IF "cancelled" \in statuses THEN "cancelled"
             ELSE "stale"

Runnable(h) ==
  {s \in WithStatus(view[h], "ready") : view[h][s].lease \in {NoHolder, h}}

Planned(h) == Runnable(h) \cap Registered

SafeToShare == Isolated \ CanCommit

Limit(h) ==
  IF SharedWorktree /\ ~(Planned(h) \subseteq SafeToShare) THEN 1 ELSE MaxParallel

\* Mutant: the steps that are running already take no slot.
SlotsUnreduced(h) == Limit(h)

Slots(h) == Limit(h) - Cardinality(WithStatus(view[h], "running"))

OwnRunning(h) ==
  {s \in WithStatus(view[h], "running") : view[h][s].lease = h}

OthersRunning(h) ==
  {s \in WithStatus(view[h], "running") : view[h][s].lease # h}

NoRenewal == [step |-> 0]

InitialRecords ==
  [s \in Step |-> [status |-> "pending", lease |-> NoHolder, latest |-> 0]]

Goto(h, p) == pc' = [pc EXCEPT ![h] = p]

\* What runStart does after a pass that drained: another one, unless aborted.
AfterDrain(h) == IF abort[h] THEN "exit" ELSE "idle"

\* A step record is replaced on disk; e is the event that will announce it.
Write(h, s, r, e) ==
  /\ step' = [step EXCEPT ![s] = r]
  /\ emit' = [emit EXCEPT ![h] = {<<e, s>>}]
  /\ owed' = IF r.status = "ready" /\ step[s].status # "ready"
               THEN [owed EXCEPT ![s] = @ + 1] ELSE owed

Announcing(status) == IF status = "ready" THEN "step_ready" ELSE "step_end"

\* h is at p, and the event of its last write is in the log.
At(h, p) == pc[h] = p /\ emit[h] = {}

------------------------------------------------------------------------------
(* The beginning of a pass: load the run, reconcile, promote.              *)

Load(h) ==
  /\ At(h, "idle")
  /\ IF run # "running"
       THEN Goto(h, "exit") /\ UNCHANGED view
       ELSE Goto(h, "reconcile") /\ view' = [view EXCEPT ![h] = step]
  /\ UNCHANGED <<store, log, history, todo, changed, queue, execs, number, live,
                 emit, decided, after, abort, renewal>>

MarkReady(h) ==
  /\ \/ At(h, "reconcile")
     \/ At(h, "recheck")
  /\ Unblocked(view[h]) # {}
  /\ LET s == First(Unblocked(view[h]))
         r == [view[h][s] EXCEPT !.status = "ready"]
     IN  /\ Write(h, s, r, "step_ready")
         /\ view' = [view EXCEPT ![h][s] = r]
  /\ UNCHANGED <<run, attempt, heartbeat, ended, outcomes, history, pc, todo,
                 changed, queue, execs, number, live, decided, after, abort,
                 renewal>>

Reconciled(h) ==
  /\ \/ At(h, "reconcile") /\ Goto(h, "promote")
     \/ At(h, "recheck") /\ Goto(h, "finalize")
  /\ Unblocked(view[h]) = {}
  /\ todo' = [todo EXCEPT ![h] = Step]
  /\ after' = [after EXCEPT ![h] = "committed"]
  /\ UNCHANGED <<store, log, history, view, changed, queue, execs, number, live,
                 emit, decided, abort, renewal>>

AppendEvent(h) ==
  \E e \in emit[h] :
    /\ emit' = [emit EXCEPT ![h] = {}]
    /\ IF e[1] = "step_ready"
         THEN /\ owed' = [owed EXCEPT ![e[2]] = IF @ > -1 THEN @ - 1 ELSE @]
              /\ UNCHANGED ended
         ELSE ended' = ended \cup {e[2]} /\ UNCHANGED owed
    /\ UNCHANGED <<store, outcomes, history, pc, view, todo, changed, queue,
                   execs, number, live, decided, after, abort, renewal>>

Promotable(h) ==
  {s \in todo[h] : /\ view[h][s].status \notin EndStatus
                   /\ TerminalAttempt(s, view[h][s].latest) # 0}

Promote(h) ==
  /\ At(h, "promote")
  /\ Promotable(h) # {}
  /\ LET s == First(Promotable(h))
         n == TerminalAttempt(s, view[h][s].latest)
         status == Transition(s, n, attempt[s][n])
     IN  /\ Write(h, s, [status |-> status, lease |-> NoHolder, latest |-> n],
                  Announcing(status))
         /\ todo' = [todo EXCEPT ![h] = After(@, s)]
         /\ changed' = [changed EXCEPT ![h] = TRUE]
  /\ UNCHANGED <<run, attempt, heartbeat, ended, outcomes, history, pc, view,
                 queue, execs, number, live, decided, after, abort, renewal>>

\* A second reconciliation, and a finalization, follow a promotion.
Promoted(h) ==
  /\ At(h, "promote")
  /\ Promotable(h) = {}
  /\ IF changed[h]
       THEN Goto(h, "recheck") /\ view' = [view EXCEPT ![h] = step]
       ELSE Goto(h, "committed") /\ UNCHANGED view
  /\ todo' = [todo EXCEPT ![h] = Step]
  /\ changed' = [changed EXCEPT ![h] = FALSE]
  /\ UNCHANGED <<store, log, history, queue, execs, number, live, emit, decided,
                 after, abort, renewal>>

------------------------------------------------------------------------------
(* The guards of a pass: three loops that take out of the graph the steps  *)
(* that must not run.                                                      *)

PotentiallyCommitted(h) ==
  {s \in todo[h] :
     /\ ~RetryCommitted
     /\ view[h][s].status = "running"
     /\ s \in Registered \cap CanCommit
     /\ TerminalAttempt(s, view[h][s].latest) = 0
     /\ heartbeat[s] = "none" \/ (StaleDetection /\ heartbeat[s] = "old")}

Stale(h) ==
  {s \in todo[h] :
     /\ StaleDetection
     /\ view[h][s].status = "running"
     /\ view[h][s].lease # NoHolder
     /\ heartbeat[s] = "old"}

UnknownBackend(h) == {s \in todo[h] : view[h][s].status = "ready" /\ s \in Unknown}

\* One iteration of such a loop: a step of S takes the given status, and its
\* lease is dropped when the code drops it.
GuardStep(h, p, S, status, release) ==
  /\ At(h, p)
  /\ S # {}
  /\ LET s == First(S)
         r == [view[h][s] EXCEPT !.status = status,
                                 !.lease = IF release THEN NoHolder ELSE @]
     IN  /\ Write(h, s, r, "step_end")
         /\ todo' = [todo EXCEPT ![h] = After(@, s)]
  /\ changed' = [changed EXCEPT ![h] = TRUE]
  /\ UNCHANGED <<run, attempt, heartbeat, ended, outcomes, history, pc, view,
                 queue, execs, number, live, decided, after, abort, renewal>>

\* The loop ends: finalize when it wrote something, else go to the next one.
GuardDone(h, p, S, nextGuard, afterWrite, otherwise) ==
  /\ At(h, p)
  /\ S = {}
  /\ Goto(h, IF changed[h] THEN "finalize" ELSE nextGuard)
  /\ after' = [after EXCEPT ![h] = IF changed[h] THEN afterWrite ELSE otherwise]
  /\ todo' = [todo EXCEPT ![h] = Step]
  /\ changed' = [changed EXCEPT ![h] = FALSE]
  /\ UNCHANGED <<store, log, history, view, queue, execs, number, live, emit,
                 decided, abort, renewal>>

BlockCommitted(h) ==
  \/ GuardStep(h, "committed", PotentiallyCommitted(h), "blocked", TRUE)
  \/ GuardDone(h, "committed", PotentiallyCommitted(h), "stale", "exit",
               after[h])

\* Mutant: stale work is put back in the queue.
MarkStaleReady(h) ==
  \/ GuardStep(h, "stale", Stale(h), "ready", TRUE)
  \/ GuardDone(h, "stale", Stale(h), "unknown", "drained", after[h])

MarkStale(h) ==
  \/ GuardStep(h, "stale", Stale(h), "stale", TRUE)
  \/ GuardDone(h, "stale", Stale(h), "unknown", "drained", after[h])

BlockUnknown(h) ==
  \/ GuardStep(h, "unknown", UnknownBackend(h), "blocked", FALSE)
  \/ GuardDone(h, "unknown", UnknownBackend(h), "finalize", "drained", "renew")

------------------------------------------------------------------------------
(* finalizeRun: decide from the records as they are, append the run's      *)
(* event, then save its status.                                            *)

Finalize(h) ==
  /\ At(h, "finalize")
  /\ IF run # "running" THEN Goto(h, "exit") /\ UNCHANGED decided
     ELSE IF Outcome(step) # "running"
       THEN Goto(h, "announce") /\ decided' = [decided EXCEPT ![h] = Outcome(step)]
       ELSE /\ Goto(h, IF after[h] = "drained" THEN AfterDrain(h) ELSE after[h])
            /\ UNCHANGED decided
  /\ UNCHANGED <<store, log, history, view, todo, changed, queue, execs, number,
                 live, emit, after, abort, renewal>>

AnnounceRun(h) ==
  /\ At(h, "announce")
  /\ outcomes' = outcomes \cup {decided[h]}
  /\ Goto(h, "save")
  /\ UNCHANGED <<store, owed, ended, history, local>>

SaveRun(h) ==
  /\ At(h, "save")
  /\ run' = decided[h]
  /\ Goto(h, "exit")
  /\ UNCHANGED <<step, attempt, heartbeat, log, history, local>>

------------------------------------------------------------------------------
(* Renewals: of a running step the process already holds, when a pass      *)
(* finds one, and of its executions when a heartbeat timer is set.  The    *)
(* record is read, and written back by a later await.                      *)

MayRenew(h, s) == step[s].status = "running" /\ step[s].lease = h

\* A renewed pass has nothing else to do: runStart stops.
RenewOwned(h) ==
  /\ At(h, "renew")
  /\ LET s == First(OwnRunning(h))
     IN  IF OwnRunning(h) # {} /\ MayRenew(h, s)
           THEN /\ Goto(h, "renewing")
                /\ renewal' = [renewal EXCEPT ![h] = [step |-> s, rec |-> step[s]]]
           ELSE Goto(h, "plan") /\ UNCHANGED renewal
  /\ UNCHANGED <<store, log, history, view, todo, changed, queue, execs, number,
                 live, emit, decided, after, abort>>

\* The execution whose result is being recorded has its timer cleared.
Ticking(h) ==
  IF pc[h] \in {"preserve", "record", "settle"}
    THEN execs[h] \ {First(execs[h])} ELSE execs[h]

\* Bound: a process has at most one renewal in flight.
RenewTick(h) ==
  /\ HeartbeatTimer
  /\ renewal[h] = NoRenewal
  /\ \E s \in Ticking(h) :
       /\ MayRenew(h, s)
       /\ renewal' = [renewal EXCEPT ![h] = [step |-> s, rec |-> step[s]]]
  /\ UNCHANGED <<store, log, history, pc, view, todo, changed, queue, execs,
                 number, live, emit, decided, after, abort>>

RenewWrite(h) ==
  /\ renewal[h] # NoRenewal
  /\ step' = [step EXCEPT ![renewal[h].step] = renewal[h].rec]
  /\ heartbeat' = [heartbeat EXCEPT ![renewal[h].step] = "fresh"]
  /\ renewal' = [renewal EXCEPT ![h] = NoRenewal]
  /\ IF pc[h] = "renewing" THEN Goto(h, "exit") ELSE UNCHANGED pc
  /\ UNCHANGED <<run, attempt, log, history, view, todo, changed, queue, execs,
                 number, live, emit, decided, after, abort>>

------------------------------------------------------------------------------
(* Starting the planned steps, one after the other.                        *)

Plan(h) ==
  /\ At(h, "plan")
  /\ IF Runnable(h) = {}
       THEN /\ Goto(h, IF OthersRunning(h) # {} THEN "exit" ELSE AfterDrain(h))
            /\ UNCHANGED queue
     ELSE IF Slots(h) <= 0 THEN Goto(h, "exit") /\ UNCHANGED queue
     ELSE /\ Goto(h, "start")
          /\ queue' = [queue EXCEPT ![h] = FirstOf(Planned(h), Slots(h))]
  /\ UNCHANGED <<store, log, history, view, todo, changed, execs, number, live,
                 emit, decided, after, abort, renewal>>

\* The next planned step gets the number after the attempts listed now.
StartStep(h) ==
  /\ At(h, "start")
  /\ queue[h] # {}
  /\ LET s == First(queue[h])
     IN  number' = [number EXCEPT ![h][s] = Len(attempt[s]) + 1]
  /\ Goto(h, "open")
  /\ UNCHANGED <<store, log, history, view, todo, changed, queue, execs, live,
                 emit, decided, after, abort, renewal>>

OpenAttempt(h) ==
  /\ At(h, "open")
  /\ LET s == First(queue[h])
         n == number[h][s]
     IN  /\ n <= MaxOpened
         /\ attempt' = [attempt EXCEPT ![s] =
                           IF n <= Len(@) THEN [@ EXCEPT ![n] = "open"]
                           ELSE Append(@, "open")]
  /\ Goto(h, "lease")
  /\ UNCHANGED <<run, step, heartbeat, log, history, local>>

TakeLease(h) ==
  /\ At(h, "lease")
  /\ LET s == First(queue[h])
     IN  /\ heartbeat' = [heartbeat EXCEPT ![s] = "fresh"]
         /\ step' = [step EXCEPT ![s] = [status |-> "running", lease |-> h,
                                         latest |-> number[h][s]]]
  /\ Goto(h, "launch")
  /\ UNCHANGED <<run, attempt, log, history, local>>

\* The backend starts, or prepare or start throws.
Launch(h) ==
  /\ At(h, "launch")
  /\ LET s == First(queue[h])
     IN  /\ \/ /\ live' = [live EXCEPT ![h][s] = "going"]
               /\ launched' = [launched EXCEPT ![s] = @ \cup {number[h][s]}]
            \/ /\ live' = [live EXCEPT ![h][s] = "error"]
               /\ UNCHANGED launched
         /\ queue' = [queue EXCEPT ![h] = @ \ {s}]
         /\ execs' = [execs EXCEPT ![h] = @ \cup {s}]
  /\ Goto(h, "start")
  /\ UNCHANGED <<store, log, succeeded, crashes, view, todo, changed, number,
                 emit, decided, after, abort, renewal>>

Started(h) ==
  /\ At(h, "start")
  /\ queue[h] = {}
  /\ Goto(h, "await")
  /\ UNCHANGED <<store, log, history, local>>

------------------------------------------------------------------------------
(* Finishing the executions, in the order they were started.               *)

\* An abort already signalled is seen before the result is looked at.
AwaitResult(h) ==
  /\ At(h, "await")
  /\ execs[h] # {}
  /\ Goto(h, IF live[h][First(execs[h])] = "error" THEN "record"
             ELSE IF abort[h] THEN "cancel" ELSE "wait")
  /\ UNCHANGED <<store, log, history, local>>

TakeResult(h) ==
  /\ At(h, "wait")
  /\ live[h][First(execs[h])] \in Result
  /\ Goto(h, "record")
  /\ UNCHANGED <<store, log, history, local>>

LoseRace(h) ==
  /\ At(h, "wait")
  /\ abort[h]
  /\ Goto(h, "cancel")
  /\ UNCHANGED <<store, log, history, local>>

Forget(h, s) ==
  /\ execs' = [execs EXCEPT ![h] = @ \ {s}]
  /\ number' = [number EXCEPT ![h][s] = 0]
  /\ live' = [live EXCEPT ![h][s] = "none"]

CancelConfirmed(h) ==
  /\ At(h, "cancel")
  /\ LET s == First(execs[h])
     IN  /\ s \in CanCancel
         /\ live' = [live EXCEPT ![h][s] = "cancelled"]
  /\ Goto(h, "record")
  /\ UNCHANGED <<store, log, history, view, todo, changed, queue, execs, number,
                 emit, decided, after, abort, renewal>>

\* The backend cannot cancel, or cancel throws.
CancelRefused(h) ==
  /\ At(h, "cancel")
  /\ Goto(h, "preserve")
  /\ UNCHANGED <<store, log, history, local>>

\* The running record stays, once the renewal in flight is done.
PreserveRunning(h) ==
  /\ At(h, "preserve")
  /\ renewal[h].step # First(execs[h])
  /\ Forget(h, First(execs[h]))
  /\ Goto(h, "await")
  /\ UNCHANGED <<store, log, history, view, todo, changed, queue, emit, decided,
                 after, abort, renewal>>

\* Mutant: the renewal in flight is not awaited.
RecordResultEarly(h) ==
  /\ At(h, "record")
  /\ LET s == First(execs[h])
         r == IF live[h][s] = "error" THEN "failed" ELSE live[h][s]
     IN  /\ attempt' = [attempt EXCEPT ![s][number[h][s]] = r]
         /\ live' = [live EXCEPT ![h][s] = r]
  /\ Goto(h, "settle")
  /\ UNCHANGED <<run, step, heartbeat, log, history, view, todo, changed, queue,
                 execs, number, emit, decided, after, abort, renewal>>

RecordResult(h) ==
  /\ At(h, "record")
  /\ LET s == First(execs[h])
         r == IF live[h][s] = "error" THEN "failed" ELSE live[h][s]
     IN  /\ renewal[h].step # s
         /\ attempt' = [attempt EXCEPT ![s][number[h][s]] = r]
         /\ live' = [live EXCEPT ![h][s] = r]
  /\ Goto(h, "settle")
  /\ UNCHANGED <<run, step, heartbeat, log, history, view, todo, changed, queue,
                 execs, number, emit, decided, after, abort, renewal>>

\* The step record is written from memory: it is not read again.
Settle(h) ==
  /\ At(h, "settle")
  /\ LET s == First(execs[h])
         n == number[h][s]
         status == Transition(s, n, live[h][s])
     IN  /\ Write(h, s, [status |-> status, lease |-> NoHolder, latest |-> n],
                  Announcing(status))
         /\ Forget(h, s)
  /\ Goto(h, "await")
  /\ UNCHANGED <<run, attempt, heartbeat, ended, outcomes, history, view, todo,
                 changed, queue, decided, after, abort, renewal>>

Finished(h) ==
  /\ At(h, "await")
  /\ execs[h] = {}
  /\ Goto(h, "finalize")
  /\ after' = [after EXCEPT ![h] = "drained"]
  /\ UNCHANGED <<store, log, history, view, todo, changed, queue, execs, number,
                 live, emit, decided, abort, renewal>>

------------------------------------------------------------------------------
(* The environment: backends, time, aborts, crashes and resumed processes. *)

BackendReturns(h, s, r) ==
  /\ live[h][s] = "going"
  /\ live' = [live EXCEPT ![h][s] = r]
  /\ succeeded' = IF r = "success" THEN succeeded \cup {s} ELSE succeeded
  /\ UNCHANGED <<store, log, launched, crashes, pc, view, todo, changed, queue,
                 execs, number, emit, decided, after, abort, renewal>>

HeartbeatAges(s) ==
  /\ StaleDetection
  /\ heartbeat[s] = "fresh"
  /\ heartbeat' = [heartbeat EXCEPT ![s] = "old"]
  /\ UNCHANGED <<run, step, attempt, log, history, pc, local>>

Abort(h) ==
  /\ HasSignal
  /\ pc[h] \notin {"exit", "stopped"}
  /\ ~abort[h]
  /\ abort' = [abort EXCEPT ![h] = TRUE]
  /\ UNCHANGED <<store, log, history, pc, view, todo, changed, queue, execs,
                 number, live, emit, decided, after, renewal>>

\* Nothing of what a process held in memory is left.
Vanish(h) ==
  /\ Goto(h, "stopped")
  /\ view' = [view EXCEPT ![h] = InitialRecords]
  /\ todo' = [todo EXCEPT ![h] = {}]
  /\ changed' = [changed EXCEPT ![h] = FALSE]
  /\ queue' = [queue EXCEPT ![h] = {}]
  /\ execs' = [execs EXCEPT ![h] = {}]
  /\ number' = [number EXCEPT ![h] = [s \in Step |-> 0]]
  /\ live' = [live EXCEPT ![h] = [s \in Step |-> "none"]]
  /\ emit' = [emit EXCEPT ![h] = {}]
  /\ decided' = [decided EXCEPT ![h] = "running"]
  /\ after' = [after EXCEPT ![h] = "drained"]
  /\ abort' = [abort EXCEPT ![h] = FALSE]
  /\ renewal' = [renewal EXCEPT ![h] = NoRenewal]

\* runStart has returned.
Exit(h) ==
  /\ At(h, "exit")
  /\ Vanish(h)
  /\ UNCHANGED <<store, log, history>>

\* The process dies, or a write throws out of the pass; the files are as it
\* left them.
Crash(h) ==
  /\ pc[h] \notin {"exit", "stopped"}
  /\ crashes < MaxCrashes
  /\ crashes' = crashes + 1
  /\ Vanish(h)
  /\ UNCHANGED <<store, log, launched, succeeded>>

\* The run is resumed by a process with this holderId.
Resume(h) ==
  /\ Restarts
  /\ pc[h] = "stopped"
  /\ Exclusive => \A g \in Holder : pc[g] = "stopped"
  /\ Goto(h, "idle")
  /\ UNCHANGED <<store, log, history, local>>

------------------------------------------------------------------------------

Init ==
  /\ run = "running"
  /\ step = InitialRecords
  /\ attempt = [s \in Step |-> <<>>]
  /\ heartbeat = [s \in Step |-> "none"]
  /\ owed = [s \in Step |-> 0]
  /\ ended = {} /\ outcomes = {}
  /\ launched = [s \in Step |-> {}]
  /\ succeeded = {} /\ crashes = 0
  /\ pc = [h \in Holder |-> IF Exclusive THEN "stopped" ELSE "idle"]
  /\ view = [h \in Holder |-> InitialRecords]
  /\ todo = [h \in Holder |-> {}]
  /\ changed = [h \in Holder |-> FALSE]
  /\ queue = [h \in Holder |-> {}]
  /\ execs = [h \in Holder |-> {}]
  /\ number = [h \in Holder |-> [s \in Step |-> 0]]
  /\ live = [h \in Holder |-> [s \in Step |-> "none"]]
  /\ emit = [h \in Holder |-> {}]
  /\ decided = [h \in Holder |-> "running"]
  /\ after = [h \in Holder |-> "drained"]
  /\ abort = [h \in Holder |-> FALSE]
  /\ renewal = [h \in Holder |-> NoRenewal]

\* What a pass does by itself, one await after the other.
Proceed(h) ==
  \/ Load(h) \/ MarkReady(h) \/ Reconciled(h) \/ AppendEvent(h)
  \/ Promote(h) \/ Promoted(h)
  \/ BlockCommitted(h) \/ MarkStale(h) \/ BlockUnknown(h)
  \/ Finalize(h) \/ AnnounceRun(h) \/ SaveRun(h)
  \/ RenewOwned(h)
  \/ Plan(h) \/ StartStep(h) \/ OpenAttempt(h) \/ TakeLease(h) \/ Launch(h)
  \/ Started(h) \/ AwaitResult(h) \/ TakeResult(h) \/ LoseRace(h)
  \/ CancelConfirmed(h) \/ CancelRefused(h) \/ PreserveRunning(h)
  \/ RecordResult(h) \/ Settle(h) \/ Finished(h) \/ Exit(h)

Next ==
  \/ \E h \in Holder :
       \/ Proceed(h) \/ RenewTick(h) \/ RenewWrite(h) \/ Abort(h) \/ Crash(h) \/ Resume(h)
       \/ \E s \in Step, r \in Answers : BackendReturns(h, s, r)
  \/ \E s \in Step : HeartbeatAges(s)

Spec == Init /\ [][Next]_vars

\* Node runs whatever is ready, a backend answers, time passes, and a run
\* that is not over is resumed by somebody.
Fairness ==
  /\ \A h \in Holder :
       /\ WF_vars(Proceed(h))
       /\ WF_vars(RenewWrite(h))
       /\ WF_vars(\E s \in Step, r \in Answers : BackendReturns(h, s, r))
  /\ WF_vars(\E h \in Holder : Resume(h))
  /\ \A s \in Step : WF_vars(HeartbeatAges(s))

FairSpec == Spec /\ Fairness

------------------------------------------------------------------------------
(* Properties.                                                             *)

Place ==
  {"idle", "reconcile", "recheck", "promote", "committed", "stale", "unknown",
   "finalize", "announce", "save", "renew", "renewing", "plan", "start", "open",
   "lease", "launch", "await", "wait", "cancel", "preserve", "record",
   "settle", "exit", "stopped"}

RunStatus == {"running"} \cup EndStatus
LiveState == {"none", "going", "error"} \cup Result
Renewal == {NoRenewal} \cup [step: Step, rec: StepRecord]

StoreTypeOK ==
  /\ run \in RunStatus
  /\ step \in [Step -> StepRecord]
  /\ attempt \in [Step -> Seq(AttemptState)]
  /\ heartbeat \in [Step -> {"none", "fresh", "old"}]
  /\ owed \in [Step -> Int]
  /\ ended \subseteq Step
  /\ outcomes \subseteq RunStatus
  /\ launched \in [Step -> SUBSET Nat]
  /\ succeeded \subseteq Step
  /\ crashes \in 0..MaxCrashes

LocalTypeOK ==
  /\ pc \in [Holder -> Place]
  /\ view \in [Holder -> [Step -> StepRecord]]
  /\ todo \in [Holder -> SUBSET Step]
  /\ changed \in [Holder -> BOOLEAN]
  /\ queue \in [Holder -> SUBSET Step]
  /\ execs \in [Holder -> SUBSET Step]
  /\ number \in [Holder -> [Step -> Nat]]
  /\ live \in [Holder -> [Step -> LiveState]]
  /\ emit \in [Holder -> SUBSET Event]
  /\ decided \in [Holder -> RunStatus]
  /\ after \in [Holder -> {"drained", "committed", "renew", "exit"}]
  /\ abort \in [Holder -> BOOLEAN]
  /\ renewal \in [Holder -> Renewal]

\* Every file and every local of a pass holds a value of its type: in
\* particular a step never takes a status outside StepStatus (types.ts).
TypeOK == StoreTypeOK /\ LocalTypeOK

\* A pass that starts a step has one in hand, and so has a pass that finishes
\* an execution, whose backend has answered when its result is recorded.
InHand ==
  \A h \in Holder :
    /\ pc[h] \in {"open", "lease", "launch"} => queue[h] # {}
    /\ pc[h] \in {"wait", "cancel", "preserve", "record", "settle"} => execs[h] # {}
    /\ pc[h] = "record" => live[h][First(execs[h])] \in Result \cup {"error"}
    /\ pc[h] = "settle" => live[h][First(execs[h])] \in Result

\* A backend is started on a step only when the backends of all the steps it
\* depends on have returned success, however many processes run the graph
\* and wherever they crash (reconcileSchedulerState, dependenciesCompleted).
DependentsAfterSuccess ==
  \A s \in Step : launched[s] # {} => Deps[s] \subseteq succeeded

\* run.json says completed only if the backend of every step returned success
\* (finalizeRun).
CompletedMeansAllSucceeded == run = "completed" => succeeded = Step

\* Record r of step s claims nothing the backends have not done.
Earned(s, r) ==
  /\ r.status # "pending" => Deps[s] \subseteq succeeded
  /\ r.status = "completed" => s \in succeeded

EarnedRecords ==
  /\ \A s \in Step : Earned(s, step[s])
  /\ \A h \in Holder : \A s \in Step : Earned(s, view[h][s])
  /\ \A h \in Holder :
       renewal[h] # NoRenewal => Earned(renewal[h].step, renewal[h].rec)

EarnedWork ==
  /\ \A s \in Step :
       attempt[s] # <<>> \/ launched[s] # {} => Deps[s] \subseteq succeeded
  /\ \A s \in Step : \A n \in DOMAIN attempt[s] :
       attempt[s][n] = "success" => s \in succeeded
  /\ \A h \in Holder : \A s \in queue[h] \cup execs[h] : Deps[s] \subseteq succeeded
  /\ \A h \in Holder : \A s \in Step : live[h][s] = "success" => s \in succeeded

EarnedOutcome ==
  /\ run = "completed" => succeeded = Step
  /\ \A h \in Holder :
       pc[h] \in {"announce", "save"} /\ decided[h] = "completed" => succeeded = Step

\* Whatever is on disk, in the memory of a process or on its way between the
\* two claims only what the backends have done.  Inductive with TypeOK, and
\* what makes the two properties above hold between racing processes too.
NothingUnearned == EarnedRecords /\ EarnedWork /\ EarnedOutcome

\* The backend of a step is started again only after the attempt before it
\* recorded a result that asks for a retry, and never beyond the step's
\* attempts: a crash, an abort or a stale heartbeat never repeats work that
\* may have been done.
NoDuplicateWork ==
  \A s \in Step :
    /\ Cardinality(launched[s]) <= MaxAttempts[s]
    /\ \A m, n \in launched[s] : m < n => attempt[s][m] = "retry"

\* In a shared worktree no two steps that may change the host's source run at
\* the same time (planRunnableSteps).
MutableAlone ==
  SharedWorktree =>
    Cardinality(WithStatus(step, "running") \ SafeToShare) <= 1

\* The event that says a step ended is in the log only while the record of
\* the step says so too: no later write takes the record back.
EventsFollowRecords ==
  \A s \in ended : step[s].status \in EndStatus

\* The log announces at most one outcome for the run, over all the processes
\* that ran it, and run.json agrees with it.
OneOutcome ==
  /\ Cardinality(outcomes) <= 1
  /\ run # "running" => outcomes = {run}

\* The records of a run driven by one process at a time, seen through their
\* statuses, are those of a step graph.
Promise == INSTANCE StepGraph WITH
             status <- [s \in Step |-> step[s].status], outcome <- run
ImplementsStepGraph == Promise!Spec

\* The scheduler never moves on from these by itself: a pending step behind
\* one that ended without success while no step is blocked, a running step
\* that no process is executing, a ready step without an adapter.
DeadEnd ==
  \/ /\ WithStatus(step, "blocked") = {}
     /\ \E s \in WithStatus(step, "pending") :
          \E d \in Deps[s] : step[d].status \in EndStatus \ {"completed"}
  \/ \E s \in WithStatus(step, "running") : \A h \in Holder : live[h][s] = "none"
  \/ WithStatus(step, "ready") \ (Registered \cup Unknown) # {}

\* A run that is resumed again and again is over in the end, unless it has
\* reached a dead end.
SettlesOrDeadEnd == <>[](run # "running" \/ DeadEnd)

\* A run whose steps have all ended, or wait for one that ended without
\* success, is given an outcome.
StuckRunEnds ==
  (/\ \A s \in Step : step[s].status \in EndStatus \cup {"pending"}
   /\ Unblocked(step) = {}) ~> run # "running"

\* step_ready is appended at most once for each time a step becomes ready.
ReadyOncePerTransition == \A s \in Step : owed[s] >= 0

\* A completed step stays completed.
CompletedStays ==
  [][\A s \in Step :
       step[s].status = "completed" => step'[s].status = "completed"]_vars

=============================================================================
