--------------------------- MODULE DriveRunAlone ---------------------------
(* More theorems about a Drive run: what holds besides as long as no       *)
(* process was started while another was at work.  A retry holds no plan   *)
(* lock, so that without this a run and a retry may overlap.               *)
EXTENDS DriveRunProofs

------------------------------------------------------------------------------
(* The inductive invariant of a process alone.                             *)

OneAtWork == \A p, q \in Cli : pc[p] # "idle" /\ pc[q] # "idle" => p = q

StateStatus == step[<<"state", 0>>].status
AllPassed == \A t \in Task : Status(t).status = "completed"
CommitPassed(t) == policy.source => Commit(t).status = "completed"
IsPending(s) == pending.phase = Phase(s) /\ pending.task = TaskOf(s)
TaskPending(t) == pending.phase \in {"commit", "status"} /\ pending.task = t

\* The tasks were taken in order, each after all is done for those before it,
\* save for the work that is pending.
StepsInOrder ==
  /\ \A t, u \in Task : u < t /\ Agent(t).status # "pending" =>
       Status(u).status = "completed" /\ CommitPassed(u)
  /\ \A t \in Task : Status(t).status # "pending" => CommitPassed(t) \/ TaskPending(t)
  /\ \A s \in Step : step[s].status = "ready" => IsPending(s)
  /\ \A t \in Task : Status(t).status = "completed" => Settled(t)
  /\ StateStatus # "pending" => AllPassed /\ pending.phase \in {"none", "state"}
  /\ StateStatus = "completed" /\ AllDone => fileDirty = {}

\* What is pending is the last work that was begun.
PendingInOrder ==
  /\ \A t \in Task : TaskPending(t) =>
       \A u \in Task : u > t => Agent(u).status = "pending"
  /\ pending.phase = "status" => CommitPassed(pending.task)
  /\ pending.phase = "state" => StateStatus # "pending"

\* A completed run has nothing left to do.
RunInOrder ==
  /\ run = "completed" => pending = NoPending /\ \A s \in Graph : step[s].status = "completed"
  /\ completion = "completed" => \A t \in Task : Settled(t)

\* The step in hand is running, and nothing else is pending.
AtWorkAlone(p) ==
  LET t == TaskOf(Mine(p)) IN
  /\ pc[p] \in AtCommit => Status(t).status = "pending"
  /\ pc[p] \in AtTask \cup AtCommit \cup AtStatus \cup AtState \cup {"settle"} =>
       step[Mine(p)].status = "running"
  /\ \/ pc[p] \in AtTask \cup AtStatus \cup AtState \cup {"result", "decide", "dirty", "lock"}
     \/ pc[p] \in AtCommit \ {"commit pending"}
     => pending = NoPending
  /\ pc[p] = "commit pending" => IsPending(Mine(p))
  /\ pc[p] = "settle" =>
       IF my[p].res = "retry" THEN IsPending(Mine(p)) ELSE pending = NoPending
  /\ pc[p] = "pass" => pending = NoPending \/ RetryableFailure
  /\ pc[p] = "announce" => Settled(t)
  /\ pc[p] = "settle" =>
       /\ Phase(Mine(p)) = "commit" => Status(t).status = "pending"
       /\ Phase(Mine(p)) = "status" /\ my[p].res \in {"success", "partial"} => Settled(t)
       /\ Phase(Mine(p)) = "state" /\ my[p].res = "success" /\ AllDone => fileDirty = {}

\* What a process retries is what is pending.  It is recorded as over only when
\* it is, and what is left for the graph is then all that is not done.
RetryAlone(p) ==
  LET x == my[p].pend IN
  /\ pc[p] \in Retrying => x = pending
  /\ pc[p] \in Retrying /\ x.phase \in {"commit", "status"} =>
       \A u \in Task : u > x.task => u \in my[p].left
  /\ pc[p] \in RetryingStatus => CommitPassed(x.task)
  /\ pc[p] = "status passed" => file[x.task] = "Done"
  /\ pc[p] = "state passed" => fileDirty = {}
  /\ pc[p] = "clear" =>
       /\ x.phase \in {"commit", "status"} =>
            Status(x.task).status = "completed" /\ CommitPassed(x.task)
       /\ x.phase = "state" => StateStatus = "completed"
  /\ pc[p] = "decide" /\ x # NoPending =>
       \A u \in Task : Status(u).status = "completed" \/ u \in my[p].left

\* The same property of the commits, without its condition.
OwnWork ==
  \A i \in DOMAIN commits : commits[i].by \in Task => commits[i].has \subseteq {commits[i].by}

Alone ==
  /\ OneAtWork /\ StepsInOrder /\ PendingInOrder /\ RunInOrder /\ OwnWork
  /\ \A p \in Cli : AtWorkAlone(p) /\ RetryAlone(p)

\* A partial is marked Done only by the retry of its status, which then says
\* that it is a success: no task is both Done and recorded as a partial.
PartialKept(t) ==
  /\ file[t] = "Done" =>
       Agent(t).result = "success" \/ Status(t).result = "success" \/ TaskPending(t)
  /\ Status(t).result = "partial" => Agent(t).result = "partial" /\ ~TaskPending(t)
  /\ Status(t).status \in {"pending", "ready", "running"} =>
       Status(t).result = "none" \/ TaskPending(t)

PartialsKept == \A t \in Task : PartialKept(t)

AloneInv == alone => Alone /\ PartialsKept

------------------------------------------------------------------------------
(* Frames: what a step has to show besides the first invariant.            *)

\* Tasks are numbered.
LEMMA TaskOrder ==
  ASSUME NEW t \in Task, NEW u \in Task
  PROVE  /\ u < t \/ u = t \/ u > t
         /\ u < t <=> t > u
         /\ u < t => u # t
         /\ \A v \in Task : u < v /\ v < t => u < t
         /\ t \in Int /\ t # 0 /\ t \in 0..(N + 1) /\ N + 1 \notin Task
BY DriveAssumption DEF Task

\* An idle process has nothing in hand.
LEMMA IdleAlone ==
  ASSUME NEW p \in Cli, pc'[p] = "idle"
  PROVE  AtWorkAlone(p)' /\ RetryAlone(p)'
BY DEF AtWorkAlone, RetryAlone, AtTask, AtCommit, AtStatus, AtState, Retrying, RetryingCommit,
       RetryingStatus, RetryingState

\* The process at work has to show the files and itself in order.
LEMMA AloneMover ==
  ASSUME Alone, NEW p \in Cli, pc[p] # "idle", OthersStay(p),
         StepsInOrder', PendingInOrder', RunInOrder', OwnWork',
         AtWorkAlone(p)' /\ RetryAlone(p)'
  PROVE  Alone'
<1>1. \A q \in Cli : q # p => pc'[q] = "idle"
  BY DEF Alone, OneAtWork, OthersStay
<1>2. \A q \in Cli : AtWorkAlone(q)' /\ RetryAlone(q)'
  BY <1>1, IdleAlone
<1>3. OneAtWork'
  BY <1>1 DEF OneAtWork
<1> QED
  BY <1>2, <1>3 DEF Alone

\* A process that leaves has the files to show.
LEMMA AloneLeaves ==
  ASSUME DriveInv, Alone, NEW p \in Cli, pc[p] # "idle", Leave(p),
         StepsInOrder', PendingInOrder', RunInOrder', OwnWork'
  PROVE  Alone'
<1>1. pc'[p] = "idle" /\ OthersStay(p)
  BY HasLeft DEF DriveInv
<1> QED
  BY <1>1, IdleAlone, AloneMover

\* A commit of everything is of nothing but the work of the task it names.
LEMMA OwnWorkKept ==
  ASSUME DriveInv, OwnWork, NEW by \in 0..(N + 1), NEW has \in SUBSET Task, NEW files,
         AddCommit(by, has, files), by \in Task => has \subseteq {by}
  PROVE  OwnWork'
<1>1. TypeOK
  BY DEF DriveInv
<1>2. /\ commits' \in Seq([by: 0..(N + 1), has: SUBSET Task])
      /\ Len(commits') = Len(commits) + 1
      /\ commits'[Len(commits) + 1] = [by |-> by, has |-> has]
      /\ \A i \in 1..Len(commits) : commits'[i] = commits[i]
  BY <1>1, AddCommitTyped
<1>3. Len(commits) \in Nat /\ DOMAIN commits = 1..Len(commits) /\ DOMAIN commits' = 1..Len(commits')
  BY <1>1, <1>2, LenProperties DEF TypeOK
<1>4. ASSUME NEW i \in DOMAIN commits', commits'[i].by \in Task
      PROVE  commits'[i].has \subseteq {commits'[i].by}
  <2>1. CASE i = Len(commits) + 1
    BY <1>2, <1>4, <2>1
  <2>2. CASE i # Len(commits) + 1
    <3>1. i \in 1..Len(commits)
      BY <1>2, <1>3, <2>2
    <3> QED
      BY <1>2, <1>3, <1>4, <3>1 DEF OwnWork
  <2> QED
    BY <2>1, <2>2
<1> QED
  BY <1>4 DEF OwnWork

\* Where no commit is made the commits are what they were.
LEMMA NoCommit ==
  ASSUME OwnWork, commits' = commits
  PROVE  OwnWork'
BY DEF OwnWork

\* As long as the run's own files are not written, what they say stays true of
\* tasks whose files are no worse.
LEMMA RecordsInOrder ==
  ASSUME Alone, UNCHANGED <<policy, step, pending>>,
         \A t \in Task : Status(t).status = "completed" /\ Settled(t) => Settled(t)',
         StateStatus = "completed" /\ AllDone' => fileDirty' = {}
  PROVE  StepsInOrder' /\ PendingInOrder'
<1>1. \A t \in Task : Agent(t)' = Agent(t) /\ Commit(t)' = Commit(t) /\ Status(t)' = Status(t)
  BY StepsStay
<1>2. \A t \in Task : (CommitPassed(t)' <=> CommitPassed(t)) /\ (TaskPending(t)' <=> TaskPending(t))
  BY <1>1 DEF CommitPassed, TaskPending
<1>3. StateStatus' = StateStatus /\ (AllPassed' <=> AllPassed)
      /\ \A s \in Step : IsPending(s)' <=> IsPending(s)
  BY <1>1 DEF StateStatus, AllPassed, IsPending
<1>4. StepsInOrder'
  <2>1. \A t, u \in Task : u < t /\ Agent(t)'.status # "pending" =>
          Status(u)'.status = "completed" /\ CommitPassed(u)'
    BY <1>1, <1>2 DEF Alone, StepsInOrder
  <2>2. \A t \in Task : Status(t)'.status # "pending" => CommitPassed(t)' \/ TaskPending(t)'
    BY <1>1, <1>2 DEF Alone, StepsInOrder
  <2>3. \A s \in Step : step'[s].status = "ready" => IsPending(s)'
    BY <1>3 DEF Alone, StepsInOrder
  <2>4. \A t \in Task : Status(t)'.status = "completed" => Settled(t)'
    BY <1>1 DEF Alone, StepsInOrder
  <2>5. StateStatus' # "pending" => AllPassed' /\ pending'.phase \in {"none", "state"}
    BY <1>3 DEF Alone, StepsInOrder
  <2>6. StateStatus' = "completed" /\ AllDone' => fileDirty' = {}
    BY <1>3
  <2> QED
    BY <2>1, <2>2, <2>3, <2>4, <2>5, <2>6 DEF StepsInOrder
<1>5. PendingInOrder'
  <2>1. \A t \in Task : TaskPending(t)' => \A u \in Task : u > t => Agent(u)'.status = "pending"
    BY <1>1, <1>2 DEF Alone, PendingInOrder
  <2>2. pending'.phase = "status" => CommitPassed(pending.task)'
    BY DEF Alone, PendingInOrder, CommitPassed, Commit
  <2>3. pending'.phase = "state" => StateStatus' # "pending"
    BY <1>3 DEF Alone, PendingInOrder
  <2> QED
    BY <2>1, <2>2, <2>3 DEF PendingInOrder
<1> QED
  BY <1>4, <1>5

\* The same for a step that leaves the outcome of the run alone.
LEMMA FilesInOrder ==
  ASSUME Alone, UNCHANGED <<policy, step, pending>>,
         \A t \in Task : Status(t).status = "completed" /\ Settled(t) => Settled(t)',
         StateStatus = "completed" /\ AllDone' => fileDirty' = {},
         run' = "completed" => run = "completed",
         completion' = "completed" =>
           completion = "completed" /\ \A t \in Task : Settled(t) => Settled(t)'
  PROVE  StepsInOrder' /\ PendingInOrder' /\ RunInOrder'
<1>1. Graph' = Graph
  BY DEF Graph
<1>2. run' = "completed" => pending' = NoPending /\ \A s \in Graph' : step'[s].status = "completed"
  BY <1>1 DEF Alone, RunInOrder
<1>3. completion' = "completed" => \A t \in Task : Settled(t)'
  BY DEF Alone, RunInOrder
<1>4. RunInOrder'
  BY <1>2, <1>3 DEF RunInOrder
<1> QED
  BY <1>4, RecordsInOrder

\* Task files that are at most committed are no worse.
LEMMA QuietFiles ==
  ASSUME Alone, UNCHANGED <<policy, step, pending, file>>, fileDirty' \subseteq fileDirty,
         run' = "completed" => run = "completed",
         completion' = "completed" => completion = "completed"
  PROVE  StepsInOrder' /\ PendingInOrder' /\ RunInOrder'
<1>1. \A t \in Task : Settled(t)' <=> Settled(t)
  BY DEF Settled
<1>2. AllDone' <=> AllDone
  BY DEF AllDone
<1>3. StateStatus = "completed" /\ AllDone => fileDirty = {}
  BY DEF Alone, StepsInOrder
<1> QED
  BY <1>1, <1>2, <1>3, FilesInOrder

\* Between the steps of the graph and around it there is little to show.
LEMMA AtWorkBetween ==
  ASSUME NEW p \in Cli,
         \/ pc'[p] \in Retrying \cup {"idle", "unlock"}
         \/ pc'[p] \in {"pass", "result", "lock", "dirty", "decide"} /\ pending' = NoPending
  PROVE  AtWorkAlone(p)'
BY DEF AtWorkAlone, AtTask, AtCommit, AtStatus, AtState, Retrying, RetryingCommit,
       RetryingStatus, RetryingState

\* Nor does a process that retries nothing.
LEMMA RetryBetween ==
  ASSUME NEW p \in Cli, pc'[p] \in InGraph \cup {"idle", "lock", "dirty"}
  PROVE  RetryAlone(p)'
BY DEF RetryAlone, InGraph, AtTask, AtCommit, AtStatus, AtState, Retrying, RetryingCommit,
       RetryingStatus, RetryingState

------------------------------------------------------------------------------
(* The second invariant, action by action.                                 *)

\* A step that commits nothing, of which only where it leads is to be shown.
LEMMA PassAlone ==
  ASSUME DriveInv, Alone, NEW p \in Cli,
         \/ LockPlan(p) \/ LockRefused(p) \/ StopForFinalizer(p) \/ Drained(p)
         \/ Complete(p) \/ Unlock(p)
  PROVE  Alone'
<1> USE DEF records, workdir, worktree, locks, history, used
<1>0. /\ TypeOK /\ UNCHANGED <<policy, step, pending, file, fileDirty, commits>>
      /\ OwnWork' /\ pc[p] # "idle" /\ AtWorkAlone(p)
  BY NoCommit DEF DriveInv, Alone, LockPlan, LockRefused, StopForFinalizer, Drained, Complete, Unlock
<1>1. CASE LockPlan(p)
  <2>1. pc'[p] = "pass" /\ OthersStay(p)
    BY <1>0, <1>1, HasMoved DEF LockPlan, Place
  <2>2. pending = NoPending
    BY <1>0, <1>1 DEF LockPlan, AtWorkAlone
  <2>3. /\ run' = "completed" => run = "completed"
        /\ completion' = completion
    BY <1>1 DEF LockPlan
  <2>4. StepsInOrder' /\ PendingInOrder' /\ RunInOrder'
    BY <1>0, <2>3, QuietFiles
  <2> QED
    BY <1>0, <2>1, <2>2, <2>4, AtWorkBetween, RetryBetween, AloneMover DEF InGraph
<1>2. CASE LockRefused(p)
  <2>1. Leave(p) /\ run' = run /\ completion' # "completed"
    BY <1>2 DEF LockRefused
  <2>2. StepsInOrder' /\ PendingInOrder' /\ RunInOrder'
    BY <1>0, <2>1, QuietFiles
  <2> QED
    BY <1>0, <2>1, <2>2, AloneLeaves
<1>3. CASE StopForFinalizer(p)
  <2>1. pc'[p] = "unlock" /\ OthersStay(p) /\ run' = run /\ completion' # "completed"
    BY <1>0, <1>3, HasMoved DEF StopForFinalizer, Place
  <2>2. StepsInOrder' /\ PendingInOrder' /\ RunInOrder'
    BY <1>0, <2>1, QuietFiles
  <2> QED
    BY <1>0, <2>1, <2>2, AtWorkBetween, RetryBetween, AloneMover DEF InGraph
<1>4. CASE Drained(p)
  <2>1. pc'[p] = "result" /\ OthersStay(p) /\ completion' = completion
    BY <1>0, <1>4, HasMoved DEF Drained, Place
  <2>2. pending = NoPending
    BY <1>0, <1>4 DEF Drained, AtWorkAlone
  <2>3. StepsInOrder' /\ PendingInOrder'
    <3>1. \A t \in Task : Settled(t)' <=> Settled(t)
      BY <1>0 DEF Settled
    <3>2. StateStatus = "completed" /\ AllDone' => fileDirty' = {}
      BY <1>0 DEF AllDone, Alone, StepsInOrder
    <3> QED
      BY <1>0, <3>1, <3>2, RecordsInOrder
  <2>4. RunInOrder'
    <3>1. Graph' = Graph /\ \A t \in Task : Settled(t)' <=> Settled(t)
      BY <1>0 DEF Graph, Settled
    <3>2. run' = "completed" => run = "completed" \/ RunOutcome = "completed"
      BY <1>4 DEF Drained
    <3>3. RunOutcome = "completed" => \A s \in Graph : step[s].status = "completed"
      BY DEF RunOutcome
    <3>4. run' = "completed" => \A s \in Graph : step[s].status = "completed"
      BY <3>2, <3>3 DEF Alone, RunInOrder
    <3> QED
      BY <1>0, <2>1, <2>2, <3>1, <3>4 DEF Alone, RunInOrder
  <2> QED
    BY <1>0, <2>1, <2>2, <2>3, <2>4, AtWorkBetween, RetryBetween, AloneMover DEF InGraph
<1>5. CASE Complete(p)
  <2>1. pc'[p] = "unlock" /\ OthersStay(p) /\ run' = run /\ completion' = DriverOutcome
    BY <1>0, <1>5, HasMoved DEF Complete, Place
  <2>2. StepsInOrder' /\ PendingInOrder'
    <3>1. \A t \in Task : Settled(t)' <=> Settled(t)
      BY <1>0 DEF Settled
    <3>2. StateStatus = "completed" /\ AllDone' => fileDirty' = {}
      BY <1>0 DEF AllDone, Alone, StepsInOrder
    <3> QED
      BY <1>0, <3>1, <3>2, RecordsInOrder
  <2>3. RunInOrder'
    <3>1. Graph' = Graph /\ \A t \in Task : Settled(t)' <=> Settled(t)
      BY <1>0 DEF Graph, Settled
    <3>2. DriverOutcome = "completed" => \A s \in Graph : step[s].status = "completed"
      BY DEF DriverOutcome, Alone, RunInOrder
    <3>3. ASSUME \A s \in Graph : step[s].status = "completed", NEW t \in Task
          PROVE  Settled(t)
      <4>1. <<"status", t>> \in Graph
        BY StepsOf DEF Graph, Phase
      <4>2. Status(t).status = "completed"
        BY <3>3, <4>1 DEF Status
      <4> QED
        BY <4>2 DEF Alone, StepsInOrder
    <3>4. completion' = "completed" => \A t \in Task : Settled(t)'
      BY <2>1, <3>1, <3>2, <3>3
    <3>5. run' = "completed" => pending' = NoPending /\ \A s \in Graph' : step'[s].status = "completed"
      BY <1>0, <2>1, <3>1 DEF Alone, RunInOrder
    <3> QED
      BY <3>4, <3>5 DEF RunInOrder
  <2> QED
    BY <1>0, <2>1, <2>2, <2>3, AtWorkBetween, RetryBetween, AloneMover DEF InGraph
<1>6. CASE Unlock(p)
  <2>1. Leave(p) /\ run' = run /\ completion' = completion
    BY <1>6 DEF Unlock
  <2>2. StepsInOrder' /\ PendingInOrder' /\ RunInOrder'
    BY <1>0, <2>1, QuietFiles
  <2> QED
    BY <1>0, <2>1, <2>2, AloneLeaves
<1> QED
  BY <1>1, <1>2, <1>3, <1>4, <1>5, <1>6

\* A task whose agent is not done is not settled.
LEMMA UnfinishedTask ==
  ASSUME DriveInv, NEW t \in Task, Agent(t).status # "completed"
  PROVE  ~Settled(t) /\ Status(t).status = "pending" /\ Commit(t).status = "pending"
<1>1. TaskInOrder(t)
  BY DEF DriveInv
<1> QED
  BY <1>1 DEF TaskInOrder, Settled, Agent

\* The graph writes one of its steps: it starts, is blocked or is settled.
LEMMA GraphWrites ==
  ASSUME DriveInv, Alone, NEW s \in Graph, \A u \in Step : u # s => step'[u] = step[u],
         UNCHANGED <<policy, pending, file, fileDirty, run, completion>>,
         step[s].status \in {"pending", "running"}, step'[s].status # "pending",
         step'[s].status = "ready" => IsPending(s),
         step[s].status = "pending" =>
           /\ pending = NoPending
           /\ Phase(s) = "task" => \A u \in Task : u < TaskOf(s) =>
                                     Status(u).status = "completed" /\ CommitPassed(u)
           /\ Phase(s) = "status" => CommitPassed(TaskOf(s))
           /\ Phase(s) = "state" => AllPassed,
         Phase(s) = "commit" => Status(TaskOf(s)).status = "pending",
         step'[s].status = "completed" =>
           /\ Phase(s) = "status" => Settled(TaskOf(s))
           /\ Phase(s) = "state" /\ AllDone => fileDirty = {}
  PROVE  StepsInOrder' /\ PendingInOrder' /\ RunInOrder'
<1>1. PICK t : t = TaskOf(s)
  OBVIOUS
<1>2. s \in Step /\ (Phase(s) = "commit" => policy.source)
  BY GraphSteps
<1>3. /\ Phase(s) \in {"task", "commit", "status", "state"}
      /\ Phase(s) # "state" => t \in Task
      /\ Phase(s) = "state" => s = <<"state", 0>>
  BY <1>1, <1>2, StepsOf
<1>4. run # "completed"
  BY DEF Alone, RunInOrder
<1>5. RunInOrder' <=> (completion = "completed" => \A v \in Task : Settled(v)')
  BY <1>4 DEF RunInOrder
<1>6. \A u \in Step : step'[u].status = "ready" => IsPending(u)'
  BY DEF Alone, StepsInOrder, IsPending
<1>7. Phase(s) # "state" => StateStatus' = StateStatus
  BY <1>2, StepsOf DEF StateStatus, Phase
<1>8. \A v \in Task : TaskPending(v)' <=> TaskPending(v)
  BY DEF TaskPending
<1>9. Phase(s) # "task" => \A v \in Task : Settled(v)' <=> Settled(v)
  <2>1. Phase(s) # "task" => \A v \in Task : Agent(v)' = Agent(v)
    BY <1>2, <1>3, Written
  <2> QED
    BY <2>1 DEF Settled, Agent
<1>10. AllDone' <=> AllDone
  BY DEF AllDone
<1>11. CASE Phase(s) = "task"
  <2>1. /\ t \in Task /\ Agent(t) = step[s] /\ Agent(t)' = step'[s]
        /\ \A v \in Task : Commit(v)' = Commit(v) /\ Status(v)' = Status(v)
        /\ \A v \in Task : v # t => Agent(v)' = Agent(v)
    BY <1>1, <1>2, <1>11, Written
  <2>2. ~Settled(t) /\ Status(t).status = "pending"
    BY <2>1, UnfinishedTask
  <2>3. \A v \in Task : v # t => (Settled(v)' <=> Settled(v))
    BY <2>1 DEF Settled, Agent
  <2>4. \A v \in Task : CommitPassed(v)' <=> CommitPassed(v)
    BY <2>1 DEF CommitPassed
  <2>5. StateStatus = "pending"
    BY <2>1, <2>2 DEF Alone, StepsInOrder, AllPassed
  <2>6. completion # "completed"
    BY <2>1, <2>2 DEF Alone, RunInOrder
  <2>7. StepsInOrder'
    <3>1. \A v, u \in Task : u < v /\ Agent(v)'.status # "pending" =>
            Status(u)'.status = "completed" /\ CommitPassed(u)'
      BY <1>1, <1>11, <2>1, <2>4 DEF Alone, StepsInOrder
    <3>2. \A v \in Task : Status(v)'.status # "pending" => CommitPassed(v)' \/ TaskPending(v)'
      BY <1>8, <2>1, <2>4 DEF Alone, StepsInOrder
    <3>3. \A v \in Task : Status(v)'.status = "completed" => Settled(v)'
      BY <2>1, <2>2, <2>3 DEF Alone, StepsInOrder
    <3> QED
      BY <1>6, <1>7, <1>11, <2>5, <3>1, <3>2, <3>3 DEF StepsInOrder
  <2>8. PendingInOrder'
    <3>1. \A v \in Task : TaskPending(v)' => \A u \in Task : u > v => Agent(u)'.status = "pending"
      <4>1. step[s].status = "pending" => \A v \in Task : ~TaskPending(v)
        BY DEF TaskPending, NoPending
      <4> QED
        BY <1>8, <2>1, <4>1 DEF Alone, PendingInOrder
    <3>2. pending'.phase = "status" => CommitPassed(pending.task)'
      <4>1. pending.phase = "status" => pending.task \in Task
        BY DEF DriveInv, PendingTrue
      <4>2. pending.phase = "status" => Commit(pending.task)' = Commit(pending.task)
        BY <2>1, <4>1
      <4> QED
        BY <4>1, <4>2 DEF Alone, PendingInOrder, CommitPassed
    <3>3. pending'.phase = "state" => StateStatus' # "pending"
      BY <1>7, <1>11 DEF Alone, PendingInOrder
    <3> QED
      BY <3>1, <3>2, <3>3 DEF PendingInOrder
  <2> QED
    BY <1>5, <2>6, <2>7, <2>8
<1>12. CASE Phase(s) = "commit"
  <2>1. /\ t \in Task /\ Commit(t) = step[s] /\ Commit(t)' = step'[s]
        /\ \A v \in Task : Agent(v)' = Agent(v) /\ Status(v)' = Status(v)
        /\ \A v \in Task : v # t => Commit(v)' = Commit(v)
    BY <1>1, <1>2, <1>12, Written
  <2>2. ~CommitPassed(t) /\ Status(t).status = "pending" /\ \A v \in Task : CommitPassed(v) => CommitPassed(v)'
    BY <1>1, <1>2, <1>12, <2>1 DEF CommitPassed
  <2>3. StateStatus = "pending"
    BY <2>1, <2>2 DEF Alone, StepsInOrder, AllPassed
  <2>4. StepsInOrder'
    <3>1. \A v, u \in Task : u < v /\ Agent(v)'.status # "pending" =>
            Status(u)'.status = "completed" /\ CommitPassed(u)'
      BY <2>1, <2>2 DEF Alone, StepsInOrder
    <3>2. \A v \in Task : Status(v)'.status # "pending" => CommitPassed(v)' \/ TaskPending(v)'
      BY <1>8, <2>1, <2>2 DEF Alone, StepsInOrder
    <3>3. \A v \in Task : Status(v)'.status = "completed" => Settled(v)'
      BY <1>9, <1>12, <2>1 DEF Alone, StepsInOrder
    <3> QED
      BY <1>6, <1>7, <1>12, <2>3, <3>1, <3>2, <3>3 DEF StepsInOrder
  <2>5. PendingInOrder'
    <3>1. \A v \in Task : TaskPending(v)' => \A u \in Task : u > v => Agent(u)'.status = "pending"
      BY <1>8, <2>1 DEF Alone, PendingInOrder
    <3>2. pending'.phase = "status" => CommitPassed(pending.task)'
      <4>1. pending.phase = "status" => pending.task \in Task /\ CommitPassed(pending.task)
        BY DEF DriveInv, PendingTrue, Alone, PendingInOrder
      <4>2. pending.phase = "status" => Commit(pending.task)' = Commit(pending.task)
        BY <2>1, <2>2, <4>1
      <4> QED
        BY <4>1, <4>2 DEF CommitPassed
    <3>3. pending'.phase = "state" => StateStatus' # "pending"
      BY <1>7, <1>12 DEF Alone, PendingInOrder
    <3> QED
      BY <3>1, <3>2, <3>3 DEF PendingInOrder
  <2> QED
    BY <1>5, <1>9, <1>12, <2>4, <2>5 DEF Alone, RunInOrder
<1>13. CASE Phase(s) = "status"
  <2>1. /\ t \in Task /\ Status(t) = step[s] /\ Status(t)' = step'[s]
        /\ \A v \in Task : Agent(v)' = Agent(v) /\ Commit(v)' = Commit(v)
        /\ \A v \in Task : v # t => Status(v)' = Status(v)
    BY <1>1, <1>2, <1>13, Written
  <2>2. \A v \in Task : CommitPassed(v)' <=> CommitPassed(v)
    BY <2>1 DEF CommitPassed
  <2>3. StateStatus = "pending"
    BY <2>1 DEF Alone, StepsInOrder, AllPassed
  <2>4. StepsInOrder'
    <3>1. \A v, u \in Task : u < v /\ Agent(v)'.status # "pending" =>
            Status(u)'.status = "completed" /\ CommitPassed(u)'
      BY <2>1, <2>2 DEF Alone, StepsInOrder
    <3>2. \A v \in Task : Status(v)'.status # "pending" => CommitPassed(v)' \/ TaskPending(v)'
      BY <1>1, <1>8, <1>13, <2>1, <2>2 DEF Alone, StepsInOrder
    <3>3. \A v \in Task : Status(v)'.status = "completed" => Settled(v)'
      BY <1>1, <1>9, <1>13, <2>1 DEF Alone, StepsInOrder
    <3> QED
      BY <1>6, <1>7, <1>13, <2>3, <3>1, <3>2, <3>3 DEF StepsInOrder
  <2>5. PendingInOrder'
    <3>1. \A v \in Task : TaskPending(v)' => \A u \in Task : u > v => Agent(u)'.status = "pending"
      BY <1>8, <2>1 DEF Alone, PendingInOrder
    <3>2. pending'.phase = "status" => CommitPassed(pending.task)'
      <4>1. pending.phase = "status" => pending.task \in Task /\ CommitPassed(pending.task)
        BY DEF DriveInv, PendingTrue, Alone, PendingInOrder
      <4>2. pending.phase = "status" => Commit(pending.task)' = Commit(pending.task)
        BY <2>1, <4>1
      <4> QED
        BY <4>1, <4>2 DEF CommitPassed
    <3>3. pending'.phase = "state" => StateStatus' # "pending"
      BY <1>7, <1>13 DEF Alone, PendingInOrder
    <3> QED
      BY <3>1, <3>2, <3>3 DEF PendingInOrder
  <2> QED
    BY <1>5, <1>9, <1>13, <2>4, <2>5 DEF Alone, RunInOrder
<1>14. CASE Phase(s) = "state"
  <2>1. /\ \A v \in Task : Agent(v)' = Agent(v) /\ Commit(v)' = Commit(v) /\ Status(v)' = Status(v)
        /\ StateStatus = step[s].status /\ StateStatus' = step'[s].status
    BY <1>2, <1>3, <1>14, Written DEF StateStatus
  <2>2. \A v \in Task : CommitPassed(v)' <=> CommitPassed(v)
    BY <2>1 DEF CommitPassed
  <2>3. StateStatus' # "pending" => AllPassed' /\ pending'.phase \in {"none", "state"}
    <3>1. AllPassed' <=> AllPassed
      BY <2>1 DEF AllPassed
    <3>2. step[s].status = "pending" => pending.phase = "none"
      BY DEF NoPending
    <3> QED
      BY <1>14, <2>1, <3>1, <3>2 DEF Alone, StepsInOrder
  <2>4. StepsInOrder'
    <3>1. \A v, u \in Task : u < v /\ Agent(v)'.status # "pending" =>
            Status(u)'.status = "completed" /\ CommitPassed(u)'
      BY <2>1, <2>2 DEF Alone, StepsInOrder
    <3>2. \A v \in Task : Status(v)'.status # "pending" => CommitPassed(v)' \/ TaskPending(v)'
      BY <1>8, <2>1, <2>2 DEF Alone, StepsInOrder
    <3>3. \A v \in Task : Status(v)'.status = "completed" => Settled(v)'
      BY <1>9, <1>14, <2>1 DEF Alone, StepsInOrder
    <3>4. StateStatus' = "completed" /\ AllDone' => fileDirty' = {}
      BY <1>10, <1>14, <2>1
    <3> QED
      BY <1>6, <2>3, <3>1, <3>2, <3>3, <3>4 DEF StepsInOrder
  <2>5. PendingInOrder'
    <3>1. \A v \in Task : TaskPending(v)' => \A u \in Task : u > v => Agent(u)'.status = "pending"
      BY <1>8, <2>1 DEF Alone, PendingInOrder
    <3>2. pending'.phase = "status" => CommitPassed(pending.task)'
      <4>1. pending.phase = "status" => pending.task \in Task /\ CommitPassed(pending.task)
        BY DEF DriveInv, PendingTrue, Alone, PendingInOrder
      <4> QED
        BY <2>1, <4>1 DEF CommitPassed
    <3>3. pending'.phase = "state" => StateStatus' # "pending"
      BY <2>1
    <3> QED
      BY <3>1, <3>2, <3>3 DEF PendingInOrder
  <2> QED
    BY <1>5, <1>9, <1>14, <2>4, <2>5 DEF Alone, RunInOrder
<1> QED
  BY <1>3, <1>11, <1>12, <1>13, <1>14

\* What a dead process left is blocked, and a step is started.
LEMMA StepsAlone ==
  ASSUME DriveInv, DriveInv', Alone, NEW p \in Cli, BlockCommitted(p) \/ StartStep(p)
  PROVE  Alone'
<1> USE DEF records, workdir, worktree, locks, history, used
<1>0. /\ TypeOK /\ UNCHANGED <<policy, pending, file, fileDirty, commits, run, completion>>
      /\ OwnWork' /\ pc[p] = "pass" /\ AtWorkAlone(p) /\ ~RetryableFailure
  BY NoCommit DEF DriveInv, Alone, BlockCommitted, StartStep
<1>1. pending = NoPending
  BY <1>0 DEF AtWorkAlone
<1>2. \A t \in Task : ~TaskPending(t)
  BY <1>1 DEF TaskPending, NoPending
<1>3. CASE BlockCommitted(p)
  <2>1. PICK s \in Graph : step[s].status = "running"
                           /\ step' = [step EXCEPT ![s].status = "blocked"]
    BY <1>3 DEF BlockCommitted
  <2>2. s \in Step /\ step \in [Step -> Record] /\ step[s] \in Record
    BY <1>0, GraphSteps, TypesOf
  <2>3. /\ step'[s].status = "blocked" /\ \A u \in Step : u # s => step'[u] = step[u]
    BY <2>1, <2>2 DEF Record
  <2>4. Phase(s) = "commit" => Status(TaskOf(s)).status = "pending"
    <3>1. ASSUME Phase(s) = "commit" PROVE Status(TaskOf(s)).status = "pending"
      <4>1. TaskOf(s) \in Task /\ Commit(TaskOf(s)) = step[s] /\ policy.source
        BY <2>2, <2>3, <3>1, Written, GraphSteps
      <4>2. ~CommitPassed(TaskOf(s))
        BY <2>1, <4>1 DEF CommitPassed
      <4> QED
        BY <1>2, <4>1, <4>2 DEF Alone, StepsInOrder
    <3> QED
      BY <3>1
  <2>5. StepsInOrder' /\ PendingInOrder' /\ RunInOrder'
    BY <1>0, <2>1, <2>3, <2>4, GraphWrites
  <2>6. pc'[p] = pc[p] /\ OthersStay(p)
    BY <1>3 DEF BlockCommitted, OthersStay
  <2> QED
    BY <1>0, <1>1, <2>5, <2>6, AtWorkBetween, RetryBetween, AloneMover DEF InGraph
<1>4. CASE StartStep(p)
  <2>1. PICK s \in Runnable :
          /\ step' = [step EXCEPT ![s].status = "running", ![s].attempt = "open"]
          /\ my' = [my EXCEPT ![p].step = s, ![p].sha = 0]
          /\ Goto(p, Phase(s))
    BY <1>4 DEF StartStep
  <2>2. s \in Graph /\ s \in Step /\ step \in [Step -> Record] /\ step[s] \in Record
    BY <1>0, GraphSteps, TypesOf DEF Runnable
  <2>3. /\ step'[s].status = "running" /\ \A u \in Step : u # s => step'[u] = step[u]
    BY <2>1, <2>2 DEF Record
  <2>4. step[s].status = "pending" /\ \A d \in DependsOn(s) : step[d].status = "completed"
    <3>1. Phase(s) # "none"
      BY <2>2, StepsOf
    <3>2. step[s].status # "ready"
      BY <1>1, <2>2, <3>1 DEF Alone, StepsInOrder, IsPending, NoPending
    <3> QED
      BY <2>1, <3>2 DEF Runnable
  <2>5. PICK t : t = TaskOf(s)
    OBVIOUS
  <2>6. /\ Phase(s) \in {"task", "commit", "status", "state"}
        /\ Phase(s) # "state" => t \in Task
        /\ s = <<Phase(s), t>>
    BY <2>2, <2>5, StepsOf
  <2>7. Phase(s) = "task" => \A u \in Task : u < t => Status(u).status = "completed" /\ CommitPassed(u)
    <3>1. ASSUME Phase(s) = "task", NEW u \in Task, u < t
          PROVE  Status(u).status = "completed" /\ CommitPassed(u)
      <4>1. t \in Task /\ t # 1 /\ t - 1 \in Task /\ (u = t - 1 \/ u < t - 1)
        BY <2>6, <3>1, DriveAssumption DEF Task
      <4>2. PICK w \in Task : w = t - 1
        BY <4>1
      <4>3. <<"status", t - 1>> \in DependsOn(s)
        BY <2>5, <3>1, <4>1 DEF DependsOn
      <4>4. Status(w).status = "completed"
        BY <2>4, <4>2, <4>3 DEF Status
      <4>5. CommitPassed(w)
        BY <1>2, <4>4 DEF Alone, StepsInOrder
      <4>6. Agent(w).status # "pending"
        BY <4>4 DEF DriveInv, TaskInOrder
      <4>7. u = w \/ u < w
        BY <4>1, <4>2
      <4> QED
        BY <4>4, <4>5, <4>6, <4>7 DEF Alone, StepsInOrder
    <3> QED
      BY <3>1
  <2>8. Phase(s) = "commit" => Status(t).status = "pending"
    <3>1. ASSUME Phase(s) = "commit" PROVE Status(t).status = "pending"
      <4>1. Commit(t) = step[s] /\ policy.source /\ t \in Task
        BY <2>2, <2>3, <2>5, <3>1, Written, GraphSteps
      <4>2. ~CommitPassed(t)
        BY <2>4, <4>1 DEF CommitPassed
      <4> QED
        BY <1>2, <4>1, <4>2 DEF Alone, StepsInOrder
    <3> QED
      BY <3>1
  <2>9. Phase(s) = "status" => CommitPassed(t)
    <3>1. Phase(s) = "status" /\ policy.source => <<"commit", t>> \in DependsOn(s)
      BY <2>5 DEF DependsOn
    <3> QED
      BY <2>4, <3>1 DEF CommitPassed, Commit
  <2>10. Phase(s) = "state" => AllPassed
    <3>1. Phase(s) = "state" => \A v \in Task : <<"status", v>> \in DependsOn(s)
      BY DEF DependsOn
    <3> QED
      BY <2>4, <3>1 DEF AllPassed, Status
  <2>11. StepsInOrder' /\ PendingInOrder' /\ RunInOrder'
    BY <1>0, <1>1, <2>2, <2>3, <2>4, <2>5, <2>7, <2>8, <2>9, <2>10, GraphWrites
  <2>12. /\ pc'[p] = Phase(s) /\ OthersStay(p) /\ Mine(p)' = s
    <3>1. Phase(s) \in Place
      BY <2>6 DEF Place
    <3>2. pc'[p] = Phase(s) /\ \A q \in Cli : q # p => pc'[q] = pc[q]
      BY <1>0, <2>1, <3>1, WritePc
    <3>3. my \in [Cli -> Local] /\ my[p] \in Local
      BY <1>0, TypesOf
    <3>4. Mine(p)' = s /\ \A q \in Cli : q # p => my'[q] = my[q]
      BY <2>1, <3>3 DEF Mine, Local
    <3> QED
      BY <3>2, <3>4 DEF OthersStay
  <2>13. AtWorkAlone(p)'
    <3>1. Phase(s) = "commit" => Status(t)'.status = "pending"
      BY <2>2, <2>3, <2>5, <2>8, Written
    <3>2. (step[Mine(p)].status = "running")'
      BY <2>3, <2>12
    <3>3. (TaskOf(Mine(p)) = t)' /\ (pending = NoPending)'
      BY <1>0, <1>1, <2>5, <2>12
    <3> QED
      BY <2>6, <2>12, <3>1, <3>2, <3>3 DEF AtWorkAlone, AtTask, AtCommit, AtStatus, AtState
  <2>14. RetryAlone(p)'
    BY <2>6, <2>12, RetryBetween DEF InGraph, AtTask, AtCommit, AtStatus, AtState
  <2> QED
    BY <1>0, <2>11, <2>12, <2>13, <2>14, AloneMover
<1> QED
  BY <1>3, <1>4

\* An answer is settled: the step is over, or its work is what is pending.
LEMMA SettleAlone ==
  ASSUME DriveInv, DriveInv', Alone, NEW p \in Cli, Settle(p)
  PROVE  Alone'
<1> USE DEF records, workdir, worktree, locks, history, used
<1>0. /\ TypeOK /\ UNCHANGED <<policy, pending, file, fileDirty, commits, run, completion>>
      /\ OwnWork' /\ pc[p] = "settle" /\ AtWorkAlone(p) /\ AnswerTrue(p)
  BY NoCommit DEF DriveInv, Alone, Settle
<1>1. PICK s \in Step : s = Mine(p)
  BY <1>0, TypesOf
<1>2. PICK r : r = my[p].res
  OBVIOUS
<1>3. /\ Phase(s) \in {"task", "commit", "status", "state"}
      /\ Phase(s) = "task" => r \in {"success", "partial", "blocked", "failed"}
      /\ Phase(s) = "commit" => policy.source /\ r \in {"success", "blocked", "retry"}
                                /\ Status(TaskOf(s)).status = "pending"
      /\ Phase(s) = "status" => /\ r \in {"success", "partial", "failed", "retry"}
                                /\ r \in {"success", "partial"} => Settled(TaskOf(s))
      /\ Phase(s) = "state" => /\ policy.state /\ r \in {"success", "retry"}
                               /\ r = "success" /\ AllDone => fileDirty = {}
      /\ step[s].status = "running"
      /\ IF r = "retry" THEN IsPending(s) ELSE pending = NoPending
  BY <1>0, <1>1, <1>2, StepsOf DEF AnswerTrue, AtWorkAlone
<1>4. r \in Result /\ s \in Graph
  BY <1>1, <1>3 DEF Result, Graph
<1>5. /\ step'[s].status = StatusFor(r) /\ step'[s].result = r /\ step'[s].attempt = r
      /\ \A u \in Step : u # s => step'[u] = step[u]
      /\ pc'[p] = "pass" /\ OthersStay(p)
  BY <1>0, <1>1, <1>2, <1>4, SettlesStep
<1>6. /\ step'[s].status # "pending"
      /\ step'[s].status = "ready" => r = "retry"
      /\ step'[s].status = "completed" => r \in {"success", "partial"}
  BY <1>4, <1>5 DEF StatusFor, Result
<1>7. StepsInOrder' /\ PendingInOrder' /\ RunInOrder'
  BY <1>0, <1>3, <1>4, <1>5, <1>6, GraphWrites
<1>8. AtWorkAlone(p)'
  <2>1. CASE r # "retry"
    BY <1>0, <1>3, <1>5, <2>1, AtWorkBetween
  <2>2. CASE r = "retry"
    <3>1. RetryableFailure'
      <4>1. s \in Graph' /\ Phase(s) = pending'.phase
        BY <1>0, <1>3, <1>4, <2>2 DEF Graph, IsPending
      <4> QED
        BY <1>5, <2>2, <4>1 DEF RetryableFailure
    <3> QED
      BY <1>5, <3>1 DEF AtWorkAlone, AtTask, AtCommit, AtStatus, AtState
  <2> QED
    BY <2>1, <2>2
<1>9. RetryAlone(p)'
  BY <1>5, RetryBetween DEF InGraph
<1> QED
  BY <1>0, <1>5, <1>7, <1>8, <1>9, AloneMover

\* The step of a task is at work: nothing is pending and the task is not settled.
LEMMA TaskAlone ==
  ASSUME DriveInv, DriveInv', Alone, NEW p \in Cli, TaskWork(p)
  PROVE  Alone'
<1> USE DEF records, workdir, worktree, locks, history, used
<1>0. /\ TypeOK /\ UNCHANGED <<policy, step, pending, commits, run, completion>>
      /\ OwnWork' /\ pc[p] \in AtTask /\ pc[p] # "idle" /\ AtWorkAlone(p)
  BY NoCommit DEF DriveInv, Alone, TaskWork, TaskFails, PreflightFails, GiveToAgent, AgentEnds,
     RetryContradicted, ReportBlock, AtTask
<1>1. PICK t \in Task : t = TaskOf(Mine(p))
  BY <1>0, TaskInHand
<1>2. /\ Agent(t).status = "running" /\ Phase(Mine(p)) = "task"
      /\ step[Mine(p)].status = "running" /\ pending = NoPending
  BY <1>0, <1>1, TaskInHand DEF AtWorkAlone
<1>3. ~Settled(t) /\ Status(t).status = "pending"
  BY <1>2, UnfinishedTask
<1>4. /\ \A u \in Task : u # t => file'[u] = file[u]
      /\ \/ file'[t] = file[t] /\ fileDirty' = fileDirty
         \/ file'[t] # "Done"
  <2>1. CASE TaskFails(p) \/ PreflightFails(p) \/ AgentEnds(p) \/ RetryContradicted(p)
    BY <2>1 DEF TaskFails, PreflightFails, AgentEnds, RetryContradicted
  <2>2. CASE GiveToAgent(p) \/ ReportBlock(p)
    <3>1. PICK status \in {"In Progress", "Blocked"} : SetFile(t, status)
      BY <1>1, <2>2 DEF GiveToAgent, ReportBlock
    <3>2. file'[t] = status /\ \A u \in Task : u # t => file'[u] = file[u]
      BY <1>0, <3>1, FileTyped
    <3> QED
      BY <3>1, <3>2
  <2> QED
    BY <2>1, <2>2 DEF TaskWork
<1>5. StepsInOrder' /\ PendingInOrder' /\ RunInOrder'
  <2>1. \A u \in Task : Settled(u) => Settled(u)'
    BY <1>0, <1>3, <1>4 DEF Settled
  <2>2. StateStatus # "completed"
    BY <1>3 DEF Alone, StepsInOrder, AllPassed
  <2> QED
    BY <1>0, <2>1, <2>2, FilesInOrder
<1>6. /\ OthersStay(p) /\ Mine(p)' = Mine(p)
      /\ \/ pc'[p] \in AtTask
         \/ pc'[p] = "settle" /\ my'[p].res # "retry"
  <2>1. my[p] \in Local /\ my \in [Cli -> Local]
    BY <1>0, TypesOf
  <2>2. ASSUME NEW r \in {"failed", "blocked", "partial"}, Answer(p, r)
        PROVE  /\ OthersStay(p) /\ Mine(p)' = Mine(p)
               /\ pc'[p] = "settle" /\ my'[p].res # "retry"
    <3>1. r \in Result
      BY DEF Result
    <3> QED
      BY <1>0, <2>2, <3>1, Answered
  <2>3. CASE TaskFails(p) \/ PreflightFails(p)
    BY <2>2, <2>3 DEF TaskFails, PreflightFails
  <2>4. CASE GiveToAgent(p)
    BY <1>0, <2>4, HasMoved DEF GiveToAgent, Place, AtTask
  <2>5. CASE AgentEnds(p)
    <3>1. PICK a \in BackendAnswer, changes \in SUBSET {t} :
            /\ my' = [my EXCEPT ![p].res = Verdict(a, dirty \cup changes # {})]
            /\ Goto(p, IF Verdict(a, dirty \cup changes # {}) = "success" THEN "settle" ELSE "report")
      BY <1>1, <2>5 DEF AgentEnds
    <3>2. PICK r \in Result : r = Verdict(a, dirty \cup changes # {})
      BY DEF Verdict, Result
    <3>3. PICK l \in {"settle", "report"} : Goto(p, l) /\ (l = "settle" => r = "success")
      BY <3>1, <3>2
    <3>4. /\ pc'[p] = l /\ Mine(p)' = Mine(p) /\ OthersStay(p) /\ my'[p].res = r
      <4>1. l \in Place /\ 0 \in Nat /\ my' = [my EXCEPT ![p].res = r]
        BY <3>1, <3>2 DEF Place
      <4> QED
        BY <1>0, <3>3, <4>1, Noted
    <3> QED
      BY <3>3, <3>4 DEF AtTask
  <2>6. CASE RetryContradicted(p)
    <3>1. pc'[p] = "agent" /\ \A q \in Cli : q # p => pc'[q] = pc[q]
      BY <1>0, <2>6, WritePc DEF RetryContradicted, Place
    <3>2. Mine(p)' = Mine(p) /\ \A q \in Cli : q # p => my'[q] = my[q]
      BY <2>1, <2>6 DEF RetryContradicted, Mine, Local
    <3> QED
      BY <3>1, <3>2 DEF OthersStay, AtTask
  <2>7. CASE ReportBlock(p)
    <3>1. PICK r \in {"partial", "blocked"} : Answer(p, r)
      BY <2>7 DEF ReportBlock
    <3> QED
      BY <2>2, <3>1
  <2> QED
    BY <2>3, <2>4, <2>5, <2>6, <2>7 DEF TaskWork
<1>7. AtWorkAlone(p)'
  <2>1. (step[Mine(p)].status = "running")' /\ (Phase(Mine(p)) = "task")' /\ (pending = NoPending)'
    BY <1>0, <1>2, <1>6
  <2> QED
    BY <1>6, <2>1 DEF AtWorkAlone, AtTask, AtCommit, AtStatus, AtState
<1>8. RetryAlone(p)'
  BY <1>6, RetryBetween DEF InGraph
<1> QED
  BY <1>0, <1>5, <1>6, <1>7, <1>8, AloneMover

\* A source commit: the changes it finds are those of its task alone.
LEMMA CommitAlone ==
  ASSUME DriveInv, DriveInv', Alone, NEW p \in Cli,
         \/ CommitBegins(p) \/ LockCommits(p, "commit lock", "git") \/ CommitSource(p)
         \/ NothingToCommit(p) \/ NameCommit(p) \/ CommitFails(p)
  PROVE  Alone'
<1> USE DEF records, workdir, worktree, locks, history, used
<1>0. /\ TypeOK /\ pc[p] \in AtCommit /\ pc[p] # "commit pending" /\ pc[p] # "idle" /\ HEAD \in Nat
      /\ UNCHANGED <<policy, step, file, pending, run, completion>>
      /\ AtWorkAlone(p)
  BY TypesOf DEF DriveInv, Alone, CommitBegins, LockCommits, CommitSource, NothingToCommit,
     NameCommit, CommitFails, AtCommit
<1>1. PICK t \in Task : t = TaskOf(Mine(p))
  BY <1>0, TaskInHand
<1>2. /\ Phase(Mine(p)) = "commit" /\ policy.source /\ Commit(t).status # "pending"
      /\ Status(t).status = "pending" /\ step[Mine(p)].status = "running"
      /\ pending = NoPending
  BY <1>0, <1>1, TaskInHand DEF AtWorkAlone
<1>3. dirty \subseteq {t}
  <2>1. ASSUME NEW u \in Task, u # t PROVE u \notin dirty
    <3>1. CASE u < t
      <4>1. Agent(t).status # "pending"
        BY <1>2 DEF DriveInv, TaskInOrder
      <4>2. Commit(u).status = "completed"
        BY <1>2, <3>1, <4>1 DEF Alone, StepsInOrder, CommitPassed
      <4> QED
        BY <1>2, <4>2 DEF DriveInv, TaskInOrder
    <3>2. CASE t < u
      <4>1. Agent(u).status = "pending"
        BY <1>2, <3>2 DEF Alone, StepsInOrder
      <4> QED
        BY <4>1 DEF DriveInv, TaskInOrder
    <3> QED
      BY <2>1, <3>1, <3>2, TaskOrder
  <2> QED
    BY <1>0, <2>1 DEF TypeOK
<1>4. OwnWork' /\ fileDirty' \subseteq fileDirty
  <2>1. CASE CommitSource(p)
    <3>1. AddCommit(t, dirty, {})
      BY <1>1, <2>1 DEF CommitSource
    <3>2. t \in 0..(N + 1)
      BY TaskOrder
    <3>3. dirty \in SUBSET Task
      BY <1>0 DEF TypeOK
    <3> QED
      BY <1>3, <3>1, <3>2, <3>3, OwnWorkKept DEF Alone, AddCommit
  <2>2. CASE ~CommitSource(p)
    BY <2>2, NoCommit DEF Alone, CommitBegins, LockCommits, NothingToCommit, NameCommit, CommitFails
  <2> QED
    BY <2>1, <2>2
<1>5. StepsInOrder' /\ PendingInOrder' /\ RunInOrder'
  BY <1>0, <1>4, QuietFiles
<1>6. /\ OthersStay(p) /\ Mine(p)' = Mine(p)
      /\ \/ pc'[p] \in AtCommit \ {"commit pending"}
         \/ pc'[p] = "settle" /\ my'[p].res = "success"
  <2>1. "success" \in Result
    BY DEF Result
  <2>2. CASE CommitBegins(p)
    <3>1. Goto(p, "commit lock") /\ "commit lock" \in Place /\ my' = [my EXCEPT ![p].head = HEAD]
      BY <2>2 DEF CommitBegins, Place
    <3> QED
      BY <1>0, <2>1, <3>1, Noted DEF AtCommit
  <2>3. CASE LockCommits(p, "commit lock", "git") \/ CommitSource(p) \/ CommitFails(p)
    <3>1. PICK l \in {"git", "committed", "commit blocks", "commit pends"} : Goto(p, l) /\ my' = my
      BY <2>3 DEF LockCommits, CommitSource, CommitFails
    <3>2. l \in Place /\ l \in AtCommit \ {"commit pending"}
      BY DEF Place, AtCommit
    <3> QED
      BY <1>0, <3>1, <3>2, HasMoved
  <2>4. CASE NothingToCommit(p)
    BY <1>0, <2>1, <2>4, Answered DEF NothingToCommit
  <2>5. CASE NameCommit(p)
    <3>1. Goto(p, "settle") /\ "settle" \in Place
          /\ my' = [my EXCEPT ![p].res = "success", ![p].sha = HEAD]
      BY <2>5 DEF NameCommit, Place
    <3> QED
      BY <1>0, <2>1, <3>1, Noted
  <2> QED
    BY <2>2, <2>3, <2>4, <2>5
<1>7. AtWorkAlone(p)'
  <2>1. /\ (TaskOf(Mine(p)) = t)' /\ (Phase(Mine(p)) = "commit")' /\ (pending = NoPending)'
        /\ (step[Mine(p)].status = "running")' /\ Status(t)'.status = "pending"
    BY <1>0, <1>1, <1>2, <1>6, StepsStay
  <2> QED
    BY <1>6, <2>1 DEF AtWorkAlone, AtTask, AtCommit, AtStatus, AtState
<1>8. RetryAlone(p)'
  BY <1>6, RetryBetween DEF InGraph
<1> QED
  BY <1>0, <1>4, <1>5, <1>6, <1>7, <1>8, AloneMover

\* What becomes pending is the work in hand, and nothing was pending before.
LEMMA PendsInOrder ==
  ASSUME DriveInv, Alone, NEW s \in Graph, step[s].status = "running", pending = NoPending,
         UNCHANGED <<policy, step, file, fileDirty, run, completion>>,
         pending'.phase = Phase(s), pending'.task = TaskOf(s),
         Phase(s) # "task", Phase(s) = "commit" => Status(TaskOf(s)).status = "pending"
  PROVE  StepsInOrder' /\ PendingInOrder' /\ RunInOrder' /\ IsPending(s)'
<1>0. PICK t : t = TaskOf(s)
  OBVIOUS
<1>1. /\ s \in Step /\ Phase(s) \in {"commit", "status", "state"}
      /\ Phase(s) # "state" => t \in Task
      /\ Phase(s) = "state" => s = <<"state", 0>> /\ t = 0
  BY <1>0, GraphSteps, StepsOf
<1>2. \A v \in Task : Agent(v)' = Agent(v) /\ Commit(v)' = Commit(v) /\ Status(v)' = Status(v)
  BY StepsStay
<1>3. /\ \A v \in Task : CommitPassed(v)' <=> CommitPassed(v)
      /\ \A v \in Task : Settled(v)' <=> Settled(v)
      /\ StateStatus' = StateStatus /\ (AllPassed' <=> AllPassed) /\ (AllDone' <=> AllDone)
  BY <1>2 DEF CommitPassed, Settled, StateStatus, AllPassed, AllDone
<1>4. \A u \in Step : step[u].status # "ready"
  BY StepsOf DEF Alone, StepsInOrder, IsPending, NoPending
<1>5. \A v \in Task : ~TaskPending(v)
  BY DEF TaskPending, NoPending
<1>6. \A v \in Task : TaskPending(v)' => v = t /\ Phase(s) \in {"commit", "status"}
  BY <1>0 DEF TaskPending
<1>7. Phase(s) \in {"commit", "status"} => Status(t).status # "completed"
  BY <1>0, <1>1, Written
<1>8. Phase(s) # "state" => StateStatus = "pending"
  BY <1>1, <1>7 DEF Alone, StepsInOrder, AllPassed
<1>9. Phase(s) = "state" => StateStatus = "running"
  BY <1>1 DEF StateStatus
<1>10. StepsInOrder'
  <2>1. \A v, u \in Task : u < v /\ Agent(v)'.status # "pending" =>
          Status(u)'.status = "completed" /\ CommitPassed(u)'
    BY <1>2, <1>3 DEF Alone, StepsInOrder
  <2>2. \A v \in Task : Status(v)'.status # "pending" => CommitPassed(v)' \/ TaskPending(v)'
    BY <1>2, <1>3, <1>5 DEF Alone, StepsInOrder
  <2>3. \A v \in Task : Status(v)'.status = "completed" => Settled(v)'
    BY <1>2, <1>3 DEF Alone, StepsInOrder
  <2>4. StateStatus' # "pending" => AllPassed' /\ pending'.phase \in {"none", "state"}
    BY <1>1, <1>3, <1>8 DEF Alone, StepsInOrder
  <2>5. StateStatus' = "completed" /\ AllDone' => fileDirty' = {}
    BY <1>3 DEF Alone, StepsInOrder
  <2> QED
    BY <1>4, <2>1, <2>2, <2>3, <2>4, <2>5 DEF StepsInOrder
<1>11. PendingInOrder'
  <2>1. \A v \in Task : TaskPending(v)' => \A u \in Task : u > v => Agent(u)'.status = "pending"
    <3>1. ASSUME NEW v \in Task, TaskPending(v)', NEW u \in Task, u > v
          PROVE  Agent(u)'.status = "pending"
      <4>1. v = t /\ Status(v).status # "completed" /\ v < u
        BY <1>6, <1>7, <3>1, TaskOrder
      <4> QED
        BY <1>2, <4>1 DEF Alone, StepsInOrder
    <3> QED
      BY <3>1
  <2>2. pending'.phase = "status" => CommitPassed(t)'
    <3>1. Phase(s) = "status" => t \in Task /\ Status(t).status # "pending"
      BY <1>0, <1>1, Written
    <3> QED
      BY <1>3, <1>5, <3>1 DEF Alone, StepsInOrder
  <2>3. pending'.phase = "state" => StateStatus' # "pending"
    BY <1>3, <1>9
  <2>4. (pending.task = t)'
    BY <1>0
  <2> QED
    BY <2>1, <2>2, <2>3, <2>4 DEF PendingInOrder
<1>12. RunInOrder'
  <2>1. run # "completed"
    BY DEF Alone, RunInOrder
  <2> QED
    BY <1>3, <2>1 DEF Alone, RunInOrder
<1>13. IsPending(s)'
  BY DEF IsPending
<1> QED
  BY <1>10, <1>11, <1>12, <1>13

\* A task's file is marked anything but Done before the task is finalized.
LEMMA MarksInOrder ==
  ASSUME DriveInv, Alone, NEW t \in Task, Status(t).status = "pending",
         NEW status \in {"In Progress", "Blocked"}, SetFile(t, status),
         UNCHANGED <<policy, step, pending, run, completion>>
  PROVE  StepsInOrder' /\ PendingInOrder' /\ RunInOrder'
<1>1. file'[t] = status /\ \A u \in Task : u # t => file'[u] = file[u]
  BY FileTyped DEF DriveInv
<1>2. file[t] # "Done"
  BY DEF DriveInv, TaskInOrder
<1>3. \A u \in Task : Settled(u) => Settled(u)'
  BY <1>1, <1>2 DEF Settled
<1>4. StateStatus # "completed"
  BY DEF Alone, StepsInOrder, AllPassed
<1> QED
  BY <1>3, <1>4, FilesInOrder

\* A source commit that failed: the work is blocked, or it is what is pending.
LEMMA CommitFailedAlone ==
  ASSUME DriveInv, DriveInv', Alone, NEW p \in Cli,
         BlockPartial(p) \/ PendCommit(p) \/ NoteCommitPending(p)
  PROVE  Alone'
<1> USE DEF records, workdir, worktree, locks, history, used
<1>0. /\ TypeOK /\ pc[p] \in AtCommit /\ pc[p] # "idle"
      /\ UNCHANGED <<policy, step, commits, run, completion>>
      /\ OwnWork' /\ AtWorkAlone(p)
  BY NoCommit DEF DriveInv, Alone, BlockPartial, PendCommit, NoteCommitPending, AtCommit
<1>1. PICK s \in Step : s = Mine(p)
  BY <1>0, TypesOf
<1>2. PICK t \in Task : t = TaskOf(s)
  BY <1>0, <1>1, TaskInHand
<1>3. /\ Phase(s) = "commit" /\ s \in Graph /\ Status(t).status = "pending"
      /\ step[s].status = "running"
  BY <1>0, <1>1, <1>2, TaskInHand DEF AtWorkAlone, Graph
<1>4. "blocked" \in Result /\ "retry" \in Result
  BY DEF Result
<1>5. /\ StepsInOrder' /\ PendingInOrder' /\ RunInOrder' /\ OthersStay(p) /\ Mine(p)' = s
      /\ \/ pc'[p] = "settle" /\ my'[p].res = "blocked" /\ pending' = NoPending
         \/ pc'[p] = "settle" /\ my'[p].res = "retry" /\ IsPending(s)'
         \/ pc'[p] = "commit pending" /\ IsPending(s)'
  <2>1. CASE BlockPartial(p)
    <3>1. SetFile(t, "Blocked") /\ pending' = pending
      BY <1>1, <1>2, <2>1 DEF BlockPartial
    <3>2. StepsInOrder' /\ PendingInOrder' /\ RunInOrder'
      BY <1>0, <1>3, <3>1, MarksInOrder
    <3>3. pc'[p] = "settle" /\ my'[p].res = "blocked" /\ OthersStay(p) /\ Mine(p)' = Mine(p)
      BY <1>0, <1>4, <2>1, Answered DEF BlockPartial
    <3>4. pending = NoPending
      BY <1>0, <2>1 DEF BlockPartial, AtWorkAlone
    <3> QED
      BY <1>1, <3>1, <3>2, <3>3, <3>4
  <2>2. CASE PendCommit(p)
    <3>1. pending = NoPending
      BY <1>0, <2>2 DEF PendCommit, AtWorkAlone
    <3>2. pending'.phase = Phase(s) /\ pending'.task = TaskOf(s)
      BY <1>1, <1>3, <2>2 DEF PendCommit
    <3>3. UNCHANGED <<file, fileDirty>>
      BY <2>2 DEF PendCommit
    <3>4. Phase(s) = "commit" => Status(TaskOf(s)).status = "pending"
      BY <1>2, <1>3
    <3>5. StepsInOrder' /\ PendingInOrder' /\ RunInOrder' /\ IsPending(s)'
      BY <1>0, <1>3, <3>1, <3>2, <3>3, <3>4, PendsInOrder
    <3>6. pc'[p] = "commit pending" /\ OthersStay(p) /\ Mine(p)' = Mine(p)
      BY <1>0, <2>2, HasMoved DEF PendCommit, Place
    <3> QED
      BY <1>1, <3>5, <3>6
  <2>3. CASE NoteCommitPending(p)
    <3>1. SetFile(t, "In Progress") /\ pending' = pending
      BY <1>1, <1>2, <2>3 DEF NoteCommitPending
    <3>2. StepsInOrder' /\ PendingInOrder' /\ RunInOrder'
      BY <1>0, <1>3, <3>1, MarksInOrder
    <3>3. pc'[p] = "settle" /\ my'[p].res = "retry" /\ OthersStay(p) /\ Mine(p)' = Mine(p)
      BY <1>0, <1>4, <2>3, Answered DEF NoteCommitPending
    <3>4. IsPending(s)
      BY <1>0, <1>1, <2>3 DEF NoteCommitPending, AtWorkAlone
    <3>5. IsPending(s)'
      BY <3>1, <3>4 DEF IsPending
    <3> QED
      BY <1>1, <3>2, <3>3, <3>5
  <2> QED
    BY <2>1, <2>2, <2>3
<1>6. AtWorkAlone(p)'
  <2>1. /\ (TaskOf(Mine(p)) = t)' /\ (Phase(Mine(p)) = "commit")'
        /\ (step[Mine(p)].status = "running")' /\ Status(t)'.status = "pending"
    BY <1>0, <1>1, <1>2, <1>3, <1>5, StepsStay
  <2>2. IsPending(s)' => IsPending(Mine(p))'
    BY <1>5
  <2> QED
    BY <1>5, <2>1, <2>2 DEF AtWorkAlone, AtTask, AtCommit, AtStatus, AtState
<1>7. RetryAlone(p)'
  BY <1>5, RetryBetween DEF InGraph, AtCommit
<1> QED
  BY <1>0, <1>5, <1>6, <1>7, AloneMover

\* A step that was started belongs to the graph.
LEMMA StartedInGraph ==
  ASSUME DriveInv, NEW p \in Cli, pc[p] \in AtStatus \cup AtState
  PROVE  /\ Mine(p) \in Graph
         /\ pc[p] \in AtState => Mine(p) = <<"state", 0>>
BY TypesOf, StepsOf DEF DriveInv, StepInHand, Graph, AtStatus, AtState

\* The status of a task: Done, or partial, before the step is said to be done.
LEMMA StatusAlone ==
  ASSUME DriveInv, DriveInv', Alone, NEW p \in Cli,
         MarkDone(p) \/ AnnounceStatus(p) \/ StatusFails(p) \/ KeepPartial(p)
  PROVE  Alone'
<1> USE DEF records, workdir, worktree, locks, history, used
<1>0. /\ TypeOK /\ pc[p] \in AtStatus /\ pc[p] # "idle"
      /\ UNCHANGED <<policy, step, commits, run, completion>>
      /\ OwnWork' /\ AtWorkAlone(p)
  BY NoCommit DEF DriveInv, Alone, MarkDone, AnnounceStatus, StatusFails, KeepPartial, AtStatus
<1>1. PICK s \in Step : s = Mine(p)
  BY <1>0, TypesOf
<1>2. PICK t \in Task : t = TaskOf(s)
  BY <1>0, <1>1, TaskInHand
<1>3. /\ Phase(s) = "status" /\ s \in Graph /\ step[s].status = "running"
      /\ Status(t).status = "running" /\ pending = NoPending /\ Committed(t) \in Nat
  <2>1. /\ Phase(s) = "status" /\ s \in Graph /\ step[s].status = "running"
        /\ pending = NoPending
    BY <1>0, <1>1, TaskInHand, StartedInGraph DEF AtWorkAlone
  <2>2. Status(t) = step[s]
    BY <1>0, <1>2, <2>1, Written
  <2>3. step[<<"commit", t>>] \in Record
    BY <1>0, StepsOf, TypesOf
  <2> QED
    BY <2>1, <2>2, <2>3 DEF Committed, Record
<1>4. "success" \in Result /\ "retry" \in Result /\ "failed" \in Result /\ "partial" \in Result
  BY DEF Result
<1>5. StateStatus # "completed"
  BY <1>3 DEF Alone, StepsInOrder, AllPassed
<1>6. ASSUME NEW st \in {"In Progress", "Done"}, SetFile(t, st), pending' = pending,
             Settled(t) => Settled(t)'
      PROVE  StepsInOrder' /\ PendingInOrder' /\ RunInOrder'
  <2>1. \A u \in Task : u # t => file'[u] = file[u]
    BY <1>0, <1>6, FileTyped
  <2>2. \A u \in Task : Settled(u) => Settled(u)'
    BY <1>0, <1>6, <2>1 DEF Settled
  <2> QED
    BY <1>0, <1>5, <1>6, <2>2, FilesInOrder
<1>7. /\ StepsInOrder' /\ PendingInOrder' /\ RunInOrder' /\ OthersStay(p) /\ Mine(p)' = s
      /\ \/ pc'[p] = "announce" /\ pending' = NoPending /\ Settled(t)'
         \/ /\ pc'[p] = "settle" /\ my'[p].res \in {"success", "partial"}
            /\ pending' = NoPending /\ Settled(t)'
         \/ pc'[p] = "settle" /\ my'[p].res = "failed" /\ pending' = NoPending
         \/ pc'[p] = "settle" /\ my'[p].res = "retry" /\ IsPending(s)'
  <2>1. CASE MarkDone(p)
    <3>1. SetFile(t, "Done") /\ pending' = pending
      BY <1>1, <1>2, <2>1 DEF MarkDone
    <3>2. file'[t] = "Done"
      BY <1>0, <3>1, FileTyped
    <3>3. StepsInOrder' /\ PendingInOrder' /\ RunInOrder'
      BY <1>6, <3>1, <3>2 DEF Settled
    <3>4. pc'[p] = "announce" /\ OthersStay(p) /\ Mine(p)' = Mine(p)
      BY <1>0, <2>1, HasMoved DEF MarkDone, Place
    <3>5. Settled(t)'
      BY <3>2 DEF Settled
    <3> QED
      BY <1>1, <1>3, <3>1, <3>3, <3>4, <3>5
  <2>2. CASE AnnounceStatus(p)
    <3>1. Settled(t) /\ UNCHANGED <<file, fileDirty, pending>>
      BY <1>0, <1>1, <1>2, <2>2 DEF AnnounceStatus, AtWorkAlone
    <3>2. StepsInOrder' /\ PendingInOrder' /\ RunInOrder' /\ Settled(t)'
      BY <1>0, <3>1, QuietFiles DEF Settled
    <3>3. PICK r \in Result : r = Agent(t).result /\ r \in {"success", "partial"}
      BY <1>3, <1>4 DEF DriveInv, TaskInOrder
    <3>4. /\ Goto(p, "settle") /\ "settle" \in Place
          /\ my' = [my EXCEPT ![p].res = r, ![p].sha = Committed(t)]
      BY <1>1, <1>2, <2>2, <3>3 DEF AnnounceStatus, Place, Reported, Agent
    <3>5. pc'[p] = "settle" /\ my'[p].res = r /\ OthersStay(p) /\ Mine(p)' = Mine(p)
      BY <1>0, <1>3, <3>4, Noted
    <3> QED
      BY <1>1, <1>3, <3>1, <3>2, <3>3, <3>5
  <2>3. CASE StatusFails(p) /\ policy.source /\ Committed(t) # 0
    <3>1. /\ Goto(p, "settle") /\ "settle" \in Place
          /\ my' = [my EXCEPT ![p].res = "retry", ![p].sha = Committed(t)]
          /\ UNCHANGED <<file, fileDirty>>
          /\ pending'.phase = Phase(s) /\ pending'.task = TaskOf(s)
      BY <1>1, <1>2, <1>3, <2>3 DEF StatusFails, Place
    <3>2. StepsInOrder' /\ PendingInOrder' /\ RunInOrder' /\ IsPending(s)'
      BY <1>0, <1>3, <3>1, PendsInOrder
    <3>3. pc'[p] = "settle" /\ my'[p].res = "retry" /\ OthersStay(p) /\ Mine(p)' = Mine(p)
      BY <1>0, <1>3, <1>4, <3>1, Noted
    <3> QED
      BY <1>1, <3>2, <3>3
  <2>4. CASE StatusFails(p) /\ ~(policy.source /\ Committed(t) # 0)
    <3>1. Answer(p, "failed") /\ UNCHANGED <<pending, file, fileDirty>>
      BY <1>1, <1>2, <2>4 DEF StatusFails
    <3>2. StepsInOrder' /\ PendingInOrder' /\ RunInOrder'
      BY <1>0, <3>1, QuietFiles
    <3>3. pc'[p] = "settle" /\ my'[p].res = "failed" /\ OthersStay(p) /\ Mine(p)' = Mine(p)
      BY <1>0, <1>4, <3>1, Answered
    <3> QED
      BY <1>1, <1>3, <3>1, <3>2, <3>3
  <2>5. CASE KeepPartial(p)
    <3>1. SetFile(t, "In Progress") /\ pending' = pending /\ Agent(t).result = "partial"
      BY <1>1, <1>2, <2>5 DEF KeepPartial, Reported, Agent
    <3>2. Settled(t)'
      BY <1>0, <3>1 DEF DriveInv, TaskInOrder, Settled, Agent
    <3>3. StepsInOrder' /\ PendingInOrder' /\ RunInOrder'
      BY <1>6, <3>1, <3>2
    <3>4. pc'[p] = "announce" /\ OthersStay(p) /\ Mine(p)' = Mine(p)
      BY <1>0, <2>5, HasMoved DEF KeepPartial, Place
    <3> QED
      BY <1>1, <1>3, <3>1, <3>2, <3>3, <3>4
  <2> QED
    BY <2>1, <2>2, <2>3, <2>4, <2>5
<1>8. AtWorkAlone(p)'
  <2>1. /\ (TaskOf(Mine(p)) = t)' /\ (Phase(Mine(p)) = "status")'
        /\ (step[Mine(p)].status = "running")'
        /\ IsPending(s)' => IsPending(Mine(p))'
    BY <1>0, <1>1, <1>2, <1>3, <1>7
  <2> QED
    BY <1>7, <2>1 DEF AtWorkAlone, AtTask, AtCommit, AtStatus, AtState
<1>9. RetryAlone(p)'
  BY <1>7, RetryBetween DEF InGraph, AtStatus
<1> QED
  BY <1>0, <1>7, <1>8, <1>9, AloneMover

\* When every task passed and every file is Done, every task is done.
LEMMA PassedIsDone ==
  ASSUME DriveInv, PartialsKept, pending = NoPending, AllPassed, AllDone, NEW t \in Task
  PROVE  IsDone(t)
<1>1. Status(t).status = "completed" /\ file[t] = "Done" /\ TaskInOrder(t) /\ PartialKept(t)
  BY DEF AllPassed, AllDone, DriveInv, PartialsKept
<1>2. ~TaskPending(t)
  BY DEF TaskPending, NoPending
<1>3. Status(t).result # "partial"
  BY <1>1, <1>2 DEF PartialKept
<1> QED
  BY <1>1, <1>3 DEF TaskInOrder, IsDone, Status

\* The commit of the task files leaves none of them uncommitted.
LEMMA CommitsFiles ==
  ASSUME DriveInv, OwnWork, NEW p \in Cli, NEW at, NEW committed, NEW unchanged,
         CommitFiles(p, at, committed, unchanged)
  PROVE  /\ OwnWork' /\ fileDirty' = {} /\ OthersStay(p) /\ dirty' \subseteq dirty
         /\ UNCHANGED <<policy, records, workdir, file>>
         /\ Mine(p)' = Mine(p) /\ my'[p].res = "success"
         /\ my'[p].pend = my[p].pend /\ my'[p].left = my[p].left
         /\ committed \in Place /\ unchanged \in Place => pc'[p] \in {committed, unchanged}
<1>1. TypeOK /\ HEAD + 1 \in Nat /\ "success" \in Result
  <2>1. TypeOK /\ HEAD \in Nat
    BY TypesOf DEF DriveInv
  <2> QED
    BY <2>1, NextNumber DEF Result
<1>2. OwnWork' /\ fileDirty' = {} /\ dirty' \subseteq dirty
  <2>1. CASE fileDirty # {}
    <3>1. AddCommit(StateCommit, {}, fileDirty)
      BY <2>1 DEF CommitFiles
    <3>2. StateCommit \in 0..(N + 1) /\ StateCommit \notin Task
      BY DriveAssumption DEF StateCommit, Task
    <3>3. OwnWork'
      BY <3>1, <3>2, OwnWorkKept
    <3> QED
      BY <3>1, <3>3 DEF AddCommit
  <2>2. CASE fileDirty = {}
    BY <2>2, NoCommit DEF CommitFiles
  <2> QED
    BY <2>1, <2>2
<1>3. /\ \A o \in Cli : o # p => pc'[o] = pc[o]
      /\ committed \in Place /\ unchanged \in Place => pc'[p] \in {committed, unchanged}
  <2>1. Goto(p, committed) \/ Goto(p, unchanged)
    BY DEF CommitFiles
  <2>2. pc \in [Cli -> Place]
    BY <1>1 DEF TypeOK
  <2> QED
    BY <2>1, <2>2 DEF Goto
<1>4. /\ Mine(p)' = Mine(p) /\ my'[p].res = "success"
      /\ my'[p].pend = my[p].pend /\ my'[p].left = my[p].left
      /\ \A o \in Cli : o # p => my'[o] = my[o]
  <2>1. \/ my' = [my EXCEPT ![p].res = "success", ![p].sha = HEAD + 1]
        \/ my' = [my EXCEPT ![p].res = "success"]
    BY DEF CommitFiles
  <2>2. MyIs(p, [my[p] EXCEPT !.res = "success", !.sha = HEAD + 1])
        \/ MyIs(p, [my[p] EXCEPT !.res = "success"])
    BY <1>1, <2>1, MyWith
  <2>3. my[p] \in Local
    BY <1>1, TypesOf
  <2> QED
    BY <2>2, <2>3 DEF MyIs, Mine, Local
<1>5. UNCHANGED <<policy, records, workdir, file>>
  BY DEF CommitFiles
<1> QED
  BY <1>2, <1>3, <1>4, <1>5 DEF OthersStay

\* The finalizer of the task files.
LEMMA StateAlone ==
  ASSUME DriveInv, DriveInv', Alone, PartialsKept, NEW p \in Cli,
         \/ SkipStateCommit(p) \/ StateBegins(p) \/ LockCommits(p, "state lock", "state git")
         \/ CommitFiles(p, "state git", "settle", "settle") \/ PendState(p)
  PROVE  Alone'
<1> USE DEF records, workdir, worktree, locks, history, used
<1>0. /\ TypeOK /\ pc[p] \in AtState /\ pc[p] # "idle" /\ HEAD \in Nat
      /\ UNCHANGED <<policy, step, file, run, completion>>
      /\ AtWorkAlone(p) /\ OwnWork
  BY TypesOf DEF DriveInv, Alone, SkipStateCommit, StateBegins, LockCommits, CommitFiles, PendState,
     AtState
<1>1. PICK s \in Step : s = Mine(p)
  BY <1>0, TypesOf
<1>2. /\ s = <<"state", 0>> /\ Phase(s) = "state" /\ s \in Graph
      /\ step[s].status = "running" /\ pending = NoPending
  <2>1. s \in Graph /\ s = <<"state", 0>>
    BY <1>0, <1>1, StartedInGraph
  <2>2. Phase(s) = "state"
    BY <2>1 DEF Phase
  <2>3. step[s].status = "running" /\ pending = NoPending
    BY <1>0, <1>1 DEF AtWorkAlone
  <2> QED
    BY <2>1, <2>2, <2>3
<1>3. AllPassed
  BY <1>2 DEF Alone, StepsInOrder, StateStatus
<1>4. "success" \in Result /\ "retry" \in Result
  BY DEF Result
<1>5. /\ OwnWork' /\ StepsInOrder' /\ PendingInOrder' /\ RunInOrder'
      /\ OthersStay(p) /\ Mine(p)' = s
      /\ \/ pc'[p] \in AtState /\ pending' = NoPending
         \/ /\ pc'[p] = "settle" /\ my'[p].res = "success" /\ pending' = NoPending
            /\ AllDone' => fileDirty' = {}
         \/ pc'[p] = "settle" /\ my'[p].res = "retry" /\ IsPending(s)'
  <2>1. CASE SkipStateCommit(p)
    <3>1. Answer(p, "success") /\ UNCHANGED <<pending, fileDirty, commits>>
      BY <2>1 DEF SkipStateCommit
    <3>2. ~AllDone
      BY <1>2, <1>3, <2>1, PassedIsDone DEF SkipStateCommit
    <3>3. OwnWork' /\ ~AllDone'
      BY <1>0, <3>1, <3>2, NoCommit DEF AllDone
    <3>4. StepsInOrder' /\ PendingInOrder' /\ RunInOrder'
      BY <1>0, <3>1, QuietFiles
    <3>5. pc'[p] = "settle" /\ my'[p].res = "success" /\ OthersStay(p) /\ Mine(p)' = Mine(p)
      BY <1>0, <1>4, <3>1, Answered
    <3> QED
      BY <1>1, <1>2, <3>1, <3>3, <3>4, <3>5
  <2>2. CASE StateBegins(p)
    <3>1. /\ Goto(p, "state lock") /\ "state lock" \in Place /\ my' = [my EXCEPT ![p].head = HEAD]
          /\ UNCHANGED <<pending, fileDirty, commits>>
      BY <2>2 DEF StateBegins, Place
    <3>2. OwnWork' /\ StepsInOrder' /\ PendingInOrder' /\ RunInOrder'
      BY <1>0, <3>1, NoCommit, QuietFiles
    <3>3. pc'[p] = "state lock" /\ OthersStay(p) /\ Mine(p)' = Mine(p)
      BY <1>0, <1>4, <3>1, Noted
    <3> QED
      BY <1>1, <1>2, <3>1, <3>2, <3>3 DEF AtState
  <2>3. CASE LockCommits(p, "state lock", "state git")
    <3>1. /\ Goto(p, "state git") /\ "state git" \in Place /\ my' = my
          /\ UNCHANGED <<pending, fileDirty, commits>>
      BY <2>3 DEF LockCommits, Place
    <3>2. OwnWork' /\ StepsInOrder' /\ PendingInOrder' /\ RunInOrder'
      BY <1>0, <3>1, NoCommit, QuietFiles
    <3>3. pc'[p] = "state git" /\ OthersStay(p) /\ Mine(p)' = Mine(p)
      BY <1>0, <3>1, HasMoved
    <3> QED
      BY <1>1, <1>2, <3>1, <3>2, <3>3 DEF AtState
  <2>4. CASE CommitFiles(p, "state git", "settle", "settle")
    <3>0. "settle" \in Place
      BY DEF Place
    <3>1. /\ OwnWork' /\ fileDirty' = {} /\ OthersStay(p) /\ pending' = pending
          /\ Mine(p)' = Mine(p) /\ my'[p].res = "success"
          /\ "settle" \in Place => pc'[p] \in {"settle", "settle"}
      BY <1>0, <2>4, CommitsFiles
    <3>2. StepsInOrder' /\ PendingInOrder' /\ RunInOrder'
      BY <1>0, <3>1, QuietFiles
    <3> QED
      BY <1>1, <1>2, <3>0, <3>1, <3>2
  <2>5. CASE PendState(p)
    <3>1. /\ Answer(p, "retry") /\ UNCHANGED <<fileDirty, commits>>
          /\ pending'.phase = Phase(s) /\ pending'.task = TaskOf(s)
      BY <1>2, <2>5 DEF PendState, TaskOf
    <3>2. OwnWork'
      BY <1>0, <3>1, NoCommit
    <3>3. StepsInOrder' /\ PendingInOrder' /\ RunInOrder' /\ IsPending(s)'
      BY <1>0, <1>2, <3>1, PendsInOrder
    <3>4. pc'[p] = "settle" /\ my'[p].res = "retry" /\ OthersStay(p) /\ Mine(p)' = Mine(p)
      BY <1>0, <1>4, <3>1, Answered
    <3> QED
      BY <1>1, <3>2, <3>3, <3>4
  <2> QED
    BY <2>1, <2>2, <2>3, <2>4, <2>5
<1>6. AtWorkAlone(p)'
  <2>1. /\ (Phase(Mine(p)) = "state")'
        /\ (step[Mine(p)].status = "running")'
        /\ IsPending(s)' => IsPending(Mine(p))'
    BY <1>0, <1>1, <1>2, <1>5
  <2> QED
    BY <1>5, <2>1 DEF AtWorkAlone, AtTask, AtCommit, AtStatus, AtState
<1>7. RetryAlone(p)'
  BY <1>5, RetryBetween DEF InGraph
<1> QED
  BY <1>0, <1>5, <1>6, <1>7, AloneMover

------------------------------------------------------------------------------
(* Retries of what is pending.                                               *)

\* The retry of a task's finalizer writes its step: no step behind it has begun.
LEMMA PendingTaskWrites ==
  ASSUME DriveInv, Alone, NEW t \in Task, TaskPending(t), NEW f \in {"commit", "status"},
         \A u \in Step : u # <<f, t>> => step'[u] = step[u],
         step'[<<f, t>>].status \notin {"pending", "ready"},
         UNCHANGED <<policy, pending, run>>,
         f = "commit" => pending.phase = "commit",
         f = "status" => CommitPassed(t),
         f = "status" /\ step'[<<f, t>>].status = "completed" => file[t] = "Done",
         \A u \in Task : file[u] = "Done" => file'[u] = "Done",
         completion' = "completed" => completion = "completed"
  PROVE  StepsInOrder' /\ PendingInOrder' /\ RunInOrder'
<1>1. PICK s \in Step : s = <<f, t>> /\ Phase(s) = f /\ TaskOf(s) = t
  BY StepsOf DEF Phase, TaskOf
<1>2. /\ \A v \in Task : Agent(v)' = Agent(v)
      /\ f = "commit" => \A v \in Task : Status(v)' = Status(v)
      /\ f = "status" => \A v \in Task : Commit(v)' = Commit(v)
      /\ \A v \in Task : v # t => Commit(v)' = Commit(v) /\ Status(v)' = Status(v)
      /\ f = "status" => Status(t)' = step'[s]
  BY <1>1, Written
<1>3. /\ \A v \in Task : v # t => (CommitPassed(v)' <=> CommitPassed(v))
      /\ f = "status" => (CommitPassed(t)' <=> CommitPassed(t))
  BY <1>2 DEF CommitPassed
<1>4. \A v \in Task : Settled(v) => Settled(v)'
  BY <1>2 DEF Settled, Agent
<1>5. \A v \in Task : TaskPending(v)' <=> TaskPending(v)
  BY DEF TaskPending
<1>6. StateStatus = "pending" /\ StateStatus' = StateStatus
  <2>1. StateStatus = "pending"
    BY DEF Alone, StepsInOrder, TaskPending
  <2>2. <<"state", 0>> # s
    BY <1>1, StepsOf
  <2> QED
    BY <1>1, <2>1, <2>2, StepsOf DEF StateStatus
<1>7. StepsInOrder'
  <2>1. ASSUME NEW v \in Task, NEW u \in Task, u < v, Agent(v)'.status # "pending"
        PROVE  Status(u)'.status = "completed" /\ CommitPassed(u)'
    <3>1. Status(u).status = "completed" /\ CommitPassed(u) /\ Agent(v).status # "pending"
      BY <1>2, <2>1 DEF Alone, StepsInOrder
    <3>2. u # t
      <4>1. u = t => v > t
        BY <2>1, TaskOrder
      <4> QED
        BY <3>1, <4>1 DEF Alone, PendingInOrder
    <3> QED
      BY <1>2, <1>3, <3>1, <3>2
  <2>2. \A v \in Task : Status(v)'.status # "pending" => CommitPassed(v)' \/ TaskPending(v)'
    BY <1>2, <1>3, <1>5 DEF Alone, StepsInOrder
  <2>3. \A u \in Step : step'[u].status = "ready" => IsPending(u)'
    BY <1>1 DEF Alone, StepsInOrder, IsPending
  <2>4. \A v \in Task : Status(v)'.status = "completed" => Settled(v)'
    <3>1. f = "status" /\ Status(t)'.status = "completed" => Settled(t)'
      BY <1>1, <1>2 DEF Settled
    <3> QED
      BY <1>2, <1>4, <3>1 DEF Alone, StepsInOrder
  <2> QED
    BY <1>6, <2>1, <2>2, <2>3, <2>4 DEF StepsInOrder
<1>8. PendingInOrder'
  <2>1. \A v \in Task : TaskPending(v)' => \A u \in Task : u > v => Agent(u)'.status = "pending"
    BY <1>2, <1>5 DEF Alone, PendingInOrder
  <2>2. pending'.phase = "status" => CommitPassed(pending.task)'
    BY <1>3 DEF Alone, PendingInOrder, TaskPending
  <2>3. pending'.phase = "state" => StateStatus' # "pending"
    BY DEF TaskPending
  <2> QED
    BY <2>1, <2>2, <2>3 DEF PendingInOrder
<1>9. RunInOrder'
  <2>1. run # "completed"
    BY DEF Alone, RunInOrder, TaskPending, NoPending
  <2> QED
    BY <1>4, <2>1 DEF Alone, RunInOrder
<1> QED
  BY <1>7, <1>8, <1>9

\* The retry of the state commit writes its step.
LEMMA PendingStateWrites ==
  ASSUME DriveInv, Alone, pending.phase = "state", NEW s \in Step, s = <<"state", 0>>,
         \A u \in Step : u # s => step'[u] = step[u],
         step'[s].status \notin {"pending", "ready"},
         UNCHANGED <<policy, pending, file, fileDirty, run>>,
         step'[s].status = "completed" => fileDirty = {},
         completion' = "completed" => completion = "completed"
  PROVE  StepsInOrder' /\ PendingInOrder' /\ RunInOrder'
<1>1. /\ Phase(s) = "state"
      /\ \A v \in Task : Agent(v)' = Agent(v) /\ Commit(v)' = Commit(v) /\ Status(v)' = Status(v)
  <2>1. Phase(s) = "state"
    BY DEF Phase
  <2> QED
    BY <2>1, Written
<1>2. /\ \A v \in Task : CommitPassed(v)' <=> CommitPassed(v)
      /\ \A v \in Task : Settled(v)' <=> Settled(v)
      /\ \A v \in Task : TaskPending(v)' <=> TaskPending(v)
      /\ AllPassed' <=> AllPassed
      /\ AllDone' <=> AllDone
  BY <1>1 DEF CommitPassed, Settled, Agent, TaskPending, AllPassed, AllDone
<1>3. StateStatus' = step'[s].status /\ StateStatus # "pending"
  BY DEF StateStatus, Alone, PendingInOrder
<1>4. StepsInOrder'
  <2>1. \A v, u \in Task : u < v /\ Agent(v)'.status # "pending" =>
          Status(u)'.status = "completed" /\ CommitPassed(u)'
    BY <1>1, <1>2 DEF Alone, StepsInOrder
  <2>2. \A v \in Task : Status(v)'.status # "pending" => CommitPassed(v)' \/ TaskPending(v)'
    BY <1>1, <1>2 DEF Alone, StepsInOrder
  <2>3. \A u \in Step : step'[u].status = "ready" => IsPending(u)'
    BY DEF Alone, StepsInOrder, IsPending
  <2>4. \A v \in Task : Status(v)'.status = "completed" => Settled(v)'
    BY <1>1, <1>2 DEF Alone, StepsInOrder
  <2>5. AllPassed'
    BY <1>2, <1>3 DEF Alone, StepsInOrder
  <2>6. StateStatus' = "completed" /\ AllDone' => fileDirty' = {}
    BY <1>3
  <2> QED
    BY <2>1, <2>2, <2>3, <2>4, <2>5, <2>6 DEF StepsInOrder
<1>5. PendingInOrder'
  <2>1. \A v \in Task : TaskPending(v)' => \A u \in Task : u > v => Agent(u)'.status = "pending"
    BY DEF TaskPending
  <2>2. pending'.phase = "state" => StateStatus' # "pending"
    BY <1>3
  <2> QED
    BY <2>1, <2>2 DEF PendingInOrder
<1>6. RunInOrder'
  <2>1. run # "completed"
    BY DEF Alone, RunInOrder, NoPending
  <2> QED
    BY <1>2, <2>1 DEF Alone, RunInOrder
<1> QED
  BY <1>4, <1>5, <1>6

\* The work that is pending is the only work there is.
LEMMA PendingWork ==
  ASSUME DriveInv, Alone, NEW t \in Task, TaskPending(t)
  PROVE  dirty \subseteq {t}
<1>1. ASSUME NEW u \in Task, u # t PROVE u \notin dirty
  <2>1. CASE u < t
    <3>1. Agent(t).status # "pending" /\ policy.source
      BY DEF DriveInv, PendingTrue, TaskPending, TaskInOrder
    <3>2. Commit(u).status = "completed"
      BY <2>1, <3>1 DEF Alone, StepsInOrder, CommitPassed
    <3> QED
      BY <3>1, <3>2 DEF DriveInv, TaskInOrder
  <2>2. CASE t < u
    <3>1. Agent(u).status = "pending"
      BY <2>2, TaskOrder DEF Alone, PendingInOrder
    <3> QED
      BY <3>1 DEF DriveInv, TaskInOrder
  <2> QED
    BY <1>1, <2>1, <2>2, TaskOrder
<1> QED
  BY <1>1 DEF DriveInv, TypeOK

\* What a retry of a task's finalizer has in hand is what is pending.
LEMMA RetryOfTask ==
  ASSUME DriveInv, Alone, NEW p \in Cli, pc[p] \in RetryingCommit \cup RetryingStatus
  PROVE  /\ my[p].pend = pending /\ pending.task \in Task /\ TaskPending(pending.task)
         /\ pc[p] \in RetryingCommit => pending.phase = "commit"
         /\ pc[p] \in RetryingStatus => CommitPassed(pending.task)
         /\ \A u \in Task : u > pending.task => u \in my[p].left
<1>1. pc[p] \in Retrying
  BY DEF Retrying
<1>2. my[p].pend = pending
  BY <1>1 DEF Alone, RetryAlone
<1>3. pending.task \in Task /\ pending.phase \in {"commit", "status"}
      /\ (pc[p] \in RetryingCommit => pending.phase = "commit")
  BY <1>2, RetryKnown
<1> QED
  BY <1>1, <1>2, <1>3 DEF TaskPending, Alone, RetryAlone

\* A step that passed is completed.
LEMMA StepPassed ==
  ASSUME TypeOK, NEW s \in Step, NEW n \in Nat, step' = Passed(s, n)
  PROVE  step'[s].status = "completed" /\ \A u \in Step : u # s => step'[u] = step[u]
<1>1. /\ step'[s] = [status |-> "completed", result |-> "success",
                     attempt |-> "success", sha |-> n]
      /\ \A u \in Step : u # s => step'[u] = step[u]
  BY PassesStep
<1> QED
  BY <1>1

\* The retry of a source commit.
LEMMA RetryCommitAlone ==
  ASSUME DriveInv, DriveInv', Alone, NEW p \in Cli,
         \/ RetryCommit(p) \/ LockCommits(p, "retry commit lock", "retry git")
         \/ CommitPending(p) \/ FindNothing(p) \/ CheckHead(p) \/ CommitFailsAgain(p)
         \/ AcceptCommit(p)
  PROVE  Alone'
<1> USE DEF records, workdir, worktree, locks, history, used
<1>0. /\ TypeOK /\ pc[p] \in RetryingCommit /\ pc[p] # "idle" /\ HEAD \in Nat
      /\ UNCHANGED <<policy, run, ended, file, pending>>
      /\ OwnWork
  BY TypesOf DEF DriveInv, Alone, RetryCommit, LockCommits, CommitPending, FindNothing, CheckHead,
     CommitFailsAgain, AcceptCommit, RetryingCommit
<1>1. PICK t \in Task : t = pending.task
  BY <1>0, RetryOfTask
<1>2. /\ my[p].pend = pending /\ pending.phase = "commit" /\ TaskPending(t)
      /\ \A u \in Task : u > t => u \in my[p].left
  BY <1>0, <1>1, RetryOfTask
<1>3. PICK s \in Step : s = <<"commit", t>>
  BY StepsOf
<1>16. PICK n \in Nat : n = my[p].sha
  BY <1>0, TypesOf DEF Local
<1>4. /\ HEAD + 1 \in Nat /\ "success" \in Result /\ "commit" \in {"commit", "status"}
      /\ "commit" # "status"
  BY <1>0, NextNumber DEF Result
<1>5. ASSUME step' = step, fileDirty' = fileDirty, completion' = completion
      PROVE  StepsInOrder' /\ PendingInOrder' /\ RunInOrder'
  BY <1>0, <1>5, QuietFiles
<1>6. ASSUME step' = Opened(s) \/ step' = FailedAgain(s) \/ step' = Passed(s, n),
             fileDirty' = fileDirty,
             completion' = "completed" => completion = "completed"
      PROVE  StepsInOrder' /\ PendingInOrder' /\ RunInOrder'
  <2>1. /\ \A u \in Step : u # s => step'[u] = step[u]
        /\ step'[s].status \notin {"pending", "ready"}
    <3>0. step[s] \in Record
      BY <1>0, TypesOf
    <3>1. CASE step' = Opened(s)
      BY <1>0, <3>0, <3>1, OpensStep DEF Record
    <3>2. CASE step' = FailedAgain(s)
      BY <1>0, <3>0, <3>2, FailsStep DEF Record
    <3>3. CASE step' = Passed(s, n)
      BY <1>0, <3>3, StepPassed
    <3> QED
      BY <1>6, <3>1, <3>2, <3>3
  <2>2. /\ \A u \in Step : u # <<"commit", t>> => step'[u] = step[u]
        /\ step'[<<"commit", t>>].status \notin {"pending", "ready"}
    BY <1>3, <2>1
  <2>3. \A u \in Task : file[u] = "Done" => file'[u] = "Done"
    BY <1>0
  <2> QED
    BY <1>0, <1>2, <1>4, <1>6, <2>2, <2>3, PendingTaskWrites
<1>7. ASSUME OwnWork', StepsInOrder' /\ PendingInOrder' /\ RunInOrder', OthersStay(p),
             my'[p].pend = my[p].pend, my'[p].left = my[p].left,
             \/ pc'[p] \in {"retry commit lock", "retry git", "check head", "accept"}
             \/ pc'[p] = "retry status" /\ Commit(t)'.status = "completed"
      PROVE  Alone'
  <2>1. /\ pc'[p] \in Retrying /\ pc'[p] \notin {"status passed", "state passed", "clear", "decide"}
        /\ pc'[p] \in RetryingStatus => Commit(t)'.status = "completed"
    BY <1>7 DEF Retrying, RetryingCommit, RetryingStatus
  <2>2. AtWorkAlone(p)'
    BY <2>1, AtWorkBetween
  <2>3. RetryAlone(p)'
    <3>1. (pending.task = t)' /\ (my[p].pend = pending)' /\ my'[p].left = my[p].left
      BY <1>0, <1>1, <1>2, <1>7
    <3>2. Commit(t)'.status = "completed" => CommitPassed(t)'
      BY DEF CommitPassed
    <3> QED
      BY <1>2, <2>1, <3>1, <3>2 DEF RetryAlone
  <2> QED
    BY <1>0, <1>7, <2>2, <2>3, AloneMover
<1>8. ASSUME RetryFails(p, <<"commit", my[p].pend.task>>), UNCHANGED <<fileDirty, commits>>
      PROVE  Alone'
  <2>1. step' = FailedAgain(s) /\ Leave(p) /\ completion' # "completed"
    BY <1>1, <1>2, <1>3, <1>8 DEF RetryFails
  <2>2. OwnWork' /\ StepsInOrder' /\ PendingInOrder' /\ RunInOrder'
    BY <1>0, <1>6, <1>8, <2>1, NoCommit
  <2> QED
    BY <1>0, <2>1, <2>2, AloneLeaves
<1>9. CASE RetryCommit(p)
  <2>1. /\ Goto(p, "retry commit lock") /\ "retry commit lock" \in Place /\ my' = my
        /\ step' = Opened(s) /\ UNCHANGED <<fileDirty, commits, completion>>
    BY <1>1, <1>2, <1>3, <1>9 DEF RetryCommit, Place
  <2>2. pc'[p] = "retry commit lock" /\ my'[p] = my[p] /\ OthersStay(p)
    BY <1>0, <2>1, HasMoved
  <2>3. OwnWork' /\ StepsInOrder' /\ PendingInOrder' /\ RunInOrder'
    BY <1>0, <1>6, <2>1, NoCommit
  <2> QED
    BY <1>7, <2>2, <2>3
<1>10. CASE LockCommits(p, "retry commit lock", "retry git") \/ FindNothing(p)
  <2>1. PICK l \in {"retry git", "check head"} : Goto(p, l) /\ l \in Place /\ my' = my
    BY <1>10 DEF LockCommits, FindNothing, Place
  <2>2. UNCHANGED <<step, fileDirty, commits, completion>>
    BY <1>10 DEF LockCommits, FindNothing
  <2>3. pc'[p] = l /\ my'[p] = my[p] /\ OthersStay(p)
    BY <1>0, <2>1, HasMoved
  <2>4. OwnWork' /\ StepsInOrder' /\ PendingInOrder' /\ RunInOrder'
    BY <1>0, <1>5, <2>2, NoCommit
  <2> QED
    BY <1>7, <2>3, <2>4
<1>11. CASE CommitPending(p)
  <2>1. /\ Goto(p, "accept") /\ "accept" \in Place /\ my' = [my EXCEPT ![p].sha = HEAD + 1]
        /\ UNCHANGED <<step, completion>> /\ AddCommit(t, dirty, {})
    BY <1>1, <1>2, <1>11 DEF CommitPending, Place
  <2>2. pc'[p] = "accept" /\ my'[p].pend = my[p].pend /\ my'[p].left = my[p].left /\ OthersStay(p)
    BY <1>0, <1>4, <2>1, Noted
  <2>3. OwnWork'
    <3>1. dirty \in SUBSET Task /\ dirty \subseteq {t} /\ t \in 0..(N + 1)
      BY <1>0, <1>2, PendingWork, TaskOrder DEF TypeOK
    <3> QED
      BY <1>0, <2>1, <3>1, OwnWorkKept
  <2>4. StepsInOrder' /\ PendingInOrder' /\ RunInOrder'
    BY <1>5, <2>1 DEF AddCommit
  <2> QED
    BY <1>7, <2>2, <2>3, <2>4
<1>12. CASE CheckHead(p)
  <2>1. UNCHANGED <<fileDirty, commits>>
    BY <1>12 DEF CheckHead
  <2>2. CASE HEAD # my[p].pend.head
    <3>1. /\ Goto(p, "accept") /\ "accept" \in Place /\ my' = [my EXCEPT ![p].sha = HEAD]
          /\ UNCHANGED <<step, completion>>
      BY <1>12, <2>2 DEF CheckHead, Place
    <3>2. pc'[p] = "accept" /\ my'[p].pend = my[p].pend /\ my'[p].left = my[p].left
          /\ OthersStay(p)
      BY <1>0, <1>4, <3>1, Noted
    <3>3. OwnWork' /\ StepsInOrder' /\ PendingInOrder' /\ RunInOrder'
      BY <1>0, <1>5, <2>1, <3>1, NoCommit
    <3> QED
      BY <1>7, <3>2, <3>3
  <2>3. CASE ~(HEAD # my[p].pend.head)
    BY <1>8, <1>12, <2>1, <2>3 DEF CheckHead
  <2> QED
    BY <2>2, <2>3
<1>13. CASE CommitFailsAgain(p)
  BY <1>8, <1>13 DEF CommitFailsAgain
<1>14. CASE AcceptCommit(p)
  <2>1. /\ Goto(p, "retry status") /\ "retry status" \in Place /\ my' = my
        /\ step' = Passed(s, n) /\ UNCHANGED <<fileDirty, commits, completion>>
    BY <1>1, <1>2, <1>3, <1>14, <1>16 DEF AcceptCommit, Place
  <2>2. pc'[p] = "retry status" /\ my'[p] = my[p] /\ OthersStay(p)
    BY <1>0, <2>1, HasMoved
  <2>3. OwnWork' /\ StepsInOrder' /\ PendingInOrder' /\ RunInOrder'
    BY <1>0, <1>6, <2>1, NoCommit
  <2>4. Commit(t)'.status = "completed"
    <3>1. step'[s].status = "completed"
      BY <1>0, <2>1, StepPassed
    <3> QED
      BY <1>3, <3>1 DEF Commit
  <2> QED
    BY <1>7, <2>2, <2>3, <2>4
<1> QED
  BY <1>9, <1>10, <1>11, <1>12, <1>13, <1>14

\* The retry of a status.
LEMMA RetryStatusAlone ==
  ASSUME DriveInv, DriveInv', Alone, NEW p \in Cli,
         RetryStatus(p) \/ StatusFailsAgain(p) \/ StatusPassed(p)
  PROVE  Alone'
<1> USE DEF records, workdir, worktree, locks, history, used
<1>0. /\ TypeOK /\ pc[p] \in RetryingStatus /\ pc[p] # "idle"
      /\ UNCHANGED <<policy, run, pending, commits>>
      /\ OwnWork'
  BY NoCommit DEF DriveInv, Alone, RetryStatus, StatusFailsAgain, StatusPassed, RetryingStatus
<1>1. PICK t \in Task : t = pending.task
  BY <1>0, RetryOfTask
<1>2. /\ my[p].pend = pending /\ TaskPending(t) /\ CommitPassed(t)
      /\ \A u \in Task : u > t => u \in my[p].left
  BY <1>0, <1>1, RetryOfTask
<1>3. PICK s \in Step : s = <<"status", t>>
  BY StepsOf
<1>4. PICK n \in Nat : n = my[p].sha
  BY <1>0, TypesOf DEF Local
<1>5. "status" \in {"commit", "status"} /\ "status" # "commit"
  OBVIOUS
<1>6. ASSUME \/ step' = Opened(s) \/ step' = FailedAgain(s)
             \/ step' = Passed(s, n) /\ file[t] = "Done",
             \A u \in Task : file[u] = "Done" => file'[u] = "Done",
             completion' = "completed" => completion = "completed"
      PROVE  /\ StepsInOrder' /\ PendingInOrder' /\ RunInOrder'
             /\ CommitPassed(t)'
  <2>1. /\ \A u \in Step : u # s => step'[u] = step[u]
        /\ step'[s].status \notin {"pending", "ready"}
        /\ step'[s].status = "completed" => file[t] = "Done"
    <3>0. step[s] \in Record
      BY <1>0, TypesOf
    <3>1. CASE step' = Opened(s)
      BY <1>0, <3>0, <3>1, OpensStep DEF Record
    <3>2. CASE step' = FailedAgain(s)
      BY <1>0, <3>0, <3>2, FailsStep DEF Record
    <3>3. CASE step' = Passed(s, n) /\ file[t] = "Done"
      BY <1>0, <3>3, StepPassed
    <3> QED
      BY <1>6, <3>1, <3>2, <3>3
  <2>2. /\ \A u \in Step : u # <<"status", t>> => step'[u] = step[u]
        /\ step'[<<"status", t>>].status \notin {"pending", "ready"}
        /\ step'[<<"status", t>>].status = "completed" => file[t] = "Done"
    BY <1>3, <2>1
  <2>3. StepsInOrder' /\ PendingInOrder' /\ RunInOrder'
    BY <1>0, <1>2, <1>5, <1>6, <2>2, PendingTaskWrites
  <2>4. Phase(s) = "status"
    BY <1>3 DEF Phase
  <2>5. Commit(t)' = Commit(t)
    BY <2>1, <2>4, Written
  <2> QED
    BY <1>0, <1>2, <2>3, <2>5 DEF CommitPassed
<1>7. CASE RetryStatus(p)
  <2>1. /\ Goto(p, "status passed") /\ "status passed" \in Place /\ my' = my
        /\ step' = Opened(s) /\ SetFile(t, "Done") /\ completion' = completion
    BY <1>1, <1>2, <1>3, <1>7 DEF RetryStatus, Place
  <2>2. pc'[p] = "status passed" /\ my'[p] = my[p] /\ OthersStay(p)
    BY <1>0, <2>1, HasMoved
  <2>3. file'[t] = "Done" /\ \A u \in Task : u # t => file'[u] = file[u]
    BY <1>0, <2>1, FileTyped
  <2>4. StepsInOrder' /\ PendingInOrder' /\ RunInOrder' /\ CommitPassed(t)'
    BY <1>6, <2>1, <2>3
  <2>5. AtWorkAlone(p)'
    BY <2>2, AtWorkBetween DEF Retrying, RetryingStatus
  <2>6. RetryAlone(p)'
    <3>1. (pending.task = t)' /\ (my[p].pend = pending)' /\ my'[p].left = my[p].left
      BY <1>0, <1>1, <1>2, <2>2
    <3> QED
      BY <1>2, <2>2, <2>3, <2>4, <3>1 DEF RetryAlone
  <2> QED
    BY <1>0, <2>2, <2>4, <2>5, <2>6, AloneMover
<1>8. CASE StatusFailsAgain(p)
  <2>1. step' = FailedAgain(s) /\ Leave(p) /\ completion' # "completed" /\ file' = file
    BY <1>1, <1>2, <1>3, <1>8 DEF StatusFailsAgain, RetryFails
  <2>2. StepsInOrder' /\ PendingInOrder' /\ RunInOrder'
    BY <1>6, <2>1
  <2> QED
    BY <1>0, <2>1, <2>2, AloneLeaves
<1>9. CASE StatusPassed(p)
  <2>1. /\ Goto(p, "clear") /\ "clear" \in Place /\ my' = my
        /\ step' = Passed(s, n) /\ UNCHANGED <<file, completion>>
    BY <1>1, <1>2, <1>3, <1>4, <1>9 DEF StatusPassed, Place
  <2>2. pc'[p] = "clear" /\ my'[p] = my[p] /\ OthersStay(p)
    BY <1>0, <2>1, HasMoved
  <2>3. file[t] = "Done"
    BY <1>1, <1>2, <1>9 DEF StatusPassed, Alone, RetryAlone
  <2>4. StepsInOrder' /\ PendingInOrder' /\ RunInOrder' /\ CommitPassed(t)'
    BY <1>6, <2>1, <2>3
  <2>5. AtWorkAlone(p)'
    BY <2>2, AtWorkBetween DEF Retrying
  <2>6. Status(t)'.status = "completed"
    <3>1. step'[s].status = "completed"
      BY <1>0, <2>1, StepPassed
    <3> QED
      BY <1>3, <3>1 DEF Status
  <2>7. RetryAlone(p)'
    <3>1. /\ (pending.task = t)' /\ (my[p].pend = pending)' /\ my'[p].left = my[p].left
          /\ pending'.phase # "state"
      BY <1>0, <1>1, <1>2, <2>2 DEF TaskPending
    <3>2. pc'[p] \notin RetryingStatus \cup {"status passed", "state passed", "decide"}
      BY <2>2 DEF RetryingStatus
    <3> QED
      BY <1>2, <2>2, <2>4, <2>6, <3>1, <3>2 DEF RetryAlone
  <2> QED
    BY <1>0, <2>2, <2>4, <2>5, <2>7, AloneMover
<1> QED
  BY <1>7, <1>8, <1>9

\* The retry of the commit of the task files.
LEMMA RetryStateAlone ==
  ASSUME DriveInv, DriveInv', Alone, NEW p \in Cli,
         \/ RetryState(p) \/ LockCommits(p, "retry state lock", "retry state git")
         \/ CommitFiles(p, "retry state git", "state passed", "check files")
         \/ StateFailsAgain(p) \/ StatePassed(p) \/ AcceptFiles(p)
  PROVE  Alone'
<1> USE DEF records, workdir, worktree, locks, history, used
<1>0. /\ TypeOK /\ pc[p] \in RetryingState /\ pc[p] # "idle" /\ HEAD \in Nat
      /\ UNCHANGED <<policy, run, pending, file>>
      /\ OwnWork
  BY TypesOf DEF DriveInv, Alone, RetryState, LockCommits, CommitFiles, StateFailsAgain, StatePassed,
     AcceptFiles, RetryingState
<1>1. my[p].pend = pending /\ pending.phase = "state"
  BY <1>0, RetryKnown DEF Alone, RetryAlone, Retrying
<1>2. PICK s \in Step : s = <<"state", 0>>
  BY StepsOf
<1>3. PICK n \in Nat : n = my[p].sha
  BY <1>0, TypesOf DEF Local
<1>4. ASSUME step' = step, fileDirty' \subseteq fileDirty, completion' = completion
      PROVE  StepsInOrder' /\ PendingInOrder' /\ RunInOrder'
  BY <1>0, <1>4, QuietFiles
<1>5. ASSUME NEW m \in Nat,
             \/ step' = Opened(s) \/ step' = FailedAgain(s)
             \/ step' = Passed(s, m) /\ fileDirty = {},
             fileDirty' = fileDirty,
             completion' = "completed" => completion = "completed"
      PROVE  StepsInOrder' /\ PendingInOrder' /\ RunInOrder'
  <2>1. /\ \A u \in Step : u # s => step'[u] = step[u]
        /\ step'[s].status \notin {"pending", "ready"}
        /\ step'[s].status = "completed" => fileDirty = {}
    <3>0. step[s] \in Record
      BY <1>0, TypesOf
    <3>1. CASE step' = Opened(s)
      BY <1>0, <3>0, <3>1, OpensStep DEF Record
    <3>2. CASE step' = FailedAgain(s)
      BY <1>0, <3>0, <3>2, FailsStep DEF Record
    <3>3. CASE step' = Passed(s, m) /\ fileDirty = {}
      BY <1>0, <3>3, StepPassed
    <3> QED
      BY <1>5, <3>1, <3>2, <3>3
  <2> QED
    BY <1>0, <1>1, <1>2, <1>5, <2>1, PendingStateWrites
<1>6. ASSUME OwnWork', StepsInOrder' /\ PendingInOrder' /\ RunInOrder', OthersStay(p),
             my'[p].pend = my[p].pend,
             \/ pc'[p] \in {"retry state lock", "retry state git", "check files"}
             \/ pc'[p] = "state passed" /\ fileDirty' = {}
             \/ pc'[p] = "clear" /\ StateStatus' = "completed"
      PROVE  Alone'
  <2>1. pc'[p] \in Retrying /\ pc'[p] \notin RetryingStatus \cup {"status passed", "decide"}
    BY <1>6 DEF Retrying, RetryingStatus, RetryingState
  <2>2. AtWorkAlone(p)'
    BY <2>1, AtWorkBetween
  <2>3. RetryAlone(p)'
    <3>1. (pending.phase = "state")' /\ (my[p].pend = pending)'
      BY <1>0, <1>1, <1>6
    <3> QED
      BY <1>6, <2>1, <3>1 DEF RetryAlone
  <2> QED
    BY <1>0, <1>6, <2>2, <2>3, AloneMover
<1>7. ASSUME RetryFails(p, <<"state", 0>>), UNCHANGED <<fileDirty, commits>>
      PROVE  Alone'
  <2>1. step' = FailedAgain(s) /\ Leave(p) /\ completion' # "completed"
    BY <1>2, <1>7 DEF RetryFails
  <2>2. OwnWork' /\ StepsInOrder' /\ PendingInOrder' /\ RunInOrder'
    BY <1>0, <1>3, <1>5, <1>7, <2>1, NoCommit
  <2> QED
    BY <1>0, <2>1, <2>2, AloneLeaves
<1>8. ASSUME NEW m \in Nat, step' = Passed(s, m), fileDirty = {}, Goto(p, "clear"), my' = my,
             UNCHANGED <<fileDirty, commits, completion>>
      PROVE  Alone'
  <2>1. pc'[p] = "clear" /\ my'[p].pend = my[p].pend /\ OthersStay(p)
    BY <1>0, <1>8, HasMoved DEF Place
  <2>2. OwnWork' /\ StepsInOrder' /\ PendingInOrder' /\ RunInOrder'
    BY <1>0, <1>5, <1>8, NoCommit
  <2>3. step'[s].status = "completed"
    BY <1>0, <1>8, StepPassed
  <2>4. StateStatus' = "completed"
    BY <1>2, <2>3 DEF StateStatus
  <2> QED
    BY <1>6, <2>1, <2>2, <2>4
<1>9. CASE RetryState(p)
  <2>1. /\ Goto(p, "retry state lock") /\ "retry state lock" \in Place /\ my' = my
        /\ step' = Opened(s) /\ UNCHANGED <<fileDirty, commits, completion>>
    BY <1>2, <1>9 DEF RetryState, Place
  <2>2. pc'[p] = "retry state lock" /\ my'[p] = my[p] /\ OthersStay(p)
    BY <1>0, <2>1, HasMoved
  <2>3. OwnWork' /\ StepsInOrder' /\ PendingInOrder' /\ RunInOrder'
    BY <1>0, <1>3, <1>5, <2>1, NoCommit
  <2> QED
    BY <1>6, <2>2, <2>3
<1>10. CASE LockCommits(p, "retry state lock", "retry state git")
  <2>1. /\ Goto(p, "retry state git") /\ "retry state git" \in Place /\ my' = my
        /\ UNCHANGED <<step, fileDirty, commits, completion>>
    BY <1>10 DEF LockCommits, Place
  <2>2. pc'[p] = "retry state git" /\ my'[p] = my[p] /\ OthersStay(p)
    BY <1>0, <2>1, HasMoved
  <2>3. OwnWork' /\ StepsInOrder' /\ PendingInOrder' /\ RunInOrder'
    BY <1>0, <1>4, <2>1, NoCommit
  <2> QED
    BY <1>6, <2>2, <2>3
<1>11. CASE CommitFiles(p, "retry state git", "state passed", "check files")
  <2>1. "state passed" \in Place /\ "check files" \in Place
    BY DEF Place
  <2>2. /\ OwnWork' /\ fileDirty' = {} /\ OthersStay(p) /\ my'[p].pend = my[p].pend
        /\ UNCHANGED <<step, completion>>
        /\ "state passed" \in Place /\ "check files" \in Place =>
             pc'[p] \in {"state passed", "check files"}
    BY <1>0, <1>11, CommitsFiles
  <2>3. StepsInOrder' /\ PendingInOrder' /\ RunInOrder'
    BY <1>4, <2>2
  <2> QED
    BY <1>6, <2>1, <2>2, <2>3
<1>12. CASE StateFailsAgain(p)
  BY <1>7, <1>12 DEF StateFailsAgain
<1>13. CASE StatePassed(p)
  <2>1. fileDirty = {}
    BY <1>13 DEF StatePassed, Alone, RetryAlone
  <2>2. step' = Passed(s, n)
    BY <1>2, <1>3, <1>13 DEF StatePassed
  <2> QED
    BY <1>8, <1>13, <2>1, <2>2 DEF StatePassed
<1>14. CASE AcceptFiles(p)
  <2>1. UNCHANGED <<fileDirty, commits>>
    BY <1>14 DEF AcceptFiles
  <2>2. PICK m \in Nat : m = HEAD
    BY <1>0
  <2>3. \/ RetryFails(p, <<"state", 0>>)
        \/ /\ step' = Passed(s, m) /\ fileDirty = {} /\ Goto(p, "clear") /\ my' = my
           /\ completion' = completion
    BY <1>2, <1>14, <2>2 DEF AcceptFiles
  <2> QED
    BY <1>7, <1>8, <2>1, <2>3
<1> QED
  BY <1>9, <1>10, <1>11, <1>12, <1>13, <1>14

\* What was pending is over: no step waits for a retry any more.
LEMMA ClearAlone ==
  ASSUME DriveInv, DriveInv', Alone, NEW p \in Cli, ClearPending(p)
  PROVE  Alone'
<1> USE DEF records, workdir, worktree, locks, history, used
<1>0. /\ TypeOK /\ pc[p] = "clear" /\ pc[p] # "idle"
      /\ UNCHANGED <<policy, step, file, fileDirty, commits, run, completion>>
      /\ pending' = NoPending /\ OwnWork' /\ PendingTrue(pending) /\ RetryAlone(p)
  BY NoCommit DEF DriveInv, Alone, ClearPending
<1>1. my[p].pend = pending /\ pending.phase # "none"
  <2>1. my[p].pend = pending
    BY <1>0 DEF RetryAlone, Retrying
  <2>2. my[p].pend.phase # "none"
    BY <1>0 DEF DriveInv, RetryInHand
  <2> QED
    BY <2>1, <2>2
<1>2. PICK t : t = pending.task
  OBVIOUS
<1>3. /\ pending.phase \in {"commit", "status"} =>
           /\ t \in Task /\ policy.source /\ TaskPending(t)
           /\ Status(t).status = "completed" /\ CommitPassed(t)
           /\ \A u \in Task : u > t => u \in my[p].left
      /\ pending.phase = "state" => StateStatus = "completed"
  BY <1>0, <1>1, <1>2 DEF RetryAlone, Retrying, PendingTrue, TaskPending
<1>4. pending.phase \in {"commit", "status", "state"}
  <2>1. pending \in PendingRec
    BY <1>0 DEF TypeOK
  <2> QED
    BY <1>1, <2>1 DEF PendingRec
<1>5. /\ \A v \in Task : Agent(v)' = Agent(v) /\ Commit(v)' = Commit(v) /\ Status(v)' = Status(v)
      /\ StateStatus' = StateStatus
  BY <1>0, StepsStay DEF StateStatus
<1>6. /\ \A v \in Task : (CommitPassed(v)' <=> CommitPassed(v)) /\ (Settled(v)' <=> Settled(v))
      /\ (AllPassed' <=> AllPassed) /\ (AllDone' <=> AllDone)
  BY <1>0, <1>5 DEF CommitPassed, Settled, AllPassed, AllDone
<1>7. \A s \in Step : step[s].status # "ready"
  <2>1. ASSUME NEW s \in Step, step[s].status = "ready" PROVE FALSE
    <3>1. pending.phase = Phase(s) /\ t = TaskOf(s) /\ s = <<Phase(s), t>>
      BY <1>2, <2>1, StepsOf DEF Alone, StepsInOrder, IsPending
    <3>2. CASE pending.phase = "commit"
      BY <1>3, <2>1, <3>1, <3>2 DEF CommitPassed, Commit
    <3>3. CASE pending.phase = "status"
      BY <1>3, <2>1, <3>1, <3>3 DEF Status
    <3>4. CASE pending.phase = "state"
      BY <1>3, <2>1, <3>1, <3>4, StepsOf DEF StateStatus
    <3> QED
      BY <1>4, <3>2, <3>3, <3>4
  <2> QED
    BY <2>1
<1>8. StepsInOrder'
  <2>1. \A v, u \in Task : u < v /\ Agent(v)'.status # "pending" =>
          Status(u)'.status = "completed" /\ CommitPassed(u)'
    BY <1>5, <1>6 DEF Alone, StepsInOrder
  <2>2. \A v \in Task : Status(v)'.status # "pending" => CommitPassed(v)' \/ TaskPending(v)'
    <3>1. \A v \in Task : TaskPending(v) => CommitPassed(v)
      BY <1>2, <1>3 DEF TaskPending
    <3> QED
      BY <1>5, <1>6, <3>1 DEF Alone, StepsInOrder
  <2>3. \A s \in Step : step'[s].status # "ready"
    BY <1>0, <1>7
  <2>4. \A v \in Task : Status(v)'.status = "completed" => Settled(v)'
    BY <1>5, <1>6 DEF Alone, StepsInOrder
  <2>5. StateStatus' # "pending" => AllPassed' /\ pending'.phase \in {"none", "state"}
    BY <1>0, <1>5, <1>6 DEF Alone, StepsInOrder, NoPending
  <2>6. StateStatus' = "completed" /\ AllDone' => fileDirty' = {}
    BY <1>0, <1>5, <1>6 DEF Alone, StepsInOrder
  <2> QED
    BY <2>1, <2>2, <2>3, <2>4, <2>5, <2>6 DEF StepsInOrder
<1>9. PendingInOrder'
  BY <1>0 DEF PendingInOrder, TaskPending, NoPending
<1>10. RunInOrder'
  <2>1. run # "completed"
    BY <1>1 DEF Alone, RunInOrder, NoPending
  <2> QED
    BY <1>0, <1>6, <2>1 DEF Alone, RunInOrder
<1>11. /\ pc'[p] = "decide" /\ my'[p].pend = my[p].pend /\ OthersStay(p)
       /\ my'[p].left = IF pending.phase = "state" THEN my[p].left
                        ELSE {u \in my[p].left : u > t}
  <2>1. pc'[p] = "decide" /\ \A q \in Cli : q # p => pc'[q] = pc[q]
    BY <1>0, WritePc DEF ClearPending, Place
  <2>2. my \in [Cli -> Local] /\ my[p] \in Local
    BY <1>0, TypesOf
  <2>3. my' = [my EXCEPT ![p].left = IF pending.phase = "state" THEN @
                                     ELSE {u \in @ : u > t}]
    BY <1>1, <1>2 DEF ClearPending
  <2>4. /\ my'[p].pend = my[p].pend /\ \A q \in Cli : q # p => my'[q] = my[q]
        /\ my'[p].left = IF pending.phase = "state" THEN my[p].left
                         ELSE {u \in my[p].left : u > t}
    BY <2>2, <2>3 DEF Local
  <2> QED
    BY <2>1, <2>4 DEF OthersStay
<1>12. AtWorkAlone(p)'
  BY <1>0, <1>11, AtWorkBetween
<1>13. RetryAlone(p)'
  <2>1. \A u \in Task : Status(u).status = "completed" \/ u \in my'[p].left
    <3>1. CASE pending.phase = "state"
      BY <1>3, <3>1 DEF Alone, StepsInOrder, AllPassed
    <3>2. CASE pending.phase \in {"commit", "status"}
      <4>1. ASSUME NEW u \in Task PROVE Status(u).status = "completed" \/ u \in my'[p].left
        <5>1. CASE u > t
          BY <1>3, <1>11, <3>2, <5>1
        <5>2. CASE u = t
          BY <1>3, <3>2, <5>2
        <5>3. CASE u < t
          <6>1. Agent(t).status # "pending"
            BY <1>3, <3>2 DEF DriveInv, TaskInOrder
          <6> QED
            BY <1>3, <3>2, <5>3, <6>1 DEF Alone, StepsInOrder
        <5> QED
          BY <1>3, <3>2, <5>1, <5>2, <5>3, TaskOrder
      <4> QED
        BY <4>1
    <3> QED
      BY <1>4, <3>1, <3>2
  <2>2. pc'[p] \notin Retrying \cup RetryingStatus \cup {"status passed", "state passed", "clear"}
    BY <1>11 DEF Retrying, RetryingCommit, RetryingStatus, RetryingState
  <2>3. \A u \in Task : Status(u)'.status = "completed" \/ u \in my'[p].left
    BY <1>5, <2>1
  <2> QED
    BY <2>2, <2>3 DEF RetryAlone
<1> QED
  BY <1>0, <1>8, <1>9, <1>10, <1>11, <1>12, <1>13, AloneMover

\* The run itself is taken up, repeated, refused or over.
LEMMA ContinueAlone ==
  ASSUME DriveInv, DriveInv', Alone, NEW p \in Cli, Continue(p)
  PROVE  Alone'
<1> USE DEF records, workdir, worktree, locks, history, used
<1>0. /\ TypeOK /\ pc[p] \in {"decide", "dirty"} /\ pc[p] # "idle"
      /\ UNCHANGED <<policy, step, pending, file, fileDirty, commits, run>>
      /\ OwnWork' /\ AtWorkAlone(p)
  BY NoCommit DEF DriveInv, Alone, Continue, ResumeCompletes, ResumeRepeats, ResumeContinues,
     RefuseDirty, Prepare
<1>1. pending = NoPending
  BY <1>0 DEF AtWorkAlone
<1>2. CASE ResumeCompletes(p)
  <2>1. \A u \in Task : Settled(u)
    <3>1. my[p].left = {} /\ pc[p] = "decide" /\ my[p].pend # NoPending
      BY <1>2 DEF ResumeCompletes
    <3>2. \A u \in Task : Status(u).status = "completed" \/ u \in my[p].left
      BY <3>1 DEF Alone, RetryAlone
    <3> QED
      BY <3>1, <3>2 DEF Alone, StepsInOrder
  <2>2. /\ \A u \in Task : Settled(u)' <=> Settled(u)
        /\ StateStatus = "completed" /\ AllDone' => fileDirty' = {}
        /\ Graph' = Graph
    BY <1>0 DEF Settled, AllDone, Graph, Alone, StepsInOrder
  <2>3. StepsInOrder' /\ PendingInOrder'
    BY <1>0, <2>2, RecordsInOrder
  <2>4. RunInOrder'
    BY <1>0, <2>1, <2>2 DEF Alone, RunInOrder
  <2>5. Leave(p)
    BY <1>2 DEF ResumeCompletes
  <2> QED
    BY <1>0, <2>3, <2>4, <2>5, AloneLeaves
<1>3. CASE ResumeRepeats(p) \/ RefuseDirty(p)
  <2>1. Leave(p) /\ completion' = completion
    BY <1>3 DEF ResumeRepeats, RefuseDirty
  <2>2. StepsInOrder' /\ PendingInOrder' /\ RunInOrder'
    BY <1>0, <2>1, QuietFiles
  <2> QED
    BY <1>0, <2>1, <2>2, AloneLeaves
<1>4. CASE ResumeContinues(p) \/ Prepare(p)
  <2>1. PICK l \in {"dirty", "lock"} : Goto(p, l) /\ l \in Place /\ my' = my /\ completion' = "none"
    BY <1>4 DEF ResumeContinues, Prepare, Place
  <2>2. pc'[p] = l /\ OthersStay(p)
    BY <1>0, <2>1, HasMoved
  <2>3. StepsInOrder' /\ PendingInOrder' /\ RunInOrder'
    BY <1>0, <2>1, QuietFiles
  <2>4. AtWorkAlone(p)' /\ RetryAlone(p)'
    BY <1>0, <1>1, <2>2, AtWorkBetween, RetryBetween
  <2> QED
    BY <1>0, <2>2, <2>3, <2>4, AloneMover
<1> QED
  BY <1>2, <1>3, <1>4 DEF Continue

\* A run is resumed while nobody is at work on it.
LEMMA ResumeAlone ==
  ASSUME DriveInv, DriveInv', Alone, NEW p \in Cli, Resume(p), alone'
  PROVE  Alone'
<1> USE DEF records, workdir, worktree, locks, history, used
<1>0. /\ TypeOK /\ \A q \in Cli : pc[q] = "idle"
      /\ UNCHANGED <<policy, step, pending, file, fileDirty, commits, run, completion>>
      /\ OwnWork' /\ PendingTrue(pending) /\ pending \in PendingRec
  BY NoCommit DEF DriveInv, Alone, Resume, TypeOK
<1>1. StepsInOrder' /\ PendingInOrder' /\ RunInOrder'
  BY <1>0, QuietFiles
<1>2. /\ my'[p].pend = pending /\ my'[p].left = {t \in Task : \A u \in ended : u < t}
  <2>1. my \in [Cli -> Local] /\ my[p] \in Local
    BY <1>0, TypesOf
  <2> QED
    BY <2>1 DEF Resume, Local
<1>3. PICK l \in {"decide", "retry commit", "retry status", "retry state"} :
        /\ Goto(p, l)
        /\ l = "decide" => pending.phase = "none"
        /\ l = "retry commit" => pending.phase = "commit"
        /\ l = "retry status" => pending.phase = "status"
        /\ l = "retry state" => pending.phase = "state"
  <2>1. pending.phase \in {"none", "commit", "status", "state"}
    BY <1>0 DEF PendingRec
  <2> QED
    BY <2>1 DEF Resume
<1>4. pc'[p] = l /\ \A q \in Cli : q # p => pc'[q] = "idle"
  BY <1>0, <1>3, WritePc DEF Place
<1>5. l = "decide" => pending = NoPending
  BY <1>0, <1>3 DEF PendingTrue
<1>6. AtWorkAlone(p)'
  BY <1>0, <1>4, <1>5, AtWorkBetween DEF Retrying, RetryingCommit, RetryingStatus, RetryingState
<1>7. RetryAlone(p)'
  <2>1. ASSUME pending.phase \in {"commit", "status"}, NEW u \in Task, u > pending.task
        PROVE  u \in my'[p].left
    <3>1. PICK t \in Task : t = pending.task
      BY <1>0, <2>1 DEF PendingTrue
    <3>2. ASSUME NEW w \in ended PROVE w < u
      <4>1. w \in Task /\ Agent(w).status # "pending"
        BY <1>0 DEF DriveInv, TaskInOrder, TypeOK
      <4>2. ~(w > t)
        BY <2>1, <3>1, <4>1 DEF Alone, PendingInOrder, TaskPending
      <4>3. w < t \/ w = t
        BY <4>1, <4>2, TaskOrder
      <4>4. t < u
        BY <2>1, <3>1, TaskOrder
      <4> QED
        BY <4>1, <4>3, <4>4, TaskOrder
    <3> QED
      BY <1>2, <3>2
  <2>2. pending.phase = "status" => CommitPassed(pending.task)'
    BY <1>0, <1>1 DEF PendingInOrder
  <2>3. (my[p].pend = pending)' /\ pending' = pending
    BY <1>0, <1>2
  <2>4. /\ pc'[p] \notin {"status passed", "state passed", "clear"}
        /\ pc'[p] \in RetryingStatus => pending.phase = "status"
    BY <1>3, <1>4 DEF RetryingStatus
  <2> QED
    BY <1>4, <1>5, <2>1, <2>2, <2>3, <2>4 DEF RetryAlone
<1>8. \A q \in Cli : AtWorkAlone(q)' /\ RetryAlone(q)'
  BY <1>4, <1>6, <1>7, IdleAlone
<1>9. OneAtWork'
  BY <1>4 DEF OneAtWork
<1> QED
  BY <1>0, <1>1, <1>8, <1>9 DEF Alone

\* A process dies.
LEMMA CrashAlone ==
  ASSUME DriveInv, DriveInv', Alone, NEW p \in Cli, Crash(p)
  PROVE  Alone'
<1> USE DEF records, workdir, worktree, locks, history, used
<1>1. /\ pc[p] # "idle" /\ Leave(p)
      /\ UNCHANGED <<policy, step, pending, file, fileDirty, commits, run, completion>>
  BY DEF Crash
<1>2. OwnWork' /\ StepsInOrder' /\ PendingInOrder' /\ RunInOrder'
  BY <1>1, NoCommit, QuietFiles DEF Alone
<1> QED
  BY <1>1, <1>2, AloneLeaves

\* Nothing of the run is written: at most, files are committed.
LEMMA AloneRests ==
  ASSUME Alone, OwnWork', fileDirty' \subseteq fileDirty,
         UNCHANGED <<policy, step, pending, file, run, completion, pc, my>>
  PROVE  Alone'
<1>1. StepsInOrder' /\ PendingInOrder' /\ RunInOrder'
  BY QuietFiles
<1>2. OneAtWork'
  BY DEF Alone, OneAtWork
<1>3. ASSUME NEW p \in Cli PROVE AtWorkAlone(p)' /\ RetryAlone(p)'
  <2>1. AtWorkAlone(p) /\ RetryAlone(p)
    BY DEF Alone
  <2>2. fileDirty = {} => fileDirty' = {}
    OBVIOUS
  <2>3. AtWorkAlone(p)'
    <3>1. \A t \in Task : Settled(t)' <=> Settled(t)
      BY DEF Settled
    <3>2. Settled(TaskOf(Mine(p)))' <=> Settled(TaskOf(Mine(p)))
      BY DEF Settled, Mine
    <3>3. (AllDone' <=> AllDone) /\ (RetryableFailure' <=> RetryableFailure)
      BY DEF AllDone, RetryableFailure, Graph
    <3> QED
      BY <2>1, <2>2, <3>2, <3>3 DEF AtWorkAlone, Status, Mine, IsPending
  <2>4. RetryAlone(p)'
    BY <2>1, <2>2 DEF RetryAlone, CommitPassed, Commit, Status, StateStatus
  <2> QED
    BY <2>3, <2>4
<1> QED
  BY <1>1, <1>2, <1>3 DEF Alone

\* An outsider commits.
LEMMA OutsideAlone ==
  ASSUME DriveInv, Alone, CommitOutside
  PROVE  Alone'
<1> USE DEF records, workdir, worktree, locks, history, used
<1>1. PICK has \in {{}, dirty}, files \in {{}, fileDirty} : AddCommit(Outside, has, files)
  BY DEF CommitOutside
<1>2. OwnWork'
  <2>1. Outside \in 0..(N + 1) /\ Outside \notin Task
    BY DriveAssumption DEF Outside, Task
  <2>2. has \in SUBSET Task
    BY DEF DriveInv, TypeOK
  <2> QED
    BY <1>1, <2>1, <2>2, OwnWorkKept DEF Alone
<1>3. /\ fileDirty' \subseteq fileDirty
      /\ UNCHANGED <<policy, step, pending, file, run, completion, pc, my>>
  BY <1>1 DEF CommitOutside, AddCommit
<1> QED
  BY <1>2, <1>3, AloneRests

------------------------------------------------------------------------------
(* That no partial is taken for Done, action by action.                     *)

\* What a task's records and file say stays true when at most its file is no
\* longer Done.
LEMMA PartialStays ==
  ASSUME NEW t \in Task, PartialKept(t), Agent(t)' = Agent(t), Status(t)' = Status(t),
         TaskPending(t)' <=> TaskPending(t), file'[t] = "Done" => file[t] = "Done"
  PROVE  PartialKept(t)'
BY DEF PartialKept

\* A step that writes no step of a task and nothing that is pending.
LEMMA QuietPartials ==
  ASSUME PartialsKept, UNCHANGED <<step, pending>>,
         \A t \in Task : file'[t] = "Done" => file[t] = "Done"
  PROVE  PartialsKept'
<1>1. \A t \in Task : Agent(t)' = Agent(t) /\ Status(t)' = Status(t)
  BY StepsStay
<1>2. \A t \in Task : TaskPending(t)' <=> TaskPending(t)
  BY DEF TaskPending
<1> QED
  BY <1>1, <1>2, PartialStays DEF PartialsKept

\* A task's file is written, and not to say that it is Done.
LEMMA OpenPartials ==
  ASSUME TypeOK, PartialsKept, UNCHANGED <<step, pending>>, NEW t \in Task,
         NEW status \in {"In Progress", "Blocked"}, SetFile(t, status)
  PROVE  PartialsKept'
<1>1. file'[t] = status /\ \A u \in Task : u # t => file'[u] = file[u]
  BY FileTyped
<1> QED
  BY <1>1, QuietPartials

\* A finalizer leaves its work pending, where nothing was.
LEMMA PendPartials ==
  ASSUME PartialsKept, UNCHANGED <<step, file>>, pending = NoPending,
         \A t \in Task : TaskPending(t)' =>
           Status(t).status \in {"pending", "ready", "running"}
  PROVE  PartialsKept'
<1>1. \A t \in Task : Agent(t)' = Agent(t) /\ Status(t)' = Status(t)
  BY StepsStay
<1>2. \A t \in Task : ~TaskPending(t)
  BY DEF TaskPending, NoPending
<1> SUFFICES ASSUME NEW t \in Task PROVE PartialKept(t)'
  BY DEF PartialsKept
<1>3. PartialKept(t)
  BY DEF PartialsKept
<1> QED
  BY <1>1, <1>2, <1>3 DEF PartialKept

\* A step is written that is no task's status, or that of a task for which what
\* is to be shown holds; results of tasks change only while these run.
LEMMA WritePartials ==
  ASSUME PartialsKept, NEW s \in Step, \A u \in Step : u # s => step'[u] = step[u],
         UNCHANGED <<file, pending>>,
         Phase(s) = "task" =>
           \/ step'[s].result = step[s].result
           \/ step[s].result # "success" /\ Status(TaskOf(s)).result # "partial",
         Phase(s) = "status" => PartialKept(TaskOf(s))'
  PROVE  PartialsKept'
<1>1. \A t \in Task : TaskPending(t)' <=> TaskPending(t)
  BY DEF TaskPending
<1>2. CASE Phase(s) = "task"
  <2>1. /\ TaskOf(s) \in Task
        /\ Agent(TaskOf(s)) = step[s] /\ Agent(TaskOf(s))' = step'[s]
        /\ \A t \in Task : Status(t)' = Status(t)
        /\ \A t \in Task : t # TaskOf(s) => Agent(t)' = Agent(t)
    BY <1>2, Written
  <2>2. PartialKept(TaskOf(s))'
    <3>1. PartialKept(TaskOf(s)) /\ (TaskOf(s) = TaskOf(s))'
      BY <2>1 DEF PartialsKept
    <3> QED
      BY <1>1, <1>2, <2>1, <3>1 DEF PartialKept
  <2> QED
    BY <1>1, <2>1, <2>2, PartialStays DEF PartialsKept
<1>3. CASE Phase(s) = "status"
  <2>1. /\ \A t \in Task : Agent(t)' = Agent(t)
        /\ \A t \in Task : t # TaskOf(s) => Status(t)' = Status(t)
    BY <1>3, Written
  <2> QED
    BY <1>1, <1>3, <2>1, PartialStays DEF PartialsKept
<1>4. CASE Phase(s) \in {"commit", "state"}
  <2>1. \A t \in Task : Agent(t)' = Agent(t) /\ Status(t)' = Status(t)
    BY <1>4, Written
  <2> QED
    BY <1>1, <2>1, PartialStays DEF PartialsKept
<1> QED
  BY <1>2, <1>3, <1>4, StepsOf

\* The graph writes a step, or the terminal result and the locks.
LEMMA GraphPartials ==
  ASSUME DriveInv, Alone, PartialsKept, NEW p \in Cli, GraphStep(p)
  PROVE  PartialsKept'
<1> USE DEF records, workdir, worktree, locks, history, used
<1>0. TypeOK /\ AtWorkAlone(p)
  BY DEF DriveInv, Alone
<1>1. CASE \/ LockPlan(p) \/ LockRefused(p) \/ StopForFinalizer(p) \/ Drained(p)
           \/ Complete(p) \/ Unlock(p)
  BY <1>1, QuietPartials
     DEF LockPlan, LockRefused, StopForFinalizer, Drained, Complete, Unlock
<1>2. CASE BlockCommitted(p)
  <2>1. PICK s \in Graph : step' = [step EXCEPT ![s].status = "blocked"]
    BY <1>2 DEF BlockCommitted
  <2>2. s \in Step /\ step \in [Step -> Record] /\ step[s] \in Record
    BY <1>0, GraphSteps, TypesOf
  <2>3. /\ step'[s].status = "blocked" /\ step'[s].result = step[s].result
        /\ \A u \in Step : u # s => step'[u] = step[u]
    BY <2>1, <2>2 DEF Record
  <2>4. UNCHANGED <<file, pending>>
    BY <1>2 DEF BlockCommitted
  <2>5. Phase(s) = "status" => PartialKept(TaskOf(s))'
    <3>1. ASSUME Phase(s) = "status" PROVE PartialKept(TaskOf(s))'
      <4>1. PICK t \in Task : t = TaskOf(s)
        BY <2>2, <2>3, <3>1, Written
      <4>2. Status(t) = step[s] /\ Status(t)' = step'[s] /\ Agent(t)' = Agent(t)
        BY <2>2, <2>3, <3>1, <4>1, Written
      <4>3. PartialKept(t) /\ (TaskPending(t)' <=> TaskPending(t))
        BY <2>4 DEF PartialsKept, TaskPending
      <4>4. PartialKept(t)'
        BY <2>3, <2>4, <4>2, <4>3 DEF PartialKept
      <4> QED
        BY <4>1, <4>4
    <3> QED
      BY <3>1
  <2> QED
    BY <2>2, <2>3, <2>4, <2>5, WritePartials
<1>3. CASE StartStep(p)
  <2>1. PICK s \in Runnable :
          step' = [step EXCEPT ![s].status = "running", ![s].attempt = "open"]
    BY <1>3 DEF StartStep
  <2>2. s \in Step /\ step \in [Step -> Record] /\ step[s] \in Record
    BY <1>0, GraphSteps, TypesOf DEF Runnable
  <2>3. /\ step'[s].status = "running" /\ step'[s].result = step[s].result
        /\ \A u \in Step : u # s => step'[u] = step[u]
        /\ step[s].status \in {"pending", "ready"}
    BY <2>1, <2>2 DEF Record, Runnable
  <2>4. UNCHANGED <<file, pending>>
    BY <1>3 DEF StartStep
  <2>5. Phase(s) = "status" => PartialKept(TaskOf(s))'
    <3>1. ASSUME Phase(s) = "status" PROVE PartialKept(TaskOf(s))'
      <4>1. PICK t \in Task : t = TaskOf(s)
        BY <2>2, <2>3, <3>1, Written
      <4>2. Status(t) = step[s] /\ Status(t)' = step'[s] /\ Agent(t)' = Agent(t)
        BY <2>2, <2>3, <3>1, <4>1, Written
      <4>3. PartialKept(t) /\ (TaskPending(t)' <=> TaskPending(t))
        BY <2>4 DEF PartialsKept, TaskPending
      <4>4. PartialKept(t)'
        BY <2>3, <2>4, <4>2, <4>3 DEF PartialKept
      <4> QED
        BY <4>1, <4>4
    <3> QED
      BY <3>1
  <2> QED
    BY <2>2, <2>3, <2>4, <2>5, WritePartials
<1>4. CASE Settle(p)
  <2>0. /\ pc[p] = "settle" /\ AnswerTrue(p) /\ UNCHANGED <<file, pending>>
    BY <1>4 DEF Settle, DriveInv
  <2>1. PICK s \in Step : s = Mine(p)
    BY <1>0, TypesOf
  <2>2. PICK r \in Result : r = my[p].res
    BY <1>4, <2>0, <2>1, StepsOf DEF AnswerTrue, Result
  <2>3. /\ step'[s].status = StatusFor(r) /\ step'[s].result = r
        /\ \A u \in Step : u # s => step'[u] = step[u]
    BY <1>0, <1>4, <2>1, <2>2, SettlesStep
  <2>4. /\ step[s].status = "running"
        /\ IF r = "retry" THEN IsPending(s) ELSE pending = NoPending
    BY <1>0, <2>0, <2>1, <2>2 DEF AtWorkAlone
  <2>5. Phase(s) = "task" => step[s].result # "success" /\ Status(TaskOf(s)).result # "partial"
    <3>1. ASSUME Phase(s) = "task"
          PROVE  step[s].result # "success" /\ Status(TaskOf(s)).result # "partial"
      <4>1. PICK t \in Task : t = TaskOf(s) /\ Agent(t) = step[s]
        BY <2>3, <3>1, Written
      <4>2. Agent(t).result \notin {"success", "partial"}
        BY <2>4, <4>1 DEF DriveInv, TaskInOrder
      <4>3. PartialKept(t)
        BY DEF PartialsKept
      <4> QED
        BY <4>1, <4>2, <4>3 DEF PartialKept
    <3> QED
      BY <3>1
  <2>6. Phase(s) = "status" => PartialKept(TaskOf(s))'
    <3>1. ASSUME Phase(s) = "status" PROVE PartialKept(TaskOf(s))'
      <4>1. PICK t \in Task : t = TaskOf(s)
        BY <2>3, <3>1, Written
      <4>2. Status(t) = step[s] /\ Status(t)' = step'[s] /\ Agent(t)' = Agent(t)
        BY <2>3, <3>1, <4>1, Written
      <4>3. PartialKept(t) /\ (TaskPending(t)' <=> TaskPending(t))
        BY <2>0 DEF PartialsKept, TaskPending
      <4>4. /\ r \in {"success", "partial", "failed", "retry"}
            /\ r \in {"success", "partial"} => Agent(t).result = r
        BY <2>0, <2>1, <2>2, <3>1, <4>1 DEF AnswerTrue
      <4>5. Status(t)'.result = r /\ Status(t)'.status = StatusFor(r)
        BY <2>3, <4>2
      <4>6. ASSUME r = "retry" PROVE PartialKept(t)'
        <5>1. TaskPending(t)
          BY <2>4, <3>1, <4>1, <4>6 DEF IsPending, TaskPending
        <5> QED
          BY <2>0, <4>2, <4>3, <4>5, <4>6, <5>1 DEF PartialKept
      <4>7. ASSUME r # "retry" PROVE PartialKept(t)'
        <5>1. ~TaskPending(t)
          BY <2>4, <4>7 DEF TaskPending, NoPending
        <5>2. Status(t).result = "none" /\ (file[t] = "Done" => Agent(t).result = "success")
          BY <2>4, <4>2, <4>3, <5>1 DEF PartialKept
        <5>3. Status(t)'.status \in {"completed", "failed"}
          BY <4>4, <4>5, <4>7 DEF StatusFor
        <5> QED
          BY <2>0, <4>2, <4>3, <4>4, <4>5, <5>1, <5>2, <5>3 DEF PartialKept
      <4>8. PartialKept(t)'
        BY <4>6, <4>7
      <4> QED
        BY <4>1, <4>8
    <3> QED
      BY <3>1
  <2> QED
    BY <2>0, <2>3, <2>5, <2>6, WritePartials
<1> QED
  BY <1>1, <1>2, <1>3, <1>4 DEF GraphStep

\* The steps of tasks leave their files In Progress or Blocked.
LEMMA TaskPartials ==
  ASSUME DriveInv, PartialsKept, NEW p \in Cli, TaskWork(p)
  PROVE  PartialsKept'
<1> USE DEF records, workdir, worktree, locks, history, used
<1>1. CASE TaskFails(p) \/ PreflightFails(p) \/ AgentEnds(p) \/ RetryContradicted(p)
  BY <1>1, QuietPartials DEF TaskFails, PreflightFails, AgentEnds, RetryContradicted
<1>2. CASE GiveToAgent(p) \/ ReportBlock(p)
  <2>1. /\ pc[p] \in AtTask /\ UNCHANGED <<step, pending>>
    BY <1>2 DEF GiveToAgent, ReportBlock, AtTask
  <2>2. PICK t \in Task : t = TaskOf(Mine(p))
    BY <2>1, TaskInHand
  <2>3. PICK status \in {"In Progress", "Blocked"} : SetFile(t, status)
    BY <1>2, <2>2 DEF GiveToAgent, ReportBlock
  <2> QED
    BY <2>1, <2>2, <2>3, OpenPartials DEF DriveInv
<1> QED
  BY <1>1, <1>2 DEF TaskWork

\* A finalizer marks a success Done, a partial In Progress, or leaves its work
\* pending.
LEMMA FinalPartials ==
  ASSUME DriveInv, Alone, PartialsKept, NEW p \in Cli, Finalize(p)
  PROVE  PartialsKept'
<1> USE DEF records, workdir, worktree, locks, history, used
<1>0. TypeOK /\ AtWorkAlone(p)
  BY DEF DriveInv, Alone
<1>1. CASE \/ CommitBegins(p) \/ LockCommits(p, "commit lock", "git") \/ CommitSource(p)
           \/ NothingToCommit(p) \/ NameCommit(p) \/ CommitFails(p) \/ AnnounceStatus(p)
           \/ SkipStateCommit(p) \/ StateBegins(p) \/ LockCommits(p, "state lock", "state git")
           \/ CommitFiles(p, "state git", "settle", "settle")
  BY <1>1, QuietPartials
     DEF CommitBegins, LockCommits, CommitSource, NothingToCommit, NameCommit, CommitFails,
         AnnounceStatus, SkipStateCommit, StateBegins, CommitFiles
<1>2. CASE BlockPartial(p) \/ NoteCommitPending(p) \/ KeepPartial(p)
  <2>1. /\ pc[p] \in AtCommit \cup AtStatus /\ UNCHANGED <<step, pending>>
    BY <1>2 DEF BlockPartial, NoteCommitPending, KeepPartial, AtCommit, AtStatus
  <2>2. PICK t \in Task : t = TaskOf(Mine(p))
    BY <2>1, TaskInHand
  <2>3. PICK status \in {"In Progress", "Blocked"} : SetFile(t, status)
    BY <1>2, <2>2 DEF BlockPartial, NoteCommitPending, KeepPartial
  <2> QED
    BY <1>0, <2>1, <2>2, <2>3, OpenPartials
<1>3. CASE MarkDone(p)
  <2>1. pc[p] \in AtStatus /\ UNCHANGED <<step, pending>>
    BY <1>3 DEF MarkDone, AtStatus
  <2>2. PICK t \in Task : t = TaskOf(Mine(p))
    BY <2>1, TaskInHand
  <2>3. SetFile(t, "Done") /\ Agent(t).result = "success"
    BY <1>3, <2>2 DEF MarkDone, Reported, Agent
  <2>4. \A u \in Task : u # t => file'[u] = file[u]
    BY <1>0, <2>3, FileTyped
  <2>5. \A u \in Task : /\ Agent(u)' = Agent(u) /\ Status(u)' = Status(u)
                        /\ TaskPending(u)' <=> TaskPending(u)
    BY <2>1, StepsStay DEF TaskPending
  <2>6. ASSUME NEW u \in Task PROVE PartialKept(u)'
    <3>1. PartialKept(u)
      BY DEF PartialsKept
    <3>2. CASE u = t
      <4>1. Agent(u).result = "success"
        BY <2>3, <3>2
      <4> QED
        BY <2>5, <3>1, <4>1 DEF PartialKept
    <3>3. CASE u # t
      BY <2>4, <2>5, <3>1, <3>3, PartialStays
    <3> QED
      BY <3>2, <3>3
  <2> QED
    BY <2>6 DEF PartialsKept
<1>4. CASE PendCommit(p)
  <2>1. /\ pc[p] \in AtCommit /\ pc[p] # "commit pending" /\ UNCHANGED <<step, file>>
        /\ pending' = [phase |-> "commit", task |-> TaskOf(Mine(p)), head |-> my[p].head, sha |-> 0]
    BY <1>4 DEF PendCommit, AtCommit
  <2>2. pending = NoPending /\ Status(TaskOf(Mine(p))).status = "pending"
    BY <1>0, <2>1 DEF AtWorkAlone
  <2>3. \A t \in Task : TaskPending(t)' => t = TaskOf(Mine(p))
    BY <2>1 DEF TaskPending
  <2> QED
    BY <2>1, <2>2, <2>3, PendPartials
<1>5. CASE StatusFails(p)
  <2>1. pc[p] \in AtStatus /\ UNCHANGED <<step, file>>
    BY <1>5 DEF StatusFails, AtStatus
  <2>2. PICK t \in Task : t = TaskOf(Mine(p))
    BY <2>1, TaskInHand
  <2>3. pending = NoPending /\ Status(t).status = "running"
    <3>1. Phase(Mine(p)) = "status" /\ Mine(p) \in Step
      BY <1>0, <2>1, TaskInHand, TypesOf
    <3>2. Status(t) = step[Mine(p)]
      BY <2>2, <3>1, Written, <2>1
    <3> QED
      BY <1>0, <2>1, <3>2 DEF AtWorkAlone
  <2>4. \/ pending' = pending
        \/ pending' = [phase |-> "status", task |-> t, head |-> 0, sha |-> Committed(t)]
    BY <1>5, <2>2 DEF StatusFails
  <2>5. \A u \in Task : TaskPending(u)' => u = t
    BY <2>3, <2>4 DEF TaskPending, NoPending
  <2> QED
    BY <2>1, <2>3, <2>5, PendPartials
<1>6. CASE PendState(p)
  <2>1. /\ pc[p] \in AtState /\ UNCHANGED <<step, file>> /\ pending'.phase = "state"
    BY <1>6 DEF PendState, AtState
  <2>2. pending = NoPending
    BY <1>0, <2>1 DEF AtWorkAlone
  <2>3. \A u \in Task : ~TaskPending(u)'
    BY <2>1 DEF TaskPending
  <2> QED
    BY <2>1, <2>2, <2>3, PendPartials
<1> QED
  BY <1>1, <1>2, <1>3, <1>4, <1>5, <1>6 DEF Finalize

\* A retry writes the record of what is pending.
LEMMA RetryPartials ==
  ASSUME DriveInv, Alone, PartialsKept, NEW p \in Cli, Retry(p)
  PROVE  PartialsKept'
<1> USE DEF records, workdir, worktree, locks, history, used
<1>0. TypeOK /\ (my[p].sha \in Nat) /\ HEAD \in Nat
  BY TypesOf DEF DriveInv, Local
<1>1. CASE \/ LockCommits(p, "retry commit lock", "retry git") \/ CommitPending(p)
           \/ FindNothing(p) \/ LockCommits(p, "retry state lock", "retry state git")
           \/ CommitFiles(p, "retry state git", "state passed", "check files")
  BY <1>1, QuietPartials DEF LockCommits, CommitPending, FindNothing, CommitFiles
<1>2. ASSUME NEW s \in Step, Phase(s) \in {"commit", "state"}, UNCHANGED <<file, pending>>,
             \E n \in Nat : step' \in {step, Opened(s), Passed(s, n), FailedAgain(s)}
      PROVE  PartialsKept'
  <2>1. \A u \in Step : u # s => step'[u] = step[u]
    BY <1>0, <1>2, OpensStep, PassesStep, FailsStep
  <2> QED
    BY <1>2, <2>1, WritePartials
<1>3. CASE RetryCommit(p) \/ CheckHead(p) \/ CommitFailsAgain(p) \/ AcceptCommit(p)
  <2>1. pc[p] \in RetryingCommit
    BY <1>3 DEF RetryCommit, CheckHead, CommitFailsAgain, AcceptCommit, RetryingCommit
  <2>2. PICK s \in Step : s = <<"commit", my[p].pend.task>>
    BY <2>1, RetriedStep
  <2>3. Phase(s) = "commit"
    BY <2>2 DEF Phase
  <2>4. /\ UNCHANGED <<file, pending>>
        /\ \E n \in Nat : step' \in {step, Opened(s), Passed(s, n), FailedAgain(s)}
    BY <1>0, <1>3, <2>2 DEF RetryCommit, CheckHead, CommitFailsAgain, AcceptCommit, RetryFails
  <2> QED
    BY <1>2, <2>3, <2>4
<1>4. CASE RetryState(p) \/ StateFailsAgain(p) \/ StatePassed(p) \/ AcceptFiles(p)
  <2>1. PICK s \in Step : s = <<"state", 0>>
    BY StepsOf
  <2>2. Phase(s) = "state"
    BY <2>1 DEF Phase
  <2>3. /\ UNCHANGED <<file, pending>>
        /\ \E n \in Nat : step' \in {step, Opened(s), Passed(s, n), FailedAgain(s)}
    BY <1>0, <1>4, <2>1 DEF RetryState, StateFailsAgain, StatePassed, AcceptFiles, RetryFails
  <2> QED
    BY <1>2, <2>2, <2>3
<1>5. CASE RetryStatus(p) \/ StatusFailsAgain(p) \/ StatusPassed(p)
  <2>1. pc[p] \in RetryingStatus /\ pending' = pending
    BY <1>5 DEF RetryStatus, StatusFailsAgain, StatusPassed, RetryingStatus
  <2>2. PICK t \in Task : t = my[p].pend.task /\ TaskPending(t)
    BY <2>1, RetryOfTask
  <2>3. PICK s \in Step : s = <<"status", t>>
    BY StepsOf
  <2>4. PICK n \in Nat : n = my[p].sha
    BY <1>0
  <2>5. step' = Opened(s) \/ step' = Passed(s, n) \/ step' = FailedAgain(s)
    BY <1>5, <2>2, <2>3, <2>4 DEF RetryStatus, StatusFailsAgain, StatusPassed, RetryFails
  <2>6. \A u \in Step : u # s => step'[u] = step[u]
    BY <1>0, <2>5, OpensStep, PassesStep, FailsStep
  <2>7. step'[s].result \in {step[s].result, "success", "retry"}
    <3>1. step[s] \in Record
      BY <1>0, TypesOf
    <3>2. CASE step' = Opened(s)
      BY <1>0, <3>1, <3>2, OpensStep DEF Record
    <3>3. CASE step' = Passed(s, n)
      <4>1. step'[s] = [status |-> "completed", result |-> "success",
                        attempt |-> "success", sha |-> n]
        BY <1>0, <3>3, PassesStep
      <4> QED
        BY <4>1
    <3>4. CASE step' = FailedAgain(s)
      BY <1>0, <3>1, <3>4, FailsStep DEF Record
    <3> QED
      BY <2>5, <3>2, <3>3, <3>4
  <2>8. Phase(s) = "status" /\ TaskOf(s) = t
    BY <2>3 DEF Phase, TaskOf
  <2>9. /\ Status(t) = step[s] /\ Status(t)' = step'[s] /\ \A u \in Task : Agent(u)' = Agent(u)
        /\ \A u \in Task : u # t => Status(u)' = Status(u)
    BY <2>6, <2>8, Written
  <2>10. \A u \in Task : TaskPending(u)' <=> TaskPending(u)
    BY <2>1 DEF TaskPending
  <2>11. \A u \in Task : u # t => file'[u] = file[u]
    <3>1. CASE RetryStatus(p)
      BY <1>0, <2>2, <3>1, FileTyped DEF RetryStatus
    <3>2. CASE StatusFailsAgain(p) \/ StatusPassed(p)
      BY <3>2 DEF StatusFailsAgain, StatusPassed
    <3> QED
      BY <1>5, <3>1, <3>2
  <2>12. ASSUME NEW u \in Task PROVE PartialKept(u)'
    <3>1. PartialKept(u)
      BY DEF PartialsKept
    <3>2. CASE u = t
      <4>1. TaskPending(u) /\ TaskPending(u)'
        BY <2>2, <2>10, <3>2
      <4>2. Status(u)'.result # "partial"
        BY <2>7, <2>9, <3>1, <3>2, <4>1 DEF PartialKept
      <4> QED
        BY <4>1, <4>2 DEF PartialKept
    <3>3. CASE u # t
      BY <2>9, <2>10, <2>11, <3>1, <3>3, PartialStays
    <3> QED
      BY <3>2, <3>3
  <2> QED
    BY <2>12 DEF PartialsKept
<1>6. CASE ClearPending(p)
  <2>1. pc[p] = "clear" /\ UNCHANGED <<step, file>> /\ pending' = NoPending
    BY <1>6 DEF ClearPending
  <2>2. my[p].pend = pending /\ RetryAlone(p)
    BY <2>1 DEF Alone, RetryAlone, Retrying
  <2>3. \A u \in Task : TaskPending(u) => Status(u).status = "completed"
    BY <2>1, <2>2 DEF RetryAlone, TaskPending
  <2>4. \A u \in Task : ~TaskPending(u)'
    BY <2>1 DEF TaskPending, NoPending
  <2>5. \A u \in Task : Agent(u)' = Agent(u) /\ Status(u)' = Status(u)
    BY <2>1, StepsStay
  <2>6. ASSUME NEW u \in Task PROVE PartialKept(u)'
    <3>1. PartialKept(u) /\ TaskInOrder(u)
      BY DEF PartialsKept, DriveInv
    <3>2. TaskPending(u) => Status(u).result = "success"
      BY <2>3, <3>1 DEF PartialKept, TaskInOrder
    <3>3. TaskPending(u) => Status(u).status = "completed"
      BY <2>3
    <3> QED
      BY <2>1, <2>4, <2>5, <3>1, <3>2, <3>3 DEF PartialKept
  <2> QED
    BY <2>6 DEF PartialsKept
<1> QED
  BY <1>1, <1>3, <1>4, <1>5, <1>6 DEF Retry

\* Every step keeps partials from being taken for Done.
LEMMA PartialsStay ==
  ASSUME DriveInv, Alone, PartialsKept, [Next]_vars
  PROVE  PartialsKept'
<1> USE DEF records, workdir, worktree, locks, history, used
<1>1. CASE UNCHANGED vars
  BY <1>1, QuietPartials DEF vars
<1>2. CASE CommitOutside
  BY <1>2, QuietPartials DEF CommitOutside
<1>3. ASSUME NEW p \in Cli, Continue(p) \/ Resume(p) \/ Crash(p)
      PROVE  PartialsKept'
  BY <1>3, QuietPartials
     DEF Continue, ResumeCompletes, ResumeRepeats, ResumeContinues, RefuseDirty, Prepare,
         Resume, Crash
<1>4. ASSUME NEW p \in Cli, Proceed(p)
      PROVE  PartialsKept'
  BY <1>3, <1>4, GraphPartials, TaskPartials, FinalPartials, RetryPartials DEF Proceed
<1> QED
  BY <1>1, <1>2, <1>3, <1>4 DEF Next

------------------------------------------------------------------------------
(* The theorems.                                                             *)

\* Only a process that is started can find that it is not alone.
LEMMA AloneKept ==
  ASSUME [Next]_vars
  PROVE  alone' = alone \/ \E p \in Cli : Resume(p)
<1> USE DEF records, workdir, worktree, locks, history, used
<1>1. CASE UNCHANGED vars
  BY <1>1 DEF vars
<1>2. CASE CommitOutside
  BY <1>2 DEF CommitOutside
<1>3. ASSUME NEW p \in Cli, GraphStep(p) PROVE alone' = alone
  BY <1>3 DEF GraphStep, LockPlan, LockRefused, BlockCommitted, StartStep, Settle,
     StopForFinalizer, Drained, Complete, Unlock
<1>4. ASSUME NEW p \in Cli, TaskWork(p) PROVE alone' = alone
  BY <1>4 DEF TaskWork, TaskFails, PreflightFails, GiveToAgent, AgentEnds, RetryContradicted,
     ReportBlock
<1>5. ASSUME NEW p \in Cli, Finalize(p) PROVE alone' = alone
  BY <1>5 DEF Finalize, CommitBegins, LockCommits, CommitSource, NothingToCommit, NameCommit,
     CommitFails, BlockPartial, PendCommit, NoteCommitPending, MarkDone, AnnounceStatus,
     StatusFails, KeepPartial, SkipStateCommit, StateBegins, CommitFiles, PendState
<1>6. ASSUME NEW p \in Cli, Retry(p) PROVE alone' = alone
  BY <1>6 DEF Retry, RetryCommit, LockCommits, CommitPending, FindNothing, CheckHead,
     CommitFailsAgain, AcceptCommit, RetryStatus, StatusFailsAgain, StatusPassed, RetryState,
     CommitFiles, StateFailsAgain, StatePassed, AcceptFiles, ClearPending
<1>7. ASSUME NEW p \in Cli, Continue(p) \/ Crash(p) PROVE alone' = alone
  BY <1>7 DEF Continue, ResumeCompletes, ResumeRepeats, ResumeContinues, RefuseDirty, Prepare, Crash
<1> QED
  BY <1>1, <1>2, <1>3, <1>4, <1>5, <1>6, <1>7 DEF Next, Proceed

\* Every step keeps what holds of a process alone.
LEMMA AloneStays ==
  ASSUME DriveInv, DriveInv', AloneInv, [Next]_vars
  PROVE  AloneInv'
<1> SUFFICES ASSUME alone' PROVE Alone' /\ PartialsKept'
  BY DEF AloneInv
<1>1. alone
  BY AloneKept DEF Resume
<1>2. Alone /\ PartialsKept
  BY <1>1 DEF AloneInv
<1>3. ASSUME UNCHANGED vars PROVE Alone'
  <2>1. UNCHANGED <<policy, step, pending, file, fileDirty, commits, run, completion, pc, my>>
    BY <1>3 DEF vars, records, workdir, worktree
  <2>2. OwnWork'
    BY <1>2, <2>1, NoCommit DEF Alone
  <2> QED
    BY <1>2, <2>1, <2>2, AloneRests
<1>4. ASSUME CommitOutside PROVE Alone'
  BY <1>2, <1>4, OutsideAlone
<1>5. ASSUME NEW p \in Cli, GraphStep(p) PROVE Alone'
  BY <1>2, <1>5, PassAlone, StepsAlone, SettleAlone DEF GraphStep
<1>6. ASSUME NEW p \in Cli, TaskWork(p) PROVE Alone'
  BY <1>2, <1>6, TaskAlone
<1>7. ASSUME NEW p \in Cli, Finalize(p) PROVE Alone'
  BY <1>2, <1>7, CommitAlone, CommitFailedAlone, StatusAlone, StateAlone DEF Finalize
<1>8. ASSUME NEW p \in Cli, Retry(p) PROVE Alone'
  BY <1>2, <1>8, RetryCommitAlone, RetryStatusAlone, RetryStateAlone, ClearAlone DEF Retry
<1>9. ASSUME NEW p \in Cli, Continue(p) \/ Resume(p) \/ Crash(p) PROVE Alone'
  BY <1>2, <1>9, ContinueAlone, ResumeAlone, CrashAlone
<1>10. Alone'
  BY <1>3, <1>4, <1>5, <1>6, <1>7, <1>8, <1>9 DEF Next, Proceed
<1> QED
  BY <1>2, <1>10, PartialsStay

\* A run begins with one process and nothing done.
LEMMA AloneInitially == Init => AloneInv
<1> SUFFICES ASSUME Init PROVE Alone /\ PartialsKept
  BY DEF AloneInv
<1>1. PICK p \in Cli : pc = [q \in Cli |-> IF q = p THEN "lock" ELSE "idle"]
  BY DEF Init
<1>2. /\ \A q \in Cli : pc[q] \in {"lock", "idle"}
      /\ \A q, r \in Cli : pc[q] # "idle" /\ pc[r] # "idle" => q = r
  BY <1>1
<1>3. /\ pending = NoPending /\ run = "none" /\ completion = "none" /\ commits = <<>>
      /\ \A s \in Step : step[s].status = "pending"
  BY DEF Init
<1>4. /\ \A t \in Task : Agent(t).status = "pending" /\ Status(t).status = "pending"
      /\ StateStatus = "pending"
  BY <1>3, StepsOf DEF Agent, Status, StateStatus
<1>5. StepsInOrder
  BY <1>3, <1>4 DEF StepsInOrder
<1>6. PendingInOrder
  BY <1>3 DEF PendingInOrder, TaskPending, NoPending
<1>7. RunInOrder
  BY <1>3 DEF RunInOrder
<1>8. OwnWork
  <2>1. DOMAIN commits = {}
    BY <1>3
  <2> QED
    BY <2>1 DEF OwnWork
<1>9. ASSUME NEW q \in Cli PROVE AtWorkAlone(q) /\ RetryAlone(q)
  <2>1. AtWorkAlone(q)
    BY <1>2, <1>3 DEF AtWorkAlone, AtTask, AtCommit, AtStatus, AtState
  <2>2. RetryAlone(q)
    BY <1>2 DEF RetryAlone, Retrying, RetryingCommit, RetryingStatus, RetryingState
  <2> QED
    BY <2>1, <2>2
<1>10. PartialsKept
  <2>1. \A t \in Task : file[t] # "Done" /\ Status(t).result = "none"
    BY StepsOf DEF Init, Status
  <2> QED
    BY <2>1 DEF PartialsKept, PartialKept
<1> QED
  BY <1>2, <1>5, <1>6, <1>7, <1>8, <1>9, <1>10 DEF Alone, OneAtWork

\* As long as no process is started while another is at work, whatever fails,
\* dies and is resumed, tasks are finished one after the other.
THEOREM AloneInvariant == Spec => [](DriveInv /\ AloneInv)
<1>1. Init => DriveInv /\ AloneInv
  BY DriveInitially, AloneInitially
<1>2. DriveInv /\ AloneInv /\ [Next]_vars => (DriveInv /\ AloneInv)'
  BY DriveStays, AloneStays
<1> QED
  BY <1>1, <1>2, PTL DEF Spec

\* A commit under a task's subject holds changes of that task alone, also when
\* it is a retry that commits all it finds in the worktree.
THEOREM CommitsHoldOwnWork == Spec => []OwnWorkOnly
<1>1. AloneInv => OwnWorkOnly
  BY DEF AloneInv, Alone, OwnWork, OwnWorkOnly
<1> QED
  BY <1>1, AloneInvariant, PTL

\* A run that is said to be completed, by run.json or by its terminal result,
\* has every task Done, or partial where that lets the run go on.
THEOREM CompletedIsDone == Spec => []CompletedMeansDone
<1>1. AloneInv => CompletedMeansDone
  <2> SUFFICES ASSUME Alone, "completed" \in {run, completion}, NEW t \in Task
               PROVE  Settled(t)
    BY DEF AloneInv, CompletedMeansDone
  <2>1. CASE completion = "completed"
    BY <2>1 DEF Alone, RunInOrder
  <2>2. CASE run = "completed"
    <3>1. <<"status", t>> \in Graph
      BY StepsOf DEF Graph, Phase
    <3>2. Status(t).status = "completed"
      BY <2>2, <3>1 DEF Alone, RunInOrder, Status
    <3> QED
      BY <3>2 DEF Alone, StepsInOrder
  <2> QED
    BY <2>1, <2>2
<1> QED
  BY <1>1, AloneInvariant, PTL

\* A graph that completed with every task Done has committed their files.
THEOREM CompletedFilesAreCommitted == Spec => []FilesCommitted
<1>1. AloneInv => FilesCommitted
  <2> SUFFICES ASSUME Alone, run = "completed", policy.state, AllDone
               PROVE  fileDirty = {}
    BY DEF AloneInv, FilesCommitted
  <2>1. <<"state", 0>> \in Graph
    BY StepsOf DEF Graph, Phase
  <2>2. StateStatus = "completed"
    BY <2>1 DEF Alone, RunInOrder, StateStatus
  <2> QED
    BY <2>2 DEF Alone, StepsInOrder
<1> QED
  BY <1>1, AloneInvariant, PTL

=============================================================================
