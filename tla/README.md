# Cosmonauts in TLA+

A verification project for [cosmonauts](../src), the TypeScript agent harness that
compiles plans into graphs of steps, runs them through agent and shell backends, and keeps
every run as files on disk. Nothing of the program is in a database: what a process knows it
reads from JSON files, writes back one `await` at a time, and may die between any two of
them. Most of what can go wrong is therefore in the order of those writes, which is what the
modules below model.

Contents: [the system](#the-system) · [modules](#modules) · [the scheduler](#the-scheduler) ·
[Drive](#drive) · [scenes](#scenes) · [runs](#runs) · [bounds](#bounds) · [fairness](#fairness) ·
[disagreements](#disagreements-between-code-and-documents) · [proofs](#proofs) ·
[not modelled](#not-modelled) · [plan](#plan)

## The system

| component | source | state it keeps | operations | interacts with |
| --- | --- | --- | --- | --- |
| durable graph scheduler | `lib/durable-runtime/scheduler.ts`, `scheduler-state.ts`, `status.ts` | nothing between passes; during a pass the records it read, its executions, heartbeat timers | one pass: reconcile, promote, guards, plan, start, finish, finalize | reads and writes the run store; calls backend adapters (`prepare`, `start`, `result`, `cancel`) |
| run start | `lib/durable-runtime/run-start.ts` | none | initialize a run, loop over passes | scheduler, run store, an `AbortSignal` of the caller |
| run store | `lib/durable-runtime/file-store.ts` | `run.json`, `graph.json`, `steps/<id>/{step,heartbeat}.json`, `attempts/`, `events.jsonl`; in memory the last sequence number of each run | create, load and update records; append and read events | every component that runs or watches a run |
| controller | `lib/durable-runtime/controller.ts` | none | summarize a run | run store |
| Drive | `lib/driver/` | plan lock, commit lock, `pending-finalization.json`, run workdir | compile tasks to steps, run them on the graph or inline, commit, set task status | scheduler, task manager, git, backends |
| orchestration | `lib/orchestration/` | per session a `SpawnTracker` (spawns, buffer, waiters, semaphore) | chains (inline or on the graph), spawned children and their completion messages | agent sessions, scheduler, lineage manifests |
| tasks | `lib/tasks/` | `missions/tasks/*.md`, `.cosmonauts/task-create.lock` | create under a lock; update, delete, list without one | Drive, agents' tools, plan archive |
| plans | `lib/plans/` | `missions/plans/`, `missions/archive/` | create, update, archive with the plan's tasks | tasks, sessions |
| sessions | `lib/sessions/` | `manifest.json` per plan | append a session record | orchestration |
| chains | `lib/orchestration/chain-*.ts`, `durable-chain-*.ts` | the state of one call | run stages inline or on the graph | scheduler, spawner, deadline and signal |
| memory | `lib/memory/`, extension `agent-memory` | `memory/agent/` of project and user | write episodes, profile, playbook, index; inject and recall | every session, with no lock |
| architecture map | `lib/architecture-map/`, extension `architecture-memory` | `memory/architecture/` | generate, check, inject | sources edited meanwhile |
| domains, packages | `lib/domains/`, `lib/packages/` | two package stores, bindings of roles | install, update, eject, bind, look up | runtime start, chains, `spawn_agent` |
| terminal sessions | `cli/session.ts`, extension `agent-switch` | session files, the slot of a pending switch | start, switch, hand off | Pi's session factory |
| exported agents | `lib/agent-packages/` | a temporary directory | materialize, launch, clean up | Claude or Codex, signals |
| skills, prompts, config, artifact viewer, CLI | `lib/` … `cli/` | files of their own | parsing, loading, printing | little of it concurrent |

What is hard in this code, and what makes each part correct:

* **Scheduler.** Several processes may resume the same run (`runStart` is called by the CLI,
  by tools and by chains; only Drive takes a plan lock). Records are written back from an older
  read. A process may die between any two files. A heartbeat may be late while the backend still
  works. *Correct* means: a step starts after its dependencies succeeded; nobody repeats work
  that may have been done; unsafe steps of a shared worktree run alone; events never contradict
  the records; a run is announced with one outcome, a completed run earned it, and a run that can
  make progress makes it.
* **Run store.** A terminal event is appended before `run.json` changes; sequence numbers are
  cached per store object. *Correct*: one outcome; readers with a
  cursor miss nothing but events that share a number.
* **Drive.** Commit, task status and state commit are three writes to two systems. *Correct*:
  nothing is committed twice, no committed task is left open without a pending record.
* **Tasks and locks.** Locks are files broken by whoever finds their owner dead. *Correct*: one
  holder; two tasks never share an ID; no update is lost.
* **Spawned agents.** A completion may arrive before, while and after its waiter times out.
  *Correct*: every child's outcome reaches the parent, and slots are given back once.

## Modules

| module | models | kind |
| --- | --- | --- |
| `StepGraph` | what the scheduler promises: steps enabled by successful dependencies, retried, ended; one outcome | abstract specification |
| `DurableScheduler` | `runDurableGraphScheduler`, `runStart`'s loop and the store's writes, for any number of processes | specification |
| `MCDurableScheduler` | graphs, processes and attempt limits for TLC | model |
| `DurableSchedulerProofs` | typing, inductive; dependencies and completion are earned | proofs |
| `DurableSchedulerSolo` | one process at a time: the refinement of `StepGraph`, no work repeated, one outcome | proofs |
| `SpawnSession` | sessions that spawn children, their trackers and completion loops, in one Node process | specification |
| `MCSpawnSession` | a chain session and an interactive one for TLC | model |
| `SpawnSessionProofs` | typing, slots, verdicts, waits | proofs |
| `FileLock` | the lock file of the task store, for callers in any processes | specification |
| `FileLockProofs` | typing; mutual exclusion until a process ends, and of two callers always | proofs |
| `TaskStore` | task files: creation under `FileLock`, updates, deletion and archive without it (extends `FileLock`) | specification |
| `MCTaskStore` | two or three processes for TLC | model |
| `TaskStoreProofs` | distinct IDs and no lost task where the lock excludes, so until a process ends and for two callers | proofs |
| `DriveRun` | the graph of a Drive run with its finalizers, and the command line that starts, resumes and retries it | specification |
| `MCDriveRun` | three policies for TLC | model |
| `DriveRunProofs` | typing, tasks given once, Done is verified and committed, however processes overlap | proofs |
| `DriveRunAlone` | whose work a commit holds, what completed means, for one process at a time | proofs |
| `DriveLaunch` | how runs of a plan are launched, locked, watched, aborted and asked about | specification |
| `DriveLoop` | the loop over tasks without a graph: checks, time limit, one more try, commit, status, ending | specification |
| `MCDriveLaunch` | a run launched twice, and three under two roots | model |
| `DriveLaunchProofs` | typing, one loop at a time, results that stand, runs told to have ended | proofs |
| `RunEvents` | the two event logs of a run, their writers and the readers' cursors | specification |
| `FinalizerRecords` | the step and attempt files of finalizers retried by the command line | specification |
| `RunInit` | initialization or adoption of a run by several starters | specification |
| `LiveActivity` | the bridge from a detached run's log to the session that launched it | specification |
| `ChainRun` | a chain of stages, inline or on the graph, to the result its caller is given | specification |
| `ChainProfile` | the profile of a chain: the times its events arrive at, and what the summary makes of them | specification |
| `MemoryStore` | writers of episodes, profile, playbook and index | specification |
| `InjectedContext` | hidden messages of memory and architecture map, filters and recall | specification |
| `AgentLookup` | bindings of roles, the registry, the validator and those who ask them | specification |
| `DomainPackages` | install, uninstall, update and eject of packages of domains | specification |
| `TaskDocument` | a task's file through parser, edit and serializer | specification |
| `PlanArchive` | a plan, its spec, tasks and sessions: create, update, delete, archive | specification |
| `TerminalSession` | the session at a terminal and the agent behind it | specification |
| `SessionLineage` | manifests and transcripts of spawned sessions | specification |
| `ArchitectureMap` | generation, stamps, replacement and reading of the map | specification |
| `ModuleGraphView` | the search and layout of the module graph in `cosmonauts serve` | specification |
| `ExportedAgent` | an agent as a program: its prompt directory, child, signals | specification |
| `MCScenes` | one scene for each of eighteen modules of the lists above (two of `MemoryStore`), chosen in the first state | model |

Comments that begin with "Mutant:" mark plausible bugs, used to check that each property can
fail; no specification uses them.

## The scheduler

### State

`step`, `attempt`, `heartbeat` and `run` are the files of the run. `ended`, `outcomes` and `owed`
abstract `events.jsonl` to what the properties ask of it: which steps have a terminal event,
which outcomes were announced, and how many ready transitions have no `step_ready` yet. `view`
is what a pass read when it began (`listStepRecords`), kept apart from `step` because the code
writes records back from it; `todo`, `queue`, `execs`, `number` and `live` are the loops, started
executions and backend handles of a pass; `emit` is the event the process appends next, after the
record it announces; `renewal` is a heartbeat renewal between its read and its write. `launched`,
`succeeded` and `crashes` are history variables.

A lease is the `holderId` in the record. It does not exclude anybody: a process only skips ready
steps leased to others and reports `external_running`.

### Actions and code

One action per awaited write, in the order of the code; what lies between two awaits is atomic in
Node.

| actions | code |
| --- | --- |
| `Load`, `MarkReady`, `Reconciled` | load run and steps, `reconcileSchedulerState` |
| `Promote`, `Promoted` | `promotePersistedTerminalAttempts`, the second reconciliation, finalize |
| `BlockCommitted`, `MarkStale`, `BlockUnknown` | the three guards, each followed by finalize when it wrote |
| `RenewOwned`, `RenewTick`, `RenewWrite` | `renewOwnedRunningStep`, the interval of a running step |
| `Plan`, `StartStep`, `OpenAttempt`, `TakeLease`, `Launch`, `Started` | `planRunnableSteps`, `startStepExecution` |
| `AwaitResult`, `TakeResult`, `LoseRace`, `CancelConfirmed`, `CancelRefused`, `PreserveRunning` | `activeStepOutcome`, `cancelActiveStep` |
| `RecordResult`, `Settle`, `Finished` | `finishStepExecution` |
| `Finalize`, `AnnounceRun`, `SaveRun` | `finalizeRun`, and `appendEvent`'s update of `run.json` |
| `AppendEvent` | the event after each record |
| `Exit`, `Resume` | the end of `runStart`, and the next call of it |
| `BackendReturns`, `HeartbeatAges`, `Abort`, `Crash` | environment |

### Abstractions

* The record files of one pass are read atomically, although the code reads one after the other;
  processes still interleave between that read and every write.
* A heartbeat file and the step record that goes with it are written in one action when a lease is
  taken or renewed (`writeStepHeartbeat` rewrites `step.json` too); one renewal is in flight per
  process; renewals while a step is being prepared are not modelled.
* A result is one of success, failed, cancelled, retry, unclear: the classes
  `stepTransitionFromResult` tells apart. In particular a malformed, partial or human-requesting
  result is "unclear".
* A write that fails throws out of the pass: `Crash`. A result that arrives while its cancellation
  is in progress is taken as `TakeResult` with the signal set.
* Passes are not counted (`maxPasses`), and a caller's own stop policy is an `Exit` followed by a
  `Resume`.
## Spawned agents

Everything is in one process, so what lies between two awaits is one action. `free`, `active`,
`buffer` and `waiters` are the fields of each session's `SpawnTracker`, `status` and `parent` its
records. `inbox` holds the messages of `awaitNextCompletionMessages` the loop has not sent yet
(several after a timeout), and `pc` says whether a session is being created, in a turn of its
agent, waiting, or over. `told` is history: the verdicts a parent was prompted with.

| actions | code |
| --- | --- |
| `SpawnChild`, `Created`, `CreationFails` | the `spawn_agent` tool, `runDetachedChildSession`, its `catch` |
| `Settle` with `Publish` | `settleSpawnTracker`, `complete`, `fail`, the bus and `enqueue` |
| `NextMessage`, `TakeBuffered`, `Wait`, `Finish` | the loop of `runSpawnSession` and `executeChildPromptLoop`, `nextCompletion` |
| `Timeout` | `awaitNextCompletionMessages` after its timer |
| `PromptFails` | `session.prompt` throws |

A turn is a state in which the agent may spawn at any time and which ends with one of the loop's
actions. An interactive root (`deliveryMode` "self") has no loop: the tool sends it each result.
The awaits between a resolved wait and the prompt that follows are not separate steps, since
nothing reads the tracker there.

## Tasks and their lock

`FileLock` has one action per file operation of `tasks/lock.ts`: `Create` and `Exists` are the two
results of `link`, `ReadLock` and `CheckOwner` the read and `process.kill(pid, 0)`, `BreakStale`
the `unlink` of a stale lock, `ReadOwn` and `Unlink` the release. A process may end (`Die`) at any
point; a pid is not used again. `driver/lock.ts` has the same algorithm for the plan and commit
locks; the plan lock gives up after one retry.

`TaskStore` extends it. `active` and `archive` are the two directories: what is in the file of each
name, where a name is an ID with a title, and a file is missing, empty (between the open and the
write of `writeFile`) or holds a task. `at` and `work` are the program place and the local
variables of each caller.

| actions | code |
| --- | --- |
| `StartCreate`, `ListActive`, `ReadNext`, `Allocate`, `OpenNew`, `WriteNew` | `createTask`, `loadCreateAllocatedTaskIds`, `generateNextId`, `saveTaskFile` |
| `StartUpdate`, `ReadOld`, `OpenUpdated`, `WriteUpdated`, `DropOld` | `updateTask`, with a changed title or not |
| `Delete`, `Archive` | `deleteTask`, the moves of `archivePlan` |

A file is written through the descriptor that was opened: when it has been moved or removed since,
the content goes with it (`Fill`). `Delete` and `Archive` find and move their file in one step.
`overlap` is history: which updates were under way during which creations.

## Drive

A Drive run is a graph on the scheduler: a step for each task, and finalizers that commit its
sources, set its status and, at the end, commit the task files. `DriveRun` takes from the scheduler
what it decides about steps that run one at a time; its writes one by one are `DurableScheduler`'s
subject. Git is a sequence of commits, each with the tasks whose changes it holds.

| actions of `DriveRun` | code |
| --- | --- |
| `LockPlan`, `LockRefused`, `StartStep`, `Settle`, `StopForFinalizer`, `Drained`, `Complete` | `runInline`, `runDriveOnGraph`, the scheduler as it uses it |
| `PreflightFails`, `GiveToAgent`, `AgentEnds`, `RetryContradicted`, `ReportBlock`, `TaskFails` | `drive-scheduler-backend.ts` |
| `CommitBegins` … `CommitSource`, `NothingToCommit`, `CommitFails`, `PendCommit` | `finalizeDriveSourceCommit` under the commit lock |
| `MarkDone`, `KeepPartial`, `AnnounceStatus`, `StatusFails` | `transitionDriveTaskStatus`, of a success and of a partial |
| `StateBegins`, `CommitFiles`, `PendState`, `SkipStateCommit` | `commitDriveFinalState` |
| `Resume`, `RetryCommit`, `CheckHead`, `AcceptCommit`, `RetryStatus`, `RetryState`, `ClearPending`, `ResumeCompletes`, `RefuseDirty` … | `retryPendingFinalization` and `prepareResume` of the command line |
| `Crash`, `CommitOutside` | a dying process, someone else's commit |

`DriveLaunch` is around it: the tool and the command line write `run.pid`, `run.inline.json` and
`run.completion.json`, take `driver.lock`, launch in their own process or a detached one, poll,
abort, and `run status` reads the files one after the other. The tool listens for the exit of its
process only after `run.pid` is written; when the exit came before, its launch is "deaf" and only a
completion or an abort ends its wait. `RunInit` is what `runStart` does
before the first pass: the lock directory, `run.json`, the graph, the step records, the
`run_started` event, by several starters that may want different graphs. `FinalizerRecords` is the
retry that `run drive --resume` makes outside the graph: the events it emits (`Retry`, `Work`,
`Then`) pass the projector, which chooses an attempt (`Choose`), writes it and then its step
(`WriteAttempt`, `WriteStep`), and forgets what it could not write. `RunEvents` has the two
logs of a run, `events.jsonl` and `orchestration-events.jsonl`, written by a sink and by the
scheduler, each numbering events from its own cache; `watch_events` pages them by lines, `run_watch`
by numbers. `LiveActivity` is the bridge that follows the log of a detached run and sends what it
reads to the session that launched it, at once or when the session is idle.

`DriveLoop` is the loop that drove tasks before the graph did (`runRunLoop`, `runOneTask`), which
the tests still characterize: preflight, the backend against its time limit (`Answers`, `TimesOut`),
`Verify`, `Commit`, the second try of a reason the worktree contradicts (`AskAgain`), `Mark` and
`Announce`, and what each result and each error that is thrown leaves in the log, the task's file and
`pending-finalization.json`. Two of its steps are worth a reader's attention. When HEAD cannot be
read the error is caught by no one (`HeadUnread`), so verified work is not put down as pending. And
an event that is lost between a commit of partial work and the second try leaves a pending status
beside a run that then completes (`AskAgainUnheard`); `PendingIsVerified` allows both.

## Chains

`ChainRun` runs a chain of stages, groups and loops. A chain with a loop, or scoped to a label, is
inline: `BeginStep`, `Evaluate`, `Iterate`, `StopLoop`, `StartStage`, `AgentEnds`, `EndStep`,
`Finish` follow `runChain`. Any other is compiled (`StartRun`, `RecordStage`, `FinalizeRun`), and
its events and result are put together from the records afterwards (`Reconstruct`). `Strike` is the
caller's signal or the deadline. `ChainProfile` is `--profile`: each event is stamped when it
arrives (`StartChain` … `EndChain`), and the summary pairs ends with begins by name, identifier and
time (`EndOf`, `MembersOf`). The events of a graph arrive when it is over, so that their times are
those of the telling; that is what the code does, and an archived plan of the repository expects it.

## Memory and what agents are told

`MemoryStore`: every read, link, rename and scan of the markdown store is a step, by several
processes with no lock. `InjectedContext`: the extensions add hidden messages to a turn
(`InjectMemory`, `InjectMap`), filter the messages before each call (`CallModel`), and the messages
stay in a session that another agent may resume. `ArchitectureMap`: a generator inspects,
analyzes, fingerprints, keeps narratives that fit, writes to `.architecture.tmp` and renames, with
`.architecture.bak` for the next run to restore; agents read the map with a banner. In
`ModuleGraphView` a request of `cosmonauts serve` reads the index and searches for the depth of each
module (`Begin`, `Descend`, `Return`) before it places them. A dependency that is being visited
counts as depth 0, so that a program of modules in circles may have no column 0 and a column past
the width of the drawing: two modules that import each other are the least case, the second one
drawn outside. `DrawnApart` therefore asks for the width only where there is no circle.

## Configuration and sessions

`DomainPackages` has the two stores of packages, installs that copy, link, conflict, prompt and
roll back, and the runtime that refuses two providers of one domain in one store. `AgentLookup` has
the bindings of roles (project, live), the registry with the agents a domain keeps to itself, the
validator, `spawn_agent` and chains whose stages look their agents up when they begin. Who asks is
looked up as well (`TakenFor`): the marker in its prompt is a name that follows the bindings.
`TerminalSession` is the slot through which `/agent` and `/handoff` tell the factory of the next
session whom it is for. `SessionLineage` is the manifest that children which end together read,
extend and write: a qualified role has its session file and transcript in one directory more
(`SessionHome`), its manifest in another (`Home`). `ExportedAgent` is the program around Claude or Codex that writes the agent's
prompt into a temporary directory.

## Plans and task files

`PlanArchive` follows one slug: create, update, delete and archive each read first and act later,
and archiving moves plan, tasks and sessions one after the other, the tasks by one reading of their
directory: a file that has gone since, or has another name, ends the call with an error. `TaskDocument` is one task's file
as a sequence of blocks, read, edited and written back whole by a tool and the command line;
`TaskStore` has the names of the files.

## Scenes

These eighteen modules share no step with one another: `MCScenes` checks their instances in one run.
The first state chooses a scene; the variables `v1`, `v2`, … are those of the scene's module in the
order of its declarations (see the `INSTANCE … WITH`), and a property names the scene it is about.
## Runs

| run | question | result |
| --- | --- | --- |
| `scheduler_solo` | One process at a time (a lock around the run), crash, abort, retry, renewals, a stale heartbeat, a backend that commits: is work ever repeated, do unsafe steps share a worktree, is there one outcome, do steps wait for their dependencies, did a completed run do its work? | holds, 719 thousand states |
| `scheduler_parallel` | One process at a time, two steps in parallel, heartbeat timer, crash: do the records implement `StepGraph`, do events follow records, does a resumed run settle? | holds, 42 thousand states, with liveness |
| `scheduler_stuck` | Does every run that can make no progress end? | violated |
| `spawn_session` | Slots, verdicts and waits with children that finish, fail, hang or are late, nested or side by side, in a chain and in an interactive session; does the chain end? | holds, 592 thousand states, with liveness |
| `spawn_lost` | Was every child's result delivered when the parent's loop ends? | violated |
| `task_store` | Two processes, one may die: are IDs distinct, are tasks kept, does a dead owner's lock block the other? | holds, 413 thousand states, with liveness |
| `task_store_race` | Three processes, one dies with the lock: are IDs distinct? | violated |
| `drive_run` | Two tasks, three policies, two mishaps, two resumes, two processes: is work committed before its task is Done and under its own task, given to the agent once, does completed mean done? | holds, 1.6 million states |
| `drive_launch` | The tool launches a detached and an inline run, the command line the first again, one death: does one loop work on the plan, does its result stand, is who asks told the truth, is the plan free in the end, unless the process ended before the tool listened? | holds, 2.3 million states |
| `scenes` | Nineteen instances of eighteen modules: loop, events, start, retried finalizers, live messages, chains, their times, episodes, profile, context, packages, lookup, documents, plans, terminal, lineage, map, its view, export | holds, 2.1 million states |
| `drive_two_loops` | With two roots, does one loop at a time work on a plan? | violated |
| `map_unseen` | Does the injected architecture map reach the model? | violated |

`IdsDistinct` is one property with two answers. In `task_store` it fails for no interleaving of two
processes; an ID can be shared only with a task whose update, which takes no lock, overlapped the
creation (the update renames the file, or truncates it, while the creation reads the directory).
In `task_store_race` two waiters break the same stale lock.

`DoneWasVerified` has one exception, which is what the code does: a committed partial whose status
could not be written. The run has the policy that reaches it (`driver-commits`, partial work goes on)
and the failure of the write or of its event, so that everything else that might mark unverified work
Done is excluded by TLC, and for every number of tasks and processes by `DoneMeansVerified`.



What the properties of `scenes` say, scene by scene:

| property | scene | what it says |
| --- | --- | --- |
| `LoopEndsWell` | loop | a run called completed did its tasks; what is pending was verified, what is Done is committed, without the writes of agents that were given up; one end, and two attempts at a task at most |
| `RecordsKept` | events, start, retry, live | pages of events by lines skip and repeat nothing over failed appends and crashes; pages by numbers, with two stores appending, skip only what has its number in common with an event of the other store; whoever starts a run goes on with its own graph, started once; the step and attempt of a retried finalizer say how the retry ended, when its files could be written; each line of the log is published once, in order, and heard by the session that launched the run only |
| `ChainsTellTheTruth` | chain, times | success is earned, loops share one budget, and the events tell one story from both runners; the profile gives tools, stages and members of groups the time they took, except where two share a name or a millisecond |
| `MemoryKept` | episodes, context | each content is there once, and found by who wrote it; injected memory is shown to Cosmo alone, this turn's where there is one |
| `NamesResolve` | packages, lookup | two providers of a domain only by a choice, a stop, or two commands at once; hidden agents are spawned only by their domain or a role bound to it, and run in chains of its processes only; a session's bindings are in force, and what the validator accepts the registry finds |
| `Settles` | document | what is written reads back to the same document |
| `PlansAndTasksTogether` | plan | a plan is in its place or in the archive; archiving leaves no task behind |
| `SessionsAsAsked` | terminal, lineage | a new session is for the agent the command asked for; records of children are lost by overlapping appends to one file, failed writes and crashes only, and what is recorded has a transcript beside its session |
| `MapStands` | map, view | a map that was there is there or in the backup; a narrative fits its module; in the drawing depth is the longest chain of dependencies and arrows lead left, circles aside, and no two modules are drawn over each other |
| `LeavesNoPrompt` | export | the prompt's directory is gone when the program ends |
| `StepsHold` | packages, document, map, retry | eject takes the package in use; an edit changes only what it says; a map that is called current is; ended attempts keep their outcome and a task the result its agent reported |

The history variables are part of the state, so equal files reached by different histories are
different states. Symmetry is used where processes are interchangeable and no liveness is checked:
of the holders in `scheduler_solo`, of the command lines in `drive_run`.

## Bounds

Every bound is a constant. `N` is 2 or 3 steps: a chain of two, or a fork where the third step
needs the second, which is the smallest graph in which one step runs beside another that has a
dependent. `MaxAttempts` gives one step two attempts and the others one, so that a retry and its
exhaustion both happen. `MaxCrashes` 1 puts one crash at every point of every pass; `MaxOpened`
caps the attempts opened after crashes. `Answers` lists the results the backends of the run give:
each run has those its question depends on. Two holders are enough for every race between a
process and one other; the theorems below hold for any number of steps, holders and crashes.
`MaxSpawns` 4 lets a session with two slots have two children while a grandchild and a late spawn
come and go, `MaxDepth` 2 gives nested loops, and `MaxConcurrent` 2 makes a full tracker reachable.
The task store creates 2 tasks under 2 titles (equal and different ones), with 2 updates, so that
two of them overlap, and one archive or deletion; IDs are below 10, where the order of names is
that of numbers. Two callers race with each other; three are the least for two waiters and a dead
owner.

`DriveRun` has two tasks, so that one can be left behind another, two processes (interchangeable,
hence the symmetry), two mishaps with the default policy and one with the others, and two resumes:
a failed retry and the one after it. The scenes have the least numbers in which their hazard
happens: two driver events and one of the scheduler, so that both stores append, with a failure, a crash and
two pages; two retries by two processes with a failed write and a death; three starters with two graphs and a crash; three lines with a death, a turn and two
switches of session; chains of up to three steps with groups of two and two iterations; profiles of two stages of one role and of two groups,
with one tool and one tick of the clock; three
writers of episodes whose contents and names collide; two packages in two stores with three
commands; two domains, one role and two sessions; two edits of each of four documents; three calls
on a plan with one task, a stop and one change; two commands and two starts at the terminal; three
children, detached and qualified ones among them; two files, one edit, three runs and a mishap of
one generator; all graphs of three modules; two tasks, three policies and one failed call in the loop; two signals. `drive_launch` has two
launches of one run, one detached, one more inline by the same session, which is refused or comes
after, and a death; there the roots agree (`SameRoot`), and `drive_two_loops` has what fails
otherwise.
## Fairness

Weak fairness of `Proceed(h)`: the event loop runs a continuation that is ready. Of
`BackendReturns`: a backend answers (Drive and the agents give theirs a timeout). Of `RenewWrite`:
a started write ends. Of `HeartbeatAges`: time passes. Of `Resume`: somebody resumes a run that is
not over; this is an assumption about users and tools, and `SettlesOrDeadEnd` is worth nothing
without it. Crash, abort and the timer are not fair. Violations of invariants need no fairness;
`scheduler_stuck` is checked under all of it.
In `SpawnSession` only the loop and the timer of a root are fair: its turns end. Children may hang
in any state, and `HungChildNeverBlocks` holds all the same. In `TaskStore` a caller that has begun
goes on while its process lives; nobody has to begin a call, and processes need not die. Since
creations are finitely many, a waiter gets the lock in the end; with an endless supply of other
callers the polling lock promises no such thing.

`DriveRun` and the scenes state safety only; the progress of a launched run is in
`PlanFreed`, as a property of the states in which nobody can go on.
## Disagreements between code and documents

* `StuckRunEnds` (`scheduler.ts:1625`): a step that ends failed, cancelled or stale in front of a
  pending one leaves the run running for ever, each pass draining without an outcome, until
  `maxPasses`. The plan of the scheduler says such a run is over.
* `EveryResultDelivered` (`agent-spawner.ts:227`): the completion loop asks how many children are
  running, not what is in the buffer. A child that settles while its parent is in a turn, with no
  other child running, is never reported.
* `IdsDistinct` with three processes (`tasks/lock.ts:149`): `breakStaleLock` unlinks whatever lock
  is there. Two waiters that both saw the dead owner can end up creating tasks at the same time,
  with the same ID. `breakStaleLock` of `driver/lock.ts` has the same shape.
* `OneLoopPerPlan` with two roots (`driver/driver.ts:101`): the tool's inline runs lock the plan
  under the framework's root, everybody else under the project's, so that two loops may work on the
  same tasks.
* `MapReachesModel` in `map_unseen` (`architecture-memory/index.ts:146`): the extension's own filter
  removes the message it has just injected, so that no model ever sees the index of the map.

These statements are in the modules too and are refuted by TLC when they are checked in their
scene, or in the run named; no run is kept for them:

| statement | module | why it fails |
| --- | --- | --- |
| `ReadyOncePerTransition` | `DurableScheduler` (as in `scheduler_solo`) | a step that waits for its retry is promoted again by the next pass, which appends a second `step_ready` (`scheduler.ts:341`; the plan of the scheduler says "exactly once per ready transition") |
| `CompletedStays` | `DurableScheduler` (two processes, no lock) | with two processes a completed record is written back from an older read (`scheduler-state.ts:70`); its work is not repeated without a record of it |
| `CompletedFilesCommitted` | `DriveRun` | a resume that finalizes the last task's commit or status ends the run without the state commit (`subcommand.ts:392`; `lib/driver/README.md:291-293`) |
| `FollowerMissesNothing` | `RunEvents` | two stores of one run cache their last numbers apart and give one number twice (`file-store.ts:598`): the reader's cursor passes an event it was never given. `RecordsKept` says that it misses nothing else |
| `DoneIsVerified` | `DriveRun` | a committed partial whose status cannot be written is left pending as if it were done (`drive-finalization.ts:239-249`), and a resume marks it Done (`subcommand.ts:1268`, `1544`) |
| `PlanFreedAlways` | `DriveLaunch` | `child.once("exit")` is registered after the awaited write of `run.pid` (`driver.ts:422-435`, `566`, `597`) and `exitCode` is never read: a process that ends earlier, without a result, is waited for without end |
| `HiddenFromOthers` | `AgentLookup` | the caller is looked up by its marker, which bindings redirect (`spawn-tool.ts:452`, `469-472`; `resolver.ts:214-223`, `291-300`): with role y bound to x, an agent of y spawns what x keeps to itself |
| `FilesBesideRecord` | `SessionLineage` | of a qualified role session and transcript are in `<plan>/<domain>` (`session-factory.ts:104`, `agent-spawner.ts:276-285`), the manifest in `<plan>/<plan>` (`manifest.ts:15`, `agent-spawner.ts:315`) |
| `SuccessMeansAllCompleted` | `ChainRun` | a deadline between two steps ends an inline chain as a success (`chain-runner.ts:291`) |
| `ReplacedIsKept` | `MemoryStore` | two writers of the profile at once keep neither version in between (`markdown-store.ts:304-317`) |
| `OnlyThisTurnsMemory` | `InjectedContext` | when there is nothing to inject, the memory of an earlier turn is shown, deleted records included |
| `NeverFalseCurrent` | `ArchitectureMap` | an edit between the analysis and the fingerprint is stamped as current (`generator.ts:71`) |
| `HeardInOrder` | `LiveActivity` | a message that is sent at once overtakes one that waits for the end of a turn |
## Proofs

TLAPS checks the theorems of eight modules for every value of the constants that satisfies the
assumptions of the module they are about (`SchedulerAssumption`, `SpawnAssumption`,
`LockAssumption`, `StoreAssumption`, `DriveAssumption`, `LaunchAssumption`): any graph or number of tasks, any set of
processes, any policy and any number of crashes. Some theorems have one hypothesis more, named
there: those of `DurableSchedulerSolo`, `DriveRunAlone` and `TaskStoreProofs`, and one of
`DriveLaunchProofs`. Every invariant below
was model-checked on the configuration of the component's run, or on smaller ones of the same
module, before it was proved.

* `TypeInvariant` (`Spec => []TypeOK`). `TypeOK` is not inductive by itself: an action that takes
  the first of a queue, or records a result, is well typed only because a pass at that place has a
  step in hand and a result. `InHand` says which places have one, and `TypeCorrect` proves
  `TypeOK /\ InHand` by one step per action, with the facts shared by several actions as lemmas.
* `NothingIsUnearned` (`Spec => []NothingUnearned`). Neither "dependencies succeeded before a
  start" nor "completed means all succeeded" is inductive, because a record is written back from
  memory by a process that may have read it long ago. `NothingUnearned` says that every place a
  claim can be in, the files, the views, the queue of steps to start, the backends' answers, the
  renewal in flight and the outcome being written, claims only what the backends have done, and
  `succeeded` only grows. It is inductive with the typing.
* `DependentsRunAfterSuccess` and `CompletionIsEarned` follow from it: two properties of
  `scheduler_solo`, here with and without the lock.
* `LockTypeCorrect` and `ExclusiveUntilADeath` (`FileLockProofs`, from `LockAssumption`): for any
  callers in any processes, at most one is inside the lock until the first process ends. The
  invariant adds to `MutualExclusion` that whoever is inside, or between the check and the unlink of
  its release, owns the file, and that nobody holds the lock for stale. After a death it fails with
  three callers, as `task_store_race` shows, so that the condition cannot be dropped; it can for two
  callers (`TwoCallersExclude`): one that lives and finds the owner dead is alone (`PairInv`).
* `TaskStoreProofs`, from `LockAssumption` and `StoreAssumption`. `LockKeepsIdsDistinct` and
  `LockKeepsTasks` have the hypothesis `[]MutualExclusion`; `KeptUntilADeath`, `TwoCallersKeepIds`
  and `TwoCallersKeepTasks` discharge it by the invariants of the lock. Neither property is
  inductive, since updates, deletions and archives take no lock. `StoreInv` follows an ID from its
  allocation to the last file that carries it: a task has an ID in a file, or in the hand of a call
  that will still write it (`Has`), and two tasks that have the same one are on record as
  overlapping (`IdsApart`). For the allocation to keep this, a creation must know the ID of every
  task it has yet to clear: each active file is still to be read, or its ID was read, or an update
  of its task is on record (`Knows`), since only an update moves a task to a name that was not
  listed; and what has left the active files before it was read is in the archive, which is listed
  last. `NoneLost` needs the same for the file an update replaces (`Kept`): the task is safe under
  the old name until the new file is full, where there is room for it whatever is archived or
  deleted in between; whoever else writes a name of this ID is another task with it, and so on
  record. `IdsCounted` bounds the IDs by the creations that were given one, which is why they stay
  in their type.
* `DurableSchedulerSolo`, under `Exclusive`: the hypothesis that a lock admits one process at a time,
  as the plan lock of Drive does. Without it none of this is claimed; what is left are
  `DependentsRunAfterSuccess` and `CompletionIsEarned`, which need no lock. `SoloInv` says that at most one process is in a pass and the others hold nothing;
  that its view is what the files hold wherever it decides from it, or, within a loop, what they
  hold of the steps yet to be examined; that the steps in its hand are its own and fit its limits;
  that every launched attempt but the last asked for another; and that an announced outcome is the
  one the records will always account for. A crash anywhere leaves the files in the same order,
  which is why the next process may start from them. From it follow `OutcomeIsOne`,
  `MutableStaysAlone`, `EventsAreTrue` and `WorkIsNotRepeated`.
* `RunImplementsStepGraph`, from the same invariant: `MarkReady` is `Enable` of the graph,
  `TakeLease` is `Start`, a promotion, a guard or a settled result is `Retry` or `End`, `SaveRun` is
  `Finish`, and every other action is not seen in the graph. The step that needs the invariant most
  is `Start`: the graph limits what runs and what shares a worktree, the code planned that earlier,
  from a view.
* `SpawnSessionProofs`, for any number of sessions and children and any nesting. `SpawnInv` says
  that whatever a parent was told, has in its buffer or is about to report agrees with the record in
  the tracker, that between them no settled child of a session that still runs is missing, and that
  a session waits only for an active child and with nothing unread. A late result or a timeout then
  finds a record that is settled and changes nothing: `VerdictsAgree`. `SlotsAreConserved`,
  `WaitingMissesNothing` and `NoWaiterDangles` are parts of it. `SpawnInv` does not say that
  everything buffered is delivered in the end; `spawn_lost` shows that it is not.
* `DriveRunProofs`, however command lines overlap. `DriveInv` says that the process in the graph
  holds the plan lock; that a task's step leaves "pending" once and its result accounts for its file,
  its changes and the steps behind it; and that a pending finalization, in the file or in the memory
  of a retry that read it long ago, is of work that `MayBeDone`: verified, or the status of a partial that
  is committed and that the run goes on after. A retry holds no plan lock, but touches only
  finalizers, which is why this survives every overlap. `EachGivenOnce`, `DoneMeansVerified` and
  `DoneMeansCommitted` follow.
* `DriveRunAlone`: the three properties that an overlap of a retry and a run would break, and which
  are stated with the history variable `alone`: no process was started while another was at work.
  `AloneInv` says that until then tasks are finished in order, the only work left open is the one
  that is pending, what a retry has in hand is that, what it leaves to the graph is all that is not
  done, and a completed run has nothing pending. `PartialsKept` adds
  that a task is Done only with a success of its agent or of its status finalizer, or while it is the one
  that is pending, so that a partial is not counted as done before its retry has passed. `CommitsHoldOwnWork`, `CompletedIsDone` and
  `CompletedFilesAreCommitted` follow. `AloneInv` is inductive only together with `DriveInv`.
* `DriveLaunchProofs`, for any launches of any runs, here or detached, and any number of deaths.
  `LaunchInv` says how far the launching code, the loop and its process may be apart (`InStep`); that
  until somebody is killed the owner of each lock is alive and in its loop, and whoever is there owns
  it (`Locked`); and that the launch alone with its run finds only its own work in the directory: a
  completion is what its loop wrote, or was written when no loop of it can write any more (`Own`).
  The last part is what an abort or a late writer would break, and one lemma (`StepKeeps`) carries it
  over every step of a launch, since nobody else at work can be of the same run. `OneLoopAtATime` has
  the hypothesis `SameRoot`, without which `drive_two_loops` refutes it; what then is left is
  `OneLoopPerRootHolds`. `ResultsStand` and `EndedRunsAreTold` follow too; `Asking` adds, for the reader, that the end it saw when it asked stays in the log
  until another launch of the run begins. A "deaf" host is treated as one that waits.

Only model-checked:

* Liveness (`SettlesOrDeadEnd`, `Settles`, `CreatesReturn` and the like): it rests on fairness, and
  so on `ENABLED`, which the prover does not treat.
* `IdsDistinct` and `NoTaskLost` of `TaskStore` for three callers after a death: `IdsDistinct` is
  false there (`task_store_race`), and `NoTaskLost` is claimed of no run with three.
* The properties of the scenes: several say what folds or recursive
  definitions compute over data, which needs induction the installed provers cannot do; the others
  are left to the plan.
* `PlanFreed` of `DriveLaunch`: it is about the states in which nothing is enabled.

The proof of a step showed one thing about the models: four operators chose with `CASE` between
guards that could hold together, which TLA+ leaves open. They choose in the order of the code now.

## Not modelled

`PROJECT.json` lists every component with its reason. In short: parsing, formatting and printing;
loading of static configuration; git, the catalog and the backends' child processes themselves; the
content of agent sessions; the pages of the artifact viewer that only render a file; what the projector of step records
writes for the events of the loop without a graph; of the modelled components, diagnostics, the snapshot `scheduler.json`, and damaged records.

## Plan

In this order; the first items carry most of the remaining risk.

1. Proofs about the other scenes that are state machines of their own, `MemoryStore` first.
2. The rebuilding of step records from events (`durable-steps.ts`) and notes of the memory store.
