----------------------------- MODULE DriveLaunch -----------------------------
(***************************************************************************)
(* How a Drive run is launched, watched and asked about.  The run_driver   *)
(* tool of a session and the command line launch runs of one plan, in      *)
(* their own process or in a detached one, and the command line resumes    *)
(* them.  Whoever runs the loop holds the plan lock meanwhile.  The files  *)
(* of a run's directory say what became of it: run.completion.json,        *)
(* run.pid, run.inline.json and events.jsonl; `run status` reads them one  *)
(* after the other.  The tool waits for a detached run by polling for its  *)
(* completion.                                                             *)
(*                                                                         *)
(* What the loop does between its first and its last event is the subject  *)
(* of module DriveRun.  The lock file is created by a link and so at once; *)
(* reading it, and removing one whose owner is dead, are steps of their    *)
(* own.  Left out: what is rendered and compiled before a process starts,  *)
(* episodes, and process numbers that are used again.                      *)
(***************************************************************************)
EXTENDS Integers, Sequences, SequencesExt

CONSTANTS
  Launch,     \* invocations of the tool or of the command line
  Run,        \* runs: directories under missions/sessions/<plan>/runs
  RunOf,      \* the run each launch starts or resumes
  Tool,       \* launches by the run_driver tool of the one session
  Detached,   \* launches in a detached process
  SameRoot,   \* the framework is installed in the project it drives
  Results,    \* bound: the outcomes that loops end with
  Asked,      \* bound: the runs `run status` is asked about, once in all
  MaxDeaths   \* bound: processes that are killed

None == "none"

LaunchAssumption ==
  /\ RunOf \in [Launch -> Run] /\ None \notin Launch \cup Run
  /\ Tool \subseteq Launch /\ Detached \subseteq Launch
  /\ SameRoot \in BOOLEAN /\ MaxDeaths \in Nat /\ Asked \subseteq Run

Outcome == {"completed", "blocked", "aborted", "finalization_failed"}
Terminal == {"run_completed", "run_aborted", "run_finalization_failed"}
Root == {"project", "framework"}

VARIABLES
  host,        \* where the launching code is
  driver,      \* where the code that runs the loop is
  process,     \* the process that runs the loop: unborn, alive or gone
  outcome,     \* what the loop returned
  seen,        \* what the tool found a detached run to have ended with
  planLock,    \* the content of driver.lock under each root
  completion,  \* run.completion.json
  pidFile,     \* the launch run.pid tells of
  inlineFile,  \* the launch run.inline.json tells of
  log,         \* the run events of events.jsonl
  active,      \* activeRuns of the tool, for this plan
  reader,      \* cosmonauts run status: where it is
  told,        \* and what it printed
  result,      \* history: what the loop of each launch wrote as its result
  latest,      \* history: the last launch of each run
  alone,       \* history: launches of a run nobody else was at work on
  deaths       \* processes killed so far

launching == <<host, seen, active>>
looping == <<driver, process, outcome>>
files == <<completion, pidFile, inlineFile, log>>
asking == <<reader, told>>
history == <<result, latest, alone, deaths>>
launchVars == <<launching, looping, planLock, files, asking, history>>

Inline(l) == l \notin Detached
Others(l) == {k \in Launch \ {l} : RunOf[k] = RunOf[l]}
Begun(l) == host[l] # "none"
Over(l) == host[l] = "done" /\ driver[l] \in {"none", "over"}
Working(l) == driver[l] \in {"drive", "running", "ended", "wrote", "written"}

\* The tool runs inline under the framework's root, everybody else under the
\* project's.
LockRoot(l) ==
  IF l \in Tool /\ Inline(l) /\ ~SameRoot THEN "framework" ELSE "project"
Alive(l) == process[l] = "alive"

HostAt(l, at) == host' = [host EXCEPT ![l] = at]
DriverAt(l, at) == driver' = [driver EXCEPT ![l] = at]
Write(l, what) == completion' = [completion EXCEPT ![RunOf[l]] = what]
Emit(l, e) == log' = [log EXCEPT ![RunOf[l]] = Append(@, e)]

------------------------------------------------------------------------------
(* Launching.                                                              *)

\* The tool refuses a plan for which this session has a run going.
ToolRefused(l) ==
  /\ l \in Tool /\ host[l] = "none" /\ active # None
  /\ HostAt(l, "done")
  /\ UNCHANGED <<active, seen, looping, planLock, files, asking, history>>

\* Its runs are new.
ToolStart(l) ==
  /\ l \in Tool /\ host[l] = "none" /\ active = None
  /\ ~\E k \in Others(l) : Begun(k)
  /\ active' = l
  /\ alone' = alone \cup {l}
  /\ latest' = [latest EXCEPT ![RunOf[l]] = l]
  /\ HostAt(l, "prepare")
  /\ UNCHANGED <<seen, looping, planLock, files, asking, result, deaths>>

\* The loop of an inline run starts in the process at hand.
StartHere(l) ==
  /\ inlineFile' = [inlineFile EXCEPT ![RunOf[l]] = l]
  /\ DriverAt(l, "lock")
  /\ process' = [process EXCEPT ![l] = "alive"]
  /\ HostAt(l, "wait")

StartElsewhere(l) ==
  HostAt(l, "launch") /\ UNCHANGED <<inlineFile, driver, process>>

ToolPrepares(l) ==
  /\ host[l] = "prepare"
  /\ IF Inline(l) THEN StartHere(l) ELSE StartElsewhere(l)
  /\ UNCHANGED <<active, seen, outcome, planLock, completion, pidFile, log,
                 asking, history>>

\* Resolving the tasks, the runtime or the backend fails; an inline run whose
\* directory is there already gets an aborted result.
PrepareFails(l) ==
  /\ host[l] = "prepare"
  /\ active' = IF active = l THEN None ELSE active
  /\ \/ Inline(l) /\ Write(l, "aborted")
     \/ UNCHANGED completion
  /\ HostAt(l, "done")
  /\ UNCHANGED <<seen, looping, planLock, pidFile, inlineFile, log, asking,
                 history>>

\* cosmonauts run drive, or its --resume of a run that did not complete: the
\* terminal result of the run is removed before anything else happens.
CliStart(l) ==
  /\ l \notin Tool /\ host[l] = "none" /\ completion[RunOf[l]] # "completed"
  /\ Write(l, None)
  /\ alone' = IF \A k \in Others(l) : Begun(k) => Over(k)
              THEN alone \cup {l} ELSE alone \ Others(l)
  /\ latest' = [latest EXCEPT ![RunOf[l]] = l]
  /\ IF Inline(l) THEN StartHere(l) ELSE StartElsewhere(l)
  /\ UNCHANGED <<active, seen, outcome, planLock, pidFile, log, asking, result,
                 deaths>>

\* run.sh is executed and replaced by the step binary.
SpawnChild(l) ==
  /\ host[l] = "launch"
  /\ process' = [process EXCEPT ![l] = "alive"]
  /\ DriverAt(l, "lock")
  /\ HostAt(l, "spawned")
  /\ UNCHANGED <<active, seen, outcome, planLock, files, asking, history>>

\* The command line is done then; the tool waits for the result, and listens
\* for the exit of the process, of which it hears once: if it has come while
\* run.pid was written, nobody will tell.
WritePid(l) ==
  /\ host[l] = "spawned"
  /\ pidFile' = [pidFile EXCEPT ![RunOf[l]] = l]
  /\ \/ HostAt(l, IF l \in Tool THEN "wait" ELSE "done")
     \/ l \in Tool /\ process[l] = "gone" /\ HostAt(l, "deaf")
  /\ UNCHANGED <<active, seen, looping, planLock, completion, inlineFile, log,
                 asking, history>>

------------------------------------------------------------------------------
(* The plan lock (acquirePlanLock) and the loop.                           *)

TakeLock(l, otherwise) ==
  IF planLock[LockRoot(l)] = None
    THEN /\ planLock' = [planLock EXCEPT ![LockRoot(l)] = l]
         /\ DriverAt(l, "drive")
    ELSE /\ DriverAt(l, otherwise)
         /\ UNCHANGED planLock

TryLock(l) ==
  /\ driver[l] = "lock"
  /\ TakeLock(l, "read lock")
  /\ UNCHANGED <<launching, process, outcome, files, asking, history>>

\* Mutant: the lock of the own process is taken for a stale one.
ReadLockOfOthers(l) ==
  /\ driver[l] = "read lock"
  /\ LET owner == planLock[LockRoot(l)] IN
     DriverAt(l, CASE owner = None                               -> "lock again"
                 [] owner # None /\ Alive(owner) /\ owner \notin Tool -> "refused"
                 [] OTHER                                      -> "break")
  /\ UNCHANGED <<launching, process, outcome, planLock, files, asking, history>>

ReadLock(l) ==
  /\ driver[l] = "read lock"
  /\ LET owner == planLock[LockRoot(l)] IN
     DriverAt(l, CASE owner = None                  -> "lock again"
                 [] owner # None /\ Alive(owner)   -> "refused"
                 [] OTHER                         -> "break")
  /\ UNCHANGED <<launching, process, outcome, planLock, files, asking, history>>

BreakLock(l) ==
  /\ driver[l] = "break"
  /\ planLock' = [planLock EXCEPT ![LockRoot(l)] = None]
  /\ DriverAt(l, "lock again")
  /\ UNCHANGED <<launching, process, outcome, files, asking, history>>

RetryLock(l) ==
  /\ driver[l] = "lock again"
  /\ TakeLock(l, "refused")
  /\ UNCHANGED <<launching, process, outcome, files, asking, history>>

\* A detached process ends then and leaves no result; inline, the caller is told.
Exits(l) ==
  process' = IF Inline(l) THEN process ELSE [process EXCEPT ![l] = "gone"]

Refused(l) ==
  /\ driver[l] = "refused"
  /\ outcome' = [outcome EXCEPT ![l] = "thrown"]
  /\ DriverAt(l, "over")
  /\ Exits(l)
  /\ UNCHANGED <<launching, planLock, files, asking, history>>

BeginLoop(l) ==
  /\ driver[l] = "drive"
  /\ Emit(l, "run_started")
  /\ DriverAt(l, "running")
  /\ UNCHANGED <<launching, process, outcome, planLock, completion, pidFile,
                 inlineFile, asking, history>>

\* Mutant: a blocked run is announced as such.
EventOfBlocked(o) ==
  CASE o = "completed"           -> "run_completed"
    [] o = "finalization_failed" -> "run_finalization_failed"
    [] o = "blocked"             -> "run_blocked"
    [] OTHER                     -> "run_aborted"

\* emitTerminalLegacyEvent: a blocked run is announced as an aborted one.
EventOf(o) ==
  CASE o = "completed"           -> "run_completed"
    [] o = "finalization_failed" -> "run_finalization_failed"
    [] OTHER                     -> "run_aborted"

EndLoop(l) ==
  /\ driver[l] = "running"
  /\ \E o \in Results \cap Outcome :
       /\ outcome' = [outcome EXCEPT ![l] = o]
       /\ Emit(l, EventOf(o))
  /\ DriverAt(l, "ended")
  /\ UNCHANGED <<launching, process, planLock, completion, pidFile, inlineFile,
                 asking, history>>

\* The loop throws: it says so in the log and writes no completion.
LoopThrows(l) ==
  /\ driver[l] \in {"drive", "running"}
  /\ outcome' = [outcome EXCEPT ![l] = "thrown"]
  /\ Emit(l, "run_aborted")
  /\ DriverAt(l, "written")
  /\ UNCHANGED <<launching, process, planLock, completion, pidFile, inlineFile,
                 asking, history>>

\* The log cannot be written: aborted, with no terminal event.
LogFails(l) ==
  /\ driver[l] \in {"drive", "running"}
  /\ outcome' = [outcome EXCEPT ![l] = "aborted"]
  /\ DriverAt(l, "ended")
  /\ UNCHANGED <<launching, process, planLock, files, asking, history>>

\* runDriveOnGraph writes the completion, run-step writes it once more.
WriteResult(l) ==
  /\ driver[l] \in {"ended", "wrote"}
  /\ Write(l, outcome[l])
  /\ result' = [result EXCEPT ![l] = outcome[l]]
  /\ DriverAt(l, IF driver[l] = "ended" /\ ~Inline(l) THEN "wrote" ELSE "written")
  /\ UNCHANGED <<launching, process, outcome, planLock, pidFile, inlineFile,
                 log, asking, alone, latest, deaths>>

\* The lock is released by whoever it names; a detached process then exits.
ReleaseLock(l) ==
  /\ driver[l] = "written"
  /\ planLock' = IF planLock[LockRoot(l)] = l
                 THEN [planLock EXCEPT ![LockRoot(l)] = None] ELSE planLock
  /\ DriverAt(l, "over")
  /\ Exits(l)
  /\ UNCHANGED <<launching, outcome, files, asking, history>>

------------------------------------------------------------------------------
(* What the launching code does when the loop is over.                     *)

Aborted(o) == IF o = "thrown" THEN "aborted" ELSE o

\* The tool forgets the run and writes the result, or that it was aborted; the
\* command line writes what it caught, or a result that is not there yet.
FinishInline(l) ==
  /\ Inline(l) /\ host[l] = "wait" /\ driver[l] = "over"
  /\ active' = IF active = l THEN None ELSE active
  /\ IF l \in Tool \/ outcome[l] = "thrown" \/ completion[RunOf[l]] = None
       THEN Write(l, Aborted(outcome[l]))
       ELSE UNCHANGED completion
  /\ HostAt(l, "done")
  /\ IF l \in Tool THEN UNCHANGED process
     ELSE process' = [process EXCEPT ![l] = "gone"]
  /\ UNCHANGED <<driver, seen, outcome, planLock, pidFile, inlineFile, log,
                 asking, history>>

\* startDetached removes run.pid whatever the waiting ended with.
Saw(l, o) ==
  /\ seen' = [seen EXCEPT ![l] = o]
  /\ pidFile' = [pidFile EXCEPT ![RunOf[l]] = None]
  /\ HostAt(l, "finish")

Waiting(l) == host[l] \in {"wait", "deaf"} /\ ~Inline(l)

\* waitForCompletion finds the file.
SeeCompletion(l) ==
  /\ Waiting(l) /\ completion[RunOf[l]] # None
  /\ Saw(l, completion[RunOf[l]])
  /\ UNCHANGED <<active, looping, planLock, completion, inlineFile, log,
                 asking, history>>

\* Mutant: whoever waits is told of a completion only.
SeeNoExit(l) == SeeCompletion(l)

\* waitForUnexpectedExit: the process ends while the tool listens, and half a
\* second later there is still no completion.
SeeExit(l) ==
  /\ Waiting(l) /\ host[l] # "deaf" /\ process[l] = "gone" /\ completion[RunOf[l]] = None
  /\ Saw(l, "thrown")
  /\ UNCHANGED <<active, looping, planLock, completion, inlineFile, log,
                 asking, history>>

\* The tool forgets the run and writes what it saw.
FinishDetached(l) ==
  /\ host[l] = "finish"
  /\ active' = IF active = l THEN None ELSE active
  /\ Write(l, Aborted(seen[l]))
  /\ HostAt(l, "done")
  /\ UNCHANGED <<seen, looping, planLock, pidFile, inlineFile, log, asking,
                 history>>

WriteAborted(l) ==
  IF completion[RunOf[l]] = None THEN Write(l, "aborted") ELSE UNCHANGED completion

\* abort() of a detached handle before it has a process: the launch throws at
\* its next step.
AbortLaunch(l) ==
  /\ l \in Tool /\ host[l] = "launch"
  /\ WriteAborted(l)
  /\ Saw(l, "thrown")
  /\ UNCHANGED <<active, looping, planLock, inlineFile, log, asking, history>>

\* With a process: the bridge stops, SIGTERM, and its exit is waited for.
AbortChild(l) ==
  /\ l \in Tool /\ Waiting(l) /\ deaths < MaxDeaths
  /\ process' = [process EXCEPT ![l] = "gone"]
  /\ DriverAt(l, "over")
  /\ HostAt(l, "killed")
  /\ deaths' = deaths + 1
  /\ UNCHANGED <<active, seen, outcome, planLock, files, asking, result, alone,
                 latest>>

\* Mutant: the abort is written over what the process had written.
AbortOverwrites(l) ==
  /\ host[l] = "killed"
  /\ Write(l, "aborted")
  /\ HostAt(l, "wait")
  /\ UNCHANGED <<active, seen, looping, planLock, pidFile, inlineFile, log,
                 asking, history>>

\* An aborted result is written unless the process had written its own.
AbortWrites(l) ==
  /\ host[l] = "killed"
  /\ WriteAborted(l)
  /\ HostAt(l, "wait")
  /\ UNCHANGED <<active, seen, looping, planLock, pidFile, inlineFile, log,
                 asking, history>>

------------------------------------------------------------------------------
(* cosmonauts run status (classifyRunDir) reads one file after the other.   *)

NotAsking == [at |-> "idle", run |-> None, of |-> None, over |-> None]
NothingTold == [run |-> None, status |-> None, over |-> None]

Tell(status) ==
  /\ told' = [run |-> reader.run, status |-> status, over |-> reader.over]
  /\ reader' = NotAsking

Ended(r) == Len(log[r]) > 0 /\ log[r][Len(log[r])] \in Terminal

Behind(l) == driver[l] \in {"ended", "wrote", "written", "over"}

StatusOf(e) ==
  CASE e = "run_completed"           -> "completed"
    [] e = "run_aborted"             -> "aborted"
    [] e = "run_finalization_failed" -> "finalization_failed"

\* "over" is history: the launch whose end was in the log when it was asked.
Ask(r) ==
  LET over == IF Ended(r) /\ latest[r] # None /\ Behind(latest[r])
              THEN latest[r] ELSE None
  IN
  /\ reader.at = "idle" /\ told = NothingTold
  /\ IF completion[r] # None
       THEN told' = [run |-> r, status |-> completion[r], over |-> over]
            /\ UNCHANGED reader
       ELSE reader' = [at |-> "files", run |-> r, of |-> None, over |-> over]
            /\ told' = NothingTold
  /\ UNCHANGED <<launching, looping, planLock, files, history>>

\* run.pid comes before run.inline.json.
ReadFiles ==
  /\ reader.at = "files"
  /\ LET of == IF pidFile[reader.run] # None THEN pidFile[reader.run]
               ELSE inlineFile[reader.run]
     IN  IF of = None THEN Tell("run_state_not_found")
         ELSE reader' = [reader EXCEPT !.at = "events", !.of = of] /\ UNCHANGED told
  /\ UNCHANGED <<launching, looping, planLock, files, history>>

\* Mutant: the log is not looked at.
ReadNoEvents ==
  /\ reader.at = "events"
  /\ reader' = [reader EXCEPT !.at = "alive"] /\ UNCHANGED told
  /\ UNCHANGED <<launching, looping, planLock, files, history>>

ReadEvents ==
  /\ reader.at = "events"
  /\ IF Ended(reader.run) THEN Tell(StatusOf(log[reader.run][Len(log[reader.run])]))
     ELSE reader' = [reader EXCEPT !.at = "alive"] /\ UNCHANGED told
  /\ UNCHANGED <<launching, looping, planLock, files, history>>

CheckProcess ==
  /\ reader.at = "alive"
  /\ Tell(IF Alive(reader.of) THEN "running" ELSE "dead")
  /\ UNCHANGED <<launching, looping, planLock, files, history>>

------------------------------------------------------------------------------
(* Processes that are killed.                                              *)

Die(l) ==
  /\ l \notin Tool \/ ~Inline(l)
  /\ Alive(l) /\ deaths < MaxDeaths
  /\ process' = [process EXCEPT ![l] = "gone"]
  /\ DriverAt(l, "over")
  /\ IF Inline(l) THEN HostAt(l, "done") ELSE UNCHANGED host
  /\ deaths' = deaths + 1
  /\ UNCHANGED <<active, seen, outcome, planLock, files, asking, result, alone,
                 latest>>

\* The session takes its inline run with it; a detached one goes on.
SessionDies ==
  /\ deaths < MaxDeaths /\ active # None
  /\ deaths' = deaths + 1
  /\ active' = None
  /\ host' = [l \in Launch |-> IF l \in Tool THEN "done" ELSE host[l]]
  /\ driver' = [l \in Launch |->
                 IF l \in Tool /\ Inline(l) /\ Alive(l) THEN "over" ELSE driver[l]]
  /\ process' = [l \in Launch |->
                  IF l \in Tool /\ Inline(l) /\ Alive(l) THEN "gone" ELSE process[l]]
  /\ UNCHANGED <<outcome, seen, planLock, files, asking, result, alone, latest>>

Init ==
  /\ host = [l \in Launch |-> "none"] /\ active = None
  /\ driver = [l \in Launch |-> "none"] /\ process = [l \in Launch |-> "unborn"]
  /\ outcome = [l \in Launch |-> None] /\ seen = [l \in Launch |-> None]
  /\ planLock = [t \in Root |-> None]
  /\ completion = [r \in Run |-> None] /\ pidFile = [r \in Run |-> None]
  /\ inlineFile = [r \in Run |-> None] /\ log = [r \in Run |-> <<>>]
  /\ reader = NotAsking /\ told = NothingTold
  /\ result = [l \in Launch |-> None] /\ alone = {} /\ deaths = 0
  /\ latest = [r \in Run |-> None]

Loop(l) ==
  \/ TryLock(l) \/ ReadLock(l) \/ BreakLock(l) \/ RetryLock(l) \/ Refused(l)
  \/ BeginLoop(l) \/ EndLoop(l) \/ LoopThrows(l) \/ LogFails(l)
  \/ WriteResult(l) \/ ReleaseLock(l)

Hosting(l) ==
  \/ ToolPrepares(l) \/ PrepareFails(l)
  \/ SpawnChild(l) \/ WritePid(l) \/ FinishInline(l) \/ SeeCompletion(l)
  \/ SeeExit(l) \/ FinishDetached(l) \/ AbortWrites(l)

Next ==
  \/ \E l \in Launch :
       \/ ToolRefused(l) \/ ToolStart(l) \/ CliStart(l) \/ Hosting(l) \/ Loop(l)
       \/ AbortLaunch(l) \/ AbortChild(l) \/ Die(l)
  \/ \E r \in Asked : Ask(r)
  \/ ReadFiles \/ ReadEvents \/ CheckProcess
  \/ SessionDies

Spec == Init /\ [][Next]_launchVars

Goes(l) == Hosting(l) \/ Loop(l)

------------------------------------------------------------------------------
TypeOK ==
  /\ host \in [Launch -> {"none", "prepare", "launch", "spawned", "wait", "deaf", "killed", "finish", "done"}]
  /\ driver \in [Launch -> {"none", "lock", "read lock", "break", "lock again",
                           "refused", "drive", "running", "ended", "wrote",
                           "written", "over"}]
  /\ process \in [Launch -> {"unborn", "alive", "gone"}]
  /\ outcome \in [Launch -> Outcome \cup {None, "thrown"}]
  /\ seen \in [Launch -> Outcome \cup {None, "thrown"}]
  /\ planLock \in [Root -> Launch \cup {None}]
  /\ completion \in [Run -> Outcome \cup {None}]
  /\ pidFile \in [Run -> Launch \cup {None}] /\ inlineFile \in [Run -> Launch \cup {None}]
  /\ \A r \in Run : \A i \in DOMAIN log[r] : log[r][i] \in Terminal \cup {"run_started"}
  /\ active \in Tool \cup {None}
  /\ deaths \in 0..MaxDeaths

\* One loop at a time works on the tasks of the plan, whoever launched it and
\* however, as long as nobody was killed (a lock that is found stale by two at
\* once may be removed twice).
OneLoop == \A k, l \in Launch : Working(k) /\ Working(l) => k = l
OneLoopPerPlan == deaths = 0 => OneLoop

\* What the loop wrote as its result is the run's result when all is over: no
\* abort, no late writer and no launch that was refused replaces it.
ResultStands ==
  \A r \in Run :
    LET l == latest[r] IN
    l # None => (l \in alone /\ Over(l) /\ result[l] # None => completion[r] = result[l])

\* Who asks after a run's loop has said that it ended is not told that the run
\* goes on or is dead, whatever is written meanwhile.
EndedIsTold ==
  told.run # None =>
    (told.over # None /\ told.over = latest[told.run] /\ told.over \in alone
       => told.status \notin {"running", "dead"})

\* A run that the tool started does not keep the plan from being run again:
\* once the loops and those who launched them can go no further, however they
\* ended and whoever was killed, the tool has forgotten its run.  Exempt is a
\* process that ended, without a result, before the tool listened for its exit.
PlanFreed ==
  (\A l \in Launch : ~ENABLED Goes(l)) => active = None \/ host[active] = "deaf"

\* Not what holds: in the end the tool has always forgotten its run.
PlanFreedAlways == (\A l \in Launch : ~ENABLED Goes(l)) => active = None

=============================================================================
