--------------------------- MODULE DriveLaunchProofs ---------------------------
(* Theorems about how runs of a plan are launched, for any launches of any *)
(* runs by the tool and the command line, here or detached, and any number *)
(* of processes that are killed.                                           *)
EXTENDS DriveLaunch, SequenceTheorems, TLAPS

------------------------------------------------------------------------------
(* The inductive invariant.                                                *)

Steps == {"lock", "read lock", "break", "lock again", "refused", "drive", "running", "ended",
          "wrote", "written"}

\* The types, with the history and the reader, which TypeOK leaves out.
LaunchTypes ==
  /\ host \in [Launch -> {"none", "prepare", "launch", "spawned", "wait", "deaf", "killed",
                         "finish", "done"}]
  /\ driver \in [Launch -> {"none", "over"} \cup Steps]
  /\ process \in [Launch -> {"unborn", "alive", "gone"}]
  /\ outcome \in [Launch -> Outcome \cup {None, "thrown"}]
  /\ seen \in [Launch -> Outcome \cup {None, "thrown"}]
  /\ planLock \in [Root -> Launch \cup {None}]
  /\ completion \in [Run -> Outcome \cup {None}]
  /\ pidFile \in [Run -> Launch \cup {None}] /\ inlineFile \in [Run -> Launch \cup {None}]
  /\ log \in [Run -> Seq(Terminal \cup {"run_started"})]
  /\ active \in Tool \cup {None}
  /\ result \in [Launch -> Outcome \cup {None}] /\ latest \in [Run -> Launch \cup {None}]
  /\ alone \in SUBSET Launch /\ deaths \in 0..MaxDeaths

AskTypes ==
  /\ reader \in [at: {"idle", "files", "events", "alive"}, run: Run \cup {None},
                 of: Launch \cup {None}, over: Launch \cup {None}]
  /\ reader.at # "idle" => reader.run \in Run
  /\ told \in [run: Run \cup {None}, over: Launch \cup {None},
               status: Outcome \cup {None, "running", "dead", "run_state_not_found"}]

\* Where the launching code, the code of the loop and its process are at the
\* same time, and what is in their hands.
InStep(l) ==
  /\ host[l] \in {"none", "prepare", "launch"} => driver[l] = "none"
  /\ host[l] \in {"launch", "spawned", "killed", "finish"} => ~Inline(l)
  /\ host[l] = "prepare" => l \in Tool
  /\ host[l] = "killed" => driver[l] = "over"
  /\ driver[l] \in Steps => process[l] = "alive"
  /\ process[l] = "gone" => driver[l] = "over"
  /\ driver[l] = "none" => process[l] = "unborn"
  /\ driver[l] \in {"ended", "wrote"} => outcome[l] \in Outcome
  /\ driver[l] = "written" => outcome[l] # None
  /\ host[l] = "wait" /\ driver[l] = "over" /\ Inline(l) => outcome[l] # None
  /\ host[l] = "finish" => seen[l] # None
  /\ result[l] # None => driver[l] \in {"wrote", "written", "over"} /\ result[l] = outcome[l]
  /\ Inline(l) /\ driver[l] \in Steps => host[l] = "wait"
  /\ process[l] = "alive" /\ driver[l] = "over" => Inline(l) /\ (l \in Tool \/ host[l] = "wait")

\* Until somebody is killed, who holds a lock is alive and in its loop.
Locked ==
  deaths = 0 =>
    /\ \A l \in Launch : driver[l] # "break"
    /\ \A l \in Launch : Working(l) => planLock[LockRoot(l)] = l
    /\ \A t \in Root : planLock[t] # None => Working(planLock[t]) /\ LockRoot(planLock[t]) = t

\* Runs begin with a launch.
Launched ==
  /\ \A r \in Run :
       /\ latest[r] # None => RunOf[latest[r]] = r /\ Begun(latest[r])
       /\ completion[r] # None => \E l \in Launch : RunOf[l] = r /\ Begun(l)
  /\ \A l \in alone : Begun(l)

\* The launch of a run that is alone with it.
Sole(l) == latest[RunOf[l]] = l /\ l \in alone

\* Nobody else is at work on its run, and what it finds in the directory is
\* its own work.
Mine(l) ==
  LET r == RunOf[l] IN
  /\ result[l] # None => completion[r] = result[l]
  /\ result[l] = None /\ completion[r] # None =>
       driver[l] = "over" \/ (driver[l] = "none" /\ host[l] \in {"finish", "done"})
  /\ host[l] = "finish" =>
       \/ seen[l] = completion[r] /\ (result[l] = None => driver[l] \in {"none", "over"})
       \/ seen[l] = "thrown" /\ result[l] = None /\ driver[l] \in {"none", "over"}

Own(l) == Sole(l) => Mine(l) /\ \A k \in Others(l) : Begun(k) => Over(k)

\* Who asks after the end of a run finds it in the log, as long as no other
\* launch of the run begins.
Asking ==
  /\ reader.over # None =>
       /\ Begun(reader.over) /\ reader.run \in Run /\ RunOf[reader.over] = reader.run
       /\ Sole(reader.over) => /\ Ended(reader.run) /\ Behind(reader.over)
                               /\ reader.at # "alive"
  /\ told.over # None =>
       /\ Begun(told.over) /\ told.run \in Run /\ RunOf[told.over] = told.run
       /\ Sole(told.over) => told.status \notin {"running", "dead"}

LaunchInv ==
  /\ LaunchTypes /\ AskTypes /\ Locked /\ Launched /\ Asking
  /\ \A l \in Launch : InStep(l) /\ Own(l)


------------------------------------------------------------------------------
(* What a step leaves alone.                                               *)

\* A step of a launch changes only what is in its own hands, and the files of
\* its own run.
OnlyAt(l) ==
  \A k \in Launch \ {l} :
    /\ host'[k] = host[k] /\ driver'[k] = driver[k] /\ process'[k] = process[k]
    /\ outcome'[k] = outcome[k] /\ seen'[k] = seen[k] /\ result'[k] = result[k]

RunOnly(l) ==
  \A r \in Run \ {RunOf[l]} : completion'[r] = completion[r] /\ log'[r] = log[r]

LEMMA OthersStepped ==
  ASSUME NEW l \in Launch, NEW k \in Launch \ {l}, OnlyAt(l)
  PROVE  /\ InStep(k) => InStep(k)'
         /\ (Begun(k)' <=> Begun(k)) /\ (Over(k)' <=> Over(k)) /\ (Behind(k)' <=> Behind(k))
         /\ (Working(k)' <=> Working(k))
BY DEF OnlyAt, InStep, Begun, Over, Behind, Working, Inline

LEMMA EmitTypes ==
  ASSUME LaunchTypes, NEW l \in Launch, NEW e \in Terminal \cup {"run_started"}, Emit(l, e)
  PROVE  log' \in [Run -> Seq(Terminal \cup {"run_started"})]
<1>1. log \in [Run -> Seq(Terminal \cup {"run_started"})]
      BY DEF LaunchTypes
<1>2. ASSUME RunOf[l] \in Run
      PROVE  Append(log[RunOf[l]], e) \in Seq(Terminal \cup {"run_started"})
      BY <1>1, <1>2
<1>3. QED
      BY <1>1, <1>2 DEF Emit

\* A launch of another run keeps what it has.
LEMMA OthersKeep ==
  ASSUME LaunchAssumption, NEW l \in Launch, NEW k \in Launch, RunOf[k] # RunOf[l], OnlyAt(l),
         RunOnly(l), Mine(k)
  PROVE  Mine(k)'
<1>1. k # l /\ RunOf[k] \in Run
      BY DEF LaunchAssumption
<1>2. QED
      BY <1>1 DEF OnlyAt, RunOnly, Mine

\* The locks stay held by the same launches.
LEMMA LockKeeps ==
  ASSUME LaunchInv, NEW l \in Launch, OnlyAt(l), UNCHANGED <<planLock, deaths>>,
         Working(l)' <=> Working(l), driver'[l] = driver[l] \/ driver'[l] # "break"
  PROVE  Locked'
<1>1. SUFFICES ASSUME deaths = 0 PROVE Locked'
      BY DEF Locked
<1>2. \A k \in Launch : Working(k)' <=> Working(k)
      BY OthersStepped
<1>3. \A k \in Launch : driver'[k] # "break"
      BY <1>1 DEF LaunchInv, Locked, OnlyAt
<1>4. \A k : LockRoot(k)' = LockRoot(k)
      BY DEF LockRoot, Inline
<1>5. \A t \in Root : planLock[t] # None => planLock[t] \in Launch
      BY DEF LaunchInv, LaunchTypes
<1>6. QED
      BY <1>1, <1>2, <1>3, <1>4, <1>5 DEF LaunchInv, Locked

LEMMA TakeTypes ==
  ASSUME LaunchTypes, NEW l \in Launch, NEW o \in Steps, TakeLock(l, o)
  PROVE  /\ driver' \in [Launch -> {"none", "over"} \cup Steps]
         /\ planLock' \in [Root -> Launch \cup {None}]
         /\ \A k \in Launch \ {l} : driver'[k] = driver[k]
<1>1. /\ driver \in [Launch -> {"none", "over"} \cup Steps]
      /\ planLock \in [Root -> Launch \cup {None}]
      BY DEF LaunchTypes
<1>2. \E w \in Steps : driver' = [driver EXCEPT ![l] = w]
      BY DEF TakeLock, DriverAt, Steps
<1>3. planLock' = planLock \/ planLock' = [planLock EXCEPT ![LockRoot(l)] = l]
      BY DEF TakeLock
<1>4. QED
      BY <1>1, <1>2, <1>3

\* A free lock is taken, and stays held until it is given back.
LEMMA LockTaken ==
  ASSUME LaunchAssumption, LaunchInv, NEW l \in Launch, NEW o \in {"read lock", "refused"},
         TakeLock(l, o), OnlyAt(l), UNCHANGED deaths, ~Working(l)
  PROVE  Locked'
<1>1. SUFFICES ASSUME deaths = 0 PROVE Locked'
      BY DEF Locked
<1>2. \A k : LockRoot(k) \in Root /\ LockRoot(k)' = LockRoot(k)
      BY DEF LockRoot, Root, Inline
<1>3. /\ driver \in [Launch -> {"none", "over"} \cup Steps] /\ None \notin Launch
      /\ planLock \in [Root -> Launch \cup {None}]
      BY DEF LaunchInv, LaunchTypes, LaunchAssumption
<1>4. CASE planLock[LockRoot(l)] # None
  <2>1. planLock' = planLock /\ driver'[l] = o /\ ~Working(l)'
        BY <1>3, <1>4 DEF TakeLock, DriverAt, Working
  <2>2. QED
        BY <2>1, LockKeeps
<1>5. CASE planLock[LockRoot(l)] = None
  <2>1. planLock' = [planLock EXCEPT ![LockRoot(l)] = l] /\ driver'[l] = "drive"
        BY <1>3, <1>5 DEF TakeLock, DriverAt
  <2>2. Working(l)' /\ \A k \in Launch \ {l} : Working(k)' <=> Working(k)
        BY <2>1, OthersStepped DEF Working
  <2>3. /\ \A k \in Launch : driver[k] # "break"
        /\ \A k \in Launch : Working(k) => planLock[LockRoot(k)] = k
        /\ \A t \in Root : planLock[t] # None =>
             planLock[t] \in Launch /\ Working(planLock[t]) /\ LockRoot(planLock[t]) = t
        BY <1>1, <1>3 DEF LaunchInv, Locked
  <2>4. \A k \in Launch : driver'[k] # "break"
        BY <2>1, <2>3 DEF OnlyAt
  <2>5. ASSUME NEW k \in Launch, Working(k)' PROVE planLock'[LockRoot(k)] = k
    <3>1. CASE k = l
          BY <1>2, <1>3, <2>1, <3>1
    <3>2. CASE k # l
      <4>1. planLock[LockRoot(k)] = k /\ LockRoot(k) # LockRoot(l)
            BY <1>3, <1>5, <2>2, <2>3, <2>5, <3>2
      <4>2. QED
            BY <1>2, <1>3, <2>1, <4>1
    <3>3. QED
          BY <3>1, <3>2
  <2>6. ASSUME NEW t \in Root, NEW k, planLock'[t] = k, k # None
        PROVE  Working(k)' /\ LockRoot(k) = t
    <3>1. CASE t = LockRoot(l)
          BY <1>2, <1>3, <2>1, <2>2, <2>6, <3>1
    <3>2. CASE t # LockRoot(l)
      <4>1. planLock[t] = k
            BY <1>2, <1>3, <2>1, <2>6, <3>2
      <4>2. k \in Launch \ {l} /\ Working(k) /\ LockRoot(k) = t
        <5>1. ~Working(l)
              OBVIOUS
        <5>2. QED
              BY <2>3, <2>6, <4>1, <5>1
      <4>3. QED
            BY <2>2, <4>2
    <3>3. QED
          BY <3>1, <3>2
  <2>7. \A t \in Root : planLock'[t] # None =>
          Working(planLock[t])' /\ LockRoot(planLock[t])' = t
        BY <1>2, <2>6 DEF Working
  <2>8. QED
        BY <1>2, <2>4, <2>5, <2>7 DEF Locked
<1>6. QED
      BY <1>4, <1>5

\* A step of a launch that is at work keeps what the others rely on: whoever is
\* alone with its run is not of the same run.
LEMMA StepKeeps ==
  ASSUME LaunchAssumption, LaunchInv, NEW l \in Launch, OnlyAt(l), RunOnly(l),
         Begun(l), ~Over(l), Begun(l)', LaunchTypes', InStep(l)', Locked',
         UNCHANGED <<asking, latest, alone>>,
         Mine(l) => Mine(l)', Behind(l) => Behind(l)', Behind(l) => log'[RunOf[l]] = log[RunOf[l]]
  PROVE  LaunchInv'
<1>1. \A k \in Launch : InStep(k)'
      BY OthersStepped DEF LaunchInv
<1>2. \A k \in Launch : Begun(k) <=> Begun(k)'
      BY OthersStepped
<1>3. \A k \in Launch : Sole(k)' <=> Sole(k)
      BY DEF Sole
<1>4. ASSUME NEW k \in Launch, Sole(k), k # l PROVE RunOf[k] # RunOf[l]
      BY <1>4 DEF LaunchInv, Own, Others
<1>5. ASSUME NEW k \in Launch PROVE Own(k)'
  <2>1. SUFFICES ASSUME Sole(k) PROVE Mine(k)' /\ \A j \in Others(k) : Begun(j)' => Over(j)'
        BY <1>3 DEF Own, Others
  <2>2. Mine(k) /\ \A j \in Others(k) : Begun(j) => Over(j)
        BY <2>1 DEF LaunchInv, Own
  <2>3. Mine(k)'
        BY <1>4, <2>1, <2>2, OthersKeep
  <2>4. ASSUME NEW j \in Others(k), Begun(j)' PROVE Over(j)'
    <3>1. j \in Launch /\ j # l
          BY <1>4, <2>1, <2>2 DEF Others
    <3>2. QED
          BY <1>2, <2>2, <2>4, <3>1, OthersStepped
  <2>5. QED
        BY <2>3, <2>4
<1>6. Launched'
  <2>1. \A r \in Run : latest'[r] # None => latest'[r] \in Launch
        BY DEF LaunchInv, LaunchTypes
  <2>2. ASSUME NEW r \in Run, completion'[r] # None
        PROVE  \E k \in Launch : RunOf[k] = r /\ Begun(k)'
        BY <1>2, <2>2 DEF LaunchInv, Launched, RunOnly
  <2>3. \A k \in alone : k \in Launch
        BY DEF LaunchInv, LaunchTypes
  <2>4. QED
        BY <1>2, <2>1, <2>2, <2>3 DEF LaunchInv, Launched
<1>7. ASSUME NEW o \in Launch, Sole(o), Behind(o), Ended(RunOf[o])
      PROVE  Behind(o)' /\ Ended(RunOf[o])'
  <2>1. RunOf[o] \in Run
        BY DEF LaunchAssumption
  <2>2. CASE o = l
        BY <1>7, <2>2 DEF Ended
  <2>3. CASE o # l
        BY <1>4, <1>7, <2>1, <2>3, OthersStepped DEF Ended, RunOnly
  <2>4. QED
        BY <2>2, <2>3
<1>8. Asking'
  <2>1. reader' = reader /\ told' = told
        BY DEF asking
  <2>2. /\ reader.over # None => reader.over \in Launch
        /\ told.over # None => told.over \in Launch /\ Begun(told.over)
        BY DEF LaunchInv, AskTypes, Asking
  <2>3. \A k \in Launch : Begun(k) => Begun(k)'
        BY <1>2
  <2>4. QED
        BY <1>2, <1>3, <1>7, <2>1, <2>2, <2>3 DEF LaunchInv, Asking
<1>9. QED
      BY <1>1, <1>5, <1>6, <1>8 DEF LaunchInv, AskTypes, asking

------------------------------------------------------------------------------
(* The steps of a launch that has begun: what it writes (<1>1), and that   *)
(* it stays in step, keeps the locks held and its own files its own.       *)

LEMMA ToolPreparesKeeps ==
  ASSUME LaunchAssumption, LaunchInv, NEW l \in Launch, ToolPrepares(l)
  PROVE  LaunchInv'
<1> DEFINE r == RunOf[l]
<1>0. /\ LaunchTypes /\ InStep(l) /\ r \in Run
      /\ r = RunOf[l]
      BY DEF LaunchInv, LaunchAssumption
<1> HIDE DEF r
<1>1. /\ host[l] = "prepare"
      /\ \/ Inline(l) /\ host'[l] = "wait" /\ driver'[l] = "lock" /\ process'[l] = "alive"
         \/ ~Inline(l) /\ host'[l] = "launch" /\ driver'[l] = driver[l] /\ process'[l] = process[l]
      /\ OnlyAt(l) /\ RunOnly(l)
      /\ UNCHANGED <<outcome, seen, result, completion, log, planLock, deaths>>
  <2>0. /\ host[l] = "prepare"
        /\ UNCHANGED <<outcome, seen, result, completion, log, planLock, deaths>>
        BY DEF ToolPrepares, history
  <2>1. ASSUME Inline(l)
        PROVE  /\ host'[l] = "wait" /\ driver'[l] = "lock" /\ process'[l] = "alive"
               /\ OnlyAt(l) /\ RunOnly(l)
    <3>1. /\ host' = [host EXCEPT ![l] = "wait"] /\ driver' = [driver EXCEPT ![l] = "lock"]
          /\ process' = [process EXCEPT ![l] = "alive"]
          BY <2>1 DEF ToolPrepares, StartHere, HostAt, DriverAt
    <3>2. host'[l] = "wait" /\ driver'[l] = "lock" /\ process'[l] = "alive"
          BY <1>0, <3>1 DEF LaunchTypes
    <3>3. OnlyAt(l) /\ RunOnly(l)
          BY <1>0, <2>0, <3>1 DEF OnlyAt, RunOnly, LaunchTypes
    <3>4. QED
          BY <2>1, <3>2, <3>3
  <2>2. ASSUME ~Inline(l)
        PROVE  /\ host'[l] = "launch" /\ driver'[l] = driver[l] /\ process'[l] = process[l]
               /\ OnlyAt(l) /\ RunOnly(l)
    <3>1. /\ host' = [host EXCEPT ![l] = "launch"] /\ UNCHANGED <<driver, process>>
          BY <2>2 DEF ToolPrepares, StartElsewhere, HostAt
    <3>2. host'[l] = "launch" /\ driver'[l] = driver[l] /\ process'[l] = process[l]
          BY <1>0, <3>1 DEF LaunchTypes
    <3>3. OnlyAt(l) /\ RunOnly(l)
          BY <1>0, <2>0, <3>1 DEF OnlyAt, RunOnly, LaunchTypes
    <3>4. QED
          BY <2>2, <3>2, <3>3
  <2>3. QED
        BY <2>0, <2>1, <2>2
<1>2. LaunchTypes'
  <2>1. \E w \in {"wait", "launch"} : host' = [host EXCEPT ![l] = w]
        BY <1>0 DEF ToolPrepares, StartHere, StartElsewhere, HostAt
  <2>2. host' \in [Launch -> {"none", "prepare", "launch", "spawned", "wait", "deaf", "killed",
                           "finish", "done"}]
        BY <1>0, <2>1 DEF LaunchTypes
  <2>3. driver' \in [Launch -> {"none", "over"} \cup Steps]
        BY <1>0 DEF LaunchTypes, ToolPrepares, StartHere, StartElsewhere, DriverAt, Steps
  <2>4. process' \in [Launch -> {"unborn", "alive", "gone"}]
        BY <1>0 DEF LaunchTypes, ToolPrepares, StartHere, StartElsewhere
  <2>5. inlineFile' \in [Run -> Launch \cup {None}]
        BY <1>0 DEF LaunchTypes, ToolPrepares, StartHere, StartElsewhere
  <2>9. QED
        BY <1>0, <2>1, <2>2, <2>3, <2>4, <2>5 DEF ToolPrepares, StartHere, StartElsewhere,
           OnlyAt, RunOnly, LaunchTypes, asking, history
<1>3. InStep(l)' /\ Begun(l) /\ ~Over(l) /\ Begun(l)' /\ (Behind(l) => Behind(l)')
      BY <1>0, <1>1 DEF InStep, Begun, Over, Behind, Steps
<1>4. Locked'
  <2>1. /\ (Working(l)' <=> Working(l)) /\ UNCHANGED <<planLock, deaths>>
        /\ driver'[l] = driver[l] \/ driver'[l] # "break"
        BY <1>0, <1>1 DEF Working, InStep, Steps
  <2>2. QED
        BY <1>1, <2>1, LockKeeps
<1>5. Mine(l) => Mine(l)'
      BY <1>0, <1>1, <1>3 DEF Mine, InStep, Steps
<1>6. Behind(l) => log'[r] = log[r]
      BY <1>1 DEF Behind
<1>7. UNCHANGED <<asking, latest, alone>>
      BY DEF ToolPrepares, StartHere, StartElsewhere, history, asking
<1>8. QED
      BY <1>0, <1>1, <1>2, <1>3, <1>4, <1>5, <1>6, <1>7, StepKeeps

LEMMA PrepareFailsKeeps ==
  ASSUME LaunchAssumption, LaunchInv, NEW l \in Launch, PrepareFails(l)
  PROVE  LaunchInv'
<1> DEFINE r == RunOf[l]
<1>0. /\ LaunchTypes /\ InStep(l) /\ r \in Run
      /\ r = RunOf[l]
      BY DEF LaunchInv, LaunchAssumption
<1> HIDE DEF r
<1>1. /\ host[l] = "prepare"
      /\ host'[l] = "done"
      /\ \/ Inline(l) /\ completion'[r] = "aborted"
         \/ completion'[r] = completion[r]
      /\ OnlyAt(l) /\ RunOnly(l)
      /\ UNCHANGED <<driver, process, outcome, seen, result, log, planLock, deaths>>
      BY <1>0 DEF PrepareFails, OnlyAt, RunOnly, LaunchTypes, looping, asking, history, HostAt,
         Write
<1>2. LaunchTypes'
      BY <1>0 DEF PrepareFails, OnlyAt, RunOnly, LaunchTypes, looping, asking, history, HostAt,
         Write, Steps, Outcome
<1>3. InStep(l)' /\ Begun(l) /\ ~Over(l) /\ Begun(l)' /\ (Behind(l) => Behind(l)')
      BY <1>0, <1>1 DEF InStep, Begun, Over, Behind, Steps
<1>4. Locked'
  <2>1. /\ (Working(l)' <=> Working(l)) /\ UNCHANGED <<planLock, deaths>>
        /\ driver'[l] = driver[l] \/ driver'[l] # "break"
        BY <1>0, <1>1 DEF Working, InStep, Steps
  <2>2. QED
        BY <1>1, <2>1, LockKeeps
<1>5. Mine(l) => Mine(l)'
      BY <1>0, <1>1, <1>3 DEF Mine, InStep, Steps
<1>6. Behind(l) => log'[r] = log[r]
      BY <1>1 DEF Behind
<1>7. UNCHANGED <<asking, latest, alone>>
      BY DEF PrepareFails, history, asking
<1>8. QED
      BY <1>0, <1>1, <1>2, <1>3, <1>4, <1>5, <1>6, <1>7, StepKeeps

LEMMA SpawnChildKeeps ==
  ASSUME LaunchAssumption, LaunchInv, NEW l \in Launch, SpawnChild(l)
  PROVE  LaunchInv'
<1> DEFINE r == RunOf[l]
<1>0. /\ LaunchTypes /\ InStep(l) /\ r \in Run
      /\ r = RunOf[l]
      BY DEF LaunchInv, LaunchAssumption
<1> HIDE DEF r
<1>1. /\ host[l] = "launch"
      /\ host'[l] = "spawned"
      /\ driver'[l] = "lock"
      /\ process'[l] = "alive"
      /\ OnlyAt(l) /\ RunOnly(l)
      /\ UNCHANGED <<outcome, seen, result, completion, log, planLock, deaths>>
      BY <1>0 DEF SpawnChild, OnlyAt, RunOnly, LaunchTypes, files, asking, history, HostAt,
         DriverAt
<1>2. LaunchTypes'
      BY <1>0 DEF SpawnChild, OnlyAt, RunOnly, LaunchTypes, files, asking, history, HostAt,
         DriverAt, Steps, Outcome
<1>3. InStep(l)' /\ Begun(l) /\ ~Over(l) /\ Begun(l)' /\ (Behind(l) => Behind(l)')
      BY <1>0, <1>1 DEF InStep, Begun, Over, Behind, Steps
<1>4. Locked'
  <2>1. /\ (Working(l)' <=> Working(l)) /\ UNCHANGED <<planLock, deaths>>
        /\ driver'[l] = driver[l] \/ driver'[l] # "break"
        BY <1>0, <1>1 DEF Working, InStep, Steps
  <2>2. QED
        BY <1>1, <2>1, LockKeeps
<1>5. Mine(l) => Mine(l)'
      BY <1>0, <1>1, <1>3 DEF Mine, InStep, Steps
<1>6. Behind(l) => log'[r] = log[r]
      BY <1>1 DEF Behind
<1>7. UNCHANGED <<asking, latest, alone>>
      BY DEF SpawnChild, history, asking
<1>8. QED
      BY <1>0, <1>1, <1>2, <1>3, <1>4, <1>5, <1>6, <1>7, StepKeeps

LEMMA WritePidKeeps ==
  ASSUME LaunchAssumption, LaunchInv, NEW l \in Launch, WritePid(l)
  PROVE  LaunchInv'
<1> DEFINE r == RunOf[l]
<1>0. /\ LaunchTypes /\ InStep(l) /\ r \in Run
      /\ r = RunOf[l]
      BY DEF LaunchInv, LaunchAssumption
<1> HIDE DEF r
<1>1. /\ host[l] = "spawned"
      /\ host'[l] \in {"wait", "deaf", "done"}
      /\ OnlyAt(l) /\ RunOnly(l)
      /\ UNCHANGED <<driver, process, outcome, seen, result, completion, log, planLock, deaths>>
      BY <1>0 DEF WritePid, OnlyAt, RunOnly, LaunchTypes, looping, asking, history, HostAt
<1>2. LaunchTypes'
      BY <1>0 DEF WritePid, OnlyAt, RunOnly, LaunchTypes, looping, asking, history, HostAt,
         Steps, Outcome
<1>3. InStep(l)' /\ Begun(l) /\ ~Over(l) /\ Begun(l)' /\ (Behind(l) => Behind(l)')
      BY <1>0, <1>1 DEF InStep, Begun, Over, Behind, Steps
<1>4. Locked'
  <2>1. /\ (Working(l)' <=> Working(l)) /\ UNCHANGED <<planLock, deaths>>
        /\ driver'[l] = driver[l] \/ driver'[l] # "break"
        BY <1>0, <1>1 DEF Working, InStep, Steps
  <2>2. QED
        BY <1>1, <2>1, LockKeeps
<1>5. Mine(l) => Mine(l)'
      BY <1>0, <1>1, <1>3 DEF Mine, InStep, Steps
<1>6. Behind(l) => log'[r] = log[r]
      BY <1>1 DEF Behind
<1>7. UNCHANGED <<asking, latest, alone>>
      BY DEF WritePid, history, asking
<1>8. QED
      BY <1>0, <1>1, <1>2, <1>3, <1>4, <1>5, <1>6, <1>7, StepKeeps

LEMMA FinishInlineKeeps ==
  ASSUME LaunchAssumption, LaunchInv, NEW l \in Launch, FinishInline(l)
  PROVE  LaunchInv'
<1> DEFINE r == RunOf[l]
<1>0. /\ LaunchTypes /\ InStep(l) /\ r \in Run
      /\ r = RunOf[l]
      BY DEF LaunchInv, LaunchAssumption
<1> HIDE DEF r
<1>1. /\ Inline(l) /\ host[l] = "wait" /\ driver[l] = "over"
      /\ host'[l] = "done"
      /\ IF l \in Tool \/ outcome[l] = "thrown" \/ completion[r] = None
           THEN completion'[r] = Aborted(outcome[l]) ELSE completion'[r] = completion[r]
      /\ IF l \in Tool THEN process'[l] = process[l] ELSE process'[l] = "gone"
      /\ OnlyAt(l) /\ RunOnly(l)
      /\ UNCHANGED <<driver, outcome, seen, result, log, planLock, deaths>>
      BY <1>0 DEF FinishInline, Aborted, OnlyAt, RunOnly, LaunchTypes, asking, history, HostAt,
         Write
<1>2. LaunchTypes'
      BY <1>0 DEF FinishInline, Aborted, OnlyAt, RunOnly, LaunchTypes, asking, history, HostAt,
         Write, Steps, InStep, Outcome
<1>3. InStep(l)' /\ Begun(l) /\ ~Over(l) /\ Begun(l)' /\ (Behind(l) => Behind(l)')
      BY <1>0, <1>1 DEF InStep, Begun, Over, Behind, Steps
<1>4. Locked'
  <2>1. /\ (Working(l)' <=> Working(l)) /\ UNCHANGED <<planLock, deaths>>
        /\ driver'[l] = driver[l] \/ driver'[l] # "break"
        BY <1>0, <1>1 DEF Working, InStep, Steps
  <2>2. QED
        BY <1>1, <2>1, LockKeeps
<1>5. Mine(l) => Mine(l)'
      BY <1>0, <1>1, <1>3 DEF Mine, InStep, Steps, Inline, LaunchTypes, Outcome, Aborted
<1>6. Behind(l) => log'[r] = log[r]
      BY <1>1 DEF Behind
<1>7. UNCHANGED <<asking, latest, alone>>
      BY DEF FinishInline, Aborted, history, asking
<1>8. QED
      BY <1>0, <1>1, <1>2, <1>3, <1>4, <1>5, <1>6, <1>7, StepKeeps

LEMMA SeeCompletionKeeps ==
  ASSUME LaunchAssumption, LaunchInv, NEW l \in Launch, SeeCompletion(l)
  PROVE  LaunchInv'
<1> DEFINE r == RunOf[l]
<1>0. /\ LaunchTypes /\ InStep(l) /\ r \in Run
      /\ r = RunOf[l]
      BY DEF LaunchInv, LaunchAssumption
<1> HIDE DEF r
<1>1. /\ ~Inline(l) /\ host[l] \in {"wait", "deaf"} /\ completion[r] # None
      /\ host'[l] = "finish"
      /\ seen'[l] = completion[r]
      /\ OnlyAt(l) /\ RunOnly(l)
      /\ UNCHANGED <<driver, process, outcome, result, completion, log, planLock, deaths>>
      BY <1>0 DEF SeeCompletion, Waiting, Saw, OnlyAt, RunOnly, LaunchTypes, looping, asking,
         history, HostAt
<1>2. LaunchTypes'
      BY <1>0 DEF SeeCompletion, Waiting, Saw, OnlyAt, RunOnly, LaunchTypes, looping, asking,
         history, HostAt, Steps, Outcome
<1>3. InStep(l)' /\ Begun(l) /\ ~Over(l) /\ Begun(l)' /\ (Behind(l) => Behind(l)')
      BY <1>0, <1>1 DEF InStep, Begun, Over, Behind, Steps
<1>4. Locked'
  <2>1. /\ (Working(l)' <=> Working(l)) /\ UNCHANGED <<planLock, deaths>>
        /\ driver'[l] = driver[l] \/ driver'[l] # "break"
        BY <1>0, <1>1 DEF Working, InStep, Steps
  <2>2. QED
        BY <1>1, <2>1, LockKeeps
<1>5. Mine(l) => Mine(l)'
      BY <1>0, <1>1, <1>3 DEF Mine, InStep, Steps
<1>6. Behind(l) => log'[r] = log[r]
      BY <1>1 DEF Behind
<1>7. UNCHANGED <<asking, latest, alone>>
      BY DEF SeeCompletion, Waiting, Saw, history, asking
<1>8. QED
      BY <1>0, <1>1, <1>2, <1>3, <1>4, <1>5, <1>6, <1>7, StepKeeps

LEMMA SeeExitKeeps ==
  ASSUME LaunchAssumption, LaunchInv, NEW l \in Launch, SeeExit(l)
  PROVE  LaunchInv'
<1> DEFINE r == RunOf[l]
<1>0. /\ LaunchTypes /\ InStep(l) /\ r \in Run
      /\ r = RunOf[l]
      BY DEF LaunchInv, LaunchAssumption
<1> HIDE DEF r
<1>1. /\ ~Inline(l) /\ host[l] = "wait" /\ process[l] = "gone" /\ completion[r] = None
      /\ host'[l] = "finish"
      /\ seen'[l] = "thrown"
      /\ OnlyAt(l) /\ RunOnly(l)
      /\ UNCHANGED <<driver, process, outcome, result, completion, log, planLock, deaths>>
      BY <1>0 DEF SeeExit, Waiting, Saw, OnlyAt, RunOnly, LaunchTypes, looping, asking, history,
         HostAt
<1>2. LaunchTypes'
      BY <1>0 DEF SeeExit, Waiting, Saw, OnlyAt, RunOnly, LaunchTypes, looping, asking, history,
         HostAt, Steps, Outcome
<1>3. InStep(l)' /\ Begun(l) /\ ~Over(l) /\ Begun(l)' /\ (Behind(l) => Behind(l)')
      BY <1>0, <1>1 DEF InStep, Begun, Over, Behind, Steps, Outcome, None
<1>4. Locked'
  <2>1. /\ (Working(l)' <=> Working(l)) /\ UNCHANGED <<planLock, deaths>>
        /\ driver'[l] = driver[l] \/ driver'[l] # "break"
        BY <1>0, <1>1 DEF Working, InStep, Steps
  <2>2. QED
        BY <1>1, <2>1, LockKeeps
<1>5. Mine(l) => Mine(l)'
      BY <1>0, <1>1, <1>3 DEF Mine, InStep, Steps
<1>6. Behind(l) => log'[r] = log[r]
      BY <1>1 DEF Behind
<1>7. UNCHANGED <<asking, latest, alone>>
      BY DEF SeeExit, Waiting, Saw, history, asking
<1>8. QED
      BY <1>0, <1>1, <1>2, <1>3, <1>4, <1>5, <1>6, <1>7, StepKeeps

LEMMA FinishDetachedKeeps ==
  ASSUME LaunchAssumption, LaunchInv, NEW l \in Launch, FinishDetached(l)
  PROVE  LaunchInv'
<1> DEFINE r == RunOf[l]
<1>0. /\ LaunchTypes /\ InStep(l) /\ r \in Run
      /\ r = RunOf[l]
      BY DEF LaunchInv, LaunchAssumption
<1> HIDE DEF r
<1>1. /\ host[l] = "finish"
      /\ host'[l] = "done"
      /\ completion'[r] = Aborted(seen[l])
      /\ OnlyAt(l) /\ RunOnly(l)
      /\ UNCHANGED <<driver, process, outcome, seen, result, log, planLock, deaths>>
      BY <1>0 DEF FinishDetached, Aborted, OnlyAt, RunOnly, LaunchTypes, looping, asking,
         history, HostAt, Write
<1>2. LaunchTypes'
      BY <1>0 DEF FinishDetached, Aborted, OnlyAt, RunOnly, LaunchTypes, looping, asking,
         history, HostAt, Write, Steps, Outcome
<1>3. InStep(l)' /\ Begun(l) /\ ~Over(l) /\ Begun(l)' /\ (Behind(l) => Behind(l)')
      BY <1>0, <1>1 DEF InStep, Begun, Over, Behind, Steps
<1>4. Locked'
  <2>1. /\ (Working(l)' <=> Working(l)) /\ UNCHANGED <<planLock, deaths>>
        /\ driver'[l] = driver[l] \/ driver'[l] # "break"
        BY <1>0, <1>1 DEF Working, InStep, Steps
  <2>2. QED
        BY <1>1, <2>1, LockKeeps
<1>5. Mine(l) => Mine(l)'
  <2>1. SUFFICES ASSUME Mine(l) PROVE Mine(l)'
        OBVIOUS
  <2>2. CASE seen[l] = completion[r] /\ (result[l] = None => driver[l] \in {"none", "over"})
    <3>1. completion[r] \in Outcome
          BY <1>0, <1>1, <2>2 DEF InStep, LaunchTypes
    <3>2. completion'[r] = completion[r]
          BY <1>1, <2>2, <3>1 DEF Aborted, Outcome
    <3>3. QED
          BY <1>0, <1>1, <2>1, <2>2, <3>2 DEF Mine
  <2>3. CASE seen[l] = "thrown" /\ result[l] = None /\ driver[l] \in {"none", "over"}
        BY <1>0, <1>1, <2>3 DEF Mine
  <2>4. QED
        BY <1>0, <1>1, <2>1, <2>2, <2>3 DEF Mine
<1>6. Behind(l) => log'[r] = log[r]
      BY <1>1 DEF Behind
<1>7. UNCHANGED <<asking, latest, alone>>
      BY DEF FinishDetached, Aborted, history, asking
<1>8. QED
      BY <1>0, <1>1, <1>2, <1>3, <1>4, <1>5, <1>6, <1>7, StepKeeps

LEMMA AbortLaunchKeeps ==
  ASSUME LaunchAssumption, LaunchInv, NEW l \in Launch, AbortLaunch(l)
  PROVE  LaunchInv'
<1> DEFINE r == RunOf[l]
<1>0. /\ LaunchTypes /\ InStep(l) /\ r \in Run
      /\ r = RunOf[l]
      BY DEF LaunchInv, LaunchAssumption
<1> HIDE DEF r
<1>1. /\ host[l] = "launch"
      /\ host'[l] = "finish"
      /\ seen'[l] = "thrown"
      /\ completion'[r] = IF completion[r] = None THEN "aborted" ELSE completion[r]
      /\ OnlyAt(l) /\ RunOnly(l)
      /\ UNCHANGED <<driver, process, outcome, result, log, planLock, deaths>>
      BY <1>0 DEF AbortLaunch, WriteAborted, Saw, OnlyAt, RunOnly, LaunchTypes, looping, asking,
         history, HostAt, Write
<1>2. LaunchTypes'
      BY <1>0 DEF AbortLaunch, WriteAborted, Saw, OnlyAt, RunOnly, LaunchTypes, looping, asking,
         history, HostAt, Write, Steps, Outcome
<1>3. InStep(l)' /\ Begun(l) /\ ~Over(l) /\ Begun(l)' /\ (Behind(l) => Behind(l)')
      BY <1>0, <1>1 DEF InStep, Begun, Over, Behind, Steps, Outcome, None
<1>4. Locked'
  <2>1. /\ (Working(l)' <=> Working(l)) /\ UNCHANGED <<planLock, deaths>>
        /\ driver'[l] = driver[l] \/ driver'[l] # "break"
        BY <1>0, <1>1 DEF Working, InStep, Steps
  <2>2. QED
        BY <1>1, <2>1, LockKeeps
<1>5. Mine(l) => Mine(l)'
      BY <1>0, <1>1, <1>3 DEF Mine, InStep, Steps
<1>6. Behind(l) => log'[r] = log[r]
      BY <1>1 DEF Behind
<1>7. UNCHANGED <<asking, latest, alone>>
      BY DEF AbortLaunch, WriteAborted, Saw, history, asking
<1>8. QED
      BY <1>0, <1>1, <1>2, <1>3, <1>4, <1>5, <1>6, <1>7, StepKeeps

LEMMA AbortWritesKeeps ==
  ASSUME LaunchAssumption, LaunchInv, NEW l \in Launch, AbortWrites(l)
  PROVE  LaunchInv'
<1> DEFINE r == RunOf[l]
<1>0. /\ LaunchTypes /\ InStep(l) /\ r \in Run
      /\ r = RunOf[l]
      BY DEF LaunchInv, LaunchAssumption
<1> HIDE DEF r
<1>1. /\ host[l] = "killed"
      /\ host'[l] = "wait"
      /\ completion'[r] = IF completion[r] = None THEN "aborted" ELSE completion[r]
      /\ OnlyAt(l) /\ RunOnly(l)
      /\ UNCHANGED <<driver, process, outcome, seen, result, log, planLock, deaths>>
      BY <1>0 DEF AbortWrites, WriteAborted, OnlyAt, RunOnly, LaunchTypes, looping, asking,
         history, HostAt, Write
<1>2. LaunchTypes'
      BY <1>0 DEF AbortWrites, WriteAborted, OnlyAt, RunOnly, LaunchTypes, looping, asking,
         history, HostAt, Write, Steps, Outcome
<1>3. InStep(l)' /\ Begun(l) /\ ~Over(l) /\ Begun(l)' /\ (Behind(l) => Behind(l)')
      BY <1>0, <1>1 DEF InStep, Begun, Over, Behind, Steps
<1>4. Locked'
  <2>1. /\ (Working(l)' <=> Working(l)) /\ UNCHANGED <<planLock, deaths>>
        /\ driver'[l] = driver[l] \/ driver'[l] # "break"
        BY <1>0, <1>1 DEF Working, InStep, Steps
  <2>2. QED
        BY <1>1, <2>1, LockKeeps
<1>5. Mine(l) => Mine(l)'
      BY <1>0, <1>1, <1>3 DEF Mine, InStep, Steps
<1>6. Behind(l) => log'[r] = log[r]
      BY <1>1 DEF Behind
<1>7. UNCHANGED <<asking, latest, alone>>
      BY DEF AbortWrites, WriteAborted, history, asking
<1>8. QED
      BY <1>0, <1>1, <1>2, <1>3, <1>4, <1>5, <1>6, <1>7, StepKeeps

LEMMA AbortChildKeeps ==
  ASSUME LaunchAssumption, LaunchInv, NEW l \in Launch, AbortChild(l)
  PROVE  LaunchInv'
<1> DEFINE r == RunOf[l]
<1>0. /\ LaunchTypes /\ InStep(l) /\ r \in Run
      /\ r = RunOf[l]
      BY DEF LaunchInv, LaunchAssumption
<1> HIDE DEF r
<1>1. /\ ~Inline(l) /\ host[l] \in {"wait", "deaf"}
      /\ host'[l] = "killed"
      /\ driver'[l] = "over"
      /\ process'[l] = "gone"
      /\ deaths' = deaths + 1
      /\ OnlyAt(l) /\ RunOnly(l)
      /\ UNCHANGED <<outcome, seen, result, completion, log, planLock>>
      BY <1>0 DEF AbortChild, Waiting, OnlyAt, RunOnly, LaunchTypes, files, asking, HostAt,
         DriverAt
<1>2. LaunchTypes'
  <2>1. host' \in [Launch -> {"none", "prepare", "launch", "spawned", "wait", "deaf", "killed",
                           "finish", "done"}]
        BY <1>0 DEF LaunchTypes, AbortChild, HostAt
  <2>2. driver' \in [Launch -> {"none", "over"} \cup Steps]
        BY <1>0 DEF LaunchTypes, AbortChild, DriverAt, Steps
  <2>3. process' \in [Launch -> {"unborn", "alive", "gone"}]
        BY <1>0 DEF LaunchTypes, AbortChild
  <2>4. deaths' \in 0..MaxDeaths
        BY <1>0 DEF LaunchTypes, AbortChild, LaunchAssumption
  <2>9. QED
        BY <1>0, <2>1, <2>2, <2>3, <2>4 DEF AbortChild, Waiting, OnlyAt, RunOnly, LaunchTypes,
           files, asking
<1>3. InStep(l)' /\ Begun(l) /\ ~Over(l) /\ Begun(l)' /\ (Behind(l) => Behind(l)')
      BY <1>0, <1>1 DEF InStep, Begun, Over, Behind, Steps
<1>4. Locked'
      BY <1>0, <1>1 DEF Locked, LaunchTypes
<1>5. Mine(l) => Mine(l)'
      BY <1>0, <1>1, <1>3 DEF Mine, InStep, Steps
<1>6. Behind(l) => log'[r] = log[r]
      BY <1>1 DEF Behind
<1>7. UNCHANGED <<asking, latest, alone>>
      BY DEF AbortChild, Waiting, asking
<1>8. QED
      BY <1>0, <1>1, <1>2, <1>3, <1>4, <1>5, <1>6, <1>7, StepKeeps

LEMMA DieKeeps ==
  ASSUME LaunchAssumption, LaunchInv, NEW l \in Launch, Die(l)
  PROVE  LaunchInv'
<1> DEFINE r == RunOf[l]
<1>0. /\ LaunchTypes /\ InStep(l) /\ r \in Run
      /\ r = RunOf[l]
      BY DEF LaunchInv, LaunchAssumption
<1> HIDE DEF r
<1>1. /\ (l \notin Tool \/ ~Inline(l)) /\ process[l] = "alive"
      /\ driver'[l] = "over"
      /\ process'[l] = "gone"
      /\ IF Inline(l) THEN host'[l] = "done" ELSE host'[l] = host[l]
      /\ deaths' = deaths + 1
      /\ OnlyAt(l) /\ RunOnly(l)
      /\ UNCHANGED <<outcome, seen, result, completion, log, planLock>>
      BY <1>0 DEF Die, Alive, OnlyAt, RunOnly, LaunchTypes, files, asking, HostAt, DriverAt
<1>2. LaunchTypes'
  <2>1. host' \in [Launch -> {"none", "prepare", "launch", "spawned", "wait", "deaf", "killed",
                           "finish", "done"}]
        BY <1>0 DEF LaunchTypes, Die, HostAt
  <2>2. driver' \in [Launch -> {"none", "over"} \cup Steps]
        BY <1>0 DEF LaunchTypes, Die, DriverAt, Steps
  <2>3. process' \in [Launch -> {"unborn", "alive", "gone"}]
        BY <1>0 DEF LaunchTypes, Die
  <2>4. deaths' \in 0..MaxDeaths
        BY <1>0 DEF LaunchTypes, Die, LaunchAssumption
  <2>9. QED
        BY <1>0, <2>1, <2>2, <2>3, <2>4 DEF Die, Alive, OnlyAt, RunOnly, LaunchTypes, files,
           asking
<1>3. InStep(l)' /\ Begun(l) /\ ~Over(l) /\ Begun(l)' /\ (Behind(l) => Behind(l)')
      BY <1>0, <1>1 DEF InStep, Begun, Over, Behind, Steps
<1>4. Locked'
      BY <1>0, <1>1 DEF Locked, LaunchTypes
<1>5. Mine(l) => Mine(l)'
      BY <1>0, <1>1, <1>3 DEF Mine, InStep, Steps
<1>6. Behind(l) => log'[r] = log[r]
      BY <1>1 DEF Behind
<1>7. UNCHANGED <<asking, latest, alone>>
      BY DEF Die, Alive, asking
<1>8. QED
      BY <1>0, <1>1, <1>2, <1>3, <1>4, <1>5, <1>6, <1>7, StepKeeps

LEMMA TryLockKeeps ==
  ASSUME LaunchAssumption, LaunchInv, NEW l \in Launch, TryLock(l)
  PROVE  LaunchInv'
<1> DEFINE r == RunOf[l]
<1>0. /\ LaunchTypes /\ InStep(l) /\ r \in Run
      /\ r = RunOf[l]
      BY DEF LaunchInv, LaunchAssumption
<1> HIDE DEF r
<1>1. /\ driver[l] = "lock"
      /\ IF planLock[LockRoot(l)] = None
          THEN planLock' = [planLock EXCEPT ![LockRoot(l)] = l] /\ driver'[l] = "drive"
          ELSE planLock' = planLock /\ driver'[l] = "read lock"
      /\ OnlyAt(l) /\ RunOnly(l)
      /\ UNCHANGED <<host, process, outcome, seen, result, completion, log, deaths>>
  <2>1. driver[l] = "lock" /\ TakeLock(l, "read lock") /\ "read lock" \in Steps
        BY DEF TryLock, Steps
  <2>2. UNCHANGED <<host, process, outcome, seen, result, completion, log, deaths>>
        BY DEF TryLock, launching, files, history
  <2>3. OnlyAt(l) /\ RunOnly(l)
        BY <1>0, <2>1, <2>2, TakeTypes DEF OnlyAt, RunOnly
  <2>4. QED
        BY <1>0, <2>1, <2>2, <2>3 DEF TakeLock, DriverAt, LaunchTypes
<1>2. LaunchTypes'
  <2>1. TakeLock(l, "read lock") /\ "read lock" \in Steps
        BY <1>0 DEF TryLock, Steps
  <2>2. driver' \in [Launch -> {"none", "over"} \cup Steps] /\ planLock' \in [Root -> Launch \cup {None}]
        BY <1>0, <2>1, TakeTypes
  <2>9. QED
        BY <1>0, <2>1, <2>2 DEF TryLock, TakeLock, OnlyAt, RunOnly, LaunchTypes, launching,
           files, asking, history
<1>3. InStep(l)' /\ Begun(l) /\ ~Over(l) /\ Begun(l)' /\ (Behind(l) => Behind(l)')
      BY <1>0, <1>1 DEF InStep, Begun, Over, Behind, Steps
<1>4. Locked'
  <2>1. TakeLock(l, "read lock") /\ ~Working(l)
        BY <1>1 DEF TryLock, Working
  <2>2. QED
        BY <1>1, <2>1, LockTaken
<1>5. Mine(l) => Mine(l)'
      BY <1>0, <1>1, <1>3 DEF Mine, InStep, Steps
<1>6. Behind(l) => log'[r] = log[r]
      BY <1>1 DEF Behind
<1>7. UNCHANGED <<asking, latest, alone>>
      BY DEF TryLock, TakeLock, history, asking
<1>8. QED
      BY <1>0, <1>1, <1>2, <1>3, <1>4, <1>5, <1>6, <1>7, StepKeeps

LEMMA ReadLockKeeps ==
  ASSUME LaunchAssumption, LaunchInv, NEW l \in Launch, ReadLock(l)
  PROVE  LaunchInv'
<1> DEFINE r == RunOf[l]
<1>0. /\ LaunchTypes /\ InStep(l) /\ r \in Run
      /\ r = RunOf[l]
      BY DEF LaunchInv, LaunchAssumption
<1> HIDE DEF r
<1>1. /\ driver[l] = "read lock"
      /\ driver'[l] \in {"lock again", "refused", "break"}
      /\ OnlyAt(l) /\ RunOnly(l)
      /\ UNCHANGED <<host, process, outcome, seen, result, completion, log, planLock, deaths>>
      BY <1>0 DEF ReadLock, OnlyAt, RunOnly, LaunchTypes, launching, files, asking, history,
         DriverAt
<1>2. LaunchTypes'
      BY <1>0 DEF ReadLock, OnlyAt, RunOnly, LaunchTypes, launching, files, asking, history,
         DriverAt, Steps, Outcome
<1>3. InStep(l)' /\ Begun(l) /\ ~Over(l) /\ Begun(l)' /\ (Behind(l) => Behind(l)')
      BY <1>0, <1>1 DEF InStep, Begun, Over, Behind, Steps
<1>4. Locked'
  <2>1. CASE deaths # 0
        BY <1>1, <2>1 DEF Locked
  <2>2. CASE deaths = 0
    <3>1. ASSUME planLock[LockRoot(l)] # None PROVE Alive(planLock[LockRoot(l)])
      <4>1. LockRoot(l) \in Root
            BY DEF LockRoot, Root
      <4>2. planLock[LockRoot(l)] \in Launch /\ Working(planLock[LockRoot(l)])
            BY <1>0, <2>2, <3>1, <4>1 DEF LaunchInv, Locked, LaunchTypes
      <4>3. InStep(planLock[LockRoot(l)])
            BY <4>2 DEF LaunchInv
      <4>4. QED
            BY <4>2, <4>3 DEF InStep, Working, Steps, Alive
    <3>2. driver'[l] # "break"
          BY <1>0, <3>1 DEF ReadLock, DriverAt, LaunchTypes
    <3>3. (Working(l)' <=> Working(l)) /\ UNCHANGED <<planLock, deaths>>
          BY <1>1 DEF Working
    <3>4. QED
          BY <1>1, <3>2, <3>3, LockKeeps
  <2>3. QED
        BY <2>1, <2>2
<1>5. Mine(l) => Mine(l)'
      BY <1>0, <1>1, <1>3 DEF Mine, InStep, Steps
<1>6. Behind(l) => log'[r] = log[r]
      BY <1>1 DEF Behind
<1>7. UNCHANGED <<asking, latest, alone>>
      BY DEF ReadLock, history, asking
<1>8. QED
      BY <1>0, <1>1, <1>2, <1>3, <1>4, <1>5, <1>6, <1>7, StepKeeps

LEMMA BreakLockKeeps ==
  ASSUME LaunchAssumption, LaunchInv, NEW l \in Launch, BreakLock(l)
  PROVE  LaunchInv'
<1> DEFINE r == RunOf[l]
<1>0. /\ LaunchTypes /\ InStep(l) /\ r \in Run
      /\ r = RunOf[l]
      BY DEF LaunchInv, LaunchAssumption
<1> HIDE DEF r
<1>1. /\ driver[l] = "break"
      /\ planLock' = [planLock EXCEPT ![LockRoot(l)] = None]
      /\ driver'[l] = "lock again"
      /\ OnlyAt(l) /\ RunOnly(l)
      /\ UNCHANGED <<host, process, outcome, seen, result, completion, log, deaths>>
      BY <1>0 DEF BreakLock, OnlyAt, RunOnly, LaunchTypes, launching, files, asking, history,
         DriverAt
<1>2. LaunchTypes'
      BY <1>0 DEF BreakLock, OnlyAt, RunOnly, LaunchTypes, launching, files, asking, history,
         DriverAt, Steps, Outcome
<1>3. InStep(l)' /\ Begun(l) /\ ~Over(l) /\ Begun(l)' /\ (Behind(l) => Behind(l)')
      BY <1>0, <1>1 DEF InStep, Begun, Over, Behind, Steps
<1>4. Locked'
      BY <1>0, <1>1 DEF Locked, LaunchInv
<1>5. Mine(l) => Mine(l)'
      BY <1>0, <1>1, <1>3 DEF Mine, InStep, Steps
<1>6. Behind(l) => log'[r] = log[r]
      BY <1>1 DEF Behind
<1>7. UNCHANGED <<asking, latest, alone>>
      BY DEF BreakLock, history, asking
<1>8. QED
      BY <1>0, <1>1, <1>2, <1>3, <1>4, <1>5, <1>6, <1>7, StepKeeps

LEMMA RetryLockKeeps ==
  ASSUME LaunchAssumption, LaunchInv, NEW l \in Launch, RetryLock(l)
  PROVE  LaunchInv'
<1> DEFINE r == RunOf[l]
<1>0. /\ LaunchTypes /\ InStep(l) /\ r \in Run
      /\ r = RunOf[l]
      BY DEF LaunchInv, LaunchAssumption
<1> HIDE DEF r
<1>1. /\ driver[l] = "lock again"
      /\ IF planLock[LockRoot(l)] = None
          THEN planLock' = [planLock EXCEPT ![LockRoot(l)] = l] /\ driver'[l] = "drive"
          ELSE planLock' = planLock /\ driver'[l] = "refused"
      /\ OnlyAt(l) /\ RunOnly(l)
      /\ UNCHANGED <<host, process, outcome, seen, result, completion, log, deaths>>
  <2>1. driver[l] = "lock again" /\ TakeLock(l, "refused") /\ "refused" \in Steps
        BY DEF RetryLock, Steps
  <2>2. UNCHANGED <<host, process, outcome, seen, result, completion, log, deaths>>
        BY DEF RetryLock, launching, files, history
  <2>3. OnlyAt(l) /\ RunOnly(l)
        BY <1>0, <2>1, <2>2, TakeTypes DEF OnlyAt, RunOnly
  <2>4. QED
        BY <1>0, <2>1, <2>2, <2>3 DEF TakeLock, DriverAt, LaunchTypes
<1>2. LaunchTypes'
  <2>1. TakeLock(l, "refused") /\ "refused" \in Steps
        BY <1>0 DEF RetryLock, Steps
  <2>2. driver' \in [Launch -> {"none", "over"} \cup Steps] /\ planLock' \in [Root -> Launch \cup {None}]
        BY <1>0, <2>1, TakeTypes
  <2>9. QED
        BY <1>0, <2>1, <2>2 DEF RetryLock, TakeLock, OnlyAt, RunOnly, LaunchTypes, launching,
           files, asking, history
<1>3. InStep(l)' /\ Begun(l) /\ ~Over(l) /\ Begun(l)' /\ (Behind(l) => Behind(l)')
      BY <1>0, <1>1 DEF InStep, Begun, Over, Behind, Steps
<1>4. Locked'
  <2>1. TakeLock(l, "refused") /\ ~Working(l)
        BY <1>1 DEF RetryLock, Working
  <2>2. QED
        BY <1>1, <2>1, LockTaken
<1>5. Mine(l) => Mine(l)'
      BY <1>0, <1>1, <1>3 DEF Mine, InStep, Steps
<1>6. Behind(l) => log'[r] = log[r]
      BY <1>1 DEF Behind
<1>7. UNCHANGED <<asking, latest, alone>>
      BY DEF RetryLock, TakeLock, history, asking
<1>8. QED
      BY <1>0, <1>1, <1>2, <1>3, <1>4, <1>5, <1>6, <1>7, StepKeeps

LEMMA RefusedKeeps ==
  ASSUME LaunchAssumption, LaunchInv, NEW l \in Launch, Refused(l)
  PROVE  LaunchInv'
<1> DEFINE r == RunOf[l]
<1>0. /\ LaunchTypes /\ InStep(l) /\ r \in Run
      /\ r = RunOf[l]
      BY DEF LaunchInv, LaunchAssumption
<1> HIDE DEF r
<1>1. /\ driver[l] = "refused"
      /\ outcome'[l] = "thrown"
      /\ driver'[l] = "over"
      /\ IF Inline(l) THEN process'[l] = process[l] ELSE process'[l] = "gone"
      /\ OnlyAt(l) /\ RunOnly(l)
      /\ UNCHANGED <<host, seen, result, completion, log, planLock, deaths>>
      BY <1>0 DEF Refused, Exits, OnlyAt, RunOnly, LaunchTypes, launching, files, asking,
         history, DriverAt
<1>2. LaunchTypes'
      BY <1>0 DEF Refused, Exits, OnlyAt, RunOnly, LaunchTypes, launching, files, asking,
         history, DriverAt, Steps, Outcome
<1>3. InStep(l)' /\ Begun(l) /\ ~Over(l) /\ Begun(l)' /\ (Behind(l) => Behind(l)')
      BY <1>0, <1>1 DEF InStep, Begun, Over, Behind, Steps, Outcome, None
<1>4. Locked'
  <2>1. /\ (Working(l)' <=> Working(l)) /\ UNCHANGED <<planLock, deaths>>
        /\ driver'[l] = driver[l] \/ driver'[l] # "break"
        BY <1>0, <1>1 DEF Working, InStep, Steps
  <2>2. QED
        BY <1>1, <2>1, LockKeeps
<1>5. Mine(l) => Mine(l)'
      BY <1>0, <1>1, <1>3 DEF Mine, InStep, Steps
<1>6. Behind(l) => log'[r] = log[r]
      BY <1>1 DEF Behind
<1>7. UNCHANGED <<asking, latest, alone>>
      BY DEF Refused, Exits, history, asking
<1>8. QED
      BY <1>0, <1>1, <1>2, <1>3, <1>4, <1>5, <1>6, <1>7, StepKeeps

LEMMA BeginLoopKeeps ==
  ASSUME LaunchAssumption, LaunchInv, NEW l \in Launch, BeginLoop(l)
  PROVE  LaunchInv'
<1> DEFINE r == RunOf[l]
<1>0. /\ LaunchTypes /\ InStep(l) /\ r \in Run
      /\ r = RunOf[l]
      BY DEF LaunchInv, LaunchAssumption
<1> HIDE DEF r
<1>1. /\ driver[l] = "drive"
      /\ driver'[l] = "running"
      /\ log'[r] = Append(log[r], "run_started")
      /\ OnlyAt(l) /\ RunOnly(l)
      /\ UNCHANGED <<host, process, outcome, seen, result, completion, planLock, deaths>>
      BY <1>0 DEF BeginLoop, OnlyAt, RunOnly, LaunchTypes, launching, asking, history, DriverAt,
         Emit
<1>2. LaunchTypes'
  <2>1. driver' \in [Launch -> {"none", "over"} \cup Steps]
        BY <1>0 DEF LaunchTypes, BeginLoop, DriverAt, Steps
  <2>2. log' \in [Run -> Seq(Terminal \cup {"run_started"})]
        BY <1>0, EmitTypes DEF BeginLoop
  <2>9. QED
        BY <1>0, <2>1, <2>2 DEF BeginLoop, OnlyAt, RunOnly, LaunchTypes, launching, asking,
           history
<1>3. InStep(l)' /\ Begun(l) /\ ~Over(l) /\ Begun(l)' /\ (Behind(l) => Behind(l)')
      BY <1>0, <1>1 DEF InStep, Begun, Over, Behind, Steps
<1>4. Locked'
  <2>1. /\ (Working(l)' <=> Working(l)) /\ UNCHANGED <<planLock, deaths>>
        /\ driver'[l] = driver[l] \/ driver'[l] # "break"
        BY <1>0, <1>1 DEF Working, InStep, Steps
  <2>2. QED
        BY <1>1, <2>1, LockKeeps
<1>5. Mine(l) => Mine(l)'
      BY <1>0, <1>1, <1>3 DEF Mine, InStep, Steps
<1>6. Behind(l) => log'[r] = log[r]
      BY <1>1 DEF Behind
<1>7. UNCHANGED <<asking, latest, alone>>
      BY DEF BeginLoop, history, asking
<1>8. QED
      BY <1>0, <1>1, <1>2, <1>3, <1>4, <1>5, <1>6, <1>7, StepKeeps

LEMMA EndLoopKeeps ==
  ASSUME LaunchAssumption, LaunchInv, NEW l \in Launch, EndLoop(l)
  PROVE  LaunchInv'
<1> DEFINE r == RunOf[l]
<1>0. /\ LaunchTypes /\ InStep(l) /\ r \in Run
      /\ r = RunOf[l]
      BY DEF LaunchInv, LaunchAssumption
<1> HIDE DEF r
<1>o. PICK o \in Outcome : outcome' = [outcome EXCEPT ![l] = o] /\ Emit(l, EventOf(o))
      BY DEF EndLoop
<1>1. /\ driver[l] = "running"
      /\ driver'[l] = "ended"
      /\ outcome'[l] \in Outcome
      /\ Emit(l, EventOf(o))
      /\ OnlyAt(l) /\ RunOnly(l)
      /\ UNCHANGED <<host, process, seen, result, completion, planLock, deaths>>
      BY <1>0, <1>o DEF EndLoop, Emit, DriverAt, OnlyAt, RunOnly, LaunchTypes, launching,
         history
<1>2. LaunchTypes'
  <2>1. driver' \in [Launch -> {"none", "over"} \cup Steps]
        BY <1>0 DEF LaunchTypes, EndLoop, DriverAt, Steps
  <2>2. outcome' \in [Launch -> Outcome \cup {None, "thrown"}]
        BY <1>0, <1>o DEF LaunchTypes
  <2>3. log' \in [Run -> Seq(Terminal \cup {"run_started"})]
        BY <1>0, <1>o, EmitTypes DEF EventOf, Terminal
  <2>9. QED
        BY <1>0, <2>1, <2>2, <2>3 DEF EndLoop, OnlyAt, RunOnly, LaunchTypes, launching, asking,
           history
<1>3. InStep(l)' /\ Begun(l) /\ ~Over(l) /\ Begun(l)' /\ (Behind(l) => Behind(l)')
      BY <1>0, <1>1 DEF InStep, Begun, Over, Behind, Steps
<1>4. Locked'
  <2>1. /\ (Working(l)' <=> Working(l)) /\ UNCHANGED <<planLock, deaths>>
        /\ driver'[l] = driver[l] \/ driver'[l] # "break"
        BY <1>0, <1>1 DEF Working, InStep, Steps
  <2>2. QED
        BY <1>1, <2>1, LockKeeps
<1>5. Mine(l) => Mine(l)'
      BY <1>0, <1>1, <1>3 DEF Mine, InStep, Steps
<1>6. Behind(l) => log'[r] = log[r]
      BY <1>1 DEF Behind
<1>7. UNCHANGED <<asking, latest, alone>>
      BY DEF EndLoop, history, asking
<1>8. QED
      BY <1>0, <1>1, <1>2, <1>3, <1>4, <1>5, <1>6, <1>7, StepKeeps

LEMMA LoopThrowsKeeps ==
  ASSUME LaunchAssumption, LaunchInv, NEW l \in Launch, LoopThrows(l)
  PROVE  LaunchInv'
<1> DEFINE r == RunOf[l]
<1>0. /\ LaunchTypes /\ InStep(l) /\ r \in Run
      /\ r = RunOf[l]
      BY DEF LaunchInv, LaunchAssumption
<1> HIDE DEF r
<1>1. /\ driver[l] \in {"drive", "running"}
      /\ driver'[l] = "written"
      /\ outcome'[l] = "thrown"
      /\ Emit(l, "run_aborted")
      /\ OnlyAt(l) /\ RunOnly(l)
      /\ UNCHANGED <<host, process, seen, result, completion, planLock, deaths>>
      BY <1>0 DEF LoopThrows, OnlyAt, RunOnly, LaunchTypes, launching, asking, history,
         DriverAt, Emit
<1>2. LaunchTypes'
  <2>1. driver' \in [Launch -> {"none", "over"} \cup Steps]
        BY <1>0 DEF LaunchTypes, LoopThrows, DriverAt, Steps
  <2>2. outcome' \in [Launch -> Outcome \cup {None, "thrown"}]
        BY <1>0 DEF LaunchTypes, LoopThrows
  <2>3. log' \in [Run -> Seq(Terminal \cup {"run_started"})]
        BY <1>0, EmitTypes DEF LoopThrows, Terminal
  <2>9. QED
        BY <1>0, <2>1, <2>2, <2>3 DEF LoopThrows, OnlyAt, RunOnly, LaunchTypes, launching,
           asking, history
<1>3. InStep(l)' /\ Begun(l) /\ ~Over(l) /\ Begun(l)' /\ (Behind(l) => Behind(l)')
      BY <1>0, <1>1 DEF InStep, Begun, Over, Behind, Steps, Outcome, None
<1>4. Locked'
  <2>1. /\ (Working(l)' <=> Working(l)) /\ UNCHANGED <<planLock, deaths>>
        /\ driver'[l] = driver[l] \/ driver'[l] # "break"
        BY <1>0, <1>1 DEF Working, InStep, Steps
  <2>2. QED
        BY <1>1, <2>1, LockKeeps
<1>5. Mine(l) => Mine(l)'
      BY <1>0, <1>1, <1>3 DEF Mine, InStep, Steps
<1>6. Behind(l) => log'[r] = log[r]
      BY <1>1 DEF Behind
<1>7. UNCHANGED <<asking, latest, alone>>
      BY DEF LoopThrows, history, asking
<1>8. QED
      BY <1>0, <1>1, <1>2, <1>3, <1>4, <1>5, <1>6, <1>7, StepKeeps

LEMMA LogFailsKeeps ==
  ASSUME LaunchAssumption, LaunchInv, NEW l \in Launch, LogFails(l)
  PROVE  LaunchInv'
<1> DEFINE r == RunOf[l]
<1>0. /\ LaunchTypes /\ InStep(l) /\ r \in Run
      /\ r = RunOf[l]
      BY DEF LaunchInv, LaunchAssumption
<1> HIDE DEF r
<1>1. /\ driver[l] \in {"drive", "running"}
      /\ driver'[l] = "ended"
      /\ outcome'[l] = "aborted"
      /\ OnlyAt(l) /\ RunOnly(l)
      /\ UNCHANGED <<host, process, seen, result, completion, log, planLock, deaths>>
      BY <1>0 DEF LogFails, OnlyAt, RunOnly, LaunchTypes, launching, files, asking, history,
         DriverAt
<1>2. LaunchTypes'
      BY <1>0 DEF LogFails, OnlyAt, RunOnly, LaunchTypes, launching, files, asking, history,
         DriverAt, Steps, Outcome
<1>3. InStep(l)' /\ Begun(l) /\ ~Over(l) /\ Begun(l)' /\ (Behind(l) => Behind(l)')
      BY <1>0, <1>1 DEF InStep, Begun, Over, Behind, Steps, Outcome, None
<1>4. Locked'
  <2>1. /\ (Working(l)' <=> Working(l)) /\ UNCHANGED <<planLock, deaths>>
        /\ driver'[l] = driver[l] \/ driver'[l] # "break"
        BY <1>0, <1>1 DEF Working, InStep, Steps
  <2>2. QED
        BY <1>1, <2>1, LockKeeps
<1>5. Mine(l) => Mine(l)'
      BY <1>0, <1>1, <1>3 DEF Mine, InStep, Steps
<1>6. Behind(l) => log'[r] = log[r]
      BY <1>1 DEF Behind
<1>7. UNCHANGED <<asking, latest, alone>>
      BY DEF LogFails, history, asking
<1>8. QED
      BY <1>0, <1>1, <1>2, <1>3, <1>4, <1>5, <1>6, <1>7, StepKeeps

LEMMA WriteResultKeeps ==
  ASSUME LaunchAssumption, LaunchInv, NEW l \in Launch, WriteResult(l)
  PROVE  LaunchInv'
<1> DEFINE r == RunOf[l]
<1>0. /\ LaunchTypes /\ InStep(l) /\ r \in Run
      /\ r = RunOf[l]
      BY DEF LaunchInv, LaunchAssumption
<1> HIDE DEF r
<1>1. /\ driver[l] \in {"ended", "wrote"}
      /\ driver'[l] = IF driver[l] = "ended" /\ ~Inline(l) THEN "wrote" ELSE "written"
      /\ completion'[r] = outcome[l]
      /\ result'[l] = outcome[l]
      /\ OnlyAt(l) /\ RunOnly(l)
      /\ UNCHANGED <<host, process, outcome, seen, log, planLock, deaths>>
      BY <1>0 DEF WriteResult, OnlyAt, RunOnly, LaunchTypes, launching, asking, DriverAt, Write
<1>2. LaunchTypes'
      BY <1>0 DEF WriteResult, OnlyAt, RunOnly, LaunchTypes, launching, asking, DriverAt, Write,
         Steps, InStep, Outcome
<1>3. InStep(l)' /\ Begun(l) /\ ~Over(l) /\ Begun(l)' /\ (Behind(l) => Behind(l)')
      BY <1>0, <1>1 DEF InStep, Begun, Over, Behind, Steps, Outcome, None
<1>4. Locked'
  <2>1. /\ (Working(l)' <=> Working(l)) /\ UNCHANGED <<planLock, deaths>>
        /\ driver'[l] = driver[l] \/ driver'[l] # "break"
        BY <1>0, <1>1 DEF Working, InStep, Steps
  <2>2. QED
        BY <1>1, <2>1, LockKeeps
<1>5. Mine(l) => Mine(l)'
  <2>1. outcome[l] \in Outcome /\ outcome[l] # None
        BY <1>0, <1>1 DEF InStep, Outcome, None
  <2>2. ASSUME Mine(l), host[l] = "finish" PROVE seen[l] = outcome[l]
    <3>1. driver[l] \notin {"none", "over"}
          BY <1>1
    <3>2. result[l] # None /\ seen[l] = completion[r]
          BY <1>0, <2>2, <3>1 DEF Mine
    <3>3. QED
          BY <1>0, <2>2, <3>2 DEF Mine, InStep
  <2>3. QED
        BY <1>0, <1>1, <2>1, <2>2 DEF Mine
<1>6. Behind(l) => log'[r] = log[r]
      BY <1>1 DEF Behind
<1>7. UNCHANGED <<asking, latest, alone>>
      BY DEF WriteResult, asking
<1>8. QED
      BY <1>0, <1>1, <1>2, <1>3, <1>4, <1>5, <1>6, <1>7, StepKeeps

LEMMA ReleaseLockKeeps ==
  ASSUME LaunchAssumption, LaunchInv, NEW l \in Launch, ReleaseLock(l)
  PROVE  LaunchInv'
<1> DEFINE r == RunOf[l]
<1>0. /\ LaunchTypes /\ InStep(l) /\ r \in Run
      /\ r = RunOf[l]
      BY DEF LaunchInv, LaunchAssumption
<1> HIDE DEF r
<1>1. /\ driver[l] = "written"
      /\ driver'[l] = "over"
      /\ IF Inline(l) THEN process'[l] = process[l] ELSE process'[l] = "gone"
      /\ planLock' = IF planLock[LockRoot(l)] = l
                     THEN [planLock EXCEPT ![LockRoot(l)] = None] ELSE planLock
      /\ OnlyAt(l) /\ RunOnly(l)
      /\ UNCHANGED <<host, outcome, seen, result, completion, log, deaths>>
      BY <1>0 DEF ReleaseLock, Exits, OnlyAt, RunOnly, LaunchTypes, launching, files, asking,
         history, DriverAt
<1>2. LaunchTypes'
      BY <1>0 DEF ReleaseLock, Exits, OnlyAt, RunOnly, LaunchTypes, launching, files, asking,
         history, DriverAt, Steps, Outcome
<1>3. InStep(l)' /\ Begun(l) /\ ~Over(l) /\ Begun(l)' /\ (Behind(l) => Behind(l)')
      BY <1>0, <1>1 DEF InStep, Begun, Over, Behind, Steps
<1>4. Locked'
  <2>1. SUFFICES ASSUME deaths = 0, Locked PROVE Locked'
        BY <1>1 DEF LaunchInv, Locked
  <2>2. LockRoot(l) \in Root
        BY DEF LockRoot, Root
  <2>3. driver[l] = "written"
        BY <1>1
  <2>4. \A k \in Launch : LockRoot(k) = LockRoot(k)' /\ LockRoot(k) \in Root
        BY DEF LockRoot, Inline, Root
  <2>5. Working(l) /\ ~Working(l)'
        BY <1>1 DEF Working
  <2>6. \A k \in Launch \ {l} : driver'[k] = driver[k] /\ (Working(k)' <=> Working(k))
        BY <1>1 DEF OnlyAt, Working
  <2>7. planLock[LockRoot(l)] = l
        BY <2>1, <2>5 DEF Locked
  <2>8. planLock' = [planLock EXCEPT ![LockRoot(l)] = None]
        BY <1>1, <2>7
  <2>10. \A k \in Launch : driver'[k] # "break"
        BY <1>1, <2>1, <2>6 DEF Locked
  <2>11. ASSUME NEW k \in Launch, Working(k)' PROVE planLock'[LockRoot(k)'] = k
    <3>1. k # l /\ Working(k)
          BY <2>5, <2>6, <2>11
    <3>2. planLock[LockRoot(k)] = k
          BY <2>1, <3>1 DEF Locked
    <3>3. QED
          BY <1>0, <2>4, <2>7, <2>8, <3>1, <3>2 DEF LaunchTypes
  <2>12. ASSUME NEW t \in Root, planLock'[t] # None
         PROVE  (Working(planLock[t]) /\ LockRoot(planLock[t]) = t)'
    <3>1. t # LockRoot(l) /\ planLock'[t] = planLock[t]
          BY <1>0, <2>4, <2>8, <2>12 DEF LaunchTypes
    <3>2. PICK k \in Launch : k = planLock[t]
          BY <1>0, <2>12, <3>1 DEF LaunchTypes
    <3>3. Working(k) /\ LockRoot(k) = t
          BY <2>1, <2>12, <3>1, <3>2 DEF Locked
    <3>4. k # l
          BY <3>1, <3>3
    <3>5. Working(k)' /\ LockRoot(k)' = t
          BY <2>4, <2>6, <3>3, <3>4
    <3>6. QED
          BY <3>1, <3>2, <3>5 DEF Working, LockRoot, Inline
  <2>13. QED
        BY <2>10, <2>11, <2>12 DEF Locked
<1>5. Mine(l) => Mine(l)'
      BY <1>0, <1>1, <1>3 DEF Mine, InStep, Steps
<1>6. Behind(l) => log'[r] = log[r]
      BY <1>1 DEF Behind
<1>7. UNCHANGED <<asking, latest, alone>>
      BY DEF ReleaseLock, Exits, history, asking
<1>8. QED
      BY <1>0, <1>1, <1>2, <1>3, <1>4, <1>5, <1>6, <1>7, StepKeeps

------------------------------------------------------------------------------
(* Launches that begin.                                                    *)

\* Who begins at a run finds nothing of its own in the directory; whoever was
\* alone with the run is so no longer.
LEMMA StartKeeps ==
  ASSUME LaunchAssumption, LaunchInv, NEW l \in Launch, OnlyAt(l), RunOnly(l),
         host[l] = "none", host'[l] \notin {"none", "finish"}, driver'[l] \in {"none", "lock"},
         completion'[RunOf[l]] = None, LaunchTypes', InStep(l)',
         UNCHANGED <<planLock, deaths, log, result, asking>>,
         latest' = [latest EXCEPT ![RunOf[l]] = l], alone' \subseteq alone \cup {l},
         l \in alone' => \A k \in Others(l) : Begun(k) => Over(k)
  PROVE  LaunchInv'
<1>1. /\ RunOf \in [Launch -> Run] /\ latest \in [Run -> Launch \cup {None}]
      /\ None \notin Launch /\ \A k \in alone : k \in Launch
      BY DEF LaunchAssumption, LaunchInv, LaunchTypes
<1>2. driver[l] = "none" /\ ~Begun(l) /\ Begun(l)' /\ result[l] = None
      BY DEF LaunchInv, InStep, Begun
<1>3. \A k \in Launch : InStep(k)'
      BY OthersStepped DEF LaunchInv
<1>4. \A k \in Launch : Begun(k) => Begun(k)'
      BY <1>2, OthersStepped
<1>5. Locked'
  <2>1. /\ (Working(l)' <=> Working(l)) /\ driver'[l] # "break"
        /\ UNCHANGED <<planLock, deaths>>
        BY <1>2 DEF Working
  <2>2. QED
        BY <2>1, LockKeeps
<1>6. ASSUME NEW k \in Launch \ {l}, Sole(k)' PROVE Sole(k) /\ RunOf[k] # RunOf[l]
      BY <1>1, <1>6 DEF Sole
<1>7. ASSUME NEW k \in Launch PROVE Own(k)'
  <2>1. SUFFICES ASSUME Sole(k)' PROVE Mine(k)' /\ \A j \in Others(k) : Begun(j)' => Over(j)'
        BY DEF Own, Others
  <2>2. CASE k = l
    <3>1. Mine(l)'
          BY <1>2 DEF Mine
    <3>2. ASSUME NEW j \in Others(l), Begun(j)' PROVE Over(j)'
      <4>1. j \in Launch \ {l}
            BY DEF Others
      <4>2. Begun(j) /\ (Over(j)' <=> Over(j))
            BY <3>2, <4>1, OthersStepped
      <4>3. l \in alone'
            BY <2>1, <2>2 DEF Sole
      <4>4. QED
            BY <4>2, <4>3
    <3>3. QED
          BY <2>2, <3>1, <3>2
  <2>3. CASE k # l
    <3>1. Sole(k) /\ RunOf[k] # RunOf[l]
          BY <1>6, <2>1, <2>3
    <3>2. Mine(k) /\ \A j \in Others(k) : Begun(j) => Over(j)
          BY <3>1 DEF LaunchInv, Own
    <3>3. Mine(k)'
          BY <3>1, <3>2, OthersKeep
    <3>4. \A j \in Others(k) : j \in Launch \ {l}
          BY <3>1 DEF Others
    <3>5. QED
          BY <3>2, <3>3, <3>4, OthersStepped
  <2>4. QED
        BY <2>2, <2>3
<1>8. Launched'
  <2>1. \A r \in Run : latest[r] # None =>
          latest[r] \in Launch /\ RunOf[latest[r]] = r /\ Begun(latest[r])
        BY <1>1 DEF LaunchInv, Launched
  <2>2. ASSUME NEW r \in Run, NEW k, latest'[r] = k, k # None
        PROVE  k \in Launch /\ RunOf[k] = r /\ Begun(k)'
    <3>1. CASE r = RunOf[l]
          BY <1>1, <1>2, <2>2, <3>1
    <3>2. CASE r # RunOf[l]
      <4>1. latest[r] = k
            BY <1>1, <2>2, <3>2
      <4>2. QED
            BY <1>4, <2>1, <2>2, <4>1
    <3>3. QED
          BY <3>1, <3>2
  <2>3. ASSUME NEW r \in Run, completion'[r] # None
        PROVE  \E k \in Launch : RunOf[k] = r /\ Begun(k)'
    <3>1. r # RunOf[l] /\ completion[r] # None
          BY <2>3 DEF RunOnly
    <3>2. QED
          BY <1>4, <3>1 DEF LaunchInv, Launched
  <2>4. ASSUME NEW k \in alone' PROVE Begun(k)'
    <3>1. CASE k = l
          BY <1>2, <3>1
    <3>2. CASE k # l
          BY <1>1, <1>4, <2>4, <3>2 DEF LaunchInv, Launched
    <3>3. QED
          BY <3>1, <3>2
  <2>5. \A r \in Run : latest'[r] # None => RunOf[latest'[r]] = r /\ host'[latest'[r]] # "none"
        BY <2>2 DEF Begun
  <2>6. QED
        BY <2>3, <2>4, <2>5 DEF Launched, Begun
<1>9. Asking'
  <2>1. reader' = reader /\ told' = told
        BY DEF asking
  <2>2. /\ reader.over # None => reader.over \in Launch \ {l}
        /\ told.over # None => told.over \in Launch \ {l}
        BY <1>2 DEF LaunchInv, AskTypes, Asking
  <2>3. \A k \in Launch \ {l} : Behind(k)' <=> Behind(k)
        BY OthersStepped
  <2>4. \A r : Ended(r)' <=> Ended(r)
        BY DEF Ended
  <2>5. QED
        BY <1>4, <1>6, <2>1, <2>2, <2>3, <2>4 DEF LaunchInv, Asking
<1>10. QED
      BY <1>3, <1>5, <1>7, <1>8, <1>9 DEF LaunchInv, AskTypes, asking

LEMMA ToolStartKeeps ==
  ASSUME LaunchAssumption, LaunchInv, NEW l \in Launch, ToolStart(l)
  PROVE  LaunchInv'
<1>1. LaunchTypes /\ InStep(l) /\ RunOf[l] \in Run /\ Launched
      BY DEF LaunchInv, LaunchAssumption
<1>2. /\ host[l] = "none" /\ host'[l] = "prepare" /\ l \in Tool
      /\ UNCHANGED <<driver, process, outcome, seen, result, completion, log, planLock, deaths>>
      BY <1>1 DEF ToolStart, HostAt, LaunchTypes, looping, files
<1>3. OnlyAt(l) /\ RunOnly(l)
      BY <1>1, <1>2 DEF ToolStart, HostAt, LaunchTypes, OnlyAt, RunOnly
<1>4. /\ latest' = [latest EXCEPT ![RunOf[l]] = l] /\ alone' = alone \cup {l}
      /\ UNCHANGED asking /\ \A k \in Others(l) : ~Begun(k)
      BY DEF ToolStart
<1>5. LaunchTypes'
  <2>1. host' \in [Launch -> {"none", "prepare", "launch", "spawned", "wait", "deaf", "killed",
                             "finish", "done"}]
        BY <1>1 DEF LaunchTypes, ToolStart, HostAt
  <2>2. active' \in Tool \cup {None} /\ latest' \in [Run -> Launch \cup {None}]
        /\ alone' \in SUBSET Launch
        BY <1>1 DEF LaunchTypes, ToolStart
  <2>3. QED
        BY <1>1, <1>2, <2>1, <2>2 DEF LaunchTypes, ToolStart, files
<1>6. InStep(l)'
      BY <1>1, <1>2 DEF InStep, Steps, Inline
<1>7. driver[l] = "none"
      BY <1>1, <1>2 DEF InStep
<1>8. completion[RunOf[l]] = None
      BY <1>1, <1>2, <1>4 DEF Launched, Others, Begun
<1>9. QED
      BY <1>2, <1>3, <1>4, <1>5, <1>6, <1>7, <1>8, StartKeeps

LEMMA CliStartKeeps ==
  ASSUME LaunchAssumption, LaunchInv, NEW l \in Launch, CliStart(l)
  PROVE  LaunchInv'
<1>1. LaunchTypes /\ InStep(l) /\ RunOf[l] \in Run
      BY DEF LaunchInv, LaunchAssumption
<1>2. /\ host[l] = "none" /\ l \notin Tool /\ completion' = [completion EXCEPT ![RunOf[l]] = None]
      /\ latest' = [latest EXCEPT ![RunOf[l]] = l]
      /\ UNCHANGED <<active, seen, outcome, planLock, pidFile, log, asking, result, deaths>>
      BY DEF CliStart, Write
<1>3. /\ alone' \subseteq alone \cup {l}
      /\ l \in alone' => \A k \in Others(l) : Begun(k) => Over(k)
      /\ alone' \in SUBSET Launch
  <2>1. l \in alone => Begun(l)
        BY DEF LaunchInv, Launched
  <2>2. l \notin alone
        BY <1>2, <2>1 DEF Begun
  <2>3. QED
        BY <1>1, <2>2 DEF CliStart, LaunchTypes
<1>4. /\ \E at \in {"wait", "launch"} : host' = [host EXCEPT ![l] = at]
      /\ driver' = driver \/ driver' = [driver EXCEPT ![l] = "lock"]
      /\ process' = process \/ process' = [process EXCEPT ![l] = "alive"]
      /\ inlineFile' = inlineFile \/ inlineFile' = [inlineFile EXCEPT ![RunOf[l]] = l]
      BY DEF CliStart, StartHere, StartElsewhere, HostAt, DriverAt
<1>5. \/ Inline(l) /\ host'[l] = "wait" /\ driver'[l] = "lock" /\ process'[l] = "alive"
      \/ ~Inline(l) /\ host'[l] = "launch" /\ driver'[l] = driver[l] /\ process'[l] = process[l]
  <2>1. CASE Inline(l)
    <3>1. /\ host' = [host EXCEPT ![l] = "wait"] /\ driver' = [driver EXCEPT ![l] = "lock"]
          /\ process' = [process EXCEPT ![l] = "alive"]
          BY <2>1 DEF CliStart, StartHere, HostAt, DriverAt
    <3>2. host'[l] = "wait" /\ driver'[l] = "lock" /\ process'[l] = "alive"
          BY <1>1, <3>1 DEF LaunchTypes
    <3>3. QED
          BY <2>1, <3>2
  <2>2. CASE ~Inline(l)
    <3>1. host' = [host EXCEPT ![l] = "launch"] /\ UNCHANGED <<driver, process>>
          BY <2>2 DEF CliStart, StartElsewhere, HostAt
    <3>2. host'[l] = "launch" /\ driver'[l] = driver[l] /\ process'[l] = process[l]
          BY <1>1, <3>1 DEF LaunchTypes
    <3>3. QED
          BY <2>2, <3>2
  <2>3. QED
        BY <2>1, <2>2
<1>6. OnlyAt(l) /\ RunOnly(l)
      BY <1>1, <1>2, <1>4 DEF LaunchTypes, OnlyAt, RunOnly
<1>7. LaunchTypes'
  <2>1. host' \in [Launch -> {"none", "prepare", "launch", "spawned", "wait", "deaf", "killed",
                             "finish", "done"}]
        BY <1>1, <1>4 DEF LaunchTypes
  <2>2. driver' \in [Launch -> {"none", "over"} \cup Steps]
        BY <1>1, <1>4 DEF LaunchTypes, Steps
  <2>3. process' \in [Launch -> {"unborn", "alive", "gone"}]
        BY <1>1, <1>4 DEF LaunchTypes
  <2>4. /\ inlineFile' \in [Run -> Launch \cup {None}] /\ latest' \in [Run -> Launch \cup {None}]
        /\ completion' \in [Run -> Outcome \cup {None}]
        BY <1>1, <1>2, <1>4 DEF LaunchTypes
  <2>5. QED
        BY <1>1, <1>2, <1>3, <2>1, <2>2, <2>3, <2>4 DEF LaunchTypes
<1>8. driver[l] = "none" /\ result[l] = None /\ InStep(l)'
      BY <1>1, <1>2, <1>5 DEF InStep, Steps, Inline
<1>9. completion'[RunOf[l]] = None
      BY <1>1, <1>2 DEF LaunchTypes
<1>10. /\ host'[l] \notin {"none", "finish"} /\ driver'[l] \in {"none", "lock"}
       /\ UNCHANGED <<planLock, deaths, log, result, asking>>
       BY <1>2, <1>5, <1>8
<1>11. QED
       BY <1>2, <1>3, <1>6, <1>7, <1>8, <1>9, <1>10, StartKeeps

\* A launch that the tool refuses changes nothing of its run.
LEMMA ToolRefusedKeeps ==
  ASSUME LaunchAssumption, LaunchInv, NEW l \in Launch, ToolRefused(l)
  PROVE  LaunchInv'
<1>1. LaunchTypes /\ InStep(l) /\ Launched /\ None \notin Launch
      BY DEF LaunchInv, LaunchAssumption
<1>2. /\ host[l] = "none" /\ host'[l] = "done" /\ host' = [host EXCEPT ![l] = "done"]
      /\ UNCHANGED <<active, seen, driver, process, outcome, planLock, completion, pidFile,
                     inlineFile, log, reader, told, result, latest, alone, deaths>>
      BY <1>1 DEF ToolRefused, HostAt, LaunchTypes, looping, files, asking, history
<1>3. OnlyAt(l) /\ RunOnly(l)
      BY <1>1, <1>2 DEF LaunchTypes, OnlyAt, RunOnly
<1>4. LaunchTypes' /\ InStep(l)'
      BY <1>1, <1>2 DEF LaunchTypes, InStep, Steps, Inline
<1>5. ~Begun(l) /\ Begun(l)' /\ Over(l)' /\ ~Sole(l)
      BY <1>1, <1>2 DEF Begun, Over, InStep, Launched, Sole
<1>6. \A k \in Launch : InStep(k)' /\ (Begun(k) => Begun(k)')
      BY <1>3, <1>4, <1>5, OthersStepped DEF LaunchInv
<1>7. Locked'
  <2>1. (Working(l)' <=> Working(l)) /\ driver'[l] = driver[l] /\ UNCHANGED <<planLock, deaths>>
        BY <1>2 DEF Working
  <2>2. QED
        BY <1>3, <2>1, LockKeeps
<1>8. \A k : Sole(k)' <=> Sole(k)
      BY <1>2 DEF Sole
<1>9. ASSUME NEW k \in Launch PROVE Own(k)'
  <2>1. SUFFICES ASSUME Sole(k) PROVE Mine(k)' /\ \A j \in Others(k) : Begun(j)' => Over(j)'
        BY <1>8 DEF Own, Others
  <2>2. k # l /\ Mine(k) /\ \A j \in Others(k) : Begun(j) => Over(j)
        BY <1>5, <2>1 DEF LaunchInv, Own
  <2>3. Mine(k)'
        BY <1>2, <1>3, <2>2 DEF OnlyAt, Mine
  <2>4. ASSUME NEW j \in Others(k), Begun(j)' PROVE Over(j)'
    <3>1. j \in Launch
          BY DEF Others
    <3>2. CASE j = l
          BY <1>5, <3>2
    <3>3. CASE j # l
          BY <1>3, <2>2, <2>4, <3>1, <3>3, OthersStepped
    <3>4. QED
          BY <3>2, <3>3
  <2>5. QED
        BY <2>3, <2>4
<1>10. Launched'
  <2>1. /\ \A r \in Run : latest[r] # None => latest[r] \in Launch
        /\ \A k \in alone : k \in Launch
        BY <1>1 DEF LaunchTypes
  <2>2. QED
        BY <1>1, <1>2, <1>6, <2>1 DEF Launched
<1>11. Asking' /\ AskTypes'
  <2>1. /\ reader.over # None => reader.over \in Launch
        /\ told.over # None => told.over \in Launch
        BY DEF LaunchInv, AskTypes
  <2>2. \A k : (Behind(k)' <=> Behind(k)) /\ (Ended(k)' <=> Ended(k))
        BY <1>2 DEF Behind, Ended
  <2>3. QED
        BY <1>2, <1>6, <1>8, <2>1, <2>2 DEF LaunchInv, AskTypes, Asking
<1>12. QED
       BY <1>4, <1>6, <1>7, <1>9, <1>10, <1>11 DEF LaunchInv

------------------------------------------------------------------------------
(* Whoever asks after a run.                                               *)

LEMMA AskingKeeps ==
  ASSUME LaunchInv, UNCHANGED <<launching, looping, planLock, files, history>>,
         AskTypes', Asking'
  PROVE  LaunchInv'
<1>1. UNCHANGED <<host, seen, active, driver, process, outcome, planLock, completion, pidFile,
                  inlineFile, log, result, latest, alone, deaths>>
      BY DEF launching, looping, files, history
<1>2. LaunchTypes' /\ Launched' /\ Locked'
  <2>1. LaunchTypes'
        BY <1>1 DEF LaunchInv, LaunchTypes
  <2>2. \A k : /\ Begun(k)' <=> Begun(k)
               /\ Working(k)' <=> Working(k)
               /\ LockRoot(k)' = LockRoot(k)
        BY <1>1 DEF Begun, Working, LockRoot, Inline
  <2>3. Launched' /\ Locked'
        BY <1>1, <2>2 DEF LaunchInv, Launched, Locked
  <2>4. QED
        BY <2>1, <2>3
<1>3. ASSUME NEW l \in Launch PROVE InStep(l)' /\ Own(l)'
  <2>1. InStep(l) /\ Own(l)
        BY DEF LaunchInv
  <2>2. InStep(l)'
        BY <1>1, <2>1 DEF InStep, Inline
  <2>3. (Sole(l)' <=> Sole(l)) /\ (Mine(l)' <=> Mine(l))
        BY <1>1 DEF Sole, Mine
  <2>4. \A k : (Begun(k)' <=> Begun(k)) /\ (Over(k)' <=> Over(k))
        BY <1>1 DEF Begun, Over
  <2>5. QED
        BY <2>1, <2>2, <2>3, <2>4 DEF Own, Others
<1>4. QED
      BY <1>2, <1>3 DEF LaunchInv

\* The launch whose end is in the log when the question is put is the last one
\* of the run.
LEMMA AskKeeps ==
  ASSUME LaunchAssumption, LaunchInv, NEW r \in Asked, Ask(r)
  PROVE  LaunchInv'
<1>1. UNCHANGED <<launching, looping, planLock, files, history>>
      BY DEF Ask
<1>2. /\ r \in Run /\ AskTypes /\ completion[r] \in Outcome \cup {None}
      /\ latest[r] \in Launch \cup {None} /\ None \notin Launch
      BY DEF LaunchInv, LaunchTypes, LaunchAssumption
<1> DEFINE over == IF Ended(r) /\ latest[r] # None /\ Behind(latest[r]) THEN latest[r] ELSE None
<1>3. over # None => /\ over \in Launch /\ Begun(over) /\ RunOf[over] = r
                     /\ Ended(r) /\ Behind(over)
      BY <1>2 DEF LaunchInv, Launched
<1>4. over \in Launch \cup {None}
      BY <1>2
<1>5. /\ reader.at = "idle" /\ told = NothingTold
      /\ \/ /\ completion[r] # None /\ reader' = reader
            /\ told' = [run |-> r, status |-> completion[r], over |-> over]
         \/ /\ reader' = [at |-> "files", run |-> r, of |-> None, over |-> over]
            /\ told' = NothingTold
      BY DEF Ask
<1> HIDE DEF over
<1>6. AskTypes'
      BY <1>2, <1>4, <1>5 DEF AskTypes, NothingTold
<1>7. \A k : /\ (Sole(k)' <=> Sole(k)) /\ (Begun(k)' <=> Begun(k)) /\ (Ended(k)' <=> Ended(k))
             /\ Behind(k)' <=> Behind(k)
      BY <1>1 DEF launching, looping, files, history, Sole, Begun, Ended, Behind
<1>8. Asking'
  <2>1. CASE /\ completion[r] # None /\ reader' = reader
             /\ told' = [run |-> r, status |-> completion[r], over |-> over]
    <3>1. told'.run = r /\ told'.status = completion[r] /\ told'.over = over
          BY <2>1
    <3>2. told'.status \notin {"running", "dead"}
          BY <1>2, <2>1, <3>1 DEF Outcome
    <3>3. QED
          BY <1>2, <1>3, <1>7, <2>1, <3>1, <3>2 DEF LaunchInv, Asking
  <2>2. CASE /\ reader' = [at |-> "files", run |-> r, of |-> None, over |-> over]
             /\ told' = NothingTold
    <3>1. /\ reader'.at = "files" /\ reader'.run = r /\ reader'.over = over
          /\ told'.over = None
          BY <2>2 DEF NothingTold
    <3>2. QED
          BY <1>2, <1>3, <1>7, <3>1 DEF Asking
  <2>3. QED
        BY <1>5, <2>1, <2>2
<1>9. QED
      BY <1>1, <1>6, <1>8, AskingKeeps

\* What is told is told of the launch that was asked about.
LEMMA TellKeeps ==
  ASSUME LaunchInv, NEW status \in Outcome \cup {"running", "dead", "run_state_not_found"},
         Tell(status), UNCHANGED <<launching, looping, planLock, files, history>>,
         reader.over # None /\ Sole(reader.over) => status \notin {"running", "dead"}
  PROVE  LaunchInv'
<1>1. AskTypes /\ Asking
      BY DEF LaunchInv
<1>2. /\ told' = [run |-> reader.run, status |-> status, over |-> reader.over]
      /\ reader' = NotAsking
      BY DEF Tell
<1>3. /\ told'.run = reader.run /\ told'.status = status /\ told'.over = reader.over
      /\ reader'.over = None
      BY <1>2 DEF NotAsking
<1>4. AskTypes'
      BY <1>1, <1>2 DEF AskTypes, NotAsking
<1>5. \A k : (Sole(k)' <=> Sole(k)) /\ (Begun(k)' <=> Begun(k))
      BY DEF launching, history, Sole, Begun
<1>6. Asking'
      BY <1>1, <1>3, <1>5 DEF Asking
<1>7. QED
      BY <1>4, <1>6, AskingKeeps

\* The next file is read on behalf of the same launch.
LEMMA ReaderKeeps ==
  ASSUME LaunchInv, NEW at \in {"events", "alive"}, NEW of \in Launch \cup {None},
         reader' = [reader EXCEPT !.at = at, !.of = of], told' = told,
         reader.at # "idle",
         UNCHANGED <<launching, looping, planLock, files, history>>,
         at = "alive" => ~Ended(reader.run)
  PROVE  LaunchInv'
<1>1. AskTypes /\ Asking
      BY DEF LaunchInv
<1>2. /\ reader'.at = at /\ reader'.run = reader.run /\ reader'.over = reader.over
      BY <1>1 DEF AskTypes
<1>3. AskTypes'
      BY <1>1 DEF AskTypes
<1>4. \A k : /\ (Sole(k)' <=> Sole(k)) /\ (Begun(k)' <=> Begun(k)) /\ (Ended(k)' <=> Ended(k))
             /\ Behind(k)' <=> Behind(k)
      BY DEF launching, looping, files, history, Sole, Begun, Ended, Behind
<1>5. Asking'
      BY <1>1, <1>2, <1>4 DEF Asking
<1>6. QED
      BY <1>3, <1>5, AskingKeeps

LEMMA ReadFilesKeeps ==
  ASSUME LaunchInv, ReadFiles
  PROVE  LaunchInv'
<1>1. /\ reader.at = "files" /\ UNCHANGED <<launching, looping, planLock, files, history>>
      BY DEF ReadFiles
<1>2. PICK of \in Launch \cup {None} :
        IF of = None THEN Tell("run_state_not_found")
        ELSE reader' = [reader EXCEPT !.at = "events", !.of = of] /\ told' = told
  <2>1. reader.run \in Run
        BY <1>1 DEF LaunchInv, AskTypes
  <2>2. pidFile[reader.run] \in Launch \cup {None} /\ inlineFile[reader.run] \in Launch \cup {None}
        BY <2>1 DEF LaunchInv, LaunchTypes
  <2>3. QED
        BY <2>2 DEF ReadFiles
<1>3. CASE of = None
      BY <1>1, <1>2, <1>3, TellKeeps
<1>4. CASE of # None
      BY <1>1, <1>2, <1>4, ReaderKeeps
<1>5. QED
      BY <1>3, <1>4

LEMMA ReadEventsKeeps ==
  ASSUME LaunchInv, ReadEvents
  PROVE  LaunchInv'
<1>1. /\ reader.at = "events" /\ UNCHANGED <<launching, looping, planLock, files, history>>
      BY DEF ReadEvents
<1>2. CASE Ended(reader.run)
  <2> DEFINE status == StatusOf(log[reader.run][Len(log[reader.run])])
  <2>1. status \in Outcome
        BY <1>2 DEF Ended, Terminal, StatusOf, Outcome
  <2>2. Tell(status)
        BY <1>2 DEF ReadEvents
  <2>3. status \notin {"running", "dead"}
        BY <2>1 DEF Outcome
  <2> HIDE DEF status
  <2>4. QED
        BY <1>1, <2>1, <2>2, <2>3, TellKeeps
<1>3. CASE ~Ended(reader.run)
  <2>1. reader' = [reader EXCEPT !.at = "alive"] /\ told' = told
        BY <1>3 DEF ReadEvents
  <2>2. /\ reader' = [reader EXCEPT !.at = "alive", !.of = reader.of]
        /\ reader.of \in Launch \cup {None}
        BY <2>1 DEF LaunchInv, AskTypes
  <2>3. QED
        BY <1>1, <1>3, <2>1, <2>2, ReaderKeeps
<1>4. QED
      BY <1>2, <1>3

LEMMA CheckProcessKeeps ==
  ASSUME LaunchInv, CheckProcess
  PROVE  LaunchInv'
<1>1. /\ reader.at = "alive" /\ UNCHANGED <<launching, looping, planLock, files, history>>
      /\ \E status \in {"running", "dead"} : Tell(status)
      BY DEF CheckProcess
<1>2. reader.over # None => ~Sole(reader.over)
      BY <1>1 DEF LaunchInv, Asking
<1>3. QED
      BY <1>1, <1>2, TellKeeps

------------------------------------------------------------------------------
(* The session dies.                                                       *)

LEMMA SessionDiesKeeps ==
  ASSUME LaunchAssumption, LaunchInv, SessionDies
  PROVE  LaunchInv'
<1>1. LaunchTypes /\ None \notin Launch /\ MaxDeaths \in Nat
      BY DEF LaunchInv, LaunchAssumption
<1>2. /\ deaths' = deaths + 1 /\ deaths < MaxDeaths /\ active' = None
      /\ UNCHANGED <<outcome, seen, planLock, completion, pidFile, inlineFile, log, reader, told,
                     result, latest, alone>>
      BY DEF SessionDies, files, asking
<1>3. \A l \in Launch :
        /\ host'[l] = IF l \in Tool THEN "done" ELSE host[l]
        /\ driver'[l] = IF l \in Tool /\ Inline(l) /\ Alive(l) THEN "over" ELSE driver[l]
        /\ process'[l] = IF l \in Tool /\ Inline(l) /\ Alive(l) THEN "gone" ELSE process[l]
      BY DEF SessionDies
<1>4. LaunchTypes'
  <2>1. host' \in [Launch -> {"none", "prepare", "launch", "spawned", "wait", "deaf", "killed",
                             "finish", "done"}]
        BY <1>1 DEF LaunchTypes, SessionDies
  <2>2. driver' \in [Launch -> {"none", "over"} \cup Steps]
        BY <1>1 DEF LaunchTypes, SessionDies
  <2>3. process' \in [Launch -> {"unborn", "alive", "gone"}]
        BY <1>1 DEF LaunchTypes, SessionDies
  <2>4. deaths' \in 0..MaxDeaths
        BY <1>1, <1>2 DEF LaunchTypes
  <2>5. QED
        BY <1>1, <1>2, <2>1, <2>2, <2>3, <2>4 DEF LaunchTypes
<1>5. Locked'
      BY <1>1, <1>2 DEF Locked, LaunchTypes
<1>6. ASSUME NEW l \in Launch
      PROVE  /\ InStep(l)' /\ (Begun(l) => Begun(l)') /\ (Over(l) => Over(l)')
             /\ (~Begun(l) /\ Begun(l)' => Over(l)') /\ (Behind(l) => Behind(l)')
             /\ Mine(l) => Mine(l)'
  <2>1. InStep(l)
        BY DEF LaunchInv
  <2>2. InStep(l)'
        BY <1>2, <1>3, <2>1 DEF InStep, Inline, Steps, Alive
  <2>3. (Begun(l) => Begun(l)') /\ (Over(l) => Over(l)') /\ (Behind(l) => Behind(l)')
        BY <1>3 DEF Begun, Over, Behind
  <2>4. ~Begun(l) /\ Begun(l)' => Over(l)'
        BY <1>3, <2>1 DEF Begun, Over, InStep
  <2>5. Mine(l) => Mine(l)'
        BY <1>2, <1>3 DEF Mine
  <2>6. QED
        BY <2>2, <2>3, <2>4, <2>5
<1>7. \A k : (Sole(k)' <=> Sole(k)) /\ (Ended(k)' <=> Ended(k))
      BY <1>2 DEF Sole, Ended
<1>8. ASSUME NEW l \in Launch PROVE Own(l)'
  <2>1. Own(l)
        BY DEF LaunchInv
  <2>2. \A k \in Others(l) : k \in Launch
        BY DEF Others
  <2>3. QED
        BY <1>6, <1>7, <2>1, <2>2 DEF Own, Others
<1>9. Launched'
  <2>1. /\ \A r \in Run : latest[r] # None => latest[r] \in Launch
        /\ \A k \in alone : k \in Launch
        BY <1>1 DEF LaunchTypes
  <2>2. QED
        BY <1>2, <1>6, <2>1 DEF LaunchInv, Launched
<1>10. Asking' /\ AskTypes'
  <2>1. /\ reader.over # None => reader.over \in Launch
        /\ told.over # None => told.over \in Launch
        BY DEF LaunchInv, AskTypes
  <2>2. QED
        BY <1>2, <1>6, <1>7, <2>1 DEF LaunchInv, AskTypes, Asking
<1>11. QED
       BY <1>4, <1>5, <1>6, <1>8, <1>9, <1>10 DEF LaunchInv

------------------------------------------------------------------------------
(* The theorems.                                                           *)

LEMMA LaunchInitially == ASSUME LaunchAssumption, Init PROVE LaunchInv
<1>1. LaunchTypes /\ AskTypes
      BY DEF Init, LaunchTypes, AskTypes, Outcome, Root, Terminal, NotAsking, NothingTold,
             LaunchAssumption
<1>2. Locked /\ Launched /\ Asking
      BY DEF Init, Locked, Launched, Asking, Working, NotAsking, NothingTold
<1>3. ASSUME NEW l \in Launch PROVE InStep(l) /\ Own(l)
  <2>1. latest[RunOf[l]] # l
        BY DEF Init, LaunchAssumption
  <2>2. QED
        BY <2>1 DEF Init, InStep, Own, Sole, Steps
<1>4. QED
      BY <1>1, <1>2, <1>3 DEF LaunchInv

LEMMA LaunchStays == ASSUME LaunchAssumption, LaunchInv, [Next]_launchVars PROVE LaunchInv'
<1>1. CASE UNCHANGED launchVars
  <2>1. /\ UNCHANGED <<launching, looping, planLock, files, history>>
        /\ reader' = reader /\ told' = told
        BY <1>1 DEF launchVars, asking
  <2>2. \A k : /\ (Sole(k)' <=> Sole(k)) /\ (Begun(k)' <=> Begun(k)) /\ (Ended(k)' <=> Ended(k))
               /\ Behind(k)' <=> Behind(k)
        BY <2>1 DEF launching, looping, files, history, Sole, Begun, Ended, Behind
  <2>3. AskTypes' /\ Asking'
        BY <2>1, <2>2 DEF LaunchInv, AskTypes, Asking
  <2>4. QED
        BY <2>1, <2>3, AskingKeeps
<1>2. ASSUME NEW l \in Launch, Hosting(l) PROVE LaunchInv'
      BY <1>2, ToolPreparesKeeps, PrepareFailsKeeps, SpawnChildKeeps, WritePidKeeps,
         FinishInlineKeeps, SeeCompletionKeeps, SeeExitKeeps, FinishDetachedKeeps,
         AbortWritesKeeps DEF Hosting
<1>3. ASSUME NEW l \in Launch, Loop(l) PROVE LaunchInv'
      BY <1>3, TryLockKeeps, ReadLockKeeps, BreakLockKeeps, RetryLockKeeps, RefusedKeeps,
         BeginLoopKeeps, EndLoopKeeps, LoopThrowsKeeps, LogFailsKeeps, WriteResultKeeps,
         ReleaseLockKeeps DEF Loop
<1>4. QED
      BY <1>1, <1>2, <1>3, ToolRefusedKeeps, ToolStartKeeps, CliStartKeeps, AbortLaunchKeeps,
         AbortChildKeeps, DieKeeps, AskKeeps, ReadFilesKeeps, ReadEventsKeeps, CheckProcessKeeps,
         SessionDiesKeeps DEF Next

\* The inductive invariant holds in every state.
THEOREM LaunchInvariant == ASSUME LaunchAssumption PROVE Spec => []LaunchInv
<1>1. Init => LaunchInv
      BY LaunchInitially
<1>2. LaunchInv /\ [Next]_launchVars => LaunchInv'
      BY LaunchStays
<1>3. QED
      BY <1>1, <1>2, PTL DEF Spec

\* Every variable keeps its type.
THEOREM LaunchTypesHold == ASSUME LaunchAssumption PROVE Spec => []TypeOK
<1>1. ASSUME LaunchInv PROVE TypeOK
  <2>1. LaunchTypes
        BY <1>1 DEF LaunchInv
  <2>2. \A r \in Run : \A i \in DOMAIN log[r] : log[r][i] \in Terminal \cup {"run_started"}
    <3>1. ASSUME NEW r \in Run PROVE log[r] \in Seq(Terminal \cup {"run_started"})
          BY <2>1 DEF LaunchTypes
    <3>2. QED
          BY <3>1
  <2>3. QED
        BY <2>1, <2>2 DEF LaunchTypes, TypeOK, Steps
<1>2. QED
      BY <1>1, LaunchInvariant, PTL

\* Two loops that lock under the same root are one, wherever they run and
\* whoever launched them, until somebody is killed.
OneLoopPerRoot ==
  deaths = 0 =>
    \A k, l \in Launch : Working(k) /\ Working(l) /\ LockRoot(k) = LockRoot(l) => k = l

THEOREM OneLoopPerRootHolds == ASSUME LaunchAssumption PROVE Spec => []OneLoopPerRoot
<1>1. LaunchInv => OneLoopPerRoot
      BY DEF LaunchInv, Locked, OneLoopPerRoot
<1>2. QED
      BY <1>1, LaunchInvariant, PTL

\* Where the framework is installed in the project it drives, all launches lock
\* under the project's root, and one loop at a time works on the tasks of the
\* plan until somebody is killed.
THEOREM OneLoopAtATime == ASSUME LaunchAssumption, SameRoot PROVE Spec => []OneLoopPerPlan
<1>1. ASSUME OneLoopPerRoot PROVE OneLoopPerPlan
  <2>1. \A k, l \in Launch : LockRoot(k) = LockRoot(l)
        BY DEF LockRoot
  <2>2. QED
        BY <1>1, <2>1 DEF OneLoopPerRoot, OneLoopPerPlan, OneLoop
<1>2. QED
      BY <1>1, OneLoopPerRootHolds, PTL

\* The result that a loop wrote stays the result of its run when no other launch
\* of the run was at work meanwhile: neither whoever waits for it, nor an abort,
\* nor a session that dies replaces it.
THEOREM ResultsStand == ASSUME LaunchAssumption PROVE Spec => []ResultStands
<1>1. ASSUME LaunchInv PROVE ResultStands
  <2>1. SUFFICES ASSUME NEW r \in Run, NEW l, l = latest[r], l # None, l \in alone,
                        result[l] # None
                 PROVE  completion[r] = result[l]
        BY DEF ResultStands
  <2>2. l \in Launch /\ RunOf[l] = r
        BY <1>1, <2>1 DEF LaunchInv, LaunchTypes, Launched
  <2>3. Sole(l) /\ Mine(l)
        BY <1>1, <2>1, <2>2 DEF LaunchInv, Own, Sole
  <2>4. QED
        BY <2>1, <2>2, <2>3 DEF Mine
<1>2. QED
      BY <1>1, LaunchInvariant, PTL

\* Who asks after a run whose loop has said that it ended is never told that the
\* run goes on or is dead, whatever is written, removed or killed between the
\* files it reads.
THEOREM EndedRunsAreTold == ASSUME LaunchAssumption PROVE Spec => []EndedIsTold
<1>1. ASSUME LaunchInv PROVE EndedIsTold
  <2>1. told.over # None => RunOf[told.over] = told.run
        BY <1>1 DEF LaunchInv, Asking
  <2>2. QED
        BY <1>1, <2>1 DEF LaunchInv, Asking, EndedIsTold, Sole
<1>2. QED
      BY <1>1, LaunchInvariant, PTL

=============================================================================
