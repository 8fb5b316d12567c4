-------------------------------- MODULE RunInit --------------------------------
(***************************************************************************)
(* How runStart makes or adopts a run before the first scheduler pass.     *)
(* Starters, of this or of other processes, take the run's initialization  *)
(* lock, a directory; the first writes run.json, the graph, a record for   *)
(* each step and the run_started event, the others find all that, or put   *)
(* in what is missing, or are refused because the run has another graph.   *)
(*                                                                         *)
(* A write of a file is one step.  A graph is the set of its steps.  Left  *)
(* out: invalid files, the scheduler's state file and diagnostics.         *)
(***************************************************************************)
EXTENDS Integers, FiniteSets

CONSTANTS
  Starter,     \* callers of runStart
  Wants,       \* the graph of each
  MaxCrashes,  \* bound: processes that die
  MaxStarts    \* bound: calls of runStart

InitAssumption ==
  /\ \A p \in Starter : IsFiniteSet(Wants[p]) /\ Wants[p] # {}
  /\ MaxCrashes \in Nat /\ MaxStarts \in Nat

VARIABLES
  at,       \* where each starter is
  lock,     \* .init.lock is there
  run,      \* the status in run.json, "none" before there is one
  graph,    \* the graph in graph.json
  records,  \* the steps that have a record
  started,  \* the run_started events in the log
  seen,     \* the records each starter has found or written
  crashes, starts

disk == <<run, graph, records, started>>
initVars == <<at, lock, disk, seen, crashes, starts>>

Goto(p, w) == at' = [at EXCEPT ![p] = w]
InLock == {"load", "create", "createRun", "read", "graph", "seed", "look", "append",
           "refuse", "unlock", "leave"}

Call(p) ==
  /\ at[p] = "idle" /\ starts < MaxStarts
  /\ starts' = starts + 1 /\ Goto(p, "waiting")
  /\ UNCHANGED <<lock, disk, seen, crashes>>

\* Mutant: the lock directory is made whether it exists or not.
LockFreeAlways == TRUE

\* mkdir succeeds for one of those who try every 10 ms.
LockFree == ~lock

Enter(p) ==
  /\ at[p] = "waiting" /\ LockFree
  /\ lock' = TRUE /\ Goto(p, "load")
  /\ UNCHANGED <<disk, seen, crashes, starts>>

Load(p) ==
  /\ at[p] = "load"
  /\ Goto(p, IF run = "none" THEN "create" ELSE "read")
  /\ UNCHANGED <<lock, disk, seen, crashes, starts>>

\* createRun: an empty graph first, run.json last.
CreateGraph(p) ==
  /\ at[p] = "create"
  /\ graph' = {} /\ Goto(p, "createRun")
  /\ UNCHANGED <<lock, run, records, started, seen, crashes, starts>>

CreateRun(p) ==
  /\ at[p] = "createRun"
  /\ run' = "pending" /\ Goto(p, "read")
  /\ UNCHANGED <<lock, graph, records, started, seen, crashes, starts>>

\* Mutant: whatever graph there is will do.
AcceptAny(p, g, r) == g # {} \/ r = {}

\* The persisted graph is the starter's, or is empty and nothing was recorded.
Accept(p, g, r) == IF g = {} THEN r = {} ELSE g = Wants[p]

Read(p) ==
  /\ at[p] = "read"
  /\ seen' = [seen EXCEPT ![p] = records]
  /\ Goto(p, IF ~Accept(p, graph, records) THEN "refuse"
             ELSE IF graph = {} THEN "graph" ELSE "seed")
  /\ UNCHANGED <<lock, disk, crashes, starts>>

WriteGraph(p) ==
  /\ at[p] = "graph"
  /\ graph' = Wants[p] /\ Goto(p, "seed")
  /\ UNCHANGED <<lock, run, records, started, seen, crashes, starts>>

\* seedMissingStepRecords: those that were missing when the records were listed.
Seed(p) ==
  /\ at[p] = "seed"
  /\ LET missing == Wants[p] \ seen[p]
     IN  IF missing = {} THEN Goto(p, "look") /\ UNCHANGED <<records, seen>>
         ELSE \E s \in missing :
                /\ records' = records \cup {s}
                /\ seen' = [seen EXCEPT ![p] = @ \cup {s}]
                /\ UNCHANGED at
  /\ UNCHANGED <<lock, run, graph, started, crashes, starts>>

LookForStart(p) ==
  /\ at[p] = "look"
  /\ Goto(p, IF started = 0 THEN "append" ELSE "leave")
  /\ UNCHANGED <<lock, disk, seen, crashes, starts>>

\* appendEvent: the line, then run.json; they are one step here, for whoever
\* looks for the line holds the lock.
AppendStart(p) ==
  /\ at[p] = "append"
  /\ started' = started + 1
  /\ run' = IF run = "pending" THEN "running" ELSE run
  /\ Goto(p, "leave")
  /\ UNCHANGED <<lock, graph, records, seen, crashes, starts>>

\* graphMismatchInterruption: the graph stays; run.json becomes blocked even if the
\* run has completed.
Refuse(p) ==
  /\ at[p] = "refuse"
  /\ run' = "blocked" /\ Goto(p, "unlock")
  /\ UNCHANGED <<lock, graph, records, started, seen, crashes, starts>>

Leave(p) ==
  /\ at[p] \in {"leave", "unlock"}
  /\ lock' = FALSE
  /\ Goto(p, IF at[p] = "leave" THEN "on" ELSE "idle")
  /\ UNCHANGED <<disk, seen, crashes, starts>>

\* The passes, as far as they matter here: run.json gets the outcome.
Finish(p) ==
  /\ at[p] = "on"
  /\ run' = "completed" /\ Goto(p, "idle")
  /\ UNCHANGED <<lock, graph, records, started, seen, crashes, starts>>

\* The lock directory outlives the process that made it.
Crash(p) ==
  /\ at[p] # "idle" /\ crashes < MaxCrashes
  /\ crashes' = crashes + 1 /\ Goto(p, "idle")
  /\ UNCHANGED <<lock, disk, seen, starts>>

\* A Drive run has been created by the event sink, with an empty graph.
Init ==
  /\ at = [p \in Starter |-> "idle"] /\ lock = FALSE
  /\ run \in {"none", "pending"} /\ graph = {} /\ records = {} /\ started = 0
  /\ seen = [p \in Starter |-> {}]
  /\ crashes = 0 /\ starts = 0

Next ==
  \E p \in Starter :
    \/ Call(p) \/ Enter(p) \/ Load(p) \/ CreateGraph(p) \/ CreateRun(p) \/ Read(p)
    \/ WriteGraph(p) \/ Seed(p) \/ LookForStart(p) \/ AppendStart(p) \/ Refuse(p)
    \/ Leave(p) \/ Finish(p) \/ Crash(p)

Spec == Init /\ [][Next]_initVars

------------------------------------------------------------------------------
TypeOK ==
  /\ at \in [Starter -> {"idle", "waiting", "on"} \cup InLock] /\ lock \in BOOLEAN
  /\ run \in {"none", "pending", "running", "blocked", "completed"}
  /\ started \in Nat /\ crashes \in 0 .. MaxCrashes /\ starts \in 0 .. MaxStarts

\* Whoever goes on to the scheduler finds its own graph, a record of every step and
\* one run_started event, however many start the run, with whatever graphs, and
\* wherever one of them dies; and finds it as long as it works.
StarterFindsItsRun ==
  \A p \in Starter : at[p] = "on" =>
    run # "none" /\ graph = Wants[p] /\ graph \subseteq records /\ started = 1

=============================================================================
