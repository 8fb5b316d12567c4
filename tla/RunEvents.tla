------------------------------ MODULE RunEvents ------------------------------
(***************************************************************************)
(* The two event logs of a Drive run and those who read them.  The event   *)
(* sink writes a driver event as a line of events.jsonl, the legacy log,   *)
(* and mirrors it into orchestration-events.jsonl, the normalized log,     *)
(* through a store object of its own, while the scheduler appends its step *)
(* events through another.  The driver waits for the sink; the activities  *)
(* of an agent in the same process are handed to the sink without waiting. *)
(* A store numbers an event with the latest number it has cached.          *)
(*                                                                         *)
(* watch_events pages the legacy events by line count, from the normalized *)
(* log or, where that is incomplete, from the legacy one; run_watch pages  *)
(* the normalized log by sequence number.                                  *)
(*                                                                         *)
(* An append of a line is one step.  Left out: what an event says, the     *)
(* session's bus, and diagnostics, which have no number.                   *)
(***************************************************************************)
EXTENDS Integers, Sequences, FiniteSets, SequencesExt

CONSTANTS
  Driver,       \* number of driver events: 1 .. Driver
  Scheduler,    \* number of scheduler events: Driver + 1 .. Driver + Scheduler
  Activity,     \* the driver events nobody waits for
  MaxFailures,  \* bound: appends and marker writes that fail
  MaxCrashes,   \* bound: crashes of the process
  MaxReads      \* bound: pages that each reader asks for

EventsAssumption ==
  /\ Driver \in Nat /\ Scheduler \in Nat /\ Activity \subseteq 1 .. Driver
  /\ MaxFailures \in Nat /\ MaxCrashes \in Nat /\ MaxReads \in Nat

DriverEvent == 1 .. Driver
Event == 1 .. Driver + Scheduler
StoreOf(e) == IF e \in DriverEvent THEN "sink" ELSE "scheduler"
Unknown == -1

VARIABLES
  call,       \* where the call for each event is
  due,        \* the number the store has given to it
  cached,     \* latestSeqByRun of the two store objects
  disabled,   \* the sink mirrors nothing any more
  legacy,     \* events.jsonl
  normalized, \* orchestration-events.jsonl: numbers and events
  marker,     \* compat-degraded.json is there
  watcher,    \* a caller of watch_events
  follower,   \* a caller of run_watch
  lapsed,     \* history: the mirror lost an event and said so to no page
  failures, crashes

calls == <<call, due>>
logs == <<legacy, normalized, marker>>
bounds == <<lapsed, failures, crashes>>
eventVars == <<calls, cached, disabled, logs, watcher, follower, bounds>>

InFlight(e) == call[e] \notin {"none", "done", "lost"}
At(e, where) == call' = [call EXCEPT ![e] = where]
Paging == watcher.count # Unknown \/ watcher.marked # "unread"
Lapses(when) == lapsed' = (lapsed \/ when)
Fails == failures < MaxFailures /\ failures' = failures + 1
Numbers == {normalized[i].seq : i \in DOMAIN normalized}
Latest == IF Numbers = {} THEN 0 ELSE CHOOSE n \in Numbers : \A m \in Numbers : m <= n

------------------------------------------------------------------------------
(* The event sink.                                                         *)

\* Events are emitted in order; the driver goes on when the sink is done with
\* those it waits for.
Emit(e) ==
  /\ e \in DriverEvent /\ call[e] = "none"
  /\ \A d \in 1 .. e - 1 : call[d] # "none" /\ (InFlight(d) => d \in Activity)
  /\ At(e, "line")
  /\ UNCHANGED <<due, cached, disabled, logs, watcher, follower, bounds>>

\* The legacy line comes first.
WriteLine(e) ==
  /\ call[e] = "line"
  /\ legacy' = Append(legacy, e)
  /\ At(e, IF disabled THEN "done" ELSE "ready")
  /\ UNCHANGED <<due, cached, disabled, normalized, marker, watcher, follower, bounds>>

\* The run record cannot be created: the sink mirrors nothing any more.
SetupFails(e) ==
  /\ call[e] = "ready" /\ StoreOf(e) = "sink" /\ cached["sink"] = Unknown /\ Fails /\ Lapses(Paging)
  /\ disabled' = TRUE
  /\ At(e, "marker")
  /\ UNCHANGED <<due, cached, logs, watcher, follower, crashes>>

\* Mutant: a failed append is reported, and not marked.
AppendFailsSilently(e) ==
  /\ call[e] = "append" /\ Fails /\ Lapses(Paging)
  /\ At(e, "done")
  /\ UNCHANGED <<due, cached, disabled, logs, watcher, follower, crashes>>

AppendFails(e) ==
  /\ call[e] = "append" /\ Fails /\ Lapses(Paging)
  /\ At(e, IF StoreOf(e) = "sink" THEN "marker" ELSE "done")
  /\ UNCHANGED <<due, cached, disabled, logs, watcher, follower, crashes>>

WriteMarker(e) ==
  /\ call[e] = "marker"
  /\ \/ marker' = TRUE /\ Lapses(Paging) /\ UNCHANGED failures
     \/ Fails /\ Lapses(TRUE) /\ UNCHANGED marker
  /\ At(e, "done")
  /\ UNCHANGED <<due, cached, disabled, legacy, normalized, watcher, follower, crashes>>

------------------------------------------------------------------------------
(* FileRunStore.appendEvent.                                               *)

\* The scheduler waits for each of its appends.
SchedulerEmits(e) ==
  /\ e \in Event \ DriverEvent /\ call[e] = "none"
  /\ \A d \in Driver + 1 .. e - 1 : call[d] # "none" /\ ~InFlight(d)
  /\ At(e, "ready")
  /\ UNCHANGED <<due, cached, disabled, logs, watcher, follower, bounds>>

\* Mutant: the number is the last one that was given, whoever gave it.
NumberAgain(e) ==
  /\ call[e] = "ready"
  /\ LET s == StoreOf(e)
         n == IF cached[s] = Unknown THEN Latest ELSE cached[s]
     IN  /\ cached' = [cached EXCEPT ![s] = n]
         /\ due' = [due EXCEPT ![e] = IF n = 0 THEN 1 ELSE n]
  /\ At(e, "append")
  /\ UNCHANGED <<disabled, logs, watcher, follower, bounds>>

\* latestSeq: the log is read once, and what this object appended is known.
Number(e) ==
  /\ call[e] = "ready"
  /\ LET s == StoreOf(e)
         n == IF cached[s] = Unknown THEN Latest ELSE cached[s]
     IN  /\ cached' = [cached EXCEPT ![s] = n]
         /\ due' = [due EXCEPT ![e] = n + 1]
  /\ At(e, "append")
  /\ UNCHANGED <<disabled, logs, watcher, follower, bounds>>

AppendLine(e) ==
  /\ call[e] = "append"
  /\ normalized' = Append(normalized, [seq |-> due[e], event |-> e])
  /\ cached' = [cached EXCEPT ![StoreOf(e)] = due[e]]
  /\ At(e, "done")
  /\ UNCHANGED <<due, disabled, legacy, marker, watcher, follower, bounds>>

\* What was on its way is lost; the run is resumed by a process with new
\* store objects and a new sink.
Crash ==
  /\ crashes < MaxCrashes /\ crashes' = crashes + 1
  /\ Lapses(Paging \/ \E e \in DriverEvent : call[e] \in {"ready", "append", "marker"})
  /\ call' = [e \in Event |-> IF InFlight(e) THEN "lost" ELSE call[e]]
  /\ cached' = [s \in DOMAIN cached |-> Unknown]
  /\ disabled' = FALSE
  /\ UNCHANGED <<due, logs, watcher, follower, failures>>

------------------------------------------------------------------------------
(* watch_events (watchDriverEventsCompat).                                 *)

\* readEvents sorts by number; lines of one number keep their order.
Rebuilt ==
  LET sorted == SortSeq([i \in DOMAIN normalized |-> normalized[i] @@ [at |-> i]],
                        LAMBDA a, b : a.seq < b.seq \/ (a.seq = b.seq /\ a.at < b.at))
      mirrored == SelectSeq(sorted, LAMBDA x : x.event \in DriverEvent)
  IN  [i \in DOMAIN mirrored |-> mirrored[i].event]

\* The line count and the marker are read side by side.
CountLines ==
  /\ watcher.reads < MaxReads /\ watcher.count = Unknown
  /\ watcher' = [watcher EXCEPT !.count = Len(legacy)]
  /\ UNCHANGED <<calls, cached, disabled, logs, follower, bounds>>

LookForMarker ==
  /\ watcher.reads < MaxReads /\ watcher.marked = "unread"
  /\ watcher' = [watcher EXCEPT !.marked = IF marker THEN "yes" ELSE "no"]
  /\ UNCHANGED <<calls, cached, disabled, logs, follower, bounds>>

\* The events behind the cursor, which becomes the number of all events.
Page(events) ==
  watcher' = [watcher EXCEPT
                !.got = IF watcher.cursor >= Len(events) THEN @
                        ELSE @ \o SubSeq(events, watcher.cursor + 1, Len(events)),
                !.cursor = IF @ >= Len(events) THEN @ ELSE Len(events),
                !.reads = @ + 1, !.count = Unknown, !.marked = "unread",
                !.from = "either"]

ReadNormalized ==
  /\ watcher.count # Unknown /\ watcher.marked # "unread" /\ watcher.from = "either"
  /\ IF watcher.marked = "yes" \/ Len(Rebuilt) < watcher.count
       THEN watcher' = [watcher EXCEPT !.from = "legacy"]
       ELSE Page(Rebuilt)
  /\ UNCHANGED <<calls, cached, disabled, logs, follower, bounds>>

FallBack ==
  /\ watcher.from = "legacy"
  /\ Page(legacy)
  /\ UNCHANGED <<calls, cached, disabled, logs, follower, bounds>>

------------------------------------------------------------------------------
(* run_watch.                                                              *)

Follow ==
  /\ follower.reads < MaxReads
  /\ follower' = [cursor |-> Latest,
                  given  |-> follower.given \cup
                             {normalized[i].event : i \in
                                {j \in DOMAIN normalized :
                                   normalized[j].seq > follower.cursor}},
                  reads  |-> follower.reads + 1]
  /\ UNCHANGED <<calls, cached, disabled, logs, watcher, bounds>>

------------------------------------------------------------------------------
Init ==
  /\ call = [e \in Event |-> "none"] /\ due = [e \in Event |-> 0]
  /\ cached = [s \in {"sink", "scheduler"} |-> Unknown] /\ disabled = FALSE
  /\ legacy = <<>> /\ normalized = <<>> /\ marker = FALSE
  /\ watcher = [cursor |-> 0, got |-> <<>>, count |-> Unknown, marked |-> "unread",
                from |-> "either", reads |-> 0]
  /\ follower = [cursor |-> 0, given |-> {}, reads |-> 0]
  /\ lapsed = FALSE /\ failures = 0 /\ crashes = 0

Next ==
  \/ \E e \in Event :
       \/ Emit(e) \/ WriteLine(e) \/ SetupFails(e) \/ AppendFails(e)
       \/ WriteMarker(e) \/ SchedulerEmits(e) \/ Number(e) \/ AppendLine(e)
  \/ CountLines \/ LookForMarker \/ ReadNormalized \/ FallBack \/ Follow \/ Crash

Spec == Init /\ [][Next]_eventVars

------------------------------------------------------------------------------
TypeOK ==
  /\ call \in [Event -> {"none", "line", "ready", "append", "marker", "done", "lost"}]
  /\ due \in [Event -> Nat] /\ cached \in [{"sink", "scheduler"} -> Nat \cup {Unknown}]
  /\ disabled \in BOOLEAN /\ marker \in BOOLEAN
  /\ \A i \in DOMAIN legacy : legacy[i] \in DriverEvent
  /\ \A i \in DOMAIN normalized : normalized[i] \in [seq : Nat, event : Event]
  /\ watcher.cursor \in Nat /\ watcher.from \in {"either", "legacy"}
  /\ follower.cursor \in Nat /\ follower.given \subseteq Event
  /\ failures \in 0 .. MaxFailures /\ crashes \in 0 .. MaxCrashes

\* Whoever pages watch_events with the cursor it returned is given each line of
\* the legacy log once and in its order, although the pages come now from one
\* log, now from the other, appends fail between two pages and the run is
\* resumed after a crash; as long as everybody waits for the sink, and no event
\* was lost to the mirror unmarked, or while a page was put together.
PagesEachOnce == Activity = {} /\ ~lapsed => IsPrefix(watcher.got, legacy)

\* Whoever pages run_watch with the cursor it returned is given every event but
\* those that have their number in common with one of the other store: what a
\* store appends comes into the log behind the cursor only where the other has
\* been, although numbers are given before the lines are written, appends fail
\* and the stores are made anew after a crash.
FollowerMissesOnlyTwins ==
  \A i \in DOMAIN normalized :
    normalized[i].seq <= follower.cursor =>
      \/ normalized[i].event \in follower.given
      \/ \E j \in DOMAIN normalized :
           /\ normalized[j].seq = normalized[i].seq
           /\ StoreOf(normalized[j].event) # StoreOf(normalized[i].event)

\* Not what holds, as soon as both stores append: the follower is given every
\* event that its cursor has passed.
FollowerMissesNothing ==
  \A i \in DOMAIN normalized :
    normalized[i].seq <= follower.cursor => normalized[i].event \in follower.given

=============================================================================
