----------------------------- MODULE PlanArchive -----------------------------
(***************************************************************************)
(* A plan: the directory missions/plans/<slug> with plan.md and spec.md,   *)
(* the tasks that carry its label and the directory of its sessions        *)
(* (src/lib/plans).  Plans are created, edited, deleted and archived from  *)
(* the command line and by agents' tools, without a lock: every call reads *)
(* first and acts later.  Archiving moves three kinds of file one after    *)
(* the other, and does not take back what it has moved when a step fails.  *)
(*                                                                         *)
(* One slug is followed.  A life is what one creation made under it.  Left *)
(* out: an ID that is the beginning of another one, as TASK-100 is of      *)
(* TASK-1000, whose file archiving then takes if the first one has none.   *)
(***************************************************************************)
EXTENDS Naturals, FiniteSets

CONSTANTS Task,      \* tasks that carry, or will carry, the label of the plan
          None,
          MaxCalls,  \* bounds the uses of the commands and tools
          MaxStops,  \* bounds the calls that die or meet an error half-way
          MaxEdits   \* bounds what happens to the tasks

PlanAssumption == MaxCalls \in Nat /\ MaxStops \in Nat /\ MaxEdits \in Nat

Call == 1 .. MaxCalls  \* in the order in which they begin

VARIABLES doc,      \* plan.md: [life, edits], or None
          spec,     \* spec.md: the call that wrote it, or None
          archive,  \* missions/archive/plans/<slug>: [doc, spec], or None
          task,     \* task -> [at, done, name]: the file is named after its title
          sessions, \* "none", "active", "archived", "both": directories of the plan's sessions
          call,     \* call -> [op, step, saw, tasks, files, spec]
          lives,    \* the lives there have been
          deleted,  \* lives that were deleted
          overlaps, \* calls that ran at the same time as another
          late,     \* tasks made or changed after an archive had listed them
          stopped,  \* calls that did not end
          edits
vars == <<doc, spec, archive, task, sessions, call, lives, deleted, overlaps, late, stopped, edits>>
history == <<lives, deleted, late, stopped, edits>>

Idle == [op |-> None, step |-> "idle", saw |-> None, tasks |-> {}, files |-> {}, spec |-> FALSE]
Under(c) == call[c].step \notin {"idle", "done"}
Moving == \E c \in Call : call[c].step \in {"files", "tasks"}

TypeOK ==
    /\ doc # None => doc.life \in 1 .. lives /\ doc.edits \subseteq Call
    /\ spec \in Call \cup {None}
    /\ archive # None => archive.doc = None \/ archive.doc.life \in 1 .. lives
    /\ task \in [Task -> [at : {"none", "active", "archive"}, done : BOOLEAN, name : 0 .. MaxEdits]]
    /\ sessions \in {"none", "active", "archived", "both"}
    /\ \A c \in Call : call[c].tasks \subseteq Task
    /\ deleted \subseteq 1 .. lives /\ late \subseteq Task /\ stopped \subseteq Call

-----------------------------------------------------------------------------
\* what a call knew goes with it
Over == [Idle EXCEPT !.step = "done"]
To(c, step) ==
    call' = [call EXCEPT ![c] = IF step = "done" THEN Over ELSE [@ EXCEPT !.step = step]]

\* a command or a tool is called
Start(c, op, withSpec) ==
    /\ call[c] = Idle /\ \A d \in 1 .. c - 1 : call[d] # Idle
    /\ call' = [call EXCEPT ![c] = [Idle EXCEPT !.op = op, !.step = "look", !.spec = withSpec]]
    /\ overlaps' = overlaps \cup (IF \E d \in Call : Under(d) THEN {c} \cup {d \in Call : Under(d)}
                                  ELSE {})
    /\ UNCHANGED <<doc, spec, archive, task, sessions, history>>

\* Mutant of Exists: the archive is looked at.
ExistsInArchive == archive # None

\* createPlan: a plan with a plan.md is refused
Exists == doc # None
CreateLooks(c) ==
    /\ call[c].op = "create" /\ call[c].step = "look"
    /\ To(c, IF Exists THEN "done" ELSE "write")
    /\ UNCHANGED <<doc, spec, archive, task, sessions, overlaps, history>>
CreateWrites(c) ==
    /\ call[c].op = "create" /\ call[c].step = "write"
    /\ doc' = [life |-> lives + 1, edits |-> {}] /\ lives' = lives + 1
    /\ To(c, IF call[c].spec THEN "spec" ELSE "done")
    /\ UNCHANGED <<spec, archive, task, sessions, deleted, overlaps, late, stopped, edits>>

\* updatePlan writes back all of the document it read, into a directory it makes again
UpdateReads(c) ==
    /\ call[c].op = "update" /\ call[c].step = "look"
    /\ IF doc = None THEN To(c, "done")
       ELSE call' = [call EXCEPT ![c].saw = doc, ![c].step = "write"]
    /\ UNCHANGED <<doc, spec, archive, task, sessions, overlaps, history>>
UpdateWrites(c) ==
    /\ call[c].op = "update" /\ call[c].step = "write"
    /\ doc' = [call[c].saw EXCEPT !.edits = @ \cup {c}]
    /\ To(c, IF call[c].spec THEN "spec" ELSE "done")
    /\ UNCHANGED <<spec, archive, task, sessions, overlaps, history>>

\* writeSpecFile
WriteSpec(c) ==
    /\ call[c].step = "spec" /\ spec' = c /\ To(c, "done")
    /\ UNCHANGED <<doc, archive, task, sessions, overlaps, history>>

\* plan delete shows the plan, asks, and looks again
DeleteShows(c) ==
    /\ call[c].op = "delete" /\ call[c].step = "look"
    /\ To(c, IF doc = None THEN "done" ELSE "asked")
    /\ UNCHANGED <<doc, spec, archive, task, sessions, overlaps, history>>
Confirm(c, yes) ==
    /\ call[c].step = "asked"
    /\ To(c, IF yes /\ doc # None THEN "remove" ELSE "done")
    /\ UNCHANGED <<doc, spec, archive, task, sessions, overlaps, history>>

\* deletePlanDirectory: the tasks keep their label
Remove(c) ==
    /\ call[c].step = "remove"
    /\ doc' = None /\ spec' = None /\ To(c, "done")
    /\ deleted' = deleted \cup (IF doc = None THEN {} ELSE {doc.life})
    /\ UNCHANGED <<archive, task, sessions, lives, overlaps, late, stopped, edits>>

-----------------------------------------------------------------------------
(* archivePlan.                                                            *)

ArchiveReads(c) ==
    /\ call[c].op = "archive" /\ call[c].step = "look"
    /\ To(c, IF doc = None THEN "done" ELSE "list")
    /\ UNCHANGED <<doc, spec, archive, task, sessions, overlaps, history>>

\* Mutant of Labelled: the tasks that are not done are not seen.
LabelledDone == {t \in Task : task[t].at = "active" /\ task[t].done}

\* listTasks by the label of the plan
Labelled == {t \in Task : task[t].at = "active"}
ArchiveLists(c) ==
    /\ call[c].step = "list"
    /\ IF \A t \in Labelled : task[t].done
       THEN call' = [call EXCEPT ![c].tasks = Labelled, ![c].step = "plan"]
       ELSE To(c, "done")
    /\ UNCHANGED <<doc, spec, archive, task, sessions, overlaps, history>>

\* rename fails if the directory is gone, or if the archive has one of that name
ArchiveMovesPlan(c) ==
    /\ call[c].step = "plan"
    /\ IF archive = None /\ (doc # None \/ spec # None)
       THEN /\ archive' = [doc |-> doc, spec |-> spec] /\ doc' = None /\ spec' = None
            /\ To(c, IF call[c].tasks = {} THEN "tasks" ELSE "files")
       ELSE To(c, "done") /\ UNCHANGED <<doc, spec, archive>>
    /\ UNCHANGED <<task, sessions, overlaps, history>>

\* the directory of the tasks is read once
ArchiveListsFiles(c) ==
    /\ call[c].step = "files"
    /\ call' = [call EXCEPT ![c].step = "tasks",
                            ![c].files = {<<t, task[t].name>> : t \in Labelled}]
    /\ UNCHANGED <<doc, spec, archive, task, sessions, overlaps, history>>

\* a task without a file among them is passed over; one whose file has gone from there since,
\* or has another name, makes the call throw
ArchiveMovesTask(c, t) ==
    /\ call[c].step = "tasks" /\ t \in call[c].tasks
    /\ LET listed == \E n \in 0 .. MaxEdits : <<t, n>> \in call[c].files
           there == task[t].at = "active" /\ <<t, task[t].name>> \in call[c].files
       IN /\ task' = [task EXCEPT ![t].at = IF there THEN "archive" ELSE @]
          /\ IF listed /\ ~there THEN To(c, "done") /\ stopped' = stopped \cup {c}
             ELSE call' = [call EXCEPT ![c].tasks = @ \ {t}] /\ UNCHANGED stopped
    /\ UNCHANGED <<doc, spec, archive, sessions, lives, deleted, overlaps, late, edits>>
ArchiveMovesSessions(c) ==
    /\ call[c].step = "tasks" /\ call[c].tasks = {}
    /\ To(c, "done")
    /\ sessions' = IF sessions = "active" THEN "archived" ELSE sessions
    /\ UNCHANGED <<doc, spec, archive, task, overlaps, history>>

-----------------------------------------------------------------------------
(* The tasks and the sessions of the plan, and calls that do not end.      *)

Change(t, to) ==
    /\ edits < MaxEdits /\ edits' = edits + 1
    /\ task' = [task EXCEPT ![t] = to]
    /\ late' = late \cup (IF doc = None \/ \E c \in Call : call[c].step \in {"plan", "files", "tasks"}
                          THEN {t} ELSE {})
    /\ UNCHANGED <<doc, spec, archive, sessions, call, lives, deleted, overlaps, stopped>>
TaskMade(t) == task[t].at = "none" /\ Change(t, [at |-> "active", done |-> FALSE, name |-> edits])
TaskTurns(t) == task[t].at = "active" /\ Change(t, [task[t] EXCEPT !.done = ~@])
TaskRetitled(t) == task[t].at = "active" /\ Change(t, [task[t] EXCEPT !.name = edits + 1])
TaskDeleted(t) == task[t].at = "active" /\ Change(t, [task[t] EXCEPT !.at = "none"])

\* an agent of the plan starts: the directory of its sessions is made if it has to be
SessionOpens ==
    /\ sessions \in {"none", "archived"} /\ edits < MaxEdits /\ edits' = edits + 1
    /\ sessions' = IF sessions = "none" THEN "active" ELSE "both"
    /\ UNCHANGED <<doc, spec, archive, task, call, lives, deleted, overlaps, late, stopped>>

\* rm -r may have removed one of the files
Stop(c) ==
    /\ Under(c) /\ Cardinality(stopped) < MaxStops
    /\ stopped' = stopped \cup {c} /\ To(c, "done")
    /\ \/ UNCHANGED <<doc, spec, deleted>>
       \/ /\ call[c].step = "remove" /\ doc # None
          /\ doc' = None /\ deleted' = deleted \cup {doc.life} /\ UNCHANGED spec
       \/ call[c].step = "remove" /\ spec' = None /\ UNCHANGED <<doc, deleted>>
    /\ UNCHANGED <<archive, task, sessions, lives, overlaps, late, edits>>

Init ==
    /\ doc = None /\ spec = None /\ archive = None
    /\ task \in [Task -> {[at |-> "none", done |-> FALSE, name |-> 0]} \cup
                     [at : {"active"}, done : BOOLEAN, name : {0}]]
    /\ sessions = "none"
    /\ call = [c \in Call |-> Idle]
    /\ lives = 0 /\ deleted = {} /\ overlaps = {} /\ late = {} /\ stopped = {} /\ edits = 0
Next ==
    \/ \E c \in Call :
         \/ \E op \in {"create", "update"} : \E s \in BOOLEAN : Start(c, op, s)
         \/ \E op \in {"delete", "archive"} : Start(c, op, FALSE)
         \/ \E yes \in BOOLEAN : Confirm(c, yes)
         \/ CreateLooks(c) \/ CreateWrites(c) \/ UpdateReads(c) \/ UpdateWrites(c) \/ WriteSpec(c)
         \/ DeleteShows(c) \/ Remove(c) \/ Stop(c)
         \/ ArchiveReads(c) \/ ArchiveLists(c) \/ ArchiveMovesPlan(c)
         \/ ArchiveListsFiles(c) \/ ArchiveMovesSessions(c)
         \/ \E t \in Task : ArchiveMovesTask(c, t)
    \/ \E t \in Task : TaskMade(t) \/ TaskTurns(t) \/ TaskRetitled(t) \/ TaskDeleted(t)
    \/ SessionOpens
Spec == Init /\ [][Next]_vars

-----------------------------------------------------------------------------
(* Properties.                                                             *)

\* What was written as a plan stays in its place or in the archive until someone deletes it: no
\* creation under a name in use and no archive of that name takes it away, whatever calls stopped
\* half-way.  Exempt are calls that ran at the same time, which nothing keeps apart.
PlansKept ==
    overlaps = {} =>
      \A n \in 1 .. lives : \/ doc # None /\ doc.life = n
                            \/ archive # None /\ archive.doc # None /\ archive.doc.life = n
                            \/ n \in deleted

\* An archived plan leaves no task behind: none of its tasks is active without it.  Exempt are
\* an archive under way or that ended with an error, tasks made or changed after its listing,
\* and plans deleted.
NoOrphans ==
    archive # None /\ doc = None /\ ~Moving /\ stopped = {} /\ deleted = {} =>
      \A t \in Task : task[t].at = "active" => t \in late

=============================================================================
