------------------------------ MODULE TaskStore ------------------------------
(***************************************************************************)
(* The task files of lib/tasks.  createTask allocates an ID under the lock *)
(* of FileLock: it reads every active task, then the names in the archive, *)
(* and takes the highest ID plus one.  updateTask, deleteTask and          *)
(* archivePlan take no lock.                                               *)
(*                                                                         *)
(* A file is named by the ID and the title of its task, and is empty       *)
(* between the open and the write of writeFile; an empty file is no task.  *)
(* Left out: the fields of a task other than ID and title, and the         *)
(* configuration with its prefix and padding.                              *)
(***************************************************************************)
EXTENDS Integers, FileLock, FiniteSetsExt

CONSTANTS
  MaxTitle,     \* titles are 1..MaxTitle, in the order of their names
  MaxTasks,     \* bound: tasks ever created
  MaxUpdates,   \* bound: updates ever made
  MaxMoves      \* bound: tasks ever archived or deleted

ASSUME StoreAssumption ==
  /\ MaxTitle \in Nat \ {0}
  /\ {MaxTasks, MaxUpdates, MaxMoves} \subseteq Nat

Task == 1..MaxTasks
Title == 1..MaxTitle
Name == [id: 1..MaxTasks, title: Title]
Missing == 0
Empty == -1
Directory == [Name -> {Missing, Empty} \cup Task]

VARIABLES
  active,     \* missions/tasks: the task in each file
  archive,    \* missions/archive/tasks
  at,         \* what each caller does in the store
  work,       \* the local variables of its call
  created,    \* number of creations begun
  updates,    \* number of updates begun
  moves,      \* number of files archived or deleted
  returned,   \* history: tasks whose creation returned
  deleted,    \* history: tasks whose file was deleted
  torn,       \* history: tasks an update truncated and has not rewritten
  overlap     \* history: <<t, u>> when an update of t overlapped the creation
              \* of u, and <<t, t>> when two updates of t overlapped

files == <<active, archive>>
history == <<returned, deleted, torn, overlap>>
bounds == <<created, updates, moves>>
storeVars == <<files, at, work, bounds, history>>
vars == <<lockVars, storeVars>>

Idle == [task |-> Missing, title |-> 1, old |-> 0, todo |-> {}, ids |-> {}, id |-> 0]

Present(dir) == {n \in Name : dir[n] # Missing}
Holding(dir, t) == {n \in Name : dir[n] = t}

\* listTaskFiles sorts by name.  IDs are below 10 in the model.
Before(n, m) == n.id < m.id \/ (n.id = m.id /\ n.title < m.title)
FirstOf(names) == CHOOSE n \in names : \A m \in names : n = m \/ Before(n, m)

\* findTaskFilenameById, and the file archivePlan takes for a task.
Found(i) == {n \in Present(active) : n.id = i}
FileOf(i) == FirstOf(Found(i))

Doing(c, what) == at[c] = what /\ Alive(c)
Step(c, what) == at' = [at EXCEPT ![c] = what]
Stop(c) == Step(c, "idle") /\ work' = [work EXCEPT ![c] = Idle]
Target(c) == [id |-> work[c].id, title |-> work[c].title]

\* The task in a file, and those on the way into it.
TasksOf(n) ==
  ({active[n]} \cap Task)
    \cup {work[c].task : c \in {d \in Caller : at[d] \in {"write", "refill"} /\ Target(d) = n}}

InCreation == {work[c].task : c \in {d \in Caller : at[d] \in {"read", "save", "write"}}}
InUpdate == {work[c].task : c \in {d \in Caller : at[d] \in {"rewrite", "refill", "drop"}}}

\* open(2) of writeFile: the file is created, or loses its content.
Truncate(n) == active' = [active EXCEPT ![n] = Empty] /\ UNCHANGED archive

\* write(2) on the file that was opened, which may have been moved or removed.
Fill(n, t) ==
  /\ active' = IF active[n] # Missing THEN [active EXCEPT ![n] = t] ELSE active
  /\ archive' = IF active[n] = Missing /\ archive[n] = Empty
                  THEN [archive EXCEPT ![n] = t] ELSE archive

------------------------------------------------------------------------------
(* createTask.                                                             *)

StartCreate(c, title) ==
  /\ at[c] = "idle"
  /\ created < MaxTasks
  /\ Enter(c)
  /\ created' = created + 1
  /\ Step(c, "lock")
  /\ work' = [work EXCEPT ![c] = [Idle EXCEPT !.task = created + 1, !.title = title]]
  /\ UNCHANGED <<files, updates, moves, history>>

ListActive(c) ==
  /\ Doing(c, "lock")
  /\ place[c] = "inside"
  /\ work' = [work EXCEPT ![c].todo = Present(active)]
  /\ Step(c, "read")
  /\ overlap' = overlap \cup (InUpdate \X {work[c].task})
  /\ UNCHANGED <<lockVars, files, bounds, returned, deleted, torn>>

\* readTaskFile: a file that is missing or empty counts for nothing.
ReadNext(c) ==
  /\ Doing(c, "read")
  /\ work[c].todo # {}
  /\ LET n == FirstOf(work[c].todo)
     IN  work' = [work EXCEPT ![c].todo = @ \ {n},
                              ![c].ids = IF active[n] \in Task THEN @ \cup {n.id} ELSE @]
  /\ UNCHANGED <<lockVars, files, at, bounds, history>>

\* Mutant: allocation looks at the active tasks alone.
AllocateFromActive(c) ==
  /\ Doing(c, "read")
  /\ work[c].todo = {}
  /\ work' = [work EXCEPT ![c].id = Max({0} \cup work[c].ids) + 1, ![c].ids = {}]
  /\ Step(c, "save")
  /\ UNCHANGED <<lockVars, files, bounds, history>>

\* Mutant: the highest ID itself is taken.
AllocateHighest(c) ==
  /\ Doing(c, "read")
  /\ work[c].todo = {}
  /\ LET taken == work[c].ids \cup {n.id : n \in Present(archive)}
     IN  work' = [work EXCEPT ![c].id = Max({0} \cup taken), ![c].ids = {}]
  /\ Step(c, "save")
  /\ UNCHANGED <<lockVars, files, bounds, history>>

\* listArchivedTaskFiles and generateNextId.
Allocate(c) ==
  /\ Doing(c, "read")
  /\ work[c].todo = {}
  /\ LET taken == work[c].ids \cup {n.id : n \in Present(archive)}
     IN  work' = [work EXCEPT ![c].id = Max({0} \cup taken) + 1, ![c].ids = {}]
  /\ Step(c, "save")
  /\ UNCHANGED <<lockVars, files, bounds, history>>

OpenNew(c) ==
  /\ Doing(c, "save")
  /\ Truncate(Target(c))
  /\ Step(c, "write")
  /\ UNCHANGED <<lockVars, work, bounds, history>>

\* The write succeeds, or fails; the lock is released either way.
WriteNew(c, ok) ==
  /\ Doing(c, "write")
  /\ IF ok THEN Fill(Target(c), work[c].task) ELSE UNCHANGED files
  /\ returned' = IF ok THEN returned \cup {work[c].task} ELSE returned
  /\ Leave(c)
  /\ Stop(c)
  /\ UNCHANGED <<bounds, deleted, torn, overlap>>

------------------------------------------------------------------------------
(* updateTask.                                                             *)

StartUpdate(c, i, title) ==
  /\ Doing(c, "idle")
  /\ place[c] = "out"
  /\ updates < MaxUpdates
  /\ Found(i) # {}
  /\ updates' = updates + 1
  /\ Step(c, "find")
  /\ work' = [work EXCEPT ![c] = [Idle EXCEPT !.id = i, !.title = title,
                                              !.old = FileOf(i).title]]
  /\ UNCHANGED <<lockVars, files, created, moves, history>>

OldName(c) == [id |-> work[c].id, title |-> work[c].old]
Renames(c) == work[c].old # work[c].title

\* getTask: what the file holds now; a file without a task ends the call.
ReadOld(c) ==
  /\ Doing(c, "find")
  /\ LET t == active[OldName(c)]
     IN  IF t \in Task
           THEN /\ work' = [work EXCEPT ![c].task = t]
                /\ Step(c, "rewrite")
                /\ overlap' = overlap \cup ({t} \X InCreation) \cup ({t} \X ({t} \cap InUpdate))
           ELSE Stop(c) /\ UNCHANGED overlap
  /\ UNCHANGED <<lockVars, files, bounds, returned, deleted, torn>>

\* Mutant: the old file goes before the new one is written.
OpenUpdatedDroppingOld(c) ==
  /\ Doing(c, "rewrite")
  /\ active' = [n \in Name |-> IF n = Target(c) THEN Empty
                               ELSE IF n = OldName(c) THEN Missing ELSE active[n]]
  /\ torn' = IF Renames(c) THEN torn ELSE torn \cup {work[c].task}
  /\ Step(c, "refill")
  /\ UNCHANGED <<lockVars, archive, work, bounds, returned, deleted, overlap>>

OpenUpdated(c) ==
  /\ Doing(c, "rewrite")
  /\ Truncate(Target(c))
  /\ torn' = IF Renames(c) THEN torn ELSE torn \cup {work[c].task}
  /\ Step(c, "refill")
  /\ UNCHANGED <<lockVars, work, bounds, returned, deleted, overlap>>

\* The write succeeds, or fails, which ends the call.
WriteUpdated(c, ok) ==
  /\ Doing(c, "refill")
  /\ IF ok THEN Fill(Target(c), work[c].task) ELSE UNCHANGED files
  /\ torn' = IF ok THEN torn \ {work[c].task} ELSE torn
  /\ IF ok /\ Renames(c) THEN Step(c, "drop") /\ UNCHANGED work ELSE Stop(c)
  /\ UNCHANGED <<lockVars, bounds, returned, deleted, overlap>>

DropOld(c) ==
  /\ Doing(c, "drop")
  /\ active' = [active EXCEPT ![OldName(c)] = Missing]
  /\ Stop(c)
  /\ UNCHANGED <<lockVars, archive, bounds, history>>

------------------------------------------------------------------------------
(* Other callers.                                                          *)

Delete(i) ==
  /\ moves < MaxMoves
  /\ Found(i) # {}
  /\ active' = [active EXCEPT ![FileOf(i)] = Missing]
  /\ deleted' = deleted \cup TasksOf(FileOf(i))
  /\ moves' = moves + 1
  /\ UNCHANGED <<lockVars, archive, at, work, created, updates, returned, torn, overlap>>

\* archivePlan for one task: the first file with its ID is moved.
Archive(t) ==
  /\ moves < MaxMoves
  /\ \E n \in Holding(active, t) :
       LET f == FileOf(n.id)
       IN  /\ archive' = [archive EXCEPT ![f] = active[f]]
           /\ active' = [active EXCEPT ![f] = Missing]
  /\ moves' = moves + 1
  /\ UNCHANGED <<lockVars, at, work, created, updates, history>>

------------------------------------------------------------------------------

Init ==
  /\ LockInit
  /\ active = [n \in Name |-> Missing]
  /\ archive = [n \in Name |-> Missing]
  /\ at = [c \in Caller |-> "idle"]
  /\ work = [c \in Caller |-> Idle]
  /\ created = 0 /\ updates = 0 /\ moves = 0
  /\ returned = {} /\ deleted = {} /\ torn = {} /\ overlap = {}

CreateStep(c) ==
  \/ ListActive(c) \/ ReadNext(c) \/ Allocate(c) \/ OpenNew(c)
  \/ \E ok \in BOOLEAN : WriteNew(c, ok)

UpdateStep(c) ==
  \/ ReadOld(c) \/ OpenUpdated(c) \/ DropOld(c)
  \/ \E ok \in BOOLEAN : WriteUpdated(c, ok)

LockStep(c) == (Acquire(c) \/ Release(c)) /\ UNCHANGED storeVars

Next ==
  \/ \E c \in Caller, title \in Title : StartCreate(c, title)
  \/ \E c \in Caller, title \in Title, i \in Task : StartUpdate(c, i, title)
  \/ \E c \in Caller : CreateStep(c) \/ UpdateStep(c) \/ LockStep(c)
  \/ \E t \in Task : Delete(t) \/ Archive(t)
  \/ \E p \in Process : Die(p) /\ UNCHANGED storeVars

Spec == Init /\ [][Next]_vars

\* Whoever began a call goes on with it while its process lives.
Fairness ==
  \A c \in Caller : WF_vars(CreateStep(c) \/ UpdateStep(c) \/ LockStep(c))

FairSpec == Spec /\ Fairness

------------------------------------------------------------------------------
(* Properties.                                                             *)

TypeOK ==
  /\ LockTypeOK
  /\ active \in Directory /\ archive \in Directory
  /\ at \in [Caller -> {"idle", "lock", "read", "save", "write",
                        "find", "rewrite", "refill", "drop"}]
  /\ \A c \in Caller : work[c].todo \subseteq Name
  /\ \A c \in Caller : at[c] \in {"save", "write", "rewrite", "refill", "drop"} =>
       Target(c) \in Name /\ work[c].task \in Task
  /\ returned \cup deleted \cup torn \subseteq Task
  /\ overlap \subseteq Task \X Task

\* Two tasks share an ID only when an update of one was under way while the
\* other was created, whatever else is created, archived, deleted or dies.
IdsDistinct ==
  \A dir, rid \in {active, archive} : \A n, m \in Name :
    /\ n.id = m.id /\ dir[n] \in Task /\ rid[m] \in Task
    /\ dir[n] # rid[m]
    => {<<dir[n], rid[m]>>, <<rid[m], dir[n]>>} \cap overlap # {}

\* A task that was created is in some file until it is deleted, except while
\* an update rewrites its file in place, or after one that died or failed
\* there, or where updates of it overlapped or its ID was allocated again.
NoTaskLost ==
  \A t \in returned \ deleted :
    \/ Holding(active, t) # {} \/ Holding(archive, t) # {}
    \/ t \in torn
    \/ \E u \in Task : {<<t, u>>, <<u, t>>} \cap overlap # {}

\* A creation that has begun ends, or its process does: a lock whose owner
\* died does not keep the others waiting.
CreatesReturn == \A c \in Caller : at[c] = "lock" ~> (at[c] = "idle" \/ ~Alive(c))

=============================================================================
