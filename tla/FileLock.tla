------------------------------ MODULE FileLock ------------------------------
(***************************************************************************)
(* The lock file of lib/tasks/lock.ts (withTaskCreateLock), whose          *)
(* algorithm lib/driver/lock.ts shares.  A caller links a file of its own  *)
(* to the path of the lock; when the path is taken it reads who holds it,  *)
(* removes the file of an owner that is dead, and tries again.             *)
(*                                                                         *)
(* Callers live in processes, and a process may end at any time, with the  *)
(* lock or without.  Every file operation is an action of its own.  The    *)
(* file holds pid and uuid, for which the caller stands.                   *)
(***************************************************************************)
EXTENDS FiniteSets

CONSTANTS
  Caller,    \* calls of withTaskCreateLock
  Process,   \* pids
  Runs,      \* the process of each caller
  Mortal,    \* bound: the processes that may end
  NoCaller

ASSUME LockAssumption ==
  /\ Runs \in [Caller -> Process]
  /\ Mortal \subseteq Process
  /\ NoCaller \notin Caller

VARIABLES
  lock,    \* whose content the lock file has
  seen,    \* the owner each caller read in it
  place,   \* where each caller is
  dead     \* processes that have ended

lockVars == <<lock, seen, place, dead>>

Place == {"out", "try", "exists", "check", "stale", "inside", "release", "unlink"}

LockTypeOK ==
  /\ lock \in Caller \cup {NoCaller}
  /\ seen \in [Caller -> Caller \cup {NoCaller}]
  /\ place \in [Caller -> Place]
  /\ dead \subseteq Process

Alive(c) == Runs[c] \notin dead

At(c, here) == place[c] = here /\ Alive(c)
Goto(c, there) == place' = [place EXCEPT ![c] = there]

Enter(c) == At(c, "out") /\ Goto(c, "try") /\ UNCHANGED <<lock, seen, dead>>

\* Mutant: the file is renamed onto the path, which replaces a lock.
CreateByRename(c) ==
  /\ At(c, "try")
  /\ lock' = c
  /\ Goto(c, "inside")
  /\ UNCHANGED <<seen, dead>>

\* link(2) is atomic: it creates the lock with its content, or fails.
Create(c) ==
  /\ At(c, "try")
  /\ lock = NoCaller
  /\ lock' = c
  /\ Goto(c, "inside")
  /\ UNCHANGED <<seen, dead>>

Exists(c) ==
  /\ At(c, "try")
  /\ lock # NoCaller
  /\ Goto(c, "exists")
  /\ UNCHANGED <<lock, seen, dead>>

ReadLock(c) ==
  /\ At(c, "exists")
  /\ seen' = [seen EXCEPT ![c] = lock]
  /\ Goto(c, IF lock = NoCaller THEN "try" ELSE "check")
  /\ UNCHANGED <<lock, dead>>

\* Mutant: whoever holds the lock is taken to be alive.
CheckOwnerTrusting(c) ==
  /\ At(c, "check")
  /\ Goto(c, "try")
  /\ seen' = [seen EXCEPT ![c] = NoCaller]
  /\ UNCHANGED <<lock, dead>>

\* isProcessAlive, and the delay before the next attempt.
CheckOwner(c) ==
  /\ At(c, "check")
  /\ Goto(c, IF Runs[seen[c]] \in dead THEN "stale" ELSE "try")
  /\ seen' = [seen EXCEPT ![c] = NoCaller]
  /\ UNCHANGED <<lock, dead>>

\* The file is removed, whoever it belongs to by now.
BreakStale(c) ==
  /\ At(c, "stale")
  /\ lock' = NoCaller
  /\ Goto(c, "try")
  /\ UNCHANGED <<seen, dead>>

Leave(c) == At(c, "inside") /\ Goto(c, "release") /\ UNCHANGED <<lock, seen, dead>>

\* release: a lock that has become another's is left alone.
ReadOwn(c) ==
  /\ At(c, "release")
  /\ Goto(c, IF lock = c THEN "unlink" ELSE "out")
  /\ UNCHANGED <<lock, seen, dead>>

Unlink(c) ==
  /\ At(c, "unlink")
  /\ lock' = NoCaller
  /\ Goto(c, "out")
  /\ UNCHANGED <<seen, dead>>

\* The process of some callers is killed, or ends.
Die(p) ==
  /\ p \in Mortal \ dead
  /\ dead' = dead \cup {p}
  /\ UNCHANGED <<lock, seen, place>>

LockInit ==
  /\ lock = NoCaller
  /\ seen = [c \in Caller |-> NoCaller]
  /\ place = [c \in Caller |-> "out"]
  /\ dead = {}

\* The steps of a caller between Enter and being inside.
Acquire(c) ==
  Create(c) \/ Exists(c) \/ ReadLock(c) \/ CheckOwner(c) \/ BreakStale(c)

Release(c) == ReadOwn(c) \/ Unlink(c)

LockNext ==
  \/ \E c \in Caller : Enter(c) \/ Acquire(c) \/ Leave(c) \/ Release(c)
  \/ \E p \in Process : Die(p)

LockSpec == LockInit /\ [][LockNext]_lockVars

\* Callers that the lock lets into the critical section and that still run.
Inside == {c \in Caller : Alive(c) /\ place[c] = "inside"}

\* At most one living caller is in the critical section.
MutualExclusion == \A c, d \in Inside : c = d

=============================================================================
