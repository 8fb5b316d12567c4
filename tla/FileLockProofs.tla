--------------------------- MODULE FileLockProofs ---------------------------
(* Theorems about FileLock, for any callers in any processes.              *)
EXTENDS FileLock, TLAPS

\* While no process has ended: who is in the critical section, or on the way
\* out of it, has the lock, and nobody takes a lock for stale.
HeldUntilADeath ==
  dead = {} =>
    \A c \in Caller :
      /\ place[c] \in {"inside", "release", "unlink"} => lock = c
      /\ place[c] # "stale"

\* Who checks an owner has read one.
OwnerSeen == \A c \in Caller : place[c] = "check" => seen[c] \in Caller

LockInv == LockTypeOK /\ OwnerSeen /\ HeldUntilADeath

LEMMA LockInitially == LockInit => LockInv
BY LockAssumption DEF LockInit, LockInv, LockTypeOK, OwnerSeen, HeldUntilADeath, Place

LEMMA LockStays == LockInv /\ [LockNext]_lockVars => LockInv'
<1> SUFFICES ASSUME LockInv, [LockNext]_lockVars PROVE LockInv'
    OBVIOUS
<1> USE LockAssumption DEF LockInv, LockTypeOK, OwnerSeen, HeldUntilADeath, Place,
                           At, Goto, Alive
<1>1. CASE UNCHANGED lockVars
      BY <1>1 DEF lockVars
<1>2. ASSUME NEW c \in Caller, Enter(c) PROVE LockInv'
      BY <1>2 DEF Enter
<1>3. ASSUME NEW c \in Caller, Create(c) PROVE LockInv'
      BY <1>3 DEF Create
<1>4. ASSUME NEW c \in Caller, Exists(c) PROVE LockInv'
      BY <1>4 DEF Exists
<1>5. ASSUME NEW c \in Caller, ReadLock(c) PROVE LockInv'
      BY <1>5 DEF ReadLock
<1>6. ASSUME NEW c \in Caller, CheckOwner(c) PROVE LockInv'
      BY <1>6 DEF CheckOwner
<1>7. ASSUME NEW c \in Caller, BreakStale(c) PROVE LockInv'
      BY <1>7 DEF BreakStale
<1>8. ASSUME NEW c \in Caller, Leave(c) PROVE LockInv'
      BY <1>8 DEF Leave
<1>9. ASSUME NEW c \in Caller, ReadOwn(c) PROVE LockInv'
      BY <1>9 DEF ReadOwn
<1>10. ASSUME NEW c \in Caller, Unlink(c) PROVE LockInv'
      BY <1>10 DEF Unlink
<1>11. ASSUME NEW p \in Process, Die(p) PROVE LockInv'
      BY <1>11 DEF Die
<1> QED
    BY <1>1, <1>2, <1>3, <1>4, <1>5, <1>6, <1>7, <1>8, <1>9, <1>10, <1>11
    DEF LockNext, Acquire, Release

\* The variables of the lock stay in their types (lock.ts).
THEOREM LockTypeCorrect == LockSpec => []LockTypeOK
<1>1. LockInv => LockTypeOK
      BY DEF LockInv
<1> QED
    BY LockInitially, LockStays, <1>1, PTL DEF LockSpec

\* As long as no process has ended, the lock excludes: at most one caller is
\* inside withTaskCreateLock, however many callers and processes there are.
\* After a death it need not be so, which a run shows.
THEOREM ExclusiveUntilADeath == LockSpec => [](dead = {} => MutualExclusion)
<1>1. LockInv => (dead = {} => MutualExclusion)
      BY DEF LockInv, HeldUntilADeath, MutualExclusion, Inside
<1> QED
    BY LockInitially, LockStays, <1>1, PTL DEF LockSpec

------------------------------------------------------------------------------
(* Two callers.                                                            *)

TwoCallers == \A a, b, c \in Caller : a = b \/ b = c \/ a = c

\* Of two callers, one that lives and found the lock stale is alone, and one
\* that is inside, or on the way out, has the lock.
AloneIfStale ==
  \A c \in Caller : place[c] = "stale" /\ Alive(c) =>
    \A d \in Caller : Alive(d) => d = c

OwnsInside ==
  \A c \in Caller : place[c] \in {"inside", "release", "unlink"} /\ Alive(c) => lock = c

PairInv == LockInv /\ AloneIfStale /\ OwnsInside

LEMMA PairInitially == LockInit => PairInv
BY LockInitially DEF LockInit, PairInv, AloneIfStale, OwnsInside

LEMMA PairExcludes == PairInv => MutualExclusion
BY DEF PairInv, OwnsInside, MutualExclusion, Inside

LEMMA PairStays ==
  ASSUME TwoCallers, PairInv, [LockNext]_lockVars
  PROVE  PairInv'
<1>1. LockInv'
    BY LockStays DEF PairInv
<1> SUFFICES AloneIfStale' /\ OwnsInside'
    BY <1>1 DEF PairInv
<1>2. LockTypeOK /\ OwnerSeen
    BY DEF PairInv, LockInv
<1> USE <1>2 DEF PairInv, LockTypeOK, AloneIfStale, OwnsInside, At, Goto, Alive
<1>3. CASE UNCHANGED lockVars
    BY <1>3 DEF lockVars
<1>4. ASSUME NEW c \in Caller, Enter(c) PROVE AloneIfStale' /\ OwnsInside'
    BY <1>4 DEF Enter
<1>5. ASSUME NEW c \in Caller, Create(c) PROVE AloneIfStale' /\ OwnsInside'
    BY <1>5, LockAssumption DEF Create
<1>6. ASSUME NEW c \in Caller, Exists(c) PROVE AloneIfStale' /\ OwnsInside'
    BY <1>6 DEF Exists
<1>7. ASSUME NEW c \in Caller, ReadLock(c) PROVE AloneIfStale' /\ OwnsInside'
    BY <1>7 DEF ReadLock
<1>8. ASSUME NEW c \in Caller, CheckOwner(c) PROVE AloneIfStale' /\ OwnsInside'
  <2>1. seen[c] \in Caller
      BY <1>8 DEF CheckOwner, OwnerSeen
  <2>2. Runs[seen[c]] \in dead => \A d \in Caller : Alive(d) => d = c
      BY <1>8, <2>1 DEF CheckOwner, TwoCallers
  <2> QED
      BY <1>8, <2>2 DEF CheckOwner
<1>9. ASSUME NEW c \in Caller, BreakStale(c) PROVE AloneIfStale' /\ OwnsInside'
    BY <1>9 DEF BreakStale
<1>10. ASSUME NEW c \in Caller, Leave(c) PROVE AloneIfStale' /\ OwnsInside'
    BY <1>10 DEF Leave
<1>11. ASSUME NEW c \in Caller, ReadOwn(c) PROVE AloneIfStale' /\ OwnsInside'
    BY <1>11 DEF ReadOwn
<1>12. ASSUME NEW c \in Caller, Unlink(c) PROVE AloneIfStale' /\ OwnsInside'
    BY <1>12 DEF Unlink
<1>13. ASSUME NEW p \in Process, Die(p) PROVE AloneIfStale' /\ OwnsInside'
    BY <1>13 DEF Die
<1> QED
    BY <1>3, <1>4, <1>5, <1>6, <1>7, <1>8, <1>9, <1>10, <1>11, <1>12, <1>13
    DEF LockNext, Acquire, Release

\* Two callers exclude each other whichever of them dies, wherever: one that
\* finds the owner dead has nobody to contend with.  A third one spoils it.
THEOREM TwoCallersExclude ==
  ASSUME TwoCallers
  PROVE  LockSpec => []MutualExclusion
<1>1. PairInv /\ [LockNext]_lockVars => PairInv'
    BY PairStays
<1> QED
    BY PairInitially, <1>1, PairExcludes, PTL DEF LockSpec

=============================================================================
