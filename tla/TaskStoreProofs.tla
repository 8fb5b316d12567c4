-------------------------- MODULE TaskStoreProofs --------------------------
(* Theorems about the task store, for any callers in any processes and any *)
(* number of tasks, titles, updates and files that are moved.  Where they  *)
(* need the lock of creations to exclude, they say so.                     *)
EXTENDS TaskStore, FileLockProofs, FiniteSetTheorems, WellFoundedInduction

------------------------------------------------------------------------------
(* The inductive invariant.  An ID belongs to a task not only where a file *)
(* has it, but from its allocation to the last file an update writes.      *)

Creating == {"lock", "read", "save", "write"}
InTurn == {"read", "save", "write"}
Updating == {"rewrite", "refill", "drop"}

Work == [task : {Missing} \cup Task, title : Title, old : {0} \cup Title,
         todo : SUBSET Name, ids : SUBSET (1..MaxTasks), id : 0..MaxTasks]

StoreTypes ==
  /\ active \in Directory /\ archive \in Directory
  /\ at \in [Caller -> {"idle", "find"} \cup Creating \cup Updating]
  /\ work \in [Caller -> Work]
  /\ created \in 0..MaxTasks
  /\ returned \in SUBSET Task /\ deleted \in SUBSET Task /\ torn \in SUBSET Task
  /\ overlap \in SUBSET (Task \X Task)

\* A creation that reads or writes is inside the lock.
InItsTurn == \A c \in Caller : at[c] \in InTurn => place[c] = "inside"

\* What a call needs of its local variables is there.
HandFull(c) ==
  /\ at[c] \in Creating \cup Updating => work[c].task \in Task
  /\ at[c] \in {"save", "write", "find"} \cup Updating => work[c].id \in 1..MaxTasks
  /\ at[c] \in {"find"} \cup Updating => work[c].old \in Title
  /\ at[c] = "drop" => Renames(c)

\* IDs go no further than the creations that were given one.
Waiting == {work[c].task : c \in {d \in Caller : at[d] \in {"lock", "read"}}}
Given == Cardinality((1..created) \ Waiting)

IdsCounted ==
  /\ \A n \in Name : active[n] # Missing \/ archive[n] # Missing => n.id <= Given
  /\ \A c \in Caller : at[c] # "idle" =>
       work[c].id <= Given /\ \A i \in work[c].ids : i <= Given

\* A task comes from the creation that brought its number, and is nowhere
\* else before the end of it.
OnFile(t) == \E n \in Name : active[n] = t \/ archive[n] = t
Updated(t) == \E d \in Caller : at[d] \in Updating /\ work[d].task = t

NoneAhead == \A t \in Task : OnFile(t) \/ Updated(t) \/ t \in returned => t <= created

Unborn(c) ==
  LET u == work[c].task IN
  at[c] \in Creating =>
    /\ u <= created /\ u \notin returned /\ ~OnFile(u) /\ ~Updated(u)
    /\ \A d \in Caller : at[d] \in Creating /\ work[d].task = u => c = d

Overlapped(t, u) == <<t, u>> \in overlap \/ <<u, t>> \in overlap
Excused(t) == \E u \in Task : Overlapped(t, u)

\* Task t has ID i, on a file or in the hand of a call that will write it.
Holds(c) == at[c] \in Updating \/ (at[c] \in {"save", "write"} /\ Alive(c))

Has(t, i) ==
  \/ \E n \in Name : n.id = i /\ (active[n] = t \/ archive[n] = t)
  \/ \E c \in Caller : Holds(c) /\ work[c].task = t /\ work[c].id = i

IdsApart ==
  \A t, u \in Task, i \in 1..MaxTasks :
    Has(t, i) /\ Has(u, i) /\ t # u => Overlapped(t, u)

\* A creation knows the ID of every task, or will read it, or an update of
\* the task is on record.
Knows(c) ==
  at[c] \in InTurn /\ Alive(c) =>
    /\ \A t \in Task : Updated(t) => Overlapped(t, work[c].task)
    /\ at[c] = "read" =>
         \A n \in Name : active[n] \in Task =>
           \/ n \in work[c].todo \/ n.id \in work[c].ids
           \/ Overlapped(active[n], work[c].task)

UpdatesOverlap ==
  \A c, d \in Caller :
    at[c] \in Updating /\ at[d] \in Updating /\ work[c].task = work[d].task /\ c # d
    => <<work[c].task, work[c].task>> \in overlap

\* While its file is replaced a task stays safe in one of the two, or there
\* is room to write it, unless it was deleted or an overlap excuses its loss.
Safe(n, t) == active[n] = t \/ (archive[n] = t /\ active[n] # Empty)
Room(n, t) == active[n] # Missing \/ archive[n] \in {Empty, t}
Gone(t) == t \in deleted \/ Excused(t)

Kept(c) ==
  LET t == work[c].task IN
  /\ at[c] = "rewrite" \/ (at[c] = "refill" /\ Renames(c)) => Safe(OldName(c), t) \/ Gone(t)
  /\ at[c] = "refill" \/ (at[c] = "write" /\ Alive(c)) => Room(Target(c), t) \/ Gone(t)
  /\ at[c] = "drop" => Safe(Target(c), t) \/ Gone(t)

NoneLost == \A t \in returned : OnFile(t) \/ t \in torn \/ Gone(t)

StoreInv ==
  /\ StoreTypes /\ InItsTurn /\ IdsCounted /\ NoneAhead
  /\ IdsApart /\ UpdatesOverlap /\ NoneLost
  /\ \A c \in Caller : HandFull(c) /\ Unborn(c) /\ Knows(c) /\ Kept(c)

------------------------------------------------------------------------------
(* Names, and the least and the greatest of a set of numbers.              *)

\* A bounded set of numbers has a least one.
LEMMA LeastOf ==
  ASSUME NEW k \in Nat, NEW S \in SUBSET (1..k), S # {}
  PROVE  \E m \in S : \A t \in S : m <= t
<1> DEFINE D == {1..s : s \in S}
<1>1. D \subseteq FiniteSubsetsOf(1..k)
  <2> SUFFICES ASSUME NEW s \in S PROVE 1..s \in FiniteSubsetsOf(1..k)
    OBVIOUS
  <2>1. s \in Nat /\ s <= k
    OBVIOUS
  <2>2. 1..s \in SUBSET (1..k)
    BY <2>1
  <2>3. IsFiniteSet(1..s)
    BY <2>1, FS_Interval
  <2> QED
    BY <2>2, <2>3 DEF FiniteSubsetsOf
<1>2. D # {}
  OBVIOUS
<1>3. PICK x \in D : \A y \in D : <<y, x>> \notin StrictSubsetOrdering(1..k)
  <2> HIDE DEF D
  <2>1. IsWellFoundedOn(StrictSubsetOrdering(1..k), FiniteSubsetsOf(1..k))
    BY FS_StrictSubsetOrderingWellFounded
  <2> QED
    BY <1>1, <1>2, <2>1, WFMin
<1>4. PICK m \in S : x = 1..m
  OBVIOUS
<1>5. ASSUME NEW t \in S PROVE m <= t
  <2>1. m \in 1..k /\ t \in 1..k
    OBVIOUS
  <2>2. SUFFICES ASSUME t < m PROVE FALSE
    BY <2>1
  <2>3. 1..t \in SUBSET (1..m) /\ m \in 1..m /\ m \notin 1..t
    BY <2>1, <2>2
  <2>4. 1..t # 1..m
    BY <2>3
  <2>5. 1..t \in SUBSET (1..k) /\ 1..m \in SUBSET (1..k)
    BY <2>1
  <2>6. <<1..t, 1..m>> \in StrictSubsetOrdering(1..k)
    BY <2>3, <2>4, <2>5 DEF StrictSubsetOrdering
  <2> QED
    BY <1>3, <1>4, <2>6
<1> QED
  BY <1>4, <1>5


\* A set of numbers and 0 has the greatest of them as its maximum.
LEMMA MaxOf ==
  ASSUME NEW k \in Nat, NEW S \in SUBSET (1..k)
  PROVE  /\ Max({0} \cup S) \in {0} \cup S
         /\ \A t \in S : t <= Max({0} \cup S)
<1> DEFINE R == {k + 1 - s : s \in {0} \cup S}
<1>1. R \in SUBSET (1..(k + 1)) /\ R # {}
  <2>1. ASSUME NEW s \in {0} \cup S PROVE k + 1 - s \in 1..(k + 1)
    <3>1. s \in 0..k
      OBVIOUS
    <3> QED
      BY <3>1
  <2>2. k + 1 - 0 \in R
    OBVIOUS
  <2> QED
    BY <2>1, <2>2
<1>2. PICK r \in R : \A t \in R : r <= t
  <2> HIDE DEF R
  <2>1. k + 1 \in Nat
    OBVIOUS
  <2> QED
    BY <1>1, <2>1, LeastOf
<1>3. PICK m \in {0} \cup S : r = k + 1 - m
  OBVIOUS
<1>4. \A t \in {0} \cup S : m >= t
  <2> SUFFICES ASSUME NEW t \in {0} \cup S PROVE m >= t
    OBVIOUS
  <2>1. t \in 0..k /\ m \in 0..k
    OBVIOUS
  <2>2. k + 1 - m <= k + 1 - t
    BY <1>2, <1>3
  <2> QED
    BY <2>1, <2>2
<1>5. /\ Max({0} \cup S) \in {0} \cup S
      /\ \A t \in {0} \cup S : Max({0} \cup S) >= t
  <2> DEFINE Z == {0} \cup S
  <2> HIDE DEF Z
  <2>1. m \in Z /\ \A t \in Z : m >= t
    BY <1>3, <1>4 DEF Z
  <2>2. Max(Z) \in Z /\ \A t \in Z : Max(Z) >= t
    BY <2>1, Zenon DEF Max
  <2> QED
    BY <2>2 DEF Z
<1>6. ASSUME NEW z \in {0} \cup S, \A t \in {0} \cup S : z >= t
      PROVE  \A t \in S : t <= z
  BY <1>6
<1> QED
  BY <1>5, <1>6, Zenon

\* A name is its two parts.
LEMMA NameParts ==
  /\ \A n \in Name : n.id \in 1..MaxTasks /\ n.title \in Title
  /\ \A n, m \in Name : n.id = m.id /\ n.title = m.title => n = m
  /\ \A i \in 1..MaxTasks, x \in Title :
       [id |-> i, title |-> x] \in Name
BY DEF Name

\* A set of names has a first one.
LEMMA FirstIn ==
  ASSUME NEW S \in SUBSET Name, S # {}
  PROVE  FirstOf(S) \in S
<1>0. MaxTasks \in Nat /\ MaxTitle \in Nat
  BY StoreAssumption
<1> DEFINE I == {n.id : n \in S}
<1>1. I \in SUBSET (1..MaxTasks) /\ I # {}
  BY NameParts
<1>2. PICK i \in I : \A j \in I : i <= j
  <2> HIDE DEF I
  <2> QED
    BY <1>0, <1>1, LeastOf
<1> DEFINE X == {n.title : n \in {m \in S : m.id = i}}
<1>3. X \in SUBSET (1..MaxTitle) /\ X # {}
  BY NameParts DEF Title
<1>4. PICK x \in X : \A y \in X : x <= y
  <2> HIDE DEF X
  <2> QED
    BY <1>0, <1>3, LeastOf
<1>5. PICK n \in S : n.id = i /\ n.title = x
  OBVIOUS
<1>6. ASSUME NEW m \in S PROVE n = m \/ Before(n, m)
  <2>1. n.id <= m.id /\ n.id \in Int /\ m.id \in Int
    BY <1>0, <1>2, <1>5, NameParts
  <2>2. CASE m.id = i
    <3>1. n.title <= m.title /\ n.title \in Int /\ m.title \in Int
      BY <1>0, <1>4, <1>5, <2>2, NameParts DEF Title
    <3> QED
      BY <1>5, <2>2, <3>1, NameParts DEF Before
  <2> QED
    BY <1>5, <2>1, <2>2 DEF Before
<1> QED
  BY <1>5, <1>6 DEF FirstOf

\* The file of an ID is a file with this ID.
LEMMA FileFound ==
  ASSUME NEW i \in 1..MaxTasks, Found(i) # {}
  PROVE  FileOf(i) \in Name /\ FileOf(i).id = i /\ active[FileOf(i)] # Missing
<1>1. Found(i) \in SUBSET Name
  BY DEF Found, Present
<1>2. FileOf(i) \in Found(i)
  BY <1>1, FirstIn DEF FileOf
<1> QED
  BY <1>2 DEF Found, Present

\* The contents of a file are told apart.
LEMMA Contents ==
  Missing \notin Task /\ Empty \notin Task /\ Missing # Empty /\ {Missing, Empty} \subseteq Int
BY StoreAssumption DEF Missing, Empty, Task

\* The names a call works with.
LEMMA Named ==
  ASSUME StoreInv, NEW c \in Caller
  PROVE  /\ at[c] \in {"save", "write"} \cup Updating =>
              /\ Target(c) \in Name /\ Target(c).id = work[c].id
              /\ work[c].id \in 1..MaxTasks /\ work[c].task \in Task
         /\ at[c] \in {"find"} \cup Updating =>
              OldName(c) \in Name /\ OldName(c).id = work[c].id
         /\ at[c] \in {"find"} \cup Updating => (Renames(c) <=> OldName(c) # Target(c))
<1>1. HandFull(c) /\ work[c].title \in Title
  BY DEF StoreInv, StoreTypes, Work
<1>2. ASSUME at[c] \in {"find"} \cup Updating
      PROVE  OldName(c) \in Name /\ OldName(c).id = work[c].id
  BY <1>1, <1>2, NameParts DEF HandFull, OldName
<1>3. ASSUME at[c] \in {"save", "write"} \cup Updating
      PROVE  /\ Target(c) \in Name /\ Target(c).id = work[c].id
             /\ work[c].id \in 1..MaxTasks /\ work[c].task \in Task
  BY <1>1, <1>3, NameParts DEF HandFull, Target, Creating
<1>4. Renames(c) <=> OldName(c) # Target(c)
  BY DEF Renames, OldName, Target
<1> QED
  BY <1>2, <1>3, <1>4

------------------------------------------------------------------------------
(* Two that have one ID.                                                   *)

\* Tasks with one ID excuse each other.
LEMMA Clash ==
  ASSUME StoreInv, NEW t \in Task, NEW u \in Task, NEW i \in 1..MaxTasks,
         Has(t, i), Has(u, i), t # u
  PROVE  Overlapped(t, u) /\ Excused(t) /\ Excused(u)
BY DEF StoreInv, IdsApart, Overlapped, Excused

\* A call that writes meets another one.
LEMMA Meet ==
  ASSUME StoreInv, NEW c \in Caller, NEW d \in Caller, c # d,
         Holds(c), Holds(d), work[c].id = work[d].id
  PROVE  Excused(work[d].task)
<1> DEFINE t == work[c].task
<1> DEFINE u == work[d].task
<1>1. t \in Task /\ u \in Task /\ work[d].id \in 1..MaxTasks
  BY Named DEF Holds
<1>2. Has(t, work[d].id) /\ Has(u, work[d].id)
  BY DEF Has
<1>3. CASE t # u
  BY <1>1, <1>2, <1>3, Clash
<1>4. CASE t = u
  <2>1. at[c] \in Creating \cup Updating /\ at[d] \in Creating \cup Updating
    BY DEF Holds, Creating
  <2>2. Unborn(c) /\ Unborn(d) /\ UpdatesOverlap
    BY DEF StoreInv
  <2>3. at[c] \in Updating /\ at[d] \in Updating
    BY <1>4, <2>1, <2>2 DEF Unborn, Updated
  <2>4. <<u, u>> \in overlap
    BY <1>4, <2>2, <2>3 DEF UpdatesOverlap
  <2> QED
    BY <1>1, <2>4 DEF Excused, Overlapped
<1> QED
  BY <1>3, <1>4

\* It meets a file of another task.
LEMMA MeetFile ==
  ASSUME StoreInv, NEW c \in Caller, Holds(c), NEW n \in Name, NEW t \in Task,
         n.id = work[c].id, active[n] = t \/ archive[n] = t, t # work[c].task
  PROVE  Excused(t) /\ Excused(work[c].task)
<1>1. work[c].task \in Task /\ work[c].id \in 1..MaxTasks
  BY Named DEF Holds
<1>2. Has(t, n.id) /\ Has(work[c].task, n.id)
  BY DEF Has
<1> QED
  BY <1>1, <1>2, Clash

\* Two files of different tasks have one ID.
LEMMA MeetFiles ==
  ASSUME StoreInv, NEW n \in Name, NEW m \in Name, NEW t \in Task, NEW u \in Task,
         n.id = m.id, active[n] = t \/ archive[n] = t, active[m] = u \/ archive[m] = u,
         t # u
  PROVE  Excused(t) /\ Excused(u)
BY NameParts, Clash DEF Has

------------------------------------------------------------------------------
(* Frames: what a step has to show of the files and of the call it moves.  *)

OnlyMoves(c) ==
  \A d \in Caller : d # c => at'[d] = at[d] /\ work'[d] = work[d]

\* Where no task gets an ID, the IDs stay apart.
LEMMA ApartStays ==
  ASSUME StoreInv, overlap \subseteq overlap',
         \A t \in Task, i \in 1..MaxTasks : Has(t, i)' => Has(t, i)
  PROVE  IdsApart'
BY DEF StoreInv, IdsApart, Overlapped

\* A call that only writes what it has in hand gives no task an ID.
LEMMA HasStays ==
  ASSUME NEW c \in Caller, OnlyMoves(c), dead' = dead,
         \A n \in Name, t \in Task :
           active'[n] = t \/ archive'[n] = t => Has(t, n.id),
         Holds(c)' /\ work'[c].task \in Task => Has(work'[c].task, work'[c].id)
  PROVE  \A t \in Task, i \in 1..MaxTasks : Has(t, i)' => Has(t, i)
<1> SUFFICES ASSUME NEW t \in Task, NEW i \in 1..MaxTasks, Has(t, i)' PROVE Has(t, i)
  OBVIOUS
<1>1. CASE \E n \in Name : n.id = i /\ (active'[n] = t \/ archive'[n] = t)
  BY <1>1
<1>2. ASSUME NEW d \in Caller, Holds(d)', work'[d].task = t, work'[d].id = i
      PROVE  Has(t, i)
  <2>1. CASE d = c
    BY <1>2, <2>1
  <2>2. CASE d # c
    BY <1>2, <2>2 DEF OnlyMoves, Holds, Alive, Has
  <2> QED
    BY <2>1, <2>2
<1> QED
  BY <1>1, <1>2 DEF Has

\* Where no call begins to write an update, updates of a task stay on record.
LEMMA OverlapStays ==
  ASSUME StoreInv, NEW c \in Caller, OnlyMoves(c), overlap \subseteq overlap',
         at'[c] \in Updating => at[c] \in Updating /\ work'[c].task = work[c].task
  PROVE  UpdatesOverlap' /\ \A t : Updated(t)' => Updated(t)
<1>1. \A d \in Caller : at'[d] \in Updating =>
        at[d] \in Updating /\ work'[d].task = work[d].task
  BY DEF OnlyMoves
<1>2. UpdatesOverlap'
  BY <1>1 DEF StoreInv, UpdatesOverlap
<1>3. \A t : Updated(t)' => Updated(t)
  BY <1>1 DEF Updated
<1> QED
  BY <1>2, <1>3

\* A task is born by the call that writes it.
LEMMA BornStays ==
  ASSUME StoreInv, NEW c \in Caller, OnlyMoves(c), created' = created,
         \A t \in Task : OnFile(t)' => OnFile(t) \/ (Holds(c) /\ t = work[c].task),
         \A t \in Task : Updated(t)' => Updated(t) \/ OnFile(t),
         \A t \in Task : t \in returned' =>
           t \in returned \/ (at[c] = "write" /\ t = work[c].task),
         at'[c] \in Creating =>
           /\ at[c] \in Creating /\ work'[c].task = work[c].task /\ returned' = returned
           /\ \A t \in Task : OnFile(t)' => OnFile(t)
  PROVE  NoneAhead' /\ \A d \in Caller : Unborn(d)'
<1>1. NoneAhead /\ \A d \in Caller : Unborn(d) /\ HandFull(d)
  BY DEF StoreInv
<1>2. Holds(c) => at[c] \in Updating \cup Creating /\ work[c].task \in Task
  BY Named DEF Holds, Creating
<1>3. at[c] \in Updating => Updated(work[c].task)
  BY DEF Updated
<1>4. NoneAhead'
  <2> SUFFICES ASSUME NEW t \in Task, OnFile(t)' \/ Updated(t)' \/ t \in returned'
               PROVE  t <= created
    BY DEF NoneAhead
  <2>1. OnFile(t) \/ Updated(t) \/ t \in returned \/ (at[c] \in Creating /\ t = work[c].task)
    BY <1>2, <1>3 DEF Creating
  <2> QED
    BY <1>1, <2>1 DEF NoneAhead, Unborn
<1>5. ASSUME NEW d \in Caller, at'[d] \in Creating PROVE Unborn(d)'
  <2>1. at[d] \in Creating /\ work'[d].task = work[d].task
    BY <1>5 DEF OnlyMoves
  <2>2. PICK u \in Task : u = work[d].task
    BY <1>1, <2>1 DEF HandFull
  <2>3. /\ u <= created /\ u \notin returned /\ ~OnFile(u) /\ ~Updated(u)
        /\ \A e \in Caller : at[e] \in Creating /\ work[e].task = u => d = e
    BY <1>1, <2>1, <2>2 DEF Unborn
  <2>4. ~OnFile(u)' /\ u \notin returned'
    <3>1. CASE d = c
      BY <1>5, <2>3, <3>1
    <3>2. CASE d # c
      <4>1. Holds(c) \/ at[c] = "write" => u # work[c].task
        BY <1>2, <1>3, <2>3, <3>2 DEF Creating
      <4> QED
        BY <2>3, <4>1
    <3> QED
      BY <3>1, <3>2
  <2>5. ~Updated(u)'
    BY <2>3
  <2>6. \A e \in Caller : at'[e] \in Creating /\ work'[e].task = u => d = e
    BY <2>3 DEF OnlyMoves
  <2> QED
    BY <2>1, <2>2, <2>3, <2>4, <2>5, <2>6 DEF Unborn, OnFile, Updated
<1> QED
  BY <1>4, <1>5 DEF Unborn

\* A creation keeps what it knows of the files.
LEMMA KnowsStays ==
  ASSUME StoreInv, NEW d \in Caller, at'[d] = at[d], work'[d] = work[d],
         NEW u, u = work[d].task,
         dead \subseteq dead', overlap \subseteq overlap',
         \A t \in Task : Updated(t)' => Updated(t) \/ Overlapped(t, u)',
         \A n \in Name, t \in Task : active'[n] = t => active[n] = t \/ Updated(t)
  PROVE  Knows(d)'
<1>1. Knows(d)
  BY DEF StoreInv
<1> SUFFICES ASSUME at[d] \in InTurn, Alive(d)' PROVE Knows(d)'
  BY DEF Knows
<1>2. Alive(d)
  BY DEF Alive
<1>3. \A t : Overlapped(t, u) => Overlapped(t, u)'
  BY DEF Overlapped
<1>4. \A t \in Task : Updated(t)' => Overlapped(t, u)'
  BY <1>1, <1>2, <1>3 DEF Knows
<1>5. ASSUME at[d] = "read", NEW n \in Name, NEW t \in Task, active'[n] = t
      PROVE  n \in work[d].todo \/ n.id \in work[d].ids \/ Overlapped(t, u)'
  <2>1. CASE active[n] = t
    BY <1>1, <1>2, <1>3, <1>5, <2>1 DEF Knows
  <2>2. CASE Updated(t)
    BY <1>1, <1>2, <1>3, <2>2 DEF Knows
  <2> QED
    BY <1>5, <2>1, <2>2
<1> QED
  BY <1>4, <1>5 DEF Knows, Overlapped

\* A call keeps its task safe, and its room, when the files of its ID do.
LEMMA KeptStays ==
  ASSUME StoreInv, NEW d \in Caller, at'[d] = at[d], work'[d] = work[d],
         NEW t, t = work[d].task,
         dead \subseteq dead', overlap \subseteq overlap', deleted \subseteq deleted',
         \A n \in Name : Holds(d) /\ n.id = work[d].id =>
           \/ Gone(t)'
           \/ /\ Safe(n, t) => Safe(n, t)'
              /\ n = Target(d) /\ at[d] \in {"write", "refill"} /\ Room(n, t) => Room(n, t)'
  PROVE  Kept(d)'
<1>1. Kept(d)
  BY DEF StoreInv
<1>2. Gone(t) => Gone(t)'
  BY DEF Gone, Excused, Overlapped
<1>3. PICK o : o = OldName(d)
  OBVIOUS
<1>4. PICK n : n = Target(d)
  OBVIOUS
<1>5. /\ Renames(d)' = Renames(d) /\ o = OldName(d)' /\ n = Target(d)'
      /\ Alive(d)' => Alive(d)
  BY <1>3, <1>4 DEF Renames, OldName, Target, Alive
<1>6. ASSUME at[d] = "rewrite" \/ (at[d] = "refill" /\ Renames(d))
      PROVE  Safe(o, t)' \/ Gone(t)'
  <2>1. Safe(o, t) \/ Gone(t)
    BY <1>1, <1>3, <1>6 DEF Kept
  <2>2. o \in Name /\ o.id = work[d].id /\ Holds(d)
    BY <1>3, <1>6, Named DEF Holds, Updating
  <2> QED
    BY <1>2, <2>1, <2>2
<1>7. ASSUME at[d] = "refill" \/ (at[d] = "write" /\ Alive(d))
      PROVE  Room(n, t)' \/ Gone(t)'
  <2>1. Room(n, t) \/ Gone(t)
    BY <1>1, <1>4, <1>7 DEF Kept
  <2>2. n \in Name /\ n.id = work[d].id /\ Holds(d)
    BY <1>4, <1>7, Named DEF Holds, Updating
  <2> QED
    BY <1>2, <1>4, <1>7, <2>1, <2>2
<1>8. ASSUME at[d] = "drop" PROVE Safe(n, t)' \/ Gone(t)'
  <2>1. Safe(n, t) \/ Gone(t)
    BY <1>1, <1>4, <1>8 DEF Kept
  <2>2. n \in Name /\ n.id = work[d].id /\ Holds(d)
    BY <1>4, <1>8, Named DEF Holds, Updating
  <2> QED
    BY <1>2, <2>1, <2>2
<1>9. /\ at'[d] = "rewrite" \/ (at'[d] = "refill" /\ Renames(d)') => Safe(o, t)' \/ Gone(t)'
      /\ at'[d] = "refill" \/ (at'[d] = "write" /\ Alive(d)') => Room(n, t)' \/ Gone(t)'
      /\ at'[d] = "drop" => Safe(n, t)' \/ Gone(t)'
  BY <1>5, <1>6, <1>7, <1>8
<1> QED
  BY <1>5, <1>9 DEF Kept, Safe, Room, Gone, Excused, Overlapped

\* IDs stay counted while no creation begins or is given one.
LEMMA CountStays ==
  ASSUME StoreInv, NEW c \in Caller, OnlyMoves(c), created' = created,
         at'[c] \in {"lock", "read"} <=> at[c] \in {"lock", "read"},
         at[c] \in {"lock", "read"} => work'[c].task = work[c].task,
         \A n \in Name : active'[n] # Missing \/ archive'[n] # Missing =>
           active[n] # Missing \/ archive[n] # Missing \/ n.id <= Given,
         at'[c] # "idle" => work'[c].id <= Given /\ \A i \in work'[c].ids : i <= Given
  PROVE  IdsCounted'
<1>1. Waiting' = Waiting
  <2>1. \A d \in Caller : /\ at'[d] \in {"lock", "read"} <=> at[d] \in {"lock", "read"}
                          /\ at[d] \in {"lock", "read"} => work'[d].task = work[d].task
    BY DEF OnlyMoves
  <2> QED
    BY <2>1 DEF Waiting
<1>2. PICK g : g = Given
  OBVIOUS
<1>3. g = Given'
  BY <1>1, <1>2 DEF Given
<1>4. IdsCounted
  BY DEF StoreInv
<1>5. \A n \in Name : active'[n] # Missing \/ archive'[n] # Missing => n.id <= g
  BY <1>2, <1>4 DEF IdsCounted
<1>6. \A d \in Caller : at'[d] # "idle" =>
        work'[d].id <= g /\ \A i \in work'[d].ids : i <= g
  BY <1>2, <1>4 DEF IdsCounted, OnlyMoves
<1> QED
  BY <1>3, <1>5, <1>6 DEF IdsCounted

\* What a call changes in the files of its ID disturbs no other call that is
\* not excused.
LEMMA HandKeeps ==
  ASSUME StoreInv, NEW c \in Caller, Holds(c), OnlyMoves(c),
         \A n \in Name : n.id # work[c].id =>
           active'[n] = active[n] /\ archive'[n] = archive[n],
         overlap' = overlap, deleted' = deleted, dead' = dead
  PROVE  \A d \in Caller : d # c => Kept(d)'
<1> SUFFICES ASSUME NEW d \in Caller, d # c PROVE Kept(d)'
  OBVIOUS
<1>1. PICK t : t = work[d].task
  OBVIOUS
<1>2. at'[d] = at[d] /\ work'[d] = work[d]
  BY DEF OnlyMoves
<1>3. ASSUME NEW n \in Name, Holds(d), n.id = work[d].id
      PROVE  \/ Gone(t)'
             \/ /\ Safe(n, t) => Safe(n, t)'
                /\ n = Target(d) /\ at[d] \in {"write", "refill"} /\ Room(n, t) => Room(n, t)'
  <2>1. CASE work[c].id = work[d].id
    <3>1. Excused(t)
      BY <1>1, <1>3, <2>1, Meet
    <3> QED
      BY <3>1 DEF Gone, Excused, Overlapped
  <2>2. CASE work[c].id # work[d].id
    BY <1>3, <2>2 DEF Safe, Room
  <2> QED
    BY <2>1, <2>2
<1> QED
  BY <1>1, <1>2, <1>3, KeptStays

\* Nor does it lose another task that is not excused.
LEMMA HandLoses ==
  ASSUME StoreInv, NEW c \in Caller, Holds(c),
         \A n \in Name : n.id # work[c].id =>
           active'[n] = active[n] /\ archive'[n] = archive[n],
         NEW t \in Task, OnFile(t), t # work[c].task
  PROVE  OnFile(t)' \/ Excused(t)
<1>1. PICK n \in Name : active[n] = t \/ archive[n] = t
  BY DEF OnFile
<1>2. CASE n.id = work[c].id
  BY <1>1, <1>2, MeetFile
<1>3. CASE n.id # work[c].id
  BY <1>1, <1>3 DEF OnFile
<1> QED
  BY <1>2, <1>3

\* One call is in its turn where the lock excludes.
LEMMA OneInTurn ==
  ASSUME StoreInv, MutualExclusion, NEW c \in Caller, NEW d \in Caller,
         at[c] \in InTurn, Alive(c), at[d] \in InTurn, Alive(d)
  PROVE  c = d
BY DEF StoreInv, InItsTurn, MutualExclusion, Inside

\* A call writes or removes files of the ID it has.
LEMMA HandStep ==
  ASSUME StoreInv, MutualExclusion, NEW c \in Caller, Holds(c), Alive(c), OnlyMoves(c),
         StoreTypes', InItsTurn',
         created' = created, deleted' = deleted, overlap' = overlap, dead' = dead,
         \A n \in Name : n.id # work[c].id =>
           active'[n] = active[n] /\ archive'[n] = archive[n],
         \A n \in Name, t \in Task : active'[n] = t =>
           active[n] = t \/ (n.id = work[c].id /\ t = work[c].task),
         \A n \in Name, t \in Task : archive'[n] = t =>
           archive[n] = t \/ (n.id = work[c].id /\ t = work[c].task),
         \A t \in Task : t # work[c].task =>
           (t \in returned' <=> t \in returned) /\ (t \in torn => t \in torn'),
         work[c].task \in returned' => work[c].task \in returned \/ at[c] = "write",
         \/ /\ at[c] = "save" /\ at'[c] = "write" /\ work' = work /\ returned' = returned
            /\ \A t \in Task : OnFile(t)' => OnFile(t)
         \/ at[c] = "rewrite" /\ at'[c] = "refill" /\ work' = work
         \/ at[c] = "refill" /\ at'[c] = "drop" /\ work' = work /\ Renames(c)
         \/ at'[c] = "idle" /\ at[c] # "save",
         Kept(c)',
         NEW u, u = work[c].task,
         u \in returned' => OnFile(u)' \/ u \in torn' \/ Gone(u)'
  PROVE  StoreInv'
<1>1. /\ u \in Task /\ work[c].id \in 1..MaxTasks
      /\ at[c] \in {"save", "write", "rewrite", "refill", "drop"}
  BY Named DEF Holds, Updating
<1>2. Has(u, work[c].id)
  BY DEF Has
<1>3. \A t \in Task, i \in 1..MaxTasks : Has(t, i)' => Has(t, i)
  <2>1. \A n \in Name, t \in Task : active'[n] = t \/ archive'[n] = t => Has(t, n.id)
    BY <1>2 DEF Has
  <2>2. Holds(c)' => work' = work
    BY DEF Holds, Updating
  <2>3. Holds(c)' /\ work'[c].task \in Task => Has(work'[c].task, work'[c].id)
    BY <1>2, <2>2
  <2> QED
    BY <2>1, <2>3, HasStays
<1>4. IdsApart'
  BY <1>3, ApartStays
<1>5. UpdatesOverlap' /\ \A t : Updated(t)' => Updated(t)
  BY <1>1, OverlapStays DEF Updating
<1>6. NoneAhead' /\ \A d \in Caller : Unborn(d)'
  <2>1. \A t \in Task : OnFile(t)' => OnFile(t) \/ (Holds(c) /\ t = work[c].task)
    BY DEF OnFile
  <2>2. at'[c] \in Creating =>
          /\ at[c] \in Creating /\ work'[c].task = work[c].task /\ returned' = returned
          /\ \A t \in Task : OnFile(t)' => OnFile(t)
    BY DEF Creating
  <2> QED
    BY <1>1, <1>5, <2>1, <2>2, BornStays
<1>7. IdsCounted'
  <2>1. work[c].id <= Given /\ \A i \in work[c].ids : i <= Given
    BY <1>1 DEF StoreInv, IdsCounted
  <2>2. \A n \in Name : active'[n] # Missing \/ archive'[n] # Missing =>
          active[n] # Missing \/ archive[n] # Missing \/ n.id <= Given
    BY <2>1
  <2>3. /\ at'[c] \in {"lock", "read"} <=> at[c] \in {"lock", "read"}
        /\ at[c] \in {"lock", "read"} => work'[c].task = work[c].task
    BY <1>1
  <2>4. at'[c] # "idle" => work'[c].id <= Given /\ \A i \in work'[c].ids : i <= Given
    BY <2>1
  <2> QED
    BY <2>2, <2>3, <2>4, CountStays
<1>8. ASSUME NEW d \in Caller PROVE HandFull(d)'
  <2>1. HandFull(d)
    BY DEF StoreInv
  <2>2. CASE d # c
    BY <2>1, <2>2 DEF OnlyMoves, HandFull, Renames
  <2>3. CASE d = c
    BY <2>1, <2>3 DEF HandFull, Renames, Creating, Updating
  <2> QED
    BY <2>2, <2>3
<1>9. ASSUME NEW d \in Caller PROVE Knows(d)'
  <2>1. CASE d = c
    <3> SUFFICES ASSUME at'[c] = "write" PROVE Knows(c)'
      BY <1>1, <2>1 DEF Knows, InTurn, Updating
    <3>1. Knows(c) /\ at[c] = "save" /\ work' = work
      BY DEF StoreInv
    <3> QED
      BY <1>5, <2>1, <3>1 DEF Knows, InTurn, Overlapped, Alive
  <2>2. CASE d # c /\ at[c] \in InTurn
    BY <2>2, OneInTurn DEF Knows, OnlyMoves, Alive
  <2>3. CASE d # c /\ at[c] \notin InTurn
    <3>1. PICK v : v = work[d].task
      OBVIOUS
    <3>2. Updated(u)
      BY <1>1, <2>3 DEF Updated, Updating, InTurn
    <3>3. \A n \in Name, t \in Task : active'[n] = t => active[n] = t \/ Updated(t)
      BY <3>2
    <3> QED
      BY <1>5, <2>3, <3>1, <3>3, KnowsStays DEF OnlyMoves
  <2> QED
    BY <2>1, <2>2, <2>3
<1>10. \A d \in Caller : Kept(d)'
  BY HandKeeps
<1>11. NoneLost'
  <2> SUFFICES ASSUME NEW t \in returned' PROVE OnFile(t)' \/ t \in torn' \/ Gone(t)'
    BY DEF NoneLost, Gone, Excused, Overlapped
  <2>1. t \in Task
    BY DEF StoreTypes
  <2>2. CASE t # u
    <3>1. OnFile(t) \/ t \in torn \/ Gone(t)
      BY <2>1, <2>2 DEF StoreInv, NoneLost
    <3>2. OnFile(t)' \/ t \in torn' \/ Gone(t)
      BY <2>1, <2>2, <3>1, HandLoses DEF Gone
    <3> QED
      BY <3>2 DEF Gone, Excused, Overlapped
  <2> QED
    BY <2>2
<1> QED
  BY <1>4, <1>5, <1>6, <1>7, <1>8, <1>9, <1>10, <1>11 DEF StoreInv

------------------------------------------------------------------------------
(* The writes of a call.                                                   *)

\* The moves of a call are its own.
LEMMA Moving ==
  ASSUME StoreInv, NEW c \in Caller, NEW what, Step(c, what)
  PROVE  /\ at'[c] = what
         /\ \A d \in Caller : d # c => at'[d] = at[d]
BY DEF StoreInv, StoreTypes, Step

LEMMA Stopping ==
  ASSUME StoreInv, NEW c \in Caller, Stop(c)
  PROVE  /\ OnlyMoves(c) /\ at'[c] = "idle" /\ work'[c] = Idle
         /\ work' \in [Caller -> Work]
         /\ at' \in [Caller -> {"idle", "find"} \cup Creating \cup Updating]
<1>1. Idle \in Work
  BY StoreAssumption DEF Idle, Work, Title, Missing
<1> QED
  BY <1>1 DEF StoreInv, StoreTypes, Stop, Step, OnlyMoves

\* The file in a directory that is opened to be written.
LEMMA Truncated ==
  ASSUME StoreInv, NEW n \in Name, Truncate(n)
  PROVE  /\ active' \in Directory /\ archive' \in Directory
         /\ active'[n] = Empty /\ archive' = archive
         /\ \A m \in Name : m # n => active'[m] = active[m]
BY DEF StoreInv, StoreTypes, Directory, Truncate

\* What a write leaves: the task is in the file where there was room.
LEMMA Filled ==
  ASSUME StoreInv, NEW n \in Name, NEW t \in Task, Fill(n, t)
  PROVE  /\ active' \in Directory /\ archive' \in Directory
         /\ \A m \in Name : m # n => active'[m] = active[m] /\ archive'[m] = archive[m]
         /\ active'[n] = active[n] \/ active'[n] = t
         /\ archive'[n] = archive[n] \/ archive'[n] = t
         /\ Room(n, t) => OnFile(t)' /\ Safe(n, t)'
         /\ Safe(n, t) => Safe(n, t)'
<1>1. active \in Directory /\ archive \in Directory
  BY DEF StoreInv, StoreTypes
<1>2. /\ active' = IF active[n] # Missing THEN [active EXCEPT ![n] = t] ELSE active
      /\ archive' = IF active[n] = Missing /\ archive[n] = Empty
                      THEN [archive EXCEPT ![n] = t] ELSE archive
  BY DEF Fill
<1>3. /\ active' \in Directory /\ archive' \in Directory
      /\ \A m \in Name : m # n => active'[m] = active[m] /\ archive'[m] = archive[m]
  BY <1>1, <1>2 DEF Directory
<1>4. /\ active[n] # Missing => active'[n] = t /\ archive'[n] = archive[n]
      /\ active[n] = Missing => active'[n] = Missing
      /\ active[n] = Missing /\ archive[n] = Empty => archive'[n] = t
      /\ active[n] = Missing /\ archive[n] # Empty => archive'[n] = archive[n]
  BY <1>1, <1>2 DEF Directory
<1> QED
  BY <1>3, <1>4, Contents DEF Room, Safe, OnFile

\* The file of a new task is opened (saveTask of createTask).
LEMMA OpenNewStays ==
  ASSUME StoreInv, MutualExclusion, NEW c \in Caller, OpenNew(c)
  PROVE  StoreInv'
<1>1. /\ at[c] = "save" /\ Alive(c) /\ Truncate(Target(c)) /\ Step(c, "write")
      /\ UNCHANGED <<lockVars, work, bounds, history>>
  BY DEF OpenNew, Doing
<1>2. PICK n \in Name : n = Target(c) /\ n.id = work[c].id
  BY <1>1, Named
<1>3. PICK u \in Task : u = work[c].task
  BY <1>1, Named
<1>4. /\ active' \in Directory /\ archive' = archive
      /\ active'[n] = Empty /\ \A m \in Name : m # n => active'[m] = active[m]
  BY <1>1, <1>2, Truncated
<1>5. at'[c] = "write" /\ OnlyMoves(c) /\ Holds(c) /\ work' = work
  BY <1>1, Moving DEF OnlyMoves, Holds
<1>6. /\ created' = created /\ deleted' = deleted /\ overlap' = overlap /\ dead' = dead
      /\ returned' = returned /\ torn' = torn /\ place' = place
  BY <1>1 DEF lockVars, bounds, history
<1>7. at' \in [Caller -> {"idle", "find"} \cup Creating \cup Updating]
  BY <1>1 DEF StoreInv, StoreTypes, Step, Creating
<1>8. StoreTypes'
  BY <1>4, <1>5, <1>6, <1>7 DEF StoreInv, StoreTypes
<1>9. InItsTurn'
  BY <1>1, <1>5, <1>6 DEF StoreInv, InItsTurn, OnlyMoves, InTurn
<1>10. Room(n, u)'
  BY <1>4, Contents DEF Room
<1>11. Kept(c)'
  <2>1. n = Target(c)'
    BY <1>2, <1>5 DEF Target
  <2> QED
    BY <1>3, <1>5, <1>10, <2>1 DEF Kept, Room
<1>12. u \notin returned'
  BY <1>1, <1>3, <1>6 DEF StoreInv, Unborn, Creating
<1>13. /\ \A m \in Name : m.id # work[c].id => active'[m] = active[m] /\ archive'[m] = archive[m]
       /\ \A m \in Name, t \in Task : active'[m] = t => active[m] = t
       /\ \A t \in Task : OnFile(t)' => OnFile(t)
  BY <1>2, <1>4, Contents DEF OnFile
<1> QED
  BY <1>1, <1>3, <1>4, <1>5, <1>6, <1>8, <1>9, <1>11, <1>12, <1>13, HandStep

\* It is written, or the write fails.
LEMMA WriteNewStays ==
  ASSUME StoreInv, MutualExclusion, NEW c \in Caller, NEW ok \in BOOLEAN, WriteNew(c, ok)
  PROVE  StoreInv'
<1>1. /\ at[c] = "write" /\ Alive(c) /\ Leave(c) /\ Stop(c)
      /\ IF ok THEN Fill(Target(c), work[c].task) ELSE UNCHANGED files
      /\ returned' = IF ok THEN returned \cup {work[c].task} ELSE returned
      /\ UNCHANGED <<bounds, deleted, torn, overlap>>
  BY DEF WriteNew, Doing
<1>2. PICK n \in Name : n = Target(c) /\ n.id = work[c].id
  BY <1>1, Named
<1>3. PICK u \in Task : u = work[c].task
  BY <1>1, Named
<1>4. /\ active' \in Directory /\ archive' \in Directory
      /\ \A m \in Name : m # n => active'[m] = active[m] /\ archive'[m] = archive[m]
      /\ active'[n] = active[n] \/ active'[n] = u
      /\ archive'[n] = archive[n] \/ archive'[n] = u
      /\ ok /\ Room(n, u) => OnFile(u)'
  <2>1. CASE ok
    BY <1>1, <1>2, <1>3, <2>1, Filled
  <2>2. CASE ~ok
    BY <1>1, <2>2 DEF StoreInv, StoreTypes, files
  <2> QED
    BY <2>1, <2>2
<1>5. /\ at'[c] = "idle" /\ OnlyMoves(c) /\ Holds(c) /\ work' \in [Caller -> Work]
      /\ at' \in [Caller -> {"idle", "find"} \cup Creating \cup Updating]
  BY <1>1, Stopping DEF Holds
<1>6. /\ created' = created /\ deleted' = deleted /\ overlap' = overlap /\ dead' = dead
      /\ torn' = torn /\ \A d \in Caller : d # c => place'[d] = place[d]
  BY <1>1 DEF bounds, Leave, Goto
<1>7. returned' \in SUBSET Task
  BY <1>1, <1>3 DEF StoreInv, StoreTypes
<1>8. StoreTypes'
  BY <1>4, <1>5, <1>6, <1>7 DEF StoreInv, StoreTypes
<1>9. InItsTurn'
  BY <1>5, <1>6 DEF StoreInv, InItsTurn, OnlyMoves, InTurn
<1>10. Kept(c)'
  BY <1>5 DEF Kept
<1>11. u \in returned' => OnFile(u)' \/ Gone(u)'
  <2>1. u \notin returned /\ (Room(n, u) \/ Gone(u))
    BY <1>1, <1>2, <1>3 DEF StoreInv, Unborn, Creating, Kept
  <2>2. Gone(u) => Gone(u)'
    BY <1>6 DEF Gone, Excused, Overlapped
  <2> QED
    BY <1>1, <1>4, <2>1, <2>2
<1>12. \A t \in Task : t # work[c].task => (t \in returned' <=> t \in returned)
  BY <1>1
<1>13. \A m \in Name : m.id # work[c].id => active'[m] = active[m] /\ archive'[m] = archive[m]
  BY <1>2, <1>4
<1>14. /\ \A m \in Name, t \in Task : active'[m] = t =>
             active[m] = t \/ (m.id = work[c].id /\ t = work[c].task)
       /\ \A m \in Name, t \in Task : archive'[m] = t =>
             archive[m] = t \/ (m.id = work[c].id /\ t = work[c].task)
  BY <1>2, <1>3, <1>4
<1> QED
  BY <1>1, <1>3, <1>5, <1>6, <1>8, <1>9, <1>10, <1>11, <1>12, <1>13, <1>14, HandStep

\* The file of an updated task is opened (saveTask of updateTask).
LEMMA OpenUpdatedStays ==
  ASSUME StoreInv, MutualExclusion, NEW c \in Caller, OpenUpdated(c)
  PROVE  StoreInv'
<1>1. /\ at[c] = "rewrite" /\ Alive(c) /\ Truncate(Target(c)) /\ Step(c, "refill")
      /\ torn' = IF Renames(c) THEN torn ELSE torn \cup {work[c].task}
      /\ UNCHANGED <<lockVars, work, bounds, returned, deleted, overlap>>
  BY DEF OpenUpdated, Doing
<1>2. PICK n \in Name : n = Target(c) /\ n.id = work[c].id
  BY <1>1, Named DEF Updating
<1>3. PICK u \in Task : u = work[c].task
  BY <1>1, Named DEF Updating
<1>4. PICK o \in Name : o = OldName(c) /\ (Renames(c) <=> o # n)
  BY <1>1, <1>2, Named DEF Updating
<1>5. /\ active' \in Directory /\ archive' = archive
      /\ active'[n] = Empty /\ \A m \in Name : m # n => active'[m] = active[m]
  BY <1>1, <1>2, Truncated
<1>6. at'[c] = "refill" /\ OnlyMoves(c) /\ Holds(c) /\ work' = work
  BY <1>1, Moving DEF OnlyMoves, Holds, Updating
<1>7. /\ created' = created /\ deleted' = deleted /\ overlap' = overlap /\ dead' = dead
      /\ returned' = returned /\ place' = place
  BY <1>1 DEF lockVars, bounds
<1>8. at' \in [Caller -> {"idle", "find"} \cup Creating \cup Updating]
  BY <1>1 DEF StoreInv, StoreTypes, Step, Updating
<1>9. torn' \in SUBSET Task
  BY <1>1, <1>3 DEF StoreInv, StoreTypes
<1>10. StoreTypes'
  BY <1>5, <1>6, <1>7, <1>8, <1>9 DEF StoreInv, StoreTypes
<1>11. InItsTurn'
  BY <1>1, <1>6, <1>7 DEF StoreInv, InItsTurn, OnlyMoves, InTurn
<1>12. Room(n, u)'
  BY <1>5, Contents DEF Room
<1>13. Safe(o, u) \/ Gone(u)
  BY <1>1, <1>3, <1>4 DEF StoreInv, Kept
<1>14. Gone(u) => Gone(u)'
  BY <1>7 DEF Gone, Excused, Overlapped
<1>15. Renames(c) => Safe(o, u)' \/ Gone(u)'
  BY <1>4, <1>5, <1>13, <1>14 DEF Safe
<1>16. Kept(c)'
  <2>1. n = Target(c)' /\ o = OldName(c)' /\ Renames(c)' = Renames(c)
    BY <1>2, <1>4, <1>6 DEF Target, OldName, Renames
  <2> QED
    BY <1>3, <1>6, <1>12, <1>15, <2>1 DEF Kept, Room, Safe, Gone, Excused, Overlapped
<1>17. OnFile(u)' \/ u \in torn' \/ Gone(u)'
  BY <1>1, <1>3, <1>15 DEF Safe, OnFile
<1>18. /\ \A m \in Name : m.id # work[c].id => active'[m] = active[m] /\ archive'[m] = archive[m]
       /\ \A m \in Name, t \in Task : active'[m] = t => active[m] = t
       /\ \A t \in Task : t \in torn => t \in torn'
  BY <1>1, <1>2, <1>5, Contents
<1> QED
  BY <1>1, <1>3, <1>5, <1>6, <1>7, <1>10, <1>11, <1>16, <1>17, <1>18, HandStep

\* It is written, or the write fails, which ends the call.
LEMMA WriteUpdatedStays ==
  ASSUME StoreInv, MutualExclusion, NEW c \in Caller, NEW ok \in BOOLEAN, WriteUpdated(c, ok)
  PROVE  StoreInv'
<1>1. /\ at[c] = "refill" /\ Alive(c)
      /\ IF ok THEN Fill(Target(c), work[c].task) ELSE UNCHANGED files
      /\ torn' = IF ok THEN torn \ {work[c].task} ELSE torn
      /\ IF ok /\ Renames(c) THEN Step(c, "drop") /\ UNCHANGED work ELSE Stop(c)
      /\ UNCHANGED <<lockVars, bounds, returned, deleted, overlap>>
  BY DEF WriteUpdated, Doing
<1>2. PICK n \in Name : n = Target(c) /\ n.id = work[c].id
  BY <1>1, Named DEF Updating
<1>3. PICK u \in Task : u = work[c].task
  BY <1>1, Named DEF Updating
<1>4. /\ active' \in Directory /\ archive' \in Directory
      /\ \A m \in Name : m # n => active'[m] = active[m] /\ archive'[m] = archive[m]
      /\ active'[n] = active[n] \/ active'[n] = u
      /\ archive'[n] = archive[n] \/ archive'[n] = u
      /\ ok /\ Room(n, u) => OnFile(u)' /\ Safe(n, u)'
      /\ ~ok => active' = active /\ archive' = archive
  <2>1. CASE ok
    BY <1>1, <1>2, <1>3, <2>1, Filled
  <2>2. CASE ~ok
    BY <1>1, <2>2 DEF StoreInv, StoreTypes, files
  <2> QED
    BY <2>1, <2>2
<1>5. /\ OnlyMoves(c) /\ Holds(c)
      /\ work' \in [Caller -> Work]
      /\ at' \in [Caller -> {"idle", "find"} \cup Creating \cup Updating]
      /\ \/ at'[c] = "drop" /\ work' = work /\ Renames(c) /\ ok
         \/ at'[c] = "idle"
  <2>1. CASE ok /\ Renames(c)
    BY <1>1, <2>1, Moving DEF StoreInv, StoreTypes, Step, OnlyMoves, Holds, Updating
  <2>2. CASE ~(ok /\ Renames(c))
    BY <1>1, <2>2, Stopping DEF Holds, Updating
  <2> QED
    BY <2>1, <2>2
<1>6. /\ created' = created /\ deleted' = deleted /\ overlap' = overlap /\ dead' = dead
      /\ returned' = returned /\ place' = place
  BY <1>1 DEF lockVars, bounds
<1>7. torn' \in SUBSET Task
  BY <1>1, <1>3 DEF StoreInv, StoreTypes
<1>8. StoreTypes'
  BY <1>4, <1>5, <1>6, <1>7 DEF StoreInv, StoreTypes
<1>9. InItsTurn'
  BY <1>5, <1>6 DEF StoreInv, InItsTurn, OnlyMoves, InTurn
<1>10. Room(n, u) \/ Gone(u)
  BY <1>1, <1>2, <1>3 DEF StoreInv, Kept
<1>11. Gone(u) => Gone(u)'
  BY <1>6 DEF Gone, Excused, Overlapped
<1>12. Kept(c)'
  <2>1. CASE at'[c] = "idle"
    BY <2>1 DEF Kept
  <2>2. CASE at'[c] = "drop"
    <3>1. work' = work /\ ok
      BY <1>5, <2>2
    <3>2. n = Target(c)'
      BY <1>2, <3>1 DEF Target
    <3>3. Safe(n, u)' \/ Gone(u)'
      BY <1>4, <1>10, <1>11, <3>1
    <3> QED
      BY <1>3, <2>2, <3>1, <3>2, <3>3 DEF Kept, Safe, Gone, Excused, Overlapped
  <2> QED
    BY <1>5, <2>1, <2>2
<1>13. u \in returned' => OnFile(u)' \/ u \in torn' \/ Gone(u)'
  <2>1. CASE ok
    BY <1>4, <1>10, <1>11, <2>1
  <2>2. CASE ~ok
    <3>1. u \in returned => OnFile(u) \/ u \in torn \/ Gone(u)
      BY DEF StoreInv, NoneLost
    <3> QED
      BY <1>1, <1>4, <1>6, <1>11, <2>2, <3>1 DEF OnFile
  <2> QED
    BY <2>1, <2>2
<1>14. \A t \in Task : t # work[c].task =>
         (t \in returned' <=> t \in returned) /\ (t \in torn => t \in torn')
  BY <1>1
<1>15. \A m \in Name : m.id # work[c].id => active'[m] = active[m] /\ archive'[m] = archive[m]
  BY <1>2, <1>4
<1>16. /\ \A m \in Name, t \in Task : active'[m] = t =>
             active[m] = t \/ (m.id = work[c].id /\ t = work[c].task)
       /\ \A m \in Name, t \in Task : archive'[m] = t =>
             archive[m] = t \/ (m.id = work[c].id /\ t = work[c].task)
  BY <1>2, <1>3, <1>4
<1> QED
  BY <1>1, <1>3, <1>5, <1>6, <1>8, <1>9, <1>12, <1>13, <1>14, <1>15, <1>16, HandStep

\* The file under the old title is removed.
LEMMA DropOldStays ==
  ASSUME StoreInv, MutualExclusion, NEW c \in Caller, DropOld(c)
  PROVE  StoreInv'
<1>1. /\ at[c] = "drop" /\ Alive(c) /\ Stop(c)
      /\ active' = [active EXCEPT ![OldName(c)] = Missing]
      /\ UNCHANGED <<lockVars, archive, bounds, history>>
  BY DEF DropOld, Doing
<1>2. PICK n \in Name : n = Target(c) /\ n.id = work[c].id
  BY <1>1, Named DEF Updating
<1>3. PICK u \in Task : u = work[c].task
  BY <1>1, Named DEF Updating
<1>4. PICK o \in Name : o = OldName(c) /\ o.id = work[c].id /\ o # n
  BY <1>1, <1>2, Named DEF Updating, StoreInv, HandFull
<1>5. /\ active' \in Directory /\ archive' = archive
      /\ active'[o] = Missing /\ \A m \in Name : m # o => active'[m] = active[m]
  BY <1>1, <1>4 DEF StoreInv, StoreTypes, Directory
<1>6. /\ at'[c] = "idle" /\ OnlyMoves(c) /\ Holds(c) /\ work' \in [Caller -> Work]
      /\ at' \in [Caller -> {"idle", "find"} \cup Creating \cup Updating]
  BY <1>1, Stopping DEF Holds, Updating
<1>7. /\ created' = created /\ deleted' = deleted /\ overlap' = overlap /\ dead' = dead
      /\ returned' = returned /\ torn' = torn /\ place' = place
  BY <1>1 DEF lockVars, bounds, history
<1>8. StoreTypes'
  BY <1>5, <1>6, <1>7 DEF StoreInv, StoreTypes
<1>9. InItsTurn'
  BY <1>6, <1>7 DEF StoreInv, InItsTurn, OnlyMoves, InTurn
<1>10. Kept(c)'
  BY <1>6 DEF Kept
<1>11. OnFile(u)' \/ Gone(u)'
  <2>1. Safe(n, u) \/ Gone(u)
    BY <1>1, <1>2, <1>3 DEF StoreInv, Kept
  <2> QED
    BY <1>4, <1>5, <1>7, <2>1 DEF Safe, OnFile, Gone, Excused, Overlapped
<1>12. /\ \A m \in Name : m.id # work[c].id => active'[m] = active[m] /\ archive'[m] = archive[m]
       /\ \A m \in Name, t \in Task : active'[m] = t => active[m] = t
  BY <1>4, <1>5, Contents
<1> QED
  BY <1>1, <1>3, <1>5, <1>6, <1>7, <1>8, <1>9, <1>10, <1>11, <1>12, HandStep

------------------------------------------------------------------------------
(* The reads of a call.                                                    *)

\* A call that writes no file disturbs no other one.
LEMMA QuietKeeps ==
  ASSUME StoreInv, NEW c \in Caller, OnlyMoves(c), active' = active, archive' = archive,
         deleted' = deleted, returned' = returned, torn' = torn, dead' = dead,
         overlap \subseteq overlap'
  PROVE  NoneLost' /\ \A d \in Caller : d # c => Kept(d)' /\ HandFull(d)'
<1>1. NoneLost'
  <2>1. NoneLost
    BY DEF StoreInv
  <2> QED
    BY <2>1 DEF NoneLost, OnFile, Gone, Excused, Overlapped
<1>2. ASSUME NEW d \in Caller, d # c PROVE Kept(d)'
  <2>1. PICK t : t = work[d].task
    OBVIOUS
  <2>2. \A n \in Name : (Safe(n, t) => Safe(n, t)') /\ (Room(n, t) => Room(n, t)')
    BY DEF Safe, Room
  <2>3. at'[d] = at[d] /\ work'[d] = work[d]
    BY <1>2 DEF OnlyMoves
  <2> QED
    BY <2>1, <2>2, <2>3, KeptStays
<1>3. ASSUME NEW d \in Caller, d # c PROVE HandFull(d)'
  BY <1>3 DEF StoreInv, OnlyMoves, HandFull, Renames
<1> QED
  BY <1>1, <1>2, <1>3

\* The work of a call that moves.
LEMMA Working ==
  ASSUME StoreInv, NEW c \in Caller, NEW what, Step(c, what), NEW w, work' = [work EXCEPT ![c] = w]
  PROVE  OnlyMoves(c) /\ at'[c] = what /\ work'[c] = w
BY DEF StoreInv, StoreTypes, Step, OnlyMoves

\* IDs that were given are not more than the tasks.
LEMMA GivenBounds ==
  ASSUME StoreTypes
  PROVE  Given \in Nat /\ Given <= created /\ IsFiniteSet((1..created) \ Waiting)
<1>1. created \in Nat
  BY StoreAssumption DEF StoreTypes
<1>2. IsFiniteSet(1..created) /\ Cardinality(1..created) = created
  BY <1>1, FS_Interval
<1>3. (1..created) \ Waiting \subseteq 1..created
  OBVIOUS
<1>4. IsFiniteSet((1..created) \ Waiting)
  BY <1>2, <1>3, FS_Subset
<1>5. Cardinality((1..created) \ Waiting) <= Cardinality(1..created)
  BY <1>2, <1>3, FS_Subset
<1>6. Cardinality((1..created) \ Waiting) \in Nat
  BY <1>4, FS_CardinalityType
<1> QED
  BY <1>2, <1>4, <1>5, <1>6 DEF Given

\* The local variables of a call that begins.
LEMMA IdleWorks == Idle \in Work /\ Idle.id = 0 /\ Idle.ids = {}
BY StoreAssumption DEF Idle, Work, Title, Missing

LEMMA Fresh ==
  ASSUME NEW k \in Task, NEW x \in Title
  PROVE  LET w == [Idle EXCEPT !.task = k, !.title = x] IN
         w \in Work /\ w.task = k /\ w.id = 0 /\ w.ids = {}
<1>1. Idle \in Work /\ Idle.id = 0 /\ Idle.ids = {}
  BY IdleWorks
<1> QED
  BY <1>1 DEF Work

\* A creation begins.
LEMMA StartCreateStays ==
  ASSUME StoreInv, NEW c \in Caller, NEW title \in Title, StartCreate(c, title)
  PROVE  StoreInv'
<1> DEFINE w == [Idle EXCEPT !.task = created + 1, !.title = title]
<1>1. /\ at[c] = "idle" /\ created < MaxTasks /\ Enter(c) /\ created' = created + 1
      /\ Step(c, "lock") /\ work' = [work EXCEPT ![c] = w]
      /\ UNCHANGED <<files, updates, moves, history>>
  BY DEF StartCreate
<1>2. /\ active' = active /\ archive' = archive /\ returned' = returned /\ torn' = torn
      /\ deleted' = deleted /\ overlap' = overlap /\ dead' = dead
      /\ \A d \in Caller : d # c => place'[d] = place[d]
  BY <1>1 DEF files, history, Enter, Goto
<1>3. created \in Nat /\ MaxTasks \in Nat /\ created + 1 \in Task
  BY <1>1, StoreAssumption DEF StoreInv, StoreTypes, Task
<1>4. /\ w \in Work /\ w.task = created + 1 /\ w.id = 0 /\ w.ids = {}
  BY <1>3, Fresh
<1> HIDE DEF w
<1>5. OnlyMoves(c) /\ at'[c] = "lock" /\ work'[c] = w
  BY <1>1, Working
<1>6. StoreTypes'
  BY <1>1, <1>2, <1>3, <1>4 DEF StoreInv, StoreTypes, Step, Creating, Task
<1>7. InItsTurn'
  BY <1>2, <1>5 DEF StoreInv, InItsTurn, OnlyMoves, InTurn
<1>8. NoneLost' /\ \A d \in Caller : d # c => Kept(d)' /\ HandFull(d)'
  BY <1>2, <1>5, QuietKeeps
<1>9. HandFull(c)' /\ Kept(c)' /\ Knows(c)'
  BY <1>3, <1>4, <1>5 DEF HandFull, Kept, Knows, Updating, InTurn
<1>10. UpdatesOverlap' /\ \A t : Updated(t)' => Updated(t)
  BY <1>2, <1>5, OverlapStays DEF Updating
<1>11. IdsApart'
  <2>1. ~Holds(c)'
    BY <1>5 DEF Holds, Updating
  <2>2. \A t \in Task, i \in 1..MaxTasks : Has(t, i)' => Has(t, i)
    BY <1>2, <1>5, <2>1, HasStays DEF Has
  <2> QED
    BY <1>2, <2>2, ApartStays
<1>12. IdsCounted'
  <2>1. PICK g : g = Given
    OBVIOUS
  <2>2. (1..created')\ Waiting' = (1..created) \ Waiting
    <3>1. Waiting' = Waiting \cup {created + 1}
      BY <1>1, <1>4, <1>5 DEF Waiting, OnlyMoves
    <3>2. 1..(created + 1) = (1..created) \cup {created + 1} /\ created + 1 \notin 1..created
      BY <1>3
    <3> QED
      BY <1>1, <3>1, <3>2
  <2>3. g = Given'
    BY <2>1, <2>2 DEF Given
  <2>4. 0 <= g
    BY <2>1, GivenBounds DEF StoreInv
  <2>5. /\ \A n \in Name : active'[n] # Missing \/ archive'[n] # Missing => n.id <= g
        /\ \A d \in Caller : at'[d] # "idle" =>
             work'[d].id <= g /\ \A i \in work'[d].ids : i <= g
    BY <1>2, <1>4, <1>5, <2>1, <2>4 DEF StoreInv, IdsCounted, OnlyMoves
  <2> QED
    BY <2>3, <2>5 DEF IdsCounted
<1>13. \A t \in Task : OnFile(t)' <=> OnFile(t)
  BY <1>2 DEF OnFile
<1>14. NoneAhead'
  <2>1. \A t \in Task : t <= created => t <= created + 1
    BY <1>3 DEF Task
  <2> QED
    BY <1>1, <1>2, <1>10, <1>13, <2>1 DEF StoreInv, NoneAhead
<1>15. ASSUME NEW d \in Caller, at'[d] \in Creating PROVE Unborn(d)'
  <2>1. PICK u \in Task : u = work'[d].task
    BY <1>3, <1>4, <1>5, <1>8, <1>9, <1>15 DEF HandFull
  <2>2. \A e \in Caller : e # c /\ at'[e] \in Creating => Unborn(e) /\ at[e] \in Creating /\ work'[e] = work[e]
    BY <1>5 DEF StoreInv, OnlyMoves
  <2>3. /\ u <= created + 1 /\ u \notin returned /\ ~OnFile(u) /\ ~Updated(u)
        /\ \A e \in Caller : at'[e] \in Creating /\ work'[e].task = u => d = e
    <3>1. CASE d = c
      <4>1. u = created + 1 /\ ~(u <= created)
        BY <1>3, <1>4, <1>5, <2>1, <3>1
      <4>2. \A e \in Caller : e # c /\ at'[e] \in Creating => work'[e].task # u
        BY <2>2, <4>1 DEF Unborn
      <4> QED
        BY <1>3, <3>1, <4>1, <4>2 DEF StoreInv, NoneAhead
    <3>2. CASE d # c
      <4>1. u <= created /\ u # created + 1
        BY <1>3, <1>15, <2>1, <2>2, <3>2 DEF Unborn, Task
      <4>2. u <= created + 1
        BY <1>3, <4>1 DEF Task
      <4> QED
        BY <1>4, <1>5, <1>15, <2>1, <2>2, <3>2, <4>1, <4>2 DEF Unborn
    <3> QED
      BY <3>1, <3>2
  <2>4. ~Updated(u)' /\ ~OnFile(u)'
    BY <1>10, <1>13, <2>3
  <2> QED
    BY <1>1, <1>2, <2>1, <2>3, <2>4 DEF Unborn, Updated, OnFile
<1>16. ASSUME NEW d \in Caller, d # c PROVE Knows(d)'
  <2>1. PICK u : u = work[d].task
    OBVIOUS
  <2>2. at'[d] = at[d] /\ work'[d] = work[d]
    BY <1>5, <1>16 DEF OnlyMoves
  <2> QED
    BY <1>2, <1>10, <2>1, <2>2, KnowsStays
<1>17. \A d \in Caller : Unborn(d)'
  BY <1>15 DEF Unborn
<1> QED
  BY <1>6, <1>7, <1>8, <1>9, <1>10, <1>11, <1>12, <1>14, <1>16, <1>17 DEF StoreInv

\* What remains of a read: the call knows more, and its hand is full.
LEMMA ReadStep ==
  ASSUME StoreInv, NEW c \in Caller, OnlyMoves(c), active' = active, archive' = archive,
         deleted' = deleted, returned' = returned, torn' = torn, dead' = dead,
         created' = created, overlap \subseteq overlap', StoreTypes', InItsTurn',
         \A t \in Task : Updated(t)' => Updated(t) \/ OnFile(t),
         \A d \in Caller : d # c => Knows(d)',
         at'[c] \in Creating => at[c] \in Creating /\ work'[c].task = work[c].task,
         HandFull(c)', Kept(c)', Knows(c)', UpdatesOverlap', IdsApart', IdsCounted'
  PROVE  StoreInv'
<1>1. NoneLost' /\ \A d \in Caller : d # c => Kept(d)' /\ HandFull(d)'
  BY QuietKeeps
<1>2. NoneAhead' /\ \A d \in Caller : Unborn(d)'
  <2>1. \A t \in Task : OnFile(t)' => OnFile(t)
    BY DEF OnFile
  <2> QED
    BY <2>1, BornStays
<1> QED
  BY <1>1, <1>2 DEF StoreInv

\* An update begins to write nothing when it begins.
LEMMA OthersKnow ==
  ASSUME StoreInv, NEW c \in Caller, OnlyMoves(c), active' = active,
         dead' = dead, overlap \subseteq overlap',
         \A t \in Task : Updated(t)' => Updated(t)
  PROVE  \A d \in Caller : d # c => Knows(d)'
<1> SUFFICES ASSUME NEW d \in Caller, d # c PROVE Knows(d)'
  OBVIOUS
<1>1. PICK u : u = work[d].task
  OBVIOUS
<1>2. at'[d] = at[d] /\ work'[d] = work[d]
  BY DEF OnlyMoves
<1> QED
  BY <1>1, <1>2, KnowsStays

\* A creation lists the active tasks; updates in progress go on record.
LEMMA ListActiveStays ==
  ASSUME StoreInv, NEW c \in Caller, ListActive(c)
  PROVE  StoreInv'
<1>1. /\ at[c] = "lock" /\ place[c] = "inside"
      /\ work' = [work EXCEPT ![c].todo = Present(active)] /\ Step(c, "read")
      /\ overlap' = overlap \cup (InUpdate \X {work[c].task})
      /\ UNCHANGED <<lockVars, files, bounds, returned, deleted, torn>>
  BY DEF ListActive, Doing
<1>2. /\ active' = active /\ archive' = archive /\ returned' = returned /\ torn' = torn
      /\ deleted' = deleted /\ dead' = dead /\ place' = place /\ created' = created
  BY <1>1 DEF files, bounds, lockVars
<1>3. PICK u \in Task : u = work[c].task
  BY <1>1 DEF StoreInv, HandFull, Creating
<1>4. InUpdate \subseteq Task /\ \A t : Updated(t) <=> t \in InUpdate
  BY DEF StoreInv, HandFull, InUpdate, Updated, Updating
<1>5. /\ OnlyMoves(c) /\ at'[c] = "read" /\ work'[c].todo = Present(active)
      /\ work'[c].task = u /\ work'[c].id = work[c].id /\ work'[c].ids = work[c].ids
      /\ work' \in [Caller -> Work]
  <2>1. work[c] \in Work /\ Present(active) \in SUBSET Name
    BY DEF StoreInv, StoreTypes, Present
  <2>2. work' = [work EXCEPT ![c] = [work[c] EXCEPT !.todo = Present(active)]]
    BY <1>1
  <2>3. [work[c] EXCEPT !.todo = Present(active)] \in Work
    BY <2>1 DEF Work
  <2>4. OnlyMoves(c) /\ at'[c] = "read" /\ work'[c] = [work[c] EXCEPT !.todo = Present(active)]
    BY <1>1, <2>2, Working
  <2> QED
    BY <1>3, <2>1, <2>2, <2>3, <2>4 DEF Work, StoreInv, StoreTypes
<1>6. overlap \subseteq overlap' /\ overlap' \in SUBSET (Task \X Task)
  BY <1>1, <1>3, <1>4 DEF StoreInv, StoreTypes
<1>7. StoreTypes'
  BY <1>1, <1>2, <1>5, <1>6 DEF StoreInv, StoreTypes, Step, Creating
<1>8. InItsTurn'
  BY <1>1, <1>2, <1>5 DEF StoreInv, InItsTurn, OnlyMoves, InTurn
<1>9. UpdatesOverlap' /\ \A t : Updated(t)' => Updated(t)
  BY <1>5, <1>6, OverlapStays DEF Updating
<1>10. HandFull(c)' /\ Kept(c)'
  BY <1>3, <1>5 DEF HandFull, Kept, Updating, Creating
<1>11. IdsApart'
  <2>1. ~Holds(c)'
    BY <1>5 DEF Holds, Updating
  <2>2. \A t \in Task, i \in 1..MaxTasks : Has(t, i)' => Has(t, i)
    BY <1>2, <1>5, <2>1, HasStays DEF Has
  <2> QED
    BY <1>6, <2>2, ApartStays
<1>12. IdsCounted'
  <2>1. work[c].id <= Given /\ \A i \in work[c].ids : i <= Given
    BY <1>1 DEF StoreInv, IdsCounted
  <2>2. work'[c].id <= Given /\ \A i \in work'[c].ids : i <= Given
    BY <1>5, <2>1
  <2> QED
    BY <1>1, <1>2, <1>3, <1>5, <2>2, CountStays
<1>13. Knows(c)'
  <2>1. \A t \in Task : Updated(t)' => Overlapped(t, u)'
    BY <1>1, <1>3, <1>4, <1>9 DEF Overlapped
  <2>2. \A n \in Name : active'[n] \in Task => n \in work'[c].todo
    BY <1>2, <1>5, Contents DEF Present
  <2> QED
    BY <1>5, <2>1, <2>2 DEF Knows, Overlapped
<1>14. \A d \in Caller : d # c => Knows(d)'
  BY <1>2, <1>5, <1>6, <1>9, OthersKnow
<1> QED
  BY <1>1, <1>2, <1>3, <1>5, <1>6, <1>7, <1>8, <1>9, <1>10, <1>11, <1>12, <1>13, <1>14,
     ReadStep DEF Creating

\* It reads the next of them.
LEMMA ReadNextStays ==
  ASSUME StoreInv, NEW c \in Caller, ReadNext(c)
  PROVE  StoreInv'
<1>1. PICK n : n = FirstOf(work[c].todo)
  OBVIOUS
<1>2. /\ at[c] = "read" /\ Alive(c) /\ work[c].todo # {}
      /\ work' = [work EXCEPT ![c].todo = @ \ {n},
                              ![c].ids = IF active[n] \in Task THEN @ \cup {n.id} ELSE @]
      /\ UNCHANGED <<lockVars, files, at, bounds, history>>
  BY <1>1 DEF ReadNext, Doing
<1>3. /\ active' = active /\ archive' = archive /\ returned' = returned /\ torn' = torn
      /\ deleted' = deleted /\ dead' = dead /\ place' = place /\ created' = created
      /\ overlap' = overlap /\ at' = at
  BY <1>2 DEF files, bounds, history, lockVars
<1>4. PICK u \in Task : u = work[c].task
  BY <1>2 DEF StoreInv, HandFull, Creating
<1>5. work[c] \in Work /\ n \in Name
  <2>1. work[c] \in Work
    BY DEF StoreInv, StoreTypes
  <2>2. work[c].todo \in SUBSET Name
    BY <2>1 DEF Work
  <2> QED
    BY <1>1, <1>2, <2>1, <2>2, FirstIn
<1> DEFINE ids == IF active[n] \in Task THEN work[c].ids \cup {n.id} ELSE work[c].ids
<1> DEFINE w == [work[c] EXCEPT !.todo = work[c].todo \ {n}, !.ids = ids]
<1>6. ids \in SUBSET (1..MaxTasks)
  BY <1>5, NameParts DEF Work
<1>7. /\ w \in Work /\ w.todo = work[c].todo \ {n} /\ w.ids = ids
      /\ w.task = work[c].task /\ w.id = work[c].id
  <2> HIDE DEF ids
  <2> QED
    BY <1>5, <1>6 DEF Work
<1>8. work' = [work EXCEPT ![c] = w]
  BY <1>2 DEF StoreInv, StoreTypes
<1> HIDE DEF w
<1>9. /\ OnlyMoves(c) /\ work'[c] = w /\ work' \in [Caller -> Work]
  BY <1>3, <1>7, <1>8 DEF OnlyMoves, StoreInv, StoreTypes
<1>10. StoreTypes'
  BY <1>3, <1>9 DEF StoreInv, StoreTypes
<1>11. InItsTurn'
  BY <1>3 DEF StoreInv, InItsTurn
<1>12. UpdatesOverlap' /\ \A t : Updated(t)' => Updated(t)
  BY <1>2, <1>3, <1>9, OverlapStays DEF Updating
<1>13. HandFull(c)' /\ Kept(c)'
  BY <1>2, <1>3, <1>4, <1>7, <1>9 DEF HandFull, Kept, Updating, Creating
<1>14. IdsApart'
  <2>1. ~Holds(c)'
    BY <1>2, <1>3 DEF Holds, Updating
  <2>2. \A t \in Task, i \in 1..MaxTasks : Has(t, i)' => Has(t, i)
    BY <1>3, <1>9, <2>1, HasStays DEF Has
  <2> QED
    BY <1>3, <2>2, ApartStays
<1>15. IdsCounted'
  <2>1. work[c].id <= Given /\ \A i \in work[c].ids : i <= Given
    BY <1>2 DEF StoreInv, IdsCounted
  <2>2. active[n] \in Task => n.id <= Given
    BY <1>5, Contents DEF StoreInv, IdsCounted
  <2>3. work'[c].id <= Given /\ \A i \in work'[c].ids : i <= Given
    BY <1>7, <1>9, <2>1, <2>2
  <2> QED
    BY <1>2, <1>3, <1>7, <1>9, <2>3, CountStays
<1>16. Knows(c)'
  <2>1. Knows(c)
    BY DEF StoreInv
  <2>2. \A t \in Task : Updated(t)' => Overlapped(t, u)'
    BY <1>2, <1>3, <1>4, <1>12, <2>1 DEF Knows, InTurn, Overlapped
  <2>3. ASSUME NEW m \in Name, NEW t \in Task, active[m] = t
        PROVE  m \in w.todo \/ m.id \in w.ids \/ Overlapped(t, u)
    <3>1. m \in work[c].todo \/ m.id \in work[c].ids \/ Overlapped(t, u)
      BY <1>2, <1>4, <2>1, <2>3 DEF Knows, InTurn
    <3> QED
      BY <1>7, <2>3, <3>1
  <2> QED
    BY <1>3, <1>4, <1>7, <1>9, <2>2, <2>3 DEF Knows, Overlapped
<1>17. \A d \in Caller : d # c => Knows(d)'
  BY <1>3, <1>9, <1>12, OthersKnow
<1> QED
  BY <1>2, <1>3, <1>7, <1>9, <1>10, <1>11, <1>12, <1>13, <1>14, <1>15, <1>16, <1>17,
     ReadStep DEF Creating

\* A set that loses a member of another gets one more where it was left out.
LEMMA OneMore ==
  ASSUME NEW S, IsFiniteSet(S), NEW W, NEW x, x \in S, x \in W, IsFiniteSet(S \ W)
  PROVE  Cardinality(S \ (W \ {x})) = Cardinality(S \ W) + 1
<1>1. S \ (W \ {x}) = (S \ W) \cup {x} /\ x \notin S \ W
  OBVIOUS
<1> QED
  BY <1>1, FS_AddElement

\* A creation takes the highest ID it knows of plus one.
LEMMA AllocateStays ==
  ASSUME StoreInv, MutualExclusion, NEW c \in Caller, Allocate(c)
  PROVE  StoreInv'
<1> DEFINE taken == work[c].ids \cup {n.id : n \in Present(archive)}
<1>1. /\ at[c] = "read" /\ Alive(c) /\ work[c].todo = {} /\ Step(c, "save")
      /\ work' = [work EXCEPT ![c].id = Max({0} \cup taken) + 1, ![c].ids = {}]
      /\ UNCHANGED <<lockVars, files, bounds, history>>
  BY DEF Allocate, Doing
<1>2. /\ active' = active /\ archive' = archive /\ returned' = returned /\ torn' = torn
      /\ deleted' = deleted /\ dead' = dead /\ place' = place /\ created' = created
      /\ overlap' = overlap
  BY <1>1 DEF files, bounds, history, lockVars
<1>3. PICK u \in Task : u = work[c].task
  BY <1>1 DEF StoreInv, HandFull, Creating
<1>4. PICK g \in Nat : g = Given
  BY GivenBounds DEF StoreInv
<1>5. work[c] \in Work /\ MaxTasks \in Nat /\ created \in 0..MaxTasks
  BY StoreAssumption DEF StoreInv, StoreTypes
<1>6. taken \in SUBSET (1..MaxTasks) /\ \A i \in taken : i <= g
  <2>1. work[c].ids \in SUBSET (1..MaxTasks) /\ \A i \in work[c].ids : i <= g
    BY <1>1, <1>4, <1>5 DEF Work, StoreInv, IdsCounted
  <2>2. \A n \in Present(archive) : n \in Name /\ n.id \in 1..MaxTasks /\ n.id <= g
    BY <1>4, NameParts DEF Present, StoreInv, IdsCounted
  <2> QED
    BY <2>1, <2>2
<1>7. PICK top : top = Max({0} \cup taken)
  OBVIOUS
<1>8. /\ top \in Nat /\ top <= g
      /\ \A i \in taken : i <= top
  <2> HIDE DEF taken
  <2>1. Max({0} \cup taken) \in {0} \cup taken /\ \A t \in taken : t <= Max({0} \cup taken)
    BY <1>5, <1>6, MaxOf
  <2>2. top \in {0} \cup taken /\ \A t \in taken : t <= top
    BY <1>7, <2>1
  <2> QED
    BY <1>4, <1>6, <2>2
<1>9. Waiting' = Waiting \ {u} /\ u \in Waiting /\ u \in 1..created
  <2>1. u \in Waiting
    BY <1>1, <1>3 DEF Waiting
  <2>2. u \in 1..created
    BY <1>1, <1>3, <1>5 DEF StoreInv, Unborn, Creating, Task
  <2>3. \A d \in Caller : at[d] \in {"lock", "read"} /\ d # c => work[d].task # u
    BY <1>1, <1>3 DEF StoreInv, Unborn, Creating
  <2>4. at'[c] = "save" /\ \A d \in Caller : d # c => at'[d] = at[d] /\ work'[d] = work[d]
    <3> HIDE DEF taken
    <3>1. \A d \in Caller : d # c => work'[d] = work[d]
      BY <1>1 DEF StoreInv, StoreTypes
    <3> QED
      BY <1>1, <3>1, Moving
  <2>5. \A d \in Caller : at'[d] \in {"lock", "read"} <=> d # c /\ at[d] \in {"lock", "read"}
    BY <2>4
  <2> QED
    BY <1>3, <2>1, <2>2, <2>3, <2>4, <2>5 DEF Waiting
<1>10. PICK h : h = Given'
  OBVIOUS
<1>11. h = g + 1 /\ g + 1 <= created
  <2>1. IsFiniteSet(1..created) /\ IsFiniteSet((1..created) \ Waiting)
    BY <1>5, GivenBounds, FS_Interval DEF StoreInv
  <2>2. Cardinality((1..created) \ (Waiting \ {u})) = g + 1
    BY <1>4, <1>9, <2>1, OneMore DEF Given
  <2>3. h = Cardinality((1..created) \ (Waiting \ {u}))
    BY <1>2, <1>9, <1>10 DEF Given
  <2>4. Cardinality((1..created) \ (Waiting \ {u})) <= Cardinality(1..created)
    BY <2>1, FS_Subset
  <2>5. Cardinality(1..created) = created
    BY <1>5, FS_Interval
  <2> QED
    BY <2>2, <2>3, <2>4, <2>5
<1>12. PICK new \in 1..MaxTasks : new = top + 1
  BY <1>5, <1>8, <1>11
<1> DEFINE w == [work[c] EXCEPT !.id = new, !.ids = {}]
<1>13. /\ w \in Work /\ w.id = new /\ w.ids = {} /\ w.task = u
  <2>1. new \in 0..MaxTasks
    OBVIOUS
  <2> QED
    BY <1>3, <1>5, <2>1 DEF Work
<1>14. work' = [work EXCEPT ![c] = w]
  <2> HIDE DEF taken
  <2>1. work' = [work EXCEPT ![c].id = new, ![c].ids = {}]
    BY <1>1, <1>7, <1>12
  <2> QED
    BY <2>1 DEF StoreInv, StoreTypes
<1> HIDE DEF w
<1>15. OnlyMoves(c) /\ at'[c] = "save" /\ work'[c] = w
  BY <1>1, <1>14, Working
<1>16. StoreTypes'
  BY <1>1, <1>2, <1>13, <1>14 DEF StoreInv, StoreTypes, Step, Creating
<1>17. InItsTurn'
  BY <1>1, <1>2, <1>15 DEF StoreInv, InItsTurn, OnlyMoves, InTurn
<1>18. UpdatesOverlap' /\ \A t : Updated(t)' => Updated(t)
  BY <1>2, <1>15, OverlapStays DEF Updating
<1>19. HandFull(c)' /\ Kept(c)'
  BY <1>13, <1>15 DEF HandFull, Kept, Updating, Creating
<1>20. \A t \in Task : Updated(t) => Overlapped(t, u)
  BY <1>1, <1>3 DEF StoreInv, Knows, InTurn
<1>21. ASSUME NEW v \in Task, Has(v, new) PROVE Overlapped(v, u)
  <2>1. ASSUME NEW n \in Name, n.id = new, archive[n] = v PROVE FALSE
    <3>1. n \in Present(archive)
      BY <2>1, Contents DEF Present
    <3>2. new <= top
      BY <1>8, <2>1, <3>1
    <3> QED
      BY <1>8, <1>12, <3>2
  <2>2. ASSUME NEW n \in Name, n.id = new, active[n] = v PROVE Overlapped(v, u)
    <3>1. n.id \in work[c].ids \/ Overlapped(v, u)
      BY <1>1, <1>3, <2>2 DEF StoreInv, Knows, InTurn
    <3>2. n.id \in work[c].ids => new <= top
      BY <1>8, <2>2
    <3> QED
      BY <1>8, <1>12, <3>1, <3>2
  <2>3. ASSUME NEW d \in Caller, Holds(d), work[d].task = v PROVE Overlapped(v, u)
    <3>1. CASE at[d] \in Updating
      BY <1>20, <2>3, <3>1 DEF Updated
    <3>2. CASE at[d] \in {"save", "write"} /\ Alive(d)
      <4>1. c = d
        BY <1>1, <3>2, OneInTurn DEF InTurn
      <4> QED
        BY <1>1, <3>2, <4>1
    <3> QED
      BY <2>3, <3>1, <3>2 DEF Holds
  <2> QED
    BY <1>21, <2>1, <2>2, <2>3 DEF Has
<1>22. \A t \in Task, i \in 1..MaxTasks : Has(t, i)' => Has(t, i) \/ (t = u /\ i = new)
  <2> SUFFICES ASSUME NEW t \in Task, NEW i \in 1..MaxTasks, Has(t, i)'
               PROVE  Has(t, i) \/ (t = u /\ i = new)
    OBVIOUS
  <2>1. ASSUME NEW d \in Caller, Holds(d)', work'[d].task = t, work'[d].id = i
        PROVE  Has(t, i) \/ (t = u /\ i = new)
    <3>1. CASE d = c
      BY <1>13, <1>15, <2>1, <3>1
    <3>2. CASE d # c
      BY <1>2, <1>15, <2>1, <3>2 DEF OnlyMoves, Holds, Alive, Has
    <3> QED
      BY <3>1, <3>2
  <2> QED
    BY <1>2, <2>1 DEF Has
<1>23. IdsApart'
  BY <1>2, <1>21, <1>22 DEF StoreInv, IdsApart, Overlapped
<1>24. IdsCounted'
  <2>1. /\ \A n \in Name : active[n] # Missing \/ archive[n] # Missing => n.id <= g
        /\ \A d \in Caller : at[d] # "idle" =>
             work[d].id <= g /\ \A i \in work[d].ids : i <= g
    BY <1>4 DEF StoreInv, IdsCounted
  <2>2. new <= h /\ \A i \in 0..MaxTasks : i <= g => i <= h
    BY <1>8, <1>11, <1>12
  <2>3. \A n \in Name : active'[n] # Missing \/ archive'[n] # Missing => n.id <= h
    BY <1>2, <2>1, <2>2, NameParts
  <2>4. ASSUME NEW d \in Caller, at'[d] # "idle"
        PROVE  work'[d].id <= h /\ \A i \in work'[d].ids : i <= h
    <3>1. CASE d = c
      BY <1>13, <1>15, <2>2, <3>1
    <3>2. CASE d # c
      <4>1. work[d] \in Work /\ at[d] # "idle" /\ work'[d] = work[d]
        BY <1>15, <2>4, <3>2 DEF OnlyMoves, StoreInv, StoreTypes
      <4>2. work[d].id \in 0..MaxTasks /\ work[d].ids \subseteq 0..MaxTasks
        BY <4>1 DEF Work
      <4> QED
        BY <2>1, <2>2, <4>1, <4>2
    <3> QED
      BY <3>1, <3>2
  <2> QED
    BY <1>10, <2>3, <2>4 DEF IdsCounted
<1>25. Knows(c)'
  BY <1>2, <1>13, <1>15, <1>18, <1>20 DEF Knows, Overlapped
<1>26. \A d \in Caller : d # c => Knows(d)'
  BY <1>2, <1>15, <1>18, OthersKnow
<1> QED
  BY <1>1, <1>2, <1>3, <1>13, <1>15, <1>16, <1>17, <1>18, <1>19, <1>23, <1>24, <1>25, <1>26,
     ReadStep DEF Creating

\* An update finds the file of its ID.
LEMMA StartUpdateStays ==
  ASSUME StoreInv, NEW c \in Caller, NEW title \in Title, NEW i \in Task,
         StartUpdate(c, i, title)
  PROVE  StoreInv'
<1>1. /\ at[c] = "idle" /\ Found(i) # {} /\ Step(c, "find")
      /\ work' = [work EXCEPT ![c] = [Idle EXCEPT !.id = i, !.title = title,
                                                  !.old = FileOf(i).title]]
      /\ UNCHANGED <<lockVars, files, created, moves, history>>
  BY DEF StartUpdate, Doing
<1>2. /\ active' = active /\ archive' = archive /\ returned' = returned /\ torn' = torn
      /\ deleted' = deleted /\ dead' = dead /\ place' = place /\ created' = created
      /\ overlap' = overlap
  BY <1>1 DEF files, history, lockVars
<1>3. i \in 1..MaxTasks
  BY DEF Task
<1>4. PICK f \in Name : f = FileOf(i) /\ f.id = i /\ active[f] # Missing
  BY <1>1, <1>3, FileFound
<1>15. PICK x \in Title : x = f.title
  BY NameParts
<1> DEFINE w == [Idle EXCEPT !.id = i, !.title = title, !.old = x]
<1>5. w \in Work /\ w.id = i /\ w.old \in Title /\ w.ids = {}
  <2>1. Idle \in Work /\ Idle.ids = {}
    BY IdleWorks
  <2>2. i \in 0..MaxTasks /\ x \in {0} \cup Title
    BY <1>3, StoreAssumption
  <2> QED
    BY <2>1, <2>2 DEF Work
<1>6. work' = [work EXCEPT ![c] = w]
  BY <1>1, <1>4, <1>15
<1> HIDE DEF w
<1>7. OnlyMoves(c) /\ at'[c] = "find" /\ work'[c] = w
  BY <1>1, <1>6, Working
<1>8. StoreTypes'
  BY <1>1, <1>2, <1>5, <1>6 DEF StoreInv, StoreTypes, Step
<1>9. InItsTurn'
  BY <1>2, <1>7 DEF StoreInv, InItsTurn, OnlyMoves, InTurn
<1>10. UpdatesOverlap' /\ \A t : Updated(t)' => Updated(t)
  BY <1>2, <1>7, OverlapStays DEF Updating
<1>11. HandFull(c)' /\ Kept(c)' /\ Knows(c)'
  BY <1>3, <1>5, <1>7 DEF HandFull, Kept, Knows, InTurn, Updating, Creating
<1>12. IdsApart'
  <2>1. ~Holds(c)'
    BY <1>7 DEF Holds, Updating
  <2>2. \A t \in Task, j \in 1..MaxTasks : Has(t, j)' => Has(t, j)
    BY <1>2, <1>7, <2>1, HasStays DEF Has
  <2> QED
    BY <1>2, <2>2, ApartStays
<1>13. IdsCounted'
  <2>1. i <= Given
    BY <1>4 DEF StoreInv, IdsCounted
  <2>2. work'[c].id <= Given /\ \A j \in work'[c].ids : j <= Given
    BY <1>5, <1>7, <2>1
  <2> QED
    BY <1>1, <1>2, <1>7, <2>2, CountStays
<1>14. \A d \in Caller : d # c => Knows(d)'
  BY <1>2, <1>7, <1>10, OthersKnow
<1> QED
  BY <1>2, <1>7, <1>8, <1>9, <1>10, <1>11, <1>12, <1>13, <1>14, ReadStep DEF Creating

\* It reads the task in the file; what it overlaps goes on record.
LEMMA ReadTaskStays ==
  ASSUME StoreInv, NEW c \in Caller, ReadOld(c), active[OldName(c)] \in Task
  PROVE  StoreInv'
<1>1. PICK t \in Task : t = active[OldName(c)]
  OBVIOUS
<1>2. /\ at[c] = "find" /\ work' = [work EXCEPT ![c].task = t] /\ Step(c, "rewrite")
      /\ overlap' = overlap \cup ({t} \X InCreation) \cup ({t} \X ({t} \cap InUpdate))
      /\ UNCHANGED <<lockVars, files, bounds, returned, deleted, torn>>
  BY <1>1 DEF ReadOld, Doing
<1>3. /\ active' = active /\ archive' = archive /\ returned' = returned /\ torn' = torn
      /\ deleted' = deleted /\ dead' = dead /\ place' = place /\ created' = created
  BY <1>2 DEF files, bounds, lockVars
<1>4. PICK o \in Name : o = OldName(c) /\ o.id = work[c].id
  BY <1>2, Named
<1>5. active[o] = t
  BY <1>1, <1>4
<1>6. InCreation \subseteq Task /\ InUpdate \subseteq Task
  BY DEF StoreInv, HandFull, InCreation, InUpdate, Updating, Creating
<1>7. overlap \subseteq overlap' /\ overlap' \in SUBSET (Task \X Task)
  BY <1>2, <1>6 DEF StoreInv, StoreTypes
<1> DEFINE w == [work[c] EXCEPT !.task = t]
<1>8. /\ w \in Work /\ w.task = t /\ w.id = work[c].id /\ w.ids = work[c].ids
      /\ w.old = work[c].old /\ work' = [work EXCEPT ![c] = w]
  <2>1. work[c] \in Work
    BY DEF StoreInv, StoreTypes
  <2> QED
    BY <1>2, <2>1 DEF Work
<1> HIDE DEF w
<1>9. OnlyMoves(c) /\ at'[c] = "rewrite" /\ work'[c] = w
  BY <1>2, <1>8, Working
<1>10. StoreTypes'
  BY <1>2, <1>3, <1>7, <1>8 DEF StoreInv, StoreTypes, Step, Updating
<1>11. InItsTurn'
  BY <1>3, <1>9 DEF StoreInv, InItsTurn, OnlyMoves, InTurn
<1>12. \A v : Updated(v)' => Updated(v) \/ v = t
  BY <1>8, <1>9 DEF Updated, OnlyMoves
<1>13. OnFile(t)
  BY <1>5 DEF OnFile
<1>14. UpdatesOverlap'
  <2> SUFFICES ASSUME NEW a \in Caller, NEW b \in Caller, at'[a] \in Updating,
                      at'[b] \in Updating, work'[a].task = work'[b].task, a # b
               PROVE  <<work'[a].task, work'[a].task>> \in overlap'
    BY DEF UpdatesOverlap
  <2>1. ASSUME NEW d \in Caller, d # c, at'[d] \in Updating, work'[d].task = t
        PROVE  <<t, t>> \in overlap'
    <3>1. t \in InUpdate
      BY <1>9, <2>1 DEF OnlyMoves, InUpdate, Updating
    <3> QED
      BY <1>2, <3>1
  <2>2. CASE a # c /\ b # c
    BY <1>7, <1>9, <2>2 DEF StoreInv, UpdatesOverlap, OnlyMoves
  <2>3. CASE a = c
    BY <1>8, <1>9, <2>1, <2>3
  <2>4. CASE b = c
    BY <1>8, <1>9, <2>1, <2>4
  <2> QED
    BY <2>2, <2>3, <2>4
<1>15. HandFull(c)' /\ Knows(c)'
  BY <1>2, <1>8, <1>9 DEF StoreInv, HandFull, Knows, InTurn, Updating, Creating
<1>16. Kept(c)'
  <2>1. o = OldName(c)'
    BY <1>4, <1>8, <1>9 DEF OldName
  <2> QED
    BY <1>3, <1>5, <1>8, <1>9, <2>1 DEF Kept, Safe
<1>17. IdsApart'
  <2>1. Has(t, work[c].id)
    BY <1>4, <1>5 DEF Has
  <2>2. \A n \in Name, v \in Task : active'[n] = v \/ archive'[n] = v => Has(v, n.id)
    BY <1>3 DEF Has
  <2>3. \A v \in Task, i \in 1..MaxTasks : Has(v, i)' => Has(v, i)
    BY <1>3, <1>8, <1>9, <2>1, <2>2, HasStays
  <2> QED
    BY <1>7, <2>3, ApartStays
<1>18. IdsCounted'
  <2>1. work[c].id <= Given /\ \A i \in work[c].ids : i <= Given
    BY <1>2 DEF StoreInv, IdsCounted
  <2>2. work'[c].id <= Given /\ \A i \in work'[c].ids : i <= Given
    BY <1>8, <1>9, <2>1
  <2> QED
    BY <1>2, <1>3, <1>9, <2>2, CountStays
<1>19. ASSUME NEW d \in Caller, d # c PROVE Knows(d)'
  <2>1. PICK u : u = work[d].task
    OBVIOUS
  <2>2. at'[d] = at[d] /\ work'[d] = work[d]
    BY <1>9, <1>19 DEF OnlyMoves
  <2>3. CASE at[d] \notin InTurn
    BY <2>2, <2>3 DEF Knows
  <2>4. CASE at[d] \in InTurn
    <3>1. u \in InCreation
      BY <2>1, <2>4 DEF InCreation, InTurn
    <3>2. Overlapped(t, u)'
      BY <1>2, <3>1 DEF Overlapped
    <3> QED
      BY <1>3, <1>7, <1>12, <2>1, <2>2, <3>2, KnowsStays
  <2> QED
    BY <2>3, <2>4
<1> QED
  BY <1>3, <1>7, <1>9, <1>10, <1>11, <1>12, <1>13, <1>14, <1>15, <1>16, <1>17, <1>18, <1>19,
     ReadStep DEF Creating

\* A file without a task ends the update.
LEMMA ReadNoTaskStays ==
  ASSUME StoreInv, NEW c \in Caller, ReadOld(c), active[OldName(c)] \notin Task
  PROVE  StoreInv'
<1>1. /\ at[c] = "find" /\ Stop(c) /\ overlap' = overlap
      /\ UNCHANGED <<lockVars, files, bounds, returned, deleted, torn>>
  BY DEF ReadOld, Doing
<1>2. /\ active' = active /\ archive' = archive /\ returned' = returned /\ torn' = torn
      /\ deleted' = deleted /\ dead' = dead /\ place' = place /\ created' = created
  BY <1>1 DEF files, bounds, lockVars
<1>3. /\ OnlyMoves(c) /\ at'[c] = "idle" /\ work' \in [Caller -> Work]
      /\ at' \in [Caller -> {"idle", "find"} \cup Creating \cup Updating]
  BY <1>1, Stopping
<1>4. StoreTypes'
  BY <1>1, <1>2, <1>3 DEF StoreInv, StoreTypes
<1>5. InItsTurn'
  BY <1>2, <1>3 DEF StoreInv, InItsTurn, OnlyMoves, InTurn
<1>6. UpdatesOverlap' /\ \A t : Updated(t)' => Updated(t)
  BY <1>1, <1>3, OverlapStays DEF Updating
<1>7. HandFull(c)' /\ Kept(c)' /\ Knows(c)'
  BY <1>3 DEF HandFull, Kept, Knows, InTurn, Updating, Creating
<1>8. IdsApart'
  <2>1. ~Holds(c)'
    BY <1>3 DEF Holds, Updating
  <2>2. \A t \in Task, j \in 1..MaxTasks : Has(t, j)' => Has(t, j)
    BY <1>2, <1>3, <2>1, HasStays DEF Has
  <2> QED
    BY <1>1, <2>2, ApartStays
<1>9. IdsCounted'
  BY <1>1, <1>2, <1>3, CountStays
<1>10. \A d \in Caller : d # c => Knows(d)'
  BY <1>1, <1>2, <1>3, <1>6, OthersKnow
<1> QED
  BY <1>1, <1>2, <1>3, <1>4, <1>5, <1>6, <1>7, <1>8, <1>9, <1>10, ReadStep DEF Creating

------------------------------------------------------------------------------
(* Steps in which no call moves.                                           *)

\* What remains of such a step: files that are moved or removed.
LEMMA StillStep ==
  ASSUME StoreInv, at' = at, work' = work, created' = created, returned' = returned,
         torn' = torn, overlap' = overlap, deleted \subseteq deleted',
         deleted' \in SUBSET Task, dead \subseteq dead', InItsTurn',
         active' \in Directory, archive' \in Directory,
         \A n \in Name, t \in Task : active'[n] = t => active[n] = t,
         \A n \in Name, t \in Task : archive'[n] = t => archive[n] = t \/ active[n] = t,
         \A n \in Name : active'[n] # Missing \/ archive'[n] # Missing =>
           active[n] # Missing \/ archive[n] # Missing,
         \A t \in Task : OnFile(t) => OnFile(t)' \/ Gone(t)',
         \A d \in Caller : Kept(d)'
  PROVE  StoreInv'
<1>1. StoreTypes'
  BY DEF StoreInv, StoreTypes
<1>2. \A t \in Task : (OnFile(t)' => OnFile(t)) /\ (Updated(t)' <=> Updated(t))
  BY DEF OnFile, Updated
<1>3. NoneAhead'
  BY <1>2 DEF StoreInv, NoneAhead
<1>4. IdsCounted'
  <2>1. PICK g : g = Given
    OBVIOUS
  <2>2. g = Given'
    BY <2>1 DEF Given, Waiting
  <2>3. \A n \in Name : active'[n] # Missing \/ archive'[n] # Missing => n.id <= g
    BY <2>1 DEF StoreInv, IdsCounted
  <2>4. \A d \in Caller : at'[d] # "idle" =>
          work'[d].id <= g /\ \A i \in work'[d].ids : i <= g
    BY <2>1 DEF StoreInv, IdsCounted
  <2> QED
    BY <2>2, <2>3, <2>4 DEF IdsCounted
<1>5. IdsApart'
  <2>1. \A d \in Caller : Holds(d)' => Holds(d)
    BY DEF Holds, Alive
  <2>2. \A t \in Task, i \in 1..MaxTasks : Has(t, i)' => Has(t, i)
    BY <2>1 DEF Has
  <2> QED
    BY <2>2, ApartStays
<1>6. UpdatesOverlap'
  BY DEF StoreInv, UpdatesOverlap
<1>7. NoneLost'
  <2> SUFFICES ASSUME NEW t \in returned PROVE OnFile(t)' \/ t \in torn \/ Gone(t)'
    BY DEF NoneLost, OnFile, Gone, Excused, Overlapped
  <2>1. t \in Task /\ (OnFile(t) \/ t \in torn \/ Gone(t))
    BY DEF StoreInv, StoreTypes, NoneLost
  <2>2. Gone(t) => Gone(t)'
    BY DEF Gone, Excused, Overlapped
  <2> QED
    BY <2>1, <2>2
<1>8. \A d \in Caller : HandFull(d)'
  BY DEF StoreInv, HandFull, Renames
<1>9. ASSUME NEW d \in Caller PROVE Unborn(d)'
  <2> SUFFICES ASSUME at[d] \in Creating PROVE Unborn(d)'
    BY DEF Unborn
  <2>1. PICK u \in Task : u = work[d].task
    BY DEF StoreInv, HandFull
  <2>2. /\ u <= created /\ u \notin returned /\ ~OnFile(u) /\ ~Updated(u)
        /\ \A e \in Caller : at[e] \in Creating /\ work[e].task = u => d = e
    BY <2>1 DEF StoreInv, Unborn
  <2>3. ~OnFile(u)' /\ ~Updated(u)'
    BY <1>2, <2>2
  <2> QED
    BY <2>1, <2>2, <2>3 DEF Unborn, OnFile, Updated
<1>10. ASSUME NEW d \in Caller PROVE Knows(d)'
  <2>1. PICK u : u = work[d].task
    OBVIOUS
  <2> QED
    BY <1>2, <2>1, KnowsStays
<1> QED
  BY <1>1, <1>3, <1>4, <1>5, <1>6, <1>7, <1>8, <1>9, <1>10 DEF StoreInv

\* A file is deleted (deleteTask).
LEMMA DeleteStays ==
  ASSUME StoreInv, NEW i \in Task, Delete(i)
  PROVE  StoreInv'
<1>1. i \in 1..MaxTasks /\ Found(i) # {}
  BY DEF Task, Delete
<1>2. PICK f \in Name : f = FileOf(i)
  BY <1>1, FileFound
<1>3. /\ active' = [active EXCEPT ![f] = Missing] /\ archive' = archive
      /\ deleted' = deleted \cup TasksOf(f) /\ dead' = dead /\ place' = place
      /\ at' = at /\ work' = work /\ created' = created /\ returned' = returned
      /\ torn' = torn /\ overlap' = overlap
  BY <1>2 DEF Delete, lockVars
<1>4. /\ active' \in Directory /\ active'[f] = Missing
      /\ \A n \in Name : n # f => active'[n] = active[n]
  BY <1>3 DEF StoreInv, StoreTypes, Directory
<1>5. TasksOf(f) \in SUBSET Task
  BY DEF StoreInv, HandFull, TasksOf, Creating, Updating
<1>6. deleted \subseteq deleted' /\ deleted' \in SUBSET Task
  BY <1>3, <1>5 DEF StoreInv, StoreTypes
<1>7. InItsTurn'
  BY <1>3 DEF StoreInv, InItsTurn
<1>8. ASSUME NEW t \in Task, active[f] = t PROVE Gone(t)'
  BY <1>3, <1>8 DEF Gone, TasksOf
<1>9. \A t \in Task : OnFile(t) => OnFile(t)' \/ Gone(t)'
  BY <1>3, <1>4, <1>8 DEF OnFile
<1>10. ASSUME NEW d \in Caller PROVE Kept(d)'
  <2>1. PICK t : t = work[d].task
    OBVIOUS
  <2>2. ASSUME NEW n \in Name, Holds(d), n.id = work[d].id
        PROVE  \/ Gone(t)'
               \/ /\ Safe(n, t) => Safe(n, t)'
                  /\ n = Target(d) /\ at[d] \in {"write", "refill"} /\ Room(n, t) => Room(n, t)'
    <3>1. CASE n # f
      BY <1>3, <1>4, <3>1 DEF Safe, Room
    <3>2. CASE n = f
      <4>1. t \in Task
        BY <2>1, <2>2, Named DEF Holds
      <4>2. Safe(f, t) => Safe(f, t)' \/ Gone(t)'
        BY <1>3, <1>4, <1>8, <4>1, Contents DEF Safe
      <4>3. f = Target(d) /\ at[d] \in {"write", "refill"} => Gone(t)'
        BY <1>3, <2>1 DEF TasksOf, Gone
      <4> QED
        BY <3>2, <4>2, <4>3
    <3> QED
      BY <3>1, <3>2
  <2> QED
    BY <1>3, <1>6, <2>1, <2>2, KeptStays
<1>11. /\ \A n \in Name, t \in Task : active'[n] = t => active[n] = t
       /\ \A n \in Name : active'[n] # Missing => active[n] # Missing
  BY <1>4, Contents
<1> QED
  BY <1>3, <1>4, <1>6, <1>7, <1>9, <1>10, <1>11, StillStep DEF StoreInv, StoreTypes

\* A file is moved to the archive, over the one of its name (archivePlan).
LEMMA ArchiveStays ==
  ASSUME StoreInv, NEW t \in Task, Archive(t)
  PROVE  StoreInv'
<1>1. PICK n \in Holding(active, t) :
        /\ archive' = [archive EXCEPT ![FileOf(n.id)] = active[FileOf(n.id)]]
        /\ active' = [active EXCEPT ![FileOf(n.id)] = Missing]
  BY DEF Archive
<1>2. n \in Name /\ active[n] = t /\ n.id \in 1..MaxTasks
  BY NameParts DEF Holding
<1>3. Found(n.id) # {}
  BY <1>2, Contents DEF Found, Present
<1>4. PICK f \in Name : f = FileOf(n.id) /\ f.id = n.id /\ active[f] # Missing
  BY <1>2, <1>3, FileFound
<1>5. /\ at' = at /\ work' = work /\ created' = created /\ returned' = returned
      /\ torn' = torn /\ overlap' = overlap /\ deleted' = deleted
      /\ dead' = dead /\ place' = place
  BY DEF Archive, lockVars, history
<1>6. /\ active' \in Directory /\ archive' \in Directory
      /\ active'[f] = Missing /\ archive'[f] = active[f]
      /\ \A m \in Name : m # f => active'[m] = active[m] /\ archive'[m] = archive[m]
  BY <1>1, <1>4 DEF StoreInv, StoreTypes, Directory
<1>7. InItsTurn'
  BY <1>5 DEF StoreInv, InItsTurn
<1>8. \A v : Gone(v) => Gone(v)'
  BY <1>5 DEF Gone, Excused, Overlapped
<1>9. ASSUME NEW v \in Task, OnFile(v) PROVE OnFile(v)' \/ Gone(v)'
  <2>1. PICK m \in Name : active[m] = v \/ archive[m] = v
    BY <1>9 DEF OnFile
  <2>2. CASE m # f
    BY <1>6, <2>1, <2>2 DEF OnFile
  <2>3. CASE active[f] = v
    BY <1>6, <2>3 DEF OnFile
  <2>4. CASE m = f /\ active[f] # v
    <3>1. CASE t = v
      BY <1>2, <1>6, <2>4, <3>1 DEF OnFile
    <3>2. CASE t # v
      <4>1. Excused(v)
        BY <1>2, <1>4, <2>1, <2>4, <3>2, MeetFiles
      <4> QED
        BY <1>8, <4>1 DEF Gone
    <3> QED
      BY <3>1, <3>2
  <2> QED
    BY <2>2, <2>3, <2>4
<1>10. ASSUME NEW d \in Caller PROVE Kept(d)'
  <2>1. PICK v : v = work[d].task
    OBVIOUS
  <2>2. ASSUME NEW m \in Name, Holds(d), m.id = work[d].id
        PROVE  \/ Gone(v)'
               \/ /\ Safe(m, v) => Safe(m, v)'
                  /\ m = Target(d) /\ at[d] \in {"write", "refill"} /\ Room(m, v) => Room(m, v)'
    <3>1. CASE m # f
      BY <1>6, <3>1 DEF Safe, Room
    <3>2. CASE m = f /\ active[f] \in Task /\ active[f] # v
      <4>1. Excused(v)
        BY <2>1, <2>2, <3>2, MeetFile
      <4> QED
        BY <1>8, <4>1 DEF Gone
    <3>3. CASE m = f /\ active[f] = v
      BY <1>6, <3>3, Contents DEF Safe, Room
    <3>4. CASE m = f /\ active[f] = Empty /\ active[f] # v
      BY <1>6, <3>4 DEF Safe, Room
    <3>5. active[f] \in Task \cup {Empty}
      BY <1>4 DEF StoreInv, StoreTypes, Directory
    <3> QED
      BY <3>1, <3>2, <3>3, <3>4, <3>5
  <2> QED
    BY <1>5, <2>1, <2>2, KeptStays
<1>11. /\ \A m \in Name, v \in Task : active'[m] = v => active[m] = v
       /\ \A m \in Name, v \in Task : archive'[m] = v => archive[m] = v \/ active[m] = v
       /\ \A m \in Name : active'[m] # Missing \/ archive'[m] # Missing =>
            active[m] # Missing \/ archive[m] # Missing
  BY <1>6, Contents
<1>12. deleted' \in SUBSET Task
  BY <1>5 DEF StoreInv, StoreTypes
<1> QED
  BY <1>5, <1>6, <1>7, <1>9, <1>10, <1>11, <1>12, StillStep

\* Only the lock changes, or a process ends.
LEMMA LockLeavesStore ==
  ASSUME StoreInv, UNCHANGED storeVars, dead \subseteq dead', InItsTurn'
  PROVE  StoreInv'
<1>1. /\ at' = at /\ work' = work /\ created' = created /\ returned' = returned
      /\ torn' = torn /\ overlap' = overlap /\ deleted' = deleted
      /\ active' = active /\ archive' = archive
  BY DEF storeVars, files, history, bounds
<1>2. ASSUME NEW d \in Caller PROVE Kept(d)'
  <2>1. PICK t : t = work[d].task
    OBVIOUS
  <2>2. \A n \in Name : (Safe(n, t) => Safe(n, t)') /\ (Room(n, t) => Room(n, t)')
    BY <1>1 DEF Safe, Room
  <2> QED
    BY <1>1, <2>1, <2>2, KeptStays
<1>3. \A t \in Task : OnFile(t) => OnFile(t)'
  BY <1>1 DEF OnFile
<1>4. active' \in Directory /\ archive' \in Directory /\ deleted' \in SUBSET Task
  BY <1>1 DEF StoreInv, StoreTypes
<1> QED
  BY <1>1, <1>2, <1>3, <1>4, StillStep

LEMMA LockStepStays ==
  ASSUME StoreInv, NEW c \in Caller, LockStep(c)
  PROVE  StoreInv'
<1>1. UNCHANGED storeVars /\ (Acquire(c) \/ Release(c))
  BY DEF LockStep
<1>2. place[c] # "inside" /\ dead' = dead
  BY <1>1 DEF Acquire, Release, Create, Exists, ReadLock, CheckOwner, BreakStale,
              ReadOwn, Unlink, At
<1>3. \E there : Goto(c, there)
  BY <1>1, Zenon DEF Acquire, Release, Create, Exists, ReadLock, CheckOwner, BreakStale,
                     ReadOwn, Unlink
<1>4. \A d \in Caller : d # c => place'[d] = place[d]
  BY <1>3 DEF Goto
<1>5. InItsTurn'
  BY <1>1, <1>2, <1>4 DEF StoreInv, InItsTurn, storeVars
<1> QED
  BY <1>1, <1>2, <1>5, LockLeavesStore

LEMMA DieStays ==
  ASSUME StoreInv, NEW p \in Process, Die(p), UNCHANGED storeVars
  PROVE  StoreInv'
<1>1. dead \subseteq dead' /\ place' = place
  BY DEF Die
<1>2. InItsTurn'
  BY <1>1 DEF StoreInv, InItsTurn, storeVars
<1> QED
  BY <1>1, <1>2, LockLeavesStore

------------------------------------------------------------------------------
(* The invariant holds where the lock excludes.                            *)

LEMMA StoreInitially == Init => StoreInv
<1> SUFFICES ASSUME Init PROVE StoreInv
  OBVIOUS
<1>1. /\ active = [n \in Name |-> Missing] /\ archive = [n \in Name |-> Missing]
      /\ at = [c \in Caller |-> "idle"] /\ work = [c \in Caller |-> Idle]
      /\ created = 0 /\ returned = {} /\ deleted = {} /\ torn = {} /\ overlap = {}
  BY DEF Init
<1>2. StoreTypes
  BY <1>1, IdleWorks, StoreAssumption DEF StoreTypes, Directory
<1>3. InItsTurn /\ IdsCounted /\ UpdatesOverlap /\ NoneLost
  BY <1>1 DEF InItsTurn, InTurn, IdsCounted, UpdatesOverlap, Updating, NoneLost
<1>4. \A t \in Task : ~OnFile(t) /\ ~Updated(t)
  BY <1>1, Contents DEF OnFile, Updated, Updating
<1>5. NoneAhead
  BY <1>1, <1>4 DEF NoneAhead
<1>6. \A t \in Task, i \in 1..MaxTasks : ~Has(t, i)
  BY <1>1, Contents DEF Has, Holds, Updating
<1>7. IdsApart
  BY <1>6 DEF IdsApart
<1>8. \A c \in Caller : HandFull(c) /\ Unborn(c) /\ Knows(c) /\ Kept(c)
  BY <1>1 DEF HandFull, Unborn, Knows, Kept, Creating, Updating, InTurn
<1> QED
  BY <1>2, <1>3, <1>5, <1>7, <1>8 DEF StoreInv

LEMMA StoreStays == StoreInv /\ MutualExclusion /\ [Next]_vars => StoreInv'
<1> SUFFICES ASSUME StoreInv, MutualExclusion, [Next]_vars PROVE StoreInv'
  OBVIOUS
<1>1. CASE UNCHANGED vars
  <2>1. UNCHANGED storeVars /\ dead' = dead /\ place' = place
    BY <1>1 DEF vars, lockVars
  <2>2. InItsTurn'
    BY <2>1 DEF StoreInv, InItsTurn, storeVars
  <2> QED
    BY <2>1, <2>2, LockLeavesStore
<1>2. CASE \E c \in Caller, title \in Title : StartCreate(c, title)
  BY <1>2, StartCreateStays
<1>3. CASE \E c \in Caller, title \in Title, i \in Task : StartUpdate(c, i, title)
  BY <1>3, StartUpdateStays
<1>4. ASSUME NEW c \in Caller, CreateStep(c) PROVE StoreInv'
  BY <1>4, ListActiveStays, ReadNextStays, AllocateStays, OpenNewStays, WriteNewStays
  DEF CreateStep
<1>5. ASSUME NEW c \in Caller, UpdateStep(c) PROVE StoreInv'
  BY <1>5, ReadTaskStays, ReadNoTaskStays, OpenUpdatedStays, WriteUpdatedStays, DropOldStays
  DEF UpdateStep
<1>6. ASSUME NEW c \in Caller, LockStep(c) PROVE StoreInv'
  BY <1>6, LockStepStays
<1>7. ASSUME NEW t \in Task, Delete(t) \/ Archive(t) PROVE StoreInv'
  BY <1>7, DeleteStays, ArchiveStays
<1>8. ASSUME NEW p \in Process, Die(p), UNCHANGED storeVars PROVE StoreInv'
  BY <1>8, DieStays
<1> QED
  BY <1>1, <1>2, <1>3, <1>4, <1>5, <1>6, <1>7, <1>8 DEF Next

\* The store takes the steps of the lock, or leaves it alone.
LEMMA StepsOfTheLock == [Next]_vars => [LockNext]_lockVars
<1> SUFFICES ASSUME [Next]_vars PROVE [LockNext]_lockVars
  OBVIOUS
<1>1. ASSUME NEW c \in Caller, CreateStep(c) PROVE Leave(c) \/ UNCHANGED lockVars
  BY <1>1 DEF CreateStep, ListActive, ReadNext, Allocate, OpenNew, WriteNew
<1>2. ASSUME NEW c \in Caller, UpdateStep(c) PROVE UNCHANGED lockVars
  BY <1>2 DEF UpdateStep, ReadOld, OpenUpdated, DropOld, WriteUpdated
<1>3. ASSUME NEW c \in Caller, NEW title \in Title, StartCreate(c, title) PROVE Enter(c)
  BY <1>3 DEF StartCreate
<1>4. ASSUME NEW c \in Caller, NEW title \in Title, NEW i \in Task, StartUpdate(c, i, title)
      PROVE  UNCHANGED lockVars
  BY <1>4 DEF StartUpdate
<1>5. ASSUME NEW t \in Task, Delete(t) \/ Archive(t) PROVE UNCHANGED lockVars
  BY <1>5 DEF Delete, Archive
<1>6. ASSUME NEW c \in Caller, LockStep(c) PROVE Acquire(c) \/ Release(c)
  BY <1>6 DEF LockStep
<1>7. CASE UNCHANGED vars
  BY <1>7 DEF vars
<1> QED
  BY <1>1, <1>2, <1>3, <1>4, <1>5, <1>6, <1>7 DEF Next, LockNext

\* The IDs of two tasks on file are apart.
LEMMA ApartOnFile == StoreInv => IdsDistinct
<1> SUFFICES ASSUME StoreInv, NEW dir \in {active, archive}, NEW rid \in {active, archive},
                    NEW n \in Name, NEW m \in Name, n.id = m.id,
                    dir[n] \in Task, rid[m] \in Task, dir[n] # rid[m]
             PROVE  {<<dir[n], rid[m]>>, <<rid[m], dir[n]>>} \cap overlap # {}
  BY DEF IdsDistinct
<1>1. PICK t \in Task : t = dir[n]
  OBVIOUS
<1>2. PICK u \in Task : u = rid[m]
  OBVIOUS
<1>3. Has(t, n.id) /\ Has(u, n.id)
  BY <1>1, <1>2 DEF Has
<1>4. Overlapped(t, u)
  BY <1>1, <1>2, <1>3, NameParts, Clash
<1> QED
  BY <1>1, <1>2, <1>4 DEF Overlapped

\* A created task is on file.
LEMMA NoneLostOnFile == StoreInv => NoTaskLost
<1> SUFFICES ASSUME StoreInv, NEW t \in returned \ deleted
             PROVE  \/ Holding(active, t) # {} \/ Holding(archive, t) # {}
                    \/ t \in torn
                    \/ \E u \in Task : {<<t, u>>, <<u, t>>} \cap overlap # {}
  BY DEF NoTaskLost
<1>1. OnFile(t) \/ t \in torn \/ Excused(t)
  BY DEF StoreInv, NoneLost, Gone
<1>2. OnFile(t) => Holding(active, t) # {} \/ Holding(archive, t) # {}
  BY DEF OnFile, Holding
<1>3. Excused(t) => \E u \in Task : {<<t, u>>, <<u, t>>} \cap overlap # {}
  BY DEF Excused, Overlapped
<1> QED
  BY <1>1, <1>2, <1>3

\* The types follow.
LEMMA TypesFollow == StoreInv /\ LockTypeOK => TypeOK
<1> SUFFICES ASSUME StoreInv, LockTypeOK PROVE TypeOK
  OBVIOUS
<1>1. /\ active \in Directory /\ archive \in Directory
      /\ at \in [Caller -> {"idle", "lock", "read", "save", "write",
                            "find", "rewrite", "refill", "drop"}]
      /\ \A c \in Caller : work[c] \in Work
      /\ returned \cup deleted \cup torn \subseteq Task /\ overlap \subseteq Task \X Task
  BY DEF StoreInv, StoreTypes, Creating, Updating
<1>2. \A c \in Caller : work[c].todo \subseteq Name
  BY <1>1 DEF Work
<1>3. \A c \in Caller : at[c] \in {"save", "write", "rewrite", "refill", "drop"} =>
        Target(c) \in Name /\ work[c].task \in Task
  BY Named DEF Updating
<1> QED
  BY <1>1, <1>2, <1>3 DEF TypeOK

------------------------------------------------------------------------------
(* Theorems.                                                               *)

\* Whatever dies, fails, moves or is deleted: while the lock lets one caller
\* in at a time, two tasks share an ID only when an update of one was under
\* way while the other was created (createTask of file-system.ts).
THEOREM LockKeepsIdsDistinct == Spec /\ []MutualExclusion => []IdsDistinct
<1> QED
  BY StoreInitially, StoreStays, ApartOnFile, PTL DEF Spec

\* And a task that was created is in some file until it is deleted, or an
\* update tore it or an overlap excuses it (createTask, updateTask).
THEOREM LockKeepsTasks == Spec /\ []MutualExclusion => []NoTaskLost
<1> QED
  BY StoreInitially, StoreStays, NoneLostOnFile, PTL DEF Spec

\* As long as no process has ended that hypothesis is not needed, for any
\* callers in any processes (lock.ts under createTask).
THEOREM KeptUntilADeath == Spec => [](dead = {} => TypeOK /\ IdsDistinct /\ NoTaskLost)
<1> DEFINE Both == LockInv /\ (dead = {} => StoreInv)
<1>1. Init => Both
  BY LockInitially, StoreInitially DEF Init
<1>2. Both /\ [Next]_vars => Both'
  <2> SUFFICES ASSUME Both, [Next]_vars PROVE Both'
    OBVIOUS
  <2>1. LockInv'
    BY StepsOfTheLock, LockStays
  <2>2. dead' = {} => dead = {}
    <3>1. [LockNext]_lockVars
      BY StepsOfTheLock
    <3>2. dead \subseteq dead'
      BY <3>1 DEF LockNext, lockVars, Enter, Leave, Acquire, Release, Create, Exists,
                  ReadLock, CheckOwner, BreakStale, ReadOwn, Unlink, Die
    <3> QED
      BY <3>2
  <2>3. dead = {} => MutualExclusion
    BY DEF LockInv, HeldUntilADeath, MutualExclusion, Inside
  <2>4. dead' = {} => StoreInv'
    BY <2>2, <2>3, StoreStays
  <2> QED
    BY <2>1, <2>4
<1>3. Both => (dead = {} => TypeOK /\ IdsDistinct /\ NoTaskLost)
  BY ApartOnFile, NoneLostOnFile, TypesFollow DEF LockInv
<1> QED
  BY <1>1, <1>2, <1>3, PTL DEF Spec

\* Nor is it needed for two callers, whichever of them dies, wherever.
THEOREM TwoCallersKeepIds ==
  ASSUME TwoCallers
  PROVE  Spec => [](TypeOK /\ MutualExclusion /\ IdsDistinct)
<1>1. Init => PairInv /\ StoreInv
  BY PairInitially, StoreInitially DEF Init
<1>2. PairInv /\ StoreInv /\ [Next]_vars => PairInv' /\ StoreInv'
  BY StepsOfTheLock, PairStays, PairExcludes, StoreStays
<1>3. PairInv /\ StoreInv => TypeOK /\ MutualExclusion /\ IdsDistinct
  BY PairExcludes, ApartOnFile, TypesFollow DEF PairInv, LockInv
<1> QED
  BY <1>1, <1>2, <1>3, PTL DEF Spec

\* And none of their tasks is lost.
THEOREM TwoCallersKeepTasks ==
  ASSUME TwoCallers
  PROVE  Spec => []NoTaskLost
<1>1. Init => PairInv /\ StoreInv
  BY PairInitially, StoreInitially DEF Init
<1>2. PairInv /\ StoreInv /\ [Next]_vars => PairInv' /\ StoreInv'
  BY StepsOfTheLock, PairStays, PairExcludes, StoreStays
<1>3. PairInv /\ StoreInv => NoTaskLost
  BY NoneLostOnFile
<1> QED
  BY <1>1, <1>2, <1>3, PTL DEF Spec

=============================================================================
