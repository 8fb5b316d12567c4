------------------------- MODULE SpawnSessionProofs -------------------------
(* Theorems about spawned agents, for any number of sessions and children, *)
(* any limit on how many run at once and any nesting.                      *)
EXTENDS SpawnSession, FiniteSetTheorems, SequenceTheorems, TLAPS

------------------------------------------------------------------------------
(* The inductive invariant.  What a parent was told, what waits in its     *)
(* buffer and what its loop has yet to report all agree with the record of *)
(* the child in the tracker, and together they miss no settled child.      *)

Settled(c) == status[c] \in {"completed", "failed"}
VerdictOn(c) == IF status[c] = "completed" THEN "success" ELSE "failed"
Queued(s, c) == \E i \in DOMAIN buffer[s] : buffer[s][i][1] = c

\* A child has a record from the moment it has a parent, and not before.
OneRecordEach ==
  \A c \in Spawn :
    /\ parent[c] # c
    /\ parent[c] = NoSession => pc[c] = "none"
    /\ parent[c] = NoSession <=> status[c] = "none"

ToldTruth ==
  \A c \in Spawn : \A i \in DOMAIN told[c] :
    Settled(c) /\ told[c][i] = VerdictOn(c)

QueuedTruth ==
  \A s \in Session : \A i \in DOMAIN buffer[s] :
    Settled(buffer[s][i][1]) /\ buffer[s][i][2] = VerdictOn(buffer[s][i][1])

ReportedTruth == \A s \in Session : \A c \in inbox[s] : status[c] = "failed"

NothingLost ==
  \A s \in Session : pc[s] \notin Ended =>
    \A c \in Children(s) :
      Settled(c) => told[c] # <<>> \/ Queued(s, c) \/ c \in inbox[s]

WaitsForSomeone ==
  \A s \in Session : pc[s] = "waiting" =>
    active[s] > 0 /\ buffer[s] = <<>> /\ inbox[s] = {}

SpawnInv ==
  /\ TypeOK
  /\ SlotsConserved
  /\ NoDanglingWaiter
  /\ OneRecordEach
  /\ ToldTruth
  /\ QueuedTruth
  /\ ReportedTruth
  /\ NothingLost
  /\ WaitsForSomeone

------------------------------------------------------------------------------
(* Sets of children.                                                       *)

\* Children are finitely many.
LEMMA ChildrenFinite ==
  ASSUME NEW S \in SUBSET Spawn
  PROVE  IsFiniteSet(S) /\ Cardinality(S) \in Nat
<1>1. IsFiniteSet(Spawn)
  BY FS_Interval, SpawnAssumption DEF Spawn
<1> QED
  BY <1>1, FS_Subset, FS_CardinalityType

\* In a set of n children there is one with exactly i - 1 smaller ones, for
\* each i up to n: the choices of Failures and First are well defined.
LEMMA RankExists ==
  ASSUME NEW S \in SUBSET Spawn, NEW i \in 1..Cardinality(S)
  PROVE  \E c \in S : Cardinality({d \in S : d < c}) = i - 1
<1> DEFINE n == Cardinality(S)
           Below(c) == {d \in S : d < c}
           T == 0..(n - 1)
           rank == [c \in S |-> Cardinality(Below(c))]
<1>1. IsFiniteSet(S) /\ n \in Nat /\ S \subseteq Nat
  BY ChildrenFinite, SpawnAssumption DEF Spawn
<1>2. ASSUME NEW c \in S
      PROVE  Below(c) \in SUBSET S /\ IsFiniteSet(Below(c)) /\ rank[c] \in T
  <2>1. Below(c) \in SUBSET (S \ {c})
    BY <1>1
  <2>2. IsFiniteSet(S \ {c}) /\ Cardinality(S \ {c}) = n - 1
    BY <1>1, FS_RemoveElement
  <2>3. IsFiniteSet(Below(c)) /\ Cardinality(Below(c)) <= n - 1
    BY <2>1, <2>2, FS_Subset
  <2>4. Cardinality(Below(c)) \in Nat
    BY <2>3, FS_CardinalityType
  <2> QED
    BY <1>1, <2>1, <2>3, <2>4
<1>3. ASSUME NEW c \in S, NEW e \in S, c < e
      PROVE  rank[c] # rank[e]
  <2>0. c \in Nat /\ e \in Nat /\ \A d \in S : d \in Nat
    BY <1>1
  <2>1. Below(c) \cup {c} \in SUBSET Below(e) /\ c \notin Below(c)
    <3>1. ASSUME NEW d \in Below(c) PROVE d \in Below(e)
      BY <2>0, <1>3
    <3>2. c \in Below(e) /\ c \notin Below(c)
      BY <2>0, <1>3
    <3> HIDE DEF Below
    <3> QED
      BY <3>1, <3>2
  <2>2. Cardinality(Below(c) \cup {c}) = Cardinality(Below(c)) + 1
    BY <1>2, <2>1, FS_AddElement
  <2>3. Cardinality(Below(c) \cup {c}) <= Cardinality(Below(e))
    BY <1>2, <2>1, FS_Subset
  <2>4. rank[c] = Cardinality(Below(c)) /\ rank[e] = Cardinality(Below(e))
    OBVIOUS
  <2> HIDE DEF Below, rank
  <2> QED
    BY <1>1, <1>2, <2>2, <2>3, <2>4
<1>4. rank \in Injection(S, T)
  <2>1. rank \in [S -> T]
    BY <1>2
  <2>2. ASSUME NEW c \in S, NEW e \in S, c # e
        PROVE  rank[c] # rank[e]
    <3>1. c < e \/ e < c
      BY <1>1, <2>2
    <3> HIDE DEF rank
    <3> QED
      BY <1>3, <3>1
  <2> HIDE DEF rank
  <2> QED
    BY <2>1, <2>2 DEF Injection, IsInjective
<1>5. IsFiniteSet(T) /\ Cardinality(T) = n
  <2>1. 0 \in Int /\ n - 1 \in Int /\ (n = 0 <=> 0 > n - 1)
    BY <1>1
  <2>2. IsFiniteSet(0..(n - 1)) /\ Cardinality(0..(n - 1)) = IF 0 > n - 1 THEN 0 ELSE n - 1 - 0 + 1
    BY <2>1, FS_Interval
  <2> HIDE DEF n
  <2> QED
    BY <1>1, <2>1, <2>2
<1>6. rank \in Surjection(S, T)
  <2> HIDE DEF rank, T
  <2> QED
    BY <1>4, <1>5, FS_Injection
<1>7. i - 1 \in T
  BY <1>1
<1>8. PICK c \in S : rank[c] = i - 1
  BY <1>6, <1>7 DEF Surjection
<1> QED
  BY <1>8

\* The oldest of some children is one of them.
LEMMA FirstIsMember ==
  ASSUME NEW S \in SUBSET Spawn, S # {}
  PROVE  First(S) \in S
<1>1. IsFiniteSet(S) /\ Cardinality(S) \in Nat /\ Cardinality(S) # 0
  BY ChildrenFinite, FS_EmptySet
<1>2. 1 \in 1..Cardinality(S)
  BY <1>1
<1>3. PICK c \in S : Cardinality({d \in S : d < c}) = 0
  BY <1>2, RankExists
<1>4. {d \in S : d < c} = {}
  <2>1. {d \in S : d < c} \in SUBSET Spawn
    OBVIOUS
  <2> QED
    BY <1>3, <2>1, ChildrenFinite, FS_EmptySet
<1>5. \A d \in S : c <= d
  BY <1>4, SpawnAssumption DEF Spawn
<1> QED
  BY <1>5 DEF First

\* Failures reports children of the set, each as failed.
LEMMA FailuresAreOf ==
  ASSUME NEW S \in SUBSET Spawn
  PROVE  Failures(S) \in Seq(S \X {"failed"}) /\ Len(Failures(S)) = Cardinality(S)
<1> DEFINE n == Cardinality(S)
           nth(i) == CHOOSE c \in S : Cardinality({d \in S : d < c}) = i - 1
<1>1. n \in Nat
  BY ChildrenFinite
<1>2. \A i \in 1..n : nth(i) \in S
  BY RankExists
<1>3. Failures(S) = [i \in 1..n |-> <<nth(i), "failed">>]
  BY DEF Failures
<1> HIDE DEF n, nth
<1>4. Failures(S) \in [1..n -> S \X {"failed"}]
  BY <1>2, <1>3
<1> QED
  BY <1>1, <1>4 DEF n

------------------------------------------------------------------------------
(* The states a behaviour starts in, and each action.                      *)

\* No child has been spawned yet.
LEMMA SpawnInitially == Init => SpawnInv
<1> SUFFICES ASSUME Init PROVE SpawnInv
  OBVIOUS
<1> USE SpawnAssumption DEF Init, Session, Ended
<1>1. TypeOK
  BY DEF TypeOK
<1>2. \A s \in Session : Children(s) = {} /\ Running(s) = {}
  BY DEF Children, Running
<1>3. SlotsConserved
  <2>1. Cardinality({}) = 0 /\ MaxConcurrent - 0 = MaxConcurrent
    BY FS_EmptySet
  <2> QED
    BY <1>2, <2>1 DEF SlotsConserved
<1>4. OneRecordEach
  BY DEF OneRecordEach, Spawn
<1>5. NoDanglingWaiter /\ WaitsForSomeone
  BY DEF NoDanglingWaiter, WaitsForSomeone
<1>7. \A s \in Session : DOMAIN buffer[s] = {}
  OBVIOUS
<1>8. \A c \in Spawn : DOMAIN told[c] = {}
  OBVIOUS
<1>9. ToldTruth /\ QueuedTruth /\ ReportedTruth
  BY <1>7, <1>8 DEF ToldTruth, QueuedTruth, ReportedTruth
<1>6. NothingLost
  BY <1>2 DEF NothingLost
<1> QED
  BY <1>1, <1>3, <1>4, <1>5, <1>6, <1>9 DEF SpawnInv

\* The slots of a session hold as many children as run.
LEMMA RunningCounts ==
  ASSUME SpawnInv, NEW s \in Session
  PROVE  /\ Running(s) \in SUBSET Spawn /\ IsFiniteSet(Running(s))
         /\ active[s] = Cardinality(Running(s)) /\ active[s] \in 0..MaxConcurrent
         /\ free[s] = MaxConcurrent - active[s]
         /\ active[s] = 0 <=> Running(s) = {}
<1>1. Running(s) \in SUBSET Spawn
  BY DEF Running, Children
<1> QED
  BY <1>1, ChildrenFinite, FS_EmptySet DEF SpawnInv, SlotsConserved, TypeOK

\* What is buffered is about children.
LEMMA ReportsAreOfChildren ==
  ASSUME SpawnInv
  PROVE  \A s \in Session : \A i \in DOMAIN buffer[s] :
           buffer[s][i][1] \in Spawn /\ buffer[s][i][2] \in Verdict
<1> SUFFICES ASSUME NEW s \in Session, NEW i \in DOMAIN buffer[s]
             PROVE  buffer[s][i] \in Report
  BY DEF Report
<1> QED
  BY LenProperties, ElementOfSeq DEF SpawnInv, TypeOK

\* spawn: the new child takes a slot of its parent.
LEMMA SpawnChildKeeps ==
  ASSUME SpawnInv, NEW s \in Session, SpawnChild(s)
  PROVE  SpawnInv'
<1> DEFINE c == First(Unused)
<1>1. c \in Unused
  BY FirstIsMember DEF SpawnChild, Unused
<1>2. c \in Spawn /\ parent[c] = NoSession /\ status[c] = "none" /\ pc[c] = "none" /\ c \in Session
  BY <1>1 DEF Unused, SpawnInv, OneRecordEach, Session
<1> HIDE DEF c
<1>3. /\ parent' = [parent EXCEPT ![c] = s]
      /\ status' = [status EXCEPT ![c] = "running"]
      /\ pc' = [pc EXCEPT ![c] = "creating"]
      /\ free' = [free EXCEPT ![s] = @ - 1]
      /\ active' = [active EXCEPT ![s] = @ + 1]
      /\ UNCHANGED <<buffer, waiters, inbox, told>>
      /\ pc[s] = "turn" /\ free[s] > 0
  BY DEF SpawnChild, c
<1>4. c # s /\ s # NoSession /\ \A t \in Session : t # NoSession
  BY <1>2, <1>3, SpawnAssumption DEF Session
<1>5. Running(s)' = Running(s) \cup {c} /\ c \notin Running(s)
  BY <1>2, <1>3 DEF Running, Children, SpawnInv, TypeOK
<1>6. \A t \in Session : t # s => Running(t)' = Running(t)
  BY <1>2, <1>3, <1>4 DEF Running, Children, SpawnInv, TypeOK
<1>7. Cardinality(Running(s)') = active[s] + 1 /\ active[s] \in 0..MaxConcurrent
      /\ free[s] = MaxConcurrent - active[s]
  <2>1. Cardinality(Running(s) \cup {c}) = Cardinality(Running(s)) + 1
    BY <1>5, RunningCounts, FS_AddElement
  <2> QED
    BY <1>5, <2>1, RunningCounts
<1>8. TypeOK'
  BY <1>2, <1>3, <1>7, SpawnAssumption DEF SpawnInv, TypeOK
<1>9. SlotsConserved'
  <2>1. ASSUME NEW t \in Session
        PROVE  active'[t] = Cardinality(Running(t)') /\ free'[t] = MaxConcurrent - active'[t]
    <3>1. CASE t = s
      <4>1. active'[s] = active[s] + 1 /\ free'[s] = free[s] - 1
        BY <1>3 DEF SpawnInv, TypeOK
      <4> QED
        BY <1>7, <3>1, <4>1, SpawnAssumption
    <3>2. CASE t # s
      BY <1>3, <1>6, <3>2 DEF SpawnInv, TypeOK, SlotsConserved
    <3> QED
      BY <3>1, <3>2
  <2> QED
    BY <2>1 DEF SlotsConserved
<1>10. NoDanglingWaiter' /\ WaitsForSomeone'
  <2>1. \A t \in Session : pc'[t] = "waiting" => t # s /\ t # c /\ pc[t] = "waiting"
    BY <1>2, <1>3 DEF SpawnInv, TypeOK
  <2>2. \A t \in Session : t # s => active'[t] = active[t]
    BY <1>3 DEF SpawnInv, TypeOK
  <2>3. \A t \in Session : pc[t] = "waiting" => pc'[t] = "waiting"
    BY <1>2, <1>3 DEF SpawnInv, TypeOK
  <2> QED
    BY <1>3, <2>1, <2>2, <2>3 DEF SpawnInv, NoDanglingWaiter, WaitsForSomeone
<1>11. OneRecordEach'
  BY <1>2, <1>3, <1>4 DEF SpawnInv, TypeOK, OneRecordEach
<1>12. ToldTruth' /\ QueuedTruth' /\ ReportedTruth'
  <2>1. \A d \in Spawn : Settled(d) =>
          d # c /\ status'[d] = status[d] /\ Settled(d)' /\ VerdictOn(d)' = VerdictOn(d)
    BY <1>2, <1>3 DEF SpawnInv, TypeOK, Settled, VerdictOn
  <2>2. \A d \in Spawn : status[d] = "failed" => status'[d] = "failed"
    BY <1>2, <1>3 DEF SpawnInv, TypeOK
  <2>3. \A t \in Session : inbox[t] \subseteq Spawn
    BY DEF SpawnInv, TypeOK
  <2> QED
    BY <1>3, <2>1, <2>2, <2>3, ReportsAreOfChildren DEF SpawnInv, ToldTruth, QueuedTruth, ReportedTruth
<1>13. NothingLost'
  BY <1>2, <1>3, <1>4 DEF SpawnInv, TypeOK, NothingLost, Settled, Queued, Children, Ended
<1> QED
  BY <1>8, <1>9, <1>10, <1>11, <1>12, <1>13 DEF SpawnInv

\* complete and fail: the first of them gives the slot back, and its verdict
\* goes to whoever waits, or to the buffer; a later one changes nothing.
LEMMA SettleKeeps ==
  ASSUME SpawnInv, NEW c \in Spawn, NEW result \in Verdict,
         pc[c] \in {"creating", "turn"}, Settle(c, result)
  PROVE  SpawnInv'
<1>1. PICK p \in Session : p = parent[c] /\ p # c /\ c \in Session /\ status[c] # "none"
  BY DEF SpawnInv, TypeOK, OneRecordEach, Session
<1> DEFINE heard == pc[p] \notin Ended
           awaited == heard /\ waiters[p] > 0
<1>2. CASE status[c] # "running"
  <2>1. pc' = [pc EXCEPT ![c] = "done"] /\ UNCHANGED <<tracker, buffer, waiters, inbox, told>>
    BY <1>2 DEF Settle
  <2>2. TypeOK' /\ OneRecordEach'
    BY <1>1, <2>1 DEF SpawnInv, TypeOK, OneRecordEach, Ended, tracker
  <2>3. SlotsConserved' /\ ToldTruth' /\ QueuedTruth' /\ ReportedTruth'
    BY <2>1 DEF SpawnInv, SlotsConserved, Running, Children, ToldTruth, QueuedTruth,
                ReportedTruth, Settled, VerdictOn, tracker
  <2>4. \A t \in Session : pc'[t] = IF t = c THEN "done" ELSE pc[t]
    BY <1>1, <2>1 DEF SpawnInv, TypeOK
  <2>5. NoDanglingWaiter' /\ WaitsForSomeone'
    BY <1>1, <2>1, <2>4 DEF SpawnInv, NoDanglingWaiter, WaitsForSomeone, tracker
  <2>6. NothingLost'
    BY <1>1, <2>1, <2>4 DEF SpawnInv, NothingLost, Children, Settled, Queued, Ended, tracker
  <2> QED
    BY <2>2, <2>3, <2>5, <2>6 DEF SpawnInv
<1>3. CASE status[c] = "running"
  <2>1. /\ status' = [status EXCEPT ![c] = IF result = "success" THEN "completed" ELSE "failed"]
        /\ active' = [active EXCEPT ![p] = @ - 1]
        /\ free' = [free EXCEPT ![p] = @ + 1]
        /\ UNCHANGED <<parent, inbox>>
    BY <1>1, <1>3 DEF Settle
  <2>2. /\ waiters' = IF awaited THEN [waiters EXCEPT ![p] = @ - 1] ELSE waiters
        /\ buffer' = IF heard /\ ~awaited
                       THEN [buffer EXCEPT ![p] = Append(@, <<c, result>>)] ELSE buffer
        /\ told' = IF awaited \/ p \in Interactive
                     THEN [told EXCEPT ![c] = Append(@, result)] ELSE told
        /\ pc' = [pc EXCEPT ![c] = "done", ![p] = IF awaited THEN "turn" ELSE @]
    BY <1>1, <1>3 DEF Settle, Publish
  <2>3. Running(p)' = Running(p) \ {c} /\ c \in Running(p)
    BY <1>1, <1>3, <2>1 DEF Running, Children, SpawnInv, TypeOK
  <2>4. \A t \in Session : t # p => Running(t)' = Running(t)
    BY <1>1, <1>3, <2>1 DEF Running, Children, SpawnInv, TypeOK
  <2>5. /\ active[p] \in 1..MaxConcurrent /\ free[p] = MaxConcurrent - active[p]
        /\ Cardinality(Running(p)') = active[p] - 1
    <3>1. Cardinality(Running(p) \ {c}) = Cardinality(Running(p)) - 1
      BY <1>1, <2>3, RunningCounts, FS_RemoveElement
    <3>2. Running(p) # {}
      BY <2>3
    <3> QED
      BY <1>1, <2>3, <3>1, <3>2, RunningCounts
  <2>6. \A t \in Session :
          /\ active'[t] = IF t = p THEN active[p] - 1 ELSE active[t]
          /\ free'[t] = IF t = p THEN free[p] + 1 ELSE free[t]
          /\ waiters'[t] = IF t = p /\ awaited THEN waiters[p] - 1 ELSE waiters[t]
          /\ pc'[t] = IF t = p /\ awaited THEN "turn" ELSE IF t = c THEN "done" ELSE pc[t]
    BY <1>1, <2>1, <2>2 DEF SpawnInv, TypeOK
  <2>7. \A d \in Spawn : /\ d # c => Settled(d)' = Settled(d) /\ VerdictOn(d)' = VerdictOn(d)
                         /\ d # c => status'[d] = status[d]
                         /\ Settled(c)' /\ VerdictOn(c)' = result /\ ~Settled(c)
    BY <1>1, <1>3, <2>1 DEF SpawnInv, TypeOK, Settled, VerdictOn, Verdict
  <2>8. TypeOK'
    <3>1. buffer' \in [Session -> Seq(Report)]
      <4>1. <<c, result>> \in Report
        BY DEF Report
      <4>2. buffer[p] \in Seq(Report)
        BY <1>1 DEF SpawnInv, TypeOK
      <4>3. Append(buffer[p], <<c, result>>) \in Seq(Report)
        BY <4>1, <4>2, AppendProperties
      <4> QED
        BY <1>1, <2>2, <4>3 DEF SpawnInv, TypeOK
    <3>2. told' \in [Spawn -> Seq(Verdict)]
      BY <1>1, <2>2, AppendProperties DEF SpawnInv, TypeOK
    <3>3. free' \in [Session -> 0..MaxConcurrent] /\ active' \in [Session -> 0..MaxConcurrent]
      BY <1>1, <2>1, <2>5, SpawnAssumption DEF SpawnInv, TypeOK
    <3>4. waiters' \in [Session -> {0, 1}]
      BY <1>1, <2>2 DEF SpawnInv, TypeOK
    <3> QED
      BY <1>1, <2>1, <2>2, <3>1, <3>2, <3>3, <3>4 DEF SpawnInv, TypeOK, Ended
  <2>9. SlotsConserved'
    <3>1. ASSUME NEW t \in Session
          PROVE  active'[t] = Cardinality(Running(t)') /\ free'[t] = MaxConcurrent - active'[t]
      <4>1. CASE t = p
        <5>1. active'[p] = active[p] - 1 /\ free'[p] = free[p] + 1
          BY <1>1, <2>6
        <5> HIDE DEF awaited, heard
        <5> QED
          BY <2>5, <4>1, <5>1, SpawnAssumption
      <4>2. CASE t # p
        BY <2>4, <2>6, <4>2 DEF SpawnInv, SlotsConserved
      <4> QED
        BY <4>1, <4>2
    <3> QED
      BY <3>1 DEF SlotsConserved
  <2>17. awaited => pc[p] = "waiting" /\ waiters[p] = 1
    BY <1>1 DEF SpawnInv, NoDanglingWaiter
  <2>18. pc[c] # "waiting" /\ waiters[c] = 0
    BY <1>1 DEF SpawnInv, NoDanglingWaiter
  <2>10. NoDanglingWaiter'
    <3>1. SUFFICES ASSUME NEW t \in Session
                   PROVE  waiters'[t] = IF pc'[t] = "waiting" THEN 1 ELSE 0
      BY DEF NoDanglingWaiter
    <3>2. waiters[t] = IF pc[t] = "waiting" THEN 1 ELSE 0
      BY DEF SpawnInv, NoDanglingWaiter
    <3> HIDE DEF awaited, heard
    <3> QED
      BY <1>1, <2>6, <2>17, <2>18, <3>2
  <2>11. WaitsForSomeone'
    <3>1. SUFFICES ASSUME NEW t \in Session, pc'[t] = "waiting"
                   PROVE  active'[t] > 0 /\ buffer'[t] = <<>> /\ inbox'[t] = {}
      BY DEF WaitsForSomeone
    <3>2. pc[t] = "waiting" /\ (t = p => ~awaited)
      BY <1>1, <2>6, <3>1
    <3>3. t # p
      BY <3>2 DEF SpawnInv, NoDanglingWaiter, Ended
    <3>4. buffer'[t] = buffer[t]
      BY <1>1, <2>2, <3>3 DEF SpawnInv, TypeOK
    <3> QED
      BY <2>1, <2>6, <3>2, <3>3, <3>4 DEF SpawnInv, WaitsForSomeone
  <2>12. OneRecordEach'
    <3>1. SUFFICES ASSUME NEW d \in Spawn
                   PROVE  /\ parent[d] # d
                          /\ parent[d] = NoSession => pc'[d] = "none"
                          /\ parent[d] = NoSession <=> status'[d] = "none"
      BY <2>1 DEF OneRecordEach
    <3>2. status'[d] = "none" <=> status[d] = "none"
      BY <1>1, <2>1 DEF SpawnInv, TypeOK
    <3>3. pc[d] = "none" => pc'[d] = "none"
      BY <2>6, <2>17 DEF Session
    <3> QED
      BY <3>2, <3>3 DEF SpawnInv, OneRecordEach
  <2>13. ToldTruth'
    <3>1. SUFFICES ASSUME NEW d \in Spawn, NEW i \in DOMAIN told'[d]
                   PROVE  Settled(d)' /\ told'[d][i] = VerdictOn(d)'
      BY DEF ToldTruth
    <3>2. CASE d # c
      <4>1. told'[d] = told[d]
        BY <2>2, <3>2 DEF SpawnInv, TypeOK
      <4> QED
        BY <2>7, <3>1, <3>2, <4>1 DEF SpawnInv, ToldTruth
    <3>3. CASE d = c
      <4>1. told[c] = <<>>
        BY <2>7, EmptySeq, LenProperties DEF SpawnInv, TypeOK, ToldTruth
      <4>2. told'[c] = <<>> \/ told'[c] = << result >>
        BY <2>2, <4>1 DEF SpawnInv, TypeOK
      <4> QED
        BY <2>7, <3>1, <3>3, <4>2
    <3> QED
      BY <3>2, <3>3
  <2>14. QueuedTruth'
    <3>1. SUFFICES ASSUME NEW t \in Session, NEW i \in DOMAIN buffer'[t]
                   PROVE  (Settled(buffer[t][i][1]) /\ buffer[t][i][2] = VerdictOn(buffer[t][i][1]))'
      BY DEF QueuedTruth
    <3>2. CASE i \in DOMAIN buffer[t] /\ buffer'[t][i] = buffer[t][i]
      BY <2>7, <3>2, ReportsAreOfChildren DEF SpawnInv, QueuedTruth
    <3>3. CASE buffer'[t][i] = <<c, result>>
      BY <2>7, <3>3
    <3>4. \/ buffer'[t] = buffer[t]
          \/ buffer'[t] = Append(buffer[t], <<c, result>>)
      BY <1>1, <2>2 DEF SpawnInv, TypeOK
    <3>5. buffer[t] \in Seq(Report) /\ <<c, result>> \in Report
      BY DEF SpawnInv, TypeOK, Report
    <3>6. ASSUME buffer'[t] = Append(buffer[t], <<c, result>>)
          PROVE  \/ i \in DOMAIN buffer[t] /\ buffer'[t][i] = buffer[t][i]
                 \/ buffer'[t][i] = <<c, result>>
      <4>1. DOMAIN buffer'[t] = 1..(Len(buffer[t]) + 1) /\ DOMAIN buffer[t] = 1..Len(buffer[t])
            /\ Len(buffer[t]) \in Nat
        BY <3>5, <3>6, AppendProperties, LenProperties
      <4> QED
        BY <3>1, <3>5, <3>6, <4>1, AppendProperties
    <3> QED
      BY <3>1, <3>2, <3>3, <3>4, <3>6
  <2>15. ReportedTruth'
    BY <1>3, <2>1, <2>7 DEF SpawnInv, TypeOK, ReportedTruth
  <2>16. NothingLost'
    <3>1. SUFFICES ASSUME NEW t \in Session, pc'[t] \notin Ended,
                          NEW d \in Spawn, parent[d] = t, Settled(d)'
                   PROVE  told'[d] # <<>> \/ Queued(t, d)' \/ d \in inbox[t]
      BY <2>1 DEF NothingLost, Children
    <3>2. pc[t] \notin Ended
      BY <1>1, <2>6, <3>1 DEF Ended
    <3>3. CASE d # c
      <4>1. told[d] # <<>> \/ Queued(t, d) \/ d \in inbox[t]
        BY <2>7, <3>1, <3>2, <3>3 DEF SpawnInv, NothingLost, Children
      <4>2. told'[d] = told[d]
        BY <2>2, <3>3 DEF SpawnInv, TypeOK
      <4>3. Queued(t, d) => Queued(t, d)'
        <5>1. \/ buffer'[t] = buffer[t]
              \/ buffer'[t] = Append(buffer[t], <<c, result>>)
          BY <1>1, <2>2 DEF SpawnInv, TypeOK
        <5>2. buffer[t] \in Seq(Report) /\ <<c, result>> \in Report
          BY DEF SpawnInv, TypeOK, Report
        <5>3. \A i \in DOMAIN buffer[t] : i \in DOMAIN buffer'[t] /\ buffer'[t][i] = buffer[t][i]
          <6>1. DOMAIN buffer[t] = 1..Len(buffer[t]) /\ Len(buffer[t]) \in Nat
            BY <5>2, LenProperties
          <6>2. ASSUME buffer'[t] = Append(buffer[t], <<c, result>>)
                PROVE  /\ DOMAIN buffer'[t] = 1..(Len(buffer[t]) + 1)
                       /\ \A i \in 1..Len(buffer[t]) : buffer'[t][i] = buffer[t][i]
            BY <5>2, <6>2, AppendProperties, LenProperties
          <6> QED
            BY <5>1, <6>1, <6>2
        <5> QED
          BY <5>3 DEF Queued
      <4> QED
        BY <4>1, <4>2, <4>3
    <3>4. CASE d = c
      <4>1. t = p /\ heard
        BY <1>1, <3>1, <3>2, <3>4
      <4>2. CASE awaited
        <5>1. told[c] \in Seq(Verdict)
          BY DEF SpawnInv, TypeOK
        <5>2. told'[c] = Append(told[c], result)
          BY <2>2, <4>2 DEF SpawnInv, TypeOK
        <5> QED
          BY <3>4, <5>1, <5>2, AppendProperties
      <4>3. CASE ~awaited
        <5>1. buffer'[t] = Append(buffer[t], <<c, result>>)
          BY <1>1, <2>2, <4>1, <4>3 DEF SpawnInv, TypeOK
        <5>2. buffer[t] \in Seq(Report) /\ <<c, result>> \in Report
          BY DEF SpawnInv, TypeOK, Report
        <5>3. Len(buffer[t]) + 1 \in DOMAIN buffer'[t] /\ buffer'[t][Len(buffer[t]) + 1] = <<c, result>>
          BY <5>1, <5>2, AppendProperties, LenProperties
        <5> QED
          BY <3>4, <5>3 DEF Queued
      <4> QED
        BY <4>2, <4>3
    <3> QED
      BY <3>3, <3>4
  <2> QED
    BY <2>8, <2>9, <2>10, <2>11, <2>12, <2>13, <2>14, <2>15, <2>16 DEF SpawnInv
<1> QED
  BY <1>2, <1>3

\* A step that moves one session on, and not to waiting.
LEMMA MovingOnKeeps ==
  ASSUME SpawnInv, NEW s \in Session, NEW to \in {"turn"} \cup Ended,
         pc[s] \in {"creating", "turn"}, pc' = [pc EXCEPT ![s] = to],
         UNCHANGED <<tracker, buffer, waiters, inbox, told>>
  PROVE  SpawnInv'
<1>1. TypeOK'
  BY DEF SpawnInv, TypeOK, Ended, tracker
<1>2. SlotsConserved' /\ ToldTruth' /\ QueuedTruth' /\ ReportedTruth'
  BY DEF SpawnInv, SlotsConserved, Running, Children, ToldTruth, QueuedTruth,
         ReportedTruth, Settled, VerdictOn, tracker
<1>3. \A t \in Session : pc'[t] = IF t = s THEN to ELSE pc[t]
  BY DEF SpawnInv, TypeOK
<1>4. NoDanglingWaiter' /\ WaitsForSomeone'
  BY <1>3 DEF SpawnInv, NoDanglingWaiter, WaitsForSomeone, Ended, tracker
<1>5. OneRecordEach'
  BY <1>3 DEF SpawnInv, OneRecordEach, Session, tracker
<1>6. NothingLost'
  BY <1>3 DEF SpawnInv, NothingLost, Children, Settled, Queued, Ended, tracker
<1> QED
  BY <1>1, <1>2, <1>4, <1>5, <1>6 DEF SpawnInv

\* The loop of the parent reports one more timed-out child.
LEMMA NextMessageKeeps ==
  ASSUME SpawnInv, NEW s \in Session, NextMessage(s)
  PROVE  SpawnInv'
<1>1. PICK c \in inbox[s] : /\ told' = [told EXCEPT ![c] = Append(@, "failed")]
                            /\ inbox' = [inbox EXCEPT ![s] = @ \ {c}]
  BY FirstIsMember DEF NextMessage, SpawnInv, TypeOK
<1>2. pc[s] = "turn" /\ UNCHANGED <<tracker, buffer, waiters, pc>>
  BY DEF NextMessage
<1>3. c \in Spawn /\ status[c] = "failed"
  BY DEF SpawnInv, TypeOK, ReportedTruth
<1>4. \A d \in Spawn : told'[d] = IF d = c THEN Append(told[c], "failed") ELSE told[d]
  BY <1>1, <1>3 DEF SpawnInv, TypeOK
<1>5. \A t \in Session : inbox'[t] = IF t = s THEN inbox[s] \ {c} ELSE inbox[t]
  BY <1>1 DEF SpawnInv, TypeOK
<1>6. told[c] \in Seq(Verdict) /\ "failed" \in Verdict
  BY <1>3 DEF SpawnInv, TypeOK, Verdict
<1>7. /\ Append(told[c], "failed") \in Seq(Verdict) /\ Append(told[c], "failed") # <<>>
      /\ DOMAIN Append(told[c], "failed") = 1..(Len(told[c]) + 1)
      /\ DOMAIN told[c] = 1..Len(told[c]) /\ Len(told[c]) \in Nat
      /\ \A i \in 1..Len(told[c]) : Append(told[c], "failed")[i] = told[c][i]
      /\ Append(told[c], "failed")[Len(told[c]) + 1] = "failed"
  BY <1>6, AppendProperties, LenProperties
<1>8. TypeOK'
  BY <1>1, <1>2, <1>3, <1>7 DEF SpawnInv, TypeOK, tracker
<1>9. SlotsConserved' /\ NoDanglingWaiter' /\ OneRecordEach' /\ QueuedTruth' /\ WaitsForSomeone'
  BY <1>2, <1>5 DEF SpawnInv, SlotsConserved, Running, Children, NoDanglingWaiter,
     OneRecordEach, QueuedTruth, WaitsForSomeone, Settled, VerdictOn, tracker
<1>10. ToldTruth'
  <2>1. SUFFICES ASSUME NEW d \in Spawn, NEW i \in DOMAIN told'[d]
                 PROVE  Settled(d) /\ told'[d][i] = VerdictOn(d)
    BY <1>2 DEF ToldTruth, Settled, VerdictOn, tracker
  <2>2. CASE d # c
    BY <1>4, <2>1, <2>2 DEF SpawnInv, ToldTruth
  <2>3. CASE d = c
    <3>1. i \in 1..(Len(told[c]) + 1) /\ told'[d] = Append(told[c], "failed")
      BY <1>4, <1>7, <2>1, <2>3
    <3>2. Settled(c) /\ VerdictOn(c) = "failed"
      BY <1>3 DEF Settled, VerdictOn
    <3>3. CASE i = Len(told[c]) + 1
      BY <1>7, <2>3, <3>1, <3>2, <3>3
    <3>4. CASE i \in 1..Len(told[c])
      BY <1>7, <2>3, <3>1, <3>2, <3>4 DEF SpawnInv, ToldTruth
    <3> QED
      BY <1>7, <3>1, <3>3, <3>4
  <2> QED
    BY <2>2, <2>3
<1>11. ReportedTruth'
  BY <1>2, <1>5 DEF SpawnInv, ReportedTruth, tracker
<1>12. NothingLost'
  <2>1. SUFFICES ASSUME NEW t \in Session, pc[t] \notin Ended,
                        NEW d \in Spawn, parent[d] = t, Settled(d)
                 PROVE  told'[d] # <<>> \/ Queued(t, d) \/ d \in inbox'[t]
    BY <1>2 DEF NothingLost, Children, Settled, Queued, tracker
  <2>2. told[d] # <<>> \/ Queued(t, d) \/ d \in inbox[t]
    BY <2>1 DEF SpawnInv, NothingLost, Children
  <2> QED
    BY <1>4, <1>5, <1>7, <2>2
<1> QED
  BY <1>8, <1>9, <1>10, <1>11, <1>12 DEF SpawnInv

\* nextCompletion, when a result is in the buffer.
LEMMA TakeBufferedKeeps ==
  ASSUME SpawnInv, NEW s \in Session, TakeBuffered(s)
  PROVE  SpawnInv'
<1> DEFINE c == Head(buffer[s])[1]
           v == Head(buffer[s])[2]
<1>1. /\ told' = [told EXCEPT ![c] = Append(@, v)]
      /\ buffer' = [buffer EXCEPT ![s] = Tail(@)]
      /\ pc[s] = "turn" /\ buffer[s] # <<>>
      /\ UNCHANGED <<tracker, waiters, inbox, pc>>
  BY DEF TakeBuffered, AtLoopHead
<1>2. buffer[s] \in Seq(Report)
  BY DEF SpawnInv, TypeOK
<1>3. /\ Len(buffer[s]) \in Nat \ {0} /\ DOMAIN buffer[s] = 1..Len(buffer[s])
      /\ 1 \in DOMAIN buffer[s] /\ Head(buffer[s]) = buffer[s][1]
  BY <1>1, <1>2, LenProperties, EmptySeq
<1>4. /\ Tail(buffer[s]) \in Seq(Report)
      /\ DOMAIN Tail(buffer[s]) = 1..(Len(buffer[s]) - 1)
      /\ \A i \in 1..(Len(buffer[s]) - 1) : Tail(buffer[s])[i] = buffer[s][i + 1]
  BY <1>1, <1>2, HeadTailProperties, LenProperties
<1>5. c \in Spawn /\ v \in Verdict /\ Settled(c) /\ v = VerdictOn(c)
  BY <1>3, ReportsAreOfChildren DEF SpawnInv, QueuedTruth
<1> HIDE DEF c, v
<1>6. \A d \in Spawn : told'[d] = IF d = c THEN Append(told[c], v) ELSE told[d]
  BY <1>1, <1>5 DEF SpawnInv, TypeOK
<1>7. \A t \in Session : buffer'[t] = IF t = s THEN Tail(buffer[s]) ELSE buffer[t]
  BY <1>1 DEF SpawnInv, TypeOK
<1>8. told[c] \in Seq(Verdict)
  BY <1>5 DEF SpawnInv, TypeOK
<1>9. /\ Append(told[c], v) \in Seq(Verdict) /\ Append(told[c], v) # <<>>
      /\ DOMAIN Append(told[c], v) = 1..(Len(told[c]) + 1)
      /\ DOMAIN told[c] = 1..Len(told[c]) /\ Len(told[c]) \in Nat
      /\ \A i \in 1..Len(told[c]) : Append(told[c], v)[i] = told[c][i]
      /\ Append(told[c], v)[Len(told[c]) + 1] = v
  BY <1>5, <1>8, AppendProperties, LenProperties
<1>10. TypeOK'
  BY <1>1, <1>4, <1>5, <1>9 DEF SpawnInv, TypeOK, tracker
<1>11. SlotsConserved' /\ NoDanglingWaiter' /\ OneRecordEach' /\ ReportedTruth'
  BY <1>1 DEF SpawnInv, SlotsConserved, Running, Children, NoDanglingWaiter,
     OneRecordEach, ReportedTruth, tracker
<1>12. WaitsForSomeone'
  BY <1>1, <1>7 DEF SpawnInv, WaitsForSomeone, tracker
<1>13. \A d \in Spawn : Settled(d)' = Settled(d) /\ VerdictOn(d)' = VerdictOn(d)
  BY <1>1 DEF Settled, VerdictOn, tracker
<1>14. ToldTruth'
  <2>1. SUFFICES ASSUME NEW d \in Spawn, NEW i \in DOMAIN told'[d]
                 PROVE  Settled(d) /\ told'[d][i] = VerdictOn(d)
    BY <1>13 DEF ToldTruth
  <2>2. CASE d # c
    BY <1>6, <2>1, <2>2 DEF SpawnInv, ToldTruth
  <2>3. CASE d = c
    <3>1. i \in 1..(Len(told[c]) + 1) /\ told'[d] = Append(told[c], v)
      BY <1>6, <1>9, <2>1, <2>3
    <3>2. CASE i = Len(told[c]) + 1
      BY <1>5, <1>9, <2>3, <3>1, <3>2
    <3>3. CASE i \in 1..Len(told[c])
      BY <1>5, <1>9, <2>3, <3>1, <3>3 DEF SpawnInv, ToldTruth
    <3> QED
      BY <1>9, <3>1, <3>2, <3>3
  <2> QED
    BY <2>2, <2>3
<1>15. QueuedTruth'
  <2>1. SUFFICES ASSUME NEW t \in Session, NEW i \in DOMAIN buffer'[t]
                 PROVE  (Settled(buffer[t][i][1]) /\ buffer[t][i][2] = VerdictOn(buffer[t][i][1]))'
    BY DEF QueuedTruth
  <2>2. PICK j \in DOMAIN buffer[t] : buffer'[t][i] = buffer[t][j]
    <3>1. CASE t # s
      BY <1>7, <2>1, <3>1
    <3>2. CASE t = s
      <4>1. i \in 1..(Len(buffer[s]) - 1) /\ buffer'[t] = Tail(buffer[s])
        BY <1>4, <1>7, <2>1, <3>2
      <4>2. i + 1 \in DOMAIN buffer[s]
        BY <1>3, <4>1
      <4> QED
        BY <1>4, <3>2, <4>1, <4>2
    <3> QED
      BY <3>1, <3>2
  <2>3. buffer[t][j][1] \in Spawn
    BY ReportsAreOfChildren
  <2> QED
    BY <1>13, <2>2, <2>3 DEF SpawnInv, QueuedTruth
<1>16. NothingLost'
  <2>1. SUFFICES ASSUME NEW t \in Session, pc[t] \notin Ended,
                        NEW d \in Spawn, parent[d] = t, Settled(d)
                 PROVE  told'[d] # <<>> \/ Queued(t, d)' \/ d \in inbox[t]
    BY <1>1, <1>13 DEF NothingLost, Children, tracker
  <2>2. told[d] # <<>> \/ Queued(t, d) \/ d \in inbox[t]
    BY <2>1 DEF SpawnInv, NothingLost, Children
  <2>3. CASE d = c
    BY <1>6, <1>9, <2>3
  <2>4. CASE d # c /\ Queued(t, d)
    <3>1. PICK i \in DOMAIN buffer[t] : buffer[t][i][1] = d
      BY <2>4 DEF Queued
    <3>2. CASE t # s
      BY <1>7, <3>1, <3>2 DEF Queued
    <3>3. CASE t = s
      <4>1. i # 1
        BY <1>3, <2>4, <3>1, <3>3 DEF c
      <4>2. i - 1 \in 1..(Len(buffer[s]) - 1) /\ (i - 1) + 1 = i
        BY <1>3, <3>1, <3>3, <4>1
      <4>3. i - 1 \in DOMAIN buffer'[t] /\ buffer'[t][i - 1] = buffer[t][i]
        BY <1>4, <1>7, <3>3, <4>2
      <4> QED
        BY <3>1, <4>3 DEF Queued
    <3> QED
      BY <3>2, <3>3
  <2>5. CASE d # c /\ ~Queued(t, d)
    BY <1>6, <2>2, <2>5
  <2> QED
    BY <2>3, <2>4, <2>5
<1> QED
  BY <1>10, <1>11, <1>12, <1>14, <1>15, <1>16 DEF SpawnInv

\* nextCompletion, when the buffer is empty.
LEMMA WaitKeeps ==
  ASSUME SpawnInv, NEW s \in Session, Wait(s)
  PROVE  SpawnInv'
<1>1. /\ pc[s] = "turn" /\ inbox[s] = {} /\ active[s] > 0 /\ buffer[s] = <<>>
      /\ waiters' = [waiters EXCEPT ![s] = @ + 1]
      /\ pc' = [pc EXCEPT ![s] = "waiting"]
      /\ UNCHANGED <<tracker, buffer, inbox, told>>
  BY DEF Wait, AtLoopHead
<1>2. waiters[s] = 0
  BY <1>1 DEF SpawnInv, NoDanglingWaiter
<1>3. \A t \in Session : /\ pc'[t] = IF t = s THEN "waiting" ELSE pc[t]
                         /\ waiters'[t] = IF t = s THEN 1 ELSE waiters[t]
  BY <1>1, <1>2 DEF SpawnInv, TypeOK
<1>4. TypeOK'
  BY <1>1, <1>2 DEF SpawnInv, TypeOK, tracker
<1>5. SlotsConserved' /\ ToldTruth' /\ QueuedTruth' /\ ReportedTruth'
  BY <1>1 DEF SpawnInv, SlotsConserved, Running, Children, ToldTruth, QueuedTruth,
              ReportedTruth, Settled, VerdictOn, tracker
<1>6. NoDanglingWaiter' /\ WaitsForSomeone'
  BY <1>1, <1>3 DEF SpawnInv, NoDanglingWaiter, WaitsForSomeone, tracker
<1>7. OneRecordEach'
  BY <1>1, <1>3 DEF SpawnInv, OneRecordEach, Session, tracker
<1>8. NothingLost'
  BY <1>1, <1>3 DEF SpawnInv, NothingLost, Children, Settled, Queued, Ended, tracker
<1> QED
  BY <1>4, <1>5, <1>6, <1>7, <1>8 DEF SpawnInv

\* The timer of the loop fires: every running child is given up, and each
\* of them will be reported.
LEMMA TimeoutKeeps ==
  ASSUME SpawnInv, NEW s \in Session, Timeout(s)
  PROVE  SpawnInv'
<1> DEFINE late == Running(s)
           first == First(late)
<1>1. /\ pc[s] = "waiting"
      /\ status' = [c \in Spawn |-> IF c \in late THEN "failed" ELSE status[c]]
      /\ active' = [active EXCEPT ![s] = @ - Cardinality(late)]
      /\ free' = [free EXCEPT ![s] = @ + Cardinality(late)]
      /\ buffer' = [buffer EXCEPT ![s] = @ \o Tail(Failures(late))]
      /\ told' = [told EXCEPT ![first] = Append(@, "failed")]
      /\ inbox' = [inbox EXCEPT ![s] = late \ {first}]
      /\ waiters' = [waiters EXCEPT ![s] = @ - 1]
      /\ pc' = [pc EXCEPT ![s] = "turn"]
      /\ parent' = parent
  BY DEF Timeout
<1>2. /\ late \in SUBSET Spawn /\ late # {} /\ Cardinality(late) = active[s]
      /\ active[s] \in 1..MaxConcurrent /\ free[s] = MaxConcurrent - active[s]
      /\ buffer[s] = <<>> /\ waiters[s] = 1
  BY <1>1, RunningCounts DEF SpawnInv, WaitsForSomeone, NoDanglingWaiter
<1>3. first \in late
  BY <1>2, FirstIsMember
<1>4. \A c \in late : parent[c] = s /\ status[c] = "running"
  BY DEF Running, Children
<1>5. \A c \in Spawn \ late : status'[c] = status[c] /\ (parent[c] = s => status[c] # "running")
  BY <1>1 DEF Running, Children
<1>6. \A c \in late : status'[c] = "failed"
  BY <1>1, <1>2
<1>7. Running(s)' = {}
  BY <1>1, <1>5, <1>6 DEF Running, Children
<1>8. \A t \in Session : t # s => Running(t)' = Running(t)
  BY <1>1, <1>2, <1>4 DEF Running, Children
<1> DEFINE rest == Tail(Failures(late))
<1>9. /\ rest \in Seq(late \X {"failed"}) /\ rest \in Seq(Report)
      /\ \A i \in DOMAIN rest : rest[i] \in late \X {"failed"}
  <2>1. Failures(late) \in Seq(late \X {"failed"}) /\ Len(Failures(late)) # 0
    BY <1>2, FailuresAreOf
  <2>2. rest \in Seq(late \X {"failed"})
    BY <2>1, HeadTailProperties, EmptySeq
  <2>3. late \X {"failed"} \subseteq Report
    BY <1>2 DEF Report, Verdict
  <2> HIDE DEF late, rest
  <2>4. rest \in Seq(Report)
    BY <2>2, <2>3, SeqMonotonic
  <2>5. \A i \in DOMAIN rest : rest[i] \in late \X {"failed"}
    BY <2>2, LenProperties, ElementOfSeq
  <2> QED
    BY <2>2, <2>4, <2>5
<1> HIDE DEF late, first, rest
<1>10. \A t \in Session :
         /\ pc'[t] = IF t = s THEN "turn" ELSE pc[t]
         /\ waiters'[t] = IF t = s THEN 0 ELSE waiters[t]
         /\ inbox'[t] = IF t = s THEN late \ {first} ELSE inbox[t]
         /\ buffer'[t] = IF t = s THEN rest ELSE buffer[t]
  <2>1. buffer[s] \o rest = rest
    BY <1>2, <1>9, ConcatEmptySeq
  <2>2. buffer' = [buffer EXCEPT ![s] = buffer[s] \o rest]
    BY <1>1 DEF rest
  <2>3. \A t \in Session : buffer'[t] = IF t = s THEN rest ELSE buffer[t]
    BY <2>1, <2>2 DEF SpawnInv, TypeOK
  <2>4. \A t \in Session : waiters'[t] = IF t = s THEN 0 ELSE waiters[t]
    BY <1>1, <1>2 DEF SpawnInv, TypeOK
  <2>5. \A t \in Session : /\ pc'[t] = IF t = s THEN "turn" ELSE pc[t]
                           /\ inbox'[t] = IF t = s THEN late \ {first} ELSE inbox[t]
    BY <1>1 DEF SpawnInv, TypeOK
  <2> QED
    BY <2>3, <2>4, <2>5
<1>11. \A t \in Session :
         /\ active'[t] = IF t = s THEN 0 ELSE active[t]
         /\ free'[t] = IF t = s THEN MaxConcurrent ELSE free[t]
  <2>1. active[s] - active[s] = 0 /\ free[s] + active[s] = MaxConcurrent
    BY <1>2, SpawnAssumption
  <2> QED
    BY <1>1, <1>2, <2>1 DEF SpawnInv, TypeOK
<1>12. first \in Spawn /\ told[first] = <<>>
  <2>1. first \in Spawn /\ ~Settled(first)
    BY <1>2, <1>3, <1>4 DEF Settled
  <2>2. told[first] \in Seq(Verdict) /\ DOMAIN told[first] = {}
    BY <2>1 DEF SpawnInv, TypeOK, ToldTruth
  <2>3. DOMAIN told[first] = 1..Len(told[first]) /\ Len(told[first]) \in Nat
    BY <2>2, LenProperties
  <2>4. Len(told[first]) = 0
    <3>1. Len(told[first]) # 0 => 1 \in 1..Len(told[first])
      BY <2>3
    <3> QED
      BY <2>2, <2>3, <3>1
  <2> QED
    BY <2>1, <2>2, <2>4, EmptySeq
<1>13. \A c \in Spawn : told'[c] = IF c = first THEN <<"failed">> ELSE told[c]
  BY <1>1, <1>12 DEF SpawnInv, TypeOK
<1>14. \A c \in Spawn : /\ Settled(c) => c \notin late /\ Settled(c)' /\ VerdictOn(c)' = VerdictOn(c)
                        /\ c \in late => Settled(c)' /\ VerdictOn(c)' = "failed"
                        /\ Settled(c)' => Settled(c) \/ c \in late
  BY <1>4, <1>5, <1>6 DEF Settled, VerdictOn
<1>15. TypeOK'
  <2>1. buffer' \in [Session -> Seq(Report)]
    BY <1>1, <1>9, <1>10 DEF SpawnInv, TypeOK
  <2>2. told' \in [Spawn -> Seq(Verdict)]
    <3>1. <<"failed">> \in Seq(Verdict)
      BY DEF Verdict
    <3> QED
      BY <1>1, <1>13, <3>1 DEF SpawnInv, TypeOK
  <2>3. free' \in [Session -> 0..MaxConcurrent] /\ active' \in [Session -> 0..MaxConcurrent]
    BY <1>1, <1>11, SpawnAssumption DEF SpawnInv, TypeOK
  <2>4. status' \in [Spawn -> {"none", "running", "completed", "failed"}]
    BY <1>1, <1>5, <1>6 DEF SpawnInv, TypeOK
  <2>5. inbox' \in [Session -> SUBSET Spawn]
    BY <1>1, <1>2, <1>10 DEF SpawnInv, TypeOK
  <2> QED
    BY <1>1, <1>2, <2>1, <2>2, <2>3, <2>4, <2>5 DEF SpawnInv, TypeOK
<1>16. SlotsConserved'
  <2>1. ASSUME NEW t \in Session
        PROVE  active'[t] = Cardinality(Running(t)') /\ free'[t] = MaxConcurrent - active'[t]
    <3>1. CASE t = s
      <4>1. Cardinality(Running(t)') = 0 /\ MaxConcurrent - 0 = MaxConcurrent
        BY <1>7, <3>1, FS_EmptySet, SpawnAssumption
      <4> QED
        BY <1>11, <3>1, <4>1
    <3>2. CASE t # s
      BY <1>8, <1>11, <3>2 DEF SpawnInv, SlotsConserved
    <3> QED
      BY <3>1, <3>2
  <2> QED
    BY <2>1 DEF SlotsConserved
<1>17. NoDanglingWaiter'
  BY <1>10 DEF SpawnInv, NoDanglingWaiter
<1>18. WaitsForSomeone'
  BY <1>10, <1>11 DEF SpawnInv, WaitsForSomeone
<1>19. OneRecordEach'
  <2>1. \A c \in Spawn : status'[c] = "none" <=> status[c] = "none"
    BY <1>4, <1>5, <1>6
  <2> QED
    BY <1>1, <1>10, <2>1 DEF SpawnInv, OneRecordEach, Session
<1>20. ToldTruth'
  <2>1. SUFFICES ASSUME NEW c \in Spawn, NEW i \in DOMAIN told'[c]
                 PROVE  Settled(c)' /\ told'[c][i] = VerdictOn(c)'
    BY DEF ToldTruth
  <2>2. CASE c = first
    BY <1>3, <1>13, <1>14, <2>1, <2>2
  <2>3. CASE c # first
    BY <1>13, <1>14, <2>1, <2>3 DEF SpawnInv, ToldTruth
  <2> QED
    BY <2>2, <2>3
<1>21. QueuedTruth'
  <2>1. SUFFICES ASSUME NEW t \in Session, NEW i \in DOMAIN buffer'[t]
                 PROVE  (Settled(buffer[t][i][1]) /\ buffer[t][i][2] = VerdictOn(buffer[t][i][1]))'
    BY DEF QueuedTruth
  <2>2. CASE t = s
    <3>1. buffer'[t][i] \in late \X {"failed"}
      BY <1>9, <1>10, <2>1, <2>2
    <3> QED
      BY <1>2, <1>14, <3>1
  <2>3. CASE t # s
    <3>1. buffer'[t] = buffer[t] /\ i \in DOMAIN buffer[t]
      BY <1>10, <2>1, <2>3
    <3>2. buffer[t][i][1] \in Spawn
      BY <3>1, ReportsAreOfChildren
    <3> QED
      BY <1>14, <3>1, <3>2 DEF SpawnInv, QueuedTruth
  <2> QED
    BY <2>2, <2>3
<1>22. ReportedTruth'
  <2>1. \A c \in Spawn : status[c] = "failed" => status'[c] = "failed"
    BY <1>5, <1>6
  <2>2. \A t \in Session : inbox[t] \subseteq Spawn
    BY DEF SpawnInv, TypeOK
  <2> QED
    BY <1>6, <1>10, <2>1, <2>2 DEF SpawnInv, ReportedTruth
<1>23. NothingLost'
  <2>1. SUFFICES ASSUME NEW t \in Session, pc'[t] \notin Ended,
                        NEW c \in Spawn, parent[c] = t, Settled(c)'
                 PROVE  told'[c] # <<>> \/ Queued(t, c)' \/ c \in inbox'[t]
    BY <1>1 DEF NothingLost, Children
  <2>2. CASE c \in late
    BY <1>4, <1>10, <1>13, <2>1, <2>2
  <2>3. CASE c \notin late
    <3>1. pc[t] \notin Ended
      BY <1>1, <1>10, <2>1 DEF Ended
    <3>2. told[c] # <<>> \/ Queued(t, c) \/ c \in inbox[t]
      BY <1>14, <2>1, <2>3, <3>1 DEF SpawnInv, NothingLost, Children
    <3>3. told[c] # <<>> => told'[c] # <<>>
      BY <1>13
    <3>4. CASE t # s
      BY <1>10, <3>2, <3>3, <3>4 DEF Queued
    <3>5. CASE t = s
      BY <1>1, <1>2, <3>2, <3>3, <3>5 DEF SpawnInv, WaitsForSomeone, Queued
    <3> QED
      BY <3>4, <3>5
  <2> QED
    BY <2>2, <2>3
<1> QED
  BY <1>15, <1>16, <1>17, <1>18, <1>19, <1>20, <1>21, <1>22, <1>23 DEF SpawnInv

\* Every step keeps the invariant.
LEMMA SpawnStays == SpawnInv /\ [Next]_vars => SpawnInv'
<1> SUFFICES ASSUME SpawnInv, [Next]_vars PROVE SpawnInv'
  OBVIOUS
<1>1. CASE UNCHANGED vars
  <2>1. TypeOK' /\ OneRecordEach' /\ WaitsForSomeone' /\ NoDanglingWaiter'
    BY <1>1 DEF vars, tracker, SpawnInv, TypeOK, OneRecordEach, WaitsForSomeone, NoDanglingWaiter
  <2>4. SlotsConserved'
    BY <1>1 DEF vars, tracker, SpawnInv, SlotsConserved, Running, Children
  <2>2. ToldTruth' /\ QueuedTruth' /\ ReportedTruth'
    BY <1>1 DEF vars, tracker, SpawnInv, ToldTruth, QueuedTruth, ReportedTruth, Settled, VerdictOn
  <2>3. NothingLost'
    BY <1>1 DEF vars, tracker, SpawnInv, NothingLost, Children, Settled, Queued
  <2> QED
    BY <2>1, <2>2, <2>3, <2>4 DEF SpawnInv
<1>2. ASSUME NEW s \in Session, SpawnChild(s) PROVE SpawnInv'
  BY <1>2, SpawnChildKeeps
<1>3. ASSUME NEW s \in Session, NextMessage(s) PROVE SpawnInv'
  BY <1>3, NextMessageKeeps
<1>4. ASSUME NEW s \in Session, TakeBuffered(s) PROVE SpawnInv'
  BY <1>4, TakeBufferedKeeps
<1>5. ASSUME NEW s \in Session, Wait(s) PROVE SpawnInv'
  BY <1>5, WaitKeeps
<1>6. ASSUME NEW s \in Session, Finish(s) PROVE SpawnInv'
  <2>1. CASE s \in Root
    BY <1>6, <2>1, MovingOnKeeps DEF Finish, AtLoopHead, Ended
  <2>2. CASE s \notin Root
    BY <1>6, <2>2, SettleKeeps DEF Finish, AtLoopHead, Session, Verdict
  <2> QED
    BY <2>1, <2>2
<1>7. ASSUME NEW s \in Session, Timeout(s) PROVE SpawnInv'
  BY <1>7, TimeoutKeeps
<1>8. ASSUME NEW s \in Session, PromptFails(s) PROVE SpawnInv'
  <2>1. CASE s \in Root
    BY <1>8, <2>1, MovingOnKeeps DEF PromptFails, Ended
  <2>2. CASE s \notin Root
    BY <1>8, <2>2, SettleKeeps DEF PromptFails, Session, Verdict
  <2> QED
    BY <2>1, <2>2
<1>9. ASSUME NEW c \in Spawn, Created(c) PROVE SpawnInv'
  BY <1>9, MovingOnKeeps DEF Created, Session
<1>10. ASSUME NEW c \in Spawn, CreationFails(c) PROVE SpawnInv'
  BY <1>10, SettleKeeps DEF CreationFails, Verdict
<1> QED
  BY <1>1, <1>2, <1>3, <1>4, <1>5, <1>6, <1>7, <1>8, <1>9, <1>10 DEF Next, Loop, Looping

\* The invariant holds of every behaviour.
LEMMA SpawnInvariant == Spec => []SpawnInv
BY SpawnInitially, SpawnStays, PTL DEF Spec

------------------------------------------------------------------------------
(* Results.                                                                *)

\* The records of the tracker and of the loop stay in their types
\* (spawn-tracker.ts, spawn-completion-loop.ts).
THEOREM SpawnTypeCorrect == Spec => []TypeOK
<1>1. SpawnInv => TypeOK
  BY DEF SpawnInv
<1> QED
  BY SpawnInvariant, <1>1, PTL

\* Whatever times out, settles late or fails to start, a tracker counts a
\* child active and holds its slot exactly as long as the child runs
\* (complete, fail, the semaphore).
THEOREM SlotsAreConserved == Spec => []SlotsConserved
<1>1. SpawnInv => SlotsConserved
  BY DEF SpawnInv
<1> QED
  BY SpawnInvariant, <1>1, PTL

\* A parent never hears two verdicts on one child, however a timeout and a
\* late result race.
THEOREM VerdictsAgree == Spec => []OneVerdict
<1>1. SpawnInv => OneVerdict
  BY DEF SpawnInv, ToldTruth, OneVerdict
<1> QED
  BY SpawnInvariant, <1>1, PTL

\* A session that waits was told of every child that has settled.
THEOREM WaitingMissesNothing == Spec => []NothingMissedWhileWaiting
<1>1. SpawnInv => NothingMissedWhileWaiting
  <2> SUFFICES ASSUME SpawnInv, NEW s \in Session, pc[s] = "waiting",
                      NEW c \in Children(s), status[c] # "running"
               PROVE  told[c] # <<>>
    BY DEF NothingMissedWhileWaiting
  <2>1. Settled(c)
    BY SpawnAssumption DEF SpawnInv, TypeOK, OneRecordEach, Children, Settled, Session
  <2>2. ~Queued(s, c) /\ inbox[s] = {} /\ pc[s] \notin Ended
    BY DEF SpawnInv, WaitsForSomeone, Queued, Ended
  <2> QED
    BY <2>1, <2>2 DEF SpawnInv, NothingLost
<1> QED
  BY SpawnInvariant, <1>1, PTL

\* A wait that is over leaves no resolver behind, and one that lasts has
\* exactly one (nextCompletion, awaitNextCompletionMessages).
THEOREM NoWaiterDangles == Spec => []NoDanglingWaiter
<1>1. SpawnInv => NoDanglingWaiter
  BY DEF SpawnInv
<1> QED
  BY SpawnInvariant, <1>1, PTL

=============================================================================
