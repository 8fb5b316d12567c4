----------------------- MODULE DurableSchedulerProofs -----------------------
(* Theorems about the durable scheduler, for every graph, every policy and *)
(* every number of processes, whether or not a lock keeps them apart.      *)
EXTENDS DurableScheduler, FiniteSetTheorems, SequenceTheorems, TLAPS

------------------------------------------------------------------------------
(* The helpers that choose a step or an attempt choose one that is there.  *)

\* Every non-empty set of positions has a least one.
LEMMA LeastExists ==
  ASSUME NEW k \in Nat, NEW S \in SUBSET (1..k), S # {}
  PROVE  \E m \in S : \A t \in S : m <= t
<1> DEFINE D == {1..s : s \in S}
<1>1. D \subseteq FiniteSubsetsOf(1..k)
  <2> SUFFICES ASSUME NEW s \in S PROVE 1..s \in FiniteSubsetsOf(1..k)
    OBVIOUS
  <2>1. s \in Nat /\ s <= k
    OBVIOUS
  <2>2. 1..s \in SUBSET (1..k)
    BY <2>1
  <2>3. IsFiniteSet(1..s)
    BY <2>1, FS_Interval
  <2> QED
    BY <2>2, <2>3 DEF FiniteSubsetsOf
<1>2. D # {}
  OBVIOUS
<1>3. PICK x \in D : \A y \in D : <<y, x>> \notin StrictSubsetOrdering(1..k)
  <2> HIDE DEF D
  <2>1. IsWellFoundedOn(StrictSubsetOrdering(1..k), FiniteSubsetsOf(1..k))
    BY FS_StrictSubsetOrderingWellFounded
  <2> QED
    BY <1>1, <1>2, <2>1, WFMin
<1>4. PICK m \in S : x = 1..m
  OBVIOUS
<1>5. ASSUME NEW t \in S PROVE m <= t
  <2>1. m \in 1..k /\ t \in 1..k
    OBVIOUS
  <2>2. SUFFICES ASSUME t < m PROVE FALSE
    BY <2>1
  <2>3. 1..t \in SUBSET (1..m) /\ m \in 1..m /\ m \notin 1..t
    BY <2>1, <2>2
  <2>4. 1..t # 1..m
    BY <2>3
  <2>5. 1..t \in SUBSET (1..k) /\ 1..m \in SUBSET (1..k)
    BY <2>1
  <2>6. <<1..t, 1..m>> \in StrictSubsetOrdering(1..k)
    BY <2>3, <2>4, <2>5 DEF StrictSubsetOrdering
  <2> QED
    BY <1>3, <1>4, <2>6
<1> QED
  BY <1>4, <1>5

\* And a greatest one.
LEMMA GreatestExists ==
  ASSUME NEW k \in Nat, NEW S \in SUBSET (1..k), S # {}
  PROVE  \E m \in S : \A t \in S : t <= m
<1> DEFINE R == {k + 1 - s : s \in S}
<1>1. R \in SUBSET (1..k) /\ R # {}
  <2>1. ASSUME NEW s \in S PROVE k + 1 - s \in 1..k
    <3>1. s \in 1..k
      OBVIOUS
    <3> QED
      BY <3>1
  <2>2. R # {}
    OBVIOUS
  <2> QED
    BY <2>1, <2>2
<1>2. PICK r \in R : \A t \in R : r <= t
  <2> HIDE DEF R
  <2> QED
    BY <1>1, LeastExists
<1>3. PICK m \in S : r = k + 1 - m
  OBVIOUS
<1>4. ASSUME NEW t \in S PROVE t <= m
  <2>1. t \in 1..k /\ m \in 1..k
    OBVIOUS
  <2>2. k + 1 - m <= k + 1 - t
    BY <1>2, <1>3
  <2> QED
    BY <2>1, <2>2
<1> QED
  BY <1>3, <1>4

\* First(S) is a step of S.
LEMMA FirstIn ==
  ASSUME NEW S \in SUBSET Step, S # {}
  PROVE  First(S) \in S
<1>1. PICK s \in S : \A t \in S : s <= t
  BY LeastExists, SchedulerAssumption DEF Step
<1> QED
  BY <1>1 DEF First

\* TerminalAttempt(s, n) is 0 or an attempt of s that has a result.
LEMMA TerminalAttemptIn ==
  ASSUME attempt \in [Step -> Seq(AttemptState)],
         NEW s \in Step, NEW latest \in Nat, TerminalAttempt(s, latest) # 0
  PROVE  /\ TerminalAttempt(s, latest) \in DOMAIN attempt[s]
         /\ attempt[s][TerminalAttempt(s, latest)] \in Result
<1> DEFINE terminal == {n \in DOMAIN attempt[s] : attempt[s][n] \in Result}
<1>1. attempt[s] \in Seq(AttemptState)
  OBVIOUS
<1>2. Len(attempt[s]) \in Nat /\ terminal \in SUBSET (1..Len(attempt[s]))
  BY <1>1, LenProperties
<1>3. TerminalAttempt(s, latest) \in terminal
  <2>1. CASE latest # 0
    BY <2>1 DEF TerminalAttempt
  <2>2. CASE latest = 0
    <3>1. terminal # {}
      BY <2>2 DEF TerminalAttempt
    <3>2. PICK m \in terminal : \A t \in terminal : t <= m
      <4> HIDE DEF terminal
      <4> QED
        BY <1>2, <3>1, GreatestExists
    <3> QED
      BY <2>2, <3>1, <3>2 DEF TerminalAttempt
  <2> QED
    BY <2>1, <2>2
<1> QED
  BY <1>3

\* An attempt list stays one when an attempt is opened or its result written.
LEMMA AttemptsStayTyped ==
  ASSUME attempt \in [Step -> Seq(AttemptState)], NEW s \in Step,
         NEW n \in Nat, NEW r \in AttemptState
  PROVE  /\ [attempt[s] EXCEPT ![n] = r] \in Seq(AttemptState)
         /\ Append(attempt[s], r) \in Seq(AttemptState)
<1>1. attempt[s] \in Seq(AttemptState)
  OBVIOUS
<1>2. CASE n \in DOMAIN attempt[s]
  BY <1>1, <1>2, ExceptSeq, AppendProperties, LenProperties
<1>3. CASE n \notin DOMAIN attempt[s]
  <2>1. [attempt[s] EXCEPT ![n] = r] = attempt[s]
    BY <1>1, <1>3, LenProperties
  <2> QED
    BY <1>1, <2>1, AppendProperties
<1> QED
  BY <1>2, <1>3

\* A result gives the step a status a step may have.
LEMMA TransitionTyped ==
  ASSUME NEW s \in Step, NEW n \in Nat, NEW r \in Result
  PROVE  /\ Transition(s, n, r) \in {"ready"} \cup EndStatus
         /\ Transition(s, n, r) = "completed" <=> r = "success"
BY SchedulerAssumption DEF Transition, Result, EndStatus

------------------------------------------------------------------------------
(* Typing.  One lemma per group of actions; a process that is not the one   *)
(* that moves keeps its memory, so only the mover is looked at.             *)

Typed == TypeOK /\ InHand

\* Where a pass has a step in hand, and where it has an execution.
StartingAt == {"open", "lease", "launch"}
FinishingAt == {"wait", "cancel", "preserve", "record", "settle"}

\* The step a pass starts, or whose execution it finishes, is a step.
LEMMA StepInHand ==
  ASSUME Typed, NEW h \in Holder
  PROVE  /\ queue[h] # {} => First(queue[h]) \in queue[h] /\ First(queue[h]) \in Step
         /\ execs[h] # {} => First(execs[h]) \in execs[h] /\ First(execs[h]) \in Step
         /\ pc[h] \in StartingAt => queue[h] # {}
         /\ pc[h] \in FinishingAt => execs[h] # {}
<1>1. queue[h] \in SUBSET Step /\ execs[h] \in SUBSET Step
  BY DEF Typed, TypeOK, LocalTypeOK
<1>2. InHand
  BY DEF Typed
<1> QED
  BY <1>1, <1>2, FirstIn DEF InHand, StartingAt, FinishingAt

\* A process that moves to a place where it has nothing in hand, and keeps its
\* queue and its executions, keeps the invariant.
LEMMA MoveKeepsHand ==
  ASSUME Typed, NEW h \in Holder, NEW p \in Place \ (StartingAt \cup FinishingAt),
         Goto(h, p), UNCHANGED <<queue, execs, live>>
  PROVE  InHand'
<1>1. InHand /\ pc \in [Holder -> Place]
  BY DEF Typed, TypeOK, LocalTypeOK
<1> QED
  BY <1>1 DEF InHand, Goto, StartingAt, FinishingAt

\* So does one that does not move.
LEMMA StayKeepsHand ==
  ASSUME Typed, UNCHANGED <<pc, queue, execs, live>>
  PROVE  InHand'
BY DEF Typed, InHand

\* A process that moves on stays at a place of its program.
LEMMA GotoTyped ==
  ASSUME TypeOK, NEW h \in Holder, NEW p \in Place, Goto(h, p)
  PROVE  pc' \in [Holder -> Place]
BY DEF TypeOK, LocalTypeOK, Goto

\* A step record with another status, with or without its lease, is a step record.
LEMMA RecordWith ==
  ASSUME NEW r \in StepRecord, NEW status \in StepStatus
  PROVE  /\ [r EXCEPT !.status = status] \in StepRecord
         /\ [r EXCEPT !.status = status, !.lease = NoHolder] \in StepRecord
         /\ [r EXCEPT !.status = status, !.lease = r.lease] \in StepRecord
BY DEF StepRecord

\* So is one that nobody leases.
LEMMA ReleasedRecord ==
  ASSUME NEW status \in StepStatus, NEW n \in Nat
  PROVE  [status |-> status, lease |-> NoHolder, latest |-> n] \in StepRecord
BY DEF StepRecord

\* What Write leaves on disk and in the process is of its type.
LEMMA WriteTyped ==
  ASSUME TypeOK, NEW h \in Holder, NEW s \in Step, NEW r \in StepRecord,
         NEW e \in {"step_ready", "step_end"}, Write(h, s, r, e)
  PROVE  /\ step' \in [Step -> StepRecord]
         /\ emit' \in [Holder -> SUBSET Event]
         /\ owed' \in [Step -> Int]
<1>1. step \in [Step -> StepRecord] /\ owed \in [Step -> Int]
  BY DEF TypeOK, StoreTypeOK
<1>2. emit \in [Holder -> SUBSET Event]
  BY DEF TypeOK, LocalTypeOK
<1>3. {<<e, s>>} \in SUBSET Event
  BY DEF Event
<1>4. step' \in [Step -> StepRecord]
  BY <1>1 DEF Write
<1>5. emit' \in [Holder -> SUBSET Event]
  BY <1>2, <1>3 DEF Write
<1>6. owed' \in [Step -> Int]
  BY <1>1 DEF Write
<1> QED
  BY <1>4, <1>5, <1>6

\* The pass reads run and steps.
LEMMA LoadTyped ==
  ASSUME Typed, NEW h \in Holder, Load(h)
  PROVE  Typed'
<1>1. TypeOK
  BY DEF Typed
<1>2. PICK p \in {"exit", "reconcile"} : Goto(h, p)
  BY DEF Load
<1>3. p \in Place \ (StartingAt \cup FinishingAt)
  BY DEF Place, StartingAt, FinishingAt
<1>4. StoreTypeOK'
  BY <1>1 DEF Load, TypeOK, StoreTypeOK, store, log, history
<1>5. LocalTypeOK'
  <2>1. pc' \in [Holder -> Place]
    BY <1>1, <1>2, <1>3, GotoTyped
  <2>2. view' \in [Holder -> [Step -> StepRecord]]
    <3>1. view \in [Holder -> [Step -> StepRecord]] /\ step \in [Step -> StepRecord]
      BY <1>1 DEF TypeOK, StoreTypeOK, LocalTypeOK
    <3> QED
      BY <3>1 DEF Load
  <2> QED
    BY <1>1, <2>1, <2>2 DEF Load, TypeOK, LocalTypeOK
<1>6. InHand'
  BY <1>2, <1>3, MoveKeepsHand DEF Load
<1> QED
  BY <1>4, <1>5, <1>6 DEF Typed, TypeOK

\* Reconciliation writes a pending step as ready.
LEMMA MarkReadyTyped ==
  ASSUME Typed, NEW h \in Holder, MarkReady(h)
  PROVE  Typed'
<1> DEFINE s == First(Unblocked(view[h]))
           r == [view[h][s] EXCEPT !.status = "ready"]
<1>1. TypeOK
  BY DEF Typed
<1>2. s \in Step
  <2>1. Unblocked(view[h]) \in SUBSET Step /\ Unblocked(view[h]) # {}
    BY DEF MarkReady, Unblocked, WithStatus
  <2> QED
    BY <2>1, FirstIn
<1>3. r \in StepRecord
  <2>1. view[h][s] \in StepRecord
    BY <1>1, <1>2 DEF TypeOK, LocalTypeOK
  <2> QED
    BY <2>1, RecordWith DEF StepStatus
<1>4. Write(h, s, r, "step_ready") /\ view' = [view EXCEPT ![h][s] = r]
  BY DEF MarkReady
<1> HIDE DEF s, r
<1>5. /\ step' \in [Step -> StepRecord]
      /\ emit' \in [Holder -> SUBSET Event]
      /\ owed' \in [Step -> Int]
  BY <1>1, <1>2, <1>3, <1>4, WriteTyped
<1>6. view' \in [Holder -> [Step -> StepRecord]]
  <2>1. view \in [Holder -> [Step -> StepRecord]]
    BY <1>1 DEF TypeOK, LocalTypeOK
  <2> QED
    BY <1>2, <1>3, <1>4, <2>1
<1>7. StoreTypeOK'
  BY <1>1, <1>5 DEF MarkReady, TypeOK, StoreTypeOK, history
<1>8. LocalTypeOK'
  BY <1>1, <1>5, <1>6 DEF MarkReady, TypeOK, LocalTypeOK
<1>9. InHand'
  BY StayKeepsHand DEF MarkReady
<1> QED
  BY <1>7, <1>8, <1>9 DEF Typed, TypeOK

\* Reconciliation has nothing left to write.
LEMMA ReconciledTyped ==
  ASSUME Typed, NEW h \in Holder, Reconciled(h)
  PROVE  Typed'
<1>1. TypeOK
  BY DEF Typed
<1>2. PICK p \in {"promote", "finalize"} : Goto(h, p)
  BY DEF Reconciled
<1>3. p \in Place \ (StartingAt \cup FinishingAt)
  BY DEF Place, StartingAt, FinishingAt
<1>4. StoreTypeOK'
  BY <1>1 DEF Reconciled, TypeOK, StoreTypeOK, store, log, history
<1>5. LocalTypeOK'
  BY <1>1, <1>2, <1>3, GotoTyped DEF Reconciled, TypeOK, LocalTypeOK
<1>6. InHand'
  BY <1>2, <1>3, MoveKeepsHand DEF Reconciled
<1> QED
  BY <1>4, <1>5, <1>6 DEF Typed, TypeOK

\* The event of the last write is appended.
LEMMA AppendEventTyped ==
  ASSUME Typed, NEW h \in Holder, AppendEvent(h)
  PROVE  Typed'
<1>1. TypeOK
  BY DEF Typed
<1>2. PICK e \in emit[h] : AppendEvent(h)!(e)
  BY DEF AppendEvent
<1>3. e[2] \in Step
  BY <1>1 DEF TypeOK, LocalTypeOK, Event
<1>4. owed' \in [Step -> Int] /\ ended' \in SUBSET Step
  <2>1. owed \in [Step -> Int] /\ ended \in SUBSET Step
    BY <1>1 DEF TypeOK, StoreTypeOK
  <2> QED
    BY <1>2, <1>3, <2>1
<1>5. StoreTypeOK'
  BY <1>1, <1>2, <1>4 DEF TypeOK, StoreTypeOK, store, history
<1>6. LocalTypeOK'
  BY <1>1, <1>2 DEF TypeOK, LocalTypeOK
<1>7. InHand'
  BY <1>2, StayKeepsHand
<1> QED
  BY <1>5, <1>6, <1>7 DEF Typed, TypeOK

\* Promotion writes a step from its recorded attempt.
LEMMA PromoteTyped ==
  ASSUME Typed, NEW h \in Holder, Promote(h)
  PROVE  Typed'
<1> DEFINE s == First(Promotable(h))
           n == TerminalAttempt(s, view[h][s].latest)
           status == Transition(s, n, attempt[s][n])
           r == [status |-> status, lease |-> NoHolder, latest |-> n]
<1>1. TypeOK
  BY DEF Typed
<1>2. s \in Promotable(h) /\ s \in Step
  <2>1. Promotable(h) \in SUBSET Step /\ Promotable(h) # {}
    BY <1>1 DEF Promote, Promotable, TypeOK, LocalTypeOK
  <2> QED
    BY <2>1, FirstIn
<1>3. n \in Nat /\ attempt[s][n] \in Result
  <2>1. attempt \in [Step -> Seq(AttemptState)] /\ view[h][s].latest \in Nat
    BY <1>1, <1>2 DEF TypeOK, StoreTypeOK, LocalTypeOK, StepRecord
  <2>2. n # 0
    BY <1>2 DEF Promotable
  <2>3. n \in DOMAIN attempt[s] /\ attempt[s][n] \in Result
    BY <1>2, <2>1, <2>2, TerminalAttemptIn
  <2>4. attempt[s] \in Seq(AttemptState)
    BY <1>2, <2>1
  <2> QED
    BY <2>3, <2>4, LenProperties
<1>4. status \in StepStatus
  BY <1>2, <1>3, TransitionTyped DEF StepStatus
<1>5. r \in StepRecord
  BY <1>3, <1>4, ReleasedRecord
<1>6. Write(h, s, r, Announcing(status))
  BY DEF Promote
<1>7. Announcing(status) \in {"step_ready", "step_end"}
  BY DEF Announcing
<1>8. todo' = [todo EXCEPT ![h] = After(@, s)]
  BY DEF Promote
<1> HIDE DEF s, n, status, r
<1>9. /\ step' \in [Step -> StepRecord]
      /\ emit' \in [Holder -> SUBSET Event]
      /\ owed' \in [Step -> Int]
  BY <1>1, <1>2, <1>5, <1>6, <1>7, WriteTyped
<1>10. todo' \in [Holder -> SUBSET Step]
  BY <1>1, <1>8 DEF TypeOK, LocalTypeOK, After
<1>11. StoreTypeOK'
  BY <1>1, <1>9 DEF Promote, TypeOK, StoreTypeOK, history
<1>12. LocalTypeOK'
  BY <1>1, <1>9, <1>10 DEF Promote, TypeOK, LocalTypeOK
<1>13. InHand'
  BY StayKeepsHand DEF Promote
<1> QED
  BY <1>11, <1>12, <1>13 DEF Typed, TypeOK

\* Promotion has nothing left to write.
LEMMA PromotedTyped ==
  ASSUME Typed, NEW h \in Holder, Promoted(h)
  PROVE  Typed'
<1>1. TypeOK
  BY DEF Typed
<1>2. PICK p \in {"recheck", "committed"} : Goto(h, p)
  BY DEF Promoted
<1>3. p \in Place \ (StartingAt \cup FinishingAt)
  BY DEF Place, StartingAt, FinishingAt
<1>4. StoreTypeOK'
  BY <1>1 DEF Promoted, TypeOK, StoreTypeOK, store, log, history
<1>5. LocalTypeOK'
  <2>1. pc' \in [Holder -> Place]
    BY <1>1, <1>2, <1>3, GotoTyped
  <2>2. view' \in [Holder -> [Step -> StepRecord]]
    <3>1. view \in [Holder -> [Step -> StepRecord]] /\ step \in [Step -> StepRecord]
      BY <1>1 DEF TypeOK, StoreTypeOK, LocalTypeOK
    <3> QED
      BY <3>1 DEF Promoted
  <2> QED
    BY <1>1, <2>1, <2>2 DEF Promoted, TypeOK, LocalTypeOK
<1>6. InHand'
  BY <1>2, <1>3, MoveKeepsHand DEF Promoted
<1> QED
  BY <1>4, <1>5, <1>6 DEF Typed, TypeOK

\* A guard writes one of the steps it examines.
LEMMA GuardStepTyped ==
  ASSUME Typed, NEW h \in Holder, NEW p, NEW S \in SUBSET Step,
         NEW status \in {"blocked", "stale"}, NEW release \in BOOLEAN,
         GuardStep(h, p, S, status, release)
  PROVE  Typed'
<1> DEFINE s == First(S)
           r == [view[h][s] EXCEPT !.status = status,
                                   !.lease = IF release THEN NoHolder ELSE @]
<1>1. TypeOK
  BY DEF Typed
<1>2. s \in Step
  BY FirstIn DEF GuardStep
<1>3. r \in StepRecord
  <2>1. view[h][s] \in StepRecord
    BY <1>1, <1>2 DEF TypeOK, LocalTypeOK
  <2>2. status \in StepStatus
    BY DEF StepStatus, EndStatus
  <2> QED
    BY <2>1, <2>2 DEF StepRecord
<1>4. Write(h, s, r, "step_end") /\ todo' = [todo EXCEPT ![h] = After(@, s)]
  BY DEF GuardStep
<1> HIDE DEF s, r
<1>5. /\ step' \in [Step -> StepRecord]
      /\ emit' \in [Holder -> SUBSET Event]
      /\ owed' \in [Step -> Int]
  BY <1>1, <1>2, <1>3, <1>4, WriteTyped
<1>6. todo' \in [Holder -> SUBSET Step]
  BY <1>1, <1>4 DEF TypeOK, LocalTypeOK, After
<1>7. StoreTypeOK'
  BY <1>1, <1>5 DEF GuardStep, TypeOK, StoreTypeOK, history
<1>8. LocalTypeOK'
  BY <1>1, <1>5, <1>6 DEF GuardStep, TypeOK, LocalTypeOK
<1>9. InHand'
  BY StayKeepsHand DEF GuardStep
<1> QED
  BY <1>7, <1>8, <1>9 DEF Typed, TypeOK

\* A guard is done with its steps.
LEMMA GuardDoneTyped ==
  ASSUME Typed, NEW h \in Holder, NEW p, NEW S,
         NEW nextGuard \in {"stale", "unknown", "finalize"},
         NEW afterWrite \in {"drained", "exit"},
         NEW otherwise \in {"drained", "committed", "renew", "exit"},
         GuardDone(h, p, S, nextGuard, afterWrite, otherwise)
  PROVE  Typed'
<1>1. TypeOK
  BY DEF Typed
<1>2. PICK q \in {"finalize", nextGuard} : Goto(h, q)
  BY DEF GuardDone
<1>3. q \in Place \ (StartingAt \cup FinishingAt)
  BY DEF Place, StartingAt, FinishingAt
<1>4. StoreTypeOK'
  BY <1>1 DEF GuardDone, TypeOK, StoreTypeOK, store, log, history
<1>5. LocalTypeOK'
  <2>1. pc' \in [Holder -> Place]
    BY <1>1, <1>2, <1>3, GotoTyped
  <2>2. after' \in [Holder -> {"drained", "committed", "renew", "exit"}]
    BY <1>1 DEF GuardDone, TypeOK, LocalTypeOK
  <2> QED
    BY <1>1, <2>1, <2>2 DEF GuardDone, TypeOK, LocalTypeOK
<1>6. InHand'
  BY <1>2, <1>3, MoveKeepsHand DEF GuardDone
<1> QED
  BY <1>4, <1>5, <1>6 DEF Typed, TypeOK

\* The three guards of a pass are loops of that form over steps.
LEMMA GuardsTyped ==
  ASSUME Typed, NEW h \in Holder,
         BlockCommitted(h) \/ MarkStale(h) \/ BlockUnknown(h)
  PROVE  Typed'
<1>1. todo[h] \in SUBSET Step /\ after[h] \in {"drained", "committed", "renew", "exit"}
  BY DEF Typed, TypeOK, LocalTypeOK
<1>2. /\ PotentiallyCommitted(h) \in SUBSET Step
      /\ Stale(h) \in SUBSET Step
      /\ UnknownBackend(h) \in SUBSET Step
  BY <1>1 DEF PotentiallyCommitted, Stale, UnknownBackend
<1>3. CASE BlockCommitted(h)
  BY <1>1, <1>2, <1>3, GuardStepTyped, GuardDoneTyped DEF BlockCommitted
<1>4. CASE MarkStale(h)
  BY <1>1, <1>2, <1>4, GuardStepTyped, GuardDoneTyped DEF MarkStale
<1>5. CASE BlockUnknown(h)
  BY <1>1, <1>2, <1>5, GuardStepTyped, GuardDoneTyped DEF BlockUnknown
<1> QED
  BY <1>3, <1>4, <1>5

\* finalizeRun decides, announces and saves an outcome.
LEMMA FinalizeTyped ==
  ASSUME Typed, NEW h \in Holder, Finalize(h) \/ AnnounceRun(h) \/ SaveRun(h)
  PROVE  Typed'
<1>1. TypeOK
  BY DEF Typed
<1>2. after[h] \in {"drained", "committed", "renew", "exit"} /\ decided[h] \in RunStatus
  BY <1>1 DEF TypeOK, LocalTypeOK
<1>3. PICK p \in {"exit", "announce", "idle", "committed", "renew", "save"} : Goto(h, p)
  BY <1>2 DEF Finalize, AnnounceRun, SaveRun, AfterDrain
<1>4. p \in Place \ (StartingAt \cup FinishingAt)
  BY DEF Place, StartingAt, FinishingAt
<1>5. pc' \in [Holder -> Place]
  BY <1>1, <1>3, <1>4, GotoTyped
<1>6. decided' \in [Holder -> RunStatus]
  <2>1. Outcome(step) \in RunStatus
    BY DEF Outcome, RunStatus, EndStatus
  <2> HIDE DEF Outcome
  <2> QED
    BY <1>1, <2>1 DEF Finalize, AnnounceRun, SaveRun, TypeOK, LocalTypeOK, local
<1>7. outcomes' \in SUBSET RunStatus /\ run' \in RunStatus
  BY <1>1, <1>2 DEF Finalize, AnnounceRun, SaveRun, TypeOK, StoreTypeOK, store, log
<1>8. StoreTypeOK'
  BY <1>1, <1>7 DEF Finalize, AnnounceRun, SaveRun, TypeOK, StoreTypeOK,
     store, log, history
<1>9. LocalTypeOK'
  BY <1>1, <1>5, <1>6 DEF Finalize, AnnounceRun, SaveRun, TypeOK, LocalTypeOK, local
<1>10. InHand'
  BY <1>3, <1>4, MoveKeepsHand DEF Finalize, AnnounceRun, SaveRun, local
<1> QED
  BY <1>8, <1>9, <1>10 DEF Typed, TypeOK

\* A renewal reads the record of the step it renews.
LEMMA RenewTyped ==
  ASSUME Typed, NEW h \in Holder, RenewOwned(h) \/ RenewTick(h)
  PROVE  Typed'
<1>1. TypeOK
  BY DEF Typed
<1>2. step \in [Step -> StepRecord] /\ renewal \in [Holder -> Renewal]
  BY <1>1 DEF TypeOK, StoreTypeOK, LocalTypeOK
<1>3. \A s \in Step : [step |-> s, rec |-> step[s]] \in Renewal
  BY <1>2 DEF Renewal
<1>4. renewal' \in [Holder -> Renewal]
  <2>1. CASE RenewOwned(h)
    <3>1. OwnRunning(h) \in SUBSET Step
      BY DEF OwnRunning, WithStatus
    <3> QED
      BY <1>2, <1>3, <2>1, <3>1, FirstIn DEF RenewOwned
  <2>2. CASE RenewTick(h)
    <3>1. Ticking(h) \in SUBSET Step
      BY <1>1 DEF Ticking, TypeOK, LocalTypeOK
    <3> QED
      BY <1>2, <1>3, <2>2, <3>1 DEF RenewTick
  <2> QED
    BY <2>1, <2>2
<1>5. StoreTypeOK'
  BY <1>1 DEF RenewOwned, RenewTick, TypeOK, StoreTypeOK, store, log, history
<1>6. CASE RenewOwned(h)
  <2>1. PICK p \in {"renewing", "plan"} : Goto(h, p)
    BY <1>6 DEF RenewOwned
  <2>2. p \in Place \ (StartingAt \cup FinishingAt)
    BY DEF Place, StartingAt, FinishingAt
  <2>3. pc' \in [Holder -> Place]
    BY <1>1, <2>1, <2>2, GotoTyped
  <2>4. LocalTypeOK'
    BY <1>1, <1>4, <1>6, <2>3 DEF RenewOwned, TypeOK, LocalTypeOK
  <2>5. InHand'
    BY <1>6, <2>1, <2>2, MoveKeepsHand DEF RenewOwned
  <2> QED
    BY <1>5, <2>4, <2>5 DEF Typed, TypeOK
<1>7. CASE RenewTick(h)
  <2>1. LocalTypeOK'
    BY <1>1, <1>4, <1>7 DEF RenewTick, TypeOK, LocalTypeOK
  <2>2. InHand'
    BY <1>7, StayKeepsHand DEF RenewTick
  <2> QED
    BY <1>5, <2>1, <2>2 DEF Typed, TypeOK
<1> QED
  BY <1>6, <1>7

\* A renewal writes the record it has read, with a new heartbeat.
LEMMA RenewWriteTyped ==
  ASSUME Typed, NEW h \in Holder, RenewWrite(h)
  PROVE  Typed'
<1>1. TypeOK
  BY DEF Typed
<1>2. renewal[h] \in [step: Step, rec: StepRecord]
  BY <1>1 DEF RenewWrite, TypeOK, LocalTypeOK, Renewal
<1>3. step' \in [Step -> StepRecord] /\ heartbeat' \in [Step -> {"none", "fresh", "old"}]
  BY <1>1, <1>2 DEF RenewWrite, TypeOK, StoreTypeOK
<1>4. renewal' \in [Holder -> Renewal]
  BY <1>1 DEF RenewWrite, TypeOK, LocalTypeOK, Renewal
<1>5. StoreTypeOK'
  BY <1>1, <1>3 DEF RenewWrite, TypeOK, StoreTypeOK, log, history
<1>6. pc' \in [Holder -> Place] /\ InHand'
  <2>1. CASE pc[h] = "renewing"
    <3>1. Goto(h, "exit") /\ UNCHANGED <<queue, execs, live>>
      BY <2>1 DEF RenewWrite
    <3>2. "exit" \in Place \ (StartingAt \cup FinishingAt)
      BY DEF Place, StartingAt, FinishingAt
    <3> QED
      BY <1>1, <3>1, <3>2, GotoTyped, MoveKeepsHand
  <2>2. CASE pc[h] # "renewing"
    BY <1>1, <2>2, StayKeepsHand DEF RenewWrite, TypeOK, LocalTypeOK
  <2> QED
    BY <2>1, <2>2
<1>7. LocalTypeOK'
  BY <1>1, <1>4, <1>6 DEF RenewWrite, TypeOK, LocalTypeOK
<1> QED
  BY <1>5, <1>6, <1>7 DEF Typed, TypeOK

\* The pass plans which steps it starts.
LEMMA PlanTyped ==
  ASSUME Typed, NEW h \in Holder, Plan(h)
  PROVE  Typed'
<1>1. TypeOK
  BY DEF Typed
<1>2. PICK p \in {"exit", "idle", "start"} : Goto(h, p)
  BY DEF Plan, AfterDrain
<1>3. p \in Place \ (StartingAt \cup FinishingAt)
  BY DEF Place, StartingAt, FinishingAt
<1>4. queue' \in [Holder -> SUBSET Step]
  <2>1. Planned(h) \in SUBSET Step
    BY DEF Planned, Runnable, WithStatus
  <2>2. FirstOf(Planned(h), Slots(h)) \in SUBSET Step
    BY <2>1 DEF FirstOf
  <2> QED
    BY <1>1, <2>2 DEF Plan, TypeOK, LocalTypeOK
<1>5. StoreTypeOK'
  BY <1>1 DEF Plan, TypeOK, StoreTypeOK, store, log, history
<1>6. LocalTypeOK'
  <2>1. pc' \in [Holder -> Place]
    BY <1>1, <1>2, <1>3, GotoTyped
  <2> QED
    BY <1>1, <1>4, <2>1 DEF Plan, TypeOK, LocalTypeOK
<1>7. InHand'
  <2>1. InHand /\ pc \in [Holder -> Place] /\ queue \in [Holder -> SUBSET Step]
    BY <1>1 DEF Typed, TypeOK, LocalTypeOK
  <2>2. UNCHANGED <<execs, live>> /\ \A g \in Holder \ {h} : queue'[g] = queue[g]
    BY <2>1 DEF Plan
  <2> QED
    BY <1>2, <1>3, <2>1, <2>2 DEF InHand, Goto, StartingAt, FinishingAt
<1> QED
  BY <1>5, <1>6, <1>7 DEF Typed, TypeOK

\* From the choice of the next step to the moment its lease is on disk.
LEMMA StartTyped ==
  ASSUME Typed, NEW h \in Holder, StartStep(h) \/ OpenAttempt(h) \/ TakeLease(h)
  PROVE  Typed'
<1> DEFINE s == First(queue[h])
<1>1. TypeOK
  BY DEF Typed
<1>2. queue[h] # {} /\ s \in Step
  BY StepInHand DEF StartStep, OpenAttempt, TakeLease, At, StartingAt
<1>3. /\ attempt \in [Step -> Seq(AttemptState)] /\ step \in [Step -> StepRecord]
      /\ heartbeat \in [Step -> {"none", "fresh", "old"}]
  BY <1>1 DEF TypeOK, StoreTypeOK
<1>4. number \in [Holder -> [Step -> Nat]] /\ number[h][s] \in Nat
  BY <1>1, <1>2 DEF TypeOK, LocalTypeOK
<1>5. PICK p \in StartingAt : Goto(h, p)
  BY DEF StartStep, OpenAttempt, TakeLease, StartingAt
<1>6. p \in Place
  BY DEF Place, StartingAt
<1>7. number' \in [Holder -> [Step -> Nat]]
  <2>1. Len(attempt[s]) + 1 \in Nat
    BY <1>2, <1>3, LenProperties
  <2>2. CASE StartStep(h)
    <3>1. number' = [number EXCEPT ![h][s] = Len(attempt[s]) + 1]
      BY <2>2 DEF StartStep
    <3> HIDE DEF s
    <3> QED
      BY <1>2, <1>4, <2>1, <3>1
  <2>3. CASE OpenAttempt(h) \/ TakeLease(h)
    BY <1>4, <2>3 DEF OpenAttempt, TakeLease, local
  <2> QED
    BY <2>2, <2>3
<1>8. attempt' \in [Step -> Seq(AttemptState)]
  <2>1. CASE OpenAttempt(h)
    <3>1. "open" \in AttemptState
      BY DEF AttemptState
    <3>2. /\ [attempt[s] EXCEPT ![number[h][s]] = "open"] \in Seq(AttemptState)
          /\ Append(attempt[s], "open") \in Seq(AttemptState)
      BY <1>2, <1>3, <1>4, <3>1, AttemptsStayTyped
    <3>3. \E a \in Seq(AttemptState) : attempt' = [attempt EXCEPT ![s] = a]
      BY <2>1, <3>2 DEF OpenAttempt
    <3> QED
      BY <1>2, <1>3, <3>3
  <2>2. CASE StartStep(h) \/ TakeLease(h)
    BY <1>3, <2>2 DEF StartStep, TakeLease, store
  <2> QED
    BY <2>1, <2>2
<1>9. step' \in [Step -> StepRecord] /\ heartbeat' \in [Step -> {"none", "fresh", "old"}]
  <2>1. [status |-> "running", lease |-> h, latest |-> number[h][s]] \in StepRecord
    BY <1>4 DEF StepRecord, StepStatus
  <2> QED
    BY <1>2, <1>3, <2>1 DEF StartStep, OpenAttempt, TakeLease, store
<1>10. StoreTypeOK'
  BY <1>1, <1>8, <1>9 DEF StartStep, OpenAttempt, TakeLease, TypeOK, StoreTypeOK,
     store, log, history
<1>11. LocalTypeOK'
  <2>1. pc' \in [Holder -> Place]
    BY <1>1, <1>5, <1>6, GotoTyped
  <2> QED
    BY <1>1, <1>7, <2>1 DEF StartStep, OpenAttempt, TakeLease, TypeOK, LocalTypeOK, local
<1>12. InHand'
  <2>1. InHand /\ pc \in [Holder -> Place]
    BY <1>1 DEF Typed, TypeOK, LocalTypeOK
  <2>2. UNCHANGED <<queue, execs, live>>
    BY DEF StartStep, OpenAttempt, TakeLease, local
  <2> QED
    BY <1>2, <1>5, <2>1, <2>2 DEF InHand, Goto, StartingAt
<1> QED
  BY <1>10, <1>11, <1>12 DEF Typed, TypeOK

\* The backend of a leased step is started.
LEMMA LaunchTyped ==
  ASSUME Typed, NEW h \in Holder, Launch(h)
  PROVE  Typed'
<1> DEFINE s == First(queue[h])
<1>1. TypeOK
  BY DEF Typed
<1>2. s \in Step
  BY StepInHand DEF Launch, At, StartingAt
<1>3. number[h][s] \in Nat
  BY <1>1, <1>2 DEF TypeOK, LocalTypeOK
<1>4. launched' \in [Step -> SUBSET Nat]
  <2>1. launched \in [Step -> SUBSET Nat]
    BY <1>1 DEF TypeOK, StoreTypeOK
  <2> QED
    BY <1>2, <1>3, <2>1 DEF Launch
<1>5. \E a \in {"going", "error"} : live' = [live EXCEPT ![h][s] = a]
  BY DEF Launch
<1>6. /\ queue' = [queue EXCEPT ![h] = @ \ {s}]
      /\ execs' = [execs EXCEPT ![h] = @ \cup {s}]
      /\ Goto(h, "start")
  BY DEF Launch
<1>7. StoreTypeOK'
  BY <1>1, <1>4 DEF Launch, TypeOK, StoreTypeOK, store, log
<1> HIDE DEF s
<1>8. live' \in [Holder -> [Step -> LiveState]]
  <2>1. live \in [Holder -> [Step -> LiveState]]
    BY <1>1 DEF TypeOK, LocalTypeOK
  <2> QED
    BY <1>2, <1>5, <2>1 DEF LiveState
<1>9. queue' \in [Holder -> SUBSET Step] /\ execs' \in [Holder -> SUBSET Step]
  <2>1. queue \in [Holder -> SUBSET Step] /\ execs \in [Holder -> SUBSET Step]
    BY <1>1 DEF TypeOK, LocalTypeOK
  <2> QED
    BY <1>2, <1>6, <2>1
<1>10. LocalTypeOK'
  <2>1. pc' \in [Holder -> Place]
    BY <1>1, <1>6, GotoTyped DEF Place
  <2> QED
    BY <1>1, <1>8, <1>9, <2>1 DEF Launch, TypeOK, LocalTypeOK
<1>11. InHand'
  <2>1. /\ InHand /\ pc \in [Holder -> Place]
        /\ queue \in [Holder -> SUBSET Step] /\ execs \in [Holder -> SUBSET Step]
        /\ live \in [Holder -> [Step -> LiveState]]
    BY <1>1 DEF Typed, TypeOK, LocalTypeOK
  <2>2. \A g \in Holder \ {h} :
          /\ queue'[g] = queue[g] /\ execs'[g] = execs[g]
          /\ live'[g] = live[g] /\ pc'[g] = pc[g]
    BY <1>5, <1>6, <2>1 DEF Goto
  <2>3. pc'[h] = "start"
    BY <1>6, <2>1 DEF Goto
  <2> QED
    BY <2>1, <2>2, <2>3 DEF InHand
<1> QED
  BY <1>7, <1>10, <1>11 DEF Typed, TypeOK

\* The actions that only move a pass on, from its first execution to its last.
LEMMA AwaitTyped ==
  ASSUME Typed, NEW h \in Holder,
         \/ Started(h) \/ AwaitResult(h) \/ TakeResult(h) \/ LoseRace(h)
         \/ CancelRefused(h) \/ Finished(h)
  PROVE  Typed'
<1> DEFINE s == First(execs[h])
<1>1. TypeOK
  BY DEF Typed
<1>2. PICK p \in {"await", "record", "cancel", "wait", "preserve", "finalize"} :
        Goto(h, p)
  BY DEF Started, AwaitResult, TakeResult, LoseRace, CancelRefused, Finished
<1>3. p \in Place \ StartingAt
  BY DEF Place, StartingAt
<1>4. UNCHANGED <<queue, execs, live>>
  BY DEF Started, AwaitResult, TakeResult, LoseRace, CancelRefused, Finished, local
<1>5. pc \in [Holder -> Place] /\ pc' \in [Holder -> Place] /\ pc'[h] = p
  BY <1>1, <1>2, <1>3, GotoTyped DEF Goto, TypeOK, LocalTypeOK
<1>6. p \in FinishingAt => execs[h] # {}
  <2>1. pc[h] \in FinishingAt => execs[h] # {}
    BY StepInHand
  <2> QED
    BY <1>5, <2>1 DEF Started, AwaitResult, TakeResult, LoseRace, CancelRefused,
       Finished, At, Goto, FinishingAt
<1>7. p = "record" => live[h][s] \in Result \cup {"error"}
  BY <1>5 DEF Started, AwaitResult, TakeResult, LoseRace, CancelRefused, Finished, Goto
<1>8. StoreTypeOK'
  BY <1>1 DEF Started, AwaitResult, TakeResult, LoseRace, CancelRefused, Finished,
     TypeOK, StoreTypeOK, store, log, history
<1>9. LocalTypeOK'
  BY <1>1, <1>5 DEF Started, AwaitResult, TakeResult, LoseRace, CancelRefused,
     Finished, TypeOK, LocalTypeOK, local
<1>10. InHand'
  <2>1. InHand
    BY DEF Typed
  <2>2. \A g \in Holder \ {h} : pc'[g] = pc[g]
    BY <1>2, <1>5 DEF Goto
  <2> QED
    BY <1>2, <1>3, <1>4, <1>5, <1>6, <1>7, <2>1, <2>2
    DEF InHand, StartingAt, FinishingAt
<1> QED
  BY <1>8, <1>9, <1>10 DEF Typed, TypeOK

\* A result, or its place, is given to the execution in hand.
LEMMA ResultTyped ==
  ASSUME Typed, NEW h \in Holder, CancelConfirmed(h) \/ RecordResult(h)
  PROVE  Typed'
<1> DEFINE s == First(execs[h])
<1>1. TypeOK
  BY DEF Typed
<1>2. s \in Step /\ execs[h] # {}
  BY StepInHand DEF CancelConfirmed, RecordResult, At, FinishingAt
<1>3. PICK r \in Result : live' = [live EXCEPT ![h][s] = r]
  <2>1. CASE CancelConfirmed(h)
    BY <2>1 DEF CancelConfirmed, Result
  <2>2. CASE RecordResult(h)
    <3>1. live[h][s] \in Result \cup {"error"}
      BY <2>2 DEF RecordResult, At, Typed, InHand
    <3> QED
      BY <2>2, <3>1 DEF RecordResult, Result
  <2> QED
    BY <2>1, <2>2
<1>4. PICK p \in {"record", "settle"} : Goto(h, p)
  BY DEF CancelConfirmed, RecordResult
<1>5. attempt' \in [Step -> Seq(AttemptState)]
  <2>1. attempt \in [Step -> Seq(AttemptState)]
    BY <1>1 DEF TypeOK, StoreTypeOK
  <2>2. CASE CancelConfirmed(h)
    BY <2>1, <2>2 DEF CancelConfirmed, store
  <2>3. CASE RecordResult(h)
    <3>1. number[h][s] \in Nat
      BY <1>1, <1>2 DEF TypeOK, LocalTypeOK
    <3>2. PICK r2 \in Result : attempt' = [attempt EXCEPT ![s][number[h][s]] = r2]
      <4>1. live[h][s] \in Result \cup {"error"}
        BY <2>3 DEF RecordResult, At, Typed, InHand
      <4> QED
        BY <2>3, <4>1 DEF RecordResult, Result
    <3>3. [attempt[s] EXCEPT ![number[h][s]] = r2] \in Seq(AttemptState)
      BY <1>2, <2>1, <3>1, AttemptsStayTyped DEF AttemptState
    <3> HIDE DEF s
    <3> QED
      BY <1>2, <2>1, <3>2, <3>3
  <2> QED
    BY <2>2, <2>3
<1>6. StoreTypeOK'
  BY <1>1, <1>5 DEF CancelConfirmed, RecordResult, TypeOK, StoreTypeOK,
     store, log, history
<1>7. UNCHANGED <<queue, execs>>
  BY DEF CancelConfirmed, RecordResult
<1>8. pc \in [Holder -> Place] /\ live \in [Holder -> [Step -> LiveState]]
  BY <1>1 DEF TypeOK, LocalTypeOK
<1>9. pc' \in [Holder -> Place]
  BY <1>1, <1>4, GotoTyped DEF Place
<1>10. live' \in [Holder -> [Step -> LiveState]]
  <2> HIDE DEF s
  <2> QED
    BY <1>2, <1>3, <1>8 DEF LiveState
<1>11. LocalTypeOK'
  BY <1>1, <1>9, <1>10 DEF CancelConfirmed, RecordResult, TypeOK, LocalTypeOK
<1>12. InHand'
  <2>1. InHand
    BY DEF Typed
  <2>2. live'[h][s] = r /\ pc'[h] = p
    BY <1>2, <1>3, <1>4, <1>8 DEF Goto
  <2>3. \A g \in Holder \ {h} : pc'[g] = pc[g] /\ live'[g] = live[g]
    BY <1>3, <1>4, <1>8 DEF Goto
  <2> QED
    BY <1>2, <1>4, <1>7, <2>1, <2>2, <2>3 DEF InHand
<1> QED
  BY <1>6, <1>11, <1>12 DEF Typed, TypeOK

\* An execution is forgotten, after its step was settled or left running.
LEMMA ForgetTyped ==
  ASSUME Typed, NEW h \in Holder, NEW s \in Step,
         Forget(h, s), Goto(h, "await"), UNCHANGED queue
  PROVE  /\ pc' \in [Holder -> Place]
         /\ execs' \in [Holder -> SUBSET Step]
         /\ number' \in [Holder -> [Step -> Nat]]
         /\ live' \in [Holder -> [Step -> LiveState]]
         /\ InHand'
<1>1. /\ TypeOK /\ InHand /\ pc \in [Holder -> Place]
      /\ execs \in [Holder -> SUBSET Step]
      /\ number \in [Holder -> [Step -> Nat]]
      /\ live \in [Holder -> [Step -> LiveState]]
  BY DEF Typed, TypeOK, LocalTypeOK
<1>2. pc' \in [Holder -> Place]
  BY <1>1, GotoTyped DEF Place
<1>3. execs' \in [Holder -> SUBSET Step]
  BY <1>1 DEF Forget
<1>4. number' \in [Holder -> [Step -> Nat]]
  BY <1>1 DEF Forget
<1>5. live' \in [Holder -> [Step -> LiveState]]
  BY <1>1 DEF Forget, LiveState
<1>6. InHand'
  <2>1. \A g \in Holder \ {h} :
          pc'[g] = pc[g] /\ live'[g] = live[g] /\ execs'[g] = execs[g]
    BY <1>1 DEF Forget, Goto
  <2>2. pc'[h] = "await"
    BY <1>1 DEF Goto
  <2> QED
    BY <1>1, <2>1, <2>2 DEF InHand
<1> QED
  BY <1>2, <1>3, <1>4, <1>5, <1>6

\* An execution that could not be cancelled is left running.
LEMMA PreserveRunningTyped ==
  ASSUME Typed, NEW h \in Holder, PreserveRunning(h)
  PROVE  Typed'
<1>1. TypeOK
  BY DEF Typed
<1>2. First(execs[h]) \in Step
  BY StepInHand DEF PreserveRunning, At, FinishingAt
<1>3. Forget(h, First(execs[h])) /\ Goto(h, "await") /\ UNCHANGED queue
  BY DEF PreserveRunning
<1>4. /\ pc' \in [Holder -> Place]
      /\ execs' \in [Holder -> SUBSET Step]
      /\ number' \in [Holder -> [Step -> Nat]]
      /\ live' \in [Holder -> [Step -> LiveState]]
      /\ InHand'
  BY <1>2, <1>3, ForgetTyped
<1>5. StoreTypeOK'
  BY <1>1 DEF PreserveRunning, TypeOK, StoreTypeOK, store, log, history
<1>6. LocalTypeOK'
  BY <1>1, <1>4 DEF PreserveRunning, TypeOK, LocalTypeOK
<1> QED
  BY <1>4, <1>5, <1>6 DEF Typed, TypeOK

\* The record of a step is written from its result.
LEMMA SettleTyped ==
  ASSUME Typed, NEW h \in Holder, Settle(h)
  PROVE  Typed'
<1> DEFINE s == First(execs[h])
           n == number[h][s]
           status == Transition(s, n, live[h][s])
           r == [status |-> status, lease |-> NoHolder, latest |-> n]
<1>1. TypeOK
  BY DEF Typed
<1>2. s \in Step
  BY StepInHand DEF Settle, At, FinishingAt
<1>3. n \in Nat /\ live[h][s] \in Result
  BY <1>1, <1>2 DEF TypeOK, LocalTypeOK, Settle, At, Typed, InHand
<1>4. r \in StepRecord
  <2>1. status \in StepStatus
    BY <1>2, <1>3, TransitionTyped DEF StepStatus
  <2> QED
    BY <1>3, <2>1, ReleasedRecord
<1>5. /\ Write(h, s, r, Announcing(status))
      /\ Forget(h, s) /\ Goto(h, "await") /\ UNCHANGED queue
  BY DEF Settle
<1>6. Announcing(status) \in {"step_ready", "step_end"}
  BY DEF Announcing
<1> HIDE DEF s, n, status, r
<1>7. /\ step' \in [Step -> StepRecord]
      /\ emit' \in [Holder -> SUBSET Event]
      /\ owed' \in [Step -> Int]
  BY <1>1, <1>2, <1>4, <1>5, <1>6, WriteTyped
<1>8. /\ pc' \in [Holder -> Place]
      /\ execs' \in [Holder -> SUBSET Step]
      /\ number' \in [Holder -> [Step -> Nat]]
      /\ live' \in [Holder -> [Step -> LiveState]]
      /\ InHand'
  BY <1>2, <1>5, ForgetTyped
<1>9. StoreTypeOK'
  BY <1>1, <1>7 DEF Settle, TypeOK, StoreTypeOK, history
<1>10. LocalTypeOK'
  BY <1>1, <1>7, <1>8 DEF Settle, TypeOK, LocalTypeOK
<1> QED
  BY <1>8, <1>9, <1>10 DEF Typed, TypeOK

\* A backend returns its result.
LEMMA BackendReturnsTyped ==
  ASSUME Typed, NEW h \in Holder, NEW s \in Step, NEW r \in Answers,
         BackendReturns(h, s, r)
  PROVE  Typed'
<1>1. /\ TypeOK /\ InHand
      /\ live \in [Holder -> [Step -> LiveState]]
      /\ execs \in [Holder -> SUBSET Step]
  BY DEF Typed, TypeOK, LocalTypeOK
<1>2. r \in Result
  BY SchedulerAssumption DEF Result
<1>3. StoreTypeOK'
  BY <1>1 DEF BackendReturns, TypeOK, StoreTypeOK, store, log
<1>4. live' \in [Holder -> [Step -> LiveState]]
  BY <1>1, <1>2 DEF BackendReturns, LiveState
<1>5. LocalTypeOK'
  BY <1>1, <1>4 DEF BackendReturns, TypeOK, LocalTypeOK
<1>6. InHand'
  <2>1. UNCHANGED <<pc, queue, execs>>
    BY DEF BackendReturns
  <2>2. ASSUME NEW g \in Holder, NEW t \in Step
        PROVE  live'[g][t] \in {live[g][t], r}
    BY <1>1 DEF BackendReturns
  <2>3. \A g \in Holder : execs[g] # {} => First(execs[g]) \in Step
    BY StepInHand
  <2> QED
    BY <1>1, <1>2, <2>1, <2>2, <2>3 DEF InHand
<1> QED
  BY <1>3, <1>5, <1>6 DEF Typed, TypeOK

\* Time passes, or a caller aborts.
LEMMA TimeAndSignalsTyped ==
  ASSUME Typed,
         \/ \E s \in Step : HeartbeatAges(s)
         \/ \E h \in Holder : Abort(h)
  PROVE  Typed'
<1>1. TypeOK
  BY DEF Typed
<1>2. StoreTypeOK'
  BY <1>1 DEF HeartbeatAges, Abort, TypeOK, StoreTypeOK, store, log, history
<1>3. LocalTypeOK'
  BY <1>1 DEF HeartbeatAges, Abort, TypeOK, LocalTypeOK, local
<1>4. InHand'
  BY StayKeepsHand DEF HeartbeatAges, Abort, local
<1> QED
  BY <1>2, <1>3, <1>4 DEF Typed, TypeOK

\* A process that ends or crashes keeps nothing in memory.
LEMMA VanishTyped ==
  ASSUME Typed, NEW h \in Holder, Vanish(h)
  PROVE  LocalTypeOK' /\ InHand'
<1>1. TypeOK /\ InHand
  BY DEF Typed
<1>2. /\ Goto(h, "stopped") /\ "stopped" \in Place
      /\ InitialRecords \in [Step -> StepRecord]
      /\ NoRenewal \in Renewal
  BY DEF Vanish, Place, InitialRecords, StepRecord, StepStatus, Renewal
<1>3. pc' \in [Holder -> Place]
  BY <1>1, <1>2, GotoTyped
<1>4. view' \in [Holder -> [Step -> StepRecord]] /\ renewal' \in [Holder -> Renewal]
  BY <1>1, <1>2 DEF Vanish, TypeOK, LocalTypeOK
<1>5. /\ number' \in [Holder -> [Step -> Nat]]
      /\ live' \in [Holder -> [Step -> LiveState]]
  BY <1>1 DEF Vanish, TypeOK, LocalTypeOK, LiveState
<1>6. decided' \in [Holder -> RunStatus]
  BY <1>1 DEF Vanish, TypeOK, LocalTypeOK, RunStatus
<1>7. LocalTypeOK'
  BY <1>1, <1>3, <1>4, <1>5, <1>6 DEF Vanish, TypeOK, LocalTypeOK
<1>8. InHand'
  <2>1. pc \in [Holder -> Place] /\ queue \in [Holder -> SUBSET Step]
        /\ execs \in [Holder -> SUBSET Step] /\ live \in [Holder -> [Step -> LiveState]]
    BY <1>1 DEF TypeOK, LocalTypeOK
  <2>2. \A g \in Holder \ {h} : /\ pc'[g] = pc[g] /\ live'[g] = live[g]
                               /\ execs'[g] = execs[g] /\ queue'[g] = queue[g]
    BY <1>2, <2>1 DEF Vanish, Goto
  <2>3. pc'[h] = "stopped"
    BY <1>2, <2>1 DEF Goto
  <2> QED
    BY <1>1, <2>2, <2>3 DEF InHand
<1> QED
  BY <1>7, <1>8

\* A process leaves the run, resumes it or crashes.
LEMMA LifecycleTyped ==
  ASSUME Typed, NEW h \in Holder, Exit(h) \/ Crash(h) \/ Resume(h)
  PROVE  Typed'
<1>1. TypeOK
  BY DEF Typed
<1>2. StoreTypeOK'
  BY <1>1, SchedulerAssumption DEF Exit, Crash, Resume, TypeOK, StoreTypeOK,
     store, log, history
<1>3. CASE Exit(h) \/ Crash(h)
  BY <1>2, <1>3, VanishTyped DEF Exit, Crash, Typed, TypeOK
<1>4. CASE Resume(h)
  <2>1. Goto(h, "idle") /\ "idle" \in Place \ (StartingAt \cup FinishingAt)
    BY <1>4 DEF Resume, Place, StartingAt, FinishingAt
  <2>2. pc' \in [Holder -> Place]
    BY <1>1, <2>1, GotoTyped
  <2>3. LocalTypeOK'
    BY <1>1, <1>4, <2>2 DEF Resume, TypeOK, LocalTypeOK, local
  <2>4. InHand'
    BY <1>4, <2>1, MoveKeepsHand DEF Resume, local
  <2> QED
    BY <1>2, <2>3, <2>4 DEF Typed, TypeOK
<1> QED
  BY <1>3, <1>4

\* The typing of the system: every file and every local of every process holds
\* a value of its type, and a pass that starts or finishes a step has one.
THEOREM TypeCorrect == Spec => []Typed
<1>1. Init => Typed
  <2> SUFFICES ASSUME Init PROVE Typed
    OBVIOUS
  <2>1. InitialRecords \in [Step -> StepRecord] /\ NoRenewal \in Renewal
    BY DEF InitialRecords, StepRecord, StepStatus, Renewal
  <2>2. StoreTypeOK
    <3>1. <<>> \in Seq(AttemptState)
      BY EmptySeq
    <3> QED
      BY <2>1, <3>1, SchedulerAssumption DEF Init, StoreTypeOK, RunStatus
  <2>3. LocalTypeOK
    BY <2>1 DEF Init, LocalTypeOK, Place, LiveState, RunStatus
  <2>4. InHand
    BY DEF Init, InHand
  <2> QED
    BY <2>2, <2>3, <2>4 DEF Typed, TypeOK
<1>2. Typed /\ [Next]_vars => Typed'
  <2> SUFFICES ASSUME Typed, [Next]_vars PROVE Typed'
    OBVIOUS
  <2>1. CASE UNCHANGED vars
    BY <2>1 DEF vars, store, log, history, local, Typed, TypeOK, StoreTypeOK,
       LocalTypeOK, InHand
  <2>2. ASSUME NEW h \in Holder, Proceed(h) PROVE Typed'
    BY <2>2, LoadTyped, MarkReadyTyped, ReconciledTyped, AppendEventTyped,
       PromoteTyped, PromotedTyped, GuardsTyped, FinalizeTyped, RenewTyped,
       PlanTyped, StartTyped, LaunchTyped, AwaitTyped, ResultTyped,
       PreserveRunningTyped, SettleTyped, LifecycleTyped DEF Proceed
  <2>3. ASSUME NEW h \in Holder, RenewTick(h) \/ RenewWrite(h) PROVE Typed'
    BY <2>3, RenewTyped, RenewWriteTyped
  <2>4. ASSUME NEW h \in Holder, Abort(h) \/ Crash(h) \/ Resume(h) PROVE Typed'
    BY <2>4, TimeAndSignalsTyped, LifecycleTyped
  <2>5. ASSUME NEW h \in Holder, NEW s \in Step, NEW r \in Answers,
               BackendReturns(h, s, r)
        PROVE  Typed'
    BY <2>5, BackendReturnsTyped
  <2>6. ASSUME NEW s \in Step, HeartbeatAges(s) PROVE Typed'
    BY <2>6, TimeAndSignalsTyped
  <2> QED
    BY <2>1, <2>2, <2>3, <2>4, <2>5, <2>6 DEF Next
<1> QED
  BY <1>1, <1>2, PTL DEF Spec

\* TypeOK, which the runs check, is one half of it.
COROLLARY TypeInvariant == Spec => []TypeOK
<1>1. Typed => TypeOK
  BY DEF Typed
<1> QED
  BY <1>1, TypeCorrect, PTL

------------------------------------------------------------------------------
(* The scheduler claims no success that a backend did not report, and      *)
(* starts no step whose dependencies did not succeed.                      *)

------------------------------------------------------------------------------
(* What an action leaves alone stays earned, since successes are only      *)
(* ever added.                                                             *)

\* Records that are not written stay earned.
LEMMA RecordsStayEarned ==
  ASSUME EarnedRecords, succeeded \subseteq succeeded',
         UNCHANGED <<step, view, renewal>>
  PROVE  EarnedRecords'
BY DEF EarnedRecords, Earned

\* What a process has in hand stays earned as long as it is not changed.
LEMMA WorkStaysEarned ==
  ASSUME EarnedWork, succeeded \subseteq succeeded',
         UNCHANGED <<attempt, launched, queue, execs, live>>
  PROVE  EarnedWork'
BY DEF EarnedWork

\* The same when results and executions are only dropped, or fail.
LEMMA LessWorkStaysEarned ==
  ASSUME EarnedWork, UNCHANGED <<attempt, launched, succeeded>>,
         \A g \in Holder : queue'[g] \cup execs'[g] \subseteq queue[g] \cup execs[g],
         \A g \in Holder : \A s \in Step :
           live'[g][s] = "success" => live[g][s] = "success"
  PROVE  EarnedWork'
BY DEF EarnedWork

\* No process that was not about to write an outcome comes to be.
LEMMA OutcomeStaysEarned ==
  ASSUME EarnedOutcome, Typed', succeeded \subseteq succeeded',
         UNCHANGED <<run, decided>>,
         \A g \in Holder : pc'[g] \in {"announce", "save"} =>
                           pc[g] \in {"announce", "save"}
  PROVE  EarnedOutcome'
<1>1. succeeded' \in SUBSET Step
  BY DEF Typed, TypeOK, StoreTypeOK
<1>2. succeeded = Step => succeeded' = Step
  BY <1>1
<1> QED
  BY <1>2 DEF EarnedOutcome

\* A process that only moves on decides nothing new.
LEMMA MoveKeepsOutcome ==
  ASSUME EarnedOutcome, Typed, Typed', NEW h \in Holder,
         NEW p, p \notin {"announce", "save"}, Goto(h, p),
         succeeded \subseteq succeeded', UNCHANGED <<run, decided>>
  PROVE  EarnedOutcome'
<1>1. pc \in [Holder -> Place]
  BY DEF Typed, TypeOK, LocalTypeOK
<1>2. \A g \in Holder : pc'[g] \in {"announce", "save"} =>
                        pc[g] \in {"announce", "save"}
  BY <1>1 DEF Goto
<1> QED
  BY <1>2, OutcomeStaysEarned

\* A record that is written is earned, and so are those that are not.
LEMMA WrittenRecordEarned ==
  ASSUME Typed, EarnedRecords, UNCHANGED succeeded,
         NEW s \in Step, NEW r, Earned(s, r), step' = [step EXCEPT ![s] = r]
  PROVE  \A t \in Step : Earned(t, step[t])'
<1>1. step \in [Step -> StepRecord]
  BY DEF Typed, TypeOK, StoreTypeOK
<1>2. \A t \in Step : step'[t] = IF t = s THEN r ELSE step[t]
  BY <1>1
<1> QED
  BY <1>2 DEF EarnedRecords, Earned

\* A write that claims no new work leaves the records earned.
LEMMA WriteKeepsRecords ==
  ASSUME Typed, EarnedRecords, UNCHANGED <<succeeded, view, renewal>>,
         NEW s \in Step, NEW r, Earned(s, r), step' = [step EXCEPT ![s] = r]
  PROVE  EarnedRecords'
<1>1. \A t \in Step : Earned(t, step[t])'
  BY WrittenRecordEarned
<1> QED
  BY <1>1 DEF EarnedRecords, Earned

------------------------------------------------------------------------------
(* One lemma per action, or group of actions.                              *)

\* What a pass reads is earned when the files are.
LEMMA LoadEarned ==
  ASSUME Typed, Typed', NothingUnearned, NEW h \in Holder, Load(h) \/ Promoted(h)
  PROVE  NothingUnearned'
<1>1. EarnedRecords /\ EarnedWork /\ EarnedOutcome
  BY DEF NothingUnearned
<1>2. UNCHANGED <<step, renewal, succeeded>> /\ view' \in {view, [view EXCEPT ![h] = step]}
  BY DEF Load, Promoted, store, history
<1>3. EarnedRecords'
  <2>1. view \in [Holder -> [Step -> StepRecord]]
    BY DEF Typed, TypeOK, LocalTypeOK
  <2>2. \A g \in Holder : view'[g] = view[g] \/ view'[g] = step
    BY <1>2, <2>1
  <2> QED
    BY <1>1, <1>2, <2>2 DEF EarnedRecords, Earned
<1>4. EarnedWork'
  BY <1>1, WorkStaysEarned DEF Load, Promoted, store, history
<1>5. PICK p \in {"exit", "reconcile", "recheck", "committed"} : Goto(h, p)
  BY DEF Load, Promoted
<1>6. EarnedOutcome'
  BY <1>1, <1>5, MoveKeepsOutcome DEF Load, Promoted, store, history
<1> QED
  BY <1>3, <1>4, <1>6 DEF NothingUnearned

\* A pending step is made ready when its dependencies were read as completed.
LEMMA MarkReadyEarned ==
  ASSUME Typed, Typed', NothingUnearned, NEW h \in Holder, MarkReady(h)
  PROVE  NothingUnearned'
<1> DEFINE s == First(Unblocked(view[h]))
           r == [view[h][s] EXCEPT !.status = "ready"]
<1>1. EarnedRecords /\ EarnedWork /\ EarnedOutcome
  BY DEF NothingUnearned
<1>2. s \in Unblocked(view[h]) /\ s \in Step
  <2>1. Unblocked(view[h]) \in SUBSET Step /\ Unblocked(view[h]) # {}
    BY DEF MarkReady, Unblocked, WithStatus
  <2> QED
    BY <2>1, FirstIn
<1>3. Earned(s, r)
  <2>1. Deps[s] \subseteq succeeded
    <3>1. \A d \in Deps[s] : d \in Step /\ view[h][d].status = "completed"
      BY <1>2, SchedulerAssumption DEF Unblocked
    <3> QED
      BY <1>1, <3>1 DEF EarnedRecords, Earned
  <2>2. view[h][s] \in StepRecord
    BY <1>2 DEF Typed, TypeOK, LocalTypeOK
  <2>3. r.status = "ready"
    BY <2>2 DEF StepRecord
  <2> QED
    BY <2>1, <2>3 DEF Earned
<1>4. step' = [step EXCEPT ![s] = r] /\ view' = [view EXCEPT ![h][s] = r]
  BY DEF MarkReady, Write
<1>5. UNCHANGED <<succeeded, renewal>>
  BY DEF MarkReady, history
<1> HIDE DEF s, r
<1>6. EarnedRecords'
  <2>1. \A t \in Step : Earned(t, step[t])'
    BY <1>1, <1>2, <1>3, <1>4, <1>5, WrittenRecordEarned
  <2>2. view \in [Holder -> [Step -> StepRecord]]
    BY DEF Typed, TypeOK, LocalTypeOK
  <2>3. \A g \in Holder : \A t \in Step :
          view'[g][t] = view[g][t] \/ (t = s /\ view'[g][t] = r)
    BY <1>2, <1>4, <2>2
  <2>4. \A g \in Holder : \A t \in Step : Earned(t, view[g][t])'
    BY <1>1, <1>3, <1>5, <2>3 DEF EarnedRecords, Earned
  <2> QED
    BY <1>1, <1>5, <2>1, <2>4 DEF EarnedRecords, Earned
<1>7. EarnedWork'
  BY <1>1, WorkStaysEarned DEF MarkReady, history
<1>8. EarnedOutcome'
  BY <1>1, OutcomeStaysEarned DEF MarkReady, history
<1> QED
  BY <1>6, <1>7, <1>8 DEF NothingUnearned

\* Actions that touch neither a record nor an execution, and decide nothing.
LEMMA QuietEarned ==
  ASSUME Typed, Typed', NothingUnearned, NEW h \in Holder,
         \/ Reconciled(h) \/ AppendEvent(h) \/ StartStep(h)
         \/ Started(h) \/ AwaitResult(h) \/ TakeResult(h) \/ LoseRace(h)
         \/ CancelRefused(h) \/ Finished(h) \/ Abort(h) \/ Resume(h)
         \/ \E p, S, a, b : \E q \in {"stale", "unknown", "finalize"} :
              GuardDone(h, p, S, q, a, b)
  PROVE  NothingUnearned'
<1>1. EarnedRecords /\ EarnedWork /\ EarnedOutcome
  BY DEF NothingUnearned
<1>2. /\ UNCHANGED <<run, step, attempt, launched, succeeded>>
      /\ UNCHANGED <<view, queue, execs, live, decided, renewal>>
  BY DEF Reconciled, AppendEvent, StartStep, Started, AwaitResult, TakeResult,
     LoseRace, CancelRefused, Finished, Abort, Resume, GuardDone,
     store, history, local
<1>3. UNCHANGED pc \/ \E p : p \notin {"announce", "save"} /\ Goto(h, p)
  BY DEF Reconciled, AppendEvent, StartStep, Started, AwaitResult, TakeResult,
     LoseRace, CancelRefused, Finished, Abort, Resume, GuardDone
<1>4. EarnedOutcome'
  BY <1>1, <1>2, <1>3, OutcomeStaysEarned, MoveKeepsOutcome
<1> QED
  BY <1>1, <1>2, <1>4, RecordsStayEarned, WorkStaysEarned DEF NothingUnearned

\* A step is promoted to what the recorded result of its attempt says.
LEMMA PromoteEarned ==
  ASSUME Typed, Typed', NothingUnearned, NEW h \in Holder, Promote(h)
  PROVE  NothingUnearned'
<1> DEFINE s == First(Promotable(h))
           n == TerminalAttempt(s, view[h][s].latest)
           status == Transition(s, n, attempt[s][n])
           r == [status |-> status, lease |-> NoHolder, latest |-> n]
<1>1. /\ EarnedRecords /\ EarnedWork /\ EarnedOutcome
      /\ attempt \in [Step -> Seq(AttemptState)]
  BY DEF NothingUnearned, Typed, TypeOK, StoreTypeOK
<1>2. s \in Promotable(h) /\ s \in Step
  <2>1. Promotable(h) \in SUBSET Step /\ Promotable(h) # {}
    BY DEF Promote, Promotable, Typed, TypeOK, LocalTypeOK
  <2> QED
    BY <2>1, FirstIn
<1>3. n \in DOMAIN attempt[s] /\ n \in Nat /\ attempt[s][n] \in Result
  <2>1. view[h][s].latest \in Nat
    BY <1>2 DEF Typed, TypeOK, LocalTypeOK, StepRecord
  <2>2. n # 0
    BY <1>2 DEF Promotable
  <2>3. n \in DOMAIN attempt[s] /\ attempt[s][n] \in Result
    BY <1>1, <1>2, <2>1, <2>2, TerminalAttemptIn
  <2>4. attempt[s] \in Seq(AttemptState)
    BY <1>1, <1>2
  <2> QED
    BY <2>3, <2>4, LenProperties
<1>4. Earned(s, r)
  <2>1. Deps[s] \subseteq succeeded
    <3>1. attempt[s] # <<>>
      BY <1>3
    <3> QED
      BY <1>1, <1>2, <3>1 DEF EarnedWork
  <2>2. status = "completed" => s \in succeeded
    BY <1>1, <1>2, <1>3, TransitionTyped DEF EarnedWork
  <2> QED
    BY <2>1, <2>2 DEF Earned
<1>5. step' = [step EXCEPT ![s] = r]
  BY DEF Promote, Write
<1>6. UNCHANGED <<succeeded, view, renewal>>
  BY DEF Promote, history
<1> HIDE DEF s, n, status, r
<1>7. EarnedRecords'
  BY <1>1, <1>2, <1>4, <1>5, <1>6, WriteKeepsRecords
<1>8. EarnedWork'
  BY <1>1, WorkStaysEarned DEF Promote, history
<1>9. EarnedOutcome'
  BY <1>1, OutcomeStaysEarned DEF Promote, history
<1> QED
  BY <1>7, <1>8, <1>9 DEF NothingUnearned

\* A guard takes steps that were read as ready or running, whose dependencies
\* have succeeded, and never completes one.
LEMMA GuardStepEarned ==
  ASSUME Typed, Typed', NothingUnearned, NEW h \in Holder, NEW p,
         NEW S \in SUBSET Step, \A t \in S : view[h][t].status # "pending",
         NEW status \in {"blocked", "stale"}, NEW release \in BOOLEAN,
         GuardStep(h, p, S, status, release)
  PROVE  NothingUnearned'
<1> DEFINE s == First(S)
           r == [view[h][s] EXCEPT !.status = status,
                                   !.lease = IF release THEN NoHolder ELSE @]
<1>1. EarnedRecords /\ EarnedWork /\ EarnedOutcome
  BY DEF NothingUnearned
<1>2. s \in S /\ s \in Step
  BY FirstIn DEF GuardStep
<1>3. Earned(s, r)
  <2>1. view[h][s] \in StepRecord
    BY <1>2 DEF Typed, TypeOK, LocalTypeOK
  <2>2. r.status = status
    BY <2>1 DEF StepRecord
  <2> QED
    BY <1>1, <1>2, <2>2 DEF EarnedRecords, Earned
<1>4. step' = [step EXCEPT ![s] = r]
  BY DEF GuardStep, Write
<1>5. UNCHANGED <<succeeded, view, renewal>>
  BY DEF GuardStep, history
<1> HIDE DEF s, r
<1>6. EarnedRecords'
  BY <1>1, <1>2, <1>3, <1>4, <1>5, WriteKeepsRecords
<1>7. EarnedWork'
  BY <1>1, WorkStaysEarned DEF GuardStep, history
<1>8. EarnedOutcome'
  BY <1>1, OutcomeStaysEarned DEF GuardStep, history
<1> QED
  BY <1>6, <1>7, <1>8 DEF NothingUnearned

\* The guards block steps, and complete none.
LEMMA GuardsEarned ==
  ASSUME Typed, Typed', NothingUnearned, NEW h \in Holder,
         BlockCommitted(h) \/ MarkStale(h) \/ BlockUnknown(h)
  PROVE  NothingUnearned'
<1>1. todo[h] \in SUBSET Step
  BY DEF Typed, TypeOK, LocalTypeOK
<1>2. /\ PotentiallyCommitted(h) \in SUBSET Step
      /\ Stale(h) \in SUBSET Step
      /\ UnknownBackend(h) \in SUBSET Step
  BY <1>1 DEF PotentiallyCommitted, Stale, UnknownBackend
<1>3. /\ \A t \in PotentiallyCommitted(h) : view[h][t].status # "pending"
      /\ \A t \in Stale(h) : view[h][t].status # "pending"
      /\ \A t \in UnknownBackend(h) : view[h][t].status # "pending"
  BY DEF PotentiallyCommitted, Stale, UnknownBackend
<1>4. CASE BlockCommitted(h)
  BY <1>2, <1>3, <1>4, GuardStepEarned, QuietEarned DEF BlockCommitted
<1>5. CASE MarkStale(h)
  BY <1>2, <1>3, <1>5, GuardStepEarned, QuietEarned DEF MarkStale
<1>6. CASE BlockUnknown(h)
  BY <1>2, <1>3, <1>6, GuardStepEarned, QuietEarned DEF BlockUnknown
<1> QED
  BY <1>4, <1>5, <1>6

\* The outcome is decided from records that are earned, and written as decided.
LEMMA FinalizeEarned ==
  ASSUME Typed, Typed', NothingUnearned, NEW h \in Holder,
         Finalize(h) \/ AnnounceRun(h) \/ SaveRun(h)
  PROVE  NothingUnearned'
<1>1. EarnedRecords /\ EarnedWork /\ EarnedOutcome /\ succeeded \in SUBSET Step
  BY DEF NothingUnearned, Typed, TypeOK, StoreTypeOK
<1>2. UNCHANGED <<step, view, renewal, succeeded>>
  BY DEF Finalize, AnnounceRun, SaveRun, store, history, local
<1>3. UNCHANGED <<attempt, launched, queue, execs, live>>
  BY DEF Finalize, AnnounceRun, SaveRun, store, history, local
<1>4. pc \in [Holder -> Place] /\ decided \in [Holder -> RunStatus]
  BY DEF Typed, TypeOK, LocalTypeOK
<1>5. EarnedOutcome'
  <2>1. CASE Finalize(h) /\ UNCHANGED decided
    <3>1. PICK p \in {"exit", "idle", "committed", "renew", "announce"} :
            Goto(h, p)
      BY <2>1 DEF Finalize, AfterDrain, Typed, TypeOK, LocalTypeOK
    <3>2. CASE p # "announce"
      BY <1>1, <1>2, <2>1, <3>1, <3>2, MoveKeepsOutcome DEF Finalize, store
    <3>3. CASE p = "announce"
      <4>1. after[h] # "announce"
        BY DEF Typed, TypeOK, LocalTypeOK
      <4>2. run = "running" /\ Outcome(step) # "running"
            /\ decided' = [decided EXCEPT ![h] = Outcome(step)]
        BY <1>4, <2>1, <3>1, <3>3, <4>1 DEF Finalize, AfterDrain, Goto
      <4>3. Outcome(step) = "completed" => \A s \in Step : step[s].status = "completed"
        BY DEF Outcome
      <4>4. decided[h] = "completed" => succeeded = Step
        <5>1. decided[h] = Outcome(step)
          BY <1>4, <2>1, <4>2
        <5> QED
          BY <1>1, <4>3, <5>1 DEF EarnedRecords, Earned
      <4>5. \A g \in Holder \ {h} : pc'[g] = pc[g]
        BY <1>4, <3>1 DEF Goto
      <4> QED
        BY <1>1, <1>2, <2>1, <4>4, <4>5 DEF EarnedOutcome, Finalize, store
    <3> QED
      BY <3>2, <3>3
  <2>2. CASE Finalize(h) /\ decided' = [decided EXCEPT ![h] = Outcome(step)]
    <3>1. Outcome(step) = "completed" => \A s \in Step : step[s].status = "completed"
      BY DEF Outcome
    <3>2. Outcome(step) = "completed" => succeeded = Step
      BY <1>1, <3>1 DEF EarnedRecords, Earned
    <3>3. decided'[h] = Outcome(step)
      BY <1>4, <2>2
    <3>4. \A g \in Holder \ {h} : decided'[g] = decided[g] /\ pc'[g] = pc[g]
      BY <1>4, <2>2 DEF Finalize, Goto
    <3> HIDE DEF Outcome
    <3> QED
      BY <1>1, <1>2, <2>2, <3>2, <3>3, <3>4 DEF EarnedOutcome, Finalize, store
  <2>3. CASE AnnounceRun(h)
    <3>1. pc[h] = "announce" /\ \A g \in Holder \ {h} : pc'[g] = pc[g]
      BY <1>4, <2>3 DEF AnnounceRun, At, Goto
    <3> QED
      BY <1>1, <1>2, <2>3, <3>1 DEF EarnedOutcome, AnnounceRun, store, local
  <2>4. CASE SaveRun(h)
    <3>1. pc[h] = "save" /\ pc'[h] = "exit" /\ \A g \in Holder \ {h} : pc'[g] = pc[g]
      BY <1>4, <2>4 DEF SaveRun, At, Goto
    <3>2. run' = "completed" => succeeded = Step
      BY <1>1, <2>4, <3>1 DEF EarnedOutcome, SaveRun
    <3> QED
      BY <1>1, <1>2, <2>4, <3>1, <3>2 DEF EarnedOutcome, SaveRun, local
  <2>5. Finalize(h) => \/ UNCHANGED decided
                       \/ decided' = [decided EXCEPT ![h] = Outcome(step)]
    BY DEF Finalize
  <2> QED
    BY <2>1, <2>2, <2>3, <2>4, <2>5
<1> QED
  BY <1>1, <1>2, <1>3, <1>5, RecordsStayEarned, WorkStaysEarned DEF NothingUnearned

\* A renewal carries a record that was read, and writes it back.
LEMMA RenewEarned ==
  ASSUME Typed, Typed', NothingUnearned, NEW h \in Holder,
         RenewOwned(h) \/ RenewTick(h)
  PROVE  NothingUnearned'
<1>1. EarnedRecords /\ EarnedWork /\ EarnedOutcome
  BY DEF NothingUnearned
<1>2. UNCHANGED <<step, view, succeeded>> /\ renewal \in [Holder -> Renewal]
  BY DEF RenewOwned, RenewTick, store, history, Typed, TypeOK, LocalTypeOK
<1>3. UNCHANGED renewal \/
      \E s \in Step : renewal' = [renewal EXCEPT ![h] = [step |-> s, rec |-> step[s]]]
  <2>1. OwnRunning(h) \in SUBSET Step /\ Ticking(h) \in SUBSET Step
    BY DEF OwnRunning, WithStatus, Ticking, Typed, TypeOK, LocalTypeOK
  <2> QED
    BY <2>1, FirstIn DEF RenewOwned, RenewTick
<1>4. EarnedRecords'
  <2>1. CASE UNCHANGED renewal
    BY <1>1, <1>2, <2>1, RecordsStayEarned
  <2>2. ASSUME NEW s \in Step,
               renewal' = [renewal EXCEPT ![h] = [step |-> s, rec |-> step[s]]]
        PROVE  EarnedRecords'
    <3>1. \A g \in Holder : \/ renewal'[g] = renewal[g]
                            \/ renewal'[g] = [step |-> s, rec |-> step[s]]
      BY <1>2, <2>2
    <3> QED
      BY <1>1, <1>2, <3>1 DEF EarnedRecords, Earned
  <2> QED
    BY <1>3, <2>1, <2>2
<1>5. EarnedWork'
  BY <1>1, WorkStaysEarned DEF RenewOwned, RenewTick, store, history
<1>6. EarnedOutcome'
  <2>1. CASE RenewTick(h)
    BY <1>1, <2>1, OutcomeStaysEarned DEF RenewTick, store, history
  <2>2. CASE RenewOwned(h)
    <3>1. PICK p \in {"renewing", "plan"} : Goto(h, p)
      BY <2>2 DEF RenewOwned
    <3> QED
      BY <1>1, <2>2, <3>1, MoveKeepsOutcome DEF RenewOwned, store, history
  <2> QED
    BY <2>1, <2>2
<1> QED
  BY <1>4, <1>5, <1>6 DEF NothingUnearned

\* A renewal writes back a record that was earned when it was read.
LEMMA RenewWriteEarned ==
  ASSUME Typed, Typed', NothingUnearned, NEW h \in Holder, RenewWrite(h)
  PROVE  NothingUnearned'
<1>1. EarnedRecords /\ EarnedWork /\ EarnedOutcome
  BY DEF NothingUnearned
<1>2. renewal \in [Holder -> Renewal] /\ renewal[h] \in [step: Step, rec: StepRecord]
  BY DEF RenewWrite, Typed, TypeOK, LocalTypeOK, Renewal
<1>3. UNCHANGED <<view, succeeded>>
  BY DEF RenewWrite, history
<1>4. EarnedRecords'
  <2>1. Earned(renewal[h].step, renewal[h].rec)
    BY <1>1 DEF RenewWrite, EarnedRecords
  <2>2. \A t \in Step : Earned(t, step[t])'
    BY <1>1, <1>2, <1>3, <2>1, WrittenRecordEarned DEF RenewWrite
  <2>3. \A g \in Holder : renewal'[g] # NoRenewal => renewal'[g] = renewal[g]
    BY <1>2 DEF RenewWrite
  <2> QED
    BY <1>1, <1>3, <2>2, <2>3 DEF EarnedRecords, Earned
<1>5. EarnedWork'
  BY <1>1, WorkStaysEarned DEF RenewWrite, history
<1>6. EarnedOutcome'
  <2>1. CASE UNCHANGED pc
    BY <1>1, <2>1, OutcomeStaysEarned DEF RenewWrite, history
  <2>2. CASE Goto(h, "exit")
    BY <1>1, <2>2, MoveKeepsOutcome DEF RenewWrite, history
  <2> QED
    BY <2>1, <2>2 DEF RenewWrite
<1> QED
  BY <1>4, <1>5, <1>6 DEF NothingUnearned

\* A pass plans steps it read as ready.
LEMMA PlanEarned ==
  ASSUME Typed, Typed', NothingUnearned, NEW h \in Holder, Plan(h)
  PROVE  NothingUnearned'
<1>1. EarnedRecords /\ EarnedWork /\ EarnedOutcome
  BY DEF NothingUnearned
<1>2. queue \in [Holder -> SUBSET Step]
  BY DEF Typed, TypeOK, LocalTypeOK
<1>3. EarnedRecords'
  BY <1>1, RecordsStayEarned DEF Plan, store, history
<1>4. EarnedWork'
  <2>1. \A s \in FirstOf(Planned(h), Slots(h)) : Deps[s] \subseteq succeeded
    <3>1. \A s \in FirstOf(Planned(h), Slots(h)) : s \in Step /\ view[h][s].status = "ready"
      BY DEF FirstOf, Planned, Runnable, WithStatus
    <3> QED
      BY <1>1, <3>1 DEF EarnedRecords, Earned
  <2>2. \A g \in Holder : \/ queue'[g] = queue[g]
                          \/ queue'[g] = FirstOf(Planned(h), Slots(h))
    BY <1>2 DEF Plan
  <2>3. UNCHANGED <<attempt, launched, succeeded, execs, live>>
    BY DEF Plan, store, history
  <2> HIDE DEF FirstOf
  <2> QED
    BY <1>1, <2>1, <2>2, <2>3 DEF EarnedWork
<1>5. PICK p \in {"exit", "idle", "start"} : Goto(h, p)
  BY DEF Plan, AfterDrain
<1>6. EarnedOutcome'
  BY <1>1, <1>5, MoveKeepsOutcome DEF Plan, store, history
<1> QED
  BY <1>3, <1>4, <1>6 DEF NothingUnearned

\* An attempt is opened, and its lease taken, for a step that was planned.
LEMMA OpenEarned ==
  ASSUME Typed, Typed', NothingUnearned, NEW h \in Holder, OpenAttempt(h) \/ TakeLease(h)
  PROVE  NothingUnearned'
<1> DEFINE s == First(queue[h])
           n == number[h][s]
<1>1. EarnedRecords /\ EarnedWork /\ EarnedOutcome
  BY DEF NothingUnearned
<1>2. s \in queue[h] /\ s \in Step
  BY StepInHand DEF OpenAttempt, TakeLease, At, StartingAt
<1>3. Deps[s] \subseteq succeeded
  BY <1>1, <1>2 DEF EarnedWork
<1>4. UNCHANGED <<launched, succeeded, view, queue, execs, live, decided, run, renewal>>
  BY DEF OpenAttempt, TakeLease, history, local
<1>5. EarnedRecords'
  <2>1. CASE OpenAttempt(h)
    BY <1>1, <1>4, <2>1, RecordsStayEarned DEF OpenAttempt
  <2>2. CASE TakeLease(h)
    <3> DEFINE r == [status |-> "running", lease |-> h, latest |-> n]
    <3>1. Earned(s, r)
      BY <1>3 DEF Earned
    <3>2. step' = [step EXCEPT ![s] = r]
      BY <2>2 DEF TakeLease
    <3> HIDE DEF s, r
    <3> QED
      BY <1>1, <1>2, <1>4, <3>1, <3>2, WriteKeepsRecords
  <2> QED
    BY <2>1, <2>2
<1>6. EarnedWork'
  <2>1. CASE OpenAttempt(h)
    <3>1. /\ attempt \in [Step -> Seq(AttemptState)] /\ n \in Nat
          /\ attempt[s] \in Seq(AttemptState)
      BY <1>2 DEF Typed, TypeOK, StoreTypeOK, LocalTypeOK
    <3>2. \A t \in Step \ {s} : attempt'[t] = attempt[t]
      BY <2>1, <3>1 DEF OpenAttempt
    <3>3. \A k \in DOMAIN attempt'[s] : attempt'[s][k] = "success" =>
            k \in DOMAIN attempt[s] /\ attempt[s][k] = "success"
      <4>1. attempt'[s] = IF n <= Len(attempt[s]) THEN [attempt[s] EXCEPT ![n] = "open"]
                          ELSE Append(attempt[s], "open")
        BY <1>2, <2>1, <3>1 DEF OpenAttempt
      <4> HIDE DEF s, n
      <4>2. CASE n <= Len(attempt[s])
        BY <3>1, <4>1, <4>2, LenProperties
      <4>3. CASE ~(n <= Len(attempt[s]))
        BY <3>1, <4>1, <4>3, LenProperties, AppendProperties
      <4> QED
        BY <4>2, <4>3
    <3> HIDE DEF s, n
    <3> QED
      BY <1>1, <1>2, <1>3, <1>4, <3>2, <3>3 DEF EarnedWork
  <2>2. CASE TakeLease(h)
    BY <1>1, <1>4, <2>2, WorkStaysEarned DEF TakeLease
  <2> QED
    BY <2>1, <2>2
<1>7. PICK p \in {"lease", "launch"} : Goto(h, p)
  BY DEF OpenAttempt, TakeLease
<1>8. EarnedOutcome'
  BY <1>1, <1>4, <1>7, MoveKeepsOutcome
<1> QED
  BY <1>5, <1>6, <1>8 DEF NothingUnearned

\* A backend is started behind dependencies that succeeded.
LEMMA LaunchEarned ==
  ASSUME Typed, Typed', NothingUnearned, NEW h \in Holder, Launch(h)
  PROVE  NothingUnearned'
<1> DEFINE s == First(queue[h])
<1>1. EarnedRecords /\ EarnedWork /\ EarnedOutcome
  BY DEF NothingUnearned
<1>2. s \in queue[h] /\ s \in Step
  BY StepInHand DEF Launch, At, StartingAt
<1>3. Deps[s] \subseteq succeeded
  BY <1>1, <1>2 DEF EarnedWork
<1>4. EarnedRecords'
  BY <1>1, RecordsStayEarned DEF Launch, store
<1>5. EarnedWork'
  <2>1. UNCHANGED <<attempt, succeeded>>
    BY DEF Launch, store
  <2>2. /\ launched \in [Step -> SUBSET Nat]
        /\ queue \in [Holder -> SUBSET Step] /\ execs \in [Holder -> SUBSET Step]
        /\ live \in [Holder -> [Step -> LiveState]]
    BY DEF Typed, TypeOK, StoreTypeOK, LocalTypeOK
  <2>3. \A t \in Step \ {s} : launched'[t] = launched[t]
    BY <2>2 DEF Launch
  <2>4. /\ queue' = [queue EXCEPT ![h] = @ \ {s}]
        /\ execs' = [execs EXCEPT ![h] = @ \cup {s}]
        /\ \E a \in {"going", "error"} : live' = [live EXCEPT ![h][s] = a]
    BY DEF Launch
  <2> HIDE DEF s
  <2>5. \A g \in Holder : queue'[g] \cup execs'[g] \subseteq queue[g] \cup execs[g] \cup {s}
    BY <2>2, <2>4
  <2>6. \A g \in Holder : \A t \in Step :
          live'[g][t] = "success" => live[g][t] = "success"
    BY <2>2, <2>4
  <2> QED
    BY <1>1, <1>2, <1>3, <2>1, <2>3, <2>5, <2>6 DEF EarnedWork
<1>6. EarnedOutcome'
  <2>1. Goto(h, "start") /\ UNCHANGED <<run, decided, succeeded>>
    BY DEF Launch, store
  <2> QED
    BY <1>1, <2>1, MoveKeepsOutcome
<1> QED
  BY <1>4, <1>5, <1>6 DEF NothingUnearned

\* The recorded result is the one the backend returned.
LEMMA ResultEarned ==
  ASSUME Typed, Typed', NothingUnearned, NEW h \in Holder,
         CancelConfirmed(h) \/ RecordResult(h)
  PROVE  NothingUnearned'
<1> DEFINE s == First(execs[h])
<1>1. EarnedRecords /\ EarnedWork /\ EarnedOutcome
  BY DEF NothingUnearned
<1>2. s \in execs[h] /\ s \in Step
  BY StepInHand DEF CancelConfirmed, RecordResult, At, FinishingAt
<1>3. UNCHANGED <<run, step, launched, succeeded, view, queue, execs, decided, renewal>>
  BY DEF CancelConfirmed, RecordResult, store, history
<1>4. live \in [Holder -> [Step -> LiveState]]
  BY DEF Typed, TypeOK, LocalTypeOK
<1>5. EarnedRecords'
  BY <1>1, <1>3, RecordsStayEarned
<1>6. EarnedWork'
  <2>1. CASE CancelConfirmed(h)
    <3>1. live' = [live EXCEPT ![h][s] = "cancelled"] /\ UNCHANGED attempt
      BY <2>1 DEF CancelConfirmed, store
    <3> HIDE DEF s
    <3>2. \A g \in Holder : \A t \in Step :
            live'[g][t] = "success" => live[g][t] = "success"
      BY <1>4, <3>1
    <3> QED
      BY <1>1, <1>3, <3>1, <3>2, LessWorkStaysEarned
  <2>2. CASE RecordResult(h)
    <3> DEFINE n == number[h][s]
               r == IF live[h][s] = "error" THEN "failed" ELSE live[h][s]
    <3>1. attempt' = [attempt EXCEPT ![s][n] = r] /\ live' = [live EXCEPT ![h][s] = r]
      BY <2>2 DEF RecordResult
    <3>2. r = "success" => live[h][s] = "success" /\ s \in succeeded
      BY <1>1, <1>2 DEF EarnedWork
    <3>3. Deps[s] \subseteq succeeded
      BY <1>1, <1>2 DEF EarnedWork
    <3>4. attempt \in [Step -> Seq(AttemptState)] /\ attempt[s] \in Seq(AttemptState)
      BY <1>2 DEF Typed, TypeOK, StoreTypeOK
    <3> HIDE DEF s, n, r
    <3>5. \A g \in Holder : \A t \in Step :
            live'[g][t] = "success" => live[g][t] = "success"
      BY <1>4, <3>1, <3>2
    <3>6. \A t \in Step \ {s} : attempt'[t] = attempt[t]
      BY <3>1, <3>4
    <3>7. \A k \in DOMAIN attempt'[s] : attempt'[s][k] = "success" =>
            s \in succeeded \/ (k \in DOMAIN attempt[s] /\ attempt[s][k] = "success")
      <4>1. attempt'[s] = [attempt[s] EXCEPT ![n] = r]
        BY <1>2, <3>1, <3>4
      <4> QED
        BY <3>2, <4>1
    <3> QED
      BY <1>1, <1>2, <1>3, <3>3, <3>5, <3>6, <3>7 DEF EarnedWork
  <2> QED
    BY <2>1, <2>2
<1>7. PICK p \in {"record", "settle"} : Goto(h, p)
  BY DEF CancelConfirmed, RecordResult
<1>8. EarnedOutcome'
  BY <1>1, <1>3, <1>7, MoveKeepsOutcome
<1> QED
  BY <1>5, <1>6, <1>8 DEF NothingUnearned

\* An execution that is over, or left running, adds no claim of success.
LEMMA ForgetEarned ==
  ASSUME Typed, EarnedWork, NEW h \in Holder, NEW s \in Step, Forget(h, s),
         UNCHANGED <<attempt, launched, succeeded, queue>>
  PROVE  EarnedWork'
<1>1. execs \in [Holder -> SUBSET Step] /\ live \in [Holder -> [Step -> LiveState]]
  BY DEF Typed, TypeOK, LocalTypeOK
<1>2. \A g \in Holder : execs'[g] \subseteq execs[g]
  BY <1>1 DEF Forget
<1>3. \A g \in Holder : \A t \in Step : live'[g][t] = "success" => live[g][t] = "success"
  BY <1>1 DEF Forget
<1>4. \A g \in Holder : queue'[g] \cup execs'[g] \subseteq queue[g] \cup execs[g]
  BY <1>2
<1> QED
  BY <1>3, <1>4, LessWorkStaysEarned

\* An execution that is left running claims nothing.
LEMMA PreserveRunningEarned ==
  ASSUME Typed, Typed', NothingUnearned, NEW h \in Holder, PreserveRunning(h)
  PROVE  NothingUnearned'
<1>1. EarnedRecords /\ EarnedWork /\ EarnedOutcome
  BY DEF NothingUnearned
<1>2. First(execs[h]) \in Step
  BY StepInHand DEF PreserveRunning, At, FinishingAt
<1>3. EarnedRecords'
  BY <1>1, RecordsStayEarned DEF PreserveRunning, store, history
<1>4. EarnedWork'
  BY <1>1, <1>2, ForgetEarned DEF PreserveRunning, store, history
<1>5. Goto(h, "await") /\ UNCHANGED <<run, decided, succeeded>>
  BY DEF PreserveRunning, store, history
<1>6. EarnedOutcome'
  BY <1>1, <1>5, MoveKeepsOutcome
<1> QED
  BY <1>3, <1>4, <1>6 DEF NothingUnearned

\* The record of a step that ends is written from the result in memory.
LEMMA SettleEarned ==
  ASSUME Typed, Typed', NothingUnearned, NEW h \in Holder, Settle(h)
  PROVE  NothingUnearned'
<1> DEFINE s == First(execs[h])
           n == number[h][s]
           status == Transition(s, n, live[h][s])
           r == [status |-> status, lease |-> NoHolder, latest |-> n]
<1>1. EarnedRecords /\ EarnedWork /\ EarnedOutcome
  BY DEF NothingUnearned
<1>2. s \in execs[h] /\ s \in Step
  BY StepInHand DEF Settle, At, FinishingAt
<1>3. n \in Nat /\ live[h][s] \in Result
  BY <1>2 DEF Typed, TypeOK, LocalTypeOK, InHand, Settle, At
<1>4. Earned(s, r)
  <2>1. Deps[s] \subseteq succeeded
    BY <1>1, <1>2 DEF EarnedWork
  <2>2. status = "completed" => s \in succeeded
    BY <1>1, <1>2, <1>3, TransitionTyped DEF EarnedWork
  <2> QED
    BY <2>1, <2>2 DEF Earned
<1>5. step' = [step EXCEPT ![s] = r] /\ Forget(h, s)
  BY DEF Settle, Write
<1>6. UNCHANGED <<run, attempt, launched, succeeded, view, queue, decided, renewal>>
  BY DEF Settle, history
<1>7. Goto(h, "await")
  BY DEF Settle
<1> HIDE DEF s, n, status, r
<1>8. EarnedRecords'
  BY <1>1, <1>2, <1>4, <1>5, <1>6, WriteKeepsRecords
<1>9. EarnedWork'
  BY <1>1, <1>2, <1>5, <1>6, ForgetEarned
<1>10. EarnedOutcome'
  BY <1>1, <1>6, <1>7, MoveKeepsOutcome
<1> QED
  BY <1>8, <1>9, <1>10 DEF NothingUnearned

\* A success that a backend returns is work that is done.
LEMMA BackendReturnsEarned ==
  ASSUME Typed, Typed', NothingUnearned,
         NEW h \in Holder, NEW s \in Step, NEW r \in Answers, BackendReturns(h, s, r)
  PROVE  NothingUnearned'
<1>1. EarnedRecords /\ EarnedWork /\ EarnedOutcome
  BY DEF NothingUnearned
<1>2. succeeded \subseteq succeeded'
  BY DEF BackendReturns
<1>3. EarnedRecords'
  BY <1>1, <1>2, RecordsStayEarned DEF BackendReturns, store
<1>4. EarnedWork'
  <2>1. live \in [Holder -> [Step -> LiveState]]
    BY DEF Typed, TypeOK, LocalTypeOK
  <2>2. ASSUME NEW g \in Holder, NEW t \in Step, live'[g][t] = "success"
        PROVE  live[g][t] = "success" \/ t \in succeeded'
    BY <2>1, <2>2 DEF BackendReturns
  <2>3. UNCHANGED <<attempt, launched, queue, execs>>
    BY DEF BackendReturns, store
  <2> QED
    BY <1>1, <1>2, <2>2, <2>3 DEF EarnedWork
<1>5. EarnedOutcome'
  BY <1>1, <1>2, OutcomeStaysEarned DEF BackendReturns, store
<1> QED
  BY <1>3, <1>4, <1>5 DEF NothingUnearned

\* A process that is gone claims nothing.
LEMMA VanishEarned ==
  ASSUME Typed, Typed', NothingUnearned, NEW h \in Holder, Exit(h) \/ Crash(h)
  PROVE  NothingUnearned'
<1>1. EarnedRecords /\ EarnedWork /\ EarnedOutcome
  BY DEF NothingUnearned
<1>2. Vanish(h) /\ UNCHANGED <<run, step, attempt, launched, succeeded>>
  BY DEF Exit, Crash, store, history
<1>3. /\ view \in [Holder -> [Step -> StepRecord]] /\ renewal \in [Holder -> Renewal]
      /\ queue \in [Holder -> SUBSET Step] /\ execs \in [Holder -> SUBSET Step]
      /\ live \in [Holder -> [Step -> LiveState]]
      /\ pc \in [Holder -> Place] /\ decided \in [Holder -> RunStatus]
  BY DEF Typed, TypeOK, LocalTypeOK
<1>4. EarnedRecords'
  <2>1. \A g \in Holder : view'[g] = view[g] \/ view'[g] = InitialRecords
    BY <1>2, <1>3 DEF Vanish
  <2>2. \A g \in Holder : renewal'[g] = renewal[g] \/ renewal'[g] = NoRenewal
    BY <1>2, <1>3 DEF Vanish
  <2>3. \A t \in Step : InitialRecords[t].status = "pending"
    BY DEF InitialRecords
  <2> QED
    BY <1>1, <1>2, <2>1, <2>2, <2>3 DEF EarnedRecords, Earned
<1>5. EarnedWork'
  <2>1. \A g \in Holder : queue'[g] \cup execs'[g] \subseteq queue[g] \cup execs[g]
    BY <1>2, <1>3 DEF Vanish
  <2>2. \A g \in Holder : \A t \in Step :
          live'[g][t] = "success" => live[g][t] = "success"
    BY <1>2, <1>3 DEF Vanish
  <2> QED
    BY <1>1, <1>2, <2>1, <2>2, LessWorkStaysEarned
<1>6. EarnedOutcome'
  <2>1. pc'[h] = "stopped"
    BY <1>2, <1>3 DEF Vanish, Goto
  <2>2. \A g \in Holder \ {h} : pc'[g] = pc[g] /\ decided'[g] = decided[g]
    BY <1>2, <1>3 DEF Vanish, Goto
  <2> QED
    BY <1>1, <1>2, <2>1, <2>2 DEF EarnedOutcome
<1> QED
  BY <1>4, <1>5, <1>6 DEF NothingUnearned

------------------------------------------------------------------------------

\* Whatever is on disk, in memory or on its way between the two claims only
\* what the backends have done (lib/durable-runtime/scheduler.ts).
THEOREM NothingIsUnearned == Spec => []NothingUnearned
<1>1. Init => NothingUnearned
  <2> SUFFICES ASSUME Init PROVE NothingUnearned
    OBVIOUS
  <2>1. \A t \in Step : InitialRecords[t].status = "pending"
    BY DEF InitialRecords
  <2>2. EarnedRecords
    BY <2>1 DEF Init, EarnedRecords, Earned
  <2>3. EarnedWork /\ EarnedOutcome
    BY DEF Init, EarnedWork, EarnedOutcome
  <2> QED
    BY <2>2, <2>3 DEF NothingUnearned
<1>2. Typed /\ Typed' /\ NothingUnearned /\ [Next]_vars => NothingUnearned'
  <2> SUFFICES ASSUME Typed, Typed', NothingUnearned, [Next]_vars
               PROVE  NothingUnearned'
    OBVIOUS
  <2>1. CASE UNCHANGED vars
    BY <2>1 DEF vars, store, log, history, local, NothingUnearned, EarnedRecords,
       EarnedWork, EarnedOutcome, Earned
  <2>2. ASSUME NEW h \in Holder, Proceed(h) PROVE NothingUnearned'
    BY <2>2, LoadEarned, MarkReadyEarned, QuietEarned, PromoteEarned,
       GuardsEarned, FinalizeEarned, RenewEarned, PlanEarned, OpenEarned,
       LaunchEarned, ResultEarned, PreserveRunningEarned, SettleEarned,
       VanishEarned DEF Proceed
  <2>3. ASSUME NEW h \in Holder,
               RenewTick(h) \/ RenewWrite(h) \/ Abort(h) \/ Crash(h) \/ Resume(h)
        PROVE  NothingUnearned'
    BY <2>3, RenewEarned, RenewWriteEarned, QuietEarned, VanishEarned
  <2>4. ASSUME NEW h \in Holder, NEW s \in Step, NEW r \in Answers,
               BackendReturns(h, s, r)
        PROVE  NothingUnearned'
    BY <2>4, BackendReturnsEarned
  <2>5. ASSUME NEW s \in Step, HeartbeatAges(s) PROVE NothingUnearned'
    <3>1. /\ EarnedRecords' /\ EarnedWork' /\ EarnedOutcome'
      BY <2>5, RecordsStayEarned, WorkStaysEarned, OutcomeStaysEarned
      DEF HeartbeatAges, NothingUnearned, history, local
    <3> QED
      BY <3>1 DEF NothingUnearned
  <2> QED
    BY <2>1, <2>2, <2>3, <2>4, <2>5 DEF Next
<1> QED
  BY <1>1, <1>2, TypeCorrect, PTL DEF Spec

\* A backend is started only after those of its dependencies returned success,
\* whatever crashes and whoever else runs the graph (dependenciesCompleted).
THEOREM DependentsRunAfterSuccess == Spec => []DependentsAfterSuccess
<1>1. NothingUnearned => DependentsAfterSuccess
  BY DEF NothingUnearned, EarnedWork, DependentsAfterSuccess
<1> QED
  BY <1>1, NothingIsUnearned, PTL

\* A run is saved as completed only when every backend returned success
\* (finalizeRun).
THEOREM CompletionIsEarned == Spec => []CompletedMeansAllSucceeded
<1>1. NothingUnearned => CompletedMeansAllSucceeded
  BY DEF NothingUnearned, EarnedOutcome, CompletedMeansAllSucceeded
<1> QED
  BY <1>1, NothingIsUnearned, PTL

==============================================================================
