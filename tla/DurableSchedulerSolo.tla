------------------------ MODULE DurableSchedulerSolo ------------------------
(* The durable scheduler when a lock lets one process at a time run it: it *)
(* implements the step graph, repeats no work, keeps the work that may     *)
(* change the worktree alone and announces one outcome.  For every graph,  *)
(* every policy, wherever the processes crash and resume.                  *)
EXTENDS DurableSchedulerProofs

------------------------------------------------------------------------------
(* The inductive invariant: what the process that is awake knows and holds *)
(* agrees with the files, at every place of its pass.                      *)

\* At most one process is in a pass, and the others hold nothing.
Resting(h) ==
  /\ pc[h] = "stopped"
  /\ queue[h] = {} /\ execs[h] = {} /\ emit[h] = {} /\ renewal[h] = NoRenewal

OneAwake ==
  /\ \A g, h \in Holder : pc[g] # "stopped" /\ pc[h] # "stopped" => g = h
  /\ \A h \in Holder : pc[h] = "stopped" => Resting(h)

Loops == {"promote", "committed", "stale", "unknown"}
Starting == {"start", "open", "lease", "launch"}
Finishing == {"await", "wait", "cancel", "preserve", "record", "settle"}

\* What a pass knows of the records is what they hold, or, in a loop, what
\* they hold of the steps the loop has yet to examine.
ViewCurrent(h) ==
  /\ changed[h] => pc[h] \in Loops
  /\ \/ pc[h] \in {"reconcile", "recheck", "renew", "plan"}
     \/ pc[h] \in Loops /\ ~changed[h]
     \/ pc[h] = "finalize" /\ after[h] \in {"committed", "renew"}
     => view[h] = step
  /\ pc[h] \in Loops => \A s \in todo[h] : view[h][s] = step[s]

\* The steps in the hand of a process are its own.
Own(h, s) ==
  /\ step[s].status = "running" /\ step[s].lease = h
  /\ step[s].latest = number[h][s]

WorkInHand(h) ==
  /\ queue[h] # {} => pc[h] \in Starting
  /\ execs[h] # {} => pc[h] \in Starting \cup Finishing
  /\ queue[h] \cap execs[h] = {}
  /\ \A s \in execs[h] : Own(h, s)
  /\ \A s \in queue[h] :
       step[s].status = "ready" \/ (pc[h] = "launch" /\ s = First(queue[h]))
  /\ pc[h] = "launch" => Own(h, First(queue[h]))

\* The attempt that is being opened is a new one; the answer that is being
\* settled is the one that was recorded.
NumbersFit(h) ==
  LET s == First(queue[h])
      e == First(execs[h])
  IN  /\ pc[h] = "open" => number[h][s] = Len(attempt[s]) + 1
      /\ pc[h] = "lease" =>
           /\ number[h][s] = Len(attempt[s]) /\ number[h][s] # 0
           /\ attempt[s][number[h][s]] = "open"
      /\ pc[h] = "settle" => attempt[e][number[h][e]] = live[h][e]

RenewalCurrent(h) ==
  /\ renewal[h] # NoRenewal =>
       /\ step[renewal[h].step] = renewal[h].rec
       /\ renewal[h].step \in execs[h] \/ pc[h] = "renewing"
  /\ pc[h] = "settle" => renewal[h].step # First(execs[h])

\* A process decides what the records say, while the run is not over.
Decides(h) ==
  /\ pc[h] \notin {"idle", "exit", "stopped"} => run = "running"
  /\ pc[h] \in {"announce", "save"} =>
       decided[h] = Outcome(step) /\ decided[h] # "running"
  /\ pc[h] = "save" => decided[h] \in outcomes

Announces(h) ==
  \A s \in Step : <<"step_end", s>> \in emit[h] => step[s].status \in EndStatus

Working == WithStatus(step, "running")

\* There is room for what is planned.
HasRoom(h) ==
  pc[h] \in Starting =>
    /\ Cardinality(Working) + Cardinality(queue[h])
         <= IF pc[h] = "launch" THEN MaxParallel + 1 ELSE MaxParallel
    /\ SharedWorktree =>
         \/ queue[h] \subseteq SafeToShare
         \/ /\ \A s, t \in queue[h] : s = t
            /\ (pc[h] = "launch" \/ Working = {})

InOrder(h) ==
  /\ ViewCurrent(h)
  /\ WorkInHand(h)
  /\ NumbersFit(h)
  /\ RenewalCurrent(h)
  /\ Decides(h)
  /\ Announces(h)
  /\ HasRoom(h)

\* Attempt m of step s asks for another one, and there may be one.
Repeatable(s, m) == attempt[s][m] = "retry" /\ m < MaxAttempts[s]

\* Every launched attempt but the last asks for another one.
Lifecycle(s) ==
  /\ launched[s] \subseteq DOMAIN attempt[s]
  /\ step[s].status = "pending" => attempt[s] = <<>> /\ step[s].latest = 0
  /\ step[s].status = "ready" =>
       /\ step[s].latest # 0 =>
            step[s].latest \in DOMAIN attempt[s] /\ Repeatable(s, step[s].latest)
       /\ step[s].latest = 0 => \A n \in DOMAIN attempt[s] : attempt[s][n] = "open"
       /\ \A m \in launched[s] : Repeatable(s, m)
  /\ step[s].status = "running" =>
       /\ step[s].latest \in DOMAIN attempt[s]
       /\ \A m \in launched[s] : m # step[s].latest => m < step[s].latest /\ Repeatable(s, m)
  /\ \E k \in 1..(Len(attempt[s]) + 1) :
       \A m \in launched[s] : m # k => m < k /\ Repeatable(s, m)

\* The outcome o will be the only one, whatever still runs.
Settled(o) ==
  \/ o = "blocked" /\ \E s \in Step : step[s].status = "blocked"
  \/ (\A s \in Step : step[s].status \in EndStatus) /\ o = Outcome(step)

OutcomesSettled ==
  /\ \A o \in outcomes : Settled(o)
  /\ run # "running" => run \in outcomes

\* The files agree with each other.
FilesInOrder ==
  /\ \A s \in Step : Lifecycle(s)
  /\ OutcomesSettled
  /\ EventsFollowRecords
  /\ MutableAlone

SoloInv == OneAwake /\ FilesInOrder /\ \A h \in Holder : InOrder(h)

------------------------------------------------------------------------------
(* Frames: the process that moves is the only one to look at, and of the   *)
(* files only what its step writes.                                        *)

\* The other processes keep what the invariant reads of them.
OnlyMoves(h) ==
  \A g \in Holder : g # h =>
    /\ pc'[g] = pc[g] /\ changed'[g] = changed[g] /\ renewal'[g] = renewal[g]
    /\ queue'[g] = queue[g] /\ execs'[g] = execs[g] /\ emit'[g] = emit[g]

\* Steps are finitely many.
LEMMA StepsFinite ==
  ASSUME NEW S \in SUBSET Step
  PROVE  IsFiniteSet(S) /\ Cardinality(S) \in Nat
<1>1. IsFiniteSet(Step)
  BY FS_Interval, SchedulerAssumption DEF Step
<1> QED
  BY <1>1, FS_Subset, FS_CardinalityType

\* A process that rests is in order whatever the files hold.
LEMMA RestIsOrder ==
  ASSUME NEW g \in Holder, Resting(g)', ~changed'[g]
  PROVE  InOrder(g)'
<1> USE DEF Resting
<1>1. ViewCurrent(g)' /\ Decides(g)' /\ Announces(g)'
  BY DEF ViewCurrent, Decides, Announces, Loops
<1>2. WorkInHand(g)' /\ NumbersFit(g)' /\ RenewalCurrent(g)' /\ HasRoom(g)'
  BY DEF WorkInHand, NumbersFit, RenewalCurrent, HasRoom, Starting
<1> QED
  BY <1>1, <1>2 DEF InOrder

\* Of the invariant a move has to show what it says of the mover and the files.
LEMMA OnlyMoverMatters ==
  ASSUME SoloInv, NEW h \in Holder, pc[h] # "stopped", OnlyMoves(h),
         FilesInOrder', InOrder(h)', pc'[h] = "stopped" => Resting(h)'
  PROVE  SoloInv'
<1>1. ASSUME NEW g \in Holder, g # h
      PROVE  Resting(g)' /\ InOrder(g)'
  <2>1. Resting(g) /\ ~changed[g]
    BY <1>1 DEF SoloInv, OneAwake, InOrder, ViewCurrent, Loops, Resting
  <2>2. Resting(g)' /\ ~changed'[g]
    BY <1>1, <2>1 DEF OnlyMoves, Resting
  <2> QED
    BY <2>2, RestIsOrder
<1>2. \A g \in Holder : g # h => pc'[g] = "stopped"
  BY <1>1 DEF Resting
<1> QED
  BY <1>1, <1>2 DEF OneAwake, SoloInv

\* A move of one process to another place of its pass.
LEMMA GotoMoves ==
  ASSUME Typed, NEW h \in Holder, NEW p, Goto(h, p)
  PROVE  pc'[h] = p /\ \A g \in Holder : g # h => pc'[g] = pc[g]
BY DEF Typed, TypeOK, LocalTypeOK, Goto

\* The outcome is read off the statuses.
LEMMA OutcomeOfStatuses ==
  ASSUME NEW v, NEW w, \A s \in Step : v[s].status = w[s].status
  PROVE  Outcome(v) = Outcome(w)
<1>1. {v[s].status : s \in Step} = {w[s].status : s \in Step}
  OBVIOUS
<1> QED
  BY <1>1 DEF Outcome

\* What is on disk stays in order as long as it is not written.
LEMMA FilesUnwritten ==
  ASSUME FilesInOrder, UNCHANGED <<run, step, attempt, ended, outcomes, launched>>
  PROVE  FilesInOrder'
<1>1. \A s \in Step : Lifecycle(s)'
  BY DEF FilesInOrder, Lifecycle, Repeatable
<1>2. OutcomesSettled' /\ EventsFollowRecords' /\ MutableAlone'
  BY DEF FilesInOrder, OutcomesSettled, EventsFollowRecords, MutableAlone, Settled
<1> QED
  BY <1>1, <1>2 DEF FilesInOrder

\* A record that says how a step ended is final: as long as only other
\* records are written, the outcomes and the events stay true.
LEMMA EndsAreFinal ==
  ASSUME Typed, FilesInOrder, UNCHANGED <<run, ended, outcomes>>,
         \A s \in Step : step[s].status \in EndStatus => step'[s].status = step[s].status
  PROVE  OutcomesSettled' /\ EventsFollowRecords'
<1>1. EventsFollowRecords'
  BY DEF FilesInOrder, EventsFollowRecords, Typed, TypeOK, StoreTypeOK
<1>2. ASSUME NEW o \in outcomes PROVE Settled(o)'
  <2>1. Settled(o)
    BY DEF FilesInOrder, OutcomesSettled
  <2>2. CASE o = "blocked" /\ \E s \in Step : step[s].status = "blocked"
    BY <2>2 DEF Settled, EndStatus
  <2>3. CASE (\A s \in Step : step[s].status \in EndStatus) /\ o = Outcome(step)
    <3>1. \A s \in Step : step'[s].status = step[s].status
      BY <2>3
    <3>2. Outcome(step') = Outcome(step)
      BY <3>1, OutcomeOfStatuses
    <3> QED
      BY <2>3, <3>1, <3>2 DEF Settled
  <2> QED
    BY <2>1, <2>2, <2>3 DEF Settled
<1> QED
  BY <1>1, <1>2 DEF FilesInOrder, OutcomesSettled

\* As long as no other step starts to run, the one that may change the worktree
\* stays alone.
LEMMA WorkersLeave ==
  ASSUME MutableAlone, NEW s \in Step, step'[s].status # "running",
         \A t \in Step : t # s => step'[t] = step[t]
  PROVE  MutableAlone'
<1> SUFFICES ASSUME SharedWorktree
             PROVE  Cardinality(WithStatus(step', "running") \ SafeToShare) <= 1
  BY DEF MutableAlone
<1>1. WithStatus(step', "running") \ SafeToShare \in SUBSET (Working \ SafeToShare)
  BY DEF WithStatus, Working
<1>2. Cardinality(Working \ SafeToShare) <= 1
  BY DEF MutableAlone, Working
<1>3. IsFiniteSet(Working \ SafeToShare)
  BY StepsFinite DEF Working, WithStatus
<1>4. /\ IsFiniteSet(WithStatus(step', "running") \ SafeToShare)
      /\ Cardinality(WithStatus(step', "running") \ SafeToShare)
           <= Cardinality(Working \ SafeToShare)
  BY <1>1, <1>3, FS_Subset
<1>5. /\ Cardinality(WithStatus(step', "running") \ SafeToShare) \in Nat
      /\ Cardinality(Working \ SafeToShare) \in Nat
  BY <1>3, <1>4, FS_CardinalityType
<1> QED
  BY <1>2, <1>4, <1>5

\* One record is written, of a step that has not ended.
LEMMA RecordWritten ==
  ASSUME Typed, FilesInOrder, NEW s \in Step, step[s].status \notin EndStatus,
         \A t \in Step : t # s => step'[t] = step[t],
         UNCHANGED <<run, attempt, ended, outcomes, launched>>,
         Lifecycle(s)', MutableAlone'
  PROVE  FilesInOrder'
<1>1. OutcomesSettled' /\ EventsFollowRecords'
  <2>1. \A t \in Step : step[t].status \in EndStatus => step'[t].status = step[t].status
    OBVIOUS
  <2> QED
    BY <2>1, EndsAreFinal
<1>2. ASSUME NEW t \in Step, t # s PROVE Lifecycle(t)'
  <2>1. Lifecycle(t) /\ step'[t] = step[t]
    BY <1>2 DEF FilesInOrder
  <2> QED
    BY <2>1 DEF Lifecycle, Repeatable
<1> QED
  BY <1>1, <1>2 DEF FilesInOrder

\* Outcomes that are settled are one.
LEMMA OneSettles ==
  ASSUME NEW o, Settled(o), NEW p, Settled(p)
  PROVE  o = p
<1>1. ASSUME \A s \in Step : step[s].status \in EndStatus,
             \E s \in Step : step[s].status = "blocked"
      PROVE  Outcome(step) = "blocked"
  <2> DEFINE statuses == {step[s].status : s \in Step}
  <2>1. statuses \subseteq EndStatus /\ "blocked" \in statuses
    BY <1>1
  <2>2. statuses # {"completed"}
    BY <2>1
  <2> QED
    BY <2>1, <2>2 DEF Outcome
<1> QED
  BY <1>1 DEF Settled

\* Where a process has nothing in hand.
LEMMA EmptyHanded ==
  ASSUME Typed, NEW h \in Holder, InOrder(h),
         pc[h] \notin Starting \cup Finishing \cup {"renewing"}
  PROVE  queue[h] = {} /\ execs[h] = {} /\ renewal[h] = NoRenewal
BY DEF InOrder, WorkInHand, RenewalCurrent

\* A process with nothing in hand has nothing in hand that could be wrong.
LEMMA EmptyHandedStays ==
  ASSUME NEW h \in Holder, queue'[h] = {}, execs'[h] = {}, renewal'[h] = NoRenewal,
         pc'[h] \notin Starting \cup Finishing
  PROVE  WorkInHand(h)' /\ NumbersFit(h)' /\ RenewalCurrent(h)' /\ HasRoom(h)'
BY DEF WorkInHand, NumbersFit, RenewalCurrent, HasRoom, Starting, Finishing

\* While a pass starts and finishes steps it decides nothing, and its view is
\* not read any more.
LEMMA BusyStays ==
  ASSUME NEW h \in Holder, ~changed'[h], run' = "running",
         pc'[h] \in Starting \cup Finishing
  PROVE  ViewCurrent(h)' /\ Decides(h)'
BY DEF ViewCurrent, Decides, Starting, Finishing, Loops

\* What is announced stays so when the records of ended steps do.
LEMMA AnnouncesStays ==
  ASSUME NEW h \in Holder, Announces(h), emit'[h] \subseteq emit[h],
         \A s \in Step : step[s].status \in EndStatus => step'[s].status = step[s].status
  PROVE  Announces(h)'
BY DEF Announces

------------------------------------------------------------------------------
(* The beginning of a pass and its loops.                                  *)

\* A move of a process that has nothing in hand and writes no record.
LEMMA QuietMove ==
  ASSUME Typed, SoloInv, NEW h \in Holder, OnlyMoves(h),
         pc[h] \notin Starting \cup Finishing \cup {"renewing", "stopped"},
         pc'[h] \notin Starting \cup Finishing \cup {"stopped"},
         UNCHANGED <<queue, execs, emit, renewal, step>>,
         FilesInOrder', ViewCurrent(h)', Decides(h)'
  PROVE  SoloInv'
<1>1. InOrder(h) /\ FilesInOrder
  BY DEF SoloInv
<1>2. queue[h] = {} /\ execs[h] = {} /\ renewal[h] = NoRenewal
  BY <1>1, EmptyHanded
<1>3. WorkInHand(h)' /\ NumbersFit(h)' /\ RenewalCurrent(h)' /\ HasRoom(h)'
  BY <1>2, EmptyHandedStays
<1>4. Announces(h)'
  BY <1>1 DEF InOrder, Announces
<1> QED
  BY <1>3, <1>4, OnlyMoverMatters DEF InOrder

\* Nor any other file.
LEMMA QuietPass ==
  ASSUME Typed, SoloInv, NEW h \in Holder, OnlyMoves(h),
         pc[h] \notin Starting \cup Finishing \cup {"renewing", "stopped"},
         pc'[h] \notin Starting \cup Finishing \cup {"stopped"},
         UNCHANGED <<queue, execs, emit, renewal, run, step, attempt, ended,
                     outcomes, launched>>,
         ViewCurrent(h)', Decides(h)'
  PROVE  SoloInv'
<1>1. FilesInOrder'
  BY FilesUnwritten DEF SoloInv
<1> QED
  BY <1>1, QuietMove

\* A pass writes the record of a step that has not ended, and not as running.
LEMMA WritePass ==
  ASSUME Typed, Typed', SoloInv, NEW h \in Holder, OnlyMoves(h),
         pc[h] \in {"reconcile", "recheck"} \cup Loops,
         NEW s \in Step, NEW r, NEW e, Write(h, s, r, e),
         step[s].status \notin EndStatus, r.status # "running",
         e = "step_end" => r.status \in EndStatus,
         UNCHANGED <<pc, queue, execs, renewal, run, attempt, ended, outcomes, launched>>,
         Lifecycle(s)', ViewCurrent(h)'
  PROVE  SoloInv'
<1>1. InOrder(h) /\ FilesInOrder
  BY DEF SoloInv
<1>2. pc[h] \notin Starting \cup Finishing \cup {"renewing", "stopped"}
  BY DEF Loops, Starting, Finishing
<1>3. queue[h] = {} /\ execs[h] = {} /\ renewal[h] = NoRenewal
  BY <1>1, <1>2, EmptyHanded
<1>4. WorkInHand(h)' /\ NumbersFit(h)' /\ RenewalCurrent(h)' /\ HasRoom(h)'
  BY <1>2, <1>3, EmptyHandedStays
<1>5. step'[s] = r /\ \A t \in Step : t # s => step'[t] = step[t]
  BY DEF Write, Typed, TypeOK, StoreTypeOK
<1>6. MutableAlone'
  BY <1>1, <1>5, WorkersLeave DEF FilesInOrder
<1>7. FilesInOrder'
  BY <1>1, <1>5, <1>6, RecordWritten
<1>8. Announces(h)'
  <2>1. emit'[h] = {<<e, s>>}
    BY DEF Write, Typed, TypeOK, LocalTypeOK
  <2> QED
    BY <1>5, <2>1 DEF Announces
<1>9. Decides(h)'
  BY <1>1, <1>2 DEF InOrder, Decides, Loops
<1> QED
  BY <1>2, <1>4, <1>7, <1>8, <1>9, OnlyMoverMatters DEF InOrder

\* A loop writes the record of a step it has to examine, and goes on behind it.
LEMMA LoopViewStays ==
  ASSUME Typed, NEW h \in Holder, InOrder(h), pc[h] \in Loops, NEW s \in Step,
         UNCHANGED <<pc, view>>, changed'[h], todo'[h] = After(todo[h], s),
         \A t \in Step : t # s => step'[t] = step[t]
  PROVE  ViewCurrent(h)'
<1>1. \A t \in todo'[h] : t \in todo[h] /\ t # s /\ t \in Step
  BY SchedulerAssumption DEF After, Typed, TypeOK, LocalTypeOK, Step
<1>2. \A t \in todo'[h] : view'[h][t] = step'[t]
  BY <1>1 DEF InOrder, ViewCurrent, Loops
<1> QED
  BY <1>2 DEF ViewCurrent, Loops

\* The pass begins by reading the records (loadRun).
LEMMA LoadKeeps ==
  ASSUME Typed, SoloInv, NEW h \in Holder, Load(h)
  PROVE  SoloInv'
<1>1. /\ pc[h] = "idle" /\ InOrder(h)
      /\ UNCHANGED <<queue, execs, emit, renewal, run, step, attempt, ended, outcomes,
                     launched, changed, decided>>
  BY DEF Load, At, SoloInv, store, log, history
<1>2. ~changed[h]
  BY <1>1 DEF InOrder, ViewCurrent, Loops
<1>3. CASE run # "running"
  <2>1. Goto(h, "exit")
    BY <1>3 DEF Load
  <2>2. pc'[h] = "exit" /\ OnlyMoves(h)
    BY <1>1, <2>1, GotoMoves DEF OnlyMoves
  <2>3. ViewCurrent(h)' /\ Decides(h)'
    BY <1>1, <1>2, <2>2 DEF ViewCurrent, Decides, Loops
  <2> QED
    BY <1>1, <2>2, <2>3, QuietPass DEF Starting, Finishing
<1>4. CASE run = "running"
  <2>1. Goto(h, "reconcile") /\ view' = [view EXCEPT ![h] = step]
    BY <1>4 DEF Load
  <2>2. pc'[h] = "reconcile" /\ OnlyMoves(h)
    BY <1>1, <2>1, GotoMoves DEF OnlyMoves
  <2>3. view'[h] = step'
    BY <1>1, <2>1 DEF Typed, TypeOK, LocalTypeOK
  <2>4. ViewCurrent(h)' /\ Decides(h)'
    BY <1>1, <1>2, <1>4, <2>2, <2>3 DEF ViewCurrent, Decides, Loops
  <2> QED
    BY <1>1, <2>2, <2>4, QuietPass DEF Starting, Finishing
<1> QED
  BY <1>3, <1>4

\* Reconciliation writes a pending step as ready, behind what it has read.
LEMMA MarkReadyKeeps ==
  ASSUME Typed, Typed', SoloInv, NEW h \in Holder, MarkReady(h)
  PROVE  SoloInv'
<1>0. PICK s \in Step : s = First(Unblocked(view[h])) /\ view[h][s].status = "pending"
  <2>1. Unblocked(view[h]) \in SUBSET Step /\ Unblocked(view[h]) # {}
    BY DEF MarkReady, Unblocked, WithStatus
  <2>2. First(Unblocked(view[h])) \in Unblocked(view[h])
    BY <2>1, FirstIn
  <2> QED
    BY <2>2 DEF Unblocked, WithStatus
<1> DEFINE r == [view[h][s] EXCEPT !.status = "ready"]
<1>1. /\ pc[h] \in {"reconcile", "recheck"} /\ InOrder(h) /\ FilesInOrder
      /\ Write(h, s, r, "step_ready") /\ view' = [view EXCEPT ![h][s] = r]
      /\ UNCHANGED <<pc, queue, execs, renewal, run, attempt, ended, outcomes, launched,
                     changed>>
  BY <1>0 DEF MarkReady, At, SoloInv, history
<1>2. s \in Step /\ view[h][s].status = "pending"
  BY <1>0
<1>3. view[h] = step /\ ~changed[h]
  BY <1>1 DEF InOrder, ViewCurrent, Loops
<1>4. step[s] \in StepRecord /\ r = [step[s] EXCEPT !.status = "ready"]
  BY <1>2, <1>3 DEF Typed, TypeOK, StoreTypeOK
<1>5. r.status = "ready" /\ r.latest = step[s].latest
  BY <1>4 DEF StepRecord
<1> HIDE DEF r
<1>6. step'[s] = r
  BY <1>1, <1>2 DEF Write, Typed, TypeOK, StoreTypeOK
<1>7. view'[h] = step'
  <2>1. view'[h] = [view[h] EXCEPT ![s] = r]
    BY <1>1 DEF Typed, TypeOK, LocalTypeOK
  <2> QED
    BY <1>1, <1>3, <2>1 DEF Write
<1>8. Lifecycle(s)'
  <2>1. Lifecycle(s) /\ step[s].status = "pending"
    BY <1>1, <1>2, <1>3 DEF FilesInOrder
  <2>2. attempt[s] = <<>> /\ step[s].latest = 0 /\ launched[s] = {}
    BY <2>1 DEF Lifecycle
  <2>3. step'[s].status = "ready" /\ step'[s].latest = 0
    BY <1>5, <1>6, <2>2
  <2>4. attempt'[s] = <<>> /\ launched'[s] = {} /\ Len(<<>>) = 0
    BY <1>1, <2>2
  <2>5. \A n \in DOMAIN attempt'[s] : attempt'[s][n] = "open"
    BY <2>4
  <2>6. 1 \in 1..(Len(attempt'[s]) + 1)
    BY <2>4
  <2> QED
    BY <2>3, <2>4, <2>5, <2>6 DEF Lifecycle
<1>9. ViewCurrent(h)'
  BY <1>1, <1>3, <1>7 DEF ViewCurrent, Loops
<1>10. OnlyMoves(h)
  BY <1>1 DEF OnlyMoves, Write, Typed, TypeOK, LocalTypeOK
<1>11. step[s].status \notin EndStatus
  BY <1>2, <1>3 DEF EndStatus
<1>12. pc[h] \in {"reconcile", "recheck"} \cup Loops /\ r.status # "running"
  BY <1>1, <1>5
<1>13. UNCHANGED <<pc, queue, execs, renewal, run, attempt, ended, outcomes, launched>>
  BY <1>1
<1>14. Write(h, s, r, "step_ready")
  BY <1>1
<1> QED
  BY <1>2, <1>8, <1>9, <1>10, <1>11, <1>12, <1>13, <1>14, WritePass

\* Reconciliation has no pending step left to write.
LEMMA ReconciledKeeps ==
  ASSUME Typed, SoloInv, NEW h \in Holder, Reconciled(h)
  PROVE  SoloInv'
<1>1. /\ pc[h] \in {"reconcile", "recheck"} /\ InOrder(h)
      /\ UNCHANGED <<queue, execs, emit, renewal, run, step, attempt, ended, outcomes,
                     launched, changed, decided, view>>
      /\ after' = [after EXCEPT ![h] = "committed"]
  BY DEF Reconciled, At, SoloInv, store, log, history
<1>2. PICK p \in {"promote", "finalize"} : Goto(h, p)
  BY DEF Reconciled
<1>3. pc'[h] = p /\ OnlyMoves(h)
  BY <1>1, <1>2, GotoMoves DEF OnlyMoves
<1>4. ~changed[h] /\ view[h] = step
  BY <1>1 DEF InOrder, ViewCurrent, Loops
<1>5. ViewCurrent(h)'
  BY <1>1, <1>4 DEF ViewCurrent
<1>6. Decides(h)'
  BY <1>1, <1>3 DEF InOrder, Decides
<1> QED
  BY <1>1, <1>3, <1>5, <1>6, QuietPass DEF Starting, Finishing

\* Promotion writes the status that the recorded attempt gives a step.
LEMMA PromoteKeeps ==
  ASSUME Typed, Typed', SoloInv, NEW h \in Holder, Promote(h)
  PROVE  SoloInv'
<1>0. PICK s \in Step : s = First(Promotable(h)) /\ s \in Promotable(h)
  <2>1. Promotable(h) \in SUBSET Step /\ Promotable(h) # {}
    BY DEF Promote, Promotable, Typed, TypeOK, LocalTypeOK
  <2> QED
    BY <2>1, FirstIn
<1> DEFINE n == TerminalAttempt(s, view[h][s].latest)
           status == Transition(s, n, attempt[s][n])
           r == [status |-> status, lease |-> NoHolder, latest |-> n]
<1>1. /\ pc[h] = "promote" /\ InOrder(h) /\ FilesInOrder
      /\ Write(h, s, r, Announcing(status))
      /\ todo' = [todo EXCEPT ![h] = After(@, s)]
      /\ changed' = [changed EXCEPT ![h] = TRUE]
      /\ UNCHANGED <<pc, queue, execs, renewal, run, attempt, ended, outcomes, launched, view>>
  BY <1>0 DEF Promote, At, SoloInv, history
<1>2. s \in todo[h] /\ s \in Step /\ view[h][s].status \notin EndStatus /\ n # 0
  BY <1>0 DEF Promotable
<1>3. view[h][s] = step[s]
  BY <1>1, <1>2 DEF InOrder, ViewCurrent, Loops
<1>4. /\ n \in DOMAIN attempt[s] /\ attempt[s][n] \in Result
      /\ step[s].latest # 0 => n = step[s].latest
  <2>1. step[s].latest \in Nat /\ attempt \in [Step -> Seq(AttemptState)]
    BY <1>2 DEF Typed, TypeOK, StoreTypeOK, StepRecord
  <2>2. n \in DOMAIN attempt[s] /\ attempt[s][n] \in Result
    BY <1>2, <1>3, <2>1, TerminalAttemptIn
  <2>3. step[s].latest # 0 => n = step[s].latest
    BY <1>2, <1>3 DEF TerminalAttempt
  <2> QED
    BY <2>2, <2>3
<1>5. n \in Nat /\ n # 0
  <2>1. attempt[s] \in Seq(AttemptState)
    BY <1>2 DEF Typed, TypeOK, StoreTypeOK
  <2>2. DOMAIN attempt[s] = 1..Len(attempt[s]) /\ Len(attempt[s]) \in Nat
    BY <2>1, LenProperties
  <2> HIDE DEF n
  <2> QED
    BY <1>4, <2>2
<1>6. status \in {"ready"} \cup EndStatus
  BY <1>2, <1>4, <1>5, TransitionTyped
<1>7. status = "ready" => Repeatable(s, n)
  <2>1. (attempt[s][n] = "retry" /\ n < MaxAttempts[s]) \/ status # "ready"
    BY <1>4 DEF Transition, Result
  <2> QED
    BY <2>1 DEF Repeatable
<1> HIDE DEF n, status
<1>8. step'[s] = r /\ r.status = status /\ r.latest = n
  BY <1>1, <1>2 DEF Write, Typed, TypeOK, StoreTypeOK
<1>9. step[s].status \in {"ready", "running"}
  <2>1. step[s].status \in StepStatus /\ step[s].status \notin EndStatus
    BY <1>2, <1>3 DEF Typed, TypeOK, StoreTypeOK, StepRecord
  <2>2. step[s].status = "pending" => attempt[s] = <<>>
    BY <1>1, <1>2 DEF FilesInOrder, Lifecycle
  <2> QED
    BY <1>4, <2>1, <2>2 DEF StepStatus
<1>10. Lifecycle(s)'
  <2>1. Lifecycle(s)
    BY <1>1, <1>2 DEF FilesInOrder
  <2>2. ASSUME status = "ready", NEW m \in launched[s]
        PROVE  Repeatable(s, m)
    <3>1. CASE step[s].status = "ready"
      BY <2>1, <3>1 DEF Lifecycle
    <3>2. CASE step[s].status = "running"
      <4>1. step[s].latest \in DOMAIN attempt[s]
        BY <2>1, <3>2 DEF Lifecycle
      <4>2. DOMAIN attempt[s] = 1..Len(attempt[s]) /\ Len(attempt[s]) \in Nat
        BY <1>2, LenProperties DEF Typed, TypeOK, StoreTypeOK
      <4>3. n = step[s].latest
        BY <1>4, <4>1, <4>2
      <4> QED
        BY <1>7, <2>1, <2>2, <3>2, <4>3 DEF Lifecycle
    <3> QED
      BY <1>9, <3>1, <3>2
  <2>3. status # "pending" /\ status # "running"
    BY <1>6 DEF EndStatus
  <2>4. UNCHANGED <<attempt, launched>> /\ step'[s].status = status /\ step'[s].latest = n
    BY <1>1, <1>8
  <2>5. \A m : Repeatable(s, m)' <=> Repeatable(s, m)
    BY <2>4 DEF Repeatable
  <2>6. status = "ready" =>
          /\ n \in DOMAIN attempt[s] /\ Repeatable(s, n) /\ n # 0
          /\ \A m \in launched[s] : Repeatable(s, m)
    BY <1>4, <1>5, <1>7, <2>2
  <2>7. /\ launched[s] \subseteq DOMAIN attempt[s]
        /\ \E k \in 1..(Len(attempt[s]) + 1) :
             \A m \in launched[s] : m # k => m < k /\ Repeatable(s, m)
    BY <2>1 DEF Lifecycle
  <2> QED
    BY <2>3, <2>4, <2>5, <2>6, <2>7 DEF Lifecycle
<1>11. ViewCurrent(h)'
  <2>1. changed'[h] /\ todo'[h] = After(todo[h], s) /\ pc[h] \in Loops /\ UNCHANGED <<pc, view>>
    BY <1>1 DEF Typed, TypeOK, LocalTypeOK, Loops
  <2>2. \A t \in Step : t # s => step'[t] = step[t]
    BY <1>1 DEF Write, Typed, TypeOK, StoreTypeOK
  <2> QED
    BY <1>1, <2>1, <2>2, LoopViewStays
<1>12. OnlyMoves(h)
  BY <1>1 DEF OnlyMoves, Write, Typed, TypeOK, LocalTypeOK
<1>13. /\ Announcing(status) = "step_end" => r.status \in EndStatus
       /\ r.status # "running" /\ step[s].status \notin EndStatus
  BY <1>2, <1>3, <1>6, <1>8 DEF Announcing, EndStatus
<1> HIDE DEF r
<1>14. pc[h] \in {"reconcile", "recheck"} \cup Loops
  BY <1>1 DEF Loops
<1>15. UNCHANGED <<pc, queue, execs, renewal, run, attempt, ended, outcomes, launched>>
  BY <1>1
<1>16. Write(h, s, r, Announcing(status))
  BY <1>1
<1> QED
  BY <1>2, <1>10, <1>11, <1>12, <1>13, <1>14, <1>15, <1>16, WritePass

\* After a promotion the records are read again.
LEMMA PromotedKeeps ==
  ASSUME Typed, SoloInv, NEW h \in Holder, Promoted(h)
  PROVE  SoloInv'
<1>1. /\ pc[h] = "promote" /\ InOrder(h)
      /\ UNCHANGED <<queue, execs, emit, renewal, run, step, attempt, ended, outcomes,
                     launched, decided, after>>
      /\ ~changed'[h] /\ \A g \in Holder : g # h => changed'[g] = changed[g]
  BY DEF Promoted, At, SoloInv, store, log, history, Typed, TypeOK, LocalTypeOK
<1>2. CASE changed[h]
  <2>1. Goto(h, "recheck") /\ view' = [view EXCEPT ![h] = step]
    BY <1>2 DEF Promoted
  <2>2. pc'[h] = "recheck" /\ OnlyMoves(h)
    BY <1>1, <2>1, GotoMoves DEF OnlyMoves
  <2>3. view'[h] = step'
    BY <1>1, <2>1 DEF Typed, TypeOK, LocalTypeOK
  <2>4. ViewCurrent(h)' /\ Decides(h)'
    BY <1>1, <2>2, <2>3 DEF InOrder, ViewCurrent, Decides, Loops
  <2> QED
    BY <1>1, <2>2, <2>4, QuietPass DEF Starting, Finishing
<1>3. CASE ~changed[h]
  <2>1. Goto(h, "committed") /\ UNCHANGED view
    BY <1>3 DEF Promoted
  <2>2. pc'[h] = "committed" /\ OnlyMoves(h)
    BY <1>1, <2>1, GotoMoves DEF OnlyMoves
  <2>3. view[h] = step
    BY <1>1, <1>3 DEF InOrder, ViewCurrent, Loops
  <2>4. ViewCurrent(h)' /\ Decides(h)'
    BY <1>1, <2>1, <2>2, <2>3 DEF InOrder, ViewCurrent, Decides, Loops
  <2> QED
    BY <1>1, <2>2, <2>4, QuietPass DEF Starting, Finishing
<1> QED
  BY <1>2, <1>3

\* A guard writes one of the steps it has to examine.
LEMMA GuardStepKeeps ==
  ASSUME Typed, Typed', SoloInv, NEW h \in Holder, NEW p \in Loops,
         NEW S \in SUBSET todo[h], NEW status \in {"blocked", "stale"},
         NEW release \in BOOLEAN, GuardStep(h, p, S, status, release),
         \A s \in S : view[h][s].status \notin EndStatus
  PROVE  SoloInv'
<1>1. PICK s \in Step : s = First(S) /\ s \in S
  <2>1. S \in SUBSET Step /\ S # {}
    BY DEF GuardStep, Typed, TypeOK, LocalTypeOK
  <2> QED
    BY <2>1, FirstIn
<1> DEFINE r == [view[h][s] EXCEPT !.status = status,
                                   !.lease = IF release THEN NoHolder ELSE @]
<1>2. /\ pc[h] \in Loops /\ InOrder(h) /\ FilesInOrder
      /\ Write(h, s, r, "step_end")
      /\ todo' = [todo EXCEPT ![h] = After(@, s)]
      /\ changed' = [changed EXCEPT ![h] = TRUE]
      /\ UNCHANGED <<pc, queue, execs, renewal, run, attempt, ended, outcomes, launched, view>>
  BY <1>1 DEF GuardStep, At, SoloInv, history
<1>3. view[h][s] = step[s] /\ step[s].status \notin EndStatus
  BY <1>1, <1>2 DEF InOrder, ViewCurrent
<1>4. r.status = status
  BY <1>1 DEF Typed, TypeOK, LocalTypeOK, StepRecord
<1> HIDE DEF r
<1>5. step'[s].status = status /\ \A t \in Step : t # s => step'[t] = step[t]
  BY <1>2, <1>4 DEF Write, Typed, TypeOK, StoreTypeOK
<1>6. Lifecycle(s)'
  <2>1. Lifecycle(s)
    BY <1>2 DEF FilesInOrder
  <2> QED
    BY <1>2, <1>5, <2>1 DEF Lifecycle, Repeatable
<1>7. ViewCurrent(h)'
  <2>1. changed'[h] /\ todo'[h] = After(todo[h], s)
    BY <1>2 DEF Typed, TypeOK, LocalTypeOK
  <2> QED
    BY <1>2, <1>5, <2>1, LoopViewStays
<1>8. OnlyMoves(h)
  BY <1>2 DEF OnlyMoves, Write, Typed, TypeOK, LocalTypeOK
<1>9. pc[h] \in {"reconcile", "recheck"} \cup Loops /\ r.status # "running"
      /\ ("step_end" = "step_end" => r.status \in EndStatus)
  BY <1>2, <1>4 DEF EndStatus
<1>10. Write(h, s, r, "step_end")
  BY <1>2
<1>11. UNCHANGED <<pc, queue, execs, renewal, run, attempt, ended, outcomes, launched>>
  BY <1>2
<1> QED
  BY <1>3, <1>6, <1>7, <1>8, <1>9, <1>10, <1>11, WritePass

\* A guard that wrote something leads to finalization, else to the next guard.
LEMMA GuardDoneKeeps ==
  ASSUME Typed, SoloInv, NEW h \in Holder, NEW p \in Loops, NEW S,
         NEW nextGuard \in Loops \cup {"finalize"},
         NEW afterWrite \in {"drained", "exit"}, NEW otherwise,
         GuardDone(h, p, S, nextGuard, afterWrite, otherwise)
  PROVE  SoloInv'
<1>1. /\ pc[h] \in Loops /\ InOrder(h)
      /\ UNCHANGED <<queue, execs, emit, renewal, run, step, attempt, ended, outcomes,
                     launched, decided, view>>
      /\ Goto(h, IF changed[h] THEN "finalize" ELSE nextGuard)
      /\ ~changed'[h] /\ \A g \in Holder : g # h => changed'[g] = changed[g]
      /\ after'[h] = IF changed[h] THEN afterWrite ELSE otherwise
  BY DEF GuardDone, At, SoloInv, store, log, history, Typed, TypeOK, LocalTypeOK
<1>2. pc'[h] = (IF changed[h] THEN "finalize" ELSE nextGuard) /\ OnlyMoves(h)
  BY <1>1, GotoMoves DEF OnlyMoves
<1>3. pc'[h] \in Loops \cup {"finalize"}
  BY <1>2
<1>4. ViewCurrent(h)'
  <2>1. CASE changed[h]
    BY <1>1, <1>2, <2>1 DEF ViewCurrent, Loops
  <2>2. CASE ~changed[h]
    <3>1. view[h] = step
      BY <1>1, <2>2 DEF InOrder, ViewCurrent
    <3> QED
      BY <1>1, <1>3, <3>1 DEF ViewCurrent, Loops
  <2> QED
    BY <2>1, <2>2
<1>5. Decides(h)'
  BY <1>1, <1>3 DEF InOrder, Decides, Loops
<1> QED
  BY <1>1, <1>2, <1>3, <1>4, <1>5, QuietPass DEF Starting, Finishing, Loops

\* The three guards of a pass.
LEMMA GuardsKeep ==
  ASSUME Typed, Typed', SoloInv, NEW h \in Holder,
         BlockCommitted(h) \/ MarkStale(h) \/ BlockUnknown(h)
  PROVE  SoloInv'
<1>1. /\ PotentiallyCommitted(h) \in SUBSET todo[h]
      /\ \A s \in PotentiallyCommitted(h) : view[h][s].status \notin EndStatus
  BY DEF PotentiallyCommitted, EndStatus
<1>2. /\ Stale(h) \in SUBSET todo[h]
      /\ \A s \in Stale(h) : view[h][s].status \notin EndStatus
  BY DEF Stale, EndStatus
<1>3. /\ UnknownBackend(h) \in SUBSET todo[h]
      /\ \A s \in UnknownBackend(h) : view[h][s].status \notin EndStatus
  BY DEF UnknownBackend, EndStatus
<1>4. "committed" \in Loops /\ "stale" \in Loops /\ "unknown" \in Loops
  BY DEF Loops
<1>5. CASE BlockCommitted(h)
  BY <1>1, <1>4, <1>5, GuardStepKeeps, GuardDoneKeeps DEF BlockCommitted
<1>6. CASE MarkStale(h)
  BY <1>2, <1>4, <1>6, GuardStepKeeps, GuardDoneKeeps DEF MarkStale
<1>7. CASE BlockUnknown(h)
  BY <1>3, <1>4, <1>7, GuardStepKeeps, GuardDoneKeeps DEF BlockUnknown
<1> QED
  BY <1>5, <1>6, <1>7

------------------------------------------------------------------------------
(* Events and the outcome.                                                 *)

\* The event of the last write enters the log.
LEMMA AppendEventKeeps ==
  ASSUME Typed, SoloInv, NEW h \in Holder, AppendEvent(h)
  PROVE  SoloInv'
<1>1. PICK e \in emit[h] : AppendEvent(h)!(e)
  BY DEF AppendEvent
<1>2. /\ pc[h] # "stopped" /\ InOrder(h) /\ FilesInOrder
      /\ UNCHANGED <<pc, changed, queue, execs, renewal, run, step, attempt, outcomes, launched,
                     view, todo, number, live, decided, after>>
  BY <1>1 DEF SoloInv, OneAwake, Resting, store, history
<1>3. emit'[h] = {} /\ OnlyMoves(h)
  BY <1>1, <1>2 DEF OnlyMoves, Typed, TypeOK, LocalTypeOK
<1>4. FilesInOrder'
  <2>1. \A s \in Step : Lifecycle(s)'
    BY <1>2 DEF FilesInOrder, Lifecycle, Repeatable
  <2>2. OutcomesSettled' /\ MutableAlone'
    BY <1>2 DEF FilesInOrder, OutcomesSettled, Settled, MutableAlone
  <2>3. EventsFollowRecords'
    <3>1. e[1] = "step_end" => step[e[2]].status \in EndStatus
      <4>1. e \in Event
        BY DEF Typed, TypeOK, LocalTypeOK
      <4>2. e = <<e[1], e[2]>> /\ e[2] \in Step
        BY <4>1 DEF Event
      <4> QED
        BY <1>2, <4>2 DEF InOrder, Announces
    <3>2. e[1] \in {"step_ready", "step_end"}
      BY DEF Typed, TypeOK, LocalTypeOK, Event
    <3>3. \A s \in ended' : s \in ended \/ (e[1] = "step_end" /\ s = e[2])
      BY <1>1, <3>2
    <3> QED
      BY <1>2, <3>1, <3>3 DEF FilesInOrder, EventsFollowRecords
  <2> QED
    BY <2>1, <2>2, <2>3 DEF FilesInOrder
<1>5. ViewCurrent(h)' /\ WorkInHand(h)' /\ NumbersFit(h)'
  BY <1>2 DEF InOrder, ViewCurrent, WorkInHand, Own, NumbersFit
<1>6. RenewalCurrent(h)' /\ Decides(h)' /\ HasRoom(h)'
  BY <1>2 DEF InOrder, RenewalCurrent, Decides, HasRoom, Working
<1>7. Announces(h)'
  BY <1>3 DEF Announces
<1> QED
  BY <1>2, <1>3, <1>4, <1>5, <1>6, <1>7, OnlyMoverMatters DEF InOrder

\* finalizeRun decides from the records as they are.
LEMMA FinalizeKeeps ==
  ASSUME Typed, SoloInv, NEW h \in Holder, Finalize(h)
  PROVE  SoloInv'
<1>1. /\ pc[h] = "finalize" /\ InOrder(h) /\ ~changed[h]
      /\ UNCHANGED <<queue, execs, emit, renewal, run, step, attempt, ended, outcomes,
                     launched, changed, view, todo, after>>
  BY DEF Finalize, At, SoloInv, store, log, history, InOrder, ViewCurrent, Loops
<1>2. run = "running"
  BY <1>1 DEF InOrder, Decides
<1>3. CASE Outcome(step) # "running"
  <2>1. Goto(h, "announce") /\ decided' = [decided EXCEPT ![h] = Outcome(step)]
    BY <1>2, <1>3 DEF Finalize
  <2>2. pc'[h] = "announce" /\ OnlyMoves(h)
    BY <1>1, <2>1, GotoMoves DEF OnlyMoves
  <2>3. decided'[h] = Outcome(step')
    BY <1>1, <2>1 DEF Typed, TypeOK, LocalTypeOK
  <2>4. ViewCurrent(h)' /\ Decides(h)'
    BY <1>1, <1>2, <1>3, <2>2, <2>3 DEF ViewCurrent, Decides, Loops
  <2> QED
    BY <1>1, <2>2, <2>4, QuietPass DEF Starting, Finishing
<1>4. CASE Outcome(step) = "running"
  <2> DEFINE p == IF after[h] = "drained" THEN AfterDrain(h) ELSE after[h]
  <2>1. Goto(h, p) /\ UNCHANGED decided
    BY <1>2, <1>4 DEF Finalize
  <2>2. p \in {"exit", "idle", "committed", "renew"} /\ (p \in {"committed", "renew"} => after[h] = p)
    BY DEF AfterDrain, Typed, TypeOK, LocalTypeOK
  <2> HIDE DEF p
  <2>3. pc'[h] = p /\ OnlyMoves(h)
    BY <1>1, <2>1, GotoMoves DEF OnlyMoves
  <2>4. ViewCurrent(h)'
    BY <1>1, <2>2, <2>3 DEF InOrder, ViewCurrent, Loops
  <2>5. Decides(h)'
    BY <1>1, <1>2, <2>2, <2>3 DEF Decides
  <2> QED
    BY <1>1, <2>2, <2>3, <2>4, <2>5, QuietPass DEF Starting, Finishing
<1> QED
  BY <1>3, <1>4

\* An outcome that the records give is settled.
LEMMA DecisionSettles ==
  ASSUME Outcome(step) # "running"
  PROVE  Settled(Outcome(step))
<1> DEFINE statuses == {step[s].status : s \in Step}
<1>1. CASE statuses \subseteq EndStatus
  BY <1>1 DEF Settled
<1>2. CASE "blocked" \in statuses /\ ~(statuses \subseteq EndStatus)
  <2>1. statuses # {"completed"}
    BY <1>2
  <2>2. Outcome(step) = "blocked"
    BY <1>2, <2>1 DEF Outcome
  <2>3. \E s \in Step : step[s].status = "blocked"
    BY <1>2
  <2> QED
    BY <2>2, <2>3 DEF Settled
<1>3. statuses \subseteq EndStatus \/ "blocked" \in statuses
  <2> SUFFICES ASSUME ~(statuses \subseteq EndStatus), "blocked" \notin statuses
               PROVE  FALSE
    OBVIOUS
  <2>1. statuses # {"completed"}
    BY DEF EndStatus
  <2> QED
    BY <2>1 DEF Outcome
<1> QED
  BY <1>1, <1>2, <1>3

\* The outcome enters the log, then run.json.
LEMMA AnnounceRunKeeps ==
  ASSUME Typed, SoloInv, NEW h \in Holder, AnnounceRun(h) \/ SaveRun(h)
  PROVE  SoloInv'
<1>1. /\ InOrder(h) /\ FilesInOrder
      /\ pc[h] \in {"announce", "save"}
      /\ UNCHANGED <<queue, execs, emit, renewal, step, attempt, ended, launched, changed,
                     view, todo, after, decided>>
  BY DEF AnnounceRun, SaveRun, At, SoloInv, store, log, history, local
<1>2. /\ decided[h] = Outcome(step) /\ decided[h] # "running" /\ run = "running"
      /\ ~changed[h]
  BY <1>1 DEF InOrder, Decides, ViewCurrent, Loops
<1>3. \A s \in Step : Lifecycle(s)'
  BY <1>1 DEF FilesInOrder, Lifecycle, Repeatable
<1>4. EventsFollowRecords' /\ MutableAlone'
  BY <1>1 DEF FilesInOrder, EventsFollowRecords, MutableAlone
<1>5. \A o : Settled(o)' <=> Settled(o)
  BY <1>1 DEF Settled
<1>6. Settled(decided[h])
  BY <1>2, DecisionSettles
<1>7. CASE AnnounceRun(h)
  <2>1. outcomes' = outcomes \cup {decided[h]} /\ Goto(h, "save") /\ UNCHANGED run
    BY <1>7 DEF AnnounceRun, store
  <2>2. OutcomesSettled'
    BY <1>1, <1>2, <1>5, <1>6, <2>1 DEF FilesInOrder, OutcomesSettled
  <2>3. pc'[h] = "save" /\ OnlyMoves(h)
    BY <1>1, <2>1, GotoMoves DEF OnlyMoves
  <2>4. ViewCurrent(h)' /\ Decides(h)'
    BY <1>1, <1>2, <2>1, <2>3 DEF ViewCurrent, Decides, Loops
  <2>5. FilesInOrder'
    BY <1>3, <1>4, <2>2 DEF FilesInOrder
  <2>6. /\ pc[h] \notin Starting \cup Finishing \cup {"renewing", "stopped"}
        /\ pc'[h] \notin Starting \cup Finishing \cup {"stopped"}
    BY <1>1, <2>3 DEF Starting, Finishing
  <2> QED
    BY <1>1, <2>3, <2>4, <2>5, <2>6, QuietMove
<1>8. CASE SaveRun(h)
  <2>1. /\ run' = decided[h] /\ Goto(h, "exit") /\ UNCHANGED outcomes
        /\ decided[h] \in outcomes
    BY <1>1, <1>8 DEF SaveRun, log, At, InOrder, Decides
  <2>2. OutcomesSettled'
    BY <1>1, <1>5, <2>1 DEF FilesInOrder, OutcomesSettled
  <2>3. pc'[h] = "exit" /\ OnlyMoves(h)
    BY <1>1, <2>1, GotoMoves DEF OnlyMoves
  <2>4. ViewCurrent(h)' /\ Decides(h)'
    BY <1>1, <1>2, <2>3 DEF ViewCurrent, Decides, Loops
  <2>5. FilesInOrder'
    BY <1>3, <1>4, <2>2 DEF FilesInOrder
  <2>6. /\ pc[h] \notin Starting \cup Finishing \cup {"renewing", "stopped"}
        /\ pc'[h] \notin Starting \cup Finishing \cup {"stopped"}
    BY <1>1, <2>3 DEF Starting, Finishing
  <2> QED
    BY <1>1, <2>3, <2>4, <2>5, <2>6, QuietMove
<1> QED
  BY <1>7, <1>8

------------------------------------------------------------------------------
(* The renewals.                                                           *)

\* A pass that finds a running step of its own reads its record to renew it.
LEMMA RenewOwnedKeeps ==
  ASSUME Typed, SoloInv, NEW h \in Holder, RenewOwned(h)
  PROVE  SoloInv'
<1>1. /\ pc[h] = "renew" /\ InOrder(h) /\ FilesInOrder /\ ~changed[h]
      /\ UNCHANGED <<queue, execs, emit, run, step, attempt, ended, outcomes,
                     launched, changed, view, todo, after, decided>>
  BY DEF RenewOwned, At, SoloInv, store, log, history, InOrder, ViewCurrent, Loops
<1>2. CASE UNCHANGED renewal /\ Goto(h, "plan")
  <2>1. pc'[h] = "plan" /\ OnlyMoves(h)
    BY <1>1, <1>2, GotoMoves DEF OnlyMoves
  <2>2. ViewCurrent(h)' /\ Decides(h)'
    BY <1>1, <2>1 DEF InOrder, ViewCurrent, Decides, Loops
  <2> QED
    BY <1>1, <1>2, <2>1, <2>2, QuietPass DEF Starting, Finishing
<1>3. CASE \E s : /\ Goto(h, "renewing")
                  /\ renewal' = [renewal EXCEPT ![h] = [step |-> s, rec |-> step[s]]]
  <2>1. PICK s : /\ Goto(h, "renewing")
                 /\ renewal' = [renewal EXCEPT ![h] = [step |-> s, rec |-> step[s]]]
    BY <1>3
  <2>2. pc'[h] = "renewing"
    BY <2>1, GotoMoves
  <2>3. OnlyMoves(h)
    BY <1>1, <2>1, GotoMoves DEF OnlyMoves, Typed, TypeOK, LocalTypeOK
  <2>4. renewal'[h].step = s /\ renewal'[h].rec = step[s]
    BY <2>1 DEF Typed, TypeOK, LocalTypeOK
  <2>5. queue[h] = {} /\ execs[h] = {}
    BY <1>1 DEF InOrder, WorkInHand, Starting, Finishing
  <2>6. ViewCurrent(h)' /\ Decides(h)' /\ Announces(h)'
    BY <1>1, <2>2 DEF InOrder, ViewCurrent, Decides, Announces, Loops
  <2>7. RenewalCurrent(h)'
    BY <1>1, <2>2, <2>4 DEF RenewalCurrent
  <2>8. WorkInHand(h)' /\ NumbersFit(h)' /\ HasRoom(h)'
    BY <1>1, <2>2, <2>5 DEF WorkInHand, NumbersFit, HasRoom, Starting, Finishing
  <2>9. FilesInOrder'
    BY <1>1, FilesUnwritten
  <2> QED
    BY <1>1, <2>2, <2>3, <2>6, <2>7, <2>8, <2>9, OnlyMoverMatters DEF InOrder
<1> QED
  BY <1>2, <1>3 DEF RenewOwned

\* The heartbeat timer reads the record of an execution in hand.
LEMMA RenewTickKeeps ==
  ASSUME Typed, SoloInv, NEW h \in Holder, RenewTick(h)
  PROVE  SoloInv'
<1>1. PICK s \in Ticking(h) : renewal' = [renewal EXCEPT ![h] = [step |-> s, rec |-> step[s]]]
  BY DEF RenewTick
<1>2. /\ InOrder(h) /\ FilesInOrder /\ s \in execs[h]
      /\ UNCHANGED <<pc, changed, queue, execs, emit, run, step, attempt, outcomes, launched,
                     ended, view, todo, number, live, decided, after>>
  BY <1>1 DEF RenewTick, Ticking, SoloInv, store, log, history
<1>3. pc[h] # "stopped"
  BY <1>2 DEF SoloInv, OneAwake, Resting
<1>4. renewal'[h].step = s /\ renewal'[h].rec = step[s]
  BY <1>1 DEF Typed, TypeOK, LocalTypeOK
<1>5. OnlyMoves(h)
  BY <1>1, <1>2 DEF OnlyMoves, Typed, TypeOK, LocalTypeOK
<1>6. RenewalCurrent(h)'
  <2>1. pc[h] = "settle" => s # First(execs[h])
    BY <1>1 DEF Ticking
  <2> QED
    BY <1>2, <1>4, <2>1 DEF RenewalCurrent
<1>7. FilesInOrder'
  BY <1>2, FilesUnwritten
<1>8. ViewCurrent(h)' /\ WorkInHand(h)' /\ NumbersFit(h)'
  BY <1>2 DEF InOrder, ViewCurrent, WorkInHand, Own, NumbersFit
<1>9. Announces(h)' /\ Decides(h)' /\ HasRoom(h)'
  BY <1>2 DEF InOrder, Announces, Decides, HasRoom, Working
<1> QED
  BY <1>2, <1>3, <1>5, <1>6, <1>7, <1>8, <1>9, OnlyMoverMatters DEF InOrder

\* A renewal writes back what the record still holds.
LEMMA RenewWriteKeeps ==
  ASSUME Typed, SoloInv, NEW h \in Holder, RenewWrite(h)
  PROVE  SoloInv'
<1>1. /\ InOrder(h) /\ FilesInOrder /\ renewal[h] # NoRenewal
      /\ renewal' = [renewal EXCEPT ![h] = NoRenewal]
      /\ UNCHANGED <<changed, queue, execs, emit, run, attempt, outcomes, launched,
                     ended, view, todo, number, live, decided, after>>
      /\ IF pc[h] = "renewing" THEN Goto(h, "exit") ELSE UNCHANGED pc
  BY DEF RenewWrite, SoloInv, log, history
<1>2. step' = step
  <2>1. /\ renewal[h].step \in Step
        /\ step[renewal[h].step] = renewal[h].rec
        /\ step' = [step EXCEPT ![renewal[h].step] = renewal[h].rec]
    BY <1>1 DEF RenewWrite, InOrder, RenewalCurrent, Typed, TypeOK, LocalTypeOK, Renewal
  <2> QED
    BY <2>1 DEF Typed, TypeOK, StoreTypeOK
<1>3. pc[h] # "stopped"
  BY <1>1 DEF SoloInv, OneAwake, Resting
<1>4. renewal'[h] = NoRenewal
  BY <1>1 DEF Typed, TypeOK, LocalTypeOK
<1>5. FilesInOrder'
  BY <1>1, <1>2, FilesUnwritten
<1>6. Announces(h)'
  BY <1>1, <1>2 DEF InOrder, Announces
<1>7. \A g \in Holder : pc'[g] = IF g = h /\ pc[h] = "renewing" THEN "exit" ELSE pc[g]
  BY <1>1 DEF Goto, Typed, TypeOK, LocalTypeOK
<1>8. OnlyMoves(h)
  BY <1>1, <1>7 DEF OnlyMoves, Typed, TypeOK, LocalTypeOK
<1>9. CASE pc[h] = "renewing"
  <2>1. pc'[h] = "exit" /\ queue'[h] = {} /\ execs'[h] = {}
    BY <1>1, <1>7, <1>9 DEF InOrder, WorkInHand, Starting, Finishing
  <2>2. WorkInHand(h)' /\ NumbersFit(h)' /\ RenewalCurrent(h)' /\ HasRoom(h)'
    BY <1>4, <2>1, EmptyHandedStays DEF Starting, Finishing
  <2>3. ViewCurrent(h)' /\ Decides(h)'
    BY <1>1, <1>9, <2>1 DEF InOrder, ViewCurrent, Decides, Loops
  <2> QED
    BY <1>3, <1>5, <1>6, <1>8, <2>1, <2>2, <2>3, OnlyMoverMatters DEF InOrder
<1>10. CASE pc[h] # "renewing"
  <2>1. pc'[h] = pc[h]
    BY <1>7, <1>10
  <2>2. ViewCurrent(h)' /\ WorkInHand(h)' /\ NumbersFit(h)'
    BY <1>1, <1>2, <2>1 DEF InOrder, ViewCurrent, WorkInHand, Own, NumbersFit
  <2>3. Decides(h)' /\ HasRoom(h)'
    BY <1>1, <1>2, <2>1 DEF InOrder, Decides, HasRoom, Working
  <2>4. RenewalCurrent(h)'
    <3>1. \A s \in Step : NoRenewal.step # s
      BY SchedulerAssumption DEF NoRenewal, Step
    <3>2. pc[h] = "settle" => First(execs[h]) \in Step
      BY StepInHand DEF FinishingAt
    <3> QED
      BY <1>1, <1>4, <2>1, <3>1, <3>2 DEF RenewalCurrent
  <2> QED
    BY <1>3, <1>5, <1>6, <1>8, <2>1, <2>2, <2>3, <2>4, OnlyMoverMatters DEF InOrder
<1> QED
  BY <1>9, <1>10

------------------------------------------------------------------------------
(* Planning.                                                               *)

\* FirstOf takes no more steps than it is asked to.
LEMMA FirstOfBounded ==
  ASSUME NEW S \in SUBSET Step, NEW k \in Nat
  PROVE  FirstOf(S, k) \in SUBSET S /\ Cardinality(FirstOf(S, k)) <= k
<1> DEFINE Below(s) == {t \in S : t < s}
           F == FirstOf(S, k)
           T == 0..(k - 1)
           rank == [s \in F |-> Cardinality(Below(s))]
<1>1. F \in SUBSET S /\ \A s \in S : s \in Nat
  BY SchedulerAssumption DEF FirstOf, Step
<1>2. ASSUME NEW s \in F
      PROVE  IsFiniteSet(Below(s)) /\ rank[s] = Cardinality(Below(s)) /\ rank[s] \in T
  <2>1. Below(s) \in SUBSET Step
    BY <1>1
  <2>2. IsFiniteSet(Below(s)) /\ Cardinality(Below(s)) \in Nat
    BY <2>1, StepsFinite
  <2>3. Cardinality(Below(s)) < k
    BY DEF FirstOf
  <2>4. rank[s] = Cardinality(Below(s))
    OBVIOUS
  <2> HIDE DEF Below, rank
  <2> QED
    BY <2>2, <2>3, <2>4
<1>3. ASSUME NEW s \in F, NEW u \in F, s < u
      PROVE  rank[s] # rank[u]
  <2>1. Below(s) \cup {s} \in SUBSET Below(u) /\ s \notin Below(s)
    <3>1. ASSUME NEW t \in Below(s) PROVE t \in Below(u)
      BY <1>1, <1>3
    <3>2. s \in Below(u) /\ s \notin Below(s)
      BY <1>1, <1>3
    <3> HIDE DEF Below
    <3> QED
      BY <3>1, <3>2
  <2>2. Cardinality(Below(s) \cup {s}) = Cardinality(Below(s)) + 1
    BY <1>2, <2>1, FS_AddElement
  <2>3. Cardinality(Below(s) \cup {s}) <= Cardinality(Below(u))
    BY <1>2, <2>1, FS_Subset
  <2>4. rank[s] \in Nat /\ rank[u] \in Nat
    BY <1>2
  <2> HIDE DEF Below, rank, F
  <2> QED
    BY <1>2, <2>2, <2>3, <2>4
<1>4. rank \in Injection(F, T)
  <2>1. rank \in [F -> T]
    BY <1>2
  <2>2. ASSUME NEW s \in F, NEW u \in F, s # u
        PROVE  rank[s] # rank[u]
    <3>1. s < u \/ u < s
      BY <1>1, <2>2
    <3> HIDE DEF rank, F
    <3> QED
      BY <1>3, <3>1
  <2> HIDE DEF rank, F
  <2> QED
    BY <2>1, <2>2 DEF Injection, IsInjective
<1>5. IsFiniteSet(T) /\ Cardinality(T) = k
  <2>1. IsFiniteSet(0..(k - 1)) /\ Cardinality(0..(k - 1)) = IF 0 > k - 1 THEN 0 ELSE k - 1 - 0 + 1
    BY FS_Interval
  <2> QED
    BY <2>1
<1> HIDE DEF F, T, rank
<1>6. Cardinality(F) <= Cardinality(T)
  BY <1>4, <1>5, FS_Injection
<1> QED
  BY <1>1, <1>5, <1>6 DEF F

\* A set of steps with at most one member has no two.
LEMMA AtMostOne ==
  ASSUME NEW S \in SUBSET Step, Cardinality(S) <= 1, NEW s \in S, NEW t \in S
  PROVE  s = t
<1>1. IsFiniteSet(S) /\ Cardinality(S) \in Nat
  BY StepsFinite
<1>2. Cardinality(S) = 1
  <2>1. Cardinality(S) # 0
    BY <1>1, FS_EmptySet
  <2> QED
    BY <1>1, <2>1
<1> QED
  BY <1>1, <1>2, FS_Singleton

\* The pass plans no more steps than there is room for.
LEMMA PlanKeeps ==
  ASSUME Typed, SoloInv, NEW h \in Holder, Plan(h)
  PROVE  SoloInv'
<1>1. /\ pc[h] = "plan" /\ InOrder(h) /\ FilesInOrder /\ ~changed[h] /\ run = "running"
      /\ view[h] = step
      /\ UNCHANGED <<execs, emit, renewal, run, step, attempt, ended, outcomes,
                     launched, changed, view, todo, after, decided>>
  BY DEF Plan, At, SoloInv, store, log, history, InOrder, ViewCurrent, Loops, Decides
<1>2. queue[h] = {} /\ execs[h] = {} /\ renewal[h] = NoRenewal
  BY <1>1, EmptyHanded DEF Starting, Finishing
<1>3. CASE UNCHANGED queue /\ \E p \in {"exit", "idle"} : Goto(h, p)
  <2>1. PICK p \in {"exit", "idle"} : Goto(h, p)
    BY <1>3
  <2>2. pc'[h] = p /\ OnlyMoves(h)
    BY <1>1, <1>3, <2>1, GotoMoves DEF OnlyMoves
  <2>3. ViewCurrent(h)' /\ Decides(h)'
    BY <1>1, <2>2 DEF ViewCurrent, Decides, Loops
  <2> QED
    BY <1>1, <1>3, <2>2, <2>3, QuietPass DEF Starting, Finishing
<1>4. CASE ~(Slots(h) <= 0) /\ Goto(h, "start")
             /\ queue' = [queue EXCEPT ![h] = FirstOf(Planned(h), Slots(h))]
  <2> DEFINE Q == FirstOf(Planned(h), Slots(h))
  <2>1. pc'[h] = "start" /\ queue'[h] = Q
    BY <1>4, GotoMoves DEF Typed, TypeOK, LocalTypeOK
  <2>2. OnlyMoves(h)
    BY <1>1, <1>4, GotoMoves DEF OnlyMoves, Typed, TypeOK, LocalTypeOK
  <2>3. /\ Cardinality(Working) \in Nat /\ Limit(h) \in Nat /\ Limit(h) <= MaxParallel
        /\ Slots(h) = Limit(h) - Cardinality(Working)
    <3>1. Working \in SUBSET Step
      BY DEF Working, WithStatus
    <3>2. Limit(h) \in Nat /\ Limit(h) <= MaxParallel
      BY SchedulerAssumption DEF Limit
    <3> QED
      BY <1>1, <3>1, <3>2, StepsFinite DEF Slots, Working
  <2>4. Planned(h) \in SUBSET Step /\ \A s \in Planned(h) : step[s].status = "ready"
    BY <1>1 DEF Planned, Runnable, WithStatus
  <2>5. Q \in SUBSET Planned(h) /\ Cardinality(Q) <= Slots(h)
    <3>1. Slots(h) \in Nat
      BY <1>4, <2>3
    <3> QED
      BY <2>4, <3>1, FirstOfBounded
  <2>6. Q \in SUBSET Step /\ Cardinality(Q) \in Nat
    BY <2>4, <2>5, StepsFinite
  <2> HIDE DEF Q
  <2>7. ViewCurrent(h)' /\ Decides(h)'
    BY <1>1, <2>1, BusyStays DEF Starting
  <2>8. WorkInHand(h)'
    BY <1>1, <1>2, <2>1, <2>4, <2>5 DEF WorkInHand, Starting
  <2>9. NumbersFit(h)' /\ RenewalCurrent(h)' /\ Announces(h)'
    BY <1>1, <1>2, <2>1 DEF NumbersFit, RenewalCurrent, InOrder, Announces
  <2>10. HasRoom(h)'
    <3>1. Cardinality(Working) + Cardinality(Q) <= MaxParallel
      BY <2>3, <2>5, <2>6, SchedulerAssumption
    <3>2. ASSUME SharedWorktree, ~(Q \subseteq SafeToShare)
          PROVE  Working = {} /\ \A s, t \in Q : s = t
      <4>1. ~(Planned(h) \subseteq SafeToShare)
        BY <2>5, <3>2
      <4>2. Limit(h) = 1
        BY <3>2, <4>1 DEF Limit
      <4>3. Cardinality(Working) = 0 /\ Cardinality(Q) <= 1
        BY <1>4, <2>3, <2>5, <2>6, <4>2
      <4>4. Working = {}
        BY <4>3, StepsFinite, FS_EmptySet DEF Working, WithStatus
      <4> QED
        BY <2>6, <4>3, <4>4, AtMostOne
    <3>3. Working' = Working /\ queue'[h] = Q /\ pc'[h] # "launch"
      BY <1>1, <2>1 DEF Working
    <3> QED
      BY <3>1, <3>2, <3>3 DEF HasRoom
  <2>11. FilesInOrder'
    BY <1>1, FilesUnwritten
  <2> QED
    BY <1>1, <2>1, <2>2, <2>7, <2>8, <2>9, <2>10, <2>11, OnlyMoverMatters DEF InOrder
<1>5. AfterDrain(h) \in {"exit", "idle"}
  BY DEF AfterDrain
<1> QED
  BY <1>3, <1>4, <1>5 DEF Plan

------------------------------------------------------------------------------
(* Starting the planned steps.                                             *)

\* The next planned step gets a number.
LEMMA StartStepKeeps ==
  ASSUME Typed, SoloInv, NEW h \in Holder, StartStep(h)
  PROVE  SoloInv'
<1>0. PICK s \in Step : s = First(queue[h]) /\ s \in queue[h]
  BY StepInHand DEF StartStep
<1>1. /\ pc[h] = "start" /\ InOrder(h) /\ FilesInOrder /\ ~changed[h] /\ run = "running"
      /\ number' = [number EXCEPT ![h][s] = Len(attempt[s]) + 1]
      /\ UNCHANGED <<queue, execs, emit, renewal, run, step, attempt, ended, outcomes,
                     launched, changed>>
  BY <1>0 DEF StartStep, At, SoloInv, store, log, history, InOrder, ViewCurrent, Loops, Decides
<1>2. pc'[h] = "open" /\ OnlyMoves(h)
  BY <1>1, GotoMoves DEF OnlyMoves, StartStep
<1>3. /\ number'[h][s] = Len(attempt[s]) + 1
      /\ \A t \in Step : t # s => number'[h][t] = number[h][t]
  BY <1>1 DEF Typed, TypeOK, LocalTypeOK
<1>4. ViewCurrent(h)' /\ Decides(h)'
  BY <1>1, <1>2, BusyStays DEF Starting
<1>5. WorkInHand(h)'
  <2>1. execs[h] \in SUBSET Step /\ s \notin execs[h]
    BY <1>0, <1>1 DEF InOrder, WorkInHand, Typed, TypeOK, LocalTypeOK
  <2>2. \A e \in execs[h] : Own(h, e)'
    BY <1>1, <1>3, <2>1 DEF InOrder, WorkInHand, Own
  <2> QED
    BY <1>1, <1>2, <2>2 DEF InOrder, WorkInHand, Starting
<1>6. NumbersFit(h)'
  BY <1>0, <1>1, <1>2, <1>3 DEF NumbersFit
<1>7. RenewalCurrent(h)' /\ Announces(h)' /\ HasRoom(h)'
  BY <1>1, <1>2 DEF InOrder, RenewalCurrent, Announces, HasRoom, Starting, Working
<1>8. FilesInOrder'
  BY <1>1, FilesUnwritten
<1> QED
  BY <1>1, <1>2, <1>4, <1>5, <1>6, <1>7, <1>8, OnlyMoverMatters DEF InOrder

\* The attempt is listed at the end of the attempts.
LEMMA OpenAttemptKeeps ==
  ASSUME Typed, Typed', SoloInv, NEW h \in Holder, OpenAttempt(h)
  PROVE  SoloInv'
<1>0. PICK s \in Step : s = First(queue[h]) /\ s \in queue[h]
  BY StepInHand DEF OpenAttempt, At, StartingAt
<1>1. /\ pc[h] = "open" /\ InOrder(h) /\ FilesInOrder /\ ~changed[h] /\ run = "running"
      /\ UNCHANGED <<queue, execs, emit, renewal, run, step, ended, outcomes,
                     launched, changed, number, live>>
  BY DEF OpenAttempt, At, SoloInv, log, history, local, InOrder, ViewCurrent, Loops, Decides
<1>2. pc'[h] = "lease" /\ OnlyMoves(h)
  BY <1>1, GotoMoves DEF OnlyMoves, OpenAttempt
<1> DEFINE l == Len(attempt[s])
<1>3. attempt[s] \in Seq(AttemptState) /\ l \in Nat /\ DOMAIN attempt[s] = 1..l
  BY LenProperties DEF Typed, TypeOK, StoreTypeOK
<1>4. number[h][s] = l + 1 /\ step[s].status = "ready"
  BY <1>0, <1>1 DEF InOrder, NumbersFit, WorkInHand
<1>5. attempt' = [attempt EXCEPT ![s] = Append(attempt[s], "open")]
  <2>1. ~(number[h][s] <= Len(attempt[s]))
    BY <1>3, <1>4
  <2> QED
    BY <1>0, <2>1 DEF OpenAttempt
<1>6. attempt'[s] = Append(attempt[s], "open") /\ \A t \in Step : t # s => attempt'[t] = attempt[t]
  BY <1>5 DEF Typed, TypeOK, StoreTypeOK
<1>7. /\ Len(attempt'[s]) = l + 1 /\ DOMAIN attempt'[s] = 1..(l + 1)
      /\ attempt'[s][l + 1] = "open"
      /\ \A m \in 1..l : attempt'[s][m] = attempt[s][m]
  <2>1. "open" \in AttemptState
    BY DEF AttemptState
  <2>2. Append(attempt[s], "open") \in Seq(AttemptState)
    BY <1>3, <2>1, AppendProperties
  <2> QED
    BY <1>3, <1>6, <2>1, <2>2, AppendProperties, LenProperties
<1> HIDE DEF l
<1>8. Lifecycle(s)'
  <2>1. Lifecycle(s) /\ step'[s] = step[s] /\ launched'[s] = launched[s]
    BY <1>1 DEF FilesInOrder
  <2>2. \A m \in 1..l : Repeatable(s, m)' <=> Repeatable(s, m)
    BY <1>7 DEF Repeatable
  <2>3. launched[s] \in SUBSET (1..l)
    BY <1>3, <2>1 DEF Lifecycle
  <2>4. launched'[s] \in SUBSET DOMAIN attempt'[s]
    BY <1>3, <1>7, <2>1, <2>3
  <2>5. /\ step[s].latest # 0 =>
             step[s].latest \in DOMAIN attempt'[s] /\ Repeatable(s, step[s].latest)'
        /\ \A m \in launched[s] : Repeatable(s, m)'
    <3>1. step[s].latest # 0 => step[s].latest \in 1..l /\ Repeatable(s, step[s].latest)
      BY <1>3, <1>4, <2>1 DEF Lifecycle
    <3>2. \A m \in launched[s] : Repeatable(s, m)
      BY <1>4, <2>1 DEF Lifecycle
    <3>3. step[s].latest # 0 => step[s].latest \in 1..(l + 1)
      BY <1>3, <3>1
    <3>4. step[s].latest # 0 => Repeatable(s, step[s].latest)'
      <4>1. PICK p : p = step[s].latest
        OBVIOUS
      <4> QED
        BY <2>1, <2>2, <3>1, <4>1 DEF Repeatable
    <3> QED
      BY <1>7, <2>2, <2>3, <3>2, <3>3, <3>4
  <2>6. step[s].latest = 0 => \A n \in DOMAIN attempt'[s] : attempt'[s][n] = "open"
    <3> SUFFICES ASSUME step[s].latest = 0, NEW n \in 1..(l + 1)
                 PROVE  attempt'[s][n] = "open"
      BY <1>7
    <3>1. \A m \in 1..l : attempt[s][m] = "open"
      BY <1>3, <1>4, <2>1 DEF Lifecycle
    <3>2. n \in 1..l \/ n = l + 1
      BY <1>3
    <3> QED
      BY <1>7, <3>1, <3>2
  <2>7. \E k \in 1..(Len(attempt'[s]) + 1) :
          \A m \in launched'[s] : m # k => m < k /\ Repeatable(s, m)'
    <3>1. PICK k \in 1..(l + 1) : \A m \in launched[s] : m # k => m < k /\ Repeatable(s, m)
      BY <2>1 DEF Lifecycle, l
    <3>2. k \in 1..(Len(attempt'[s]) + 1)
      BY <1>3, <1>7
    <3>3. \A m \in launched'[s] : m # k => m < k /\ Repeatable(s, m)'
      BY <2>1, <2>2, <2>3, <3>1
    <3> QED
      BY <3>2, <3>3
  <2>8. step'[s].status = "ready" /\ step'[s].latest = step[s].latest
    BY <1>4, <2>1
  <2> QED
    BY <2>1, <2>4, <2>5, <2>6, <2>7, <2>8 DEF Lifecycle, Repeatable
<1>9. FilesInOrder'
  <2>1. ASSUME NEW t \in Step, t # s PROVE Lifecycle(t)'
    BY <1>1, <1>6, <2>1 DEF FilesInOrder, Lifecycle, Repeatable
  <2>2. OutcomesSettled' /\ EventsFollowRecords' /\ MutableAlone'
    BY <1>1 DEF FilesInOrder, OutcomesSettled, EventsFollowRecords, MutableAlone, Settled
  <2> QED
    BY <1>8, <2>1, <2>2 DEF FilesInOrder
<1>10. ViewCurrent(h)' /\ Decides(h)'
  BY <1>1, <1>2, BusyStays DEF Starting
<1>11. WorkInHand(h)' /\ RenewalCurrent(h)' /\ Announces(h)' /\ HasRoom(h)'
  BY <1>1, <1>2 DEF InOrder, WorkInHand, Own, RenewalCurrent, Announces, HasRoom, Starting, Working
<1>12. NumbersFit(h)'
  <2>1. number'[h][s] = l + 1 /\ l + 1 # 0 /\ First(queue'[h]) = s
    BY <1>0, <1>1, <1>3, <1>4
  <2> QED
    BY <1>2, <1>7, <2>1 DEF NumbersFit
<1> QED
  BY <1>1, <1>2, <1>9, <1>10, <1>11, <1>12, OnlyMoverMatters DEF InOrder

\* A planned step is written as running, for this process.
LEMMA TakeLeaseKeeps ==
  ASSUME Typed, Typed', SoloInv, NEW h \in Holder, TakeLease(h)
  PROVE  SoloInv'
<1>0. PICK s \in Step : s = First(queue[h]) /\ s \in queue[h]
  BY StepInHand DEF TakeLease, At, StartingAt
<1>1. /\ pc[h] = "lease" /\ InOrder(h) /\ FilesInOrder /\ ~changed[h] /\ run = "running"
      /\ step' = [step EXCEPT ![s] = [status |-> "running", lease |-> h,
                                      latest |-> number[h][s]]]
      /\ UNCHANGED <<queue, execs, emit, renewal, run, attempt, ended, outcomes,
                     launched, changed, number, live>>
  BY <1>0 DEF TakeLease, At, SoloInv, log, history, local, InOrder, ViewCurrent, Loops, Decides
<1>2. pc'[h] = "launch" /\ OnlyMoves(h)
  BY <1>1, GotoMoves DEF OnlyMoves, TakeLease
<1>3. /\ step'[s].status = "running" /\ step'[s].lease = h /\ step'[s].latest = number[h][s]
      /\ \A t \in Step : t # s => step'[t] = step[t]
  BY <1>1 DEF Typed, TypeOK, StoreTypeOK
<1>4. attempt[s] \in Seq(AttemptState) /\ Len(attempt[s]) \in Nat /\ DOMAIN attempt[s] = 1..Len(attempt[s])
  BY LenProperties DEF Typed, TypeOK, StoreTypeOK
<1>5. step[s].status = "ready" /\ s \notin execs[h] /\ queue[h] \in SUBSET Step
  BY <1>0, <1>1 DEF InOrder, WorkInHand, Typed, TypeOK, LocalTypeOK
<1>6. number[h][s] = Len(attempt[s]) /\ number[h][s] # 0
  BY <1>0, <1>1 DEF InOrder, NumbersFit
<1>7. Lifecycle(s)'
  <2>1. Lifecycle(s) /\ UNCHANGED <<attempt, launched>>
    BY <1>1 DEF FilesInOrder
  <2>2. \A m \in launched[s] : m \in 1..Len(attempt[s]) /\ Repeatable(s, m)
    BY <1>4, <1>5, <2>1 DEF Lifecycle
  <2>3. number[h][s] \in DOMAIN attempt[s]
    BY <1>4, <1>6
  <2>4. \A m \in launched[s] : m # number[h][s] => m < number[h][s] /\ Repeatable(s, m)
    BY <1>4, <1>6, <2>2
  <2>5. /\ launched[s] \subseteq DOMAIN attempt[s]
        /\ \E k \in 1..(Len(attempt[s]) + 1) :
             \A m \in launched[s] : m # k => m < k /\ Repeatable(s, m)
    BY <2>1 DEF Lifecycle
  <2> QED
    BY <1>3, <2>1, <2>3, <2>4, <2>5 DEF Lifecycle, Repeatable
<1>8. WithStatus(step', "running") = Working \cup {s} /\ s \notin Working
  BY <1>3, <1>5 DEF WithStatus, Working
<1>9. IsFiniteSet(Working) /\ Cardinality(Working) \in Nat
      /\ IsFiniteSet(queue[h]) /\ Cardinality(queue[h]) \in Nat
  BY <1>5, StepsFinite DEF WithStatus, Working
<1>10. /\ Cardinality(Working) + Cardinality(queue[h]) <= MaxParallel
       /\ SharedWorktree =>
            \/ queue[h] \subseteq SafeToShare
            \/ (\A t, u \in queue[h] : t = u) /\ Working = {}
  BY <1>1 DEF InOrder, HasRoom, Starting
<1>11. MutableAlone'
  <2> SUFFICES ASSUME SharedWorktree
               PROVE  Cardinality(WithStatus(step', "running") \ SafeToShare) <= 1
    BY DEF MutableAlone
  <2>1. CASE queue[h] \subseteq SafeToShare
    <3>1. (Working \cup {s}) \ SafeToShare = Working \ SafeToShare
      BY <1>0, <2>1
    <3> QED
      BY <1>1, <1>8, <3>1 DEF FilesInOrder, MutableAlone, Working
  <2>2. CASE Working = {}
    <3>1. WithStatus(step', "running") \ SafeToShare \in SUBSET {s}
      BY <1>8, <2>2
    <3>2. IsFiniteSet({s}) /\ Cardinality({s}) = 1
      BY FS_Singleton
    <3> QED
      BY <3>1, <3>2, FS_Subset
  <2> QED
    BY <1>10, <2>1, <2>2
<1>12. FilesInOrder'
  <2>1. step[s].status \notin EndStatus
    BY <1>5 DEF EndStatus
  <2>2. UNCHANGED <<run, attempt, ended, outcomes, launched>>
    BY <1>1
  <2> QED
    BY <1>1, <1>3, <1>7, <1>11, <2>1, <2>2, RecordWritten
<1>13. ViewCurrent(h)' /\ Decides(h)'
  BY <1>1, <1>2, BusyStays DEF Starting
<1>14. WorkInHand(h)'
  <2>1. \A e \in execs[h] : Own(h, e)'
    <3>1. \A e \in execs[h] : e # s /\ e \in Step
      BY <1>5 DEF Typed, TypeOK, LocalTypeOK
    <3> QED
      BY <1>1, <1>3, <3>1 DEF InOrder, WorkInHand, Own
  <2>2. Own(h, s)'
    BY <1>1, <1>3 DEF Own
  <2>3. \A t \in queue[h] : step'[t].status = "ready" \/ t = s
    <3>1. \A t \in queue[h] : step[t].status = "ready"
      BY <1>1 DEF InOrder, WorkInHand
    <3> QED
      BY <1>3, <1>5, <3>1
  <2>4. First(queue'[h]) = s /\ UNCHANGED <<queue, execs>>
    BY <1>0, <1>1
  <2> QED
    BY <1>1, <1>2, <2>1, <2>2, <2>3, <2>4 DEF InOrder, WorkInHand, Own, Starting
<1>15. NumbersFit(h)'
  BY <1>2 DEF NumbersFit
<1>16. RenewalCurrent(h)'
  <2>1. renewal[h] # NoRenewal => renewal[h].step \in execs[h]
    BY <1>1 DEF InOrder, RenewalCurrent
  <2>2. \A e \in execs[h] : e # s /\ e \in Step
    BY <1>5 DEF Typed, TypeOK, LocalTypeOK
  <2> QED
    BY <1>1, <1>2, <1>3, <2>1, <2>2 DEF InOrder, RenewalCurrent
<1>17. Announces(h)'
  <2>1. \A t \in Step : step[t].status \in EndStatus => step'[t].status = step[t].status
    BY <1>3, <1>5 DEF EndStatus
  <2> QED
    BY <1>1, <2>1, AnnouncesStays DEF InOrder
<1>18. HasRoom(h)'
  <2>1. Cardinality(WithStatus(step', "running")) = Cardinality(Working) + 1
    BY <1>8, <1>9, FS_AddElement
  <2>2. Cardinality(WithStatus(step', "running")) + Cardinality(queue[h]) <= MaxParallel + 1
    BY <1>9, <1>10, <2>1, SchedulerAssumption
  <2> QED
    BY <1>1, <1>2, <1>10, <2>2 DEF HasRoom, Working
<1> QED
  BY <1>1, <1>2, <1>12, <1>13, <1>14, <1>15, <1>16, <1>17, <1>18, OnlyMoverMatters DEF InOrder

\* The backend of the step that was just leased is started.
LEMMA LaunchKeeps ==
  ASSUME Typed, Typed', SoloInv, NEW h \in Holder, Launch(h)
  PROVE  SoloInv'
<1>0. PICK s \in Step : s = First(queue[h]) /\ s \in queue[h]
  BY StepInHand DEF Launch, At, StartingAt
<1>1. /\ pc[h] = "launch" /\ InOrder(h) /\ FilesInOrder /\ ~changed[h] /\ run = "running"
      /\ UNCHANGED <<emit, renewal, run, step, attempt, ended, outcomes, changed, number>>
  BY DEF Launch, At, SoloInv, store, log, InOrder, ViewCurrent, Loops, Decides
<1>2. /\ queue' = [queue EXCEPT ![h] = @ \ {s}] /\ execs' = [execs EXCEPT ![h] = @ \cup {s}]
      /\ \/ launched' = [launched EXCEPT ![s] = @ \cup {number[h][s]}]
         \/ UNCHANGED launched
  BY <1>0 DEF Launch
<1>3. queue'[h] = queue[h] \ {s} /\ execs'[h] = execs[h] \cup {s}
  BY <1>2 DEF Typed, TypeOK, LocalTypeOK
<1>4. pc'[h] = "start" /\ OnlyMoves(h)
  <2>1. Goto(h, "start")
    BY DEF Launch
  <2> QED
    BY <1>1, <1>2, <2>1, GotoMoves DEF OnlyMoves, Typed, TypeOK, LocalTypeOK
<1>5. Own(h, s)
  BY <1>0, <1>1 DEF InOrder, WorkInHand
<1>6. Lifecycle(s)'
  <2>1. Lifecycle(s) /\ UNCHANGED <<attempt, step>>
    BY <1>1 DEF FilesInOrder
  <2>2. PICK n \in DOMAIN attempt[s] : n = number[h][s] /\ n = step[s].latest
    BY <1>5, <2>1 DEF Lifecycle, Own
  <2>3. \A m \in launched[s] : m # n => m < n /\ Repeatable(s, m)
    BY <1>5, <2>1, <2>2 DEF Lifecycle, Own
  <2>4. launched'[s] \in SUBSET (launched[s] \cup {n})
    BY <1>2, <2>2 DEF Typed, TypeOK, StoreTypeOK
  <2>5. \A m \in launched'[s] : m # n => m < n /\ Repeatable(s, m)
    BY <2>3, <2>4
  <2>6. launched'[s] \subseteq DOMAIN attempt[s]
    BY <2>1, <2>4 DEF Lifecycle
  <2>7. n \in 1..(Len(attempt[s]) + 1)
    BY <2>2, LenProperties DEF Typed, TypeOK, StoreTypeOK
  <2>8. step[s].status = "running"
    BY <1>5 DEF Own
  <2>9. \A m : Repeatable(s, m)' <=> Repeatable(s, m)
    BY <2>1 DEF Repeatable
  <2> QED
    BY <2>1, <2>2, <2>5, <2>6, <2>7, <2>8, <2>9 DEF Lifecycle
<1>7. FilesInOrder'
  <2>1. ASSUME NEW t \in Step, t # s PROVE Lifecycle(t)'
    <3>1. Lifecycle(t) /\ launched'[t] = launched[t]
      BY <1>1, <1>2, <2>1 DEF FilesInOrder, Typed, TypeOK, StoreTypeOK
    <3> QED
      BY <1>1, <3>1 DEF Lifecycle, Repeatable
  <2>2. OutcomesSettled' /\ EventsFollowRecords' /\ MutableAlone'
    BY <1>1 DEF FilesInOrder, OutcomesSettled, EventsFollowRecords, MutableAlone, Settled
  <2> QED
    BY <1>6, <2>1, <2>2 DEF FilesInOrder
<1>8. ViewCurrent(h)' /\ Decides(h)'
  BY <1>1, <1>4, BusyStays DEF Starting
<1>9. WorkInHand(h)'
  <2>1. \A e \in execs'[h] : Own(h, e)'
    BY <1>1, <1>3, <1>5 DEF InOrder, WorkInHand, Own
  <2>2. queue'[h] \cap execs'[h] = {}
    BY <1>1, <1>3 DEF InOrder, WorkInHand
  <2>3. \A t \in queue'[h] : step[t].status = "ready"
    BY <1>0, <1>1, <1>3 DEF InOrder, WorkInHand
  <2> QED
    BY <1>1, <1>4, <2>1, <2>2, <2>3 DEF WorkInHand, Starting
<1>10. NumbersFit(h)' /\ RenewalCurrent(h)' /\ Announces(h)'
  BY <1>1, <1>3, <1>4 DEF InOrder, NumbersFit, RenewalCurrent, Announces
<1>11. HasRoom(h)'
  <2>1. queue[h] \in SUBSET Step
    BY DEF Typed, TypeOK, LocalTypeOK
  <2>2. Cardinality(queue[h]) \in Nat /\ Cardinality(queue'[h]) = Cardinality(queue[h]) - 1
    BY <1>0, <1>3, <2>1, StepsFinite, FS_RemoveElement
  <2>3. Cardinality(Working) \in Nat
    BY StepsFinite DEF Working, WithStatus
  <2>4. /\ Cardinality(Working) + Cardinality(queue[h]) <= MaxParallel + 1
        /\ SharedWorktree => queue[h] \subseteq SafeToShare \/ \A t, u \in queue[h] : t = u
    BY <1>1 DEF InOrder, HasRoom, Starting
  <2>5. Cardinality(Working) + Cardinality(queue'[h]) <= MaxParallel
    BY <2>2, <2>3, <2>4, SchedulerAssumption
  <2>6. SharedWorktree => queue'[h] \subseteq SafeToShare
    BY <1>0, <1>3, <2>4
  <2>7. Working' = Working
    BY <1>1 DEF Working
  <2> QED
    BY <1>4, <2>5, <2>6, <2>7 DEF HasRoom
<1> QED
  BY <1>1, <1>4, <1>7, <1>8, <1>9, <1>10, <1>11, OnlyMoverMatters DEF InOrder

------------------------------------------------------------------------------
(* Finishing the executions.                                               *)

\* The pass goes on to another place of its second half, and writes nothing.
LEMMA WaitingKeeps ==
  ASSUME Typed, SoloInv, NEW h \in Holder,
         \/ Started(h) \/ AwaitResult(h) \/ TakeResult(h) \/ LoseRace(h)
         \/ CancelConfirmed(h) \/ CancelRefused(h)
  PROVE  SoloInv'
<1>1. /\ pc[h] \in Starting \cup Finishing /\ pc[h] # "launch" /\ InOrder(h) /\ FilesInOrder
      /\ UNCHANGED <<queue, execs, emit, renewal, run, step, attempt, ended, outcomes,
                     launched, changed, number>>
  BY DEF Started, AwaitResult, TakeResult, LoseRace, CancelConfirmed, CancelRefused, At,
     SoloInv, store, log, history, local, Starting, Finishing
<1>2. ~changed[h] /\ run = "running"
  BY <1>1 DEF InOrder, ViewCurrent, Decides, Loops, Starting, Finishing
<1>3. queue[h] = {}
  BY <1>1 DEF Started, AwaitResult, TakeResult, LoseRace, CancelConfirmed, CancelRefused, At,
     InOrder, WorkInHand, Starting
<1>4. PICK p \in Finishing \ {"settle"} : Goto(h, p)
  BY DEF Started, AwaitResult, TakeResult, LoseRace, CancelConfirmed, CancelRefused, Finishing
<1>5. pc'[h] = p /\ OnlyMoves(h)
  BY <1>1, <1>4, GotoMoves DEF OnlyMoves
<1>6. ViewCurrent(h)' /\ Decides(h)'
  BY <1>1, <1>2, <1>5, BusyStays
<1>7. WorkInHand(h)'
  BY <1>1, <1>3, <1>5 DEF InOrder, WorkInHand, Own, Finishing
<1>8. NumbersFit(h)' /\ HasRoom(h)'
  BY <1>5 DEF NumbersFit, HasRoom, Starting, Finishing
<1>9. RenewalCurrent(h)' /\ Announces(h)'
  BY <1>1, <1>5 DEF InOrder, RenewalCurrent, Announces, Starting, Finishing
<1>10. FilesInOrder'
  BY <1>1, FilesUnwritten
<1>11. pc[h] # "stopped" /\ pc'[h] # "stopped"
  BY <1>1, <1>5 DEF Starting, Finishing
<1> QED
  BY <1>5, <1>6, <1>7, <1>8, <1>9, <1>10, <1>11, OnlyMoverMatters DEF InOrder

\* All executions are finished.
LEMMA FinishedKeeps ==
  ASSUME Typed, SoloInv, NEW h \in Holder, Finished(h)
  PROVE  SoloInv'
<1>1. /\ pc[h] = "await" /\ InOrder(h) /\ FilesInOrder /\ execs[h] = {}
      /\ UNCHANGED <<queue, execs, emit, renewal, run, step, attempt, ended, outcomes,
                     launched, changed>>
      /\ after' = [after EXCEPT ![h] = "drained"]
  BY DEF Finished, At, SoloInv, store, log, history
<1>2. ~changed[h] /\ run = "running" /\ queue[h] = {} /\ renewal[h] = NoRenewal
  BY <1>1 DEF InOrder, ViewCurrent, Decides, WorkInHand, RenewalCurrent, Loops, Starting
<1>3. pc'[h] = "finalize" /\ OnlyMoves(h) /\ after'[h] = "drained"
  BY <1>1, GotoMoves DEF OnlyMoves, Finished, Typed, TypeOK, LocalTypeOK
<1>4. ViewCurrent(h)' /\ Decides(h)'
  BY <1>1, <1>2, <1>3 DEF ViewCurrent, Decides, Loops
<1>5. WorkInHand(h)' /\ NumbersFit(h)' /\ RenewalCurrent(h)' /\ HasRoom(h)'
  BY <1>1, <1>2, <1>3, EmptyHandedStays DEF Starting, Finishing
<1>6. Announces(h)' /\ FilesInOrder'
  BY <1>1, FilesUnwritten DEF InOrder, Announces
<1> QED
  BY <1>1, <1>3, <1>4, <1>5, <1>6, OnlyMoverMatters DEF InOrder

\* An execution that could not be cancelled is forgotten, its record stays.
LEMMA PreserveRunningKeeps ==
  ASSUME Typed, SoloInv, NEW h \in Holder, PreserveRunning(h)
  PROVE  SoloInv'
<1>0. PICK s \in Step : s = First(execs[h]) /\ s \in execs[h]
  BY StepInHand DEF PreserveRunning, At, FinishingAt
<1>1. /\ pc[h] = "preserve" /\ InOrder(h) /\ FilesInOrder /\ ~changed[h] /\ run = "running"
      /\ renewal[h].step # s
      /\ UNCHANGED <<queue, emit, renewal, run, step, attempt, ended, outcomes,
                     launched, changed>>
  BY <1>0 DEF PreserveRunning, At, SoloInv, store, log, history, InOrder, ViewCurrent, Decides, Loops
<1>2. Goto(h, "await") /\ Forget(h, s)
  BY <1>0 DEF PreserveRunning
<1>3. /\ execs'[h] = execs[h] \ {s} /\ execs[h] \in SUBSET Step
      /\ \A t \in Step : t # s => number'[h][t] = number[h][t]
  BY <1>2 DEF Forget, Typed, TypeOK, LocalTypeOK
<1>4. pc'[h] = "await" /\ OnlyMoves(h)
  BY <1>1, <1>2, GotoMoves DEF OnlyMoves, Forget, Typed, TypeOK, LocalTypeOK
<1>5. ViewCurrent(h)' /\ Decides(h)'
  BY <1>1, <1>4, BusyStays DEF Finishing
<1>6. WorkInHand(h)'
  <2>1. queue[h] = {}
    BY <1>1 DEF InOrder, WorkInHand, Starting
  <2> QED
    BY <1>1, <1>3, <1>4, <2>1 DEF InOrder, WorkInHand, Own, Finishing
<1>7. NumbersFit(h)' /\ HasRoom(h)'
  BY <1>4 DEF NumbersFit, HasRoom, Starting
<1>8. RenewalCurrent(h)' /\ Announces(h)'
  BY <1>1, <1>3, <1>4 DEF InOrder, RenewalCurrent, Announces
<1>9. FilesInOrder'
  BY <1>1, FilesUnwritten
<1> QED
  BY <1>1, <1>4, <1>5, <1>6, <1>7, <1>8, <1>9, OnlyMoverMatters DEF InOrder

\* The result replaces the attempt that is the latest of its step.
LEMMA RecordResultKeeps ==
  ASSUME Typed, Typed', SoloInv, NEW h \in Holder, RecordResult(h)
  PROVE  SoloInv'
<1>0. PICK s \in Step : s = First(execs[h]) /\ s \in execs[h]
  BY StepInHand DEF RecordResult, At, FinishingAt
<1>1. /\ pc[h] = "record" /\ InOrder(h) /\ FilesInOrder /\ ~changed[h] /\ run = "running"
      /\ renewal[h].step # s
      /\ UNCHANGED <<queue, execs, emit, renewal, run, step, ended, outcomes,
                     launched, changed, number>>
  BY <1>0 DEF RecordResult, At, SoloInv, log, history, InOrder, ViewCurrent, Decides, Loops
<1>2. PICK r : /\ attempt' = [attempt EXCEPT ![s][number[h][s]] = r]
               /\ live' = [live EXCEPT ![h][s] = r]
  BY <1>0 DEF RecordResult
<1>3. pc'[h] = "settle" /\ OnlyMoves(h)
  BY <1>1, GotoMoves DEF OnlyMoves, RecordResult
<1>4. Own(h, s) /\ Lifecycle(s)
  BY <1>0, <1>1 DEF InOrder, WorkInHand, FilesInOrder
<1>5. PICK n \in DOMAIN attempt[s] : n = number[h][s] /\ n = step[s].latest
  BY <1>4 DEF Lifecycle, Own
<1>6. /\ attempt'[s] = [attempt[s] EXCEPT ![n] = r]
      /\ \A t \in Step : t # s => attempt'[t] = attempt[t]
  BY <1>2, <1>5 DEF Typed, TypeOK, StoreTypeOK
<1>7. /\ DOMAIN attempt'[s] = DOMAIN attempt[s] /\ attempt'[s][n] = r
      /\ \A m \in DOMAIN attempt[s] : m # n => attempt'[s][m] = attempt[s][m]
  BY <1>6
<1>8. Len(attempt'[s]) \in Nat /\ DOMAIN attempt'[s] = 1..Len(attempt'[s])
  BY LenProperties DEF Typed, TypeOK, StoreTypeOK
<1>9. Lifecycle(s)'
  <2>1. launched[s] \subseteq DOMAIN attempt[s] /\ step[s].status = "running"
    BY <1>4 DEF Lifecycle, Own
  <2>2. \A m \in launched[s] : m # n => m < n /\ Repeatable(s, m)
    BY <1>4, <1>5, <2>1 DEF Lifecycle
  <2>3. \A m \in launched[s] : m # n => m < n /\ Repeatable(s, m)'
    BY <1>7, <2>1, <2>2 DEF Repeatable
  <2>4. n \in 1..(Len(attempt'[s]) + 1)
    BY <1>5, <1>7, <1>8
  <2>5. \E k \in 1..(Len(attempt'[s]) + 1) :
          \A m \in launched[s] : m # k => m < k /\ Repeatable(s, m)'
    BY <2>3, <2>4
  <2>6. step'[s].status = "running" /\ step'[s].latest = n /\ launched'[s] = launched[s]
    BY <1>1, <1>5, <2>1
  <2> QED
    BY <1>7, <2>1, <2>3, <2>5, <2>6 DEF Lifecycle
<1>10. FilesInOrder'
  <2>1. ASSUME NEW t \in Step, t # s PROVE Lifecycle(t)'
    BY <1>1, <1>6, <2>1 DEF FilesInOrder, Lifecycle, Repeatable
  <2>2. OutcomesSettled' /\ EventsFollowRecords' /\ MutableAlone'
    BY <1>1 DEF FilesInOrder, OutcomesSettled, EventsFollowRecords, MutableAlone, Settled
  <2> QED
    BY <1>9, <2>1, <2>2 DEF FilesInOrder
<1>11. ViewCurrent(h)' /\ Decides(h)'
  BY <1>1, <1>3, BusyStays DEF Finishing
<1>12. WorkInHand(h)'
  <2>1. queue[h] = {}
    BY <1>1 DEF InOrder, WorkInHand, Starting
  <2> QED
    BY <1>1, <1>3, <2>1 DEF InOrder, WorkInHand, Own, Finishing
<1>13. NumbersFit(h)'
  <2>1. First(execs'[h]) = s /\ number'[h][s] = n /\ attempt'[s][n] = r
    BY <1>0, <1>1, <1>5, <1>7
  <2>2. live'[h][s] = r
    BY <1>2 DEF Typed, TypeOK, LocalTypeOK
  <2> QED
    BY <1>3, <2>1, <2>2 DEF NumbersFit
<1>14. RenewalCurrent(h)' /\ Announces(h)' /\ HasRoom(h)'
  BY <1>0, <1>1, <1>3 DEF InOrder, RenewalCurrent, Announces, HasRoom, Starting
<1> QED
  BY <1>1, <1>3, <1>10, <1>11, <1>12, <1>13, <1>14, OnlyMoverMatters DEF InOrder

\* The record of the step is written from its result.
LEMMA SettleKeeps ==
  ASSUME Typed, Typed', SoloInv, NEW h \in Holder, Settle(h)
  PROVE  SoloInv'
<1>0. PICK s \in Step : s = First(execs[h]) /\ s \in execs[h]
  BY StepInHand DEF Settle, At, FinishingAt
<1> DEFINE status == Transition(s, number[h][s], live[h][s])
           r == [status |-> status, lease |-> NoHolder, latest |-> number[h][s]]
<1>1. /\ pc[h] = "settle" /\ InOrder(h) /\ FilesInOrder /\ ~changed[h] /\ run = "running"
      /\ Write(h, s, r, Announcing(status)) /\ Forget(h, s) /\ Goto(h, "await")
      /\ UNCHANGED <<queue, renewal, run, attempt, ended, outcomes, launched, changed>>
  BY <1>0 DEF Settle, At, SoloInv, history, InOrder, ViewCurrent, Decides, Loops
<1>2. Own(h, s) /\ Lifecycle(s)
  BY <1>0, <1>1 DEF InOrder, WorkInHand, FilesInOrder
<1>3. PICK n \in DOMAIN attempt[s] : n = number[h][s] /\ n = step[s].latest
  BY <1>2 DEF Lifecycle, Own
<1>4. attempt[s][n] = live[h][s] /\ live[h][s] \in Result
  BY <1>0, <1>1, <1>3 DEF InOrder, NumbersFit, Typed, InHand
<1>5. n \in Nat /\ n # 0
  BY <1>3, LenProperties DEF Typed, TypeOK, StoreTypeOK
<1>6. status \in {"ready"} \cup EndStatus
  BY <1>3, <1>4, <1>5, TransitionTyped
<1>7. status = "ready" => Repeatable(s, n)
  <2>1. (live[h][s] = "retry" /\ n < MaxAttempts[s]) \/ status # "ready"
    BY <1>3, <1>4 DEF Transition, Result
  <2> QED
    BY <1>4, <2>1 DEF Repeatable
<1>8. r.status = status /\ r.latest = n
  BY <1>3
<1> HIDE DEF r, status
<1>9. step'[s] = r /\ \A t \in Step : t # s => step'[t] = step[t]
  BY <1>1 DEF Write, Typed, TypeOK, StoreTypeOK
<1>10. /\ execs'[h] = execs[h] \ {s} /\ execs[h] \in SUBSET Step
       /\ \A t \in Step : t # s => number'[h][t] = number[h][t]
  BY <1>1 DEF Forget, Typed, TypeOK, LocalTypeOK
<1>11. pc'[h] = "await" /\ OnlyMoves(h)
  BY <1>1, GotoMoves DEF OnlyMoves, Forget, Write, Typed, TypeOK, LocalTypeOK
<1>12. step[s].status = "running"
  BY <1>2 DEF Own
<1>13. Lifecycle(s)'
  <2>1. UNCHANGED <<attempt, launched>> /\ step'[s].status = status /\ step'[s].latest = n
    BY <1>1, <1>8, <1>9
  <2>2. \A m \in launched[s] : m # n => m < n /\ Repeatable(s, m)
    BY <1>2, <1>3, <1>12 DEF Lifecycle
  <2>3. status = "ready" => \A m \in launched[s] : Repeatable(s, m)
    BY <1>7, <2>2
  <2>4. \A m : Repeatable(s, m)' <=> Repeatable(s, m)
    BY <2>1 DEF Repeatable
  <2>5. /\ launched[s] \subseteq DOMAIN attempt[s]
        /\ \E k \in 1..(Len(attempt[s]) + 1) :
             \A m \in launched[s] : m # k => m < k /\ Repeatable(s, m)
    BY <1>2 DEF Lifecycle
  <2>6. status # "pending" /\ status # "running"
    BY <1>6 DEF EndStatus
  <2>7. status = "ready" => n \in DOMAIN attempt[s] /\ Repeatable(s, n) /\ n # 0
    BY <1>3, <1>5, <1>7
  <2> QED
    BY <2>1, <2>3, <2>4, <2>5, <2>6, <2>7 DEF Lifecycle
<1>14. FilesInOrder'
  <2>1. MutableAlone'
    <3>1. step'[s].status # "running"
      BY <1>6, <1>8, <1>9 DEF EndStatus
    <3> QED
      BY <1>1, <1>9, <3>1, WorkersLeave DEF FilesInOrder
  <2>2. step[s].status \notin EndStatus
    BY <1>12 DEF EndStatus
  <2>3. UNCHANGED <<run, attempt, ended, outcomes, launched>>
    BY <1>1
  <2> QED
    BY <1>1, <1>9, <1>13, <2>1, <2>2, <2>3, RecordWritten
<1>15. ViewCurrent(h)' /\ Decides(h)'
  BY <1>1, <1>11, BusyStays DEF Finishing
<1>16. WorkInHand(h)'
  <2>1. queue[h] = {}
    BY <1>1 DEF InOrder, WorkInHand, Starting
  <2>2. \A e \in execs'[h] : Own(h, e)'
    BY <1>1, <1>9, <1>10 DEF InOrder, WorkInHand, Own
  <2> QED
    BY <1>1, <1>11, <2>1, <2>2 DEF WorkInHand, Finishing
<1>17. NumbersFit(h)' /\ HasRoom(h)'
  BY <1>11 DEF NumbersFit, HasRoom, Starting
<1>18. RenewalCurrent(h)'
  <2>1. renewal[h] # NoRenewal =>
          renewal[h].step \in execs[h] /\ renewal[h].step # s
          /\ step[renewal[h].step] = renewal[h].rec
    BY <1>0, <1>1 DEF InOrder, RenewalCurrent
  <2> QED
    BY <1>1, <1>9, <1>10, <1>11, <2>1 DEF RenewalCurrent
<1>19. Announces(h)'
  <2>1. emit'[h] = {<<Announcing(status), s>>}
    BY <1>1 DEF Write, Typed, TypeOK, LocalTypeOK
  <2>2. Announcing(status) = "step_end" => step'[s].status \in EndStatus
    BY <1>6, <1>8, <1>9 DEF Announcing
  <2> QED
    BY <2>1, <2>2 DEF Announces
<1> QED
  BY <1>1, <1>11, <1>14, <1>15, <1>16, <1>17, <1>18, <1>19, OnlyMoverMatters DEF InOrder

------------------------------------------------------------------------------
(* The environment.                                                        *)

\* Backends that answer, time that passes and a signal change nothing that
\* the invariant reads.
LEMMA UnreadKeeps ==
  ASSUME Typed, SoloInv,
         UNCHANGED <<pc, changed, queue, execs, emit, renewal, view, todo, number, decided,
                     after, run, step, attempt, ended, outcomes, launched>>,
         \A h \in Holder :
           pc[h] = "settle" => live'[h][First(execs[h])] = live[h][First(execs[h])]
  PROVE  SoloInv'
<1>1. FilesInOrder'
  BY FilesUnwritten DEF SoloInv
<1>2. OneAwake'
  BY DEF SoloInv, OneAwake, Resting
<1>3. ASSUME NEW h \in Holder PROVE InOrder(h)'
  <2>1. InOrder(h)
    BY DEF SoloInv
  <2>2. ViewCurrent(h)' /\ WorkInHand(h)'
    BY <2>1 DEF InOrder, ViewCurrent, WorkInHand, Own
  <2>3. NumbersFit(h)' /\ RenewalCurrent(h)' /\ Decides(h)'
    BY <2>1 DEF InOrder, NumbersFit, RenewalCurrent, Decides
  <2>4. Announces(h)' /\ HasRoom(h)'
    BY <2>1 DEF InOrder, Announces, HasRoom, Working
  <2> QED
    BY <2>2, <2>3, <2>4 DEF InOrder
<1> QED
  BY <1>1, <1>2, <1>3 DEF SoloInv

\* Aborts, time, answers of backends, and nothing at all.
LEMMA EnvironmentKeeps ==
  ASSUME Typed, SoloInv,
         \/ \E h \in Holder : Abort(h)
         \/ \E s \in Step : HeartbeatAges(s)
         \/ \E h \in Holder, s \in Step, r \in Answers : BackendReturns(h, s, r)
         \/ UNCHANGED vars
  PROVE  SoloInv'
<1>1. UNCHANGED <<pc, changed, queue, execs, emit, renewal, view, todo, number, decided,
                  after, run, step, attempt, ended, outcomes, launched>>
  BY DEF Abort, HeartbeatAges, BackendReturns, vars, store, log, history, local
<1>2. ASSUME NEW g \in Holder, pc[g] = "settle"
      PROVE  live'[g][First(execs[g])] = live[g][First(execs[g])]
  <2>1. live[g][First(execs[g])] \in Result
    BY <1>2 DEF Typed, InHand
  <2>2. live[g][First(execs[g])] # "going"
    BY <2>1 DEF Result
  <2>3. CASE UNCHANGED live
    BY <2>3
  <2>4. CASE \E h \in Holder, s \in Step, r \in Answers : BackendReturns(h, s, r)
    <3>1. PICK h \in Holder, s \in Step, r \in Answers : BackendReturns(h, s, r)
      BY <2>4
    <3>2. live[h][s] = "going" /\ live' = [live EXCEPT ![h][s] = r]
      BY <3>1 DEF BackendReturns
    <3> QED
      BY <2>2, <3>2 DEF Typed, TypeOK, LocalTypeOK
  <2> QED
    BY <2>3, <2>4 DEF Abort, HeartbeatAges, vars, local
<1> QED
  BY <1>1, <1>2, UnreadKeeps

\* A process that stops takes nothing with it.
LEMMA VanishKeeps ==
  ASSUME Typed, SoloInv, NEW h \in Holder, Exit(h) \/ Crash(h)
  PROVE  SoloInv'
<1>1. /\ pc[h] # "stopped" /\ Vanish(h) /\ FilesInOrder
      /\ UNCHANGED <<run, step, attempt, ended, outcomes, launched>>
  BY DEF Exit, Crash, At, SoloInv, store, log, history
<1>2. Resting(h)' /\ ~changed'[h] /\ OnlyMoves(h)
  BY <1>1 DEF Vanish, Goto, Resting, OnlyMoves, Typed, TypeOK, LocalTypeOK
<1>3. InOrder(h)'
  BY <1>2, RestIsOrder
<1>4. FilesInOrder'
  BY <1>1, FilesUnwritten
<1> QED
  BY <1>1, <1>2, <1>3, <1>4, OnlyMoverMatters

\* The lock lets a process begin only while all the others have stopped.
LEMMA ResumeKeeps ==
  ASSUME Exclusive, Typed, SoloInv, NEW h \in Holder, Resume(h)
  PROVE  SoloInv'
<1>1. /\ \A g \in Holder : pc[g] = "stopped" /\ Resting(g) /\ ~changed[g]
      /\ FilesInOrder
  BY DEF Resume, SoloInv, OneAwake, InOrder, ViewCurrent, Loops
<1>2. UNCHANGED <<changed, queue, execs, emit, renewal, run, step, attempt, ended, outcomes,
                  launched>>
  BY DEF Resume, store, log, history, local
<1>3. pc'[h] = "idle" /\ \A g \in Holder : g # h => pc'[g] = "stopped"
  BY <1>1 DEF Resume, Goto, Typed, TypeOK, LocalTypeOK
<1>4. FilesInOrder'
  BY <1>1, <1>2, FilesUnwritten
<1>5. ASSUME NEW g \in Holder, g # h PROVE Resting(g)' /\ InOrder(g)'
  <2>1. Resting(g)' /\ ~changed'[g]
    BY <1>1, <1>2, <1>3, <1>5 DEF Resting
  <2> QED
    BY <2>1, RestIsOrder
<1>6. InOrder(h)'
  <2>1. queue'[h] = {} /\ execs'[h] = {} /\ renewal'[h] = NoRenewal /\ emit'[h] = {} /\ ~changed'[h]
    BY <1>1, <1>2 DEF Resting
  <2>2. WorkInHand(h)' /\ NumbersFit(h)' /\ RenewalCurrent(h)' /\ HasRoom(h)'
    BY <1>3, <2>1, EmptyHandedStays DEF Starting, Finishing
  <2>3. ViewCurrent(h)' /\ Decides(h)' /\ Announces(h)'
    BY <1>3, <2>1 DEF ViewCurrent, Decides, Announces, Loops
  <2> QED
    BY <2>2, <2>3 DEF InOrder
<1>7. OneAwake'
  BY <1>3, <1>5 DEF OneAwake
<1> QED
  BY <1>4, <1>5, <1>6, <1>7 DEF SoloInv

------------------------------------------------------------------------------
(* The theorems.                                                           *)

\* Nothing has happened yet.
LEMMA SoloInitially ==
  ASSUME Exclusive, Init
  PROVE  SoloInv
<1>1. \A h \in Holder : Resting(h) /\ ~changed[h]
  BY DEF Init, Resting
<1>2. \A s \in Step : step[s].status = "pending" /\ step[s].latest = 0
  BY DEF Init, InitialRecords
<1>3. \A s \in Step : attempt[s] = <<>> /\ launched[s] = {}
  BY DEF Init
<1>4. OneAwake
  BY <1>1 DEF OneAwake, Resting
<1>5. \A h \in Holder : InOrder(h)
  <2> SUFFICES ASSUME NEW h \in Holder PROVE InOrder(h)
    OBVIOUS
  <2>1. ViewCurrent(h) /\ Decides(h) /\ Announces(h)
    BY <1>1 DEF Resting, ViewCurrent, Decides, Announces, Loops
  <2>2. WorkInHand(h) /\ NumbersFit(h) /\ RenewalCurrent(h) /\ HasRoom(h)
    BY <1>1 DEF Resting, WorkInHand, NumbersFit, RenewalCurrent, HasRoom, Starting
  <2> QED
    BY <2>1, <2>2 DEF InOrder
<1>6. \A s \in Step : Lifecycle(s)
  <2> SUFFICES ASSUME NEW s \in Step PROVE Lifecycle(s)
    OBVIOUS
  <2>1. 1 \in 1..(Len(attempt[s]) + 1)
    BY <1>3
  <2> QED
    BY <1>2, <1>3, <2>1 DEF Lifecycle
<1>7. OutcomesSettled /\ EventsFollowRecords
  BY DEF Init, OutcomesSettled, EventsFollowRecords
<1>8. MutableAlone
  <2>1. WithStatus(step, "running") \ SafeToShare = {}
    BY <1>2 DEF WithStatus
  <2> QED
    BY <2>1, FS_EmptySet DEF MutableAlone
<1> QED
  BY <1>4, <1>5, <1>6, <1>7, <1>8 DEF SoloInv, FilesInOrder

\* Every step keeps the invariant.
LEMMA SoloStays ==
  ASSUME Exclusive, Typed, Typed', SoloInv, [Next]_vars
  PROVE  SoloInv'
<1>1. CASE UNCHANGED vars
  BY <1>1, EnvironmentKeeps
<1>2. ASSUME NEW h \in Holder, Proceed(h) PROVE SoloInv'
  BY <1>2, LoadKeeps, MarkReadyKeeps, ReconciledKeeps, AppendEventKeeps, PromoteKeeps,
     PromotedKeeps, GuardsKeep, FinalizeKeeps, AnnounceRunKeeps, RenewOwnedKeeps, PlanKeeps,
     StartStepKeeps, OpenAttemptKeeps, TakeLeaseKeeps, LaunchKeeps, WaitingKeeps,
     PreserveRunningKeeps, RecordResultKeeps, SettleKeeps, FinishedKeeps, VanishKeeps
  DEF Proceed
<1>3. ASSUME NEW h \in Holder,
             RenewTick(h) \/ RenewWrite(h) \/ Abort(h) \/ Crash(h) \/ Resume(h)
      PROVE  SoloInv'
  BY <1>3, RenewTickKeeps, RenewWriteKeeps, EnvironmentKeeps, VanishKeeps, ResumeKeeps
<1>4. ASSUME NEW h \in Holder, NEW s \in Step, NEW r \in Answers, BackendReturns(h, s, r)
      PROVE  SoloInv'
  BY <1>4, EnvironmentKeeps
<1>5. ASSUME NEW s \in Step, HeartbeatAges(s) PROVE SoloInv'
  BY <1>5, EnvironmentKeeps
<1> QED
  BY <1>1, <1>2, <1>3, <1>4, <1>5 DEF Next

\* The invariant holds of every run that one process at a time drives.
LEMMA SoloInvariant ==
  ASSUME Exclusive
  PROVE  Spec => [](Typed /\ SoloInv)
<1>1. Init => SoloInv
  BY SoloInitially
<1>2. Typed /\ Typed' /\ SoloInv /\ [Next]_vars => SoloInv'
  BY SoloStays
<1> QED
  BY <1>1, <1>2, TypeCorrect, PTL DEF Spec

\* The log and run.json agree on one outcome when a lock lets one process at a
\* time run the graph (finalizeRun, and the lock of runStart's callers).
THEOREM OutcomeIsOne ==
  ASSUME Exclusive
  PROVE  Spec => []OneOutcome
<1>1. ASSUME SoloInv PROVE OneOutcome
  <2>1. \A o, p \in outcomes : o = p
    BY <1>1, OneSettles DEF SoloInv, FilesInOrder, OutcomesSettled
  <2>2. Cardinality(outcomes) <= 1
    <3>1. CASE outcomes = {}
      BY <3>1, FS_EmptySet
    <3>2. CASE outcomes # {}
      <4>1. PICK o : outcomes = {o}
        BY <2>1, <3>2
      <4>2. Cardinality({o}) = 1
        BY FS_Singleton
      <4> QED
        BY <4>1, <4>2
    <3> QED
      BY <3>1, <3>2
  <2>3. run # "running" => outcomes = {run}
    BY <1>1, <2>1 DEF SoloInv, FilesInOrder, OutcomesSettled
  <2> QED
    BY <2>2, <2>3 DEF OneOutcome
<1> QED
  BY <1>1, SoloInvariant, PTL

\* In a shared worktree the steps that may change it run one at a time, over
\* passes, crashes and resumed processes (planRunnableSteps).
THEOREM MutableStaysAlone ==
  ASSUME Exclusive
  PROVE  Spec => []MutableAlone
<1>1. SoloInv => MutableAlone
  BY DEF SoloInv, FilesInOrder
<1> QED
  BY <1>1, SoloInvariant, PTL

\* The log never says of a step that it ended unless its record says so, then
\* and ever after (the order of writeStep and appendEvent).
THEOREM EventsAreTrue ==
  ASSUME Exclusive
  PROVE  Spec => []EventsFollowRecords
<1>1. SoloInv => EventsFollowRecords
  BY DEF SoloInv, FilesInOrder
<1> QED
  BY <1>1, SoloInvariant, PTL

\* No backend is started again on a step unless the attempt before asked for
\* it, nor more often than the step may be attempted, whatever crashed in
\* between (promotePersistedAttempts, attemptNumber, effectiveMaxAttempts).
THEOREM WorkIsNotRepeated ==
  ASSUME Exclusive
  PROVE  Spec => []NoDuplicateWork
<1>1. ASSUME Typed, SoloInv PROVE NoDuplicateWork
  <2> SUFFICES ASSUME NEW s \in Step
               PROVE  /\ Cardinality(launched[s]) <= MaxAttempts[s]
                      /\ \A m, n \in launched[s] : m < n => attempt[s][m] = "retry"
    BY DEF NoDuplicateWork
  <2> DEFINE K == MaxAttempts[s] - 1
  <2>1. Lifecycle(s)
    BY <1>1 DEF SoloInv, FilesInOrder
  <2>2. PICK k \in 1..(Len(attempt[s]) + 1) :
          \A m \in launched[s] : m # k => m < k /\ Repeatable(s, m)
    BY <2>1 DEF Lifecycle
  <2>3. \A m \in launched[s] : m \in Nat /\ m # 0
    BY <1>1, <2>1, LenProperties DEF Lifecycle, Typed, TypeOK, StoreTypeOK
  <2>4. k \in Nat /\ K \in Nat /\ MaxAttempts[s] = K + 1
    BY <1>1, <2>2, LenProperties, SchedulerAssumption DEF Typed, TypeOK, StoreTypeOK
  <2>5. \A m, n \in launched[s] : m < n => attempt[s][m] = "retry"
    BY <2>2, <2>3, <2>4 DEF Repeatable
  <2>6. \A m \in launched[s] : m = k \/ m \in 1..K
    BY <2>2, <2>3, <2>4, SchedulerAssumption DEF Repeatable
  <2> HIDE DEF K
  <2>7. IsFiniteSet(1..K) /\ Cardinality(1..K) = K
    BY <2>4, FS_Interval
  <2>8. IsFiniteSet((1..K) \cup {k}) /\ Cardinality((1..K) \cup {k}) <= K + 1
    <3>1. /\ IsFiniteSet((1..K) \cup {k})
          /\ Cardinality((1..K) \cup {k}) = IF k \in 1..K THEN Cardinality(1..K)
                                            ELSE Cardinality(1..K) + 1
      BY <2>7, FS_AddElement
    <3> QED
      BY <2>4, <2>7, <3>1
  <2>9. launched[s] \in SUBSET ((1..K) \cup {k})
    BY <2>6
  <2>10. Cardinality(launched[s]) \in Nat /\ Cardinality(launched[s]) <= Cardinality((1..K) \cup {k})
         /\ Cardinality((1..K) \cup {k}) \in Nat
    BY <2>8, <2>9, FS_Subset, FS_CardinalityType
  <2> QED
    BY <2>4, <2>5, <2>8, <2>10
<1> QED
  BY <1>1, SoloInvariant, PTL

------------------------------------------------------------------------------
(* The run implements the step graph: every write of a record is a move of *)
(* a step, saving the run finishes it, and nothing else is seen.           *)

\* A record that takes another status is a move of its step.
LEMMA WriteMoves ==
  ASSUME run = "running", UNCHANGED run, NEW s \in Step, NEW from, NEW to,
         step[s].status \in from, step'[s].status = to,
         \A t \in Step : t # s => step'[t] = step[t]
  PROVE  Promise!Move(s, from, to)
<1> DEFINE status == [t \in Step |-> step[t].status]
<1>1. [t \in Step |-> step'[t].status] = [status EXCEPT ![s] = to]
  OBVIOUS
<1>2. status[s] \in from
  OBVIOUS
<1> QED
  BY <1>1, <1>2 DEF Promise!Move

\* A record that keeps its status is not seen.
LEMMA WriteHides ==
  ASSUME UNCHANGED run, \A t \in Step : step'[t].status = step[t].status
  PROVE  UNCHANGED Promise!vars
<1>1. [t \in Step |-> step'[t].status] = [t \in Step |-> step[t].status]
  OBVIOUS
<1> QED
  BY <1>1 DEF Promise!vars

\* A step becomes ready behind dependencies that are completed.
LEMMA MarkReadyEnables ==
  ASSUME Typed, SoloInv, NEW h \in Holder, MarkReady(h)
  PROVE  Promise!Next
<1>1. PICK s \in Step : s = First(Unblocked(view[h])) /\ s \in Unblocked(view[h])
  <2>1. Unblocked(view[h]) \in SUBSET Step /\ Unblocked(view[h]) # {}
    BY DEF MarkReady, Unblocked, WithStatus
  <2> QED
    BY <2>1, FirstIn
<1>2. /\ pc[h] \in {"reconcile", "recheck"} /\ InOrder(h)
      /\ Write(h, s, [view[h][s] EXCEPT !.status = "ready"], "step_ready")
      /\ UNCHANGED run
  BY <1>1 DEF MarkReady, At, SoloInv
<1>3. view[h] = step /\ run = "running"
  BY <1>2 DEF InOrder, ViewCurrent, Decides
<1>4. step'[s].status = "ready" /\ \A t \in Step : t # s => step'[t] = step[t]
  BY <1>2, <1>3 DEF Write, Typed, TypeOK, StoreTypeOK, StepRecord
<1>5. step[s].status \in {"pending"} /\ \A d \in Deps[s] : step[d].status = "completed"
  BY <1>1, <1>3 DEF Unblocked, WithStatus
<1>6. Promise!Move(s, {"pending"}, "ready")
  BY <1>2, <1>3, <1>4, <1>5, WriteMoves
<1>7. Promise!Enable(s)
  <2>1. \A d \in Deps[s] : [t \in Step |-> step[t].status][d] = "completed"
    BY <1>5, SchedulerAssumption
  <2> QED
    BY <1>6, <2>1 DEF Promise!Enable
<1> QED
  BY <1>7 DEF Promise!Next

\* A running step ends, or is ready again.
LEMMA LeavingRunning ==
  ASSUME run = "running", UNCHANGED run, NEW s \in Step, step[s].status = "running",
         step'[s].status \in {"ready"} \cup EndStatus,
         \A t \in Step : t # s => step'[t] = step[t]
  PROVE  Promise!Next
<1>1. CASE step'[s].status = "ready"
  <2>1. Promise!Move(s, {"running"}, "ready")
    BY <1>1, WriteMoves
  <2> QED
    BY <2>1 DEF Promise!Next, Promise!Retry
<1>2. CASE step'[s].status \in EndStatus
  <2>1. PICK e \in EndStatus : step'[s].status = e
    BY <1>2
  <2>2. Promise!Move(s, {"running"}, e) /\ e \in Promise!EndStatus
    BY <2>1, WriteMoves DEF EndStatus, Promise!EndStatus
  <2> QED
    BY <2>2 DEF Promise!Next, Promise!End
<1> QED
  BY <1>1, <1>2

\* Promotion moves running steps only: a ready step whose attempt has a result
\* is one that asked for a retry.
LEMMA PromoteEnds ==
  ASSUME Typed, SoloInv, NEW h \in Holder, Promote(h)
  PROVE  [Promise!Next]_Promise!vars
<1>1. PICK s \in Step : s = First(Promotable(h)) /\ s \in Promotable(h)
  <2>1. Promotable(h) \in SUBSET Step /\ Promotable(h) # {}
    BY DEF Promote, Promotable, Typed, TypeOK, LocalTypeOK
  <2> QED
    BY <2>1, FirstIn
<1> DEFINE n == TerminalAttempt(s, view[h][s].latest)
           status == Transition(s, n, attempt[s][n])
<1>2. /\ pc[h] = "promote" /\ InOrder(h) /\ FilesInOrder /\ UNCHANGED run
      /\ Write(h, s, [status |-> status, lease |-> NoHolder, latest |-> n],
               Announcing(status))
  BY <1>1 DEF Promote, At, SoloInv
<1>3. /\ view[h][s] = step[s] /\ run = "running" /\ Lifecycle(s)
      /\ step[s].status \notin EndStatus /\ n # 0
  BY <1>1, <1>2 DEF InOrder, ViewCurrent, Decides, Loops, Promotable, FilesInOrder
<1>4. /\ n \in DOMAIN attempt[s] /\ attempt[s][n] \in Result
      /\ step[s].latest # 0 => n = step[s].latest
  <2>1. step[s].latest \in Nat /\ attempt \in [Step -> Seq(AttemptState)]
    BY DEF Typed, TypeOK, StoreTypeOK, StepRecord
  <2>2. n \in DOMAIN attempt[s] /\ attempt[s][n] \in Result
    BY <1>3, <2>1, TerminalAttemptIn
  <2>3. step[s].latest # 0 => n = step[s].latest
    BY <1>3 DEF TerminalAttempt
  <2> QED
    BY <2>2, <2>3
<1>5. n \in Nat
  <2>1. attempt[s] \in Seq(AttemptState)
    BY DEF Typed, TypeOK, StoreTypeOK
  <2>2. DOMAIN attempt[s] = 1..Len(attempt[s]) /\ Len(attempt[s]) \in Nat
    BY <2>1, LenProperties
  <2> HIDE DEF n
  <2> QED
    BY <1>4, <2>2
<1>6. status \in {"ready"} \cup EndStatus
  BY <1>4, <1>5, TransitionTyped
<1>7. Repeatable(s, n) => status = "ready"
  BY DEF Transition, Repeatable
<1> HIDE DEF n, status
<1>8. step'[s].status = status /\ \A t \in Step : t # s => step'[t] = step[t]
  BY <1>2 DEF Write, Typed, TypeOK, StoreTypeOK
<1>9. CASE step[s].status = "running"
  BY <1>2, <1>3, <1>6, <1>8, <1>9, LeavingRunning
<1>10. CASE step[s].status = "ready"
  <2>1. step[s].latest # 0
    BY <1>3, <1>4, <1>10 DEF Lifecycle, Result
  <2>2. Repeatable(s, n)
    BY <1>3, <1>4, <1>10, <2>1 DEF Lifecycle
  <2>3. \A t \in Step : step'[t].status = step[t].status
    BY <1>7, <1>8, <1>10, <2>2
  <2> QED
    BY <1>2, <2>3, WriteHides
<1>11. step[s].status \in {"ready", "running"}
  <2>1. step[s].status \in StepStatus
    BY DEF Typed, TypeOK, StoreTypeOK, StepRecord
  <2>2. step[s].status # "pending"
    BY <1>3, <1>4 DEF Lifecycle
  <2> QED
    BY <1>3, <2>1, <2>2 DEF StepStatus
<1> QED
  BY <1>9, <1>10, <1>11

\* A guard ends a running step, or blocks a ready one.
LEMMA GuardEnds ==
  ASSUME Typed, SoloInv, NEW h \in Holder, NEW p \in Loops, NEW S \in SUBSET todo[h],
         NEW status \in {"blocked", "stale"}, NEW release, GuardStep(h, p, S, status, release),
         \A s \in S : \/ view[h][s].status = "running"
                      \/ view[h][s].status = "ready" /\ status = "blocked"
  PROVE  Promise!Next
<1>1. PICK s \in Step : s = First(S) /\ s \in S
  <2>1. S \in SUBSET Step /\ S # {}
    BY DEF GuardStep, Typed, TypeOK, LocalTypeOK
  <2> QED
    BY <2>1, FirstIn
<1>2. /\ pc[h] \in Loops /\ InOrder(h) /\ UNCHANGED run
      /\ Write(h, s, [view[h][s] EXCEPT !.status = status,
                                        !.lease = IF release THEN NoHolder ELSE @], "step_end")
  BY <1>1 DEF GuardStep, At, SoloInv
<1>3. view[h][s] = step[s] /\ run = "running"
  BY <1>1, <1>2 DEF InOrder, ViewCurrent, Decides, Loops
<1>4. step'[s].status = status /\ \A t \in Step : t # s => step'[t] = step[t]
  BY <1>2, <1>3 DEF Write, Typed, TypeOK, StoreTypeOK, StepRecord
<1>5. CASE step[s].status = "running"
  BY <1>2, <1>3, <1>4, <1>5, LeavingRunning DEF EndStatus
<1>6. CASE step[s].status = "ready" /\ status = "blocked"
  <2>1. Promise!Move(s, {"ready"}, "blocked")
    BY <1>2, <1>3, <1>4, <1>6, WriteMoves
  <2> QED
    BY <2>1 DEF Promise!Next, Promise!End
<1> QED
  BY <1>1, <1>3, <1>5, <1>6

\* The three guards end steps, or see nothing to do.
LEMMA GuardsEnd ==
  ASSUME Typed, SoloInv, NEW h \in Holder,
         BlockCommitted(h) \/ MarkStale(h) \/ BlockUnknown(h)
  PROVE  [Promise!Next]_Promise!vars
<1>1. /\ PotentiallyCommitted(h) \in SUBSET todo[h]
      /\ \A s \in PotentiallyCommitted(h) : view[h][s].status = "running"
  BY DEF PotentiallyCommitted
<1>2. Stale(h) \in SUBSET todo[h] /\ \A s \in Stale(h) : view[h][s].status = "running"
  BY DEF Stale
<1>3. /\ UnknownBackend(h) \in SUBSET todo[h]
      /\ \A s \in UnknownBackend(h) : view[h][s].status = "ready"
  BY DEF UnknownBackend
<1>4. "committed" \in Loops /\ "stale" \in Loops /\ "unknown" \in Loops
  BY DEF Loops
<1>5. CASE UNCHANGED <<run, step>>
  BY <1>5, WriteHides
<1>6. CASE GuardStep(h, "committed", PotentiallyCommitted(h), "blocked", TRUE)
  BY <1>1, <1>4, <1>6, GuardEnds
<1>7. CASE GuardStep(h, "stale", Stale(h), "stale", TRUE)
  BY <1>2, <1>4, <1>7, GuardEnds
<1>8. CASE GuardStep(h, "unknown", UnknownBackend(h), "blocked", FALSE)
  BY <1>3, <1>4, <1>8, GuardEnds
<1> QED
  BY <1>5, <1>6, <1>7, <1>8 DEF BlockCommitted, MarkStale, BlockUnknown, GuardDone, store

\* A step is started while there is room for it.
LEMMA TakeLeaseStarts ==
  ASSUME Typed, SoloInv, NEW h \in Holder, TakeLease(h)
  PROVE  Promise!Next
<1>1. PICK s \in Step : s = First(queue[h]) /\ s \in queue[h]
  BY StepInHand DEF TakeLease, At, StartingAt
<1>2. /\ pc[h] = "lease" /\ InOrder(h) /\ UNCHANGED run
      /\ step' = [step EXCEPT ![s] = [status |-> "running", lease |-> h,
                                      latest |-> number[h][s]]]
  BY <1>1 DEF TakeLease, At, SoloInv
<1>3. run = "running" /\ step[s].status \in {"ready"}
  BY <1>1, <1>2 DEF InOrder, Decides, WorkInHand
<1>4. step'[s].status = "running" /\ \A t \in Step : t # s => step'[t] = step[t]
  BY <1>2 DEF Typed, TypeOK, StoreTypeOK
<1>5. Promise!Move(s, {"ready"}, "running")
  BY <1>2, <1>3, <1>4, WriteMoves
<1>6. Cardinality(Working) < MaxParallel
  <2>1. queue[h] \in SUBSET Step
    BY DEF Typed, TypeOK, LocalTypeOK
  <2>2. Cardinality(queue[h]) \in Nat /\ Cardinality(queue[h]) # 0
    BY <1>1, <2>1, StepsFinite, FS_EmptySet
  <2>3. Cardinality(Working) \in Nat
    BY StepsFinite DEF Working, WithStatus
  <2>4. Cardinality(Working) + Cardinality(queue[h]) <= MaxParallel
    BY <1>2 DEF InOrder, HasRoom, Starting
  <2> QED
    BY <2>2, <2>3, <2>4, SchedulerAssumption
<1>7. Promise!Active = Working
  BY DEF Promise!Active, Working, WithStatus
<1>8. Cardinality(Promise!Active) < MaxParallel
  BY <1>6, <1>7
<1>9. Promise!Start(s)
  <2>1. Promise!Cardinality(Promise!Active) = Cardinality(Promise!Active)
    BY DEF Promise!Cardinality, Cardinality
  <2> QED
    BY <1>5, <1>8, <2>1 DEF Promise!Start
<1> QED
  BY <1>9 DEF Promise!Next

\* A result ends its step, or makes it ready again.
LEMMA SettleEnds ==
  ASSUME Typed, SoloInv, NEW h \in Holder, Settle(h)
  PROVE  Promise!Next
<1>1. PICK s \in Step : s = First(execs[h]) /\ s \in execs[h]
  BY StepInHand DEF Settle, At, FinishingAt
<1> DEFINE status == Transition(s, number[h][s], live[h][s])
           r == [status |-> status, lease |-> NoHolder, latest |-> number[h][s]]
<1>2. /\ pc[h] = "settle" /\ InOrder(h) /\ UNCHANGED run
      /\ Write(h, s, r, Announcing(status))
  BY <1>1 DEF Settle, At, SoloInv
<1>3. run = "running" /\ step[s].status = "running"
  BY <1>1, <1>2 DEF InOrder, Decides, WorkInHand, Own
<1>4. status \in {"ready"} \cup EndStatus
  <2>1. live[h][s] \in Result /\ number[h][s] \in Nat
    BY <1>1, <1>2 DEF Typed, InHand, TypeOK, LocalTypeOK
  <2> QED
    BY <2>1, TransitionTyped
<1>5. r.status = status
  OBVIOUS
<1> HIDE DEF status, r
<1>6. step'[s].status = status /\ \A t \in Step : t # s => step'[t] = step[t]
  BY <1>2, <1>5 DEF Write, Typed, TypeOK, StoreTypeOK
<1> QED
  BY <1>2, <1>3, <1>4, <1>6, LeavingRunning

\* An outcome is what the steps account for.
LEMMA OutcomeAccounts ==
  ASSUME Typed, Outcome(step) # "running"
  PROVE  LET o == Outcome(step)
         IN  /\ o \in EndStatus
             /\ \A s \in Step : step[s].status # "running"
             /\ \E s \in Step : step[s].status = o
             /\ o = "completed" => \A s \in Step : step[s].status = "completed"
             /\ o # "blocked" => \A s \in Step : step[s].status \in EndStatus \ {"blocked"}
<1> DEFINE o == Outcome(step)
           statuses == {step[s].status : s \in Step}
<1>1. statuses # {}
  <2>1. 1 \in Step
    BY SchedulerAssumption DEF Step
  <2> QED
    BY <2>1
<1>2. CASE statuses = {"completed"}
  <2>1. o = "completed"
    BY <1>2 DEF Outcome, EndStatus
  <2> QED
    BY <1>2, <2>1 DEF EndStatus
<1>3. CASE statuses # {"completed"} /\ "blocked" \in statuses
  <2>1. o = "blocked"
    BY <1>3 DEF Outcome
  <2>2. "running" \notin statuses
    BY <1>3 DEF Outcome, EndStatus
  <2> QED
    BY <1>3, <2>1, <2>2 DEF EndStatus
<1>4. CASE statuses # {"completed"} /\ "blocked" \notin statuses
  <2>1. statuses \subseteq EndStatus \ {"blocked"}
    BY <1>4 DEF Outcome
  <2>2. o = IF "failed" \in statuses THEN "failed"
            ELSE IF "cancelled" \in statuses THEN "cancelled" ELSE "stale"
    BY <1>4, <2>1 DEF Outcome
  <2>3. o \in statuses /\ o # "completed"
    <3>1. statuses \subseteq {"completed", "failed", "cancelled", "stale"}
      BY <2>1 DEF EndStatus
    <3>2. "failed" \in statuses \/ "cancelled" \in statuses \/ "stale" \in statuses
      BY <1>1, <1>4, <3>1
    <3> HIDE DEF statuses
    <3> QED
      BY <2>2, <3>2
  <2>4. \A s \in Step : step[s].status \in EndStatus \ {"blocked"} /\ step[s].status # "running"
    BY <2>1 DEF EndStatus
  <2>5. \E s \in Step : step[s].status = o
    BY <2>3
  <2>6. o \in EndStatus
    BY <2>1, <2>3
  <2> HIDE DEF statuses, o
  <2> QED
    BY <2>3, <2>4, <2>5, <2>6 DEF o
<1> QED
  BY <1>2, <1>3, <1>4

\* Saving the run finishes it.
LEMMA SaveRunFinishes ==
  ASSUME Typed, SoloInv, NEW h \in Holder, SaveRun(h)
  PROVE  Promise!Next
<1>1. /\ run = "running" /\ Outcome(step) # "running" /\ run' = Outcome(step)
      /\ UNCHANGED step
  BY DEF SaveRun, At, SoloInv, InOrder, Decides
<1>2. PICK o : o = Outcome(step)
  OBVIOUS
<1>3. /\ o \in EndStatus
      /\ \A s \in Step : step[s].status # "running"
      /\ \E s \in Step : step[s].status = o
      /\ o = "completed" => \A s \in Step : step[s].status = "completed"
      /\ o # "blocked" => \A s \in Step : step[s].status \in EndStatus \ {"blocked"}
  BY <1>1, <1>2, OutcomeAccounts
<1> DEFINE status == [s \in Step |-> step[s].status]
<1>4. \A s \in Step : status[s] = step[s].status
  OBVIOUS
<1>5. Promise!Active = {}
  BY <1>3 DEF Promise!Active
<1>6. o \in Promise!EndStatus /\ Promise!EndStatus = EndStatus
  BY <1>3 DEF EndStatus, Promise!EndStatus
<1>7. Promise!Finish(o)
  BY <1>1, <1>2, <1>3, <1>5, <1>6 DEF Promise!Finish
<1> QED
  BY <1>6, <1>7 DEF Promise!Next

\* Everything else writes no record, or writes back what is there.
LEMMA RestHides ==
  ASSUME Typed, SoloInv,
         \/ UNCHANGED vars
         \/ \E s \in Step : HeartbeatAges(s)
         \/ \E h \in Holder :
              \/ Load(h) \/ Reconciled(h) \/ AppendEvent(h) \/ Promoted(h)
              \/ Finalize(h) \/ AnnounceRun(h) \/ RenewOwned(h) \/ Plan(h)
              \/ StartStep(h) \/ OpenAttempt(h) \/ Launch(h) \/ Started(h)
              \/ AwaitResult(h) \/ TakeResult(h) \/ LoseRace(h)
              \/ CancelConfirmed(h) \/ CancelRefused(h) \/ PreserveRunning(h)
              \/ RecordResult(h) \/ Finished(h) \/ Exit(h)
              \/ RenewTick(h) \/ RenewWrite(h) \/ Abort(h) \/ Crash(h) \/ Resume(h)
              \/ \E s \in Step, r \in Answers : BackendReturns(h, s, r)
  PROVE  UNCHANGED Promise!vars
<1>1. CASE \E h \in Holder : RenewWrite(h)
  <2>1. PICK h \in Holder : RenewWrite(h)
    BY <1>1
  <2>2. /\ renewal[h].step \in Step
        /\ step[renewal[h].step] = renewal[h].rec
        /\ step' = [step EXCEPT ![renewal[h].step] = renewal[h].rec]
        /\ UNCHANGED run
    BY <2>1 DEF RenewWrite, SoloInv, InOrder, RenewalCurrent, Typed, TypeOK, LocalTypeOK, Renewal
  <2>3. \A t \in Step : step'[t] = step[t]
    BY <2>2 DEF Typed, TypeOK, StoreTypeOK
  <2> QED
    BY <2>2, <2>3, WriteHides
<1>2. CASE UNCHANGED <<run, step>>
  BY <1>2, WriteHides
<1>3. CASE UNCHANGED vars \/ \E s \in Step : HeartbeatAges(s)
  BY <1>2, <1>3 DEF vars, store, HeartbeatAges
<1>4. ASSUME NEW h \in Holder,
             \/ Load(h) \/ Reconciled(h) \/ AppendEvent(h) \/ Promoted(h)
             \/ Finalize(h) \/ AnnounceRun(h) \/ RenewOwned(h) \/ Plan(h)
             \/ StartStep(h) \/ OpenAttempt(h) \/ Launch(h) \/ Started(h)
      PROVE  UNCHANGED <<run, step>>
  BY <1>4 DEF store, Load, Reconciled, AppendEvent, Promoted, Finalize, AnnounceRun,
     RenewOwned, Plan, StartStep, OpenAttempt, Launch, Started
<1>5. ASSUME NEW h \in Holder,
             \/ AwaitResult(h) \/ TakeResult(h) \/ LoseRace(h)
             \/ CancelConfirmed(h) \/ CancelRefused(h) \/ PreserveRunning(h)
             \/ RecordResult(h) \/ Finished(h) \/ Exit(h)
             \/ RenewTick(h) \/ Abort(h) \/ Crash(h) \/ Resume(h)
             \/ \E s \in Step, r \in Answers : BackendReturns(h, s, r)
      PROVE  UNCHANGED <<run, step>>
  BY <1>5 DEF store, AwaitResult, TakeResult, LoseRace, CancelConfirmed, CancelRefused,
     PreserveRunning, RecordResult, Finished, Exit, RenewTick, Abort, Crash, Resume,
     BackendReturns
<1> QED
  BY <1>1, <1>2, <1>3, <1>4, <1>5

\* Every step is one of the step graph, or is not seen.
LEMMA StepsImplement ==
  ASSUME Typed, SoloInv, [Next]_vars
  PROVE  [Promise!Next]_Promise!vars
<1>1. CASE UNCHANGED vars
  BY <1>1, RestHides
<1>2. ASSUME NEW h \in Holder, Proceed(h) PROVE [Promise!Next]_Promise!vars
  BY <1>2, MarkReadyEnables, PromoteEnds, GuardsEnd, TakeLeaseStarts, SettleEnds,
     SaveRunFinishes, RestHides DEF Proceed
<1>3. ASSUME NEW h \in Holder,
             \/ RenewTick(h) \/ RenewWrite(h) \/ Abort(h) \/ Crash(h) \/ Resume(h)
             \/ \E s \in Step, r \in Answers : BackendReturns(h, s, r)
      PROVE  [Promise!Next]_Promise!vars
  BY <1>3, RestHides
<1>4. ASSUME NEW s \in Step, HeartbeatAges(s) PROVE [Promise!Next]_Promise!vars
  BY <1>4, RestHides
<1> QED
  BY <1>1, <1>2, <1>3, <1>4 DEF Next

\* The records of a run that one process at a time drives are those of a step
\* graph: steps become ready behind completed dependencies, never more run
\* than the policy allows, a step that ended never moves, and the run ends
\* once, when nobody is at work, with the outcome the steps account for
\* (runDurableGraphScheduler, over all passes, crashes and resumptions).
THEOREM RunImplementsStepGraph ==
  ASSUME Exclusive
  PROVE  Spec => ImplementsStepGraph
<1>1. Init => Promise!Init
  <2> SUFFICES ASSUME Init PROVE Promise!Init
    OBVIOUS
  <2>1. [s \in Step |-> step[s].status] = [s \in Step |-> "pending"]
    BY DEF Init, InitialRecords
  <2> QED
    BY <2>1 DEF Init, Promise!Init
<1>2. Typed /\ SoloInv /\ [Next]_vars => [Promise!Next]_Promise!vars
  BY StepsImplement
<1> QED
  BY <1>1, <1>2, SoloInvariant, PTL DEF Spec, ImplementsStepGraph, Promise!Spec

=============================================================================
