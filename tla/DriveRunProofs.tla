--------------------------- MODULE DriveRunProofs ---------------------------
(* Theorems about a Drive run, for any number of tasks and of command      *)
(* lines, any policy, and however often they fail, crash and are resumed.  *)
EXTENDS DriveRun, SequenceTheorems, TLAPS

------------------------------------------------------------------------------
(* The inductive invariant: what holds however processes overlap.  Retries   *)
(* hold no plan lock, but the steps of tasks are only run under it.          *)

AtTask == {"task", "agent", "report"}
AtCommit == {"commit", "commit lock", "git", "committed", "commit blocks",
             "commit pends", "commit pending"}
AtStatus == {"status", "announce"}
AtState == {"state", "state lock", "state git"}
InGraph == {"pass", "settle", "result", "unlock"}
             \cup AtTask \cup AtCommit \cup AtStatus \cup AtState

\* The plan lock is held by the process that runs the graph.
OneDriver == \A p \in Cli : pc[p] \in InGraph <=> planLock = p

Agent(t) == step[<<"task", t>>]
Commit(t) == step[<<"commit", t>>]
Status(t) == step[<<"status", t>>]

\* A partial whose changes are committed may be marked Done by a retry.
MayBeDone(t) ==
  \/ Agent(t).result = "success"
  \/ Agent(t).result = "partial" /\ policy.source /\ Commit(t).sha # 0

\* A task's step runs once, and its result accounts for its file, its changes
\* and the steps behind it.  The commit of a partial is never made again.
TaskInOrder(t) ==
  /\ Agent(t).status # "ready"
  /\ Agent(t).status = "completed" <=> Agent(t).result \in {"success", "partial"}
  /\ Agent(t).status = "pending" => agents[t] = 0 /\ t \notin ended /\ t \notin dirty
  /\ agents[t] <= 1
  /\ Agent(t).result = "success" => t \in verified
  /\ Agent(t).result = "partial" => policy.continues
  /\ Commit(t).status # "pending" => Agent(t).status = "completed"
  /\ policy.source /\ Commit(t).status = "completed" => t \notin dirty
  /\ Status(t).status # "pending" =>
       /\ Agent(t).status = "completed"
       /\ policy.source => t \notin dirty /\ Commit(t).status # "pending"
  /\ Status(t).status = "completed" => Status(t).result \in {"success", "partial"}
  /\ Agent(t).result = "partial" /\ policy.source /\ Status(t).status # "pending" =>
       Commit(t).status = "completed"
  /\ file[t] = "Done" => MayBeDone(t) /\ Status(t).status # "pending"

\* What is pending is work that was verified, or the status of a partial.
PendingTrue(x) ==
  /\ x.phase = "none" => x = NoPending
  /\ x.phase = "state" => policy.state /\ x.task = 0
  /\ x.phase \in {"commit", "status"} =>
       /\ policy.source /\ x.task \in Task
       /\ MayBeDone(x.task)
       /\ Commit(x.task).status # "pending"
  /\ x.phase = "commit" => Agent(x.task).result = "success"
  /\ x.phase = "status" => x.task \notin dirty /\ Status(x.task).status # "pending"

\* The step a process of the graph has in hand.
StepInHand(p) ==
  LET t == TaskOf(Mine(p)) IN
  /\ pc[p] \in AtTask => /\ Phase(Mine(p)) = "task" /\ Agent(t).status = "running"
                         /\ pc[p] = "task" => agents[t] = 0
                         /\ pc[p] = "report" => my[p].res \in {"failed", "partial", "blocked"}
  /\ pc[p] \in AtCommit => /\ Phase(Mine(p)) = "commit" /\ policy.source
                           /\ Commit(t).status # "pending"
                           /\ Agent(t).result = "partial" => Commit(t).status = "running"
                           /\ pc[p] = "committed" => t \notin dirty
                           /\ pc[p] \in {"commit pends", "commit pending"} =>
                                Agent(t).result = "success"
  /\ pc[p] \in AtStatus => Phase(Mine(p)) = "status" /\ Status(t).status # "pending"
  /\ pc[p] \in AtState => Phase(Mine(p)) = "state" /\ policy.state

\* The answer it settles.
AnswerTrue(p) ==
  LET t == TaskOf(Mine(p))
      r == my[p].res
  IN  pc[p] = "settle" =>
        /\ Phase(Mine(p)) = "task" =>
             /\ Agent(t).status = "running"
             /\ r \in {"success", "partial", "blocked", "failed"}
             /\ r = "success" => t \in verified
             /\ r = "partial" => policy.continues
        /\ Phase(Mine(p)) = "commit" =>
             /\ policy.source /\ Commit(t).status # "pending"
             /\ Agent(t).result = "partial" => Commit(t).status = "running"
             /\ r \in {"success", "blocked", "retry"}
             /\ r = "success" => t \notin dirty
        /\ Phase(Mine(p)) = "status" =>
             /\ Status(t).status # "pending"
             /\ r \in {"success", "partial", "failed", "retry"}
             /\ r \in {"success", "partial"} => Agent(t).result = r
        /\ Phase(Mine(p)) = "state" => policy.state /\ r \in {"success", "retry"}

\* The retry it is at.
RetryingCommit == {"retry commit", "retry commit lock", "retry git", "check head", "accept"}
RetryingStatus == {"retry status", "status passed"}
RetryingState == {"retry state", "retry state lock", "retry state git",
                  "state passed", "check files"}

Retrying == RetryingCommit \cup RetryingStatus \cup RetryingState \cup {"clear"}

RetryInHand(p) ==
  LET x == my[p].pend IN
  /\ PendingTrue(x)
  /\ pc[p] \in RetryingCommit => x.phase = "commit"
  /\ pc[p] \in RetryingStatus => x.phase \in {"commit", "status"}
  /\ pc[p] \in {"check head", "accept"} \cup RetryingStatus => x.task \notin dirty
  /\ pc[p] = "status passed" => Status(x.task).status # "pending"
  /\ pc[p] \in RetryingState => x.phase = "state"
  /\ pc[p] = "clear" => x.phase # "none"

DriveInv ==
  /\ TypeOK
  /\ OneDriver
  /\ \A t \in Task : TaskInOrder(t)
  /\ PendingTrue(pending)
  /\ \A p \in Cli : StepInHand(p) /\ AnswerTrue(p) /\ RetryInHand(p)


------------------------------------------------------------------------------
(* Steps and records.                                                        *)

\* A step is one of the three of a task, or the state commit.
LEMMA StepsOf ==
  /\ <<"state", 0>> \in Step /\ 0 \notin Task
  /\ \A t \in Task : /\ <<"task", t>> \in Step /\ <<"commit", t>> \in Step
                     /\ <<"status", t>> \in Step
  /\ \A s \in Step :
       /\ s = <<Phase(s), TaskOf(s)>>
       /\ \/ Phase(s) \in {"task", "commit", "status"} /\ TaskOf(s) \in Task
          \/ Phase(s) = "state" /\ TaskOf(s) = 0
BY DriveAssumption DEF Step, Task, Phase, TaskOf

Record == [status: {"pending", "ready", "running", "completed", "blocked", "failed"},
           result: {"none"} \cup Result,
           attempt: {"none", "open"} \cup Result, sha: Nat]

Local == [step: Step, res: {"none"} \cup Result, head: Nat, sha: Nat,
          pend: PendingRec, left: SUBSET Task]

\* What the files of a step and the memory of a process hold, by their parts.
LEMMA TypesOf ==
  ASSUME TypeOK
  PROVE  /\ \A s \in Step : step[s] \in Record
         /\ \A p \in Cli : my[p] \in Local /\ Mine(p) \in Step
         /\ step \in [Step -> Record] /\ my \in [Cli -> Local]
         /\ HEAD \in Nat
<1>1. step \in [Step -> Record] /\ my \in [Cli -> Local]
  BY DEF TypeOK, Record, Local
<1>2. HEAD \in Nat
  BY LenProperties DEF TypeOK, HEAD
<1> QED
  BY <1>1, <1>2 DEF Local, Mine

\* Blank is the memory of a process that begins.
LEMMA BlankTyped == Blank \in Local /\ NoPending \in PendingRec
BY StepsOf, DriveAssumption DEF Blank, NoPending, Local, PendingRec

\* A step's record is written.
LEMMA WriteStep ==
  ASSUME TypeOK, NEW s \in Step, NEW r \in Record, step' = [step EXCEPT ![s] = r]
  PROVE  /\ step' \in [Step -> Record] /\ step'[s] = r
         /\ \A u \in Step : u # s => step'[u] = step[u]
BY TypesOf

\* A process keeps something else in mind.
LEMMA WriteMy ==
  ASSUME TypeOK, NEW p \in Cli, NEW m \in Local, my' = [my EXCEPT ![p] = m]
  PROVE  /\ my' \in [Cli -> Local] /\ my'[p] = m
         /\ \A q \in Cli : q # p => my'[q] = my[q]
BY TypesOf

\* A process goes somewhere else.
LEMMA WritePc ==
  ASSUME TypeOK, NEW p \in Cli, NEW l \in Place, Goto(p, l)
  PROVE  /\ pc' \in [Cli -> Place] /\ pc'[p] = l
         /\ \A q \in Cli : q # p => pc'[q] = pc[q]
BY DEF TypeOK, Goto

------------------------------------------------------------------------------
(* Typing: what the graph, the finalizers and the retries write.           *)

\* The types of all that is not the memory of processes or the steps' files.
RestTyped ==
  /\ policy \in Policy
  /\ run \in {"none", "running", "completed", "blocked", "failed"}
  /\ pending \in PendingRec
  /\ completion \in {"none", "completed", "blocked", "aborted", "finalization_failed"}
  /\ ended \subseteq Task /\ fileDirty \subseteq Task /\ dirty \subseteq Task
  /\ file \in [Task -> {"To Do", "In Progress", "Done", "Blocked"}]
  /\ commits \in Seq([by: 0..(N + 1), has: SUBSET Task])
  /\ planLock \in Cli \cup {Nobody, Dead} /\ commitLock \in Cli \cup {Nobody, Dead}
  /\ agents \in [Task -> Nat] /\ verified \subseteq Task /\ alone \in BOOLEAN

\* The type invariant, in the parts the proofs of typing go by.
LEMMA TypeParts ==
  TypeOK <=> /\ RestTyped /\ step \in [Step -> Record]
             /\ pc \in [Cli -> Place] /\ my \in [Cli -> Local]
BY DEF TypeOK, RestTyped, Record, Local

\* The graph under the plan lock.
LEMMA GraphStepTyped ==
  ASSUME DriveInv, NEW p \in Cli, GraphStep(p)
  PROVE  TypeOK'
<1> USE DEF Leave, Mine, RestTyped, records, workdir, worktree, locks, history, used
<1>1. /\ RestTyped /\ step \in [Step -> Record] /\ pc \in [Cli -> Place] /\ my \in [Cli -> Local]
      /\ my[p] \in Local /\ \A s \in Step : step[s] \in Record
      /\ Mine(p) \in Step
  BY TypeParts, TypesOf DEF DriveInv
<1>2. Graph \subseteq Step /\ Runnable \subseteq Step
  BY DEF Graph, Runnable
<1>3. RestTyped' /\ step' \in [Step -> Record] /\ pc' \in [Cli -> Place] /\ my' \in [Cli -> Local]
  <2>1. CASE LockPlan(p)
    BY <1>1, <2>1 DEF LockPlan, Goto, Place
  <2>2. CASE LockRefused(p)
    BY <1>1, <2>2, BlankTyped DEF LockRefused, Goto, Place
  <2>3. CASE BlockCommitted(p)
    <3>1. PICK s \in Graph : step' = [step EXCEPT ![s].status = "blocked"]
      BY <2>3 DEF BlockCommitted
    <3>2. s \in Step /\ step[s] \in Record /\ [step[s] EXCEPT !.status = "blocked"] \in Record
      BY <1>1, <1>2 DEF Record
    <3>3. step' \in [Step -> Record]
      BY <1>1, <3>1, <3>2
    <3> QED
      BY <1>1, <2>3, <3>3 DEF BlockCommitted
  <2>4. CASE StartStep(p)
    <3>1. PICK s \in Runnable :
            /\ step' = [step EXCEPT ![s].status = "running", ![s].attempt = "open"]
            /\ my' = [my EXCEPT ![p].step = s, ![p].sha = 0]
            /\ Goto(p, Phase(s))
      BY <2>4 DEF StartStep
    <3>2. s \in Step /\ step[s] \in Record /\ Phase(s) \in Place
      BY <1>1, <1>2, StepsOf DEF Place
    <3>3. [step[s] EXCEPT !.status = "running", !.attempt = "open"] \in Record
      BY <3>2 DEF Record
    <3>4. [my[p] EXCEPT !.step = s, !.sha = 0] \in Local
      BY <1>1, <3>2 DEF Local
    <3>5. step' = [step EXCEPT ![s] = [step[s] EXCEPT !.status = "running", !.attempt = "open"]]
      BY <1>1, <3>1, <3>2 DEF Record
    <3>6. my' = [my EXCEPT ![p] = [my[p] EXCEPT !.step = s, !.sha = 0]]
      BY <1>1, <3>1 DEF Local
    <3>7. step' \in [Step -> Record]
      BY <1>1, <3>2, <3>3, <3>5
    <3>8. my' \in [Cli -> Local]
      BY <1>1, <3>4, <3>6
    <3>9. pc' \in [Cli -> Place]
      BY <1>1, <3>1, <3>2 DEF Goto
    <3> QED
      BY <1>1, <2>4, <3>7, <3>8, <3>9 DEF StartStep
  <2>5. CASE Settle(p)
    <3>1. my[p].res \in Result
      BY <1>1, <2>5, StepsOf DEF Settle, DriveInv, AnswerTrue, Result
    <3>2. [status |-> StatusFor(my[p].res), result |-> my[p].res,
           attempt |-> my[p].res, sha |-> my[p].sha] \in Record
      BY <1>1, <3>1 DEF Record, Local, StatusFor, Result
    <3>3. [Blank EXCEPT !.left = my[p].left] \in Local
      BY <1>1, BlankTyped DEF Local, Blank
    <3> QED
      BY <1>1, <2>5, <3>2, <3>3 DEF Settle, Goto, Place
  <2>6. CASE StopForFinalizer(p)
    BY <1>1, <2>6 DEF StopForFinalizer, Goto, Place
  <2>7. CASE Drained(p)
    BY <1>1, <2>7 DEF Drained, Goto, Place, RunOutcome
  <2>8. CASE Complete(p)
    BY <1>1, <2>8 DEF Complete, Goto, Place, DriverOutcome
  <2>9. CASE Unlock(p)
    BY <1>1, <2>9, BlankTyped DEF Unlock, Goto, Place
  <2> QED
    BY <2>1, <2>2, <2>3, <2>4, <2>5, <2>6, <2>7, <2>8, <2>9 DEF GraphStep
<1> QED
  BY <1>3 DEF TypeOK, Record, Local

\* The memory of process p is m now, and that of the others is what it was.
MyIs(p, m) ==
  my' \in [Cli -> Local] /\ my'[p] = m /\ \A q \in Cli : q # p => my'[q] = my[q]

\* An answer, a head or a commit is kept in mind.
LEMMA MyWith ==
  ASSUME TypeOK, NEW p \in Cli, NEW r \in {"none"} \cup Result, NEW n \in Nat
  PROVE  /\ my' = [my EXCEPT ![p].res = r] => MyIs(p, [my[p] EXCEPT !.res = r])
         /\ my' = [my EXCEPT ![p].sha = n] => MyIs(p, [my[p] EXCEPT !.sha = n])
         /\ my' = [my EXCEPT ![p].head = n] => MyIs(p, [my[p] EXCEPT !.head = n])
         /\ my' = [my EXCEPT ![p].res = r, ![p].sha = n]
              => MyIs(p, [my[p] EXCEPT !.res = r, !.sha = n])
         /\ my' = [my EXCEPT ![p].head = n, ![p].res = r]
              => MyIs(p, [my[p] EXCEPT !.head = n, !.res = r])
<1>1. my \in [Cli -> Local] /\ my[p] \in Local
  BY TypesOf
<1>2. /\ [my[p] EXCEPT !.res = r] \in Local
      /\ [my[p] EXCEPT !.res = r, !.sha = n] \in Local
      /\ [my[p] EXCEPT !.head = n] \in Local
      /\ [my[p] EXCEPT !.sha = n] \in Local
      /\ [my[p] EXCEPT !.head = n, !.res = r] \in Local
  BY <1>1 DEF Local
<1>3. my' = [my EXCEPT ![p].res = r] => MyIs(p, [my[p] EXCEPT !.res = r])
  BY <1>1, <1>2 DEF MyIs
<1>4. my' = [my EXCEPT ![p].sha = n] => MyIs(p, [my[p] EXCEPT !.sha = n])
  BY <1>1, <1>2 DEF MyIs
<1>5. my' = [my EXCEPT ![p].head = n] => MyIs(p, [my[p] EXCEPT !.head = n])
  BY <1>1, <1>2 DEF MyIs
<1>6. my' = [my EXCEPT ![p].res = r, ![p].sha = n]
        => MyIs(p, [my[p] EXCEPT !.res = r, !.sha = n])
  BY <1>1, <1>2 DEF MyIs
<1>7. my' = [my EXCEPT ![p].head = n, ![p].res = r]
        => MyIs(p, [my[p] EXCEPT !.head = n, !.res = r])
  BY <1>1, <1>2 DEF MyIs
<1> QED
  BY <1>3, <1>4, <1>5, <1>6, <1>7

\* What the proofs of typing need of a process that keeps something in mind.
LEMMA LocalKept ==
  ASSUME TypeOK, NEW p \in Cli
  PROVE  /\ \A r \in Result : my' = [my EXCEPT ![p].res = r] => my' \in [Cli -> Local]
         /\ \A n \in Nat : my' = [my EXCEPT ![p].head = n] => my' \in [Cli -> Local]
         /\ \A n \in Nat : my' = [my EXCEPT ![p].sha = n] => my' \in [Cli -> Local]
         /\ \A n \in Nat, r \in Result :
              my' = [my EXCEPT ![p].res = r, ![p].sha = n] => my' \in [Cli -> Local]
         /\ \A l \in Place : Goto(p, l) => pc' \in [Cli -> Place]
<1>1. ASSUME NEW r \in Result, NEW n \in Nat
      PROVE  /\ my' = [my EXCEPT ![p].res = r] => my' \in [Cli -> Local]
             /\ my' = [my EXCEPT ![p].head = n] => my' \in [Cli -> Local]
             /\ my' = [my EXCEPT ![p].sha = n] => my' \in [Cli -> Local]
             /\ my' = [my EXCEPT ![p].res = r, ![p].sha = n] => my' \in [Cli -> Local]
  <2>1. r \in {"none"} \cup Result
    OBVIOUS
  <2> QED
    BY <2>1, MyWith DEF MyIs
<1>2. 0 \in Nat /\ "success" \in Result
  BY DEF Result
<1> QED
  BY <1>1, <1>2, WritePc

\* A task's file is written.
LEMMA FileTyped ==
  ASSUME TypeOK, NEW t \in Task, NEW status \in {"To Do", "In Progress", "Done", "Blocked"},
         SetFile(t, status)
  PROVE  /\ file' \in [Task -> {"To Do", "In Progress", "Done", "Blocked"}]
         /\ fileDirty' \subseteq Task
         /\ file'[t] = status /\ \A u \in Task : u # t => file'[u] = file[u]
BY DEF TypeOK, SetFile

\* The steps of tasks.
LEMMA TaskWorkTyped ==
  ASSUME DriveInv, NEW p \in Cli, TaskWork(p)
  PROVE  TypeOK'
<1>0. TypeOK
  BY DEF DriveInv
<1>1. RestTyped /\ step \in [Step -> Record] /\ pc \in [Cli -> Place] /\ my \in [Cli -> Local]
  BY <1>0, TypeParts
<1> USE DEF RestTyped, records, workdir, worktree, locks, history, used
<1>2. pc[p] \in {"task", "agent", "report"} => TaskOf(Mine(p)) \in Task
  BY <1>0, TypesOf, StepsOf DEF DriveInv, StepInHand, AtTask
<1>3. /\ \A r \in Result : my' = [my EXCEPT ![p].res = r] => my' \in [Cli -> Local]
      /\ \A l \in Place : Goto(p, l) => pc' \in [Cli -> Place]
  BY <1>0, LocalKept
<1>4. my' = [my EXCEPT ![p].head = 1, ![p].res = "none"] => my' \in [Cli -> Local]
  <2>1. "none" \in {"none"} \cup Result /\ 1 \in Nat
    OBVIOUS
  <2> QED
    BY <1>0, <2>1, MyWith DEF MyIs
<1>5. RestTyped' /\ step' \in [Step -> Record] /\ pc' \in [Cli -> Place] /\ my' \in [Cli -> Local]
  <2>1. CASE TaskFails(p) \/ PreflightFails(p)
    BY <1>1, <1>3, <2>1 DEF TaskFails, PreflightFails, Answer, Goto, Place, Result, Mishap
  <2>2. CASE GiveToAgent(p)
    <3>1. TaskOf(Mine(p)) \in Task /\ SetFile(TaskOf(Mine(p)), "In Progress")
          /\ Goto(p, "agent") /\ "agent" \in Place
      BY <1>2, <2>2 DEF GiveToAgent, Place
    <3>2. /\ file' \in [Task -> {"To Do", "In Progress", "Done", "Blocked"}]
          /\ fileDirty' \subseteq Task /\ pc' \in [Cli -> Place]
      BY <1>0, <1>3, <3>1, FileTyped
    <3>3. agents' \in [Task -> Nat]
      <4>1. agents \in [Task -> Nat]
            /\ agents' = [agents EXCEPT ![TaskOf(Mine(p))] = agents[TaskOf(Mine(p))] + 1]
        BY <1>1, <2>2, <3>1 DEF GiveToAgent
      <4>2. agents[TaskOf(Mine(p))] \in Nat
        BY <3>1, <4>1
      <4>3. agents[TaskOf(Mine(p))] + 1 \in Nat
        BY <4>2
      <4> QED
        BY <3>1, <4>1, <4>3
    <3> QED
      BY <1>1, <2>2, <3>2, <3>3 DEF GiveToAgent
  <2>3. CASE AgentEnds(p)
    <3>1. PICK a \in BackendAnswer, changes \in SUBSET {TaskOf(Mine(p))} :
            /\ dirty' = dirty \cup changes
            /\ my' = [my EXCEPT ![p].res = Verdict(a, dirty \cup changes # {})]
            /\ Goto(p, IF Verdict(a, dirty \cup changes # {}) = "success"
                       THEN "settle" ELSE "report")
            /\ verified' \subseteq verified \cup {TaskOf(Mine(p))}
      BY <2>3 DEF AgentEnds
    <3>2. Verdict(a, dirty \cup changes # {}) \in Result
      BY DEF Verdict, Result
    <3>3. my' \in [Cli -> Local]
      BY <1>3, <3>1, <3>2
    <3>4. TaskOf(Mine(p)) \in Task
      BY <1>2, <2>3 DEF AgentEnds
    <3>5. pc' \in [Cli -> Place]
      BY <1>1, <3>1 DEF Goto, Place
    <3>6. dirty' \subseteq Task /\ verified' \subseteq Task
      BY <1>1, <3>1, <3>4
    <3>7. UNCHANGED <<policy, records, workdir, file, fileDirty, commits, locks, agents, alone>>
      BY <2>3 DEF AgentEnds
    <3> QED
      BY <1>1, <3>3, <3>5, <3>6, <3>7
  <2>4. CASE RetryContradicted(p)
    BY <1>1, <1>2, <1>4, <2>4 DEF RetryContradicted, Goto, Place
  <2>5. CASE ReportBlock(p)
    BY <1>1, <1>2, <1>3, <2>5 DEF ReportBlock, SetFile, Answer, Goto, Place, Result
  <2> QED
    BY <2>1, <2>2, <2>3, <2>4, <2>5 DEF TaskWork
<1> QED
  BY <1>5 DEF TypeOK, Record, Local

\* A commit is appended.
LEMMA AddCommitTyped ==
  ASSUME TypeOK, NEW by \in 0..(N + 1), NEW has \in SUBSET Task, NEW files,
         AddCommit(by, has, files)
  PROVE  /\ commits' \in Seq([by: 0..(N + 1), has: SUBSET Task])
         /\ dirty' \subseteq dirty /\ fileDirty' \subseteq fileDirty
         /\ Len(commits') = Len(commits) + 1
         /\ commits'[Len(commits) + 1] = [by |-> by, has |-> has]
         /\ \A i \in 1..Len(commits) : commits'[i] = commits[i]
<1>1. commits \in Seq([by: 0..(N + 1), has: SUBSET Task])
      /\ [by |-> by, has |-> has] \in [by: 0..(N + 1), has: SUBSET Task]
  BY DEF TypeOK
<1> QED
  BY <1>1, AppendProperties DEF AddCommit

\* The finalizers of the graph.
LEMMA FinalizeTyped ==
  ASSUME DriveInv, NEW p \in Cli, Finalize(p)
  PROVE  TypeOK'
<1>0. TypeOK
  BY DEF DriveInv
<1>1. RestTyped /\ step \in [Step -> Record] /\ pc \in [Cli -> Place] /\ my \in [Cli -> Local]
      /\ HEAD \in Nat /\ my[p] \in Local
  BY <1>0, TypeParts, TypesOf
<1>11. HEAD + 1 \in Nat
  BY <1>1
<1>12. /\ "success" \in Result /\ "partial" \in Result /\ "blocked" \in Result
       /\ "retry" \in Result
  BY DEF Result
<1>13. \A t \in Task, status \in {"In Progress", "Done", "Blocked"} : SetFile(t, status) =>
         /\ file' \in [Task -> {"To Do", "In Progress", "Done", "Blocked"}]
         /\ fileDirty' \subseteq Task
  <2>1. ASSUME NEW t \in Task, NEW status \in {"In Progress", "Done", "Blocked"}, SetFile(t, status)
        PROVE  /\ file' \in [Task -> {"To Do", "In Progress", "Done", "Blocked"}]
               /\ fileDirty' \subseteq Task
    BY <1>0, <2>1, FileTyped
  <2> QED
    BY <2>1
<1> USE DEF RestTyped, records, workdir, worktree, locks, history, used
<1>2. pc[p] \in AtCommit \cup AtStatus => TaskOf(Mine(p)) \in Task
  BY <1>0, TypesOf, StepsOf DEF DriveInv, StepInHand
<1>3. \A r \in Result : my' = [my EXCEPT ![p].res = r] => my' \in [Cli -> Local]
  BY <1>0, LocalKept
<1>4. \A n \in Nat : my' = [my EXCEPT ![p].head = n] => my' \in [Cli -> Local]
  BY <1>0, LocalKept
<1>5. \A n \in Nat, r \in Result :
         my' = [my EXCEPT ![p].res = r, ![p].sha = n] => my' \in [Cli -> Local]
  BY <1>0, LocalKept
<1>6. \A t \in Task : Committed(t) \in Nat
  BY <1>1, StepsOf DEF Committed, Record
<1>7. \A l \in Place : Goto(p, l) => pc' \in [Cli -> Place]
  BY <1>0, LocalKept
<1>8. Task \subseteq 0..N /\ Task \subseteq 0..(N + 1) /\ StateCommit \in 0..(N + 1) /\ 0 \in Nat
  BY DriveAssumption DEF Task, StateCommit
<1>9. RestTyped' /\ step' \in [Step -> Record] /\ pc' \in [Cli -> Place] /\ my' \in [Cli -> Local]
  <2>1. CASE CommitBegins(p) \/ StateBegins(p)
    BY <1>1, <1>4, <1>7, <2>1 DEF CommitBegins, StateBegins, Place
  <2>2. CASE LockCommits(p, "commit lock", "git") \/ LockCommits(p, "state lock", "state git")
    BY <1>1, <1>7, <2>2 DEF LockCommits, Place
  <2>3. CASE CommitSource(p)
    <3>1. TaskOf(Mine(p)) \in 0..(N + 1) /\ dirty \in SUBSET Task
      BY <1>1, <1>2, <1>8, <2>3 DEF CommitSource, AtCommit
    <3>2. commits' \in Seq([by: 0..(N + 1), has: SUBSET Task])
          /\ dirty' \subseteq dirty /\ fileDirty' \subseteq fileDirty
      BY <1>0, <2>3, <3>1, AddCommitTyped DEF CommitSource
    <3> QED
      BY <1>1, <1>7, <2>3, <3>2 DEF CommitSource, Place
  <2>4. CASE NothingToCommit(p) \/ SkipStateCommit(p)
    BY <1>1, <1>3, <1>7, <2>4 DEF NothingToCommit, SkipStateCommit, Answer, Place, Result
  <2>5. CASE NameCommit(p)
    <3>1. my' \in [Cli -> Local]
      BY <1>1, <1>5, <1>12, <2>5 DEF NameCommit
    <3> QED
      <4>1. Goto(p, "settle") /\ "settle" \in Place
            /\ UNCHANGED <<policy, records, workdir, worktree, locks, history>>
        BY <2>5 DEF NameCommit, Place
      <4> QED
        BY <1>1, <1>7, <3>1, <4>1
  <2>6. CASE CommitFails(p)
    BY <1>1, <1>7, <2>6 DEF CommitFails, Place, Mishap
  <2>7. CASE BlockPartial(p)
    <3>1. TaskOf(Mine(p)) \in Task
      BY <1>2, <2>7 DEF BlockPartial, AtCommit
    <3>2. my' \in [Cli -> Local] /\ pc' \in [Cli -> Place]
      BY <1>3, <1>7, <1>12, <2>7 DEF BlockPartial, Answer, Place
    <3>3. /\ file' \in [Task -> {"To Do", "In Progress", "Done", "Blocked"}]
          /\ fileDirty' \subseteq Task
      BY <1>13, <2>7, <3>1 DEF BlockPartial
    <3> QED
      BY <1>1, <2>7, <3>1, <3>2, <3>3 DEF BlockPartial
  <2>8. CASE PendCommit(p)
    <3>1. TaskOf(Mine(p)) \in 0..N /\ my[p].head \in Nat
      BY <1>1, <1>2, <1>8, <2>8 DEF PendCommit, AtCommit, Local
    <3>2. pending' \in PendingRec
      BY <1>8, <2>8, <3>1 DEF PendCommit, PendingRec
    <3> QED
      <4>1. Goto(p, "commit pending") /\ "commit pending" \in Place
            /\ UNCHANGED <<policy, records, completion, ended, worktree, locks, my, history>>
        BY <2>8 DEF PendCommit, Place
      <4> QED
        BY <1>1, <1>7, <3>2, <4>1
  <2>9. CASE NoteCommitPending(p)
    <3>1. TaskOf(Mine(p)) \in Task
      BY <1>2, <2>9 DEF NoteCommitPending, AtCommit
    <3>2. my' \in [Cli -> Local] /\ pc' \in [Cli -> Place]
      BY <1>3, <1>7, <1>12, <2>9 DEF NoteCommitPending, Answer, Place
    <3>3. /\ file' \in [Task -> {"To Do", "In Progress", "Done", "Blocked"}]
          /\ fileDirty' \subseteq Task
      BY <1>13, <2>9, <3>1 DEF NoteCommitPending
    <3> QED
      BY <1>1, <2>9, <3>2, <3>3 DEF NoteCommitPending
  <2>10. CASE MarkDone(p)
    <3>1. TaskOf(Mine(p)) \in Task
      BY <1>2, <2>10 DEF MarkDone, AtStatus
    <3>2. /\ file' \in [Task -> {"To Do", "In Progress", "Done", "Blocked"}]
          /\ fileDirty' \subseteq Task
      BY <1>13, <2>10, <3>1 DEF MarkDone
    <3> QED
      <4>1. Goto(p, "announce") /\ "announce" \in Place
            /\ UNCHANGED <<policy, records, workdir, dirty, commits, locks, my, history>>
        BY <2>10 DEF MarkDone, Place, used
      <4> QED
        BY <1>1, <1>7, <3>2, <4>1
  <2>11. CASE AnnounceStatus(p)
    <3>1. TaskOf(Mine(p)) \in Task
      BY <1>2, <2>11 DEF AnnounceStatus, AtStatus
    <3>2. PICK r \in Result : r = Reported(p)
      <4>1. TaskInOrder(TaskOf(Mine(p))) /\ Status(TaskOf(Mine(p))).status # "pending"
        BY <2>11, <3>1 DEF DriveInv, StepInHand, AtStatus, AnnounceStatus
      <4> QED
        BY <4>1 DEF TaskInOrder, Reported, Agent, Result
    <3>3. my' \in [Cli -> Local]
      <4>1. my' = [my EXCEPT ![p].res = r, ![p].sha = Committed(TaskOf(Mine(p)))]
        BY <2>11, <3>2 DEF AnnounceStatus
      <4> QED
        BY <1>5, <1>6, <3>1, <4>1
    <3> QED
      <4>1. Goto(p, "settle") /\ "settle" \in Place /\ ended' = ended \cup {TaskOf(Mine(p))}
            /\ UNCHANGED <<policy, records, pending, completion, worktree, locks, history>>
        BY <2>11 DEF AnnounceStatus, Place
      <4> QED
        BY <1>1, <1>7, <3>1, <3>3, <4>1
  <2>12. CASE StatusFails(p)
    <3>1. TaskOf(Mine(p)) \in Task /\ Committed(TaskOf(Mine(p))) \in Nat
      BY <1>2, <1>6, <2>12 DEF StatusFails, AtStatus
    <3>2. pending' \in PendingRec
      <4>1. [phase |-> "status", task |-> TaskOf(Mine(p)), head |-> 0,
             sha |-> Committed(TaskOf(Mine(p)))] \in PendingRec
        BY <1>8, <3>1 DEF PendingRec
      <4> QED
        BY <1>1, <2>12, <4>1 DEF StatusFails
    <3>3. my' \in [Cli -> Local] /\ pc' \in [Cli -> Place]
      BY <1>3, <1>5, <1>7, <2>12, <3>1 DEF StatusFails, Answer, Place, Result
    <3> QED
      BY <1>1, <2>12, <3>2, <3>3 DEF StatusFails
  <2>13. CASE KeepPartial(p)
    <3>1. TaskOf(Mine(p)) \in Task
      BY <1>2, <2>13 DEF KeepPartial, AtStatus
    <3>2. /\ file' \in [Task -> {"To Do", "In Progress", "Done", "Blocked"}]
          /\ fileDirty' \subseteq Task
      BY <1>13, <2>13, <3>1 DEF KeepPartial
    <3> QED
      <4>1. Goto(p, "announce") /\ "announce" \in Place
            /\ UNCHANGED <<policy, records, workdir, dirty, commits, locks, my, history>>
        BY <2>13 DEF KeepPartial, Place, used
      <4> QED
        BY <1>1, <1>7, <3>2, <4>1
  <2>14. CASE CommitFiles(p, "state git", "settle", "settle")
    <3>1. CASE fileDirty # {}
      <4>1. commits' \in Seq([by: 0..(N + 1), has: SUBSET Task])
            /\ dirty' \subseteq dirty /\ fileDirty' \subseteq fileDirty
        BY <1>0, <1>8, <2>14, <3>1, AddCommitTyped DEF CommitFiles
      <4> QED
        BY <1>1, <1>5, <1>7, <1>11, <2>14, <3>1, <4>1 DEF CommitFiles, Place, Result
    <3>2. CASE fileDirty = {}
      BY <1>1, <1>3, <1>7, <2>14, <3>2 DEF CommitFiles, Place, Result
    <3> QED
      BY <3>1, <3>2
  <2>15. CASE PendState(p)
    <3>1. my[p].head \in Nat /\ 0 \in 0..N
      <4>1. my[p] \in Local
        BY <1>1
      <4> QED
        BY <4>1, DriveAssumption DEF Local
    <3>2. pending' \in PendingRec
      BY <1>8, <2>15, <3>1 DEF PendState, PendingRec
    <3>3. my' \in [Cli -> Local] /\ pc' \in [Cli -> Place]
      BY <1>3, <1>7, <1>12, <2>15 DEF PendState, Answer, Place
    <3> QED
      BY <1>1, <2>15, <3>2, <3>3 DEF PendState
  <2> QED
    BY <2>1, <2>2, <2>3, <2>4, <2>5, <2>6, <2>7, <2>8, <2>9, <2>10, <2>11, <2>12,
       <2>13, <2>14, <2>15 DEF Finalize
<1> QED
  BY <1>9 DEF TypeOK, Record, Local

\* The step records that a retry writes.
LEMMA RetryRecords ==
  ASSUME TypeOK, NEW s \in Step, NEW n \in Nat
  PROVE  /\ [step[s] EXCEPT !.status = "running", !.attempt = "open"] \in Record
         /\ [status |-> "completed", result |-> "success", attempt |-> "success", sha |-> n]
              \in Record
         /\ [step[s] EXCEPT !.status = "failed", !.result = "retry", !.attempt = "retry"]
              \in Record
         /\ Opened(s) = [step EXCEPT ![s] = [step[s] EXCEPT !.status = "running",
                                                             !.attempt = "open"]]
         /\ FailedAgain(s) = [step EXCEPT ![s] = [step[s] EXCEPT !.status = "failed",
                                                !.result = "retry", !.attempt = "retry"]]
<1>1. step \in [Step -> Record] /\ step[s] \in Record
  BY TypesOf
<1>2. /\ Opened(s) = [step EXCEPT ![s] = [step[s] EXCEPT !.status = "running",
                                                         !.attempt = "open"]]
      /\ FailedAgain(s) = [step EXCEPT ![s] = [step[s] EXCEPT !.status = "failed",
                                             !.result = "retry", !.attempt = "retry"]]
  BY <1>1 DEF Opened, FailedAgain
<1>3. "retry" \in Result /\ "success" \in Result
  BY DEF Result
<1> QED
  BY <1>1, <1>2, <1>3 DEF Record

\* A retry opens a step, passes it or fails it again.
LEMMA OpensStep ==
  ASSUME TypeOK, NEW s \in Step, step' = Opened(s)
  PROVE  /\ step' \in [Step -> Record]
         /\ \A u \in Step : u # s => step'[u] = step[u]
         /\ step'[s] = [step[s] EXCEPT !.status = "running", !.attempt = "open"]
<1>1. 0 \in Nat
  OBVIOUS
<1> QED
  BY <1>1, RetryRecords, WriteStep

\* A retry records that a finalizer passed.
LEMMA PassesStep ==
  ASSUME TypeOK, NEW s \in Step, NEW n \in Nat, step' = Passed(s, n)
  PROVE  /\ step' \in [Step -> Record]
         /\ \A u \in Step : u # s => step'[u] = step[u]
         /\ step'[s] = [status |-> "completed", result |-> "success",
                        attempt |-> "success", sha |-> n]
BY RetryRecords, WriteStep DEF Passed

\* A retry records that a finalizer failed again.
LEMMA FailsStep ==
  ASSUME TypeOK, NEW s \in Step, step' = FailedAgain(s)
  PROVE  /\ step' \in [Step -> Record]
         /\ \A u \in Step : u # s => step'[u] = step[u]
         /\ step'[s] = [step[s] EXCEPT !.status = "failed", !.result = "retry",
                                       !.attempt = "retry"]
<1>1. 0 \in Nat
  OBVIOUS
<1> QED
  BY <1>1, RetryRecords, WriteStep

\* The step a retry is at.
LEMMA RetriedStep ==
  ASSUME DriveInv, NEW p \in Cli
  PROVE  /\ pc[p] \in RetryingCommit \cup RetryingStatus =>
              /\ my[p].pend.task \in Task
              /\ <<"commit", my[p].pend.task>> \in Step /\ <<"status", my[p].pend.task>> \in Step
         /\ my[p].pend \in PendingRec /\ my[p].sha \in Nat /\ <<"state", 0>> \in Step
BY TypesOf, StepsOf DEF DriveInv, RetryInHand, PendingTrue, Local

\* The retries of the command line.
LEMMA RetryTyped ==
  ASSUME DriveInv, NEW p \in Cli, Retry(p)
  PROVE  TypeOK'
<1>0. TypeOK
  BY DEF DriveInv
<1>1. RestTyped /\ step \in [Step -> Record] /\ pc \in [Cli -> Place] /\ my \in [Cli -> Local]
      /\ HEAD \in Nat /\ my[p] \in Local
  BY <1>0, TypeParts, TypesOf
<1>2. HEAD + 1 \in Nat
  BY <1>1
<1>3. /\ pc[p] \in RetryingCommit \cup RetryingStatus =>
              /\ my[p].pend.task \in Task
              /\ <<"commit", my[p].pend.task>> \in Step /\ <<"status", my[p].pend.task>> \in Step
      /\ my[p].pend \in PendingRec /\ my[p].sha \in Nat /\ <<"state", 0>> \in Step
  BY RetriedStep
<1>4. \A s \in Step, n \in Nat :
        step' = Opened(s) \/ step' = Passed(s, n) \/ step' = FailedAgain(s)
          => step' \in [Step -> Record]
  BY <1>0, OpensStep, PassesStep, FailsStep
<1>5. /\ \A r \in Result : my' = [my EXCEPT ![p].res = r] => my' \in [Cli -> Local]
      /\ \A n \in Nat : my' = [my EXCEPT ![p].sha = n] => my' \in [Cli -> Local]
      /\ \A n \in Nat, r \in Result :
           my' = [my EXCEPT ![p].res = r, ![p].sha = n] => my' \in [Cli -> Local]
      /\ \A l \in Place : Goto(p, l) => pc' \in [Cli -> Place]
  BY <1>0, LocalKept
<1>6. Leave(p) => pc' \in [Cli -> Place] /\ my' \in [Cli -> Local]
  BY <1>1, BlankTyped DEF Leave, Goto, Place
<1>7. "success" \in Result /\ 0 \in Nat
  BY DEF Result
<1>9. {"retry commit lock", "retry git", "check head", "accept", "retry status",
       "status passed", "retry state lock", "retry state git", "state passed",
       "check files", "clear", "decide"} \subseteq Place
  BY DEF Place
<1>10. /\ {} \in SUBSET Task /\ StateCommit \in 0..(N + 1)
       /\ \A t \in Task : t \in 0..(N + 1)
  BY DriveAssumption DEF StateCommit, Task
<1> USE DEF RestTyped, records, workdir, worktree, locks, history, used
<1>8. RestTyped' /\ step' \in [Step -> Record] /\ pc' \in [Cli -> Place] /\ my' \in [Cli -> Local]
  <2>1. CASE RetryCommit(p) \/ RetryState(p)
    BY <1>1, <1>3, <1>4, <1>5, <1>9, <1>7, <2>1 DEF RetryCommit, RetryState, RetryingCommit
  <2>2. CASE \/ LockCommits(p, "retry commit lock", "retry git")
             \/ LockCommits(p, "retry state lock", "retry state git")
    BY <1>1, <1>5, <1>9, <2>2 DEF LockCommits
  <2>3. CASE CommitPending(p)
    <3>1. my[p].pend.task \in 0..(N + 1) /\ dirty \in SUBSET Task
      BY <1>1, <1>3, <2>3, <1>10 DEF CommitPending, RetryingCommit
    <3>2. commits' \in Seq([by: 0..(N + 1), has: SUBSET Task])
          /\ dirty' \subseteq dirty /\ fileDirty' \subseteq fileDirty
      BY <1>0, <2>3, <3>1, AddCommitTyped DEF CommitPending
    <3>3. /\ my' \in [Cli -> Local] /\ pc' \in [Cli -> Place]
          /\ UNCHANGED <<policy, records, workdir, file, planLock, history>>
          /\ commitLock' = Nobody
      BY <1>2, <1>5, <1>9, <2>3 DEF CommitPending
    <3> QED
      BY <1>1, <3>2, <3>3
  <2>4. CASE FindNothing(p)
    BY <1>1, <1>5, <1>9, <2>4 DEF FindNothing
  <2>5. CASE CheckHead(p)
    <3>1. CASE HEAD # my[p].pend.head
      BY <1>1, <1>5, <1>9, <2>5, <3>1 DEF CheckHead
    <3>2. CASE HEAD = my[p].pend.head
      BY <1>1, <1>3, <1>4, <1>6, <1>7, <2>5, <3>2 DEF CheckHead, RetryFails, RetryingCommit
    <3> QED
      BY <3>1, <3>2
  <2>6. CASE CommitFailsAgain(p)
    BY <1>1, <1>3, <1>4, <1>6, <1>7, <2>6 DEF CommitFailsAgain, RetryFails, RetryingCommit, Mishap
  <2>7. CASE AcceptCommit(p)
    BY <1>1, <1>3, <1>4, <1>5, <1>9, <2>7 DEF AcceptCommit, RetryingCommit
  <2>8. CASE RetryStatus(p)
    <3>1. my[p].pend.task \in Task /\ SetFile(my[p].pend.task, "Done")
          /\ step' = Opened(<<"status", my[p].pend.task>>)
      BY <1>3, <2>8 DEF RetryStatus, RetryingStatus
    <3>2. /\ file' \in [Task -> {"To Do", "In Progress", "Done", "Blocked"}]
          /\ fileDirty' \subseteq Task
      BY <1>0, <3>1, FileTyped
    <3>3. step' \in [Step -> Record]
      BY <1>3, <1>4, <1>7, <2>8, <3>1 DEF RetryStatus, RetryingStatus
    <3>4. Goto(p, "status passed") /\ "status passed" \in Place
          /\ UNCHANGED <<policy, run, workdir, dirty, commits, locks, my, history>>
      BY <1>9, <2>8 DEF RetryStatus
    <3> QED
      BY <1>1, <1>5, <1>9, <3>2, <3>3, <3>4
  <2>9. CASE StatusFailsAgain(p)
    BY <1>1, <1>3, <1>4, <1>6, <1>7, <2>9 DEF StatusFailsAgain, RetryFails, RetryingStatus, Mishap
  <2>10. CASE StatusPassed(p)
    BY <1>1, <1>3, <1>4, <1>5, <1>9, <2>10 DEF StatusPassed, RetryingStatus
  <2>11. CASE CommitFiles(p, "retry state git", "state passed", "check files")
    <3>1. CASE fileDirty # {}
      <4>1. AddCommit(StateCommit, {}, fileDirty) /\ StateCommit \in 0..(N + 1)
            /\ {} \in SUBSET Task
        BY <1>10, <2>11, <3>1 DEF CommitFiles
      <4>2. commits' \in Seq([by: 0..(N + 1), has: SUBSET Task])
            /\ dirty' \subseteq dirty /\ fileDirty' \subseteq fileDirty
        BY <1>0, <4>1, AddCommitTyped
      <4> QED
        BY <1>1, <1>2, <1>5, <1>9, <1>7, <2>11, <3>1, <4>2 DEF CommitFiles
    <3>2. CASE fileDirty = {}
      BY <1>1, <1>5, <1>9, <1>7, <2>11, <3>2 DEF CommitFiles
    <3> QED
      BY <3>1, <3>2
  <2>12. CASE StateFailsAgain(p)
    BY <1>1, <1>3, <1>4, <1>6, <1>7, <2>12 DEF StateFailsAgain, RetryFails, Mishap
  <2>13. CASE StatePassed(p)
    BY <1>1, <1>3, <1>4, <1>5, <1>9, <2>13 DEF StatePassed
  <2>14. CASE AcceptFiles(p)
    BY <1>1, <1>3, <1>4, <1>5, <1>9, <1>6, <2>14 DEF AcceptFiles, RetryFails
  <2>15. CASE ClearPending(p)
    <3>1. PICK left \in SUBSET Task : my' = [my EXCEPT ![p].left = left]
      <4>1. my[p].left \in SUBSET Task
        BY <1>1 DEF Local
      <4> QED
        BY <2>15, <4>1 DEF ClearPending
    <3>2. my' \in [Cli -> Local]
      BY <1>1, <3>1 DEF Local
    <3> QED
      BY <1>1, <1>5, <1>9, <2>15, <3>2, BlankTyped DEF ClearPending
  <2> QED
    BY <2>1, <2>2, <2>3, <2>4, <2>5, <2>6, <2>7, <2>8, <2>9, <2>10, <2>11, <2>12,
       <2>13, <2>14, <2>15 DEF Retry
<1> QED
  BY <1>8 DEF TypeOK, Record, Local

\* The command line, and a crash.
LEMMA AroundTyped ==
  ASSUME DriveInv, NEW p \in Cli,
         Continue(p) \/ Resume(p) \/ Crash(p)
  PROVE  TypeOK'
<1>0. TypeOK
  BY DEF DriveInv
<1>1. RestTyped /\ step \in [Step -> Record] /\ pc \in [Cli -> Place] /\ my \in [Cli -> Local]
      /\ my[p] \in Local
  BY <1>0, TypeParts, TypesOf
<1>2. Leave(p) => pc' \in [Cli -> Place] /\ my' \in [Cli -> Local]
  BY <1>1, BlankTyped DEF Leave, Goto, Place
<1>3. \A l \in Place : Goto(p, l) => pc' \in [Cli -> Place]
  BY <1>0, LocalKept
<1>4. {"dirty", "lock", "decide", "retry commit", "retry status", "retry state"} \subseteq Place
  BY DEF Place
<1> USE DEF RestTyped, records, workdir, worktree, locks, history, used
<1>5. RestTyped' /\ step' \in [Step -> Record] /\ pc' \in [Cli -> Place] /\ my' \in [Cli -> Local]
  <2>1. CASE Continue(p)
    <3>1. CASE ResumeCompletes(p) \/ ResumeRepeats(p) \/ RefuseDirty(p)
      BY <1>1, <1>2, <3>1 DEF ResumeCompletes, ResumeRepeats, RefuseDirty
    <3>2. CASE ResumeContinues(p) \/ Prepare(p)
      BY <1>1, <1>3, <1>4, <3>2 DEF ResumeContinues, Prepare
    <3> QED
      BY <2>1, <3>1, <3>2 DEF Continue
  <2>2. CASE Resume(p)
    <3>1. PICK left \in SUBSET Task : my' = [my EXCEPT ![p].pend = pending, ![p].left = left]
      BY <2>2 DEF Resume
    <3>2. my' \in [Cli -> Local]
      <4>1. [my[p] EXCEPT !.pend = pending, !.left = left] \in Local
        BY <1>1 DEF Local
      <4>2. my' = [my EXCEPT ![p] = [my[p] EXCEPT !.pend = pending, !.left = left]]
        BY <1>1, <3>1
      <4> QED
        BY <1>1, <4>1, <4>2
    <3>3. pc' \in [Cli -> Place]
      <4>1. pending.phase \in {"none", "commit", "status", "state"}
        BY <1>1 DEF PendingRec
      <4>2. \E l \in Place : Goto(p, l)
        BY <1>4, <2>2, <4>1 DEF Resume
      <4> QED
        BY <1>3, <4>2
    <3>4. alone' \in BOOLEAN
          /\ UNCHANGED <<policy, records, workdir, worktree, locks, agents, verified>>
      BY <2>2 DEF Resume
    <3> QED
      BY <1>1, <3>2, <3>3, <3>4
  <2>3. CASE Crash(p)
    BY <1>1, <1>2, <2>3 DEF Crash
  <2> QED
    BY <2>1, <2>2, <2>3
<1> QED
  BY <1>5 DEF TypeOK, Record, Local

\* A commit by somebody else.
LEMMA OutsideTyped ==
  ASSUME DriveInv, CommitOutside
  PROVE  TypeOK'
<1>0. TypeOK
  BY DEF DriveInv
<1>1. RestTyped /\ dirty \in SUBSET Task
  BY <1>0, TypeParts DEF RestTyped
<1>2. PICK has \in {{}, dirty}, files \in {{}, fileDirty} : AddCommit(Outside, has, files)
  BY DEF CommitOutside
<1>3. Outside \in 0..(N + 1)
  BY DriveAssumption DEF Outside
<1>4. has \in SUBSET Task
  BY <1>1
<1>5. commits' \in Seq([by: 0..(N + 1), has: SUBSET Task])
      /\ dirty' \subseteq dirty /\ fileDirty' \subseteq fileDirty
  BY <1>0, <1>2, <1>3, <1>4, AddCommitTyped
<1>6. UNCHANGED <<policy, records, workdir, file, locks, pc, my, history>>
  BY DEF CommitOutside
<1> QED
  BY <1>0, <1>5, <1>6 DEF TypeOK, records, workdir, locks, history

\* Every step is well typed.
LEMMA TypedStays ==
  ASSUME DriveInv, [Next]_vars
  PROVE  TypeOK'
<1>1. ASSUME NEW p \in Cli, Proceed(p) \/ Resume(p) \/ Crash(p)
      PROVE  TypeOK'
  BY <1>1, GraphStepTyped, TaskWorkTyped, FinalizeTyped, RetryTyped, AroundTyped DEF Proceed
<1>2. CASE CommitOutside
  BY <1>2, OutsideTyped
<1>3. CASE UNCHANGED vars
  BY <1>3 DEF DriveInv, TypeOK, vars, records, workdir, worktree, locks, history
<1> QED
  BY <1>1, <1>2, <1>3 DEF Next

------------------------------------------------------------------------------
(* Frames: what a step has to show of the process that makes it, of the    *)
(* task it is about, and of everybody else.                                *)

\* Finalizers that were begun stay begun, work that was accepted stays so, what
\* is committed of it stays committed, and a partial's commit is left alone.
Forward ==
  /\ policy' = policy
  /\ \A t \in Task :
       /\ Commit(t).status # "pending" => Commit(t)'.status # "pending"
       /\ Status(t).status # "pending" => Status(t)'.status # "pending"
       /\ Agent(t).result \in {"success", "partial"} =>
            /\ Agent(t)'.result = Agent(t).result
            /\ t \notin dirty => t \notin dirty'
       /\ Agent(t).result = "partial" /\ Commit(t).status = "completed" =>
            Commit(t)' = Commit(t)

\* The work of the tasks' agents is left alone.
HandsOff ==
  /\ \A t \in Task : Agent(t)' = Agent(t)
  /\ \A t \in Task : Agent(t).result = "partial" => Commit(t)' = Commit(t)
  /\ agents' = agents /\ verified' = verified /\ dirty' \subseteq dirty

OthersStay(p) == \A q \in Cli : q # p => pc'[q] = pc[q] /\ my'[q] = my[q]

\* A pending finalization stays true.
LEMMA PendingStays ==
  ASSUME DriveInv, Forward, NEW x, PendingTrue(x), x \in PendingRec
  PROVE  PendingTrue(x)'
<1>1. x.phase \in {"commit", "status"} => x.task \in Task
  BY DEF PendingTrue
<1>2. CASE x.phase \in {"commit", "status"}
  <2>1. /\ x.task \in Task /\ policy.source /\ MayBeDone(x.task)
        /\ Commit(x.task).status # "pending"
        /\ x.phase = "commit" => Agent(x.task).result = "success"
        /\ x.phase = "status" =>
             x.task \notin dirty /\ Status(x.task).status # "pending"
    BY <1>2 DEF PendingTrue
  <2>2. TaskInOrder(x.task)
    BY <2>1 DEF DriveInv
  <2>3. policy'.source /\ Commit(x.task)'.status # "pending"
        /\ Agent(x.task)'.result = Agent(x.task).result
    BY <2>1 DEF Forward, MayBeDone
  <2>4. MayBeDone(x.task)'
    <3>1. CASE Agent(x.task).result = "success"
      BY <2>3, <3>1 DEF MayBeDone
    <3>2. CASE Agent(x.task).result # "success"
      <4>1. /\ Agent(x.task).result = "partial" /\ Commit(x.task).sha # 0
            /\ x.phase = "status"
        BY <1>2, <2>1, <3>2 DEF MayBeDone
      <4>2. Commit(x.task).status = "completed"
        BY <2>1, <2>2, <4>1 DEF TaskInOrder
      <4>3. Commit(x.task)' = Commit(x.task)
        BY <2>1, <4>1, <4>2 DEF Forward
      <4> QED
        BY <2>3, <4>1, <4>3 DEF MayBeDone
    <3> QED
      BY <3>1, <3>2
  <2>5. x.phase = "status" => x.task \notin dirty' /\ Status(x.task)'.status # "pending"
    BY <2>1 DEF MayBeDone, Forward
  <2> QED
    BY <1>2, <2>1, <2>3, <2>4, <2>5 DEF PendingTrue
<1>3. CASE x.phase \notin {"commit", "status"}
  BY <1>3 DEF PendingTrue, Forward
<1> QED
  BY <1>2, <1>3

\* A retry that does not move stays where it is.
LEMMA RetryStays ==
  ASSUME DriveInv, Forward, NEW q \in Cli, pc'[q] = pc[q], my'[q] = my[q]
  PROVE  RetryInHand(q)'
<1> DEFINE x == my[q].pend
<1>1. RetryInHand(q) /\ x \in PendingRec
  BY TypesOf DEF DriveInv, Local
<1>2. PendingTrue(x)'
  BY <1>1, PendingStays DEF RetryInHand
<1>3. x.phase \in {"commit", "status"} =>
        x.task \in Task /\ Agent(x.task).result \in {"success", "partial"}
  BY <1>1 DEF RetryInHand, PendingTrue, MayBeDone
<1>4. pc[q] \in {"check head", "accept"} \cup RetryingStatus => x.task \notin dirty'
  BY <1>1, <1>3 DEF RetryInHand, RetryingCommit, RetryingStatus, Forward
<1>5. pc[q] = "status passed" => Status(x.task)'.status # "pending"
  BY <1>1, <1>3 DEF RetryInHand, RetryingStatus, Forward
<1>6. my'[q].pend = x
  OBVIOUS
<1> HIDE DEF x
<1> QED
  BY <1>1, <1>2, <1>4, <1>5, <1>6 DEF RetryInHand, x

\* Of the invariant a step has to show what it says of the files and of the
\* process that makes it.
LEMMA OnlyMover ==
  ASSUME DriveInv, TypeOK', NEW p \in Cli, OthersStay(p), Forward,
         pc[p] \in InGraph \/ HandsOff,
         OneDriver', \A t \in Task : TaskInOrder(t)', PendingTrue(pending)',
         StepInHand(p)' /\ AnswerTrue(p)' /\ RetryInHand(p)'
  PROVE  DriveInv'
<1>1. ASSUME NEW q \in Cli, q # p
      PROVE  StepInHand(q)' /\ AnswerTrue(q)' /\ RetryInHand(q)'
  <2>1. pc'[q] = pc[q] /\ my'[q] = my[q]
    BY <1>1 DEF OthersStay
  <2>2. RetryInHand(q)'
    BY <2>1, RetryStays
  <2>3. StepInHand(q)' /\ AnswerTrue(q)'
    <3>1. CASE pc[q] \in InGraph
      <4>1. HandsOff
        BY <1>1, <3>1 DEF DriveInv, OneDriver
      <4>2. StepInHand(q) /\ AnswerTrue(q)
        BY DEF DriveInv
      <4>3. Mine(q) \in Step /\ Mine(q)' = Mine(q)
        BY <2>1, TypesOf DEF Mine, DriveInv
      <4>4. \A t \in Task :
              /\ Agent(t)' = Agent(t) /\ agents'[t] = agents[t]
              /\ t \in verified => t \in verified'
              /\ t \notin dirty => t \notin dirty'
              /\ Commit(t).status # "pending" => Commit(t)'.status # "pending"
              /\ Status(t).status # "pending" => Status(t)'.status # "pending"
              /\ Agent(t).result = "partial" => Commit(t)' = Commit(t)
        BY <4>1 DEF HandsOff, Forward
      <4>5. policy' = policy
        BY DEF Forward
      <4>6. Phase(Mine(q)) \in {"task", "commit", "status"} => TaskOf(Mine(q)) \in Task
        BY <4>3, StepsOf
      <4>7. StepInHand(q)'
        BY <2>1, <4>2, <4>3, <4>4, <4>5, <4>6 DEF StepInHand
      <4>8. AnswerTrue(q)'
        BY <2>1, <4>2, <4>3, <4>4, <4>5, <4>6 DEF AnswerTrue
      <4> QED
        BY <4>7, <4>8
    <3>2. CASE pc[q] \notin InGraph
      BY <2>1, <3>2 DEF StepInHand, AnswerTrue, InGraph
    <3> QED
      BY <3>1, <3>2
  <2> QED
    BY <2>2, <2>3
<1> QED
  BY <1>1 DEF DriveInv

\* A task that a step is not about stays in order; its changes may be committed.
LEMMA TaskStays ==
  ASSUME NEW t \in Task, TaskInOrder(t), policy' = policy,
         Agent(t)' = Agent(t), Commit(t)' = Commit(t), Status(t)' = Status(t),
         agents'[t] = agents[t], file'[t] = file[t],
         t \in ended' => t \in ended, t \in dirty' => t \in dirty,
         t \in verified => t \in verified'
  PROVE  TaskInOrder(t)'
BY DEF TaskInOrder, MayBeDone

\* Steps whose files are not written are what they were.
LEMMA StepsStay ==
  ASSUME step' = step
  PROVE  \A t \in Task : Agent(t)' = Agent(t) /\ Commit(t)' = Commit(t) /\ Status(t)' = Status(t)
BY DEF Agent, Commit, Status

\* The process goes where the plan lock goes.
LEMMA LockStays ==
  ASSUME DriveInv, NEW p \in Cli, \A q \in Cli : q # p => pc'[q] = pc[q],
         planLock' = planLock, pc'[p] \in InGraph <=> pc[p] \in InGraph
  PROVE  OneDriver'
BY DEF DriveInv, OneDriver

\* A step that writes no record and gives nobody's work away.
LEMMA QuietMove ==
  ASSUME DriveInv, TypeOK', NEW p \in Cli, OthersStay(p), OneDriver',
         UNCHANGED <<policy, step, agents, verified, ended, file, pending>>,
         dirty' \subseteq dirty,
         StepInHand(p)' /\ AnswerTrue(p)' /\ RetryInHand(p)'
  PROVE  DriveInv'
<1>1. \A t \in Task : Agent(t)' = Agent(t) /\ Commit(t)' = Commit(t) /\ Status(t)' = Status(t)
  BY StepsStay
<1>2. \A t \in Task : TaskInOrder(t)'
  BY <1>1, TaskStays DEF DriveInv
<1>3. Forward /\ HandsOff
  BY <1>1 DEF Forward, HandsOff
<1>4. PendingTrue(pending)'
  <2>1. pending \in PendingRec /\ PendingTrue(pending) /\ pending' = pending
    BY DEF DriveInv, TypeOK
  <2>2. \A x \in PendingRec : PendingTrue(x) => PendingTrue(x)'
    BY <1>3, PendingStays
  <2> QED
    BY <1>3, <2>1, <2>2 DEF PendingTrue
<1> QED
  BY <1>2, <1>3, <1>4, OnlyMover

\* Where a process is and what it has in mind after it answered, left or
\* merely moved on.
LEMMA Answered ==
  ASSUME TypeOK, NEW p \in Cli, NEW r \in Result, Answer(p, r)
  PROVE  /\ pc'[p] = "settle" /\ my'[p].res = r /\ Mine(p)' = Mine(p)
         /\ my'[p].pend = my[p].pend /\ my'[p].left = my[p].left
         /\ OthersStay(p)
<1>1. MyIs(p, [my[p] EXCEPT !.res = r])
  <2>1. r \in {"none"} \cup Result /\ 0 \in Nat
    OBVIOUS
  <2> QED
    BY <2>1, MyWith DEF Answer
<1>2. pc'[p] = "settle" /\ \A q \in Cli : q # p => pc'[q] = pc[q]
  BY WritePc DEF Answer, Place
<1>3. my[p] \in Local
  BY TypesOf
<1> QED
  BY <1>1, <1>2, <1>3 DEF MyIs, Local, Mine, OthersStay

\* A process that leaves forgets all.
LEMMA HasLeft ==
  ASSUME TypeOK, NEW p \in Cli, Leave(p)
  PROVE  pc'[p] = "idle" /\ my'[p] = Blank /\ OthersStay(p)
<1>1. pc'[p] = "idle" /\ \A q \in Cli : q # p => pc'[q] = pc[q]
  BY WritePc DEF Leave, Place
<1>2. my'[p] = Blank /\ \A q \in Cli : q # p => my'[q] = my[q]
  BY BlankTyped, WriteMy DEF Leave
<1> QED
  BY <1>1, <1>2 DEF OthersStay

\* A process that merely moves keeps what it has in mind.
LEMMA HasMoved ==
  ASSUME TypeOK, NEW p \in Cli, NEW l \in Place, Goto(p, l), my' = my
  PROVE  pc'[p] = l /\ my'[p] = my[p] /\ Mine(p)' = Mine(p) /\ OthersStay(p)
BY WritePc DEF OthersStay, Mine

\* What a process keeps of a pending finalization stays true.
LEMMA PendKept ==
  ASSUME DriveInv, Forward, NEW p \in Cli, my'[p].pend = my[p].pend
  PROVE  PendingTrue(my[p].pend)'
<1>1. my[p].pend \in PendingRec /\ PendingTrue(my[p].pend)
  BY TypesOf DEF DriveInv, RetryInHand, Local
<1>2. \A x \in PendingRec : PendingTrue(x) => PendingTrue(x)'
  BY PendingStays
<1> QED
  BY <1>1, <1>2 DEF PendingTrue

\* At most places of its program a process has little to show.
LEMMA NoRetry ==
  ASSUME NEW p \in Cli, pc'[p] \in InGraph \cup {"idle", "lock", "decide", "dirty"},
         PendingTrue(my[p].pend)'
  PROVE  RetryInHand(p)'
BY DEF RetryInHand, InGraph, AtTask, AtCommit, AtStatus, AtState,
       RetryingCommit, RetryingStatus, RetryingState

\* Outside the graph and between its steps a process has no step in hand.
LEMMA NoHand ==
  ASSUME NEW p \in Cli, pc'[p] \notin InGraph \/ pc'[p] \in {"pass", "result", "unlock"}
  PROVE  StepInHand(p)' /\ AnswerTrue(p)'
BY DEF StepInHand, AnswerTrue, InGraph, AtTask, AtCommit, AtStatus, AtState

\* A process that forgot all retries nothing.
LEMMA BlankTrue ==
  ASSUME NEW p \in Cli, my'[p] = Blank
  PROVE  PendingTrue(my[p].pend)'
BY DEF PendingTrue, Blank, NoPending

\* A process that leaves has nothing to show.
LEMMA LeavesInOrder ==
  ASSUME TypeOK, NEW p \in Cli, Leave(p)
  PROVE  StepInHand(p)' /\ AnswerTrue(p)' /\ RetryInHand(p)'
<1>1. pc'[p] = "idle" /\ my'[p] = Blank
  BY HasLeft
<1>2. "idle" \notin InGraph
  BY DEF InGraph, AtTask, AtCommit, AtStatus, AtState
<1> QED
  BY <1>1, <1>2, NoHand, BlankTrue, NoRetry

\* When no record is written and no work is given away, all is as before.
LEMMA NothingHappens ==
  ASSUME UNCHANGED <<policy, step, agents, verified>>, dirty' \subseteq dirty
  PROVE  Forward /\ HandsOff
BY StepsStay DEF Forward, HandsOff

------------------------------------------------------------------------------
(* The invariant, action by action.                      *)

\* The graph gets the plan lock, or not, and gives it back.
LEMMA LockingKeeps ==
  ASSUME DriveInv, TypeOK', NEW p \in Cli, LockPlan(p) \/ LockRefused(p) \/ Unlock(p)
  PROVE  DriveInv'
<1> USE DEF records, workdir, worktree, locks, history, used
<1>0. TypeOK /\ OneDriver /\ Cli \cap {Nobody, Dead} = {}
  BY DriveAssumption DEF DriveInv
<1>1. UNCHANGED <<policy, step, agents, verified, ended, file, pending, dirty>>
  BY DEF LockPlan, LockRefused, Unlock
<1>2. Forward
  BY <1>1, NothingHappens
<1>3. CASE LockPlan(p)
  <2>1. pc'[p] = "pass" /\ my'[p] = my[p] /\ OthersStay(p) /\ planLock' = p
    BY <1>0, <1>3, HasMoved DEF LockPlan, Place
  <2>2. OneDriver'
    <3>1. \A q \in Cli : pc[q] \notin InGraph
      BY <1>0, <1>3 DEF LockPlan, OneDriver
    <3> QED
      BY <2>1, <3>1 DEF OneDriver, OthersStay, InGraph
  <2>3. StepInHand(p)' /\ AnswerTrue(p)' /\ RetryInHand(p)'
    BY <1>2, <2>1, NoHand, PendKept, NoRetry DEF InGraph
  <2> QED
    BY <1>1, <2>1, <2>2, <2>3, QuietMove
<1>4. CASE LockRefused(p)
  <2>1. StepInHand(p)' /\ AnswerTrue(p)' /\ RetryInHand(p)'
        /\ pc'[p] = "idle" /\ OthersStay(p)
    BY <1>0, <1>4, LeavesInOrder, HasLeft DEF LockRefused
  <2>2. OneDriver'
    BY <1>0, <1>4, <2>1 DEF LockRefused, OneDriver, OthersStay, InGraph, AtTask, AtCommit,
                            AtStatus, AtState
  <2> QED
    BY <1>1, <2>1, <2>2, QuietMove
<1>5. CASE Unlock(p)
  <2>1. StepInHand(p)' /\ AnswerTrue(p)' /\ RetryInHand(p)'
        /\ pc'[p] = "idle" /\ OthersStay(p)
    BY <1>0, <1>5, LeavesInOrder, HasLeft DEF Unlock
  <2>2. planLock = p /\ planLock' = Nobody
    BY <1>0, <1>5 DEF Unlock, OneDriver, InGraph
  <2>3. OneDriver'
    BY <1>0, <2>1, <2>2 DEF OneDriver, OthersStay, InGraph, AtTask, AtCommit, AtStatus, AtState
  <2> QED
    BY <1>1, <2>1, <2>3, QuietMove
<1> QED
  BY <1>3, <1>4, <1>5

\* The pass stops, drains or completes.
LEMMA PassEnds ==
  ASSUME DriveInv, TypeOK', NEW p \in Cli,
         StopForFinalizer(p) \/ Drained(p) \/ Complete(p)
  PROVE  DriveInv'
<1> USE DEF records, workdir, worktree, locks, history, used
<1>0. TypeOK
  BY DEF DriveInv
<1>1. UNCHANGED <<policy, step, agents, verified, ended, file, pending, dirty, planLock>>
  BY DEF StopForFinalizer, Drained, Complete
<1>2. Forward
  BY <1>1, NothingHappens
<1>3. pc'[p] \in {"unlock", "result"} /\ my'[p] = my[p] /\ OthersStay(p)
      /\ pc[p] \in {"pass", "result"}
  BY <1>0, HasMoved DEF StopForFinalizer, Drained, Complete, Place
<1>4. OneDriver'
  BY <1>1, <1>3, LockStays DEF OthersStay, InGraph
<1>5. StepInHand(p)' /\ AnswerTrue(p)' /\ RetryInHand(p)'
  BY <1>2, <1>3, NoHand, PendKept, NoRetry DEF InGraph
<1> QED
  BY <1>1, <1>3, <1>4, <1>5, QuietMove

\* When one record is written, the others are what they were.
LEMMA Written ==
  ASSUME NEW s \in Step, \A u \in Step : u # s => step'[u] = step[u]
  PROVE  /\ Phase(s) = "task" =>
              /\ TaskOf(s) \in Task
              /\ Agent(TaskOf(s)) = step[s] /\ Agent(TaskOf(s))' = step'[s]
              /\ \A t \in Task : Commit(t)' = Commit(t) /\ Status(t)' = Status(t)
              /\ \A t \in Task : t # TaskOf(s) => Agent(t)' = Agent(t)
         /\ Phase(s) = "commit" =>
              /\ TaskOf(s) \in Task
              /\ Commit(TaskOf(s)) = step[s] /\ Commit(TaskOf(s))' = step'[s]
              /\ \A t \in Task : Agent(t)' = Agent(t) /\ Status(t)' = Status(t)
              /\ \A t \in Task : t # TaskOf(s) => Commit(t)' = Commit(t)
         /\ Phase(s) = "status" =>
              /\ TaskOf(s) \in Task
              /\ Status(TaskOf(s)) = step[s] /\ Status(TaskOf(s))' = step'[s]
              /\ \A t \in Task : Agent(t)' = Agent(t) /\ Commit(t)' = Commit(t)
              /\ \A t \in Task : t # TaskOf(s) => Status(t)' = Status(t)
         /\ Phase(s) = "state" =>
              \A t \in Task : Agent(t)' = Agent(t) /\ Commit(t)' = Commit(t) /\ Status(t)' = Status(t)
<1>1. \A t \in Task : /\ <<"task", t>> \in Step /\ <<"commit", t>> \in Step
                      /\ <<"status", t>> \in Step
  BY StepsOf
<1>2. s = <<Phase(s), TaskOf(s)>> /\ (Phase(s) # "state" => TaskOf(s) \in Task)
  BY StepsOf
<1> DEFINE f == Phase(s)
           n == TaskOf(s)
<1>3. s = <<f, n>> /\ (f # "state" => n \in Task)
  BY <1>2
<1>4. f = "task" => TaskOf(s) = n /\ Agent(n) = step[s] /\ Agent(n)' = step'[s]
  BY <1>3 DEF Agent
<1>5. f = "commit" => Commit(n) = step[s] /\ Commit(n)' = step'[s]
  BY <1>3 DEF Commit
<1>6. f = "status" => Status(n) = step[s] /\ Status(n)' = step'[s]
  BY <1>3 DEF Status
<1>7. ASSUME NEW t \in Task, f # "task" \/ t # n
      PROVE  Agent(t)' = Agent(t)
  <2>1. <<"task", t>> # <<f, n>>
    BY <1>7
  <2> HIDE DEF f, n
  <2>2. <<"task", t>> # s /\ <<"task", t>> \in Step
    BY <1>1, <1>3, <2>1
  <2> QED
    BY <2>2 DEF Agent
<1>8. ASSUME NEW t \in Task, f # "commit" \/ t # n
      PROVE  Commit(t)' = Commit(t)
  <2>1. <<"commit", t>> # <<f, n>>
    BY <1>8
  <2> HIDE DEF f, n
  <2>2. <<"commit", t>> # s /\ <<"commit", t>> \in Step
    BY <1>1, <1>3, <2>1
  <2> QED
    BY <2>2 DEF Commit
<1>9. ASSUME NEW t \in Task, f # "status" \/ t # n
      PROVE  Status(t)' = Status(t)
  <2>1. <<"status", t>> # <<f, n>>
    BY <1>9
  <2> HIDE DEF f, n
  <2>2. <<"status", t>> # s /\ <<"status", t>> \in Step
    BY <1>1, <1>3, <2>1
  <2> QED
    BY <2>2 DEF Status
<1> QED
  BY <1>3, <1>4, <1>5, <1>6, <1>7, <1>8, <1>9

\* A finalizer of the graph is there only where the driver commits.
LEMMA GraphSteps ==
  ASSUME NEW s \in Graph
  PROVE  /\ s \in Step
         /\ Phase(s) = "commit" => policy.source
         /\ Phase(s) = "state" => policy.state
BY DEF Graph

\* A step that died with its process is blocked.
LEMMA BlockCommittedKeeps ==
  ASSUME DriveInv, TypeOK', NEW p \in Cli, BlockCommitted(p)
  PROVE  DriveInv'
<1> USE DEF records, workdir, worktree, locks, history, used
<1>0. TypeOK
  BY DEF DriveInv
<1>1. PICK s \in Graph : /\ step[s].status = "running"
                         /\ step' = [step EXCEPT ![s].status = "blocked"]
  BY DEF BlockCommitted
<1>2. s \in Step /\ step[s] \in Record
  BY <1>0, TypesOf, GraphSteps
<1>3. /\ step'[s].status = "blocked" /\ step'[s].result = step[s].result
      /\ \A u \in Step : u # s => step'[u] = step[u]
  BY <1>0, <1>1, <1>2, TypesOf DEF Record
<1>4. UNCHANGED <<policy, agents, verified, ended, file, pending, dirty, planLock, pc, my>>
      /\ pc[p] = "pass"
  BY DEF BlockCommitted
<1>5. ASSUME NEW t \in Task
      PROVE  /\ \/ Agent(t)' = Agent(t)
                \/ /\ Agent(t).status = "running" /\ Agent(t)'.status = "blocked"
                   /\ Agent(t)'.result = Agent(t).result
             /\ \/ Commit(t)' = Commit(t)
                \/ Commit(t).status = "running" /\ Commit(t)'.status = "blocked"
             /\ \/ Status(t)' = Status(t)
                \/ /\ Status(t).status = "running" /\ Status(t)'.status = "blocked"
                   /\ Status(t)'.result = Status(t).result
  <2>0. step[s].status = "running"
    BY <1>1
  <2>1. CASE Phase(s) = "task"
    BY <1>2, <1>3, <2>0, <2>1, Written
  <2>2. CASE Phase(s) = "commit"
    BY <1>2, <1>3, <2>0, <2>2, Written
  <2>3. CASE Phase(s) = "status"
    BY <1>2, <1>3, <2>0, <2>3, Written
  <2>4. CASE Phase(s) = "state"
    BY <1>2, <1>3, <2>0, <2>4, Written
  <2> QED
    BY <1>2, <2>1, <2>2, <2>3, <2>4, StepsOf
<1>6. Forward
  BY <1>4, <1>5 DEF Forward
<1>7. ASSUME NEW t \in Task
      PROVE  TaskInOrder(t)'
  <2>1. TaskInOrder(t)
    BY DEF DriveInv
  <2> QED
    BY <1>4, <1>5, <2>1 DEF TaskInOrder, MayBeDone
<1>8. OthersStay(p) /\ OneDriver'
  BY <1>4 DEF DriveInv, OneDriver, OthersStay
<1>9. PendingTrue(pending)' /\ PendingTrue(my[p].pend)'
  BY <1>4, <1>6, PendKept, PendingStays DEF DriveInv, TypeOK
<1>10. StepInHand(p)' /\ AnswerTrue(p)' /\ RetryInHand(p)'
  BY <1>4, <1>9, NoHand, NoRetry DEF InGraph
<1> QED
  BY <1>4, <1>6, <1>7, <1>8, <1>9, <1>10, OnlyMover DEF InGraph

\* The pass starts a step whose dependencies are completed.
LEMMA StartStepKeeps ==
  ASSUME DriveInv, TypeOK', NEW p \in Cli, StartStep(p)
  PROVE  DriveInv'
<1> USE DEF records, workdir, worktree, locks, history, used
<1>0. TypeOK
  BY DEF DriveInv
<1>1. PICK s \in Runnable :
        /\ step' = [step EXCEPT ![s].status = "running", ![s].attempt = "open"]
        /\ my' = [my EXCEPT ![p].step = s, ![p].sha = 0]
        /\ Goto(p, Phase(s))
  BY DEF StartStep
<1>2. s \in Graph /\ s \in Step /\ step[s] \in Record /\ my[p] \in Local
      /\ step \in [Step -> Record] /\ my \in [Cli -> Local]
  BY <1>0, TypesOf, GraphSteps DEF Runnable
<1>3. /\ step'[s].status = "running" /\ step'[s].result = step[s].result
      /\ \A u \in Step : u # s => step'[u] = step[u]
  BY <1>1, <1>2 DEF Record
<1>4. UNCHANGED <<policy, agents, verified, ended, file, pending, dirty, planLock>>
      /\ pc[p] = "pass"
  BY DEF StartStep
<1>5. /\ Mine(p)' = s /\ my'[p].pend = my[p].pend
      /\ \A q \in Cli : q # p => my'[q] = my[q]
  BY <1>1, <1>2 DEF Local, Mine
<1>6. pc'[p] = Phase(s) /\ OthersStay(p)
  BY <1>0, <1>1, <1>2, <1>5, StepsOf, WritePc DEF OthersStay, Place
<1>7. \/ step[s].status = "ready"
      \/ step[s].status = "pending" /\ \A d \in DependsOn(s) : step[d].status = "completed"
  BY <1>1 DEF Runnable
<1>8. \A t \in Task : TaskInOrder(t)
  BY DEF DriveInv
<1>9. /\ Phase(s) = "task" => Agent(TaskOf(s)).status = "pending"
      /\ Phase(s) = "commit" => /\ policy.source /\ Agent(TaskOf(s)).status = "completed"
                                /\ Commit(TaskOf(s)).status # "completed"
      /\ Phase(s) = "status" =>
           /\ Agent(TaskOf(s)).status = "completed"
           /\ policy.source => /\ Commit(TaskOf(s)).status # "pending"
                               /\ TaskOf(s) \notin dirty
                               /\ Agent(TaskOf(s)).result = "partial" =>
                                    Commit(TaskOf(s)).status = "completed"
      /\ Phase(s) = "state" => policy.state
  <2>1. CASE Phase(s) = "task"
    <3>1. TaskOf(s) \in Task /\ Agent(TaskOf(s)) = step[s]
      BY <1>2, <1>3, <2>1, Written
    <3> QED
      BY <1>7, <1>8, <2>1, <3>1 DEF TaskInOrder
  <2>2. CASE Phase(s) = "commit"
    <3>1. TaskOf(s) \in Task /\ Commit(TaskOf(s)) = step[s]
      BY <1>2, <1>3, <2>2, Written
    <3>2. step[s].status = "pending" => Agent(TaskOf(s)).status = "completed"
      BY <1>7, <2>2 DEF DependsOn, Agent
    <3> QED
      BY <1>2, <1>7, <1>8, <2>2, <3>1, <3>2, GraphSteps DEF TaskInOrder
  <2>3. CASE Phase(s) = "status"
    <3>1. TaskOf(s) \in Task /\ Status(TaskOf(s)) = step[s]
      BY <1>2, <1>3, <2>3, Written
    <3>2. step[s].status = "pending" =>
            IF policy.source THEN Commit(TaskOf(s)).status = "completed"
            ELSE Agent(TaskOf(s)).status = "completed"
      BY <1>7, <2>3 DEF DependsOn, Agent, Commit
    <3> QED
      BY <1>7, <1>8, <2>3, <3>1, <3>2 DEF TaskInOrder
  <2>4. CASE Phase(s) = "state"
    BY <1>2, <2>4, GraphSteps
  <2> QED
    BY <1>2, <2>1, <2>2, <2>3, <2>4, StepsOf
<1>10. ASSUME NEW t \in Task
       PROVE  TaskInOrder(t)'
  <2>1. TaskInOrder(t)
    BY <1>8
  <2>2. CASE t = TaskOf(s) /\ Phase(s) = "task"
    <3>1. /\ Agent(t)'.status = "running" /\ Agent(t)'.result = Agent(t).result
          /\ Agent(t).status = "pending"
          /\ Commit(t)' = Commit(t) /\ Status(t)' = Status(t)
      BY <1>2, <1>3, <1>9, <2>2, Written
    <3> QED
      BY <1>4, <2>1, <3>1 DEF TaskInOrder, MayBeDone
  <2>3. CASE t = TaskOf(s) /\ Phase(s) = "commit"
    <3>1. /\ Agent(t)' = Agent(t) /\ Agent(t).status = "completed"
          /\ Commit(t)'.status = "running" /\ Status(t)' = Status(t)
          /\ Commit(t).status # "completed" /\ policy.source
      BY <1>2, <1>3, <1>9, <2>3, Written
    <3> QED
      BY <1>4, <2>1, <3>1 DEF TaskInOrder, MayBeDone
  <2>4. CASE t = TaskOf(s) /\ Phase(s) = "status"
    <3>1. /\ Agent(t)' = Agent(t) /\ Agent(t).status = "completed"
          /\ Commit(t)' = Commit(t)
          /\ Status(t)'.status = "running" /\ Status(t)'.result = Status(t).result
          /\ policy.source => /\ t \notin dirty /\ Commit(t).status # "pending"
                              /\ Agent(t).result = "partial" => Commit(t).status = "completed"
      BY <1>2, <1>3, <1>9, <2>4, Written
    <3> QED
      BY <1>4, <2>1, <3>1 DEF TaskInOrder, MayBeDone
  <2>5. CASE t # TaskOf(s) \/ Phase(s) = "state"
    <3>1. Agent(t)' = Agent(t) /\ Commit(t)' = Commit(t) /\ Status(t)' = Status(t)
      BY <1>2, <1>3, <2>5, Written, StepsOf
    <3> QED
      BY <1>4, <2>1, <3>1, TaskStays
  <2> QED
    BY <1>2, <2>2, <2>3, <2>4, <2>5, StepsOf
<1>11. Forward
  <2>1. ASSUME NEW t \in Task
        PROVE  /\ Commit(t).status # "pending" => Commit(t)'.status # "pending"
               /\ Status(t).status # "pending" => Status(t)'.status # "pending"
               /\ Agent(t).result \in {"success", "partial"} => Agent(t)'.result = Agent(t).result
               /\ Commit(t).status = "completed" => Commit(t)' = Commit(t)
    BY <1>2, <1>3, <1>9, Written, StepsOf
  <2> QED
    BY <1>4, <2>1 DEF Forward
<1>12. OneDriver'
  BY <1>2, <1>4, <1>6, LockStays, StepsOf DEF OthersStay, InGraph, AtTask, AtCommit, AtStatus, AtState
<1>13. PendingTrue(pending)' /\ PendingTrue(my[p].pend)'
  BY <1>4, <1>5, <1>11, PendKept, PendingStays DEF DriveInv, TypeOK
<1>14. StepInHand(p)'
  <2> DEFINE t == TaskOf(s)
  <2>1. Phase(s) # "state" => t \in Task
    BY <1>2, StepsOf
  <2>2. /\ Phase(s) = "task" => Agent(t)'.status = "running" /\ agents'[t] = 0
        /\ Phase(s) = "commit" => Commit(t)'.status = "running" /\ policy'.source
        /\ Phase(s) = "status" => Status(t)'.status = "running"
        /\ Phase(s) = "state" => policy'.state
    BY <1>2, <1>3, <1>4, <1>8, <1>9, <2>1, Written DEF TaskInOrder
  <2>3. Phase(s) \in {"task", "commit", "status", "state"}
    BY <1>2, StepsOf
  <2> HIDE DEF t
  <2> QED
    BY <1>5, <1>6, <2>2, <2>3 DEF StepInHand, AtTask, AtCommit, AtStatus, AtState, t
<1>15. AnswerTrue(p)' /\ RetryInHand(p)'
  BY <1>2, <1>6, <1>13, NoRetry, StepsOf DEF AnswerTrue, InGraph, AtTask, AtCommit, AtStatus, AtState
<1> QED
  BY <1>4, <1>6, <1>10, <1>11, <1>12, <1>13, <1>14, <1>15, OnlyMover DEF InGraph

\* The scheduler settles the step in hand by its answer.
LEMMA SettlesStep ==
  ASSUME TypeOK, NEW p \in Cli, Settle(p), my[p].res \in Result
  PROVE  /\ step'[Mine(p)].status = StatusFor(my[p].res)
         /\ step'[Mine(p)].result = my[p].res /\ step'[Mine(p)].attempt = my[p].res
         /\ \A u \in Step : u # Mine(p) => step'[u] = step[u]
         /\ pc'[p] = "pass" /\ my'[p] = [Blank EXCEPT !.left = my[p].left] /\ OthersStay(p)
         /\ my'[p].pend = NoPending
<1>1. Mine(p) \in Step /\ my[p] \in Local /\ step \in [Step -> Record] /\ my \in [Cli -> Local]
  BY TypesOf
<1>2. pc'[p] = "pass" /\ \A q \in Cli : q # p => pc'[q] = pc[q]
  BY WritePc DEF Settle, Place
<1>3. /\ my'[p] = [Blank EXCEPT !.left = my[p].left]
      /\ \A q \in Cli : q # p => my'[q] = my[q]
  BY <1>1 DEF Settle
<1>4. /\ step'[Mine(p)] = [status |-> StatusFor(my[p].res), result |-> my[p].res,
                           attempt |-> my[p].res, sha |-> my[p].sha]
      /\ \A u \in Step : u # Mine(p) => step'[u] = step[u]
  BY <1>1 DEF Settle
<1> QED
  BY <1>2, <1>3, <1>4 DEF OthersStay, Blank

\* The answer is recorded as the step's result, and its status with it.
LEMMA SettleKeeps ==
  ASSUME DriveInv, TypeOK', NEW p \in Cli, Settle(p)
  PROVE  DriveInv'
<1> USE DEF records, workdir, worktree, locks, history, used
<1>0. TypeOK
  BY DEF DriveInv
<1>1. UNCHANGED <<policy, agents, verified, ended, file, pending, dirty, planLock>>
      /\ pc[p] = "settle"
  BY DEF Settle
<1>a. PICK s \in Step : s = Mine(p)
  BY <1>0, TypesOf
<1>b. PICK t \in Task \cup {0} : t = TaskOf(s)
  BY StepsOf
<1>c. PICK r \in Result \cup {"none"} : r = my[p].res
  BY <1>0, TypesOf DEF Local
<1>2. (Phase(s) # "state" => t \in Task)
      /\ Phase(s) \in {"task", "commit", "status", "state"}
  BY <1>b, StepsOf
<1>3. AnswerTrue(p)
  BY DEF DriveInv
<1>4. r \in Result
  BY <1>1, <1>a, <1>2, <1>3, <1>c DEF AnswerTrue, Result
<1>5. /\ step'[s].status = StatusFor(r) /\ step'[s].result = r
      /\ \A u \in Step : u # s => step'[u] = step[u]
      /\ pc'[p] = "pass" /\ OthersStay(p) /\ my'[p].pend = NoPending
  BY <1>0, <1>4, <1>a, <1>c, SettlesStep
<1>6. /\ StatusFor(r) \in {"completed", "ready", "blocked", "failed"}
      /\ StatusFor(r) = "completed" <=> r \in {"success", "partial"}
      /\ StatusFor(r) = "ready" <=> r = "retry"
  BY <1>4 DEF StatusFor, Result
<1>7. \A u \in Task : TaskInOrder(u)
  BY DEF DriveInv
<1>8. /\ Phase(s) = "task" =>
           /\ Agent(t).status = "running"
           /\ Agent(t)'.status = StatusFor(r) /\ Agent(t)'.result = r
           /\ Commit(t)' = Commit(t) /\ Status(t)' = Status(t)
           /\ r \in {"success", "partial", "blocked", "failed"}
           /\ r = "success" => t \in verified
           /\ r = "partial" => policy.continues
      /\ Phase(s) = "commit" =>
           /\ Commit(t).status # "pending" /\ policy.source
           /\ Agent(t).result = "partial" => Commit(t).status = "running"
           /\ Commit(t)'.status = StatusFor(r) /\ Commit(t)'.result = r
           /\ Agent(t)' = Agent(t) /\ Status(t)' = Status(t)
           /\ r \in {"success", "blocked", "retry"}
           /\ r = "success" => t \notin dirty
      /\ Phase(s) = "status" =>
           /\ Status(t).status # "pending"
           /\ Status(t)'.status = StatusFor(r) /\ Status(t)'.result = r
           /\ Agent(t)' = Agent(t) /\ Commit(t)' = Commit(t)
           /\ r \in {"success", "partial", "failed", "retry"}
           /\ r \in {"success", "partial"} => Agent(t).result = r
      /\ \A u \in Task : u # t \/ Phase(s) = "state" =>
           Agent(u)' = Agent(u) /\ Commit(u)' = Commit(u) /\ Status(u)' = Status(u)
  <2>1. /\ Phase(s) = "task" =>
             /\ Agent(t).status = "running"
             /\ r \in {"success", "partial", "blocked", "failed"}
             /\ r = "success" => t \in verified
             /\ r = "partial" => policy.continues
        /\ Phase(s) = "commit" =>
             /\ Commit(t).status # "pending" /\ policy.source
             /\ Agent(t).result = "partial" => Commit(t).status = "running"
             /\ r \in {"success", "blocked", "retry"}
             /\ r = "success" => t \notin dirty
        /\ Phase(s) = "status" =>
             /\ Status(t).status # "pending"
             /\ r \in {"success", "partial", "failed", "retry"}
             /\ r \in {"success", "partial"} => Agent(t).result = r
    BY <1>1, <1>3, <1>a, <1>b, <1>c DEF AnswerTrue
  <2>2. CASE Phase(s) = "task"
    <3>1. /\ t \in Task /\ Agent(t)' = step'[s]
          /\ \A u \in Task : Commit(u)' = Commit(u) /\ Status(u)' = Status(u)
          /\ \A u \in Task : u # t => Agent(u)' = Agent(u)
      BY <1>2, <1>5, <2>2, <1>b, Written
    <3> QED
      BY <1>5, <2>1, <2>2, <3>1
  <2>3. CASE Phase(s) = "commit"
    <3>1. /\ t \in Task /\ Commit(t)' = step'[s]
          /\ \A u \in Task : Agent(u)' = Agent(u) /\ Status(u)' = Status(u)
          /\ \A u \in Task : u # t => Commit(u)' = Commit(u)
      BY <1>2, <1>5, <2>3, <1>b, Written
    <3> QED
      BY <1>5, <2>1, <2>3, <3>1
  <2>4. CASE Phase(s) = "status"
    <3>1. /\ t \in Task /\ Status(t)' = step'[s]
          /\ \A u \in Task : Agent(u)' = Agent(u) /\ Commit(u)' = Commit(u)
          /\ \A u \in Task : u # t => Status(u)' = Status(u)
      BY <1>2, <1>5, <2>4, <1>b, Written
    <3> QED
      BY <1>5, <2>1, <2>4, <3>1
  <2>5. CASE Phase(s) = "state"
    BY <1>2, <1>5, <2>5, Written
  <2> QED
    BY <1>2, <2>2, <2>3, <2>4, <2>5
<1>9. ASSUME NEW u \in Task
      PROVE  TaskInOrder(u)'
  <2>1. TaskInOrder(u)
    BY <1>7
  <2>2. CASE u = t /\ Phase(s) = "task"
    BY <1>1, <1>6, <1>8, <2>1, <2>2 DEF TaskInOrder, MayBeDone
  <2>3. CASE u = t /\ Phase(s) = "commit"
    BY <1>1, <1>6, <1>8, <2>1, <2>3 DEF TaskInOrder, MayBeDone
  <2>4. CASE u = t /\ Phase(s) = "status"
    BY <1>1, <1>6, <1>8, <2>1, <2>4 DEF TaskInOrder, MayBeDone
  <2>5. CASE u # t \/ Phase(s) = "state"
    BY <1>1, <1>8, <2>1, <2>5, TaskStays
  <2> QED
    BY <1>2, <2>2, <2>3, <2>4, <2>5
<1>10. Forward
  <2>1. ASSUME NEW u \in Task
        PROVE  /\ Commit(u).status # "pending" => Commit(u)'.status # "pending"
               /\ Status(u).status # "pending" => Status(u)'.status # "pending"
               /\ Agent(u).result \in {"success", "partial"} => Agent(u)'.result = Agent(u).result
               /\ Agent(u).result = "partial" /\ Commit(u).status = "completed" =>
                    Commit(u)' = Commit(u)
    <3>1. TaskInOrder(u)
      BY <1>7
    <3> QED
      BY <1>2, <1>6, <1>8, <3>1 DEF TaskInOrder
  <2> QED
    BY <1>1, <2>1 DEF Forward
<1>11. OneDriver'
  BY <1>1, <1>5, LockStays DEF OthersStay, InGraph
<1>12. PendingTrue(pending)' /\ PendingTrue(my[p].pend)'
  <2>1. PendingTrue(pending)'
    BY <1>1, <1>10, PendingStays DEF DriveInv, TypeOK
  <2>2. PendingTrue(my[p].pend)'
    BY <1>5 DEF PendingTrue, NoPending
  <2> QED
    BY <2>1, <2>2
<1>13. StepInHand(p)' /\ AnswerTrue(p)' /\ RetryInHand(p)'
  BY <1>5, <1>12, NoHand, NoRetry DEF InGraph
<1> QED
  BY <1>1, <1>5, <1>9, <1>10, <1>11, <1>12, <1>13, OnlyMover DEF InGraph

\* A step of a task fails before its agent is asked.
LEMMA BeforeAgentKeeps ==
  ASSUME DriveInv, TypeOK', NEW p \in Cli, TaskFails(p) \/ PreflightFails(p)
  PROVE  DriveInv'
<1> USE DEF records, workdir, worktree, locks, history, used
<1>0. TypeOK
  BY DEF DriveInv
<1>1. UNCHANGED <<policy, step, agents, verified, ended, file, pending, dirty, planLock>>
      /\ pc[p] = "task"
  BY DEF TaskFails, PreflightFails
<1>2. Forward
  BY <1>1, NothingHappens
<1>3. /\ pc'[p] = "settle" /\ my'[p].res \in {"failed", "blocked"} /\ Mine(p)' = Mine(p)
      /\ my'[p].pend = my[p].pend /\ OthersStay(p)
  BY <1>0, Answered DEF TaskFails, PreflightFails, Result
<1>4. OneDriver'
  BY <1>1, <1>3, LockStays DEF OthersStay, InGraph, AtTask
<1>5. Phase(Mine(p)) = "task" /\ Agent(TaskOf(Mine(p))).status = "running"
  BY <1>1 DEF DriveInv, StepInHand, AtTask
<1>6. AnswerTrue(p)' /\ StepInHand(p)'
  BY <1>1, <1>3, <1>5 DEF AnswerTrue, StepInHand, Agent, AtTask, AtCommit, AtStatus, AtState
<1>7. RetryInHand(p)'
  BY <1>2, <1>3, PendKept, NoRetry DEF InGraph
<1> QED
  BY <1>1, <1>3, <1>4, <1>6, <1>7, QuietMove

\* A step of the graph that writes no record and is about one task.
LEMMA WorkMove ==
  ASSUME DriveInv, TypeOK', NEW p \in Cli, NEW t \in Task, OthersStay(p),
         pc[p] \in InGraph, pc'[p] \in InGraph, UNCHANGED <<policy, step, planLock>>,
         \A u \in Task : u # t =>
           /\ agents'[u] = agents[u] /\ file'[u] = file[u]
           /\ (u \in ended' <=> u \in ended) /\ (u \in dirty' <=> u \in dirty)
           /\ (u \in verified' <=> u \in verified),
         TaskInOrder(t)',
         Agent(t).result \in {"success", "partial"} /\ t \notin dirty => t \notin dirty',
         pending' = pending \/ PendingTrue(pending)',
         my'[p].pend = my[p].pend, StepInHand(p)', AnswerTrue(p)'
  PROVE  DriveInv'
<1>1. \A u \in Task : Agent(u)' = Agent(u) /\ Commit(u)' = Commit(u) /\ Status(u)' = Status(u)
  BY StepsStay
<1>2. Forward
  BY <1>1 DEF Forward
<1>3. ASSUME NEW u \in Task PROVE TaskInOrder(u)'
  <2>1. CASE u # t
    <3>1. TaskInOrder(u)
      BY DEF DriveInv
    <3> QED
      BY <1>1, <2>1, <3>1, TaskStays
  <2> QED
    BY <2>1
<1>4. OneDriver'
  BY LockStays DEF OthersStay
<1>5. PendingTrue(pending)'
  <2>1. CASE pending' = pending
    BY <1>2, <2>1, PendingStays DEF DriveInv, TypeOK
  <2> QED
    BY <2>1
<1>6. RetryInHand(p)'
  BY <1>2, PendKept, NoRetry
<1> QED
  BY <1>2, <1>3, <1>4, <1>5, <1>6, OnlyMover

\* The task of the step in hand.
LEMMA TaskInHand ==
  ASSUME DriveInv, NEW p \in Cli
  PROVE  /\ pc[p] \in AtTask =>
              /\ Phase(Mine(p)) = "task" /\ TaskOf(Mine(p)) \in Task
              /\ Agent(TaskOf(Mine(p))).status = "running"
         /\ pc[p] \in AtCommit =>
              /\ Phase(Mine(p)) = "commit" /\ TaskOf(Mine(p)) \in Task
              /\ Commit(TaskOf(Mine(p))).status # "pending" /\ policy.source
         /\ pc[p] \in AtStatus =>
              /\ Phase(Mine(p)) = "status" /\ TaskOf(Mine(p)) \in Task
              /\ Status(TaskOf(Mine(p))).status # "pending"
BY TypesOf, StepsOf DEF DriveInv, StepInHand

\* The task is given to the agent of its backend, for the first time.
LEMMA GiveToAgentKeeps ==
  ASSUME DriveInv, TypeOK', NEW p \in Cli, GiveToAgent(p)
  PROVE  DriveInv'
<1> USE DEF records, workdir, worktree, locks, history, used
<1>0. TypeOK /\ pc[p] = "task"
  BY DEF DriveInv, GiveToAgent
<1>1. PICK t \in Task : t = TaskOf(Mine(p))
  BY <1>0, TaskInHand DEF AtTask
<1>2. /\ Agent(t).status = "running" /\ agents[t] = 0 /\ TaskInOrder(t)
      /\ Phase(Mine(p)) = "task"
  BY <1>0, <1>1 DEF DriveInv, StepInHand, AtTask
<1>3. pc'[p] = "agent" /\ my'[p] = my[p] /\ Mine(p)' = Mine(p) /\ OthersStay(p)
  BY <1>0, HasMoved DEF GiveToAgent, Place
<1>4. /\ file'[t] = "In Progress" /\ \A u \in Task : u # t => file'[u] = file[u]
      /\ agents'[t] = 1 /\ \A u \in Task : u # t => agents'[u] = agents[u]
      /\ UNCHANGED <<policy, step, planLock, ended, dirty, verified, pending>>
  <2>1. SetFile(t, "In Progress") /\ agents' = [agents EXCEPT ![t] = agents[t] + 1]
    BY <1>1 DEF GiveToAgent
  <2>2. /\ file'[t] = "In Progress" /\ \A u \in Task : u # t => file'[u] = file[u]
    BY <1>0, <2>1, FileTyped
  <2>3. agents \in [Task -> Nat] /\ agents[t] = 0
    BY <1>0, <1>2 DEF TypeOK
  <2>4. agents'[t] = 1 /\ \A u \in Task : u # t => agents'[u] = agents[u]
    <3>1. agents'[t] = agents[t] + 1 /\ \A u \in Task : u # t => agents'[u] = agents[u]
      BY <2>1, <2>3
    <3>2. agents[t] + 1 = 1
      BY <2>3
    <3> QED
      BY <3>1, <3>2
  <2>5. UNCHANGED <<policy, step, planLock, ended, dirty, verified, pending>>
    BY DEF GiveToAgent
  <2> QED
    BY <2>2, <2>4, <2>5
<1>5. Agent(t)' = Agent(t) /\ Commit(t)' = Commit(t) /\ Status(t)' = Status(t)
  BY <1>4, StepsStay
<1>6. TaskInOrder(t)'
  <2>0. file'[t] = "In Progress" /\ agents'[t] = 1
    BY <1>4
  <2>1. agents'[t] <= 1 /\ file'[t] # "Done"
    <3>1. file'[t] # "Done"
      BY <2>0
    <3>2. agents'[t] <= 1
      <4>1. \A n : n = 1 => n <= 1
        OBVIOUS
      <4> QED
        BY <2>0, <4>1
    <3> QED
      BY <3>1, <3>2
  <2>2. Agent(t).status # "pending"
    BY <1>2
  <2>3. policy' = policy /\ dirty' = dirty /\ ended' = ended /\ verified' = verified
    BY <1>4
  <2> QED
    BY <1>2, <1>5, <2>1, <2>2, <2>3 DEF TaskInOrder
<1>7. StepInHand(p)' /\ AnswerTrue(p)'
  BY <1>1, <1>2, <1>3, <1>5 DEF StepInHand, AnswerTrue, AtTask, AtCommit, AtStatus, AtState
<1> QED
  BY <1>0, <1>3, <1>4, <1>6, <1>7, WorkMove DEF InGraph, AtTask

\* The backend is back, the postflight has run.
LEMMA AgentEndsKeeps ==
  ASSUME DriveInv, TypeOK', NEW p \in Cli, AgentEnds(p)
  PROVE  DriveInv'
<1> USE DEF records, workdir, worktree, locks, history, used
<1>0. TypeOK /\ pc[p] = "agent"
  BY DEF DriveInv, AgentEnds
<1>1. PICK t \in Task : t = TaskOf(Mine(p))
  BY <1>0, TaskInHand DEF AtTask
<1>2. /\ Agent(t).status = "running" /\ TaskInOrder(t)
      /\ Phase(Mine(p)) = "task"
  BY <1>0, <1>1 DEF DriveInv, StepInHand, AtTask
<1>3. PICK a \in BackendAnswer, changes \in SUBSET {t} :
        /\ dirty' = dirty \cup changes
        /\ my' = [my EXCEPT ![p].res = Verdict(a, dirty \cup changes # {})]
        /\ Goto(p, IF Verdict(a, dirty \cup changes # {}) = "success" THEN "settle" ELSE "report")
        /\ verified' = IF /\ Verdict(a, dirty \cup changes # {}) = "success" /\ a.exit = "ok"
                          /\ a.post # "fail" /\ ~a.unchecked
                       THEN verified \cup {t}
                       ELSE verified \ {t}
  BY <1>1 DEF AgentEnds
<1>4. PICK r \in Result : r = Verdict(a, dirty \cup changes # {})
  BY DEF Verdict, Result
<1>5. /\ r \in {"success", "partial", "blocked", "failed"}
      /\ r = "success" => t \in verified'
  <2>1. a.exit \in {"ok", "failed"} /\ a.post \in {"none", "pass", "fail"}
        /\ a.report \in {"success", "partial", "failure", "unknown"}
        /\ a.unchecked \in BOOLEAN
    BY DEF BackendAnswer
  <2>2. r = "success" => a.exit = "ok" /\ a.post # "fail" /\ ~a.unchecked
    BY <1>4, <2>1 DEF Verdict, Derived
  <2>3. r \in {"success", "partial", "blocked", "failed"}
    BY <1>4 DEF Verdict
  <2> QED
    BY <1>3, <1>4, <2>2, <2>3
<1>6. MyIs(p, [my[p] EXCEPT !.res = r])
  <2>1. r \in {"none"} \cup Result /\ 0 \in Nat /\ my' = [my EXCEPT ![p].res = r]
    BY <1>3, <1>4
  <2> QED
    BY <1>0, <2>1, MyWith
<1>7. /\ my'[p].res = r /\ Mine(p)' = Mine(p) /\ my'[p].pend = my[p].pend
      /\ pc'[p] = (IF r = "success" THEN "settle" ELSE "report") /\ OthersStay(p)
  <2>1. my[p] \in Local
    BY <1>0, TypesOf
  <2>2. /\ my'[p].res = r /\ Mine(p)' = Mine(p) /\ my'[p].pend = my[p].pend
        /\ \A q \in Cli : q # p => my'[q] = my[q]
    BY <1>6, <2>1 DEF MyIs, Mine, Local
  <2>3. /\ pc'[p] = (IF r = "success" THEN "settle" ELSE "report")
        /\ \A q \in Cli : q # p => pc'[q] = pc[q]
    BY <1>0, <1>3, <1>4, WritePc DEF Place
  <2> QED
    BY <2>2, <2>3 DEF OthersStay
<1>8. /\ \A u \in Task : u # t => (u \in dirty' <=> u \in dirty) /\ (u \in verified' <=> u \in verified)
      /\ UNCHANGED <<policy, step, planLock, ended, pending, file, agents>>
  <2>1. UNCHANGED <<policy, step, planLock, ended, pending, file, agents>>
    BY DEF AgentEnds
  <2> QED
    BY <1>3, <2>1
<1>9. Agent(t)' = Agent(t) /\ Commit(t)' = Commit(t) /\ Status(t)' = Status(t)
  BY <1>8, StepsStay
<1>10. TaskInOrder(t)'
  BY <1>2, <1>8, <1>9 DEF TaskInOrder, MayBeDone
<1>11. StepInHand(p)'
  BY <1>1, <1>2, <1>5, <1>7, <1>9 DEF StepInHand, AtTask, AtCommit, AtStatus, AtState
<1>12. AnswerTrue(p)'
  BY <1>1, <1>2, <1>5, <1>7, <1>9 DEF AnswerTrue
<1>13. Agent(t).result \notin {"success", "partial"}
  BY <1>2 DEF TaskInOrder
<1> QED
  BY <1>0, <1>7, <1>8, <1>10, <1>11, <1>12, <1>13, WorkMove DEF InGraph, AtTask

\* A report is tried once more, or blocks the task.
LEMMA ReportKeeps ==
  ASSUME DriveInv, TypeOK', NEW p \in Cli, RetryContradicted(p) \/ ReportBlock(p)
  PROVE  DriveInv'
<1> USE DEF records, workdir, worktree, locks, history, used
<1>0. TypeOK /\ pc[p] = "report"
  BY DEF DriveInv, RetryContradicted, ReportBlock
<1>1. PICK t \in Task : t = TaskOf(Mine(p))
  BY <1>0, TaskInHand DEF AtTask
<1>2. /\ Agent(t).status = "running" /\ TaskInOrder(t)
      /\ Phase(Mine(p)) = "task" /\ my[p].res \in {"failed", "partial", "blocked"}
  BY <1>0, <1>1 DEF DriveInv, StepInHand, AtTask
<1>3. UNCHANGED <<policy, step, planLock, pending, agents, dirty, verified>>
  BY DEF RetryContradicted, ReportBlock
<1>4. Agent(t)' = Agent(t) /\ Commit(t)' = Commit(t) /\ Status(t)' = Status(t)
  BY <1>3, StepsStay
<1>5. Agent(t).result \notin {"success", "partial"}
  BY <1>2 DEF TaskInOrder
<1>6. CASE RetryContradicted(p)
  <2>1. /\ my'[p].pend = my[p].pend /\ Mine(p)' = Mine(p) /\ my'[p].res = "none"
        /\ pc'[p] = "agent" /\ OthersStay(p)
    <3>1. my[p] \in Local /\ my \in [Cli -> Local]
      BY <1>0, TypesOf
    <3>2. my' = [my EXCEPT ![p].head = 1, ![p].res = "none"]
      BY <1>6 DEF RetryContradicted
    <3>3. pc'[p] = "agent" /\ \A q \in Cli : q # p => pc'[q] = pc[q]
      BY <1>0, <1>6, WritePc DEF RetryContradicted, Place
    <3> QED
      BY <3>1, <3>2, <3>3 DEF Mine, OthersStay, Local
  <2>2. /\ file' = file
        /\ \A u \in Task : u # t => (u \in ended' <=> u \in ended)
    BY <1>1, <1>6 DEF RetryContradicted
  <2>3. TaskInOrder(t)'
    BY <1>2, <1>3, <1>4, <2>2 DEF TaskInOrder, MayBeDone
  <2>4. StepInHand(p)' /\ AnswerTrue(p)'
    BY <1>1, <1>2, <1>4, <2>1 DEF StepInHand, AnswerTrue, AtTask, AtCommit, AtStatus, AtState
  <2> QED
    BY <1>0, <1>3, <1>5, <2>1, <2>2, <2>3, <2>4, WorkMove DEF InGraph, AtTask
<1>7. CASE ReportBlock(p)
  <2>1. PICK r \in {"partial", "blocked"} : /\ Answer(p, r)
                                            /\ r = "partial" => policy.continues
    BY <1>7 DEF ReportBlock
  <2>2. /\ pc'[p] = "settle" /\ my'[p].res = r /\ Mine(p)' = Mine(p)
        /\ my'[p].pend = my[p].pend /\ OthersStay(p)
    <3>1. r \in Result
      BY DEF Result
    <3> QED
      BY <1>0, <2>1, <3>1, Answered
  <2>3. /\ file'[t] \in {"In Progress", "Blocked"}
        /\ \A u \in Task : u # t => file'[u] = file[u]
        /\ \A u \in Task : u # t => (u \in ended' <=> u \in ended)
    <3>1. ended' = ended \cup {t} /\ \E status \in {"In Progress", "Blocked"} : SetFile(t, status)
      BY <1>1, <1>7 DEF ReportBlock
    <3> QED
      BY <1>0, <3>1, FileTyped
  <2>4. TaskInOrder(t)'
    BY <1>2, <1>3, <1>4, <2>3 DEF TaskInOrder
  <2>5. StepInHand(p)' /\ AnswerTrue(p)'
    BY <1>1, <1>2, <1>3, <1>4, <2>1, <2>2
       DEF StepInHand, AnswerTrue, AtTask, AtCommit, AtStatus, AtState
  <2> QED
    BY <1>0, <1>3, <1>5, <2>2, <2>3, <2>4, <2>5, WorkMove DEF InGraph, AtTask
<1> QED
  BY <1>6, <1>7

\* Where a process is that takes note of something as it moves on.
LEMMA Noted ==
  ASSUME TypeOK, NEW p \in Cli, NEW l \in Place, Goto(p, l), NEW r \in Result, NEW n \in Nat,
         \/ my' = [my EXCEPT ![p].res = r] \/ my' = [my EXCEPT ![p].head = n]
         \/ my' = [my EXCEPT ![p].sha = n] \/ my' = [my EXCEPT ![p].res = r, ![p].sha = n]
  PROVE  /\ pc'[p] = l /\ Mine(p)' = Mine(p) /\ OthersStay(p)
         /\ my'[p].pend = my[p].pend /\ my'[p].left = my[p].left
         /\ \/ my' = [my EXCEPT ![p].res = r]
            \/ my' = [my EXCEPT ![p].res = r, ![p].sha = n]
            => my'[p].res = r
         /\ my' = [my EXCEPT ![p].res = r, ![p].sha = n] \/ my' = [my EXCEPT ![p].sha = n]
            => my'[p].sha = n
<1>1. pc'[p] = l /\ \A q \in Cli : q # p => pc'[q] = pc[q]
  BY WritePc
<1>2. my \in [Cli -> Local] /\ my[p] \in Local
  BY TypesOf
<1>3. /\ my'[p].pend = my[p].pend /\ my'[p].left = my[p].left /\ Mine(p)' = Mine(p)
      /\ \A q \in Cli : q # p => my'[q] = my[q]
  BY <1>2 DEF Mine, Local
<1>4. /\ \/ my' = [my EXCEPT ![p].res = r]
         \/ my' = [my EXCEPT ![p].res = r, ![p].sha = n]
         => my'[p].res = r
      /\ my' = [my EXCEPT ![p].res = r, ![p].sha = n] \/ my' = [my EXCEPT ![p].sha = n]
         => my'[p].sha = n
  BY <1>2 DEF Local
<1> QED
  BY <1>1, <1>3, <1>4 DEF OthersStay

\* A step of the graph that at most commits.
LEMMA QuietInGraph ==
  ASSUME DriveInv, TypeOK', NEW p \in Cli, OthersStay(p),
         pc[p] \in InGraph, pc'[p] \in InGraph,
         UNCHANGED <<policy, step, agents, verified, ended, file, pending, planLock>>,
         dirty' \subseteq dirty, my'[p].pend = my[p].pend,
         StepInHand(p)', AnswerTrue(p)'
  PROVE  DriveInv'
<1>1. OneDriver'
  BY LockStays DEF OthersStay
<1>2. Forward
  BY NothingHappens
<1>3. RetryInHand(p)'
  BY <1>2, PendKept, NoRetry
<1> QED
  BY <1>1, <1>3, QuietMove

\* The source commit, up to where it succeeds or fails.
LEMMA CommitKeeps ==
  ASSUME DriveInv, TypeOK', NEW p \in Cli,
         \/ CommitBegins(p) \/ LockCommits(p, "commit lock", "git") \/ CommitSource(p)
         \/ NothingToCommit(p) \/ NameCommit(p) \/ CommitFails(p)
  PROVE  DriveInv'
<1> USE DEF records, workdir, worktree, locks, history, used
<1>0. /\ TypeOK /\ pc[p] \in AtCommit /\ HEAD \in Nat
      /\ UNCHANGED <<policy, step, agents, verified, ended, file, pending, planLock>>
  BY TypesOf DEF DriveInv, CommitBegins, LockCommits, CommitSource, NothingToCommit, NameCommit,
     CommitFails, AtCommit
<1>1. PICK t \in Task : t = TaskOf(Mine(p))
  BY <1>0, TaskInHand
<1>2. /\ Phase(Mine(p)) = "commit" /\ policy.source /\ Commit(t).status # "pending"
      /\ TaskInOrder(t)
      /\ Agent(t).result = "partial" => Commit(t).status = "running"
  BY <1>0, <1>1 DEF DriveInv, StepInHand
<1>3. Agent(t)' = Agent(t) /\ Commit(t)' = Commit(t) /\ Status(t)' = Status(t)
      /\ policy' = policy
  BY <1>0, StepsStay
<1>4. SUFFICES /\ OthersStay(p) /\ dirty' \subseteq dirty /\ Mine(p)' = Mine(p)
               /\ my'[p].pend = my[p].pend
               /\ \/ pc'[p] \in {"commit lock", "git", "commit blocks"}
                  \/ pc'[p] = "committed" /\ t \notin dirty'
                  \/ pc'[p] = "commit pends" /\ Agent(t).result = "success"
                  \/ pc'[p] = "settle" /\ my'[p].res = "success" /\ t \notin dirty'
  <2>1. pc[p] \in InGraph /\ pc'[p] \in InGraph
    BY <1>0, <1>4 DEF InGraph, AtCommit
  <2>2. StepInHand(p)'
    BY <1>1, <1>2, <1>3, <1>4 DEF StepInHand, AtTask, AtCommit, AtStatus, AtState
  <2>3. AnswerTrue(p)'
    BY <1>1, <1>2, <1>3, <1>4 DEF AnswerTrue
  <2> QED
    BY <1>0, <1>4, <2>1, <2>2, <2>3, QuietInGraph
<1>5. "success" \in Result
  BY DEF Result
<1>6. CASE CommitBegins(p)
  <2>1. Goto(p, "commit lock") /\ "commit lock" \in Place /\ my' = [my EXCEPT ![p].head = HEAD]
        /\ dirty' = dirty
    BY <1>6 DEF CommitBegins, Place
  <2> QED
    BY <1>0, <1>5, <2>1, Noted
<1>7. CASE LockCommits(p, "commit lock", "git")
  <2>1. Goto(p, "git") /\ "git" \in Place /\ my' = my /\ dirty' = dirty
    BY <1>7 DEF LockCommits, Place
  <2> QED
    BY <1>0, <2>1, HasMoved
<1>8. CASE CommitSource(p)
  <2>1. Goto(p, "committed") /\ "committed" \in Place /\ my' = my /\ dirty' = dirty \ dirty
    BY <1>8 DEF CommitSource, AddCommit, Place
  <2> QED
    BY <1>0, <2>1, HasMoved
<1>9. CASE NothingToCommit(p)
  <2>1. Answer(p, "success") /\ dirty' = {} /\ dirty = {}
    BY <1>9 DEF NothingToCommit
  <2> QED
    BY <1>0, <1>5, <2>1, Answered
<1>10. CASE NameCommit(p)
  <2>1. Goto(p, "settle") /\ "settle" \in Place /\ dirty' = dirty
        /\ my' = [my EXCEPT ![p].res = "success", ![p].sha = HEAD]
    BY <1>10 DEF NameCommit, Place
  <2>2. t \notin dirty
    BY <1>1, <1>10 DEF NameCommit, DriveInv, StepInHand, AtCommit
  <2> QED
    BY <1>0, <1>5, <2>1, <2>2, Noted
<1>11. CASE CommitFails(p)
  <2>1. PICK l \in {"commit blocks", "commit pends"} :
          Goto(p, l) /\ (l = "commit pends" => Agent(t).result # "partial")
    BY <1>1, <1>11 DEF CommitFails, Agent
  <2>2. l \in Place /\ my' = my /\ dirty' = dirty
    BY <1>11 DEF CommitFails, Place
  <2>3. Agent(t).result \in {"success", "partial"}
    BY <1>2 DEF TaskInOrder
  <2> QED
    BY <1>0, <2>1, <2>2, <2>3, HasMoved
<1> QED
  BY <1>6, <1>7, <1>8, <1>9, <1>10, <1>11

\* A commit that failed: a partial blocks its task, a success is left pending.
LEMMA CommitFailedKeeps ==
  ASSUME DriveInv, TypeOK', NEW p \in Cli,
         BlockPartial(p) \/ PendCommit(p) \/ NoteCommitPending(p)
  PROVE  DriveInv'
<1> USE DEF records, workdir, worktree, locks, history, used
<1>0. /\ TypeOK /\ pc[p] \in AtCommit
      /\ UNCHANGED <<policy, step, agents, verified, dirty, planLock>>
  BY DEF DriveInv, BlockPartial, PendCommit, NoteCommitPending, AtCommit
<1>1. PICK t \in Task : t = TaskOf(Mine(p))
  BY <1>0, TaskInHand
<1>2. /\ Phase(Mine(p)) = "commit" /\ policy.source /\ Commit(t).status # "pending"
      /\ TaskInOrder(t)
      /\ Agent(t).result = "partial" => Commit(t).status = "running"
  BY <1>0, <1>1 DEF DriveInv, StepInHand
<1>3. Agent(t)' = Agent(t) /\ Commit(t)' = Commit(t) /\ Status(t)' = Status(t)
      /\ policy' = policy
  BY <1>0, StepsStay
<1>4. pc[p] \in InGraph /\ Agent(t).status # "pending"
  BY <1>0, <1>2 DEF InGraph, TaskInOrder
<1>5. "blocked" \in Result /\ "retry" \in Result
  BY DEF Result
<1>6. CASE BlockPartial(p)
  <2>1. /\ pc'[p] = "settle" /\ my'[p].res = "blocked" /\ Mine(p)' = Mine(p)
        /\ my'[p].pend = my[p].pend /\ OthersStay(p)
    BY <1>0, <1>5, <1>6, Answered DEF BlockPartial
  <2>2. SetFile(t, "Blocked") /\ ended' = ended \cup {t} /\ pending' = pending
    BY <1>1, <1>6 DEF BlockPartial
  <2>3. /\ file'[t] = "Blocked" /\ \A u \in Task : u # t => file'[u] = file[u]
        /\ \A u \in Task : u # t => (u \in ended' <=> u \in ended)
    BY <1>0, <2>2, FileTyped
  <2>4. TaskInOrder(t)'
    BY <1>0, <1>2, <1>3, <1>4, <2>3 DEF TaskInOrder
  <2>5. StepInHand(p)' /\ AnswerTrue(p)'
    BY <1>1, <1>2, <1>3, <2>1
       DEF StepInHand, AnswerTrue, AtTask, AtCommit, AtStatus, AtState
  <2>6. pc'[p] \in InGraph
    BY <2>1 DEF InGraph
  <2> QED
    BY <1>0, <1>4, <2>1, <2>2, <2>3, <2>4, <2>5, <2>6, WorkMove
<1>7. CASE PendCommit(p)
  <2>1. /\ pc'[p] = "commit pending" /\ Mine(p)' = Mine(p) /\ my'[p].pend = my[p].pend
        /\ OthersStay(p) /\ ended' = ended /\ file' = file
        /\ pending' = [phase |-> "commit", task |-> t, head |-> my[p].head, sha |-> 0]
    BY <1>0, <1>1, <1>7, HasMoved DEF PendCommit, Place
  <2>2. Agent(t).result = "success"
    BY <1>1, <1>7 DEF PendCommit, DriveInv, StepInHand, AtCommit
  <2>3. TaskInOrder(t)'
    BY <1>0, <1>2, <1>3, <2>1, TaskStays
  <2>4. PendingTrue(pending)'
    <3>1. pending'.phase = "commit" /\ pending'.task = t
      BY <2>1
    <3>2. (pending.phase = "commit" /\ pending.task = t)'
      BY <3>1
    <3>3. Agent(t)'.result = "success" /\ Commit(t)'.status # "pending" /\ policy'.source
      BY <1>2, <1>3, <2>2
    <3> QED
      BY <3>2, <3>3 DEF PendingTrue, MayBeDone
  <2>5. StepInHand(p)' /\ AnswerTrue(p)'
    BY <1>1, <1>2, <1>3, <2>1, <2>2
       DEF StepInHand, AnswerTrue, AtTask, AtCommit, AtStatus, AtState
  <2>6. pc'[p] \in InGraph
    BY <2>1 DEF InGraph, AtCommit
  <2> QED
    BY <1>0, <1>4, <2>1, <2>3, <2>4, <2>5, <2>6, WorkMove
<1>8. CASE NoteCommitPending(p)
  <2>1. /\ pc'[p] = "settle" /\ my'[p].res = "retry" /\ Mine(p)' = Mine(p)
        /\ my'[p].pend = my[p].pend /\ OthersStay(p)
    BY <1>0, <1>5, <1>8, Answered DEF NoteCommitPending
  <2>2. SetFile(t, "In Progress") /\ ended' = ended /\ pending' = pending
    BY <1>1, <1>8 DEF NoteCommitPending
  <2>3. /\ file'[t] = "In Progress" /\ \A u \in Task : u # t => file'[u] = file[u]
    BY <1>0, <2>2, FileTyped
  <2>4. TaskInOrder(t)'
    BY <1>0, <1>2, <1>3, <1>4, <2>2, <2>3 DEF TaskInOrder
  <2>5. StepInHand(p)' /\ AnswerTrue(p)'
    BY <1>1, <1>2, <1>3, <2>1
       DEF StepInHand, AnswerTrue, AtTask, AtCommit, AtStatus, AtState
  <2>6. pc'[p] \in InGraph
    BY <2>1 DEF InGraph
  <2> QED
    BY <1>0, <1>4, <2>1, <2>2, <2>3, <2>4, <2>5, <2>6, WorkMove
<1> QED
  BY <1>6, <1>7, <1>8

\* The status of a task: Done once its changes are committed.
LEMMA StatusKeeps ==
  ASSUME DriveInv, TypeOK', NEW p \in Cli,
         MarkDone(p) \/ KeepPartial(p) \/ AnnounceStatus(p) \/ StatusFails(p)
  PROVE  DriveInv'
<1> USE DEF records, workdir, worktree, locks, history, used
<1>0. /\ TypeOK /\ pc[p] \in AtStatus
      /\ UNCHANGED <<policy, step, agents, verified, dirty, planLock>>
  BY DEF DriveInv, MarkDone, KeepPartial, AnnounceStatus, StatusFails, AtStatus
<1>1. PICK t \in Task : t = TaskOf(Mine(p))
  BY <1>0, TaskInHand
<1>2. /\ Phase(Mine(p)) = "status" /\ Status(t).status # "pending" /\ TaskInOrder(t)
      /\ Committed(t) \in Nat
  <2>1. step[<<"commit", t>>] \in Record
    BY <1>0, StepsOf, TypesOf
  <2> QED
    BY <1>0, <1>1, <2>1 DEF DriveInv, StepInHand, Committed, Record
<1>3. Agent(t)' = Agent(t) /\ Commit(t)' = Commit(t) /\ Status(t)' = Status(t)
      /\ policy' = policy
  BY <1>0, StepsStay
<1>4. /\ pc[p] \in InGraph /\ Agent(t).status # "pending"
      /\ policy.source => t \notin dirty /\ Commit(t).status # "pending"
      /\ Agent(t).result \in {"success", "partial"}
  BY <1>0, <1>2 DEF InGraph, TaskInOrder
<1>5. "success" \in Result /\ "retry" \in Result /\ "failed" \in Result /\ "partial" \in Result
  BY DEF Result
<1>6. CASE MarkDone(p)
  <2>1. /\ pc'[p] = "announce" /\ Mine(p)' = Mine(p) /\ my'[p].pend = my[p].pend
        /\ OthersStay(p) /\ ended' = ended /\ pending' = pending
    BY <1>0, <1>6, HasMoved DEF MarkDone, Place
  <2>2. SetFile(t, "Done") /\ Agent(t).result = "success"
    BY <1>1, <1>6 DEF MarkDone, Reported, Agent
  <2>3. /\ file'[t] = "Done" /\ \A u \in Task : u # t => file'[u] = file[u]
    BY <1>0, <2>2, FileTyped
  <2>4. TaskInOrder(t)'
    BY <1>0, <1>2, <1>3, <1>4, <2>1, <2>2, <2>3 DEF TaskInOrder, MayBeDone
  <2>5. StepInHand(p)' /\ AnswerTrue(p)'
    BY <1>1, <1>2, <1>3, <2>1, <2>2
       DEF StepInHand, AnswerTrue, AtTask, AtCommit, AtStatus, AtState
  <2>6. pc'[p] \in InGraph
    BY <2>1 DEF InGraph, AtStatus
  <2> QED
    BY <1>0, <1>4, <2>1, <2>3, <2>4, <2>5, <2>6, WorkMove
<1>7. CASE AnnounceStatus(p)
  <2>0. PICK r \in Result : r = Agent(t).result
    BY <1>4, <1>5
  <2>1. /\ pc'[p] = "settle" /\ my'[p].res = Agent(t).result /\ Mine(p)' = Mine(p)
        /\ my'[p].pend = my[p].pend /\ OthersStay(p)
    <3>1. /\ Goto(p, "settle") /\ "settle" \in Place
          /\ my' = [my EXCEPT ![p].res = r, ![p].sha = Committed(t)]
      BY <1>1, <1>7, <2>0 DEF AnnounceStatus, Place, Reported, Agent
    <3> QED
      BY <1>0, <1>2, <2>0, <3>1, Noted
  <2>2. file' = file /\ ended' = ended \cup {t} /\ pending' = pending
    BY <1>1, <1>7 DEF AnnounceStatus
  <2>3. TaskInOrder(t)'
    BY <1>0, <1>2, <1>3, <1>4, <2>2 DEF TaskInOrder, MayBeDone
  <2>4. StepInHand(p)' /\ AnswerTrue(p)'
    BY <1>1, <1>2, <1>3, <1>4, <2>1
       DEF StepInHand, AnswerTrue, AtTask, AtCommit, AtStatus, AtState
  <2>5. pc'[p] \in InGraph
    BY <2>1 DEF InGraph
  <2> QED
    BY <1>0, <1>4, <2>1, <2>2, <2>3, <2>4, <2>5, WorkMove
<1>8. CASE StatusFails(p)
  <2>2. file' = file /\ ended' = ended
    BY <1>8 DEF StatusFails
  <2>3. TaskInOrder(t)'
    BY <1>0, <1>2, <1>3, <2>2, TaskStays
  <2>4. PICK r \in {"retry", "failed"} :
          /\ pc'[p] = "settle" /\ my'[p].res = r /\ Mine(p)' = Mine(p)
          /\ my'[p].pend = my[p].pend /\ OthersStay(p)
    <3>1. CASE policy.source /\ Committed(t) # 0
      <4>1. /\ Goto(p, "settle") /\ "settle" \in Place
            /\ my' = [my EXCEPT ![p].res = "retry", ![p].sha = Committed(t)]
        BY <1>1, <1>8, <3>1 DEF StatusFails, Place
      <4> QED
        BY <1>0, <1>2, <1>5, <4>1, Noted
    <3>2. CASE ~(policy.source /\ Committed(t) # 0)
      BY <1>0, <1>1, <1>5, <1>8, <3>2, Answered DEF StatusFails
    <3> QED
      BY <3>1, <3>2
  <2>5. pending' = pending \/ PendingTrue(pending)'
    <3>1. CASE policy.source /\ Committed(t) # 0
      <4>1. (pending.phase = "status" /\ pending.task = t)'
        BY <1>1, <1>8, <3>1 DEF StatusFails
      <4>2. /\ MayBeDone(t)' /\ Commit(t)'.status # "pending" /\ policy'.source
            /\ t \notin dirty' /\ Status(t)'.status # "pending"
        BY <1>0, <1>2, <1>3, <1>4, <3>1 DEF MayBeDone, Committed, Commit
      <4> QED
        BY <4>1, <4>2 DEF PendingTrue
    <3>2. CASE ~(policy.source /\ Committed(t) # 0)
      BY <1>1, <1>8, <3>2 DEF StatusFails
    <3> QED
      BY <3>1, <3>2
  <2>6. StepInHand(p)' /\ AnswerTrue(p)'
    BY <1>1, <1>2, <1>3, <2>4
       DEF StepInHand, AnswerTrue, AtTask, AtCommit, AtStatus, AtState
  <2>7. pc'[p] \in InGraph
    BY <2>4 DEF InGraph
  <2> QED
    BY <1>0, <1>4, <2>2, <2>3, <2>4, <2>5, <2>6, <2>7, WorkMove
<1>9. CASE KeepPartial(p)
  <2>1. /\ pc'[p] = "announce" /\ Mine(p)' = Mine(p) /\ my'[p].pend = my[p].pend
        /\ OthersStay(p) /\ ended' = ended /\ pending' = pending
    BY <1>0, <1>9, HasMoved DEF KeepPartial, Place
  <2>2. SetFile(t, "In Progress")
    BY <1>1, <1>9 DEF KeepPartial
  <2>3. /\ file'[t] = "In Progress" /\ \A u \in Task : u # t => file'[u] = file[u]
    BY <1>0, <2>2, FileTyped
  <2>4. TaskInOrder(t)'
    BY <1>0, <1>2, <1>3, <1>4, <2>1, <2>3 DEF TaskInOrder
  <2>5. StepInHand(p)' /\ AnswerTrue(p)'
    BY <1>1, <1>2, <1>3, <2>1
       DEF StepInHand, AnswerTrue, AtTask, AtCommit, AtStatus, AtState
  <2>6. pc'[p] \in InGraph
    BY <2>1 DEF InGraph, AtStatus
  <2> QED
    BY <1>0, <1>4, <2>1, <2>3, <2>4, <2>5, <2>6, WorkMove
<1> QED
  BY <1>6, <1>7, <1>8, <1>9

\* The commit after the last one has the next number.
LEMMA NextNumber == \A n \in Nat : n + 1 \in Nat
OBVIOUS

\* The commit of the task files.
LEMMA StateKeeps ==
  ASSUME DriveInv, TypeOK', NEW p \in Cli,
         \/ SkipStateCommit(p) \/ StateBegins(p) \/ LockCommits(p, "state lock", "state git")
         \/ CommitFiles(p, "state git", "settle", "settle") \/ PendState(p)
  PROVE  DriveInv'
<1> USE DEF records, workdir, worktree, locks, history, used
<1>0. /\ TypeOK /\ pc[p] \in AtState /\ HEAD \in Nat
      /\ UNCHANGED <<policy, step, agents, verified, ended, file, planLock>>
  BY TypesOf DEF DriveInv, SkipStateCommit, StateBegins, LockCommits, CommitFiles, PendState, AtState
<1>1. Phase(Mine(p)) = "state" /\ policy.state /\ pc[p] \in InGraph
  BY <1>0 DEF DriveInv, StepInHand, InGraph
<1>2. "success" \in Result /\ "retry" \in Result /\ HEAD + 1 \in Nat
  <2>1. "success" \in Result /\ "retry" \in Result
    BY DEF Result
  <2> QED
    BY <1>0, <2>1, NextNumber
<1>3. ASSUME /\ OthersStay(p) /\ Mine(p)' = Mine(p) /\ my'[p].pend = my[p].pend
             /\ \/ pc'[p] \in AtState
                \/ pc'[p] = "settle" /\ my'[p].res \in {"success", "retry"}
      PROVE  /\ pc'[p] \in InGraph /\ StepInHand(p)' /\ AnswerTrue(p)'
  <2>1. pc'[p] \in InGraph
    BY <1>3 DEF InGraph
  <2>2. policy'.state /\ Phase(Mine(p))' = "state"
    BY <1>0, <1>1, <1>3
  <2> QED
    BY <1>3, <2>1, <2>2 DEF StepInHand, AnswerTrue, AtTask, AtCommit, AtStatus, AtState
<1>4. CASE SkipStateCommit(p)
  <2>1. /\ pc'[p] = "settle" /\ my'[p].res = "success" /\ Mine(p)' = Mine(p)
        /\ my'[p].pend = my[p].pend /\ OthersStay(p) /\ dirty' = dirty /\ pending' = pending
    BY <1>0, <1>2, <1>4, Answered DEF SkipStateCommit
  <2> QED
    BY <1>0, <1>1, <1>3, <2>1, QuietInGraph
<1>5. CASE StateBegins(p)
  <2>1. Goto(p, "state lock") /\ "state lock" \in Place /\ my' = [my EXCEPT ![p].head = HEAD]
        /\ dirty' = dirty /\ pending' = pending
    BY <1>5 DEF StateBegins, Place
  <2>2. /\ pc'[p] \in AtState /\ Mine(p)' = Mine(p)
        /\ my'[p].pend = my[p].pend /\ OthersStay(p)
    BY <1>0, <1>2, <2>1, Noted DEF AtState
  <2> QED
    BY <1>0, <1>1, <1>3, <2>1, <2>2, QuietInGraph
<1>6. CASE LockCommits(p, "state lock", "state git")
  <2>1. /\ pc'[p] \in AtState /\ Mine(p)' = Mine(p) /\ my'[p].pend = my[p].pend
        /\ OthersStay(p) /\ dirty' = dirty /\ pending' = pending
    BY <1>0, <1>6, HasMoved DEF LockCommits, AtState, Place
  <2> QED
    BY <1>0, <1>1, <1>3, <2>1, QuietInGraph
<1>7. CASE CommitFiles(p, "state git", "settle", "settle")
  <2>1. /\ Goto(p, "settle") /\ "settle" \in Place /\ pending' = pending
        /\ \/ my' = [my EXCEPT ![p].res = "success"]
           \/ my' = [my EXCEPT ![p].res = "success", ![p].sha = HEAD + 1]
        /\ dirty' \subseteq dirty
    BY <1>7 DEF CommitFiles, AddCommit, Place
  <2>2. /\ pc'[p] = "settle" /\ my'[p].res = "success" /\ Mine(p)' = Mine(p)
        /\ my'[p].pend = my[p].pend /\ OthersStay(p)
    <3>1. CASE my' = [my EXCEPT ![p].res = "success"]
      BY <1>0, <1>2, <2>1, <3>1, Noted
    <3>2. CASE my' = [my EXCEPT ![p].res = "success", ![p].sha = HEAD + 1]
      BY <1>0, <1>2, <2>1, <3>2, Noted
    <3> QED
      BY <2>1, <3>1, <3>2
  <2> QED
    BY <1>0, <1>1, <1>3, <2>1, <2>2, QuietInGraph
<1>8. CASE PendState(p)
  <2>1. /\ pc'[p] = "settle" /\ my'[p].res = "retry" /\ Mine(p)' = Mine(p)
        /\ my'[p].pend = my[p].pend /\ OthersStay(p) /\ dirty' = dirty
    BY <1>0, <1>2, <1>8, Answered DEF PendState
  <2>2. PendingTrue(pending)'
    <3>1. (pending.phase = "state" /\ pending.task = 0)' /\ policy'.state
      BY <1>0, <1>1, <1>8 DEF PendState
    <3> QED
      BY <3>1 DEF PendingTrue
  <2>3. \A t \in Task : TaskInOrder(t)'
    <3>1. \A t \in Task : Agent(t)' = Agent(t) /\ Commit(t)' = Commit(t) /\ Status(t)' = Status(t)
      BY <1>0, StepsStay
    <3>2. \A t \in Task : TaskInOrder(t)
      BY DEF DriveInv
    <3> QED
      BY <1>0, <2>1, <3>1, <3>2, TaskStays
  <2>4. Forward
    BY <1>0, <2>1, NothingHappens
  <2>5. StepInHand(p)' /\ AnswerTrue(p)' /\ pc'[p] \in InGraph
    BY <1>3, <2>1
  <2>6. OneDriver' /\ RetryInHand(p)'
    BY <1>0, <1>1, <2>1, <2>4, <2>5, LockStays, PendKept, NoRetry DEF OthersStay
  <2> QED
    BY <1>1, <2>1, <2>2, <2>3, <2>4, <2>5, <2>6, OnlyMover
<1> QED
  BY <1>4, <1>5, <1>6, <1>7, <1>8

\* What a retry is at, and what of it is known.
LEMMA RetryKnown ==
  ASSUME DriveInv, NEW p \in Cli
  PROVE  /\ PendingTrue(my[p].pend) /\ my[p].pend \in PendingRec
         /\ pc[p] \in RetryingCommit => my[p].pend.phase = "commit"
         /\ pc[p] \in RetryingStatus => my[p].pend.phase \in {"commit", "status"}
         /\ pc[p] \in RetryingCommit \cup RetryingStatus =>
              /\ my[p].pend.task \in Task /\ policy.source
              /\ MayBeDone(my[p].pend.task)
              /\ Commit(my[p].pend.task).status # "pending"
         /\ pc[p] \in RetryingCommit => Agent(my[p].pend.task).result = "success"
         /\ pc[p] \in RetryingStatus => \/ Agent(my[p].pend.task).result = "success"
                                       \/ Status(my[p].pend.task).status # "pending"
         /\ pc[p] \in {"check head", "accept"} \cup RetryingStatus => my[p].pend.task \notin dirty
         /\ pc[p] = "status passed" => Status(my[p].pend.task).status # "pending"
         /\ pc[p] \in RetryingState => my[p].pend.phase = "state"
         /\ pc[p] \in Retrying => pc[p] \notin InGraph
<1>1. RetryInHand(p) /\ my[p].pend \in PendingRec
  BY TypesOf DEF DriveInv, Local
<1>2. pc[p] \in RetryingCommit \cup RetryingStatus => my[p].pend.phase \in {"commit", "status"}
  BY <1>1 DEF RetryInHand
<1>3. pc[p] \in RetryingCommit \cup RetryingStatus =>
              /\ my[p].pend.task \in Task /\ policy.source
              /\ MayBeDone(my[p].pend.task)
              /\ Commit(my[p].pend.task).status # "pending"
  BY <1>1, <1>2 DEF RetryInHand, PendingTrue
<1>4. pc[p] \in Retrying => pc[p] \notin InGraph
  BY DEF Retrying, RetryingCommit, RetryingStatus, RetryingState, InGraph, AtTask, AtCommit,
         AtStatus, AtState
<1>5. /\ pc[p] \in RetryingCommit => Agent(my[p].pend.task).result = "success"
      /\ pc[p] \in RetryingStatus => \/ Agent(my[p].pend.task).result = "success"
                                    \/ Status(my[p].pend.task).status # "pending"
  BY <1>1 DEF RetryInHand, PendingTrue
<1> QED
  BY <1>1, <1>3, <1>4, <1>5 DEF RetryInHand

\* A retry that writes the file of a finalizer of its task, and whatever of the
\* task's own file goes with it.
LEMMA RetryWrites ==
  ASSUME DriveInv, TypeOK', NEW p \in Cli, pc[p] \in RetryingCommit \cup RetryingStatus,
         NEW t \in Task, t = my[p].pend.task, NEW f \in {"commit", "status"}, NEW n \in Nat,
         \/ step' = Opened(<<f, t>>) \/ step' = FailedAgain(<<f, t>>)
         \/ step' = Passed(<<f, t>>, n) /\ (f = "commit" => t \notin dirty),
         f = "status" => t \notin dirty, f = "commit" => Agent(t).result = "success",
         Agent(t).result = "success" \/ Status(t).status # "pending",
         file' = file \/ (f = "status" /\ SetFile(t, "Done")),
         ended' = ended \/ ended' = ended \cup {t},
         UNCHANGED <<policy, agents, verified, dirty, pending, planLock>>
  PROVE  /\ Forward /\ HandsOff /\ PendingTrue(pending)'
         /\ \A u \in Task : TaskInOrder(u)'
         /\ f = "status" => Status(t)'.status # "pending"
<1>0. TypeOK /\ <<f, t>> \in Step /\ Phase(<<f, t>>) = f /\ TaskOf(<<f, t>>) = t
  BY StepsOf DEF DriveInv, Phase, TaskOf
<1>1. PICK s \in Step : s = <<f, t>>
  BY <1>0
<1>2. /\ step'[s].status \in {"running", "failed", "completed"}
      /\ step'[s].result = step[s].result \/ step'[s].result \in {"retry", "success"}
      /\ step'[s].status = "completed" =>
           step'[s].result = "success" /\ (f = "commit" => t \notin dirty)
      /\ step'[s].result \in {"success", "partial"} =>
           step'[s].result = "success" \/ step'[s].result = step[s].result
      /\ \A u \in Step : u # s => step'[u] = step[u]
  <2>0. step[s] \in Record
    BY <1>0, <1>1, TypesOf
  <2>1. CASE step' = Opened(<<f, t>>)
    <3>1. step' = Opened(s)
      BY <1>1, <2>1
    <3>2. /\ step'[s] = [step[s] EXCEPT !.status = "running", !.attempt = "open"]
          /\ \A u \in Step : u # s => step'[u] = step[u]
      BY <1>0, <3>1, OpensStep
    <3> QED
      BY <2>0, <3>2 DEF Record
  <2>2. CASE step' = FailedAgain(<<f, t>>)
    <3>1. step' = FailedAgain(s)
      BY <1>1, <2>2
    <3>2. /\ step'[s] = [step[s] EXCEPT !.status = "failed", !.result = "retry", !.attempt = "retry"]
          /\ \A u \in Step : u # s => step'[u] = step[u]
      BY <1>0, <3>1, FailsStep
    <3> QED
      BY <2>0, <3>2 DEF Record
  <2>3. CASE step' = Passed(<<f, t>>, n) /\ (f = "commit" => t \notin dirty)
    <3>1. step' = Passed(s, n)
      BY <1>1, <2>3
    <3>2. /\ step'[s] = [status |-> "completed", result |-> "success",
                          attempt |-> "success", sha |-> n]
          /\ \A u \in Step : u # s => step'[u] = step[u]
      BY <1>0, <3>1, PassesStep
    <3> QED
      BY <2>3, <3>2
  <2> QED
    BY <2>1, <2>2, <2>3
<1>3. /\ f = "commit" => /\ Commit(t) = step[s] /\ Commit(t)' = step'[s]
                         /\ \A u \in Task : Agent(u)' = Agent(u) /\ Status(u)' = Status(u)
                         /\ \A u \in Task : u # t => Commit(u)' = Commit(u)
      /\ f = "status" => /\ Status(t) = step[s] /\ Status(t)' = step'[s]
                         /\ \A u \in Task : Agent(u)' = Agent(u) /\ Commit(u)' = Commit(u)
                         /\ \A u \in Task : u # t => Status(u)' = Status(u)
  BY <1>0, <1>1, <1>2, Written
<1>4. /\ my[p].pend.task = t /\ MayBeDone(t) /\ Commit(t).status # "pending"
      /\ policy.source /\ TaskInOrder(t)
      /\ Agent(t).result = "partial" => Commit(t).status = "completed"
  <2>1. /\ my[p].pend.task = t /\ MayBeDone(t) /\ Commit(t).status # "pending"
        /\ policy.source /\ TaskInOrder(t)
    BY RetryKnown DEF DriveInv
  <2> QED
    BY <2>1 DEF TaskInOrder
<1>5. \A u \in Task : u # t => file'[u] = file[u] /\ (u \in ended' <=> u \in ended)
  <2>1. \A u \in Task : u # t => file'[u] = file[u]
    BY <1>0, FileTyped
  <2>2. \A u \in Task : u # t => (u \in ended' <=> u \in ended)
    OBVIOUS
  <2> QED
    BY <2>1, <2>2
<1>6. file'[t] = file[t] \/ (f = "status" /\ file'[t] = "Done")
  BY <1>0, FileTyped
<1>7. Forward /\ HandsOff
  BY <1>2, <1>3 DEF Forward, HandsOff
<1>8. PendingTrue(pending)'
  <2>1. pending \in PendingRec /\ PendingTrue(pending) /\ pending' = pending
    BY DEF DriveInv, TypeOK
  <2>2. \A x \in PendingRec : PendingTrue(x) => PendingTrue(x)'
    BY <1>7, PendingStays
  <2> QED
    BY <2>1, <2>2 DEF PendingTrue
<1>9. \A u \in Task : u # t => TaskInOrder(u)'
  BY <1>3, <1>5, TaskStays DEF DriveInv
<1>10. TaskInOrder(t)'
  <2>1. Agent(t)' = Agent(t) /\ Agent(t).status = "completed"
    BY <1>3, <1>4 DEF TaskInOrder, MayBeDone
  <2>2. CASE f = "commit"
    BY <1>2, <1>3, <1>4, <1>6, <2>1, <2>2 DEF TaskInOrder, MayBeDone
  <2>3. CASE f = "status"
    <3>1. Status(t)'.status # "pending" /\ t \notin dirty'
      BY <1>2, <1>3, <2>3
    <3>2. Commit(t)' = Commit(t) /\ policy' = policy
      BY <1>3, <2>3
    <3>3. /\ Status(t)'.status = "completed" => Status(t)'.result = "success"
          /\ Status(t)'.result \in {"success", "partial"} =>
               Status(t)'.result = "success" \/ Status(t)'.result = Status(t).result
      BY <1>2, <1>3, <2>3
    <3> QED
      BY <1>4, <1>6, <2>1, <3>1, <3>2, <3>3 DEF TaskInOrder, MayBeDone
  <2> QED
    BY <2>2, <2>3
<1> QED
  BY <1>2, <1>3, <1>7, <1>8, <1>9, <1>10

\* A retry that writes the file of the state commit.
LEMMA RetryWritesState ==
  ASSUME DriveInv, TypeOK', NEW n \in Nat,
         \/ step' = Opened(<<"state", 0>>) \/ step' = FailedAgain(<<"state", 0>>)
         \/ step' = Passed(<<"state", 0>>, n),
         UNCHANGED <<policy, agents, verified, dirty, pending, file, ended>>
  PROVE  /\ Forward /\ HandsOff /\ PendingTrue(pending)'
         /\ \A u \in Task : TaskInOrder(u)'
<1>0. TypeOK /\ <<"state", 0>> \in Step /\ Phase(<<"state", 0>>) = "state"
  BY StepsOf DEF DriveInv, Phase
<1>1. \A u \in Step : u # <<"state", 0>> => step'[u] = step[u]
  BY <1>0, OpensStep, FailsStep, PassesStep
<1>2. \A t \in Task : Agent(t)' = Agent(t) /\ Commit(t)' = Commit(t) /\ Status(t)' = Status(t)
  BY <1>1, StepsOf DEF Agent, Commit, Status
<1>3. Forward /\ HandsOff
  BY <1>2 DEF Forward, HandsOff
<1>4. PendingTrue(pending)'
  <2>1. pending \in PendingRec /\ PendingTrue(pending) /\ pending' = pending
    BY DEF DriveInv, TypeOK
  <2>2. \A x \in PendingRec : PendingTrue(x) => PendingTrue(x)'
    BY <1>3, PendingStays
  <2> QED
    BY <2>1, <2>2 DEF PendingTrue
<1> QED
  BY <1>2, <1>3, <1>4, TaskStays DEF DriveInv

\* A retry keeps what it is retrying in mind until it is through.
LEMMA RetryGoesOn ==
  ASSUME DriveInv, Forward, NEW p \in Cli, my'[p].pend = my[p].pend,
         pc'[p] \in RetryingCommit => my[p].pend.phase = "commit",
         pc'[p] \in RetryingStatus => my[p].pend.phase \in {"commit", "status"},
         pc'[p] \in {"check head", "accept"} \cup RetryingStatus => my[p].pend.task \notin dirty',
         pc'[p] = "status passed" => Status(my[p].pend.task)'.status # "pending",
         pc'[p] \in RetryingState => my[p].pend.phase = "state",
         pc'[p] = "clear" => my[p].pend.phase # "none"
  PROVE  RetryInHand(p)'
<1>1. PendingTrue(my[p].pend)'
  BY PendKept
<1> QED
  BY <1>1 DEF RetryInHand

\* A step of a retry stays out of the graph.
LEMMA RetryMove ==
  ASSUME DriveInv, TypeOK', NEW p \in Cli, OthersStay(p), pc[p] \in Retrying,
         pc'[p] \in Retrying \cup {"idle", "decide"}, planLock' = planLock,
         Forward, HandsOff, \A t \in Task : TaskInOrder(t)', PendingTrue(pending)',
         RetryInHand(p)'
  PROVE  DriveInv'
<1>1. pc[p] \notin InGraph /\ pc'[p] \notin InGraph
  BY DEF Retrying, RetryingCommit, RetryingStatus, RetryingState, InGraph, AtTask, AtCommit,
         AtStatus, AtState
<1>2. OneDriver'
  BY <1>1, LockStays DEF OthersStay
<1>3. StepInHand(p)' /\ AnswerTrue(p)'
  BY <1>1, NoHand
<1> QED
  BY <1>2, <1>3, OnlyMover

\* As long as no file of the run is written, tasks and pending work stay in order.
LEMMA RecordsStay ==
  ASSUME DriveInv, UNCHANGED <<policy, step, agents, verified, ended, file, pending>>,
         dirty' \subseteq dirty
  PROVE  /\ Forward /\ HandsOff /\ PendingTrue(pending)'
         /\ \A t \in Task : TaskInOrder(t)'
<1>1. Forward /\ HandsOff
  BY NothingHappens
<1>2. PendingTrue(pending)'
  <2>1. pending \in PendingRec /\ PendingTrue(pending) /\ pending' = pending
    BY DEF DriveInv, TypeOK
  <2>2. \A x \in PendingRec : PendingTrue(x) => PendingTrue(x)'
    BY <1>1, PendingStays
  <2> QED
    BY <2>1, <2>2 DEF PendingTrue
<1>3. \A t \in Task : Agent(t)' = Agent(t) /\ Commit(t)' = Commit(t) /\ Status(t)' = Status(t)
  BY StepsStay
<1>4. \A t \in Task : TaskInOrder(t)
  BY DEF DriveInv
<1> QED
  BY <1>1, <1>2, <1>3, <1>4, TaskStays

\* The retry of a commit.
LEMMA RetryCommitKeeps ==
  ASSUME DriveInv, TypeOK', NEW p \in Cli,
         \/ RetryCommit(p) \/ LockCommits(p, "retry commit lock", "retry git")
         \/ CommitPending(p) \/ FindNothing(p) \/ CheckHead(p) \/ CommitFailsAgain(p)
         \/ AcceptCommit(p)
  PROVE  DriveInv'
<1> USE DEF records, workdir, worktree, locks, history, used
<1>0. /\ TypeOK /\ pc[p] \in RetryingCommit /\ HEAD \in Nat
      /\ UNCHANGED <<policy, agents, verified, ended, file, pending, planLock>>
  BY TypesOf DEF DriveInv, RetryCommit, LockCommits, CommitPending, FindNothing, CheckHead,
     CommitFailsAgain, AcceptCommit, RetryingCommit
<1>1. pc[p] \in Retrying /\ my[p].sha \in Nat
  BY <1>0, TypesOf DEF Retrying, Local
<1>2. PICK t \in Task : t = my[p].pend.task
  BY <1>0, RetryKnown
<1>3. /\ my[p].pend.phase = "commit" /\ Agent(t).result = "success"
      /\ Commit(t).status # "pending"
  BY <1>0, <1>2, RetryKnown
<1>4. HEAD + 1 \in Nat /\ "commit" \in {"commit", "status"}
  BY <1>0, NextNumber
<1>5. ASSUME step' = step, dirty' \subseteq dirty
      PROVE  /\ Forward /\ HandsOff /\ PendingTrue(pending)'
             /\ \A u \in Task : TaskInOrder(u)'
  BY <1>0, <1>5, RecordsStay
<1>6. ASSUME Forward, my'[p].pend = my[p].pend,
             \/ pc'[p] \in {"retry commit lock", "retry git"}
             \/ pc'[p] \in {"check head", "accept", "retry status"} /\ t \notin dirty'
      PROVE  RetryInHand(p)' /\ pc'[p] \in Retrying
  <2>1. /\ pc'[p] \in RetryingCommit \cup {"retry status"}
        /\ pc'[p] \in {"check head", "accept"} \cup RetryingStatus => t \notin dirty'
        /\ pc'[p] \notin RetryingState \cup {"clear", "status passed"}
    BY <1>6 DEF RetryingCommit, RetryingStatus, RetryingState
  <2>2. RetryInHand(p)'
    BY <1>2, <1>3, <1>6, <2>1, RetryGoesOn DEF RetryingStatus
  <2> QED
    BY <2>1, <2>2 DEF Retrying, RetryingStatus
<1>7. CASE RetryCommit(p)
  <2>1. /\ pc'[p] = "retry commit lock" /\ my'[p].pend = my[p].pend /\ OthersStay(p)
        /\ dirty' = dirty /\ step' = Opened(<<"commit", t>>)
    BY <1>0, <1>2, <1>7, HasMoved DEF RetryCommit, Place
  <2>2. Forward /\ HandsOff /\ PendingTrue(pending)' /\ \A u \in Task : TaskInOrder(u)'
    BY <1>0, <1>1, <1>2, <1>3, <1>4, <2>1, RetryWrites
  <2> QED
    BY <1>0, <1>1, <1>6, <2>1, <2>2, RetryMove
<1>8. CASE LockCommits(p, "retry commit lock", "retry git")
  <2>1. /\ pc'[p] = "retry git" /\ my'[p].pend = my[p].pend /\ OthersStay(p)
        /\ dirty' = dirty /\ step' = step
    BY <1>0, <1>8, HasMoved DEF LockCommits, Place
  <2> QED
    BY <1>0, <1>1, <1>5, <1>6, <2>1, RetryMove
<1>9. CASE CommitPending(p)
  <2>1. Goto(p, "accept") /\ "accept" \in Place /\ my' = [my EXCEPT ![p].sha = HEAD + 1]
        /\ dirty' = dirty \ dirty /\ step' = step
    BY <1>9 DEF CommitPending, AddCommit, Place
  <2>2. pc'[p] = "accept" /\ my'[p].pend = my[p].pend /\ OthersStay(p)
    <3>1. "success" \in Result
      BY DEF Result
    <3> QED
      BY <1>0, <1>4, <2>1, <3>1, Noted
  <2>3. t \notin dirty' /\ dirty' \subseteq dirty
    BY <2>1
  <2> QED
    BY <1>0, <1>1, <1>5, <1>6, <2>1, <2>2, <2>3, RetryMove
<1>10. CASE FindNothing(p)
  <2>1. /\ pc'[p] = "check head" /\ my'[p].pend = my[p].pend /\ OthersStay(p)
        /\ dirty' = dirty /\ step' = step /\ dirty = {}
    BY <1>0, <1>10, HasMoved DEF FindNothing, Place
  <2> QED
    BY <1>0, <1>1, <1>5, <1>6, <2>1, RetryMove
<1>11. ASSUME RetryFails(p, <<"commit", my[p].pend.task>>), dirty' = dirty PROVE DriveInv'
  <2>1. step' = FailedAgain(<<"commit", t>>) /\ Leave(p)
    BY <1>2, <1>11 DEF RetryFails
  <2>2. pc'[p] = "idle" /\ OthersStay(p) /\ RetryInHand(p)'
    BY <1>0, <2>1, HasLeft, LeavesInOrder
  <2>3. Forward /\ HandsOff /\ PendingTrue(pending)' /\ \A u \in Task : TaskInOrder(u)'
    BY <1>0, <1>1, <1>2, <1>3, <1>4, <1>11, <2>1, RetryWrites
  <2> QED
    BY <1>0, <1>1, <2>2, <2>3, RetryMove
<1>12. CASE CheckHead(p)
  <2>1. dirty' = dirty
    BY <1>12 DEF CheckHead
  <2>2. CASE HEAD # my[p].pend.head
    <3>1. Goto(p, "accept") /\ "accept" \in Place /\ my' = [my EXCEPT ![p].sha = HEAD]
          /\ step' = step
      BY <1>12, <2>2 DEF CheckHead, Place
    <3>2. pc'[p] = "accept" /\ my'[p].pend = my[p].pend /\ OthersStay(p)
      <4>1. "success" \in Result
        BY DEF Result
      <4> QED
        BY <1>0, <3>1, <4>1, Noted
    <3>3. t \notin dirty'
      <4>1. pc[p] = "check head"
        BY <1>12 DEF CheckHead
      <4> QED
        BY <1>2, <2>1, <4>1, RetryKnown
    <3> QED
      BY <1>0, <1>1, <1>5, <1>6, <2>1, <3>1, <3>2, <3>3, RetryMove
  <2>3. CASE ~(HEAD # my[p].pend.head)
    BY <1>11, <1>12, <2>1, <2>3 DEF CheckHead
  <2> QED
    BY <2>2, <2>3
<1>13. CASE CommitFailsAgain(p)
  BY <1>11, <1>13 DEF CommitFailsAgain
<1>14. CASE AcceptCommit(p)
  <2>1. /\ pc'[p] = "retry status" /\ my'[p].pend = my[p].pend /\ OthersStay(p)
        /\ dirty' = dirty /\ step' = Passed(<<"commit", t>>, my[p].sha)
    BY <1>0, <1>2, <1>14, HasMoved DEF AcceptCommit, Place
  <2>2. t \notin dirty
    <3>1. pc[p] = "accept"
      BY <1>14 DEF AcceptCommit
    <3> QED
      BY <1>2, <3>1, RetryKnown
  <2>3. Forward /\ HandsOff /\ PendingTrue(pending)' /\ \A u \in Task : TaskInOrder(u)'
    BY <1>0, <1>1, <1>2, <1>3, <1>4, <2>1, <2>2, RetryWrites
  <2> QED
    BY <1>0, <1>1, <1>6, <2>1, <2>2, <2>3, RetryMove
<1> QED
  BY <1>7, <1>8, <1>9, <1>10, <1>12, <1>13, <1>14

\* The retry of a status.
LEMMA RetryStatusKeeps ==
  ASSUME DriveInv, TypeOK', NEW p \in Cli,
         RetryStatus(p) \/ StatusFailsAgain(p) \/ StatusPassed(p)
  PROVE  DriveInv'
<1> USE DEF records, workdir, worktree, locks, history, used
<1>0. /\ TypeOK /\ pc[p] \in RetryingStatus
      /\ UNCHANGED <<policy, agents, verified, dirty, pending, planLock>>
  BY DEF DriveInv, RetryStatus, StatusFailsAgain, StatusPassed, RetryingStatus
<1>1. pc[p] \in Retrying /\ my[p].sha \in Nat /\ 0 \in Nat
  BY <1>0, TypesOf DEF Retrying, Local
<1>2. PICK t \in Task : t = my[p].pend.task
  BY <1>0, RetryKnown
<1>3. /\ my[p].pend.phase \in {"commit", "status"} /\ t \notin dirty
      /\ "status" \in {"commit", "status"} /\ "status" # "commit"
      /\ Agent(t).result = "success" \/ Status(t).status # "pending"
  BY <1>0, <1>2, RetryKnown
<1>4. CASE RetryStatus(p)
  <2>1. /\ pc'[p] = "status passed" /\ my'[p].pend = my[p].pend /\ OthersStay(p)
        /\ step' = Opened(<<"status", t>>) /\ SetFile(t, "Done") /\ ended' = ended
    BY <1>0, <1>2, <1>4, HasMoved DEF RetryStatus, Place
  <2>2. /\ Forward /\ HandsOff /\ PendingTrue(pending)' /\ \A u \in Task : TaskInOrder(u)'
        /\ Status(t)'.status # "pending"
    BY <1>0, <1>1, <1>2, <1>3, <2>1, RetryWrites
  <2>3. RetryInHand(p)'
    BY <1>0, <1>2, <1>3, <2>1, <2>2, RetryGoesOn
       DEF RetryingCommit, RetryingStatus, RetryingState
  <2>4. pc'[p] \in Retrying
    BY <2>1 DEF Retrying, RetryingStatus
  <2> QED
    BY <1>0, <1>1, <2>1, <2>2, <2>3, <2>4, RetryMove
<1>5. CASE StatusFailsAgain(p)
  <2>1. step' = FailedAgain(<<"status", t>>) /\ Leave(p) /\ file' = file /\ ended' = ended
    BY <1>2, <1>5 DEF StatusFailsAgain, RetryFails
  <2>2. pc'[p] = "idle" /\ OthersStay(p) /\ RetryInHand(p)'
    BY <1>0, <2>1, HasLeft, LeavesInOrder
  <2>3. Forward /\ HandsOff /\ PendingTrue(pending)' /\ \A u \in Task : TaskInOrder(u)'
    BY <1>0, <1>1, <1>2, <1>3, <2>1, RetryWrites
  <2> QED
    BY <1>0, <1>1, <2>2, <2>3, RetryMove
<1>6. CASE StatusPassed(p)
  <2>1. /\ pc'[p] = "clear" /\ my'[p].pend = my[p].pend /\ OthersStay(p)
        /\ step' = Passed(<<"status", t>>, my[p].sha) /\ ended' = ended \cup {t}
        /\ file' = file
    BY <1>0, <1>2, <1>6, HasMoved DEF StatusPassed, Place
  <2>2. /\ Forward /\ HandsOff /\ PendingTrue(pending)' /\ \A u \in Task : TaskInOrder(u)'
    BY <1>0, <1>1, <1>2, <1>3, <2>1, RetryWrites
  <2>3. RetryInHand(p)'
    BY <1>0, <1>2, <1>3, <2>1, <2>2, RetryGoesOn
       DEF RetryingCommit, RetryingStatus, RetryingState
  <2>4. pc'[p] \in Retrying
    BY <2>1 DEF Retrying
  <2> QED
    BY <1>0, <1>1, <2>1, <2>2, <2>3, <2>4, RetryMove
<1> QED
  BY <1>4, <1>5, <1>6

\* The retry of the commit of the task files.
LEMMA RetryStateKeeps ==
  ASSUME DriveInv, TypeOK', NEW p \in Cli,
         \/ RetryState(p) \/ LockCommits(p, "retry state lock", "retry state git")
         \/ CommitFiles(p, "retry state git", "state passed", "check files")
         \/ StateFailsAgain(p) \/ StatePassed(p) \/ AcceptFiles(p)
  PROVE  DriveInv'
<1> USE DEF records, workdir, worktree, locks, history, used
<1>0. /\ TypeOK /\ pc[p] \in RetryingState /\ HEAD \in Nat
      /\ UNCHANGED <<policy, agents, verified, ended, file, pending, planLock>>
  BY TypesOf DEF DriveInv, RetryState, LockCommits, CommitFiles, StateFailsAgain, StatePassed,
     AcceptFiles, RetryingState
<1>1. pc[p] \in Retrying /\ my[p].sha \in Nat /\ 0 \in Nat /\ "success" \in Result
      /\ HEAD + 1 \in Nat
  BY <1>0, TypesOf, NextNumber DEF Retrying, Local, Result
<1>2. my[p].pend.phase = "state"
  BY <1>0, RetryKnown
<1>3. ASSUME Forward, my'[p].pend = my[p].pend, pc'[p] \in RetryingState \cup {"clear"}
      PROVE  RetryInHand(p)' /\ pc'[p] \in Retrying
  <2>1. pc'[p] \notin RetryingCommit \cup RetryingStatus
    BY <1>3 DEF RetryingCommit, RetryingStatus, RetryingState
  <2>2. pc'[p] \notin {"check head", "accept", "status passed"}
    BY <2>1 DEF RetryingCommit, RetryingStatus
  <2>3. RetryInHand(p)'
    BY <1>2, <1>3, <2>1, <2>2, RetryGoesOn
  <2> QED
    BY <1>3, <2>3 DEF Retrying
<1>4. CASE RetryState(p)
  <2>1. /\ pc'[p] = "retry state lock" /\ my'[p].pend = my[p].pend /\ OthersStay(p)
        /\ dirty' = dirty /\ step' = Opened(<<"state", 0>>)
    BY <1>0, <1>4, HasMoved DEF RetryState, Place
  <2>2. Forward /\ HandsOff /\ PendingTrue(pending)' /\ \A u \in Task : TaskInOrder(u)'
    BY <1>0, <1>1, <2>1, RetryWritesState
  <2>3. pc'[p] \in RetryingState
    BY <2>1 DEF RetryingState
  <2> QED
    BY <1>0, <1>1, <1>3, <2>1, <2>2, <2>3, RetryMove
<1>5. CASE LockCommits(p, "retry state lock", "retry state git")
  <2>1. /\ pc'[p] = "retry state git" /\ my'[p].pend = my[p].pend /\ OthersStay(p)
        /\ dirty' = dirty /\ step' = step
    BY <1>0, <1>5, HasMoved DEF LockCommits, Place
  <2>2. Forward /\ HandsOff /\ PendingTrue(pending)' /\ \A u \in Task : TaskInOrder(u)'
    BY <1>0, <2>1, RecordsStay
  <2>3. pc'[p] \in RetryingState
    BY <2>1 DEF RetryingState
  <2> QED
    BY <1>0, <1>1, <1>3, <2>1, <2>2, <2>3, RetryMove
<1>6. CASE CommitFiles(p, "retry state git", "state passed", "check files")
  <2>1. PICK l \in {"state passed", "check files"} :
          /\ Goto(p, l) /\ l \in Place
          /\ \/ my' = [my EXCEPT ![p].res = "success"]
             \/ my' = [my EXCEPT ![p].res = "success", ![p].sha = HEAD + 1]
          /\ dirty' \subseteq dirty /\ step' = step
    BY <1>6 DEF CommitFiles, AddCommit, Place
  <2>2. pc'[p] = l /\ my'[p].pend = my[p].pend /\ OthersStay(p)
    <3>1. CASE my' = [my EXCEPT ![p].res = "success"]
      BY <1>0, <1>1, <2>1, <3>1, Noted
    <3>2. CASE my' = [my EXCEPT ![p].res = "success", ![p].sha = HEAD + 1]
      BY <1>0, <1>1, <2>1, <3>2, Noted
    <3> QED
      BY <2>1, <3>1, <3>2
  <2>3. Forward /\ HandsOff /\ PendingTrue(pending)' /\ \A u \in Task : TaskInOrder(u)'
    BY <1>0, <2>1, RecordsStay
  <2>4. pc'[p] \in RetryingState
    BY <2>1, <2>2 DEF RetryingState
  <2> QED
    BY <1>0, <1>1, <1>3, <2>2, <2>3, <2>4, RetryMove
<1>7. ASSUME RetryFails(p, <<"state", 0>>), dirty' = dirty PROVE DriveInv'
  <2>1. step' = FailedAgain(<<"state", 0>>) /\ Leave(p)
    BY <1>7 DEF RetryFails
  <2>2. pc'[p] = "idle" /\ OthersStay(p) /\ RetryInHand(p)'
    BY <1>0, <2>1, HasLeft, LeavesInOrder
  <2>3. Forward /\ HandsOff /\ PendingTrue(pending)' /\ \A u \in Task : TaskInOrder(u)'
    BY <1>0, <1>1, <1>7, <2>1, RetryWritesState
  <2> QED
    BY <1>0, <1>1, <2>2, <2>3, RetryMove
<1>8. CASE StateFailsAgain(p)
  BY <1>7, <1>8 DEF StateFailsAgain
<1>9. ASSUME NEW n \in Nat, step' = Passed(<<"state", 0>>, n), Goto(p, "clear"), my' = my,
             dirty' = dirty
      PROVE  DriveInv'
  <2>1. pc'[p] = "clear" /\ my'[p].pend = my[p].pend /\ OthersStay(p)
    BY <1>0, <1>9, HasMoved DEF Place
  <2>2. Forward /\ HandsOff /\ PendingTrue(pending)' /\ \A u \in Task : TaskInOrder(u)'
    BY <1>0, <1>9, RetryWritesState
  <2> QED
    BY <1>0, <1>1, <1>3, <2>1, <2>2, RetryMove
<1>10. CASE StatePassed(p)
  BY <1>1, <1>9, <1>10 DEF StatePassed
<1>11. CASE AcceptFiles(p)
  <2>1. dirty' = dirty
    BY <1>11 DEF AcceptFiles
  <2> QED
    BY <1>0, <1>7, <1>9, <1>11, <2>1 DEF AcceptFiles
<1> QED
  BY <1>4, <1>5, <1>6, <1>8, <1>10, <1>11

\* What was pending is over.
LEMMA ClearKeeps ==
  ASSUME DriveInv, TypeOK', NEW p \in Cli, ClearPending(p)
  PROVE  DriveInv'
<1> USE DEF records, workdir, worktree, locks, history, used
<1>0. /\ TypeOK /\ pc[p] = "clear"
      /\ UNCHANGED <<policy, step, agents, verified, ended, file, dirty, planLock>>
  BY DEF DriveInv, ClearPending
<1>1. /\ pc'[p] = "decide" /\ my'[p].pend = my[p].pend /\ OthersStay(p)
  <2>1. pc'[p] = "decide" /\ \A q \in Cli : q # p => pc'[q] = pc[q]
    BY <1>0, WritePc DEF ClearPending, Place
  <2>2. my \in [Cli -> Local] /\ my[p] \in Local
    BY <1>0, TypesOf
  <2>3. my'[p].pend = my[p].pend /\ \A q \in Cli : q # p => my'[q] = my[q]
    BY <2>2 DEF ClearPending, Local
  <2> QED
    BY <2>1, <2>3 DEF OthersStay
<1>2. Forward /\ HandsOff
  BY <1>0, NothingHappens
<1>3. \A t \in Task : TaskInOrder(t)'
  BY <1>0, StepsStay, TaskStays DEF DriveInv
<1>4. PendingTrue(pending)'
  BY DEF ClearPending, PendingTrue, NoPending
<1>5. RetryInHand(p)'
  BY <1>1, <1>2, PendKept, NoRetry
<1> QED
  BY <1>0, <1>1, <1>2, <1>3, <1>4, <1>5, RetryMove DEF Retrying

\* The run itself is taken up, repeated, refused or over.
LEMMA ContinueKeeps ==
  ASSUME DriveInv, TypeOK', NEW p \in Cli, Continue(p)
  PROVE  DriveInv'
<1> USE DEF records, workdir, worktree, locks, history, used
<1>0. /\ TypeOK /\ pc[p] \in {"decide", "dirty"}
      /\ UNCHANGED <<policy, step, agents, verified, ended, file, pending, dirty, planLock>>
  BY DEF DriveInv, Continue, ResumeCompletes, ResumeRepeats, ResumeContinues, RefuseDirty, Prepare
<1>1. Forward
  BY <1>0, NothingHappens
<1>2. CASE ResumeCompletes(p) \/ ResumeRepeats(p) \/ RefuseDirty(p)
  <2>1. Leave(p)
    BY <1>2 DEF ResumeCompletes, ResumeRepeats, RefuseDirty
  <2>2. pc'[p] = "idle" /\ OthersStay(p)
        /\ StepInHand(p)' /\ AnswerTrue(p)' /\ RetryInHand(p)'
    BY <1>0, <2>1, HasLeft, LeavesInOrder
  <2>3. pc[p] \notin InGraph /\ pc'[p] \notin InGraph
    BY <1>0, <2>2 DEF InGraph, AtTask, AtCommit, AtStatus, AtState
  <2>4. OneDriver'
    BY <1>0, <2>2, <2>3, LockStays DEF OthersStay
  <2> QED
    BY <1>0, <2>2, <2>4, QuietMove
<1>3. CASE ResumeContinues(p) \/ Prepare(p)
  <2>1. PICK l \in {"dirty", "lock"} : Goto(p, l) /\ my' = my
    BY <1>3 DEF ResumeContinues, Prepare
  <2>2. pc'[p] = l /\ my'[p] = my[p] /\ OthersStay(p)
    BY <1>0, <2>1, HasMoved DEF Place
  <2>3. pc[p] \notin InGraph /\ pc'[p] \notin InGraph
    BY <1>0, <2>2 DEF InGraph, AtTask, AtCommit, AtStatus, AtState
  <2>4. OneDriver'
    BY <1>0, <2>2, <2>3, LockStays DEF OthersStay
  <2>5. StepInHand(p)' /\ AnswerTrue(p)' /\ RetryInHand(p)'
    BY <1>1, <2>2, <2>3, NoHand, PendKept, NoRetry
  <2> QED
    BY <1>0, <2>2, <2>4, <2>5, QuietMove
<1> QED
  BY <1>2, <1>3 DEF Continue

\* A run is resumed, from what is pending.
LEMMA ResumeKeeps ==
  ASSUME DriveInv, TypeOK', NEW p \in Cli, Resume(p)
  PROVE  DriveInv'
<1> USE DEF records, workdir, worktree, locks, history, used
<1>0. /\ TypeOK /\ pc[p] = "idle"
      /\ UNCHANGED <<policy, step, agents, verified, ended, file, pending, dirty, planLock>>
      /\ PendingTrue(pending) /\ pending \in PendingRec
  BY DEF DriveInv, Resume, TypeOK
<1>1. Forward /\ HandsOff
  BY <1>0, NothingHappens
<1>2. my'[p].pend = pending /\ \A q \in Cli : q # p => my'[q] = my[q]
  <2>1. my \in [Cli -> Local] /\ my[p] \in Local
    BY <1>0, TypesOf
  <2> QED
    BY <2>1 DEF Resume, Local
<1>3. PICK l \in {"decide", "retry commit", "retry status", "retry state"} :
        /\ Goto(p, l)
        /\ l = "retry commit" => pending.phase = "commit"
        /\ l = "retry status" => pending.phase = "status"
        /\ l = "retry state" => pending.phase = "state"
  <2>1. pending.phase \in {"none", "commit", "status", "state"}
    BY <1>0 DEF PendingRec
  <2> QED
    BY <2>1 DEF Resume
<1>4. pc'[p] = l /\ OthersStay(p)
  BY <1>0, <1>2, <1>3, WritePc DEF OthersStay, Place
<1>5. pc[p] \notin InGraph /\ pc'[p] \notin InGraph
  BY <1>0, <1>4 DEF InGraph, AtTask, AtCommit, AtStatus, AtState
<1>6. OneDriver'
  BY <1>0, <1>4, <1>5, LockStays DEF OthersStay
<1>7. RetryInHand(p)'
  <2>1. PendingTrue(pending)' /\ pending' = pending
    BY <1>0, RecordsStay
  <2>2. (my[p].pend = pending)'
    BY <1>0, <1>2
  <2>3. pending.phase = "status" => pending.task \notin dirty
    BY <1>0 DEF PendingTrue
  <2> QED
    BY <1>0, <1>3, <1>4, <2>1, <2>2, <2>3
       DEF RetryInHand, RetryingCommit, RetryingStatus, RetryingState
<1>8. StepInHand(p)' /\ AnswerTrue(p)'
  BY <1>5, NoHand
<1> QED
  BY <1>0, <1>4, <1>6, <1>7, <1>8, QuietMove

\* A process dies, and leaves its locks.
LEMMA CrashKeeps ==
  ASSUME DriveInv, TypeOK', NEW p \in Cli, Crash(p)
  PROVE  DriveInv'
<1> USE DEF records, workdir, worktree, locks, history, used
<1>0. /\ TypeOK /\ Leave(p)
      /\ UNCHANGED <<policy, step, agents, verified, ended, file, pending, dirty>>
      /\ planLock' = IF planLock = p THEN Dead ELSE planLock
  BY DEF DriveInv, Crash
<1>1. pc'[p] = "idle" /\ OthersStay(p) /\ StepInHand(p)' /\ AnswerTrue(p)' /\ RetryInHand(p)'
  BY <1>0, HasLeft, LeavesInOrder
<1>2. "idle" \notin InGraph /\ Dead \notin Cli
  BY DriveAssumption DEF InGraph, AtTask, AtCommit, AtStatus, AtState
<1>3. OneDriver'
  BY <1>0, <1>1, <1>2 DEF DriveInv, OneDriver, OthersStay
<1> QED
  BY <1>0, <1>1, <1>3, QuietMove

\* Somebody else commits.
LEMMA OutsideKeeps ==
  ASSUME DriveInv, TypeOK', CommitOutside
  PROVE  DriveInv'
<1> USE DEF records, workdir, worktree, locks, history, used
<1>1. /\ UNCHANGED <<policy, step, agents, verified, ended, file, pending, planLock, pc, my>>
      /\ dirty' \subseteq dirty
  BY DEF CommitOutside, AddCommit
<1>2. /\ Forward /\ HandsOff /\ PendingTrue(pending)' /\ \A t \in Task : TaskInOrder(t)'
  BY <1>1, RecordsStay
<1>3. OneDriver'
  BY <1>1 DEF DriveInv, OneDriver
<1>4. ASSUME NEW q \in Cli
      PROVE  StepInHand(q)' /\ AnswerTrue(q)' /\ RetryInHand(q)'
  <2>1. RetryInHand(q)'
    BY <1>1, <1>2, RetryStays
  <2>2. StepInHand(q) /\ AnswerTrue(q) /\ Mine(q)' = Mine(q)
    BY <1>1 DEF DriveInv, Mine
  <2>3. \A t \in Task : Agent(t)' = Agent(t) /\ Commit(t)' = Commit(t) /\ Status(t)' = Status(t)
    BY <1>1, StepsStay
  <2>4. TaskOf(Mine(q)) \in Task \/ Phase(Mine(q)) \notin {"task", "commit", "status"}
    BY TypesOf, StepsOf DEF DriveInv
  <2>5. StepInHand(q)'
    BY <1>1, <2>2, <2>3, <2>4 DEF StepInHand
  <2>6. AnswerTrue(q)'
    BY <1>1, <2>2, <2>3, <2>4 DEF AnswerTrue
  <2> QED
    BY <2>1, <2>5, <2>6
<1> QED
  BY <1>2, <1>3, <1>4 DEF DriveInv

------------------------------------------------------------------------------
(* The theorems.                                                            *)

\* Every step of the specification keeps the invariant.
LEMMA DriveStays == DriveInv /\ [Next]_vars => DriveInv'
<1> SUFFICES ASSUME DriveInv, [Next]_vars PROVE DriveInv'
  OBVIOUS
<1>1. TypeOK'
  BY TypedStays
<1>2. CASE UNCHANGED vars
  <2> USE DEF vars, records, workdir, worktree, locks, history, used
  <2>1. \A t \in Task : Agent(t)' = Agent(t) /\ Commit(t)' = Commit(t) /\ Status(t)' = Status(t)
    BY <1>2, StepsStay
  <2>2. /\ Forward /\ HandsOff /\ PendingTrue(pending)' /\ \A t \in Task : TaskInOrder(t)'
    BY <1>2, RecordsStay
  <2>3. OneDriver'
    BY <1>2 DEF DriveInv, OneDriver
  <2>4. ASSUME NEW q \in Cli
        PROVE  StepInHand(q)' /\ AnswerTrue(q)' /\ RetryInHand(q)'
    <3>1. RetryInHand(q)'
      BY <1>2, <2>2, RetryStays
    <3>2. StepInHand(q) /\ AnswerTrue(q) /\ Mine(q)' = Mine(q)
      BY <1>2 DEF DriveInv, Mine
    <3>3. TaskOf(Mine(q)) \in Task \/ Phase(Mine(q)) \notin {"task", "commit", "status"}
      BY TypesOf, StepsOf DEF DriveInv
    <3>4. StepInHand(q)'
      BY <1>2, <2>1, <3>2, <3>3 DEF StepInHand
    <3>5. AnswerTrue(q)'
      BY <1>2, <2>1, <3>2, <3>3 DEF AnswerTrue
    <3> QED
      BY <3>1, <3>4, <3>5
  <2> QED
    BY <1>1, <2>2, <2>3, <2>4 DEF DriveInv
<1>3. CASE CommitOutside
  BY <1>1, <1>3, OutsideKeeps
<1>4. ASSUME NEW p \in Cli, GraphStep(p) PROVE DriveInv'
  BY <1>1, <1>4, LockingKeeps, BlockCommittedKeeps, StartStepKeeps, SettleKeeps, PassEnds
     DEF GraphStep
<1>5. ASSUME NEW p \in Cli, TaskWork(p) PROVE DriveInv'
  BY <1>1, <1>5, BeforeAgentKeeps, GiveToAgentKeeps, AgentEndsKeeps, ReportKeeps DEF TaskWork
<1>6. ASSUME NEW p \in Cli, Finalize(p) PROVE DriveInv'
  BY <1>1, <1>6, CommitKeeps, CommitFailedKeeps, StatusKeeps, StateKeeps DEF Finalize
<1>7. ASSUME NEW p \in Cli, Retry(p) PROVE DriveInv'
  BY <1>1, <1>7, RetryCommitKeeps, RetryStatusKeeps, RetryStateKeeps, ClearKeeps DEF Retry
<1>8. ASSUME NEW p \in Cli, Continue(p) \/ Resume(p) \/ Crash(p) PROVE DriveInv'
  BY <1>1, <1>8, ContinueKeeps, ResumeKeeps, CrashKeeps
<1> QED
  BY <1>2, <1>3, <1>4, <1>5, <1>6, <1>7, <1>8 DEF Next, Proceed

\* A run that begins satisfies the invariant.
LEMMA DriveInitially == Init => DriveInv
<1> SUFFICES ASSUME Init PROVE DriveInv
  OBVIOUS
<1> DEFINE first == [status |-> "pending", result |-> "none", attempt |-> "none", sha |-> 0]
<1>1. policy \in Policy /\ mishaps \in Nat
  BY DriveAssumption DEF Init
<1>2. PICK p \in Cli : pc = [q \in Cli |-> IF q = p THEN "lock" ELSE "idle"]
  BY DEF Init
<1>3. TypeOK
  <2>1. step \in [Step -> Record]
    <3>1. first \in Record
      BY DEF Record
    <3> QED
      BY <3>1 DEF Init
  <2>2. pc \in [Cli -> Place]
    BY <1>2 DEF Place
  <2>3. my \in [Cli -> Local]
    BY BlankTyped DEF Init
  <2>4. RestTyped
    <3>1. commits \in Seq([by: 0..(N + 1), has: SUBSET Task])
      BY EmptySeq DEF Init
    <3>2. file \in [Task -> {"To Do", "In Progress", "Done", "Blocked"}]
      BY DEF Init
    <3>3. agents \in [Task -> Nat]
      BY DEF Init
    <3>4. pending \in PendingRec
      BY BlankTyped DEF Init
    <3> QED
      BY <1>1, <3>1, <3>2, <3>3, <3>4 DEF Init, RestTyped
  <2> QED
    BY <2>1, <2>2, <2>3, <2>4, TypeParts
<1>4. \A s \in Step : step[s] = first
  BY DEF Init
<1>5. \A t \in Task : Agent(t) = first /\ Commit(t) = first /\ Status(t) = first
  BY <1>4, StepsOf DEF Agent, Commit, Status
<1>6. \A q \in Cli : pc[q] \in {"lock", "idle"} /\ my[q] = Blank
  BY <1>2 DEF Init
<1>7. OneDriver
  <2>1. planLock = Nobody /\ Nobody \notin Cli
    BY DriveAssumption DEF Init
  <2> QED
    BY <1>6, <2>1 DEF OneDriver, InGraph, AtTask, AtCommit, AtStatus, AtState
<1>8. ASSUME NEW t \in Task PROVE TaskInOrder(t)
  <2>1. agents[t] = 0 /\ t \notin ended /\ t \notin dirty /\ file[t] = "To Do"
    BY DEF Init
  <2>2. agents[t] <= 1
    <3>1. \A n : n = 0 => n <= 1
      OBVIOUS
    <3> QED
      BY <2>1, <3>1
  <2>3. Agent(t).status = "pending" /\ Agent(t).result = "none"
        /\ Commit(t).status = "pending" /\ Status(t).status = "pending"
        /\ Status(t).result = "none"
    BY <1>5
  <2> QED
    BY <2>1, <2>2, <2>3 DEF TaskInOrder
<1>9. PendingTrue(pending)
  BY DEF Init, PendingTrue, NoPending
<1>10. ASSUME NEW q \in Cli PROVE StepInHand(q) /\ AnswerTrue(q) /\ RetryInHand(q)
  <2>1. pc[q] \in {"lock", "idle"} /\ my[q].pend = NoPending
    BY <1>6 DEF Blank
  <2>2. StepInHand(q) /\ AnswerTrue(q)
    BY <2>1 DEF StepInHand, AnswerTrue, AtTask, AtCommit, AtStatus, AtState
  <2>3. PendingTrue(my[q].pend)
    BY <2>1 DEF PendingTrue, NoPending
  <2>4. RetryInHand(q)
    BY <2>1, <2>3 DEF RetryInHand, RetryingCommit, RetryingStatus, RetryingState
  <2> QED
    BY <2>2, <2>4
<1> QED
  BY <1>3, <1>7, <1>8, <1>9, <1>10 DEF DriveInv

\* Whatever fails and whoever dies, the invariant holds.
THEOREM DriveInvariant == Spec => []DriveInv
<1> QED
  BY DriveInitially, DriveStays, PTL DEF Spec

\* The files of a run and the memory of its processes stay in their types.
THEOREM DriveTypes == Spec => []TypeOK
<1>1. DriveInv => TypeOK
  BY DEF DriveInv
<1> QED
  BY <1>1, DriveInvariant, PTL

\* No run gives the backend a task twice: a step that a dead process left is
\* never started again, and a retry of a finalizer does not run the agent.
THEOREM EachGivenOnce == Spec => []GivenOnce
<1>1. DriveInv => GivenOnce
  BY DEF DriveInv, TaskInOrder, GivenOnce
<1> QED
  BY <1>1, DriveInvariant, PTL

\* Whoever marks a task Done, the graph or a retry that overlaps it, its last
\* answer was a success that no check contradicts, or the task is a partial
\* that the run went on after, and its changes are committed.
THEOREM DoneMeansVerified == Spec => []DoneWasVerified
<1>1. DriveInv => DoneWasVerified
  BY DEF DriveInv, TaskInOrder, DoneWasVerified, MayBeDone, Agent, Commit, Committed
<1> QED
  BY <1>1, DriveInvariant, PTL

\* Where the driver commits, all changes of a task that is Done are committed,
\* by the graph, by a retry or by somebody else.
THEOREM DoneMeansCommitted == Spec => []WorkCommittedBeforeDone
<1>1. DriveInv => WorkCommittedBeforeDone
  BY DEF DriveInv, TaskInOrder, WorkCommittedBeforeDone
<1> QED
  BY <1>1, DriveInvariant, PTL

=============================================================================
