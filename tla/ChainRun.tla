------------------------------- MODULE ChainRun -------------------------------
(***************************************************************************)
(* A chain of agent stages, from the call of chain_run or `cosmonauts run` *)
(* to the result its caller is given.  A chain with a loop stage, or one   *)
(* that is scoped to a task label, runs inline: step after step in this    *)
(* process, the members of a group at the same time, under a deadline and  *)
(* a budget of iterations.  Any other is compiled to a run graph that the  *)
(* durable scheduler works off one step at a time; its events and result   *)
(* are put together afterwards from the records and the log of the run.    *)
(*                                                                         *)
(* An agent ends well or badly, the state of the tasks that a loop looks   *)
(* at is any, and the caller's signal and the clock may strike at any      *)
(* moment.  Left out: prompts, models, statistics, progress lines and the  *)
(* evidence an agent leaves in the log.  DurableScheduler has the          *)
(* scheduler itself.                                                       *)
(***************************************************************************)
EXTENDS Integers, Sequences, FiniteSets, SequencesExt, FiniteSetsExt

CONSTANTS
  Chains,        \* the chains: sequences of [kind, size]
  MaxIterations, \* maxTotalIterations
  Strikes        \* bound: what may happen from outside, of "abort", "deadline"

ChainAssumption ==
  /\ \A c \in Chains : c # <<>> /\ \A i \in DOMAIN c :
       /\ c[i].kind \in {"once", "loop", "group"} /\ c[i].size \in Nat \ {0}
       /\ c[i].kind # "group" => c[i].size = 1
  /\ MaxIterations \in Nat
  /\ Strikes \subseteq {"abort", "deadline"}

StagesOf(c) == UNION {{<<i, j>> : j \in 1 .. c[i].size} : i \in DOMAIN c}
AnyStage == UNION {StagesOf(c) : c \in Chains}

VARIABLES
  chain,      \* the steps, as the parser returns them
  scoped,     \* a completion label is given
  phase,      \* where the runner is
  step,       \* inline: the step it is at
  stage,      \* where each stage is; for a graph, the status of its record
  iterations, \* of each loop stage
  spent,      \* totalIterations
  struck,     \* the signal is aborted, the deadline has passed
  log,        \* graph: the events of the run's log
  told,       \* the events the caller was given
  answer,     \* the caller's result: "none", "success", "failure" or "thrown"
  episode     \* the chain's entries in the project's episodic memory

where == <<chain, scoped>>
chainVars == <<where, phase, step, stage, iterations, spent, struck, log, told,
               answer, episode>>

Ev(type, i, j, ok) == [type |-> type, step |-> i, member |-> j, ok |-> ok]
Tell(events) == told' = told \o events
Stages == StagesOf(chain)
Members(i) == {s \in Stages : s[1] = i}
Ended == {"completed", "failed"}
Succeeded(S) == \A s \in S : stage[s] = "completed"
Word(ok) == IF ok THEN "completed" ELSE "failed"
At(s, w) == stage' = [stage EXCEPT ![s] = w]

\* shouldRunChainInline: a group has no loop.
Inline == scoped \/ \E i \in DOMAIN chain : chain[i].kind = "loop"

\* chainTerminalOutcome, recorded once for a result or an exception.
Concludes(a) ==
  /\ phase' = "over" /\ answer' = a
  /\ episode' = Append(episode, IF a # "thrown" /\ "abort" \in struck THEN "aborted"
                                ELSE IF a = "success" THEN "succeeded" ELSE "failed")

Strike(w) ==
  /\ w \in Strikes \ struck /\ phase # "over"
  /\ struck' = struck \cup {w}
  /\ UNCHANGED <<where, phase, step, stage, iterations, spent, log, told, answer, episode>>

------------------------------------------------------------------------------
(* The inline runner (chain-runner.ts).                                    *)

Begin ==
  /\ phase = "called" /\ Inline
  /\ phase' = "between"
  /\ Tell(<<Ev("chain_start", 0, 0, TRUE)>>)
  /\ episode' = <<"started">>
  /\ UNCHANGED <<where, step, stage, iterations, spent, struck, log, answer>>

\* All members of a group are launched before the first one is waited for.
BeginStep ==
  /\ phase = "between" /\ step <= Len(chain) /\ struck = {}
  /\ LET group == chain[step].kind = "group"
         opening == IF group THEN <<Ev("parallel_start", step, 0, TRUE)>> ELSE <<>>
     IN  Tell(opening \o [j \in 1 .. chain[step].size |-> Ev("stage_start", step, j, TRUE)])
  /\ stage' = [s \in DOMAIN stage |->
                 IF s \notin Members(step) THEN stage[s]
                 ELSE IF chain[step].kind = "loop" THEN "checking" ELSE "running"]
  /\ phase' = "running"
  /\ UNCHANGED <<where, step, iterations, spent, struck, log, answer, episode>>

EndStage(s, ok) ==
  /\ At(s, Word(ok))
  /\ Tell(<<Ev("stage_end", s[1], s[2], ok)>>)

\* An unknown role, a failed spawn and an agent that fails are a failed stage.
AgentEnds(s, ok) ==
  /\ phase = "running" /\ stage[s] = "running"
  /\ IF ok /\ chain[s[1]].kind = "loop"
       THEN At(s, "checking") /\ UNCHANGED told
       ELSE EndStage(s, ok)
  /\ UNCHANGED <<where, phase, step, iterations, spent, struck, log, answer, episode>>

\* evaluateDefaultCompletionState: all tasks are done; there is none, or all are
\* blocked; there is work left.
TaskState == {"complete", "terminal", "pending"}

\* evaluateLoopState and buildLoopExitResult.
Evaluate(s) ==
  /\ phase = "running" /\ stage[s] = "checking"
  /\ \E state \in TaskState :
       IF state = "pending" THEN At(s, "pending") /\ UNCHANGED told
       ELSE EndStage(s, state = "complete")
  /\ UNCHANGED <<where, phase, step, iterations, spent, struck, log, answer, episode>>

\* A task file cannot be read: the promise of a loop stage is returned and not
\* awaited inside of runStage, so that its catch does not see the rejection.
EvaluateThrows(s) ==
  /\ phase = "running" /\ stage[s] = "checking"
  /\ Concludes("thrown")
  /\ UNCHANGED <<where, step, stage, iterations, spent, struck, log, told>>

\* Mutant: each loop stage has the whole budget.
BudgetEach == MaxIterations

\* What is left of the chain's budget when a stage begins.
Budget == MaxIterations - spent

Iterate(s) ==
  /\ phase = "running" /\ stage[s] = "pending" /\ iterations[s] < Budget /\ struck = {}
  /\ iterations' = [iterations EXCEPT ![s] = @ + 1]
  /\ At(s, "running")
  /\ UNCHANGED <<where, phase, step, spent, struck, log, told, answer, episode>>

\* getLoopCapState: to be aborted is no failure of a stage.
StopLoop(s) ==
  /\ phase = "running" /\ stage[s] = "pending"
  /\ iterations[s] >= Budget \/ struck # {}
  /\ EndStage(s, "abort" \in struck)
  /\ UNCHANGED <<where, phase, step, iterations, spent, struck, log, answer, episode>>

\* Mutant: the chain goes on as soon as one member of a group has ended.
StepOverAtFirst(S) == \E s \in S : stage[s] \in Ended

\* All members are waited for, whether they end well or badly.
StepOver(S) == \A s \in S : stage[s] \in Ended

EndStep ==
  /\ phase = "running" /\ StepOver(Members(step))
  /\ LET ok == Succeeded(Members(step))
     IN  /\ phase' = IF ok THEN "between" ELSE "ending"
         /\ step' = IF ok THEN step + 1 ELSE step
         /\ Tell(IF chain[step].kind = "group"
                   THEN <<Ev("parallel_end", step, 0, ok)>> ELSE <<>>)
  /\ spent' = spent + MapThenSumSet(LAMBDA s : iterations[s], Members(step))
  /\ UNCHANGED <<where, stage, iterations, struck, log, answer, episode>>

\* Mutant: no error, no failure.
ResultOfErrors(failed) == IF failed = {} THEN "success" ELSE "failure"

\* finalizeChainResult.  A deadline between two steps is no error.
ResultOf(failed) == IF failed = {} /\ "abort" \notin struck THEN "success" ELSE "failure"

Finish ==
  /\ phase = "ending" \/ (phase = "between" /\ (step > Len(chain) \/ struck # {}))
  /\ LET result == ResultOf({s \in Stages : stage[s] = "failed"})
     IN  /\ Tell(<<Ev("chain_end", 0, 0, result = "success")>>)
         /\ Concludes(result)
  /\ UNCHANGED <<where, step, stage, iterations, spent, struck, log>>

------------------------------------------------------------------------------
(* The durable runner (durable-chain-runner.ts).  The deadline is written  *)
(* into the policy of the run; nobody reads it there.                      *)

\* compileChainToGraph: a stage waits for the whole step before it.
DependsOn(s) == Members(s[1] - 1)

Active == {s \in Stages : stage[s] = "running"}
Startable(s) == stage[s] = "waiting" /\ Succeeded(DependsOn(s)) /\ Active = {}
RunOutcome ==
  IF \E s \in Stages : stage[s] \notin Ended THEN "running"
  ELSE IF Succeeded(Stages) THEN "completed" ELSE "failed"

StartRun ==
  /\ phase = "called" /\ ~Inline
  /\ phase' = "scheduling"
  /\ log' = <<Ev("run_started", 0, 0, TRUE)>>
  /\ episode' = <<"started">>
  /\ UNCHANGED <<where, step, stage, iterations, spent, struck, told, answer>>

\* A pass that begins with an aborted signal starts a step all the same.
StartStage(s) ==
  /\ phase = "scheduling" /\ Startable(s)
  /\ log' = Append(log, Ev("step_started", s[1], s[2], TRUE))
  /\ At(s, "running")
  /\ UNCHANGED <<where, phase, step, iterations, spent, struck, told, answer, episode>>

\* A failed stage asks to abort the run; the scheduler does not know how.
RecordStage(s, ok) ==
  /\ phase = "scheduling" /\ stage[s] = "running"
  /\ log' = Append(log, Ev("step_ended", s[1], s[2], ok))
  /\ At(s, Word(ok))
  /\ UNCHANGED <<where, phase, step, iterations, spent, struck, told, answer, episode>>

FinalizeRun ==
  /\ phase = "scheduling" /\ RunOutcome # "running"
  /\ log' = Append(log, Ev("run_ended", 0, 0, RunOutcome = "completed"))
  /\ phase' = "reconstructing"
  /\ UNCHANGED <<where, step, stage, iterations, spent, struck, told, answer, episode>>

\* The backend cannot cancel: a running stage keeps its record.
LeaveAborted ==
  /\ phase = "scheduling" /\ "abort" \in struck
  /\ phase' = "reconstructing"
  /\ UNCHANGED <<where, step, stage, iterations, spent, struck, log, told, answer, episode>>

\* A stage failed and others wait for it for ever: all passes are used up, and
\* the caller gets an exception in place of the events and the result.
GiveUp ==
  /\ phase = "scheduling" /\ RunOutcome = "running" /\ Active = {}
  /\ ~\E s \in Stages : Startable(s)
  /\ Concludes("thrown")
  /\ UNCHANGED <<where, step, stage, iterations, spent, struck, log, told>>

\* The chain's events that a start of a step stands for: the first member that
\* starts starts its group.
AdaptStarted(events, e) ==
  (IF /\ chain[e.step].kind = "group"
      /\ ~\E k \in DOMAIN events : events[k] = Ev("parallel_start", e.step, 0, TRUE)
     THEN <<Ev("parallel_start", e.step, 0, TRUE)>> ELSE <<>>)
  \o <<Ev("stage_start", e.step, e.member, TRUE)>>

\* The last member that ends ends it.
AdaptEnded(events, e) ==
  LET ends == {k \in DOMAIN events : events[k].type = "stage_end" /\ events[k].step = e.step}
  IN  <<Ev("stage_end", e.step, e.member, e.ok)>>
      \o (IF chain[e.step].kind = "group" /\ Cardinality(ends) + 1 = chain[e.step].size
            THEN <<Ev("parallel_end", e.step, 0, e.ok /\ \A k \in ends : events[k].ok)>>
            ELSE <<>>)

\* adaptStoredEvent.
Adapt(events, e) ==
  events \o (CASE e.type = "run_started"  -> <<Ev("chain_start", 0, 0, TRUE)>>
               [] e.type = "step_started" -> AdaptStarted(events, e)
               [] e.type = "step_ended"   -> AdaptEnded(events, e)
               [] e.type = "run_ended"    -> <<Ev("chain_end", 0, 0, e.ok)>>)

Reconstruct ==
  /\ phase = "reconstructing"
  /\ LET events == FoldLeft(Adapt, <<>>, log)
     IN  /\ Tell(events)
         /\ Concludes(IF /\ \E k \in DOMAIN events : events[k] = Ev("chain_end", 0, 0, TRUE)
                         /\ Succeeded(Stages)
                        THEN "success" ELSE "failure")
  /\ UNCHANGED <<where, step, stage, iterations, spent, struck, log>>

------------------------------------------------------------------------------
Init ==
  /\ chain \in Chains /\ scoped \in BOOLEAN
  /\ phase = "called" /\ step = 1
  /\ stage = [s \in AnyStage |-> "waiting"] /\ iterations = [s \in AnyStage |-> 0]
  /\ spent = 0 /\ struck = {} /\ log = <<>> /\ told = <<>> /\ answer = "none"
  /\ episode = <<>>

Next ==
  \/ Begin \/ BeginStep \/ EndStep \/ Finish
  \/ StartRun \/ FinalizeRun \/ LeaveAborted \/ GiveUp \/ Reconstruct
  \/ \E s \in Stages :
       \/ Evaluate(s) \/ EvaluateThrows(s) \/ Iterate(s) \/ StopLoop(s) \/ StartStage(s)
       \/ \E ok \in BOOLEAN : AgentEnds(s, ok) \/ RecordStage(s, ok)
  \/ \E w \in Strikes : Strike(w)

Spec == Init /\ [][Next]_chainVars

------------------------------------------------------------------------------
TypeOK ==
  /\ chain \in Chains /\ scoped \in BOOLEAN
  /\ phase \in {"called", "between", "running", "ending", "scheduling",
                "reconstructing", "over"}
  /\ step \in 1 .. Len(chain) + 1
  /\ stage \in [AnyStage -> {"waiting", "checking", "pending", "running"} \cup Ended]
  /\ iterations \in [AnyStage -> Nat] /\ spent \in Nat /\ struck \subseteq Strikes
  /\ answer \in {"none", "success", "failure", "thrown"}
  /\ episode \in {<<>>, <<"started">>} \cup
                 {<<"started", e>> : e \in {"succeeded", "failed", "aborted"}}

\* A caller is told of success only if no stage that began ended badly or is
\* still at work; and only a deadline between two steps may have kept a stage
\* from running at all, never an aborted signal.
SuccessIsEarned ==
  answer = "success" =>
    \A s \in Stages :
      \/ stage[s] = "completed"
      \/ stage[s] = "waiting" /\ Inline /\ "deadline" \in struck /\ "abort" \notin struck

\* The loop stages of a chain share one budget of iterations, whatever the tasks
\* look like and however the chain is cut short.
BudgetKept == MapThenSumSet(LAMBDA s : iterations[s], Stages) <= MaxIterations

\* The events tell one story, the same from both runners: a stage starts once, when
\* every stage of the step before has ended well; a group ends when all of its
\* members have, and with success if they did; and no stage ends after the chain.
Ends(S, k) == \A s \in S : \E m \in 1 .. k - 1 : told[m] = Ev("stage_end", s[1], s[2], TRUE)
EventsTellOneStory ==
  \A k \in DOMAIN told :
    LET e == told[k] IN
    /\ \A m \in DOMAIN told : m # k =>
         <<told[m].type, told[m].step, told[m].member>> # <<e.type, e.step, e.member>>
    /\ e.type = "stage_start" => Ends(Members(e.step - 1), k)
    /\ e.type = "stage_end" =>
         \E m \in 1 .. k - 1 : told[m] = Ev("stage_start", e.step, e.member, TRUE)
    /\ e.type = "parallel_end" =>
         /\ \A s \in Members(e.step) : \E m \in 1 .. k - 1, ok \in BOOLEAN :
              told[m] = Ev("stage_end", s[1], s[2], ok)
         /\ e.ok = Ends(Members(e.step), k)
    /\ e.type = "chain_end" => k = Len(told)

\* What types.ts says of ChainResult.success: all stages completed successfully.
SuccessMeansAllCompleted == answer = "success" => Succeeded(Stages)

=============================================================================
