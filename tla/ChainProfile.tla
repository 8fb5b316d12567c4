------------------------------ MODULE ChainProfile ------------------------------
(***************************************************************************)
(* The profile of a chain (`--profile`): the events its caller is given,   *)
(* stamped with the time they arrive at, and the durations that the summary*)
(* finds in them by names, identifiers and times                           *)
(* (src/lib/orchestration/chain-profiler.ts).                              *)
(*                                                                         *)
(* The events are those of both runners.  Inline, the members of a group   *)
(* run at the same time and an agent is announced by its first event; a    *)
(* graph tells one stage after the other when the run is over, and an      *)
(* agent is announced after its tools.  An agent fails at any moment and   *)
(* leaves a tool open.  Each agent has one tool call; loops, errors, the   *)
(* ranking of tools and the text of the files are left out.                *)
(***************************************************************************)
EXTENDS Integers, Sequences, FiniteSets

CONSTANTS
  Chains,  \* the chains: sequences of [group, roles]
  MaxTime, \* bound: the milliseconds a chain takes
  MaxCalls \* bound: the tools that are called

ProfileAssumption ==
  /\ \A c \in Chains : \A i \in DOMAIN c :
       c[i].roles # <<>> /\ (~c[i].group => Len(c[i].roles) = 1)
  /\ {MaxTime, MaxCalls} \subseteq Nat

VARIABLES
  chain,    \* the steps
  runner,   \* "inline" or "graph"
  step,     \* the step that is told
  stage,    \* what each stage has told of its agent
  clock,    \* milliseconds since chain_start
  entries,  \* of the trace
  pending,  \* pendingTools: session -> when its tool began
  spans,    \* of the tools that ended
  group,    \* activeParallelGroup: how many agents of each role, or none
  scopes,   \* sessionScopeMap
  happened  \* history: session -> when its stage and tool began and ended
vars == <<chain, runner, step, stage, clock, entries, pending, spans, group, scopes, happened>>

NoGroup == [r \in {} |-> 0]
Never == -1
Session == {s \in (1 .. Len(chain)) \X (1 .. 2) : s[2] <= Len(chain[s[1]].roles)}
RoleOf(s) == chain[s[1]].roles[s[2]]
Members == {s \in Session : s[1] = step}
Current == step \in DOMAIN chain
InGroup == Current /\ chain[step].group
Add(cat, name, ph, who) ==
  entries' = Append(entries, [ts |-> clock, cat |-> cat, name |-> name, ph |-> ph, who |-> who])
Happens(s, what) == happened' = [happened EXCEPT ![s][what] = clock]
Goes(s, w) == stage' = [stage EXCEPT ![s] = w]
Still == UNCHANGED <<chain, runner, clock>>

------------------------------------------------------------------------------
(* What the runners tell, and what the profiler keeps of it.               *)
StartChain ==
  /\ step = 0 /\ step' = 1
  /\ Add("chain", "chain_start", "B", 0)
  /\ UNCHANGED <<stage, pending, spans, group, scopes, happened>> /\ Still

StartGroup ==
  /\ InGroup /\ group = NoGroup /\ \A s \in Members : stage[s] = "waiting"
  /\ group' = [r \in {RoleOf(s) : s \in Members} |-> 0]
  /\ Add("parallel", "group", "B", step)
  /\ UNCHANGED <<step, stage, pending, spans, scopes, happened>> /\ Still

\* Inline all members start before any goes on; a graph runs one step at a time.
StartStage(s) ==
  /\ s \in Members /\ stage[s] = "waiting" /\ (InGroup => group # NoGroup)
  /\ \A o \in Members : o[2] < s[2] => stage[o] \in IF runner = "inline" THEN {"started"}
                                                    ELSE {"ended"}
  /\ Goes(s, "started") /\ Happens(s, "began")
  /\ Add("stage", RoleOf(s), "B", s)
  /\ UNCHANGED <<step, pending, spans, group, scopes>> /\ Still

AllStarted == \A s \in Members : stage[s] # "waiting"
Working(s) == s \in Members /\ (runner = "inline" => AllStarted)

\* assignScope, when the agent is announced
ScopeOf(s) == <<RoleOf(s), group[RoleOf(s)]>>
Spawned(s) ==
  /\ Working(s) /\ stage[s] = "started" /\ Goes(s, "spawned")
  /\ runner = "graph" => s \notin DOMAIN pending
  /\ IF group = NoGroup THEN UNCHANGED <<group, scopes>>
     ELSE /\ scopes' = [t \in DOMAIN scopes \cup {s} |-> IF t = s THEN ScopeOf(s) ELSE scopes[t]]
          /\ group' = [group EXCEPT ![RoleOf(s)] = @ + 1]
  /\ Add("agent", "agent_spawned", "I", s)
  /\ UNCHANGED <<step, pending, spans, happened>> /\ Still

Calls(s) == Working(s) /\ stage[s] = IF runner = "inline" THEN "spawned" ELSE "started"
ToolStarts(s) ==
  /\ Calls(s) /\ happened[s].called = Never
  /\ Cardinality(spans) + Cardinality(DOMAIN pending) < MaxCalls
  /\ pending' = [t \in DOMAIN pending \cup {s} |-> IF t = s THEN clock ELSE pending[t]]
  /\ Happens(s, "called")
  /\ Add("tool", "tool", "B", s)
  /\ UNCHANGED <<step, stage, spans, group, scopes>> /\ Still

ToolEnds(s) ==
  /\ Calls(s) /\ happened[s].called # Never /\ happened[s].returned = Never
  /\ IF s \in DOMAIN pending
     THEN /\ spans' = spans \cup {[who |-> s, start |-> pending[s], end |-> clock]}
          /\ pending' = [t \in DOMAIN pending \ {s} |-> pending[t]]
     ELSE UNCHANGED <<spans, pending>>
  /\ Happens(s, "returned")
  /\ Add("tool", "tool", "E", s)
  /\ UNCHANGED <<step, stage, group, scopes>> /\ Still

\* An agent that succeeded has ended its tools; inline, one that failed is not completed.
Completed(s) ==
  /\ Working(s) /\ stage[s] = "spawned" /\ Goes(s, "completed")
  /\ runner = "inline" => s \notin DOMAIN pending
  /\ Happens(s, "done")
  /\ Add("agent", "agent_completed", "I", s)
  /\ UNCHANGED <<step, pending, spans, group, scopes>> /\ Still

EndStage(s, ok) ==
  /\ Working(s)
  /\ stage[s] \in IF ok THEN {"completed"}
                  ELSE IF runner = "inline" THEN {"started", "spawned"}
                  ELSE {"started", "completed"}
  /\ Goes(s, IF ok THEN "ended" ELSE "failed") /\ Happens(s, "ended")
  /\ Add("stage", RoleOf(s), "E", s)
  /\ UNCHANGED <<step, pending, spans, group, scopes>> /\ Still

Over(s) == stage[s] \in {"ended", "failed"}
EndGroup ==
  /\ InGroup /\ group # NoGroup /\ \A s \in Members : Over(s)
  /\ group' = NoGroup
  /\ Add("parallel", "group", "E", step)
  /\ UNCHANGED <<step, stage, pending, spans, scopes, happened>> /\ Still

\* A chain goes on after a step that succeeded; a graph that failed leaves its group open.
NextStep ==
  /\ Current /\ step' = IF \E s \in Members : stage[s] = "failed" THEN Len(chain) + 1 ELSE step + 1
  /\ \/ group = NoGroup /\ \A s \in Members : Over(s)
     \/ /\ runner = "graph" /\ \E s \in Members : stage[s] = "failed"
        /\ \E s \in Members : stage[s] = "waiting"
  /\ UNCHANGED <<stage, entries, pending, spans, group, scopes, happened>> /\ Still

EndChain ==
  /\ step = Len(chain) + 1 /\ step' = step + 1
  /\ Add("chain", "chain_end", "E", 0)
  /\ UNCHANGED <<stage, pending, spans, group, scopes, happened>> /\ Still

Tick ==
  /\ step # 0 /\ clock < MaxTime /\ clock' = clock + 1
  /\ UNCHANGED <<chain, runner, step, stage, entries, pending, spans, group, scopes, happened>>

Init ==
  /\ chain \in Chains /\ runner \in {"inline", "graph"}
  /\ step = 0 /\ clock = 0 /\ entries = <<>> /\ spans = {} /\ group = NoGroup
  /\ stage = [s \in Session |-> "waiting"]
  /\ pending = [s \in {} |-> 0] /\ scopes = [s \in {} |-> <<>>]
  /\ happened = [s \in Session |-> [w \in {"began", "ended", "called", "returned", "done"} |-> Never]]

Next ==
  \/ StartChain \/ StartGroup \/ EndGroup \/ NextStep \/ EndChain \/ Tick
  \/ \E s \in Session :
       \/ StartStage(s) \/ Spawned(s) \/ ToolStarts(s) \/ ToolEnds(s) \/ Completed(s)
       \/ EndStage(s, TRUE) \/ EndStage(s, FALSE)

Spec == Init /\ [][Next]_vars

------------------------------------------------------------------------------
(* The summary.                                                            *)
Entry(cat, name, ph) ==
  {k \in DOMAIN entries : entries[k].cat = cat /\ entries[k].name = name /\ entries[k].ph = ph}
Earliest(K) == IF K = {} THEN 0 ELSE CHOOSE k \in K : \A m \in K : k <= m

\* renderStageBreakdown: the first end of the stage's name that is not earlier
EndOf(b) == Earliest({e \in Entry("stage", entries[b].name, "E") : entries[e].ts >= entries[b].ts})

GroupEnd(b) == Earliest({e \in Entry("parallel", "group", "E") :
                          entries[e].who = entries[b].who /\ entries[e].ts >= entries[b].ts})

\* findParallelMembers
MembersOf(b) == {k \in Entry("agent", "agent_spawned", "I") :
  /\ entries[k].ts >= entries[b].ts
  /\ GroupEnd(b) # 0 => entries[k].ts <= entries[GroupEnd(b)].ts
  /\ entries[k].who \in DOMAIN scopes}

\* summarizeParallelMember
MemberEnd(k) == Earliest({e \in Entry("agent", "agent_completed", "I") :
                           entries[e].who = entries[k].who})

------------------------------------------------------------------------------
Bounded == step \in 0 .. Len(chain) + 2 /\ clock \in 0 .. MaxTime
TypeOK ==
  /\ chain \in Chains /\ runner \in {"inline", "graph"} /\ Bounded
  /\ stage \in [Session -> {"waiting", "started", "spawned", "completed", "ended", "failed"}]
  /\ DOMAIN pending \subseteq Session /\ DOMAIN scopes \subseteq Session
  /\ \A k \in DOMAIN entries : entries[k].ts \in 0 .. MaxTime

(* "pairs tool start/end events to compute durations": a span is a call of *)
(* that agent, from its start to its end, and what is pending has not      *)
(* ended.                                                                  *)
SpansAreCalls ==
  /\ \A p \in spans : p.start = happened[p.who].called /\ p.end = happened[p.who].returned
  /\ {p.who : p \in spans} = {s \in Session : happened[s].returned # Never}
  /\ DOMAIN pending = {s \in Session : happened[s].called # Never /\ happened[s].returned = Never}

(* "Disambiguator for parallel members sharing the same role name": two    *)
(* agents of one group never have one scope, in whatever order they come.  *)
ScopesApart ==
  \A s, t \in DOMAIN scopes : s # t /\ s[1] = t[1] => scopes[s] # scopes[t]

(* The duration of a stage is its own, and where another stage of its name *)
(* ended before it did, in its group or in the very millisecond it began,  *)
(* it is never more.                                                       *)
StagesTakeTheirTime ==
  \A b \in DOMAIN entries : entries[b].cat = "stage" /\ entries[b].ph = "B" =>
    LET s == entries[b].who
        e == EndOf(b)
        others == {t \in Session \ {s} : RoleOf(t) = RoleOf(s) /\ happened[t].ended >= happened[s].began}
    IN /\ Over(s) => e # 0 /\ entries[e].ts <= happened[s].ended
       /\ e # 0 => (Over(s) /\ entries[e].ts = happened[s].ended) \/ others # {}

(* A group lists its members, with the time each of them took, and of the  *)
(* other agents only some of a group that shares a millisecond with it.    *)
GroupsListTheirMembers ==
  \A b \in Entry("parallel", "group", "B") :
    LET listed == {entries[k].who : k \in MembersOf(b)}
    IN /\ {s \in DOMAIN scopes : s[1] = entries[b].who} \subseteq listed
       /\ \A k \in MembersOf(b) :
            /\ MemberEnd(k) # 0 => entries[MemberEnd(k)].ts = happened[entries[k].who].done
            /\ entries[k].who[1] # entries[b].who =>
                 entries[k].ts = entries[b].ts \/ entries[k].ts = entries[GroupEnd(b)].ts
==============================================================================
