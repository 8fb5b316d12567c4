------------------------------ MODULE MCScenes ------------------------------
(***************************************************************************)
(* Instances of the components that share no step with one another, checked*)
(* in one run: the first state chooses a scene, and only the component of  *)
(* that scene takes steps.  The variables v1, v2, ... are those of the     *)
(* scene in the order of its module; a scene with fewer leaves the others  *)
(* at NoValue.  A property is one of its component where its scene is played. *)
(***************************************************************************)
EXTENDS Naturals, Sequences, FiniteSets, TLC

CONSTANTS NoValue,
          p1, p2, p3,                   \* callers that start one run
          w1, w2, w3, w4, w5, w6,       \* writers of memory
          g1, g2,                       \* packages
          s1, s2,                       \* sessions that bind agents
          a1, a2, k1, k2,               \* agents and commands at a terminal
          d1, d2, d3,                   \* children that record their sessions
          c1, c2                        \* commands that retry a finalization

VARIABLES scene,
          v1, v2, v3, v4, v5, v6, v7, v8, v9, v10, v11, v12, v13, v14, v15, v16, v17

-----------------------------------------------------------------------------
(* The instances.                                                          *)

WantedRuns == (p1 :> {"a", "b"}) @@ (p2 :> {"a", "b"}) @@ (p3 :> {"a", "c"})

Once == [kind |-> "once", size |-> 1]
Loop == [kind |-> "loop", size |-> 1]
Pair == [kind |-> "group", size |-> 2]
SomeChains == {<<Once, Pair, Once>>, <<Pair, Pair>>, <<Loop, Once, Loop>>, <<Loop, Pair>>}

Stages(g, roles) == [group |-> g, roles |-> roles]
ProfiledChains == {<<Stages(FALSE, <<"a">>), Stages(FALSE, <<"a">>)>>,
                   <<Stages(TRUE, <<"a", "a">>), Stages(TRUE, <<"a">>)>>}

EpisodeKinds == [w \in {w1, w2, w3} |-> "episode"]
ProfileKinds == [w \in {w4, w5} |-> "profile"] @@ (w6 :> "playbook")
Contents == (w1 :> "x") @@ (w2 :> "x") @@ (w3 :> "y") @@ (w4 :> "p") @@ (w5 :> "o") @@ (w6 :> "q")
Types == ("n" :> "note") @@ ("p" :> "profile") @@ ("e" :> "episode")

FirstVersions == (g1 :> {"a"}) @@ (g2 :> {"a"})
AgentsOf == [d \in {"x", "y"} |-> {"a"}]
HiddenIn == ("x" :> {"a"}) @@ ("y" :> {})
Allowlists == [d \in {"x", "y"} |-> {[role |-> NoValue, agent |-> "a"]}]
Projects == ("x" :> NoValue) @@ ("y" :> "x")
Ids == (a1 :> "w") @@ (a2 :> "w")

Criterion(n, x, c) == [index |-> n, text |-> x, checked |-> c]

Marked(s) == [kind |-> "marked", of |-> "criteria", items |-> s]
Bare(s) == [kind |-> "bare", of |-> "list", items |-> s]
Heading(h) == [kind |-> "head", of |-> h, items |-> <<>>]
Para(x) == [kind |-> "para", of |-> x, items |-> <<>>]
Two == <<Criterion(1, "x", FALSE), Criterion(2, "y", FALSE)>>
Gap == <<Criterion(2, "x", FALSE), Criterion(3, "y", TRUE)>>
SomeBodies == {<<Heading("description"), Para("p"), Marked(Two)>>,
               <<Para("q"), Heading("description"), Para("p"), Heading("other"), Para("r"),
                 Heading("criteria"), Bare(Two)>>,
               <<Heading("notes"), Para("p"), Marked(Gap), Heading("description"), Para("q")>>,
               <<Heading("description"), Heading("plan"), Para("p")>>}
Edit == [status |-> NoValue, plan |-> NoValue, notes |-> NoValue, labels |-> {}, unlabels |-> {},
           remove |-> {}, add |-> NoValue, check |-> {}, uncheck |-> {}]
SomeEdits == {[Edit EXCEPT !.check = {2}], [Edit EXCEPT !.remove = {1}],
              [Edit EXCEPT !.notes = "n", !.uncheck = {2}],
              [Edit EXCEPT !.plan = "n", !.add = "z"],
              [Edit EXCEPT !.labels = {"l"}, !.status = "done"]}

Text(a, b, i) == [api |-> a, body |-> b, imports |-> i]
Sources == {Text(1, 1, {}), Text(1, 2, {"b"})}
FirstSources == {("a" :> Text(1, 2, {"b"})) @@ ("b" :> Text(1, 1, {}))}
Order2 == ("a" :> <<"x">>) @@ ("b" :> <<"y">>)
Confs == {{"x", "y"}, {"x"}}

Argument(k, v) == [kind |-> k, value |-> v]
CommandLines ==
    {<<>>, <<Argument("incomplete", "")>>, <<Argument("sandbox", "other")>>,
     <<Argument("sandbox", "danger-full-access"), Argument("sandbox", "read-only"),
       Argument("word", "w"), Argument("--", ""), Argument("full-auto", "")>>,
     <<Argument("config", "protected"), Argument("bypass", "")>>}

Nobody == {}
Starters == {p1, p2, p3}
AnyStrike == {"abort", "deadline"}
EpisodeWriters == {w1, w2, w3}
ProfileWriters == {w4, w5, w6}
Records == {"n", "p", "e"}
NewestFirst == <<"e", "n", "p">>
Agents == {"cosmo", "planner", "guest"}
Planner == {"planner"}
Rememberers == {"cosmo", "guest"}
TwoPackages == {g1, g2}
AB == {"a", "b"}
JustT == {"t"}
XY == {"x", "y"}
JustA == {"a"}
TwoSessions == {s1, s2}
Editors == {"t", "c"}
TwoAgents == {a1, a2}
TwoCommands == {k1, k2}
Children == {d1, d2, d3}
DetachedOnes == {d1, d2}
QualifiedOnes == {d3}
JustB == {"b"}
XThenY == <<"x", "y">>
JustP == {"p"}
ToolSets == {"coding", "none"}
Codes == {0, 2}
ThreeModules == 1 .. 3
Policy(source, state, continues, retries, checks, rest) ==
    [source |-> source, state |-> state, continues |-> continues, retries |-> retries,
     checks |-> checks, rest |-> rest]
LoopPolicies == {Policy(TRUE, TRUE, TRUE, TRUE, TRUE, FALSE),
                 Policy(TRUE, TRUE, FALSE, TRUE, FALSE, FALSE),
                 Policy(FALSE, FALSE, FALSE, FALSE, FALSE, TRUE)}
TwoResumes == {c1, c2}

Looping == INSTANCE DriveLoop WITH
    N <- 2, Policies <- LoopPolicies, MaxMishaps <- 1, policy <- v1, pc <- v2, now <- v3,
    log <- v4, file <- v5, dirty <- v6, commits <- v7, pending <- v8, stray <- v9, done <- v10,
    blocked <- v11, result <- v12, completion <- v13, aborted <- v14, verified <- v15,
    mute <- v16, mishaps <- v17

Events == INSTANCE RunEvents WITH
    Driver <- 2, Scheduler <- 1, Activity <- Nobody, MaxFailures <- 1, MaxCrashes <- 1,
    MaxReads <- 2, call <- v1, due <- v2, cached <- v3, disabled <- v4, legacy <- v5,
    normalized <- v6, marker <- v7, watcher <- v8, follower <- v9, lapsed <- v10,
    failures <- v11, crashes <- v12

Starting == INSTANCE RunInit WITH
    Starter <- Starters, Wants <- WantedRuns, MaxCrashes <- 1, MaxStarts <- 4,
    at <- v1, lock <- v2, run <- v3, graph <- v4, records <- v5, started <- v6,
    seen <- v7, crashes <- v8, starts <- v9

Retrying == INSTANCE FinalizerRecords WITH
    Process <- TwoResumes, MaxRetries <- 2, MaxFailures <- 1, MaxDeaths <- 1,
    pending <- v1, step <- v2, attempts <- v3, proc <- v4, last <- v5, overlapped <- v6,
    retries <- v7, failures <- v8, deaths <- v9

Live == INSTANCE LiveActivity WITH
    MaxLines <- 3, MaxDeaths <- 1, MaxTurns <- 1, MaxSwitches <- 2, log <- v1,
    torn <- v2, running <- v3, bridge <- v4, reading <- v5, again <- v6, cursor <- v7,
    session <- v8, busy <- v9, pending <- v10, timer <- v11, published <- v12,
    heard <- v13, missed <- v14, deaths <- v15, turns <- v16, switches <- v17

Chain == INSTANCE ChainRun WITH
    Chains <- SomeChains, MaxIterations <- 2, Strikes <- AnyStrike, chain <- v1,
    scoped <- v2, phase <- v3, step <- v4, stage <- v5, iterations <- v6, spent <- v7,
    struck <- v8, log <- v9, told <- v10, answer <- v11, episode <- v12

Times == INSTANCE ChainProfile WITH
    Chains <- ProfiledChains, MaxTime <- 1, MaxCalls <- 1, chain <- v1, runner <- v2,
    step <- v3, stage <- v4, clock <- v5, entries <- v6, pending <- v7, spans <- v8,
    group <- v9, scopes <- v10, happened <- v11

Episodes == INSTANCE MemoryStore WITH
    Writer <- EpisodeWriters, Kind <- EpisodeKinds, Content <- Contents,
    Confirmed <- Nobody, MaxFailures <- 1, at <- v1, slot <- v2, found <- v3,
    episodes <- v4, profile <- v5, previous <- v6, playbook <- v7, index <- v8,
    scan <- v9, replaced <- v10, failures <- v11

Profile == INSTANCE MemoryStore WITH
    Writer <- ProfileWriters, Kind <- ProfileKinds, Content <- Contents,
    Confirmed <- Nobody, MaxFailures <- 1, at <- v1, slot <- v2, found <- v3,
    episodes <- v4, profile <- v5, previous <- v6, playbook <- v7, index <- v8,
    scan <- v9, replaced <- v10, failures <- v11

Context == INSTANCE InjectedContext WITH
    Record <- Records, Type <- Types, Newest <- NewestFirst, IndexLimit <- 1,
    RecallLimit <- 1, EpisodesEnabled <- TRUE, Agent <- Agents, Cosmo <- "cosmo",
    Consumer <- Planner, Remembers <- Rememberers, Maps <- Planner, None <- NoValue,
    MaxTurns <- 2, MaxEdits <- 2, MaxStarts <- 2, disk <- v1, map <- v2, agent <- v3,
    auth <- v4, messages <- v5, phase <- v6, seen <- v7, answered <- v8, turns <- v9,
    edits <- v10, starts <- v11

Packages == INSTANCE DomainPackages WITH
    Package <- TwoPackages, FirstVersion <- FirstVersions, Domain <- AB,
    Terminal <- JustT, Nothing <- NoValue, MaxCommands <- 3, source <- v1, stamped <- v2,
    store <- v3, ejected <- v4, cmd <- v5, excused <- v6, given <- v7

Lookup == INSTANCE AgentLookup WITH
    Domain <- XY, Agent <- JustA, Session <- TwoSessions, Agents <- AgentsOf,
    Hidden <- HiddenIn, Allowlist <- Allowlists, Project <- Projects, None <- NoValue,
    MaxBinds <- 2, MaxRestarts <- 1, MaxRuns <- 1, installed <- v1, context <- v2,
    live <- v3, session <- v4, entries <- v5, chain <- v6, ran <- v7, restarts <- v8

Document == INSTANCE TaskDocument WITH
    Editor <- Editors, Tool <- JustT, Edits <- SomeEdits, Bodies <- SomeBodies,
    None <- NoValue, MaxWrites <- 2, front <- v1, body <- v2, ed <- v3, writes <- v4

Plan == INSTANCE PlanArchive WITH
    Task <- JustT, MaxCalls <- 3, None <- NoValue, MaxStops <- 1, MaxEdits <- 1,
    doc <- v1, spec <- v2, archive <- v3, task <- v4, sessions <- v5, call <- v6,
    lives <- v7, deleted <- v8, overlaps <- v9, late <- v10, stopped <- v11,
    edits <- v12

Terminal == INSTANCE TerminalSession WITH
    Agent <- TwoAgents, Id <- Ids, Command <- TwoCommands, None <- NoValue, MaxFiles <- 2,
    MaxStarts <- 2, files <- v1, base <- v2, agent <- v3, at <- v4, slot <- v5,
    cmd <- v6, lastMade <- v7, starts <- v8

Lineage == INSTANCE SessionLineage WITH
    Child <- Children, Detached <- DetachedOnes, Qualified <- QualifiedOnes,
    MaxFailures <- 1, MaxCrashes <- 1, manifest <- v1, transcript <- v2, st <- v3,
    held <- v4, told <- v5, lapped <- v6, broken <- v7, failures <- v8, crashes <- v9

Map == INSTANCE ArchitectureMap WITH
    File <- AB, Source <- Sources, First <- FirstSources, Within <- Order2,
    Barrel <- JustB, Conf <- Confs, Order <- XThenY, MaxNarratives <- 1,
    Generator <- JustP, None <- NoValue, MaxEdits <- 1, MaxRuns <- 3, MaxMishaps <- 1,
    src <- v1, tsconfig <- v2, conf <- v3, stamp <- v4, target <- v5, temp <- v6,
    backup <- v7, gen <- v8, reader <- v9, edits <- v10, runs <- v11, mishaps <- v12,
    had <- v13, slipped <- v14, overlapped <- v15

View == INSTANCE ModuleGraphView WITH
    Module <- ThreeModules, index <- v1, page <- v2, modules <- v3, stack <- v4,
    depths <- v5, places <- v6

Export == INSTANCE ExportedAgent WITH
    Target <- "codex", Tools <- ToolSets, Arguments <- CommandLines, Code <- Codes,
    MaxSignals <- 2, args <- v1, tools <- v2, stage <- v3, dir <- v4, made <- v5,
    removal <- v6, waiting <- v7, child <- v8, launched <- v9, code <- v10,
    ends <- v11, missed <- v12, signals <- v13

-----------------------------------------------------------------------------
(* The scenes.                                                             *)

Blank17 == v17 = NoValue
Blank16 == v16 = NoValue /\ Blank17
Blank15 == v15 = NoValue /\ Blank16
Blank14 == v14 = NoValue /\ Blank15
Blank13 == v13 = NoValue /\ Blank14
Blank12 == v12 = NoValue /\ Blank13
Blank11 == v11 = NoValue /\ Blank12
Blank10 == v10 = NoValue /\ Blank11
Blank9 == v9 = NoValue /\ Blank10
Blank8 == v8 = NoValue /\ Blank9
Blank7 == v7 = NoValue /\ Blank8
Blank6 == v6 = NoValue /\ Blank7
Blank5 == v5 = NoValue /\ Blank6

Init ==
    \/ scene = "loop" /\ Looping!Init
    \/ scene = "events" /\ Events!Init /\ Blank13
    \/ scene = "start" /\ Starting!Init /\ Blank10
    \/ scene = "retry" /\ Retrying!Init /\ Blank10
    \/ scene = "live" /\ Live!Init
    \/ scene = "chain" /\ Chain!Init /\ Blank13
    \/ scene = "times" /\ Times!Init /\ Blank12
    \/ scene = "episodes" /\ Episodes!Init /\ Blank12
    \/ scene = "profile" /\ Profile!Init /\ Blank12
    \/ scene = "context" /\ Context!Init /\ Blank12
    \/ scene = "packages" /\ Packages!Init /\ Blank8
    \/ scene = "lookup" /\ Lookup!Init /\ Blank9
    \/ scene = "document" /\ Document!Init /\ Blank5
    \/ scene = "plan" /\ Plan!Init /\ Blank13
    \/ scene = "terminal" /\ Terminal!Init /\ Blank9
    \/ scene = "lineage" /\ Lineage!Init /\ Blank10
    \/ scene = "map" /\ Map!Init /\ Blank16
    \/ scene = "view" /\ View!Init /\ Blank7
    \/ scene = "export" /\ Export!Init /\ Blank14

Next ==
    \/ scene = "loop" /\ Looping!Next /\ UNCHANGED scene
    \/ scene = "events" /\ Events!Next /\ UNCHANGED
         <<scene, v13, v14, v15, v16, v17>>
    \/ scene = "start" /\ Starting!Next /\ UNCHANGED
         <<scene, v10, v11, v12, v13, v14, v15, v16, v17>>
    \/ scene = "retry" /\ Retrying!Next /\ UNCHANGED
         <<scene, v10, v11, v12, v13, v14, v15, v16, v17>>
    \/ scene = "live" /\ Live!Next /\ UNCHANGED scene
    \/ scene = "chain" /\ Chain!Next /\ UNCHANGED
         <<scene, v13, v14, v15, v16, v17>>
    \/ scene = "times" /\ Times!Next /\ UNCHANGED
         <<scene, v12, v13, v14, v15, v16, v17>>
    \/ scene = "episodes" /\ Episodes!Next /\ UNCHANGED
         <<scene, v12, v13, v14, v15, v16, v17>>
    \/ scene = "profile" /\ Profile!Next /\ UNCHANGED
         <<scene, v12, v13, v14, v15, v16, v17>>
    \/ scene = "context" /\ Context!Next /\ UNCHANGED
         <<scene, v12, v13, v14, v15, v16, v17>>
    \/ scene = "packages" /\ Packages!Next /\ UNCHANGED
         <<scene, v8, v9, v10, v11, v12, v13, v14, v15, v16, v17>>
    \/ scene = "lookup" /\ Lookup!Next /\ UNCHANGED
         <<scene, v9, v10, v11, v12, v13, v14, v15, v16, v17>>
    \/ scene = "document" /\ Document!Next /\ UNCHANGED
         <<scene, v5, v6, v7, v8, v9, v10, v11, v12, v13, v14, v15, v16, v17>>
    \/ scene = "plan" /\ Plan!Next /\ UNCHANGED
         <<scene, v13, v14, v15, v16, v17>>
    \/ scene = "terminal" /\ Terminal!Next /\ UNCHANGED
         <<scene, v9, v10, v11, v12, v13, v14, v15, v16, v17>>
    \/ scene = "lineage" /\ Lineage!Next /\ UNCHANGED
         <<scene, v10, v11, v12, v13, v14, v15, v16, v17>>
    \/ scene = "map" /\ Map!Next /\ UNCHANGED
         <<scene, v16, v17>>
    \/ scene = "view" /\ View!Next /\ UNCHANGED
         <<scene, v7, v8, v9, v10, v11, v12, v13, v14, v15, v16, v17>>
    \/ scene = "export" /\ Export!Next /\ UNCHANGED
         <<scene, v14, v15, v16, v17>>
vars == <<scene, v1, v2, v3, v4, v5, v6, v7, v8, v9, v10, v11, v12, v13, v14, v15, v16, v17>>
Spec == Init /\ [][Next]_vars

ASSUME Looping!LoopAssumption
ASSUME Events!EventsAssumption
ASSUME Starting!InitAssumption
ASSUME Retrying!RecordsAssumption
ASSUME Live!LiveAssumption
ASSUME Chain!ChainAssumption
ASSUME Times!ProfileAssumption
ASSUME Episodes!MemoryAssumption
ASSUME Profile!MemoryAssumption
ASSUME Context!ContextAssumption
ASSUME Packages!PackagesAssumption
ASSUME Lookup!LookupAssumption
ASSUME Document!DocumentAssumption
ASSUME Plan!PlanAssumption
ASSUME Terminal!SessionAssumption
ASSUME Lineage!LineageAssumption
ASSUME Map!MapAssumption
ASSUME View!ViewAssumption
ASSUME Export!ExportAssumption

-----------------------------------------------------------------------------
(* Properties.                                                             *)

\* The state of every component has its type.
TypeOK ==
    /\ scene = "loop" => Looping!TypeOK
    /\ scene = "events" => Events!TypeOK
    /\ scene = "start" => Starting!TypeOK
    /\ scene = "retry" => Retrying!TypeOK
    /\ scene = "live" => Live!TypeOK
    /\ scene = "chain" => Chain!TypeOK
    /\ scene = "times" => Times!TypeOK
    /\ scene = "episodes" => Episodes!TypeOK
    /\ scene = "profile" => Profile!TypeOK
    /\ scene = "context" => Context!TypeOK
    /\ scene = "packages" => Packages!TypeOK
    /\ scene = "lookup" => Lookup!TypeOK
    /\ scene = "document" => Document!TypeOK
    /\ scene = "plan" => Plan!TypeOK
    /\ scene = "terminal" => Terminal!TypeOK
    /\ scene = "lineage" => Lineage!TypeOK
    /\ scene = "map" => Map!TypeOK
    /\ scene = "view" => View!TypeOK
    /\ scene = "export" => Export!TypeOK

\* The loop without a graph ends with a result and a log that are true of the tasks, and asks
\* the backend at most twice for one of them.
LoopEndsWell ==
    scene = "loop" => /\ Looping!CompletedIsTrue /\ Looping!PendingIsVerified
                      /\ Looping!DoneIsCommitted /\ Looping!NoStrayCommitted
                      /\ Looping!EndsOnce /\ Looping!AskedTwiceAtMost

\* What the run store promises over failed writes and crashes: whoever pages the legacy events
\* is given each once, and whoever pages the normalized log each but those that have their
\* number in common with one of the other store; whoever starts a run goes on with its own
\* graph, started once, the graph finds what a retried finalization came to, and the session
\* that launched a run hears what its log says, and no other session does.
RecordsKept ==
    /\ scene = "events" => Events!PagesEachOnce /\ Events!FollowerMissesOnlyTwins
    /\ scene = "start" => Starting!StarterFindsItsRun
    /\ scene = "retry" => Retrying!RetryIsRecorded
    /\ scene = "live" => Live!PublishedAsWritten /\ Live!HeardByOwner

\* A chain that reports success earned it, within its budget of iterations, and its events tell
\* the same story whichever runner ran it; its profile gives each tool, stage and member of a
\* group the time it took, except where two of them share a name or a millisecond.
ChainsTellTheTruth ==
    /\ scene = "chain" => Chain!SuccessIsEarned /\ Chain!BudgetKept /\ Chain!EventsTellOneStory
    /\ scene = "times" => /\ Times!SpansAreCalls /\ Times!ScopesApart
                          /\ Times!StagesTakeTheirTime /\ Times!GroupsListTheirMembers

\* Episodes written at the same time are each kept once, and what is injected of the memory is
\* shown to Cosmo alone, in a session that goes from agent to agent.
MemoryKept ==
    /\ scene = "episodes" => Episodes!EpisodesOnce
    /\ scene = "context" => Context!MemoryIsCosmos

\* A name has one meaning: two packages come to provide a domain only by a choice, and the
\* validator, the registry, the session and the spawner find the same agent under a name.
NamesResolve ==
    /\ scene = "packages" => Packages!RefusedOnlyByConsent
    /\ scene = "lookup" => /\ Lookup!HiddenStaysHidden /\ Lookup!SessionBindingsHold
                           /\ Lookup!ValidatedResolves

\* A task file that is edited again and again settles with all of its content.
Settles == scene = "document" => Document!Settles

\* Plans stay where they are or in the archive, and archiving one leaves no task of it behind.
PlansAndTasksTogether == scene = "plan" => Plan!PlansKept /\ Plan!NoOrphans

\* A session at the terminal is made for the agent that was asked for, and the record of a
\* session that was spawned is lost only when two are written at once.
SessionsAsAsked ==
    /\ scene = "terminal" => Terminal!MadeAsAsked
    /\ scene = "lineage" => Lineage!LostOnlyByOverlap

\* The architecture map survives failed runs, with narratives that fit, and its modules are
\* drawn apart, each to the right of what it depends on, circles aside.
MapStands ==
    /\ scene = "map" => Map!MapKept /\ Map!NarrativeFits
    /\ scene = "view" => /\ View!VisitedOnce /\ View!ArrowsLeadLeft
                         /\ View!DepthIsLongestChain /\ View!DrawnApart

\* An exported agent leaves no prompt behind.
LeavesNoPrompt == scene = "export" => Export!LeavesNoPrompt

\* Steps that act on what was read before: eject copies the package in use, an edit of a task
\* changes what it says, a map that is called current is, attempts and results of an agent
\* that are recorded stand.
StepsHold ==
    [][ /\ scene = "packages" => Packages!EjectTakesWinner
        /\ scene = "document" => Document!EditChangesOnlyWhatItSays
        /\ scene = "map" => Map!CurrentIsTrue
        /\ scene = "retry" => Retrying!AttemptsStand /\ Retrying!ResultKept ]_vars

\* "injects the compact index + freshness banner for exactly five consuming agents" (code map of
\* the repository): what a turn was given of the architecture map is what its model is asked with.
MapReachesModel == scene = "context" => Context!MapReachesModel

=============================================================================
