----------------------------- MODULE AgentLookup -----------------------------
(***************************************************************************)
(* How a name becomes the agent that runs: the registry                    *)
(* (src/lib/agents/resolver.ts) follows the bindings of domain roles       *)
(* (src/lib/domains/bindings.ts), of which the live ones change while      *)
(* sessions and chains are under way (src/domains/shared/extensions/       *)
(* domain-bindings), and hides the agents a domain keeps to itself.  Three *)
(* users of it are modelled: spawn_agent, a chain, which is parsed first   *)
(* and whose stages look their agents up when they begin, and the          *)
(* validator of domains, which has a lookup of its own.                    *)
(***************************************************************************)
EXTENDS Naturals, FiniteSets, Sequences, SequencesExt

CONSTANTS Domain, Agent, Session,
          Agents,       \* domain -> its agents
          Hidden,       \* domain -> those its manifest lists as internal
          Allowlist,    \* domain -> the references its agents may spawn
          Project,      \* role -> the domain the project's configuration binds it to, or None
          None,
          MaxBinds,     \* bounds the uses of /domain-bind
          MaxRestarts,  \* bounds the restarts of the process
          MaxRuns       \* bounds the agents started

\* a reference is an agent's name, qualified with a domain role or not
Reference == [role : Domain \cup {None}, agent : Agent]

LookupAssumption ==
    /\ None \notin Domain \cup Agent
    /\ Agents \in [Domain -> SUBSET Agent] /\ Hidden \in [Domain -> SUBSET Agent]
    /\ \A d \in Domain : Hidden[d] \subseteq Agents[d]
    /\ Allowlist \in [Domain -> SUBSET Reference]
    /\ Project \in [Domain -> Domain \cup {None}]
    /\ MaxBinds \in Nat /\ MaxRestarts \in Nat /\ MaxRuns \in Nat

VARIABLES installed,  \* the active domains of this process
          context,    \* its domain, from the command line or the configuration, or None
          live,       \* role -> the domain it is bound to in this process, or None
          session,    \* the session at the terminal
          entries,    \* session -> the bindings appended to its file
          chain,      \* the stage of a chain that waits for its turn
          ran,        \* agents started, with the domain of the agent that asked
          restarts
vars == <<installed, context, live, session, entries, chain, ran, restarts>>

NoChain == [caller |-> None, ref |-> [role |-> None, agent |-> None], frozen |-> None,
            inline |-> FALSE]
Running == [caller : Domain \cup {None}, target : Domain, agent : Agent, how : {"spawn", "chain"}]

TypeOK ==
    /\ installed \subseteq Domain /\ context \in Domain \cup {None}
    /\ live \in [Domain -> Domain \cup {None}] /\ session \in Session
    /\ \A s \in Session : entries[s] \in Seq([role : Domain, target : Domain])
    /\ chain.caller \in Domain \cup {None} /\ chain.frozen \in Domain \cup {None}
    /\ ran \subseteq Running

-----------------------------------------------------------------------------
(* The registry.                                                           *)

\* DomainBindingResolver.resolveRole: live before project before the role itself
Source(role) == IF live[role] # None THEN "live"
                ELSE IF Project[role] # None THEN "project" ELSE "default"
Target(role) == CASE Source(role) = "live" -> live[role]
                  [] Source(role) = "project" -> Project[role]
                  [] OTHER -> role

Internal(d, a) == a \in Hidden[d]

\* a bug to be found: what is hidden is decided by the role asked for
VisibleToRole(d, a, requester) == requester # None \/ ~Internal(d, a)

\* AgentRegistry.isVisible, canAccessSurfaceName
Visible(d, a, requester) == requester = d \/ ~Internal(d, a)

Verdict(d, a, requester) ==
    IF a \notin Agents[d] THEN [kind |-> "not-found", target |-> None]
    ELSE [kind |-> IF Visible(d, a, requester) THEN "found" ELSE "internal", target |-> d]

\* AgentRegistry.resolveResult: a bound reference, or every domain that has the agent
Resolve(ref, ctx, requester) ==
    LET role == IF ref.role # None THEN ref.role ELSE ctx
        has == {d \in installed : ref.agent \in Agents[d]}
        shown == {d \in has : Visible(d, ref.agent, requester)}
    IN IF role # None
       THEN IF Target(role) \notin installed THEN [kind |-> "throws", target |-> None]
            ELSE Verdict(Target(role), ref.agent, requester)
       ELSE IF \E d \in Domain : shown = {d}
            THEN [kind |-> "found", target |-> CHOOSE d \in shown : TRUE]
            ELSE IF shown = {} /\ \E d \in Domain : has = {d}
                 THEN [kind |-> "internal", target |-> CHOOSE d \in has : TRUE]
                 ELSE [kind |-> "not-found", target |-> None]

\* a bug to be found: looked up on behalf of the role that is named
ValidatedForRole(ref, d) ==
    LET role == IF ref.role # None THEN ref.role ELSE d
    IN IF Target(role) \in installed THEN Verdict(Target(role), ref.agent, role).kind
       ELSE "not-found"

\* the validator's own: resolveAgentVisibility, on a reference of an agent of domain d
Validated(ref, d) ==
    LET role == IF ref.role # None THEN ref.role ELSE d
        bound == IF Target(role) \in installed THEN Verdict(Target(role), ref.agent, d).kind
                 ELSE "not-found"
        scan == {e \in installed : ref.agent \in Agents[e]}
    IN IF bound # "not-found" \/ Source(role) # "default" \/ ref.role # None THEN bound
       ELSE IF \E e \in scan : Visible(e, ref.agent, d) THEN "found"
       ELSE IF scan # {} THEN "internal" ELSE "not-found"

-----------------------------------------------------------------------------
(* Starting agents.                                                        *)

Starts(c, d, a, how) == ran' = ran \cup {[caller |-> c, target |-> d, agent |-> a, how |-> how]}

\* isSubagentAllowed: by the reference as asked, as resolved, or by the bare name
Allows(c, ref, d) ==
    \/ [role |-> IF ref.role # None THEN ref.role ELSE IF context # None THEN context ELSE d,
        agent |-> ref.agent] \in Allowlist[c]
    \/ [role |-> d, agent |-> ref.agent] \in Allowlist[c]
    \/ [role |-> None, agent |-> ref.agent] \in Allowlist[c]

\* AgentRegistry.get of the marker in the caller's prompt, c/b: a name like any other, which
\* follows the bindings and is hidden from processes of other domains
TakenFor(c, b) == Resolve([role |-> c, agent |-> b], context, context)

\* spawn_agent: looked up from the process's domain, on behalf of whom the caller is taken for
Spawn(c, b, ref) ==
    /\ c \in installed /\ b \in Agents[c] /\ Cardinality(ran) < MaxRuns
    /\ LET as == TakenFor(c, b)
           r == Resolve(ref, context, as.target)
       IN /\ as.kind = "found" /\ r.kind = "found" /\ Allows(as.target, ref, r.target)
          /\ Starts(c, r.target, ref.agent, "spawn")
    /\ UNCHANGED <<installed, context, live, session, entries, chain, restarts>>

\* resolveStage keeps a reference with the stage only if a binding redirects it; an unknown
\* agent is not refused before its turn.  durableStageSpawnOptions looks up the rest
Frozen(ref, requester, inline) ==
    LET r == Resolve(ref, context, requester)
        own == Resolve(ref, context, context)
        role == IF ref.role # None THEN ref.role ELSE context
    IN IF r.kind = "found" /\ role # None /\ (Source(role) # "default" \/ Target(role) # role)
       THEN r.target
       ELSE IF ~inline /\ own.kind = "found" THEN own.target ELSE None

\* chain_run, on behalf of whom the caller is taken for; by an unknown caller, or from the
\* command line (c = None), on behalf of the process's domain
Parse(c, b, ref, inline) ==
    /\ c # None => c \in installed /\ b \in Agents[c] /\ TakenFor(c, b).kind # "throws"
    /\ chain = NoChain
    /\ LET requester == IF c # None /\ TakenFor(c, b).kind = "found" THEN TakenFor(c, b).target
                        ELSE context
       IN /\ Resolve(ref, context, requester).kind \notin {"internal", "throws"}
          /\ chain' = [caller |-> c, ref |-> ref, inline |-> inline,
                       frozen |-> Frozen(ref, requester, inline)]
    /\ UNCHANGED <<installed, context, live, session, entries, ran, restarts>>

\* prepareStageExecution, resolveSpawnAgent: the reference kept, or the name again, and then
\* on behalf of the process's domain
StageTarget ==
    LET r == Resolve(chain.ref, context, context)
    IN IF chain.frozen # None
       THEN IF Visible(chain.frozen, chain.ref.agent, context) THEN chain.frozen ELSE None
       ELSE IF r.kind = "found" THEN r.target ELSE None

RunStage ==
    /\ chain # NoChain /\ Cardinality(ran) < MaxRuns
    /\ StageTarget # None
    /\ Starts(chain.caller, StageTarget, chain.ref.agent, "chain")
    /\ chain' = NoChain
    /\ UNCHANGED <<installed, context, live, session, entries, restarts>>

\* "Unknown agent role", or the error of a binding whose domain is missing
StageFails ==
    /\ chain # NoChain /\ StageTarget = None
    /\ chain' = NoChain
    /\ UNCHANGED <<installed, context, live, session, entries, ran, restarts>>

-----------------------------------------------------------------------------
(* Bindings.                                                               *)

Binds == LET n[S \in SUBSET Session] == IF S = {} THEN 0
             ELSE LET s == CHOOSE x \in S : TRUE IN Len(entries[s]) + n[S \ {s}]
         IN n[Session]

\* /domain-bind: the live binding, then the entry in the session's file
Bind(role, d) ==
    /\ d \in installed /\ Binds < MaxBinds
    /\ live' = [live EXCEPT ![role] = d]
    /\ entries' = [entries EXCEPT ![session] = Append(@, [role |-> role, target |-> d])]
    /\ UNCHANGED <<installed, context, session, chain, ran, restarts>>

\* of the entries of a session for a role, the last whose domain is still active
Valid(s, role, on) ==
    LET of == SelectSeq(entries[s], LAMBDA e : e.role = role /\ e.target \in on)
    IN IF of = <<>> THEN None ELSE Last(of).target

\* a bug to be found: what is bound already is kept
ReplayedOverNone(s, bindings, on) ==
    [role \in Domain |-> IF bindings[role] = None THEN Valid(s, role, on) ELSE bindings[role]]

\* session_start: the entries of the session over what the process has bound before
Replayed(s, bindings, on) ==
    [role \in Domain |-> IF Valid(s, role, on) # None THEN Valid(s, role, on) ELSE bindings[role]]

\* /new, /resume and a switch of agents stay in the process
Switch(s) ==
    /\ session' = s /\ live' = Replayed(s, live, installed)
    /\ UNCHANGED <<installed, context, entries, chain, ran, restarts>>

\* validateProjectBindings: otherwise the runtime refuses to start
Startable(on) == on # {} /\ \A role \in Domain : Project[role] # None => Project[role] \in on

\* the store of live bindings is gone with the process; packages may have changed
Restart ==
    /\ restarts < MaxRestarts /\ restarts' = restarts + 1
    /\ \E on \in SUBSET Domain, s \in Session :
          /\ Startable(on) /\ installed' = on
          /\ session' = s /\ live' = Replayed(s, [role \in Domain |-> None], on)
    /\ chain' = NoChain
    /\ UNCHANGED <<context, entries, ran>>

-----------------------------------------------------------------------------
Init ==
    /\ installed = Domain /\ context \in Domain \cup {None}
    /\ live = [role \in Domain |-> None]
    /\ session \in Session /\ entries = [s \in Session |-> <<>>]
    /\ chain = NoChain /\ ran = {} /\ restarts = 0

Next ==
    \/ \E c \in Domain, b \in Agent, ref \in Reference : Spawn(c, b, ref)
    \/ \E c \in Domain \cup {None}, b \in Agent, ref \in Reference, inline \in BOOLEAN :
          Parse(c, b, ref, inline)
    \/ RunStage \/ StageFails
    \/ \E role, d \in Domain : Bind(role, d)
    \/ \E s \in Session : Switch(s)
    \/ Restart

Spec == Init /\ [][Next]_vars

-----------------------------------------------------------------------------
(* An agent a domain keeps to itself is spawned only by an agent of that  *)
(* domain or of a role that the project or a session has bound to it, and  *)
(* runs in a chain only in a process of that domain, however roles were    *)
(* bound when the chain was parsed and are bound when its stage begins.    *)
BoundTo(role, d) ==
    Project[role] = d \/ \E s \in Session : \E i \in DOMAIN entries[s] :
                             entries[s][i] = [role |-> role, target |-> d]

HiddenStaysHidden ==
    \A r \in ran : r.agent \in Hidden[r.target] =>
        IF r.how = "spawn" THEN r.caller = r.target \/ BoundTo(r.caller, r.target)
        ELSE context = r.target

(* Not what holds: an agent of another domain cannot spawn what a domain   *)
(* keeps to itself.                                                        *)
HiddenFromOthers ==
    \A r \in ran : (r.how = "spawn" /\ r.agent \in Hidden[r.target]) => r.caller = r.target

(* The bindings of the session at the terminal are in force, whatever was  *)
(* bound in other sessions before and whichever domains went away since.   *)
SessionBindingsHold ==
    \A role \in Domain :
        Valid(session, role, installed) # None => live[role] = Valid(session, role, installed)

(* What the validator calls visible to the agents of a domain the registry *)
(* finds, in a process of that domain, for every qualified name and every  *)
(* name of the domain's own.                                               *)
ValidatedResolves ==
    \A d \in installed, ref \in Reference :
        (ref.role # None \/ ref.agent \in Agents[Target(d)]) =>
            (Validated(ref, d) = "found" <=> Resolve(ref, d, d).kind = "found")
=============================================================================
