--------------------------- MODULE TerminalSession ---------------------------
(***************************************************************************)
(* The conversation at a terminal: which session file the command line     *)
(* opens when it starts (src/cli/session.ts), and how /agent and /handoff  *)
(* (src/domains/shared/extensions/agent-switch) replace the agent behind   *)
(* it.  A command leaves the name of the agent it wants in a slot of the   *)
(* process and asks Pi for a new session; the factory that Pi calls back   *)
(* takes the name out.  Commands overlap: /handoff waits for a summary,    *)
(* and a new session is not made at once.                                  *)
(***************************************************************************)
EXTENDS Naturals, FiniteSets, FiniteSetsExt

CONSTANTS Agent,      \* agents of all domains
          Id,         \* agent -> its name in its domain
          Command,    \* uses of /agent and /handoff
          None,
          MaxFiles,   \* bounds the session files
          MaxStarts   \* bounds the starts of the process

SessionAssumption == /\ None \notin Agent /\ MaxFiles \in Nat /\ MaxStarts \in Nat

VARIABLES files,    \* number -> [dir, agents that spoke in it, parent, brief]; numbers by age
          base,     \* the agent the process was started with, or None
          agent,    \* the agent that answers
          at,       \* the file the session is written to, 0 if it is kept in memory
          slot,     \* the pending switch
          cmd,      \* command -> how far it is
          lastMade, \* who the last session of a command was made for, and for which command
          starts
vars == <<files, base, agent, at, slot, cmd, lastMade, starts>>

Ready == [step |-> "ready", wants |-> None, brief |-> None, parent |-> 0, over |-> FALSE]
File(d, a, p, b) == [dir |-> d, by |-> {a}, parent |-> p, brief |-> b]

TypeOK ==
    /\ base \in Agent \cup {None} /\ agent \in Agent \cup {None}
    /\ at \in 0 .. Cardinality(DOMAIN files) /\ slot \in Agent \cup {None}
    /\ \A f \in DOMAIN files : files[f].by \subseteq Agent /\ files[f].parent < f
    /\ \A c \in Command : cmd[c].step \in {"ready", "summary", "asked", "done"}

-----------------------------------------------------------------------------
(* Starting.                                                               *)

\* resolveSessionDir: by the agent's name, or the domain's for its lead
Dir(a) == Id[a]
In(d) == {f \in DOMAIN files : files[f].dir = d}

\* the sessions of a directory and those of other directories, in which a session is forked
New(f) == [n \in DOMAIN files \cup {Cardinality(DOMAIN files) + 1} |->
             IF n \in DOMAIN files THEN files[n] ELSE f]
Room == Cardinality(DOMAIN files) < MaxFiles
Number == Cardinality(DOMAIN files) + 1

Open(a, f) ==
    /\ files' = [files EXCEPT ![f].by = @ \cup {a}]
    /\ at' = f
Create(a, parent, brief, d) == Room /\ files' = New(File(d, a, parent, brief)) /\ at' = Number

\* resolveContinueOrDefaultStrategy: the most recent one
Continue(a) == IF In(Dir(a)) # {} THEN Open(a, Max(In(Dir(a)))) ELSE Create(a, 0, None, Dir(a))

\* resolveSessionManager, in the order of the code: --no-session, --fork, --session or
\* --resume, --continue or a persistent mode, and else memory
Start(a) ==
    /\ base = None /\ starts < MaxStarts
    /\ \/ UNCHANGED files /\ at' = 0
       \/ \E f \in DOMAIN files : Create(a, f, None, Dir(a))
       \/ \E f \in In(Dir(a)) : Open(a, f)
       \/ Continue(a)
    /\ base' = a /\ agent' = a /\ slot' = None
    /\ cmd' = [c \in Command |-> IF cmd[c].step = "ready" THEN cmd[c]
                                 ELSE [cmd[c] EXCEPT !.step = "done"]]
    /\ starts' = starts + 1
    /\ UNCHANGED lastMade

Quit ==
    /\ base # None
    /\ base' = None /\ agent' = None /\ at' = 0 /\ slot' = None
    /\ cmd' = [c \in Command |-> IF cmd[c].step = "ready" THEN cmd[c]
                                 ELSE [cmd[c] EXCEPT !.step = "done"]]
    /\ UNCHANGED <<files, lastMade, starts>>

-----------------------------------------------------------------------------
(* Switching.                                                              *)

Flying(c) == cmd[c].step = "asked"
Overlap(c) == [d \in Command |-> IF Flying(d) THEN [cmd[d] EXCEPT !.over = TRUE] ELSE cmd[d]]

\* performSwitch: the slot, then newSession
Ask(c, a, brief) ==
    /\ slot' = a
    /\ cmd' = [Overlap(c) EXCEPT ![c] = [step |-> "asked", wants |-> a, brief |-> brief,
                                         parent |-> at, over |-> \E d \in Command \ {c} : Flying(d)]]
    /\ UNCHANGED <<files, base, agent, at, lastMade, starts>>

\* /agent, of an agent the registry resolves
SwitchAgent(c, a) == base # None /\ cmd[c].step = "ready" /\ Ask(c, a, None)

\* /handoff: the agent is asked for a summary ...
Handoff(c, a) ==
    /\ base # None /\ cmd[c].step = "ready"
    /\ cmd' = [cmd EXCEPT ![c].step = "summary", ![c].wants = a]
    /\ UNCHANGED <<files, base, agent, at, slot, lastMade, starts>>

\* ... and its last answer goes along, if there is one
SwitchWithBrief(c) ==
    /\ cmd[c].step = "summary"
    /\ \E brief \in {None, agent} : Ask(c, cmd[c].wants, brief)

\* a bug to be found: the slot keeps the name when the user thinks better of it
CancelledKeeps(c) ==
    /\ Flying(c)
    /\ cmd' = [cmd EXCEPT ![c].step = "done"]
    /\ UNCHANGED <<files, base, agent, at, slot, lastMade, starts>>

\* newSession is cancelled or throws before the factory runs
Cancelled(c) ==
    /\ Flying(c)
    /\ cmd' = [cmd EXCEPT ![c].step = "done"]
    /\ slot' = None
    /\ UNCHANGED <<files, base, agent, at, lastMade, starts>>

\* consumePendingSwitch in the factory of createSession: with nothing in the slot the agent
\* of the command line is used, whichever agent was at the terminal
Taken == IF slot = None THEN base ELSE slot

\* the session is made in the directory of the one before it
Made(c) ==
    /\ Flying(c)
    /\ Create(Taken, cmd[c].parent, cmd[c].brief, IF at = 0 THEN Dir(base) ELSE files[at].dir)
    /\ agent' = Taken /\ slot' = None
    /\ lastMade' = [for |-> Taken, wants |-> cmd[c].wants, over |-> cmd[c].over]
    /\ cmd' = [cmd EXCEPT ![c].step = "done"]
    /\ UNCHANGED <<base, starts>>

\* resolve throws in the factory: the slot is empty already
FactoryFails(c) ==
    /\ Flying(c) /\ slot # None
    /\ slot' = None
    /\ cmd' = [cmd EXCEPT ![c].step = "done"]
    /\ UNCHANGED <<files, base, agent, at, lastMade, starts>>

\* Pi's own /new and /resume go through the same factory
NewSession ==
    /\ base # None
    /\ \/ Create(Taken, 0, None, IF at = 0 THEN Dir(base) ELSE files[at].dir)
       \/ at # 0 /\ \E f \in In(files[at].dir) \ {at} : Open(Taken, f)
    /\ agent' = Taken /\ slot' = None
    /\ lastMade' = [for |-> Taken, wants |-> base,
                    over |-> \E c \in Command : Flying(c)]
    /\ cmd' = Overlap(None)
    /\ UNCHANGED <<base, starts>>

-----------------------------------------------------------------------------
Init == /\ files = [n \in {} |-> None] /\ base = None /\ agent = None /\ at = 0 /\ slot = None
        /\ cmd = [c \in Command |-> Ready] /\ starts = 0
        /\ lastMade = [for |-> None, wants |-> None, over |-> FALSE]

Next ==
    \/ \E a \in Agent : Start(a)
    \/ Quit \/ NewSession
    \/ \E c \in Command :
          \/ \E a \in Agent : SwitchAgent(c, a) \/ Handoff(c, a)
          \/ SwitchWithBrief(c) \/ Cancelled(c) \/ Made(c) \/ FactoryFails(c)

Spec == Init /\ [][Next]_vars

-----------------------------------------------------------------------------
(* Every session is made for the agent that was asked for, and Pi's /new   *)
(* for the agent of the command line, unless two of them overlapped: a     *)
(* switch that was cancelled, failed or lost its process never takes       *)
(* effect later.                                                           *)
MadeAsAsked == lastMade.over \/ lastMade.for = lastMade.wants
=============================================================================
