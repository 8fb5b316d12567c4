---------------------------- MODULE ExportedAgent ----------------------------
(***************************************************************************)
(* An agent exported as a program of its own (src/lib/agent-packages): it  *)
(* writes the agent's system prompt into a new temporary directory, starts *)
(* Claude or Codex with the name of that file, waits for it, removes the   *)
(* directory and exits as the child did.  SIGINT and SIGTERM are caught to *)
(* remove the directory first and are then sent again.                     *)
(*                                                                         *)
(* A signal comes between any two steps; the child reads the prompt at a   *)
(* time of its own, and outlives a process that a signal ended.            *)
(***************************************************************************)
EXTENDS Naturals, Sequences, SequencesExt

CONSTANTS Target,     \* "claude" or "codex"
          Tools,      \* the tool sets of packages, of "coding", "readonly", "verification", "none"
          Arguments,  \* the command lines: sequences of [kind, value], a flag with its value as one
          Code,       \* what the child exits with
          MaxSignals  \* bounds the signals

ExportAssumption == Target \in {"claude", "codex"} /\ Code \subseteq Nat /\ MaxSignals \in Nat

VARIABLES args, tools,
          stage,      \* of the main flow
          dir,        \* the temporary directory: "none", "empty", "full", "gone"
          made,       \* materialized is set
          removal,    \* cleanupPromise: "none", "going", "done", "failed"
          waiting,    \* a signal handler awaits the removal
          child,      \* "none", "started", "prompted", "blind", "closed"
          launched,   \* what the child was started with
          code, ends, \* the result, and how the process ended
          missed,     \* a signal came when nobody could remove the directory
          signals
vars == <<args, tools, stage, dir, made, removal, waiting, child, launched, code, ends, missed,
          signals>>

TypeOK ==
    /\ args \in Arguments /\ tools \in Tools
    /\ stage \in {"args", "directory", "prompt", "running", "cleaning", "ended"}
    /\ dir \in {"none", "empty", "full", "gone"}
    /\ removal \in {"none", "going", "done", "failed"}
    /\ child \in {"none", "started", "prompted", "blind", "closed"}
    /\ ends \in {"no", "exit", "signal"} /\ code \in Nat
    /\ made \in BOOLEAN /\ waiting \in BOOLEAN /\ missed \in BOOLEAN /\ signals \in 0 .. MaxSignals

-----------------------------------------------------------------------------
(* What Codex is allowed: at most the sandbox of the package's tools.      *)

Rank == [m \in {"read-only", "workspace-write", "danger-full-access"} |->
           CASE m = "read-only" -> 0 [] m = "workspace-write" -> 1 [] OTHER -> 2]
Most(t) == IF t = "coding" THEN "workspace-write" ELSE "read-only"

\* consumeSandboxFlag, isSandboxBypassFlag and --full-auto all ask for a sandbox
Asks(a) == a.kind \in {"sandbox", "bypass", "full-auto"}
Asked(a) == CASE a.kind = "bypass" -> "danger-full-access"
              [] a.kind = "full-auto" -> "workspace-write"
              [] OTHER -> a.value
IsSandbox(m) == m \in DOMAIN Rank

\* isProtectedConfigOverride, by the key of the value
IsProtected(a) == a.kind = "config" /\ a.value = "protected"

\* what stands before "--" is looked at, the rest is passed on as it is
Flags(s) == LET ends_ == {n \in DOMAIN s : s[n].kind = "--"}
            IN  IF ends_ = {} THEN s
                ELSE SubSeq(s, 1, (CHOOSE n \in ends_ : \A m \in ends_ : n <= m) - 1)
Sanitized(s) ==
    SelectSeq(Flags(s), LAMBDA a : ~Asks(a) /\ ~IsProtected(a))
      \o SubSeq(s, Len(Flags(s)) + 1, Len(s))
Requests(s) == SelectSeq(Flags(s), Asks)

\* parseSandboxMode throws at any other value
Throws(s) == \E n \in DOMAIN Requests(s) : ~IsSandbox(Asked(Requests(s)[n]))

\* resolveSandboxMode: the last request, if it is less
Sandbox(s, t) ==
    LET m == Asked(Last(Requests(s)))
    IN  IF Requests(s) # <<>> /\ Rank[m] < Rank[Most(t)] THEN m ELSE Most(t)
CodexLaunch == [sandbox |-> Sandbox(args, tools), args |-> Sanitized(args)]

\* createClaudeCliInvocation: a package without tools names none
ClaudeLaunch == [tools |-> IF tools = "none" THEN {} ELSE {tools}, args |-> args]

-----------------------------------------------------------------------------
(* The main flow.                                                          *)

\* parseArgs of the exported program: a flag of its own without its value
RefuseArguments ==
    /\ stage = "args" /\ \E n \in DOMAIN args : args[n].kind = "incomplete"
    /\ stage' = "ended" /\ ends' = "exit" /\ code' = 1
    /\ UNCHANGED <<args, tools, dir, made, removal, waiting, child, launched, missed, signals>>

Accept ==
    /\ stage = "args" /\ \A n \in DOMAIN args : args[n].kind # "incomplete"
    /\ stage' = "directory"
    /\ UNCHANGED <<args, tools, dir, made, removal, waiting, child, launched, code, ends, missed,
                   signals>>

\* The handlers are removed and the directory is removed by whoever asks first.
Close(m) ==
    /\ removal' = IF m /\ removal = "none" THEN "going" ELSE removal
    /\ IF m /\ removal' = "going"
       THEN stage' = "cleaning" /\ UNCHANGED ends
       ELSE stage' = "ended" /\ ends' = "exit"

\* mkdtemp
MakeDirectory(ok) ==
    /\ stage = "directory"
    /\ IF ok
       THEN dir' = "empty" /\ stage' = "prompt" /\ UNCHANGED <<removal, ends, code>>
       ELSE code' = 1 /\ Close(FALSE) /\ UNCHANGED dir
    /\ UNCHANGED <<args, tools, made, waiting, child, launched, missed, signals>>

\* writeFile, the arguments, onMaterialized and spawn: one step once the file is written
WritePrompt(ok) ==
    /\ stage = "prompt"
    /\ dir' = IF ok THEN "full" ELSE dir
    /\ IF ok /\ ~(Target = "codex" /\ Throws(args))
       THEN /\ made' = TRUE /\ stage' = "running" /\ child' = "started"
            /\ launched' = IF Target = "codex" THEN <<CodexLaunch>> ELSE <<ClaudeLaunch>>
            /\ UNCHANGED <<removal, ends, code>>
       ELSE code' = 1 /\ Close(FALSE) /\ UNCHANGED <<made, child, launched>>
    /\ UNCHANGED <<args, tools, waiting, missed, signals>>

\* waitForChild: an error of the start, or the code of the child, 1 if a signal ended it
Result(c) ==
    /\ stage = "running"
    /\ code' = c /\ Close(made)
    /\ UNCHANGED <<args, tools, dir, made, waiting, launched, missed, signals>>
\* Mutant of SpawnFails: the result of a failed start does not carry what was materialized.
SpawnFailsForgets ==
    /\ stage = "running" /\ child = "started" /\ child' = "closed" /\ code' = 1 /\ Close(FALSE)
    /\ UNCHANGED <<args, tools, dir, made, waiting, launched, missed, signals>>

SpawnFails == child = "started" /\ child' = "closed" /\ Result(1)
ChildCloses(c) ==
    /\ child \in {"prompted", "blind"} /\ child' = "closed"
    /\ IF stage = "running" THEN Result(c)
       ELSE UNCHANGED <<args, tools, stage, dir, made, removal, waiting, launched, code, ends,
                        missed, signals>>

\* rm ends: a handler that waits was first in the queue and sends its signal again
RemovalEnds(ok) ==
    /\ removal = "going" /\ stage # "ended"
    /\ removal' = IF ok THEN "done" ELSE "failed"
    /\ dir' = IF ok THEN "gone" ELSE dir
    /\ IF waiting THEN stage' = "ended" /\ ends' = "signal" /\ UNCHANGED code
       ELSE stage' = "ended" /\ ends' = "exit" /\ code' = IF ok THEN code ELSE 1
    /\ UNCHANGED <<args, tools, made, waiting, child, launched, missed, signals>>

-----------------------------------------------------------------------------
(* Signals and the child.                                                  *)

\* installCleanupSignalHandlers: installed from the arguments to the result
Installed == stage \in {"directory", "prompt", "running"}
Dies == stage' = "ended" /\ ends' = "signal" /\ UNCHANGED <<removal, waiting>>

Signal ==
    /\ stage # "ended" /\ signals < MaxSignals /\ signals' = signals + 1
    /\ IF Installed /\ made
       THEN /\ waiting' = TRUE /\ removal' = IF removal = "none" THEN "going" ELSE removal
            /\ UNCHANGED <<stage, ends, missed>>
       ELSE Dies /\ missed' = TRUE
    /\ UNCHANGED <<args, tools, dir, made, child, launched, code>>

\* external: the child opens the prompt, and cannot start without it
ChildReads ==
    /\ child = "started"
    /\ child' = IF dir = "full" THEN "prompted" ELSE "blind"
    /\ UNCHANGED <<args, tools, stage, dir, made, removal, waiting, launched, code, ends, missed,
                   signals>>

Init ==
    /\ args \in Arguments /\ tools \in Tools
    /\ stage = "args" /\ dir = "none" /\ made = FALSE /\ removal = "none" /\ waiting = FALSE
    /\ child = "none" /\ launched = <<>> /\ code = 0 /\ ends = "no" /\ missed = FALSE
    /\ signals = 0
Next ==
    \/ RefuseArguments \/ Accept \/ SpawnFails \/ Signal \/ ChildReads
    \/ \E ok \in BOOLEAN : MakeDirectory(ok) \/ WritePrompt(ok) \/ RemovalEnds(ok)
    \/ \E c \in Code : ChildCloses(c)
Spec == Init /\ [][Next]_vars

-----------------------------------------------------------------------------
(* Properties.                                                             *)

\* A program that started its agent leaves no prompt behind when it ends, whether the agent
\* ended, could not be started, or a signal came while it ran.  Exempt are a removal that failed
\* and a signal that came after the handlers were taken off.
LeavesNoPrompt == stage = "ended" /\ child # "none" /\ removal # "failed" /\ ~missed => dir = "gone"

=============================================================================
