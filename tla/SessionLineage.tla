---------------------------- MODULE SessionLineage ----------------------------
(***************************************************************************)
(* What is kept of the sessions of a plan: the transcript of each spawned  *)
(* agent and its record in missions/sessions/<plan>/manifest.json          *)
(* (src/lib/sessions, written by src/lib/orchestration/agent-spawner.ts    *)
(* for the stages of a chain and by spawn-tool.ts for detached children).  *)
(* Appending reads the manifest, adds the record and writes the file, with *)
(* no lock; every error is swallowed.                                      *)
(***************************************************************************)
EXTENDS Naturals, FiniteSets

CONSTANTS Child,       \* agents spawned for one plan
          Detached,    \* by spawn_agent; the others are stages of a chain
          Qualified,   \* asked for as <domain>/<agent>
          MaxFailures, \* bounds the file operations that fail
          MaxCrashes

LineageAssumption == /\ Detached \subseteq Child /\ Qualified \subseteq Child
                     /\ MaxFailures \in Nat /\ MaxCrashes \in Nat

VARIABLES manifest,    \* directory -> whether the file is whole, and the children recorded
          transcript,  \* directory -> children with a transcript
          st,          \* child -> how far it is
          held,        \* child -> the records it is about to write
          told,        \* children whose end the parent knows of
          lapped,      \* children whose append overlapped another one
          broken,      \* a write of the manifest failed half way
          failures, crashes
vars == <<manifest, transcript, st, held, told, lapped, broken, failures, crashes>>

\* the file of a session is <role>-<uuid>.jsonl in the directory of the plan: the name of a
\* domain in the role is one more directory, and the transcript goes beside the file.  The
\* manifest goes to the directory named as the plan, beside the one of the session's file
SessionHome(c) == IF c \in Qualified THEN "plan/domain" ELSE "plan"
Home(c) == IF c \in Qualified THEN "plan/plan" ELSE "plan"
Dirs == {"plan", "plan/domain", "plan/plan"}
Absent == [is |-> "absent", of |-> {}]
Torn == [is |-> "torn", of |-> {}]
Whole(cs) == [is |-> "whole", of |-> cs]

Steps == {"none", "running", "ended", "told", "noted", "create", "creating", "add", "adding",
          "kept", "lost", "dead"}
Appending == {"create", "creating", "add", "adding"}

TypeOK ==
    /\ \A d \in Dirs : manifest[d] \in {Absent, Torn} \cup {Whole(cs) : cs \in SUBSET Child}
    /\ \A d \in Dirs : transcript[d] \subseteq Child
    /\ st \in [Child -> Steps] /\ held \in [Child -> SUBSET Child]
    /\ told \subseteq Child /\ lapped \subseteq Child /\ broken \in BOOLEAN

-----------------------------------------------------------------------------
(* The session.                                                            *)

Over(c) == told' = told \cup {c}

\* prepareSpawnSession, or the session of a detached child: nothing is kept of one that
\* cannot be made
Spawn(c) ==
    /\ st[c] = "none"
    /\ \/ st' = [st EXCEPT ![c] = "running"] /\ UNCHANGED <<told, failures>>
       \/ /\ failures < MaxFailures /\ failures' = failures + 1
          /\ st' = [st EXCEPT ![c] = "lost"] /\ Over(c)
    /\ UNCHANGED <<manifest, transcript, held, lapped, broken, crashes>>

\* the prompt loop ends or throws: the record is written in both cases
Ends(c) ==
    /\ st[c] = "running" /\ st' = [st EXCEPT ![c] = "ended"]
    /\ UNCHANGED <<manifest, transcript, held, lapped, broken, failures, crashes>>

\* the spawner answers only when the lineage is written
EndStage(c) == c \notin Detached /\ Ends(c) /\ UNCHANGED told

\* the parent of a detached child hears of it at once
EndDetached(c) == c \in Detached /\ Ends(c) /\ Over(c)

-----------------------------------------------------------------------------
(* The lineage.                                                            *)

Swallowed(c) ==
    /\ st' = [st EXCEPT ![c] = "lost"] /\ Over(c)
    /\ UNCHANGED <<manifest, transcript, held, lapped>>

Fails == failures < MaxFailures /\ failures' = failures + 1 /\ UNCHANGED crashes

\* writeTranscript
Note(c) ==
    /\ st[c] = "ended"
    /\ st' = [st EXCEPT ![c] = "noted"]
    /\ transcript' = [transcript EXCEPT ![SessionHome(c)] = @ \cup {c}]
    /\ UNCHANGED <<manifest, held, told, lapped, broken, failures, crashes>>

NoteFails(c) == st[c] = "ended" /\ Fails /\ Swallowed(c) /\ UNCHANGED broken

\* appending and another one of the same file is
Others(c) == {d \in Child \ {c} : st[d] \in Appending /\ Home(d) = Home(c)}
Lap(c) == lapped' = IF Others(c) = {} THEN lapped ELSE lapped \cup Others(c) \cup {c}

\* a bug to be found: the manifest is made anew each time
AlwaysCreates(c) ==
    /\ st[c] = "noted"
    /\ Lap(c) /\ held' = [held EXCEPT ![c] = {}] /\ st' = [st EXCEPT ![c] = "create"]
    /\ UNCHANGED <<manifest, transcript, told, broken, failures, crashes>>

\* readManifest: one that is not there is made first
Look(c) ==
    /\ st[c] = "noted"
    /\ manifest[Home(c)] # Torn
    /\ Lap(c)
    /\ IF manifest[Home(c)] = Absent
       THEN held' = [held EXCEPT ![c] = {}] /\ st' = [st EXCEPT ![c] = "create"]
       ELSE held' = [held EXCEPT ![c] = manifest[Home(c)].of] /\ st' = [st EXCEPT ![c] = "add"]
    /\ UNCHANGED <<manifest, transcript, told, broken, failures, crashes>>

\* JSON.parse of half a file throws, then and ever after
LookTorn(c) ==
    /\ st[c] = "noted" /\ manifest[Home(c)] = Torn
    /\ st' = [st EXCEPT ![c] = "lost"] /\ Over(c)
    /\ lapped' = IF Others(c) = {} THEN lapped ELSE lapped \cup {c}
    /\ UNCHANGED <<manifest, transcript, held, broken, failures, crashes>>

\* writeFile truncates the file ...
Truncate(c) ==
    /\ st[c] \in {"create", "add"}
    /\ manifest' = [manifest EXCEPT ![Home(c)] = Torn]
    /\ st' = [st EXCEPT ![c] = IF @ = "create" THEN "creating" ELSE "adding"]
    /\ UNCHANGED <<transcript, held, told, lapped, broken, failures, crashes>>

\* ... and writes from its start: what another one wrote meanwhile may stick out behind
Written(old, new) ==
    IF old.of \subseteq new THEN {Whole(new)}
    ELSE IF Cardinality(old.of) > Cardinality(new) THEN {Torn} ELSE {Whole(new), Torn}

FillNew(c) ==
    /\ st[c] = "creating"
    /\ \E m \in Written(manifest[Home(c)], {}) : manifest' = [manifest EXCEPT ![Home(c)] = m]
    /\ st' = [st EXCEPT ![c] = "add"]
    /\ UNCHANGED <<transcript, held, told, lapped, broken, failures, crashes>>

\* the records it read, and its own
Records(c) == held[c] \cup {c}

Fill(c) ==
    /\ st[c] = "adding"
    /\ \E m \in Written(manifest[Home(c)], Records(c)) :
          manifest' = [manifest EXCEPT ![Home(c)] = m]
    /\ st' = [st EXCEPT ![c] = "kept"] /\ Over(c)
    /\ UNCHANGED <<transcript, held, lapped, broken, failures, crashes>>

\* a write that fails leaves the file as it is, which may be empty
FillFails(c) == st[c] \in {"creating", "adding"} /\ Fails /\ Swallowed(c) /\ broken' = TRUE

Crash ==
    /\ crashes < MaxCrashes
    /\ crashes' = crashes + 1
    /\ broken' = (broken \/ \E c \in Child : st[c] \in {"creating", "adding"})
    /\ st' = [c \in Child |-> IF st[c] \in {"none", "kept", "lost"} THEN st[c] ELSE "dead"]
    /\ UNCHANGED <<manifest, transcript, held, told, lapped, failures>>

-----------------------------------------------------------------------------
Init ==
    /\ manifest = [d \in Dirs |-> Absent] /\ transcript = [d \in Dirs |-> {}]
    /\ st = [c \in Child |-> "none"] /\ held = [c \in Child |-> {}]
    /\ told = {} /\ lapped = {} /\ broken = FALSE /\ failures = 0 /\ crashes = 0

Next ==
    \/ \E c \in Child :
          \/ Spawn(c) \/ EndStage(c) \/ EndDetached(c) \/ Note(c) \/ NoteFails(c) \/ Look(c) \/ LookTorn(c)
          \/ Truncate(c) \/ FillNew(c) \/ Fill(c) \/ FillFails(c)
    \/ Crash

Spec == Init /\ [][Next]_vars

-----------------------------------------------------------------------------
(* A record loses its place in the manifest, or never gets one, only by    *)
(* another append to the same file at the same time, a write that failed   *)
(* half way or a crash in the middle of one; whatever happens, what is     *)
(* recorded has a transcript, beside the file of its session.              *)
LostOnlyByOverlap ==
    \A d \in Dirs :
        LET here == {c \in Child : Home(c) = d}
        IN /\ \A c \in manifest[d].of : c \in transcript[SessionHome(c)]
           /\ (~broken /\ lapped \cap here = {}) =>
                 \/ \E c \in here : st[c] \in {"creating", "adding"}
                 \/ manifest[d] # Torn /\ {c \in here : st[c] = "kept"} \subseteq manifest[d].of

(* Not what holds: the files that a record names are beside it, in the     *)
(* directory of the manifest.                                              *)
FilesBesideRecord == \A d \in Dirs : manifest[d].of \subseteq transcript[d]
=============================================================================
