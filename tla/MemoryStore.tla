------------------------------ MODULE MemoryStore ------------------------------
(***************************************************************************)
(* The markdown memory under memory/agent of a project or of the user:     *)
(* sessions and runs of several processes write episodes, the profile and  *)
(* a playbook into the same files, with no lock.  A file is replaced by a  *)
(* rename, so a reader sees one version of it or another; an episode is    *)
(* linked into place and never replaced.                                   *)
(*                                                                         *)
(* A read or a write of one file is one step, and so is a scan of all      *)
(* records.  Left out: notes, whose file names are their own, recall, and  *)
(* how a record is rendered and parsed.                                    *)
(***************************************************************************)
EXTENDS Integers, FiniteSets

CONSTANTS
  Writer,       \* calls of the store
  Kind,         \* what each writes: "episode", "profile" or "playbook"
  Content,      \* the content that each writes
  Confirmed,    \* writers that were told to update an existing playbook
  MaxFailures   \* bound: index writes that fail

None == "none"

MemoryAssumption ==
  /\ Kind \in [Writer -> {"episode", "profile", "playbook"}]
  /\ \A w \in Writer : Content[w] # None
  /\ Confirmed \subseteq Writer /\ MaxFailures \in Nat

Slot == 1 .. Cardinality(Writer)

VARIABLES
  at,        \* where each writer is
  slot,      \* the suffix an episode writer is at
  found,     \* the content a profile or playbook writer found in its file
  episodes,  \* the files of one base name: <hash>.md, <hash>-2.md, ...
  profile, previous, playbook,
  index,     \* the playbook that index.md lists
  scan,      \* what a writer's scan for the index has found
  replaced,  \* history: the profile that the last write replaced
  failures

files == <<episodes, profile, previous, playbook, index>>
memoryVars == <<at, slot, found, files, scan, replaced, failures>>

Goto(w, a) == at' = [at EXCEPT ![w] = a]
Finds(w, c) == found' = [found EXCEPT ![w] = c]

------------------------------------------------------------------------------
(* writeEpisode.  Same content, same base name; other content has it only  *)
(* if eight digits of two hashes are the same.                             *)

\* Mutant: another file in the way is another episode.
AlwaysNext(c, there) == "on"

\* The file that is there is the one that was to be written, or it is not.
SameOrNext(c, there) == IF there = c THEN "done" ELSE "on"

NextSlot(w, outcome) ==
  /\ slot' = [slot EXCEPT ![w] = IF outcome = "on" THEN @ + 1 ELSE @]
  /\ Goto(w, IF outcome = "on" THEN "read" ELSE "done")

ReadSlot(w) ==
  /\ Kind[w] = "episode" /\ at[w] = "read"
  /\ IF episodes[slot[w]] = None
       THEN Goto(w, "link") /\ UNCHANGED slot
       ELSE NextSlot(w, IF episodes[slot[w]] = Content[w] THEN "done" ELSE "on")
  /\ UNCHANGED <<found, files, scan, replaced, failures>>

\* link() fails if the path exists.
LinkSlot(w) ==
  /\ at[w] = "link"
  /\ IF episodes[slot[w]] = None
       THEN episodes' = [episodes EXCEPT ![slot[w]] = Content[w]] /\ Goto(w, "done")
       ELSE Goto(w, "reread") /\ UNCHANGED episodes
  /\ UNCHANGED <<slot, found, profile, previous, playbook, index, scan, replaced, failures>>

ReadWinner(w) ==
  /\ at[w] = "reread"
  /\ NextSlot(w, SameOrNext(Content[w], episodes[slot[w]]))
  /\ UNCHANGED <<found, files, scan, replaced, failures>>

------------------------------------------------------------------------------
(* writeProfile and writePlaybook, and the remember tool that calls them.  *)

\* The tool looks for a playbook of that name and asks before it updates one;
\* the store looks again and does not ask.
AskFirst(w) ==
  /\ Kind[w] = "playbook" /\ at[w] = "read"
  /\ Goto(w, IF playbook # None /\ w \notin Confirmed THEN "asked" ELSE "look")
  /\ UNCHANGED <<slot, found, files, scan, replaced, failures>>

FindPlaybook(w) ==
  /\ at[w] = "look"
  /\ Finds(w, playbook) /\ Goto(w, "persist")
  /\ UNCHANGED <<slot, files, scan, replaced, failures>>

ReadProfile(w) ==
  /\ Kind[w] = "profile" /\ at[w] = "read"
  /\ Finds(w, profile)
  /\ Goto(w, IF profile \in {None, Content[w]} THEN "persist" ELSE "backup")
  /\ UNCHANGED <<slot, files, scan, replaced, failures>>

\* What was read is kept as the previous version, whatever the profile is now.
BackUp(w) ==
  /\ at[w] = "backup"
  /\ previous' = found[w] /\ Goto(w, "persist")
  /\ UNCHANGED <<slot, found, episodes, profile, playbook, index, scan, replaced, failures>>

\* persistAuthoredRecord looks again if there was no file.
LookAgain(w) ==
  /\ at[w] = "persist"
  /\ Finds(w, IF found[w] # None THEN found[w]
              ELSE IF Kind[w] = "profile" THEN profile ELSE playbook)
  /\ Goto(w, "write")
  /\ UNCHANGED <<slot, files, scan, replaced, failures>>

\* writeFileIfChanged: compared with what was read.
Write(w) ==
  /\ at[w] = "write"
  /\ IF Kind[w] = "profile" /\ found[w] # Content[w]
       THEN profile' = Content[w] /\ replaced' = (IF profile = Content[w] THEN replaced ELSE profile)
       ELSE UNCHANGED <<profile, replaced>>
  /\ playbook' = IF Kind[w] = "playbook" THEN Content[w] ELSE playbook
  /\ Goto(w, "scan")
  /\ UNCHANGED <<slot, found, episodes, previous, index, scan, failures>>

\* regenerateIndex reads all records and writes the list of them.
ScanRecords(w) ==
  /\ at[w] = "scan"
  /\ scan' = [scan EXCEPT ![w] = playbook] /\ Goto(w, "index")
  /\ UNCHANGED <<slot, found, files, replaced, failures>>

WriteIndex(w) ==
  /\ at[w] = "index"
  /\ index' = scan[w] /\ Goto(w, "done")
  /\ UNCHANGED <<slot, found, episodes, profile, previous, playbook, scan, replaced, failures>>

\* The record is taken back if its file was not there before.
IndexFails(w) ==
  /\ at[w] \in {"scan", "index"} /\ failures < MaxFailures
  /\ failures' = failures + 1
  /\ IF found[w] # None THEN UNCHANGED <<profile, playbook>>
     ELSE IF Kind[w] = "profile" THEN profile' = None /\ UNCHANGED playbook
     ELSE playbook' = None /\ UNCHANGED profile
  /\ Goto(w, "failed")
  /\ UNCHANGED <<slot, found, episodes, previous, index, scan, replaced>>

------------------------------------------------------------------------------
Init ==
  /\ at = [w \in Writer |-> "read"] /\ slot = [w \in Writer |-> 1]
  /\ found = [w \in Writer |-> None] /\ scan = [w \in Writer |-> None]
  /\ episodes = [n \in Slot |-> None]
  /\ profile = None /\ previous = None /\ playbook = None /\ index = None
  /\ replaced = None /\ failures = 0

Next ==
  \E w \in Writer :
    \/ ReadSlot(w) \/ LinkSlot(w) \/ ReadWinner(w)
    \/ AskFirst(w) \/ FindPlaybook(w) \/ ReadProfile(w) \/ BackUp(w)
    \/ LookAgain(w) \/ Write(w)
    \/ ScanRecords(w) \/ WriteIndex(w) \/ IndexFails(w)

Spec == Init /\ [][Next]_memoryVars

------------------------------------------------------------------------------
TypeOK ==
  /\ at \in [Writer -> {"read", "link", "reread", "asked", "look", "backup", "persist",
                        "write", "scan", "index", "failed", "done"}]
  /\ slot \in [Writer -> Slot] /\ failures \in 0 .. MaxFailures

\* However many write an episode at the same time, those of one content among them
\* or others whose file has the same name, each content is there once, and all whose
\* write is over find theirs.
EpisodesOnce ==
  /\ \A m, n \in Slot : m # n /\ episodes[m] # None => episodes[m] # episodes[n]
  /\ \A w \in Writer : Kind[w] = "episode" /\ at[w] = "done" =>
       \E n \in Slot : episodes[n] = Content[w]

\* Any overwrite of the profile stays recoverable: what the last one replaced is
\* the previous version.
ReplacedIsKept == replaced # None => previous = replaced

=============================================================================
