----------------------------- MODULE LiveActivity -----------------------------
(***************************************************************************)
(* How the session that started a detached Drive run hears of it: the run  *)
(* appends its events to events.jsonl, a bridge in the session's process   *)
(* follows the file and publishes them on the activity bus                 *)
(* (src/lib/driver/event-stream.ts), and the orchestration extension sends *)
(* what is published to the session, at once or when the session is idle.  *)
(*                                                                         *)
(* A line is written whole or, by a process that dies, in part; what is    *)
(* written after a part of a line makes one unreadable line with it.  The  *)
(* file is read as of one moment.  Left out: the throttling of the         *)
(* activity of spawned agents, which are published without a file.         *)
(***************************************************************************)
EXTENDS Naturals, Sequences, SequencesExt

CONSTANTS MaxLines,    \* bound: of the log
          MaxDeaths, MaxTurns, MaxSwitches

LiveAssumption == {MaxLines, MaxDeaths, MaxTurns, MaxSwitches} \subseteq Nat

VARIABLES
  log, torn,   \* the whole lines: "told", "quiet", "last" or "unreadable"; and part of one
  running,     \* a process that writes
  bridge,      \* "waiting" for the file, "tailing" or "stopped"
  reading, again, \* the bridge reads the file; it is to read it again
  cursor,      \* lines that the bridge has done with
  session, busy, \* the session on screen, and whether its agent works
  pending, timer, \* messages for an idle session, and the timer that sends them
  published,   \* history: the lines that were published, in that order
  heard,       \* history: session -> [line, late], in the order they were sent
  missed,      \* history: published for, or waiting for, a session that was left
  deaths, turns, switches
file == <<log, torn, running, deaths>>
follower == <<bridge, reading, again, cursor, published>>
screen == <<session, busy, pending, timer, heard, missed, turns, switches>>
vars == <<file, follower, screen>>

------------------------------------------------------------------------------
(* The run.                                                                *)

Exists == log # <<>> \/ torn

Write(kind) ==
  /\ running /\ Len(log) < MaxLines
  /\ log' = Append(log, IF torn THEN "unreadable" ELSE kind) /\ torn' = FALSE
  /\ running' = (kind # "last")
  /\ UNCHANGED <<deaths, follower, screen>>

Die(part) ==
  /\ running /\ deaths < MaxDeaths /\ deaths' = deaths + 1
  /\ running' = FALSE /\ torn' = (torn \/ part)
  /\ UNCHANGED <<log, follower, screen>>

\* it is resumed, by the same log
Resume ==
  /\ ~running /\ running' = TRUE
  /\ UNCHANGED <<log, torn, deaths, follower, screen>>

------------------------------------------------------------------------------
(* bridgeJsonlToActivityBus.                                               *)

\* schedulePoll: a watcher or the interval fires
Schedule ==
  /\ bridge = "tailing" /\ ~(reading /\ again)
  /\ IF reading THEN again' = TRUE /\ UNCHANGED reading
                ELSE reading' = TRUE /\ UNCHANGED again
  /\ UNCHANGED <<bridge, cursor, published, file, screen>>

\* startTailing, when the file is there
StartTailing ==
  /\ bridge = "waiting" /\ Exists
  /\ bridge' = "tailing" /\ reading' = TRUE
  /\ UNCHANGED <<again, cursor, published, file, screen>>

\* the file has not appeared within JSONL_BRIDGE_MISSING_FILE_TIMEOUT_MS, or abort() of the run
Stop ==
  /\ bridge # "stopped" /\ bridge' = "stopped"
  /\ UNCHANGED <<reading, again, cursor, published, file, screen>>

\* processContent: up to an unreadable line or the end of the run
Rest == {i \in DOMAIN log : i > cursor}
Before(i, kind) == \A j \in Rest : j < i => log[j] # kind
Done == {i \in Rest : /\ log[i] # "unreadable" /\ Before(i, "unreadable")
                      /\ Before(i, "last")}
Lines(S) == SelectSeq([i \in DOMAIN log |-> i], LAMBDA i : i \in S)
\* toBusEvent: not every event is for the session
OnBus(kind) == kind # "quiet"
New == Lines({i \in Done : OnBus(log[i])})
Ended == \E i \in Done : log[i] = "last"

\* Mutant: the cursor moves when all lines have been read.
CursorAtEnd == IF \E i \in Rest : log[i] = "unreadable" THEN cursor ELSE cursor + Len(Lines(Done))

\* the cursor moves with every line
Cursor == cursor + Len(Lines(Done))

Tags(lines, late) == [i \in DOMAIN lines |-> [line |-> lines[i], late |-> late]]
ToIds(s) == [i \in DOMAIN s |-> s[i].line]

\* the subscribers of driver_activity and driver_event, and sendLiveMessage
Receive ==
  IF session # "parent" THEN
    missed' = missed \cup ToSet(New) /\ UNCHANGED <<heard, pending, timer>>
  ELSE
    /\ IF busy THEN pending' = pending \o New /\ timer' = (timer \/ New # <<>>) /\ UNCHANGED heard
       ELSE heard' = [heard EXCEPT !.parent = @ \o Tags(New, FALSE)] /\ UNCHANGED <<pending, timer>>
    /\ UNCHANGED missed

\* a read that is on its way when the bridge stops is published too
Poll ==
  /\ reading
  /\ cursor' = Cursor /\ published' = published \o New
  /\ bridge' = IF Ended THEN "stopped" ELSE bridge
  /\ reading' = (again /\ bridge' # "stopped") /\ again' = (again /\ bridge' = "stopped")
  /\ Receive
  /\ UNCHANGED <<session, busy, turns, switches, file>>

------------------------------------------------------------------------------
(* The session.                                                            *)

Turn ==
  /\ busy \/ turns < MaxTurns
  /\ busy' = ~busy /\ turns' = IF busy THEN turns ELSE turns + 1
  /\ UNCHANGED <<session, pending, timer, heard, missed, switches, file, follower>>

\* flushLiveMessages: tried again as long as the agent works
Flush ==
  /\ timer /\ ~busy /\ timer' = FALSE
  /\ pending' = <<>> /\ heard' = [heard EXCEPT ![session] = @ \o Tags(pending, TRUE)]
  /\ UNCHANGED <<session, busy, missed, turns, switches, file, follower>>

\* Mutant: what waits for the session that is left is sent to the next.
LeaveQueue == UNCHANGED <<pending, timer, missed>>

\* teardownActivitySubscription
Teardown ==
  /\ pending' = <<>> /\ timer' = FALSE
  /\ missed' = missed \cup ToSet(pending)

\* session_start of another session, or of this one again
Switch ==
  /\ ~busy /\ switches < MaxSwitches /\ switches' = switches + 1
  /\ Teardown
  /\ session' \in {"parent", "other"}
  /\ UNCHANGED <<busy, heard, turns, file, follower>>

------------------------------------------------------------------------------
Init ==
  /\ log = <<>> /\ torn = FALSE /\ running = TRUE
  /\ bridge = "waiting" /\ reading = FALSE /\ again = FALSE /\ cursor = 0
  /\ session = "parent" /\ busy = TRUE
  /\ pending = <<>> /\ timer = FALSE
  /\ published = <<>> /\ heard = [s \in {"parent", "other"} |-> <<>>] /\ missed = {}
  /\ deaths = 0 /\ turns = 0 /\ switches = 0

Next ==
  \/ \E kind \in {"told", "quiet", "last"} : Write(kind)
  \/ \E part \in BOOLEAN : Die(part)
  \/ Resume
  \/ Schedule \/ StartTailing \/ Stop \/ Poll
  \/ Turn \/ Flush \/ Switch

Spec == Init /\ [][Next]_vars

------------------------------------------------------------------------------
TypeOK ==
  /\ log \in Seq({"told", "quiet", "last", "unreadable"})
  /\ bridge \in {"waiting", "tailing", "stopped"}
  /\ cursor \in 0 .. Len(log) /\ ToSet(pending) \subseteq 1 .. cursor

Increasing(s) == \A i, j \in DOMAIN s : i < j => s[i] < s[j]

(* The bridge publishes the lines it is done with that are for the         *)
(* session, each once and in the order in which they were written.         *)
PublishedAsWritten ==
  published = SelectSeq([i \in 1 .. cursor |-> i], LAMBDA i : log[i] \in {"told", "last"})

(* The session hears each published event once, unless it was left, and    *)
(* no other session hears any.  What it hears at once is in order, and so  *)
(* is what waited for it; the first may overtake the second.               *)
HeardByOwner ==
  /\ heard.other = <<>>
  /\ ToSet(published) = ToSet(ToIds(heard.parent)) \cup ToSet(pending) \cup missed
  /\ \A late \in BOOLEAN :
       Increasing(ToIds(SelectSeq(heard.parent, LAMBDA h : h.late = late))
                    \o (IF late THEN pending ELSE <<>>))
  /\ IsInjective(ToIds(heard.parent) \o pending)

(* Not what holds: the session hears of the run in order.                  *)
HeardInOrder == Increasing(ToIds(heard.parent))
==============================================================================
