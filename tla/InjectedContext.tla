---------------------------- MODULE InjectedContext ----------------------------
(***************************************************************************)
(* What an agent is told before it is asked: the hidden messages that the  *)
(* agent-memory and the architecture-memory extensions add to a turn, the  *)
(* filters they put before every call of the model, and the recall tool    *)
(* (src/domains/shared/extensions).  The messages stay in the session,     *)
(* which is resumed by the same agent or another; the records on disk are  *)
(* edited by people, tools and other processes meanwhile.                  *)
(*                                                                         *)
(* A scan of the records is one step.  Left out: the text of a message and *)
(* its budget of bytes, and compaction, which drops messages from the      *)
(* front.                                                                  *)
(***************************************************************************)
EXTENDS Naturals, Sequences, SequencesExt, FiniteSets

CONSTANTS
  Record, Type,     \* records on disk, and the type of each
  Newest,           \* the records in the order of their timestamps, then paths
  IndexLimit, RecallLimit,
  EpisodesEnabled,  \* episodicLog.enabled of the project
  Agent, Cosmo,     \* agents, and the one that may use the memory
  Consumer,         \* the agents that get the architecture map
  Remembers, Maps,  \* the agents that load the one extension and the other
  None,
  MaxTurns, MaxEdits, MaxStarts

ContextAssumption ==
  /\ Type \in [Record -> {"note", "playbook", "profile", "episode"}]
  /\ ToSet(Newest) = Record /\ Len(Newest) = Cardinality(Record)
  /\ Cosmo \in Remembers /\ Remembers \subseteq Agent
  /\ Consumer \subseteq Maps /\ Maps \subseteq Agent /\ None \notin Agent
  /\ {IndexLimit, RecallLimit, MaxTurns, MaxEdits, MaxStarts} \subseteq Nat

VARIABLES
  disk,      \* record -> "good", "broken" or "absent"
  map,       \* memory/architecture is there
  agent,     \* of the running session, or None
  auth,      \* authorized, of the one extension and of the other
  messages,  \* the session's hidden messages: [type, turn, shows]
  phase,     \* of the turn
  seen,      \* what the last call of the model was given, and to whom
  answered,  \* history: agents that recall has answered
  turns, edits, starts
vars == <<disk, map, agent, auth, messages, phase, seen, answered, turns, edits, starts>>
session == <<agent, auth, messages, phase, seen, answered, turns, starts>>

------------------------------------------------------------------------------
(* The records.                                                            *)

Of(types, state) == {r \in Record : Type[r] \in types /\ disk[r] = state}
FirstOf(records, n) ==
  LET s == SelectSeq(Newest, LAMBDA r : r \in records)
  IN {s[i] : i \in 1 .. IF Len(s) < n THEN Len(s) ELSE n}

\* buildMemoryContext: the newest profile, the index, and warnings of what cannot be read
Injected ==
  LET authored == {"note", "playbook", "profile"}
  IN [profile |-> FirstOf(Of({"profile"}, "good"), 1),
      index |-> FirstOf(Of({"note", "playbook"}, "good"), IndexLimit),
      warnings |-> Of(authored, "broken")]
Empty == [profile |-> {}, index |-> {}, warnings |-> {}]

\* recall: a matching profile is pinned before the others, which are limited
Recalled(matching) ==
  LET good == matching \cap Of({"note", "playbook", "profile"}
                               \cup (IF EpisodesEnabled THEN {"episode"} ELSE {}), "good")
      profiles == {r \in good : Type[r] = "profile"}
  IN profiles \cup FirstOf(good \ profiles, RecallLimit)

EditRecord(r, state) ==
  /\ edits < MaxEdits /\ edits' = edits + 1
  /\ disk[r] # state /\ disk' = [disk EXCEPT ![r] = state]
  /\ UNCHANGED <<map, session>>

\* the map is generated, or its directory removed
EditMap ==
  /\ edits < MaxEdits /\ edits' = edits + 1
  /\ map' = ~map
  /\ UNCHANGED <<disk, session>>

------------------------------------------------------------------------------
(* The session.                                                            *)

Unauthorized == [memory |-> FALSE, map |-> FALSE]

\* session_start, of a new session or of this one again
Start(a, kept) ==
  /\ agent = None /\ starts < MaxStarts /\ starts' = starts + 1
  /\ agent' = a /\ auth' = Unauthorized /\ phase' = "idle" /\ seen' = None
  /\ messages' = IF kept THEN messages ELSE <<>>
  /\ UNCHANGED <<disk, map, answered, turns, edits>>

\* session_shutdown
Quit ==
  /\ agent # None
  /\ agent' = None /\ auth' = Unauthorized /\ phase' = "off" /\ seen' = None
  /\ UNCHANGED <<disk, map, messages, answered, turns, edits, starts>>

Prompt ==
  /\ phase = "idle" /\ turns < MaxTurns /\ turns' = turns + 1
  /\ phase' = "memory" /\ seen' = None
  /\ UNCHANGED <<disk, map, agent, auth, messages, answered, edits, starts>>

Tell(type, shows) == messages' = Append(messages, [type |-> type, turn |-> turns, shows |-> shows])

\* before_agent_start of agent-memory: authorized anew at each turn, silent without records
InjectMemory ==
  /\ phase = "memory" /\ phase' = "map"
  /\ auth' = [auth EXCEPT !.memory = (agent = Cosmo)]
  /\ IF agent = Cosmo /\ Injected # Empty THEN Tell("memory", Injected) ELSE UNCHANGED messages
  /\ UNCHANGED <<disk, map, agent, seen, answered, turns, edits, starts>>

\* before_agent_start of architecture-memory
InjectMap ==
  /\ phase = "map" /\ phase' = "call"
  /\ auth' = [auth EXCEPT !.map = (agent \in Consumer)]
  /\ IF agent \in Consumer /\ map THEN Tell("map", Empty) ELSE UNCHANGED messages
  /\ UNCHANGED <<disk, map, agent, seen, answered, turns, edits, starts>>

------------------------------------------------------------------------------
(* A call of the model: the context handlers of the extensions the agent   *)
(* has loaded, over all messages of the session.                           *)

IsMemory(m) == m.type = "memory"
LastMemory(ms) ==
  LET at == {i \in DOMAIN ms : IsMemory(ms[i])} IN {i \in at : \A j \in at : j <= i}
FirstMemory(ms) ==
  LET at == {i \in DOMAIN ms : IsMemory(ms[i])} IN {i \in at : \A j \in at : j >= i}

Keep(ms, kept) == LET all == [i \in DOMAIN ms |-> [m |-> ms[i], keep |-> i \in kept]]
                      s == SelectSeq(all, LAMBDA x : x.keep)
                  IN [i \in DOMAIN s |-> s[i].m]
Others(ms) == {i \in DOMAIN ms : ~IsMemory(ms[i])}

\* Mutant: whoever asks is shown the newest.
KeepNewestForAll(ms) == Keep(ms, Others(ms) \cup LastMemory(ms))

\* Mutant: the first message is kept.
KeepOldest(ms) == Keep(ms, Others(ms) \cup (IF auth.memory THEN FirstMemory(ms) ELSE {}))

\* agent-memory: the newest of its messages, or none for those that are not authorized
MemoryFilter(ms) == Keep(ms, Others(ms) \cup (IF auth.memory THEN LastMemory(ms) ELSE {}))

\* architecture-memory: none of its messages
MapFilter(ms) == SelectSeq(ms, LAMBDA m : m.type # "map")

Context ==
  LET remembered == IF agent \in Remembers THEN MemoryFilter(messages) ELSE messages
  IN IF agent \in Maps THEN MapFilter(remembered) ELSE remembered

CallModel ==
  /\ phase = "call"
  /\ seen' = [agent |-> agent, context |-> Context]
  /\ UNCHANGED <<disk, map, agent, auth, messages, phase, answered, turns, edits, starts>>

\* the tool of agent-memory; a refusal is not an answer
Recall(matching) ==
  /\ seen # None /\ phase = "call" /\ agent \in Remembers
  /\ answered' = IF auth.memory /\ Recalled(matching) # {} THEN answered \cup {agent} ELSE answered
  /\ UNCHANGED <<disk, map, agent, auth, messages, phase, seen, turns, edits, starts>>

\* remember: the record is there, whatever was
Remember(r) ==
  /\ seen # None /\ phase = "call" /\ agent \in Remembers /\ auth.memory
  /\ Type[r] # "episode" /\ edits < MaxEdits /\ edits' = edits + 1
  /\ disk' = [disk EXCEPT ![r] = "good"]
  /\ UNCHANGED <<map, session>>

EndTurn ==
  /\ phase = "call" /\ seen # None /\ phase' = "idle" /\ seen' = None
  /\ UNCHANGED <<disk, map, agent, auth, messages, answered, turns, edits, starts>>

------------------------------------------------------------------------------
Init ==
  /\ disk \in [Record -> {"good", "absent"}] /\ map \in BOOLEAN
  /\ agent = None /\ auth = Unauthorized /\ messages = <<>> /\ phase = "off"
  /\ seen = None /\ answered = {}
  /\ turns = 0 /\ edits = 0 /\ starts = 0

Next ==
  \/ \E r \in Record, s \in {"good", "broken", "absent"} : EditRecord(r, s)
  \/ EditMap
  \/ \E a \in Agent, kept \in BOOLEAN : Start(a, kept)
  \/ Quit \/ Prompt \/ InjectMemory \/ InjectMap \/ CallModel
  \/ \E matching \in SUBSET Record : Recall(matching)
  \/ \E r \in Record : Remember(r)
  \/ EndTurn

Spec == Init /\ [][Next]_vars

------------------------------------------------------------------------------
TypeOK ==
  /\ disk \in [Record -> {"good", "broken", "absent"}] /\ map \in BOOLEAN
  /\ agent \in Agent \cup {None} /\ answered \subseteq Agent
  /\ phase \in {"off", "idle", "memory", "map", "call"}
  /\ \A i \in DOMAIN messages : messages[i].turn \in 1 .. turns

Memories == SelectSeq(seen.context, IsMemory)

(* Cosmo is shown at most one memory, the one of this turn unless there    *)
(* was nothing to show; another agent that loads the extension is shown    *)
(* none in a session that Cosmo has filled, and recall answers Cosmo only. *)
MemoryIsCosmos ==
  /\ answered \subseteq {Cosmo}
  /\ seen # None /\ agent \in Remembers =>
       IF agent = Cosmo
         THEN /\ Len(Memories) <= 1
              /\ \A i \in DOMAIN messages :
                   IsMemory(messages[i]) /\ messages[i].turn = turns => Memories = <<messages[i]>>
         ELSE Memories = <<>>

(* "injects the compact index + freshness banner for exactly five          *)
(* consuming agents": what a turn was given of the map is what the model   *)
(* is asked with.                                                          *)
MapReachesModel ==
  seen # None /\ agent \in Consumer =>
    \A i \in DOMAIN messages :
      messages[i].type = "map" /\ messages[i].turn = turns => Contains(seen.context, messages[i])

(* "Current disk authored memory for this Cosmo turn": no memory is shown  *)
(* but this turn's.                                                        *)
OnlyThisTurnsMemory ==
  seen # None /\ agent = Cosmo => \A i \in DOMAIN Memories : Memories[i].turn = turns
==============================================================================
