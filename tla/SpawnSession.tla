---------------------------- MODULE SpawnSession ----------------------------
(***************************************************************************)
(* Spawned agents (lib/orchestration: spawn-tracker, agent-spawner,        *)
(* spawn-completion-loop, semaphore; spawn-tool of the extension).         *)
(*                                                                         *)
(* A session runs turns.  In a turn its agent may spawn children, which    *)
(* run at the same time and settle in the tracker of their parent.  A      *)
(* session that is driven by the completion loop (a root of a chain, and   *)
(* every child) is prompted again with each result, waits for results      *)
(* while children are active, and gives up on all of them after a timeout. *)
(* In an interactive root the spawn tool sends the results itself.         *)
(*                                                                         *)
(* Everything happens in one Node process, so that what lies between two   *)
(* awaits is one action.  Left out: texts, roles, durations, activity      *)
(* events, lineage records, and rejected spawns, which change nothing.     *)
(***************************************************************************)
EXTENDS Integers, Sequences, FiniteSets

CONSTANTS
  Root,           \* sessions that no spawn tool created
  Interactive,    \* roots whose tracker has deliveryMode "self"
  NoSession,
  MaxConcurrent,  \* maxConcurrentSpawns of a tracker
  MaxDepth,       \* maxDepth of a tracker
  MaxSpawns       \* bound: how many children are ever spawned

Spawn == 1..MaxSpawns

ASSUME SpawnAssumption ==
  /\ MaxConcurrent \in Nat \ {0} /\ MaxDepth \in Nat \ {0}
  /\ MaxSpawns \in Nat
  /\ Interactive \subseteq Root
  /\ Root \cap Spawn = {}
  /\ NoSession \notin Root \cup Spawn

Session == Root \cup Spawn
Looping == Session \ Interactive
Verdict == {"success", "failed"}
Report == Spawn \X Verdict

VARIABLES
  parent,   \* the session that spawned each child
  status,   \* SpawnRecord.status in the tracker of the parent
  free,     \* free slots of each tracker's semaphore
  active,   \* activeCount of each tracker
  buffer,   \* results that arrived and nobody has taken
  waiters,  \* number of unresolved nextCompletion() of each tracker
  inbox,    \* timed-out children the loop has yet to report
  pc,       \* what each session is doing
  told      \* history: the verdicts on each child its parent was told

tracker == <<parent, status, free, active>>
vars == <<tracker, buffer, waiters, inbox, pc, told>>

Ended == {"done", "broken"}

Children(s) == {c \in Spawn : parent[c] = s}
Running(s) == {c \in Children(s) : status[c] = "running"}

\* sessionDepths: a child of a root has depth 1.
Depth(s) ==
  LET up[d \in 0..MaxSpawns] ==
        IF d = 0 THEN {s} \cap Spawn ELSE {parent[c] : c \in up[d - 1]} \cap Spawn
  IN  Cardinality({d \in 0..MaxSpawns : up[d] # {}})

First(S) == CHOOSE c \in S : \A d \in S : c <= d

\* Timed-out children in the order they were registered.
Failures(S) ==
  [i \in 1..Cardinality(S) |->
     <<CHOOSE c \in S : Cardinality({d \in S : d < c}) = i - 1, "failed">>]

Unused == {c \in Spawn : parent[c] = NoSession}

------------------------------------------------------------------------------
(* The tracker.                                                            *)

\* canSpawn, then register, then the creation of the child's session starts.
SpawnChild(s) ==
  /\ pc[s] = "turn"
  /\ Unused # {}
  /\ Depth(s) < MaxDepth
  /\ free[s] > 0
  /\ LET c == First(Unused)
     IN  /\ parent' = [parent EXCEPT ![c] = s]
         /\ status' = [status EXCEPT ![c] = "running"]
         /\ pc' = [pc EXCEPT ![c] = "creating"]
  /\ free' = [free EXCEPT ![s] = @ - 1]
  /\ active' = [active EXCEPT ![s] = @ + 1]
  /\ UNCHANGED <<buffer, waiters, inbox, told>>

\* enqueue: the result of c goes to whoever waits for one, else to the buffer.
\* The tracker of a session that has ended is disposed of and hears nothing.
Publish(c, result) ==
  LET p == parent[c]
      heard == pc[p] \notin Ended
      awaited == heard /\ waiters[p] > 0
  IN  /\ waiters' = IF awaited THEN [waiters EXCEPT ![p] = @ - 1] ELSE waiters
      /\ buffer' = IF heard /\ ~awaited
                     THEN [buffer EXCEPT ![p] = Append(@, <<c, result>>)] ELSE buffer
      /\ told' = IF awaited \/ p \in Interactive
                   THEN [told EXCEPT ![c] = Append(@, result)] ELSE told
      /\ pc' = [pc EXCEPT ![c] = "done", ![p] = IF awaited THEN "turn" ELSE @]

\* Mutant: a late result of a child that timed out is settled once more.
SettleAgain(c, result) ==
  LET p == parent[c]
  IN  /\ status' = [status EXCEPT ![c] =
                      IF result = "success" THEN "completed" ELSE "failed"]
      /\ active' = [active EXCEPT ![p] = @ - 1]
      /\ free' = [free EXCEPT ![p] = @ + 1]
      /\ Publish(c, result)
      /\ UNCHANGED <<parent, inbox>>

\* settleSpawnTracker: complete() throws on a child that timed out, and the
\* fail() that follows leaves it alone.
Settle(c, result) ==
  LET p == parent[c]
  IN  IF status[c] = "running"
        THEN /\ status' = [status EXCEPT ![c] =
                             IF result = "success" THEN "completed" ELSE "failed"]
             /\ active' = [active EXCEPT ![p] = @ - 1]
             /\ free' = [free EXCEPT ![p] = @ + 1]
             /\ Publish(c, result)
             /\ UNCHANGED <<parent, inbox>>
        ELSE /\ pc' = [pc EXCEPT ![c] = "done"]
             /\ UNCHANGED <<tracker, buffer, waiters, inbox, told>>

------------------------------------------------------------------------------
(* The life of a child, and the completion loop.                           *)

Created(c) ==
  /\ pc[c] = "creating"
  /\ pc' = [pc EXCEPT ![c] = "turn"]
  /\ UNCHANGED <<tracker, buffer, waiters, inbox, told>>

CreationFails(c) ==
  /\ pc[c] = "creating"
  /\ Settle(c, "failed")

\* session.prompt throws: out of the loop, past the children that still run.
PromptFails(s) ==
  /\ pc[s] = "turn"
  /\ IF s \in Root
       THEN /\ pc' = [pc EXCEPT ![s] = "broken"]
            /\ UNCHANGED <<tracker, buffer, waiters, inbox, told>>
       ELSE Settle(s, "failed")

\* A turn ends, and the loop has more of the timed-out children to report.
NextMessage(s) ==
  /\ pc[s] = "turn"
  /\ inbox[s] # {}
  /\ LET c == First(inbox[s])
     IN  /\ told' = [told EXCEPT ![c] = Append(@, "failed")]
         /\ inbox' = [inbox EXCEPT ![s] = @ \ {c}]
  /\ UNCHANGED <<tracker, buffer, waiters, pc>>

\* A turn ends, and no message is left of those the loop was given.
AtLoopHead(s) == pc[s] = "turn" /\ inbox[s] = {}

TakeBuffered(s) ==
  /\ AtLoopHead(s)
  /\ active[s] > 0
  /\ buffer[s] # <<>>
  /\ LET r == Head(buffer[s])
     IN  told' = [told EXCEPT ![r[1]] = Append(@, r[2])]
  /\ buffer' = [buffer EXCEPT ![s] = Tail(@)]
  /\ UNCHANGED <<tracker, waiters, inbox, pc>>

\* Mutant: the loop waits for a new result without a look at the buffer.
WaitAnyway(s) ==
  /\ AtLoopHead(s)
  /\ active[s] > 0
  /\ waiters' = [waiters EXCEPT ![s] = @ + 1]
  /\ pc' = [pc EXCEPT ![s] = "waiting"]
  /\ UNCHANGED <<tracker, buffer, inbox, told>>

Wait(s) ==
  /\ AtLoopHead(s)
  /\ active[s] > 0
  /\ buffer[s] = <<>>
  /\ waiters' = [waiters EXCEPT ![s] = @ + 1]
  /\ pc' = [pc EXCEPT ![s] = "waiting"]
  /\ UNCHANGED <<tracker, buffer, inbox, told>>

\* Mutant: the parent is told of the timeout, the tracker is not.
TimeoutTellsOnly(s) ==
  /\ pc[s] = "waiting"
  /\ LET late == Running(s)
     IN  /\ told' = [told EXCEPT ![First(late)] = Append(@, "failed")]
         /\ inbox' = [inbox EXCEPT ![s] = late \ {First(late)}]
  /\ waiters' = [waiters EXCEPT ![s] = 0]
  /\ pc' = [pc EXCEPT ![s] = "turn"]
  /\ UNCHANGED <<tracker, buffer>>

\* Mutant: the children that time out still count as active.
TimeoutKeepsCount(s) ==
  /\ pc[s] = "waiting"
  /\ LET late == Running(s)
     IN  /\ status' = [c \in Spawn |-> IF c \in late THEN "failed" ELSE status[c]]
         /\ told' = [c \in Spawn |-> IF c \in late THEN <<"failed">> ELSE told[c]]
  /\ waiters' = [waiters EXCEPT ![s] = @ - 1]
  /\ pc' = [pc EXCEPT ![s] = "turn"]
  /\ UNCHANGED <<parent, free, active, buffer, inbox>>

\* Mutant: the resolver of the wait that timed out stays in the queue.
TimeoutLeavesWaiter(s) ==
  /\ pc[s] = "waiting"
  /\ LET late == Running(s)
     IN  /\ status' = [c \in Spawn |-> IF c \in late THEN "failed" ELSE status[c]]
         /\ active' = [active EXCEPT ![s] = @ - Cardinality(late)]
         /\ free' = [free EXCEPT ![s] = @ + Cardinality(late)]
         /\ buffer' = [buffer EXCEPT ![s] = @ \o Failures(late)]
         /\ told' = [told EXCEPT ![First(late)] = Append(@, "failed")]
         /\ inbox' = [inbox EXCEPT ![s] = late \ {First(late)}]
  /\ pc' = [pc EXCEPT ![s] = "turn"]
  /\ UNCHANGED <<parent, waiters>>

\* Every running child fails; there is one, since no result has arrived.  The
\* first failure goes to the resolver nobody awaits any more, the others to the
\* buffer, and all of them to the parent.
Timeout(s) ==
  /\ pc[s] = "waiting"
  /\ LET late == Running(s)
     IN  /\ status' = [c \in Spawn |-> IF c \in late THEN "failed" ELSE status[c]]
         /\ active' = [active EXCEPT ![s] = @ - Cardinality(late)]
         /\ free' = [free EXCEPT ![s] = @ + Cardinality(late)]
         /\ buffer' = [buffer EXCEPT ![s] = @ \o Tail(Failures(late))]
         /\ told' = [told EXCEPT ![First(late)] = Append(@, "failed")]
         /\ inbox' = [inbox EXCEPT ![s] = late \ {First(late)}]
  /\ waiters' = [waiters EXCEPT ![s] = @ - 1]
  /\ pc' = [pc EXCEPT ![s] = "turn"]
  /\ UNCHANGED parent

\* No child is active: the loop ends and the tracker is removed.
Finish(s) ==
  /\ AtLoopHead(s)
  /\ active[s] = 0
  /\ IF s \in Root
       THEN /\ pc' = [pc EXCEPT ![s] = "done"]
            /\ UNCHANGED <<tracker, buffer, waiters, inbox, told>>
       ELSE Settle(s, "success")

------------------------------------------------------------------------------

Init ==
  /\ parent = [c \in Spawn |-> NoSession]
  /\ status = [c \in Spawn |-> "none"]
  /\ free = [s \in Session |-> MaxConcurrent]
  /\ active = [s \in Session |-> 0]
  /\ buffer = [s \in Session |-> <<>>]
  /\ waiters = [s \in Session |-> 0]
  /\ inbox = [s \in Session |-> {}]
  /\ pc = [s \in Session |-> IF s \in Root THEN "turn" ELSE "none"]
  /\ told = [c \in Spawn |-> <<>>]

\* What the completion loop of s does when a turn of its agent ends.
Loop(s) == NextMessage(s) \/ TakeBuffered(s) \/ Wait(s) \/ Finish(s)

Next ==
  \/ \E s \in Session : SpawnChild(s)
  \/ \E s \in Looping : Loop(s) \/ Timeout(s) \/ PromptFails(s)
  \/ \E c \in Spawn : Created(c) \/ CreationFails(c)

Spec == Init /\ [][Next]_vars

\* The turns of a root end and its timers fire.  A child may hang for ever.
Fairness ==
  \A r \in Root \cap Looping : WF_vars(Loop(r)) /\ WF_vars(Timeout(r))

FairSpec == Spec /\ Fairness

------------------------------------------------------------------------------
(* Properties.                                                             *)

TypeOK ==
  /\ parent \in [Spawn -> Session \cup {NoSession}]
  /\ status \in [Spawn -> {"none", "running", "completed", "failed"}]
  /\ free \in [Session -> 0..MaxConcurrent]
  /\ active \in [Session -> 0..MaxConcurrent]
  /\ buffer \in [Session -> Seq(Report)]
  /\ waiters \in [Session -> {0, 1}]
  /\ inbox \in [Session -> SUBSET Spawn]
  /\ pc \in [Session -> {"none", "creating", "turn", "waiting"} \cup Ended]
  /\ told \in [Spawn -> Seq(Verdict)]

\* A slot is taken and a child counted active exactly as long as its record
\* says running: a child that timed out and settles later gives back nothing
\* a second time (complete, fail).
SlotsConserved ==
  \A s \in Session :
    /\ active[s] = Cardinality(Running(s))
    /\ free[s] = MaxConcurrent - active[s]

\* A parent is never told of one child both that it succeeded and that it
\* failed, whichever of a timeout and a late result comes first.
OneVerdict ==
  \A c \in Spawn : \A i, j \in DOMAIN told[c] : told[c][i] = told[c][j]

\* A session waits only when the result of every child that has settled was
\* told to it (nextCompletion looks into the buffer first).
NothingMissedWhileWaiting ==
  \A s \in Session : pc[s] = "waiting" =>
    \A c \in Children(s) : status[c] # "running" => told[c] # <<>>

\* A wait that is over leaves no resolver behind, which would swallow the next
\* result (awaitNextCompletionMessages after its timeout).
NoDanglingWaiter ==
  \A s \in Session : waiters[s] = IF pc[s] = "waiting" THEN 1 ELSE 0

\* Children that hang do not keep a chain's session from ending.
HungChildNeverBlocks == \A r \in Root \cap Looping : <>(pc[r] \in Ended)

\* When the loop of a session has ended, the results of all its children
\* were told to it.
EveryResultDelivered ==
  \A s \in Looping : pc[s] = "done" =>
    \A c \in Children(s) : told[c] # <<>>

=============================================================================
