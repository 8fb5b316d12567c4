------------------------- MODULE MCDurableScheduler -------------------------
(* Graphs and policies on which TLC checks the durable scheduler.          *)
EXTENDS DurableScheduler, TLC

\* Two independent steps and one that needs the second.
ForkDeps == 1 :> {} @@ 2 :> {} @@ 3 :> {2}
ForkAttempts == 1 :> 2 @@ 2 :> 1 @@ 3 :> 1

\* Processes differ in nothing but their holderId.
AnyHolder == Permutations(Holder)

\* Two steps, one after the other.
ChainDeps == 1 :> {} @@ 2 :> {1}
OneAttempt == [s \in Step |-> 1]
TwoAttempts == [s \in Step |-> 2]

=============================================================================
