----------------------------- MODULE MCDriveRun -----------------------------
(* The policies a run is explored with: the default of the command line    *)
(* (the driver commits, and commits the task files at the end) with a      *)
(* backend that may commit; the same, going on after a partial, with one   *)
(* that does not; and a run without commits that retries contradictions.   *)
EXTENDS DriveRun, TLC

AnyCli == Permutations(Cli)

Default ==
  [source |-> TRUE, state |-> TRUE, continues |-> FALSE, commits |-> TRUE,
   retries |-> FALSE]
GoesOn == [Default EXCEPT !.continues = TRUE, !.commits = FALSE]
NoCommits == [Default EXCEPT !.source = FALSE, !.state = FALSE, !.retries = TRUE]

Some == {[policy |-> Default, mishaps |-> 2], [policy |-> GoesOn, mishaps |-> 1],
         [policy |-> NoCommits, mishaps |-> 1]}
=============================================================================
