--------------------------- MODULE MCDriveLaunch ---------------------------
(* Instances of DriveLaunch: the tool and the command line launch one and   *)
(* the same run of a plan and the tool another, or each a run of its own.   *)
EXTENDS DriveLaunch, TLC
CONSTANTS tool, again, cli, cli2, run, other, third
RunShared == (tool :> run) @@ (cli :> run) @@ (again :> other)
RunsApart == (tool :> run) @@ (cli :> other) @@ (cli2 :> third)
ASSUME LaunchAssumption
=============================================================================
