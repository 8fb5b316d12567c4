---------------------------- MODULE MCTaskStore ----------------------------
(* Callers of one or more processes for TLC: two processes with a caller   *)
(* each, or an agent's process with two callers beside another process.    *)
EXTENDS TaskStore

CONSTANTS cli, chat, drive, none

Pair == {cli, chat}
Trio == {cli, chat, drive}
Doomed == {cli}
OwnProcess == [c \in Caller |-> c]

=============================================================================
