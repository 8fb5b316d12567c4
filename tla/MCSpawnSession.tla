--------------------------- MODULE MCSpawnSession ---------------------------
(* Two roots for TLC: a session of a chain and an interactive one, sharing  *)
(* the children that may be spawned.                                       *)
EXTENDS SpawnSession

CONSTANTS chain, cosmo, none

Roots == {chain, cosmo}
Interactives == {cosmo}

=============================================================================
