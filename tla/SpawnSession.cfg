SPECIFICATION FairSpec
CONSTANTS
  chain = chain
  cosmo = cosmo
  none = none
  Root <- Roots
  Interactive <- Interactives
  NoSession <- none
  MaxConcurrent = 2
  MaxDepth = 2
  MaxSpawns = 4
INVARIANTS
  SlotsConserved
  OneVerdict
  NothingMissedWhileWaiting
PROPERTY
  HungChildNeverBlocks
CHECK_DEADLOCK FALSE
