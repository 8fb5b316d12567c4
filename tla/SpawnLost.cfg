SPECIFICATION Spec
CONSTANTS
  chain = chain
  cosmo = cosmo
  none = none
  Root <- Roots
  Interactive <- Interactives
  NoSession <- none
  MaxConcurrent = 2
  MaxDepth = 2
  MaxSpawns = 3
INVARIANT
  EveryResultDelivered
CHECK_DEADLOCK FALSE
