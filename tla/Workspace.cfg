\* One procedure that is not wrapped; MAX_RETRIES is 3 in the program.
SPECIFICATION FairSpec
CONSTANTS
  Me = me
  Loaders = {me, other}
  Wrapped = FALSE
  MaxWrites = 2
  MaxRetries = 1
  Escaping = FALSE
  MaxPatches = 1
  Shipped <- MCShipped
  Saves <- MCSaves
  Patches <- MCPatches
INVARIANTS
  KillsOnlyItsOwn
PROPERTIES
  DescribedIsTrue
  PatchKeepsTheRest
  AbortedEnds
