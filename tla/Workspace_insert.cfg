\* Patches whose insertions follow their anchor.
SPECIFICATION Spec
CONSTANTS
  Me = me
  Loaders = {me, other}
  Wrapped = FALSE
  MaxWrites = 1
  MaxRetries = 0
  Escaping = FALSE
  MaxPatches = 1
  Shipped <- MCShipped
  Saves <- MCSaves
  Patches <- MCPatches
PROPERTIES
  PatchInsertsAfter
