\* The scheduled path with crashes and edits at any time.
SPECIFICATION DurableSpec
CONSTANTS
  Agents = {a1}
  Runs = {r1, r2}
  Subs = {s1}
  MaxIdx = 2
  NoAgent = NoAgent
  NoRun = NoRun
  OldRun = OldRun
SYMMETRY Symmetry
INVARIANTS
  OneRunPerAgent
  ClearedStaysCleared
PROPERTIES
  OnlyCrashesLeaveClaims
