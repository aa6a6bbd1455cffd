\* The scheduled path, two submissions racing two runs of one agent, any shutdown or crash.
SPECIFICATION CrashSpec
CONSTANTS
  Agents = {a1}
  Runs = {r1, r2}
  Subs = {s1, s2}
  MaxIdx = 2
  NoAgent = NoAgent
  NoRun = NoRun
  OldRun = OldRun
SYMMETRY Symmetry
INVARIANTS
  CursorCoversOnlyAcked
PROPERTIES
  OnlyFailuresStrand
  KeepsInbox
