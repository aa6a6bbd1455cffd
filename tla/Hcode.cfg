\* One page, the terminal, the terminal UI, and a runtime that shuts down.
SPECIFICATION FairSpec
CONSTANTS
  Pages = {p1}
  MaxEvents = 3
  MaxTurns = 2
  MaxCalls = 1
  MaxPersist = 1
INVARIANTS
  IdleMeansIdle
  ShownOnceInOrder
PROPERTIES
  EventsArrive
  ExitEnds
CHECK_DEADLOCK FALSE
