\* The loop has a claim inherited from an earlier process.
SPECIFICATION MCSpec
CONSTANTS
  Agents = {a1, a2}
  Driver = Driver
  Never = Never
  Inherited = {a1}
  Delays = {0, 4}
  Retry = 2
  MaxIdle = 3
  None = None
  Orders <- MCOrders
  MaxAgents = 3
  MaxReports = 2
  Starters = {p1, p2}
  Names = {1, 2, 3}
  Shipped = {1, 3}
  MaxAdded = 2
  Commands <- MCCommands
  Depth = 3
  MaxChanges = 1
  Absent = Absent
  Tree <- MCTree
  OnDisk <- MCOnDisk
  Asked <- MCAsked
  Wanted <- MCWanted
  MaxMoved = 2
  Keys = {x, Blank}
  Blank = Blank
  MaxText = 4
INVARIANTS
  SleepsNoLongerThanDue
  EachOnce
  RulesReachTheAgent
  ServedAlike
PROPERTIES
  DueIsClaimed
  AwaitedEnds
  ReloadIsRestart
  DraftSurvives
\* After shutdown nothing needs to happen, and the bounds of the others end.
CHECK_DEADLOCK FALSE
