SPECIFICATION FairSpec
CONSTANTS
  None = None
  Null = Null
  Kind <- MCKind
  Bound <- MCBound
  Default <- MCDefault
  Options <- MCOptions
  Texts <- MCTexts
  Shells <- MCShells
  Files <- MCFiles
  Reread <- MCReread
  Focus <- MCFocus
  MaxEdits = 1
  Tabs = {t1, t2}
  Provider <- MCProvider
  Local = "lmstudio"
  Paid = "openai"
  Listing <- MCListing
  Tried <- MCTried
  Windows = {w1, w2}
  Requests = {r1}
  MaxList = 1
  MaxMoves = 2
  MaxFetches = 2
  Callers = {c1, c2}
  MaxLogins = 2
  MaxRefreshes = 1
INVARIANTS
  KeysOutliveRestart
  FailureIsForgotten
  FileIsRedeemable
  PendingIsServed
PROPERTIES
  SaveIsTheEdit
  SidebarFollows
  PollingEnds
CHECK_DEADLOCK FALSE
