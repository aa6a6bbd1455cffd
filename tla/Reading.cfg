SPECIFICATION Spec
CONSTANTS
  Vocabulary <- MCVocabulary
  Told <- MCTold
  File <- MCFile
  MaxLines = 4
  MaxAsks = 2
  MaxTold = 2
  Sizes = {0, 2, 3}
  Limits <- MCLimits
  Spoken = {"x", "y"}
  MaxSignals = 3
INVARIANTS
  RequestIsAccepted
  SameConversation
  StoredAsWritten
  AnswerIsWhatWasSaid
PROPERTIES
  EarlierCallsStand
CHECK_DEADLOCK FALSE
