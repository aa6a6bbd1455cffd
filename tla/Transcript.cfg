\* Turns with abort and submissions during a marker; edits between turns, or edits,
\* compactions and crashes at any moment.
SPECIFICATION Spec
CONSTANTS
  MaxBorn = 4
  PatientBorn = 5
  MaxLoose = 0
  PatientLoose = 1
  MaxCalls = 1
  Interjections = 2
  MarkerKinds = {"call", "plain", "html"}
INVARIANTS
  BubblesMatchRows
PROPERTIES
  NothingElseParts
  SurvivorsUnchanged
