\* The pairs of a call and its result, as agent-protocol.md states them, among operators
\* who edit between turns only.
SPECIFICATION Spec
CONSTANTS
  MaxBorn = 0
  PatientBorn = 4
  MaxLoose = 0
  PatientLoose = 0
  MaxCalls = 1
  Interjections = 2
  MarkerKinds = {"call", "plain"}
INVARIANTS
  PairsWhole
