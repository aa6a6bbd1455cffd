\* Three agents, so that a fork of a fork is possible, and two rows each.
SPECIFICATION Spec
CONSTANTS
  MaxAgents = 3
  MaxSaid = 2
PROPERTIES
  DeletedStaysDeleted
  ForkIsACopy
