\* A serving process: is all input taken, provided runs end?
SPECIFICATION ServingSpec
CONSTANTS
  Agents = {a1}
  Runs = {r1}
  Subs = {s1, s2}
  MaxIdx = 2
  NoAgent = NoAgent
  NoRun = NoRun
  OldRun = OldRun
PROPERTIES
  InputIsTaken
\* An agent with nothing scheduled is at rest.
CHECK_DEADLOCK FALSE
