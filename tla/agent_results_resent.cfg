\* A resumed run delivers old results again.
SPECIFICATION Spec
CONSTANTS
  r1 = r1
  r2 = r2
  Runs <- OneRun
  MaxSteps = 3
  MaxToolCalls = 3
  RequireTool = FALSE
  CallsPerTurn = 1
  MaxInvocations = 2
INVARIANT
  NoResultSentTwice
