\* One run at a time: crashes, time-outs, expiry and resumption.
SPECIFICATION FairSpec
CONSTANTS
  r1 = r1
  r2 = r2
  Runs <- OneRun
  MaxSteps = 4
  MaxToolCalls = 4
  RequireTool = TRUE
  CallsPerTurn = 2
  MaxInvocations = 3
INVARIANTS
  ResumableCheckpoint
  NoCallLeftUnanswered
  SettledCallsNeverRun
  ToolCallsWithinBudget
  SessionFollowsInteractions
PROPERTIES
  ImplementsConversation
  EveryRunEnds
