CONSTANTS
  Chunk = {c1, c2}
  Query <- MCQuery
  MaxRounds = 2
  MaxEvidence = 2
  MaxAttempts = 2
  MaxCalls = 3

SPECIFICATION Spec

INVARIANTS
  AnsweredTasksAreClosed
  AnswersFollowTheReports

PROPERTIES
  SettledAnalysesStay
  EveryCallEnds

CHECK_DEADLOCK FALSE
