\* One delegation at a time: crashes, raising workers, reruns, and a graph
\* with sound and defective parts.
SPECIFICATION FairSpec
CONSTANTS
  UnitCount = 6
  DependsOn <- MixedDeps
  MaxAttempts = 2
  MaxWorkers = 2
  Runs = {r1}
  MaxDelegations = 4
INVARIANTS
  ChargedAttemptsWithinBudget
  RunningUnitsSeeTheirDependencies
  TaskStatusMatchesUnits
  SettledRowsAreCoherent
PROPERTIES
  ImplementsOutcomes
  EveryDelegationEnds
CHECK_DEADLOCK FALSE
