\* Two runs, overlapping or not: crashes, failures and changed configurations.
SPECIFICATION Spec
CONSTANTS
  r1 = r1
  r2 = r2
  Parser = {"poppler", "pymupdf"}
  Structurer = {1, 2}
  Chunker = {1, 2}
  Embedder = {1, 2}
  Configs <- Upgrades
  Runs = {r1, r2}
  MaxParses = 3
  MaxCalls = 3
SYMMETRY RunSymmetry
ACTION_CONSTRAINT UpgradesBetweenRuns
INVARIANTS
  IndexedStatusIsTrue
  EveryStageFindsItsInput
  SettledRunsDoNoWork
  NothingOutlivesItsSource
  OverlappingRunsConverge
CHECK_DEADLOCK FALSE
