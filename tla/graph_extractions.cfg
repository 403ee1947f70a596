\* Two extractions at once, beside re-indexing.
SPECIFICATION Spec
CONSTANTS
  None = None
  r1 = r1
  r2 = r2
  v1 = v1
  v2 = v2
  dA = dA
  dB = dB
  dC = dC
  s = s
  t = t
  e1 = e1
  e2 = e2
  Version = {v1, v2}
  Document = {dA, dB, dC}
  VersionOf <- Versions
  Claim = {1, 2, 3}
  Statement = {s, t}
  StatementOf <- Statements
  Entity = {e1, e2}
  ClaimsOf <- ClaimTable
  EntitiesOf <- EntityTable
  Runs = {r1, r2}
  MaxExtractions = 3
  MaxReindexes = 2
SYMMETRY RunSymmetry
INVARIANTS
  HistoryIsOneChain
  ReturnedExtractionsAreWhole
  ProfilesBearTheirHash
CHECK_DEADLOCK FALSE
