\* One extraction after the other; the document is parsed again in between.
SPECIFICATION Spec
CONSTANTS
  None = None
  r1 = r1
  r2 = r2
  v1 = v1
  v2 = v2
  dA = dA
  dB = dB
  dC = dC
  s = s
  t = t
  e1 = e1
  e2 = e2
  Version = {v1, v2}
  Document = {dA, dB, dC}
  VersionOf <- Versions
  Claim = {1, 2, 3}
  Statement = {s, t}
  StatementOf <- Statements
  Entity = {e1, e2}
  ClaimsOf <- ClaimTable
  EntitiesOf <- EntityTable
  Runs = {r1}
  MaxExtractions = 2
  MaxReindexes = 2
INVARIANT
  OldResultsAreSuperseded
CHECK_DEADLOCK FALSE
