\* Two clients, two artifacts of one content, files damaged once.
SPECIFICATION StoreSpec
CONSTANTS
  a1 = a1
  a2 = a2
  c1 = c1
  p1 = p1
  p2 = p2
  Artifact = {a1, a2}
  Content = {c1}
  ContentOf <- Twins
  Clients = {p1, p2}
  Retention = 1
  MaxTime = 3
  MaxDamage = 1
  MaxServiceCalls = 4
SYMMETRY ClientSymmetry
INVARIANTS
  UndamagedArtifactsStayReadable
  ReturnedArtifactsAreIntact
  ExpiredRowsAreOverdue
CHECK_DEADLOCK FALSE
