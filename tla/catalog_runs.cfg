\* Two runs on two paths whose files may be replaced.
SPECIFICATION Spec
CONSTANTS
  None = None
  r1 = r1
  r2 = r2
  bA = bA
  bB = bB
  bC = bC
  t = t
  bD = bD
  doi = doi
  arxiv = arxiv
  title = title
  Path = {1, 2}
  Binary = {bA, bB, bC, bD}
  Text = {t}
  TextOf <- Texts
  Name = {doi, arxiv, title}
  NamesOf <- NameTable
  Disks <- Directories
  Arriving = {bB, bD}
  Runs = {r1, r2}
  Forced = {}
  MaxChanges = 1
  MaxIngests = 2
  MaxIds = 3
SYMMETRY RunSymmetry
INVARIANTS
  CompletedScansAreTruthful
  CopiesShareAVersion
  PapersAreToldApart
PROPERTY
  FilesKeepTheirVersion
CHECK_DEADLOCK FALSE
