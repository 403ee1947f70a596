\* The parser is changed, and changed back.
SPECIFICATION Spec
CONSTANTS
  r1 = r1
  r2 = r2
  Parser = {"poppler", "pymupdf"}
  Structurer = {1, 2}
  Chunker = {1, 2}
  Embedder = {1, 2}
  Configs <- ParserUpgrade
  Runs = {r1}
  MaxParses = 3
  MaxCalls = 3
INVARIANT
  StructureMatchesItsHash
CHECK_DEADLOCK FALSE
