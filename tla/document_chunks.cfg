\* Every document of up to five blocks.
SPECIFICATION Spec
CONSTANTS
  Blocks <- AllBlocks
  Titles = {"A", "B", "none"}
  Labels = {"Figure 1"}
  NoLabel = "unnumbered"
  FrontMatter = "Front Matter"
  Target = 4
  HardMax = 5
  MinFill = 2
  MaxBlocks = 5
INVARIANTS
  SectionsFormATree
  ChunksKeepTheText
  ChunksAreBounded
  ElementsStayTogether
CHECK_DEADLOCK FALSE
