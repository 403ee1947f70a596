\* Every shape of payload, inline and offloaded, read page by page.
SPECIFICATION Spec
CONSTANTS
  Payloads <- Answers
  MaxInline = 7
  MaxTotal = 12
  Preview = 4
  Cap = 6
  PerPaper = 2
  MaxListed = 1
  InlinePassages = 2
  InlinePapers = 2
  Wrapper = 1
  HandleSize = 2
  IdSize = 1
  PageFrame = 1
  FragmentFrame = 2
  LabelSize = 1
  CitationSize = 1
  Envelope = 1
  Asks = {3, 5, 7}
  MaxTools = 3
  MaxCalls = 5
INVARIANTS
  PagesAreLossless
  ReadItemsAreCitable
  OmittedItemsAreReachable
  ToolTokensAreBounded
CHECK_DEADLOCK FALSE
