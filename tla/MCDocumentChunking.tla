-------------------------- MODULE MCDocumentChunking --------------------------
(* Instances of DocumentChunking for TLC: short documents of blocks of every   *)
(* kind, with a target of 4 and a hard limit of 5 tokens.                      *)
EXTENDS DocumentChunking

Text(sentences) ==
  [level |-> 0, title |-> "none", heading |-> FALSE, element |-> "none",
   label |-> "unnumbered", mentions |-> {}, brief |-> FALSE, cue |-> FALSE,
   sentences |-> sentences]
Heading(level, title) ==
  [Text(<<1>>) EXCEPT !.level = level, !.title = title, !.heading = TRUE,
                      !.brief = TRUE]
Element(type, label, size) ==
  [Text(<<size>>) EXCEPT !.element = type, !.label = label,
                         !.mentions = {label} \ {"unnumbered"}]

Figure == Element("figure", "Figure 1", 4)
Equation == Element("equation", "unnumbered", 3)
Picture == [Element("figure", "unnumbered", 1) EXCEPT !.sentences = <<>>]
Reference == [Text(<<2>>) EXCEPT !.mentions = {"Figure 1"}]
Where == [Text(<<1, 1>>) EXCEPT !.cue = TRUE, !.brief = TRUE]
Long == Text(<<3, 1, 7>>)

AllBlocks == {Heading(1, "A"), Heading(2, "B"), Heading(3, "B"), Figure, Equation,
              Picture, Reference, Where, Long}
=============================================================================
