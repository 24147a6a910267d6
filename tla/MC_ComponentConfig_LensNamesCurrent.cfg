\* Configs that differ only in their spyglass viewers, parsed twice.
CONSTANTS
  Regexes <- MCRegexes
  GoodRegexes <- MCGoodRegexes
  ViewerNames <- MCViewerNames
  NameRank <- MCNameRank
  OldViewers <- MCOldViewers
  Inputs <- LensOrderInputs
  MaxLoads = 2
  Nil = Nil
SPECIFICATION Spec
\* The process stops parsing after MaxLoads reads.
CHECK_DEADLOCK FALSE
INVARIANT LensNamesCurrent
