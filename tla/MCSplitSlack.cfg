SPECIFICATION FairSpec
CONSTANTS
  Texts <- MCTexts
  Limit = 9
  MaxParts = 3
  Base = 3
  Frame = 1
INVARIANTS
  ContentPreserved
  MessagesFit
  NoEmptyPart
  OverflowFillsParts
PROPERTY SplittingEnds
