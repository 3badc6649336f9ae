SPECIFICATION FairSpec
CONSTANTS
  Plans <- MCPlans
  MayThrow = TRUE
INVARIANTS
  FramesStayReserved
  FramesAreAPath
  PayloadsMatchFrames
  BookkeepingIsTruthful
  PrevReadable
  NothingOutlivesTheRun
PROPERTIES
  ImplementsPlanRun
  Terminates
