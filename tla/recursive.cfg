SPECIFICATION FairSpec
CONSTANTS
  Plans <- MCPlans
  MayThrow = TRUE
INVARIANTS
  PrevReadable
  NothingOutlivesTheRun
  StackFitsThePlan
PROPERTIES
  ImplementsPlanRun
  Terminates
