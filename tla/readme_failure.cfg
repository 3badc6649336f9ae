SPECIFICATION FairSpec
CONSTANTS
  Plans <- MCPlans
  MayThrow = FALSE
INVARIANT FailureStopsOnlyItsSubtree
