SPECIFICATION FairSpec
CONSTANTS
  Plans <- MCPlans
  MayThrow = TRUE
PROPERTY NestedLifetimes
