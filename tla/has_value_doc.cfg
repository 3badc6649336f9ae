SPECIFICATION Spec
CONSTANTS
  Plans <- StoragePlans
  MayThrow = FALSE
  BlindLayouts = {"one_to_one"}
INVARIANT HasValueReportsTheNode
