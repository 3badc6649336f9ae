SPECIFICATION Spec
CONSTANTS
  Menus <- MCMenus
CHECK_DEADLOCK FALSE
INVARIANTS
  ChildRangesArePreorder
  AcceptedPlansAreWellFormed
  PathSlotsAreDistinct
  ReadersHaveASource
  ConsumerReadsLast
  ValidatorsAgree
