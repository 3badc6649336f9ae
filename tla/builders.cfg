SPECIFICATION BothSpec
CONSTANTS
  Writings <- MCWritings
  StartForms <- TreeForms
  MaxExtras = 3
INVARIANTS
  TreesAreAsSpelled
  CopiesNeedAnLvalue
PROPERTIES
  UsesDisturbNothingElse
  AdviceEndsInACall
