SPECIFICATION Spec
CONSTANTS
  Menus <- MCAutoMenus
CHECK_DEADLOCK FALSE
INVARIANT AutoFanoutAsDocumented
