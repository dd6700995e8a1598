CONSTANTS
  MaxLayouts = 4
  MaxLate = 2
SPECIFICATION Spec
PROPERTY SelectsThatLayout
CHECK_DEADLOCK FALSE
