CONSTANTS
  MaxLayouts = 4
  MaxLate = 2
SPECIFICATION Spec
INVARIANT LabelIsTrueUnrotated
CHECK_DEADLOCK FALSE
