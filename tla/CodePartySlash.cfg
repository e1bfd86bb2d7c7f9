CONSTANTS
  Texts <- AllTexts
  MaxLen = 4
SPECIFICATION Spec
INVARIANT PartsAreTheText
CHECK_DEADLOCK FALSE
