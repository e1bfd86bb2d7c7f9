CONSTANTS
  Texts <- LongTexts
  MaxLen = 5
SPECIFICATION Spec
INVARIANTS
  TypeOK
  CutIntoSegments
  LineOfPart
CHECK_DEADLOCK FALSE
