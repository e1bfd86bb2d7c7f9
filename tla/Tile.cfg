CONSTANTS
  Level = 3
  Width <- Powers
SPECIFICATION Spec
INVARIANTS
  Tiling
  TailFits
  IndicesCoverKept
PROPERTY SplitReturns
