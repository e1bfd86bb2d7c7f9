CONSTANTS
  N = 3
  Packages = {P, Q}
  Names = {s}
  Signatures = {int}
  MaxStatements <- Statements
SPECIFICATION Spec
INVARIANT TokenMeansDeclaration
CHECK_DEADLOCK FALSE
