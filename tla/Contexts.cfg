CONSTANTS
  N = 4
  Packages = {P, Q}
  Names = {s}
  Signatures = {int}
  MaxStatements <- Statements
SYMMETRY Symmetry
SPECIFICATION Spec
INVARIANTS
  TypeOK
  PackageKept
  AnswerStays
  NoRedeclaration
  MeansDeclarationUnmixed
CHECK_DEADLOCK FALSE
