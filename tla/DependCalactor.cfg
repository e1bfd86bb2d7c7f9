CONSTANTS
  main = main
  f = f
  g = g
  v = v
  a = a
  b = b
  u = u
  c1 = c1
  c2 = c2
  s = s
  Functions = {main, f, g}
  Globals = {v}
  Uniforms = {u}
  Structs = {s}
  Entry = main
  NoStruct = NoStruct
  Symbols = {a, b, c1, c2}
  Decl <- Declarations
  Name <- OwnNames
  Sources <- AllSources
SPECIFICATION Spec
INVARIANTS
  TypeOK
  AllDependencies
  EmittedOncePerName
PROPERTY CalcReturns
CHECK_DEADLOCK FALSE
