CONSTANTS
  Null = Null
  p = p
  m = m
  t = t
  g = g
  x = x
  s1 = s1
  s2 = s2
  a = a
  b = b
  c = c
  Nodes = {1, 2, 3, 4, 5, 6}
  Packages = {p}
  Items = {a, b, c}
  Meshes = {m}
  Techniques = {t}
  Programs = {g}
  Textures = {x}
  SceneFiles = {s1, s2}
  Contents <- SomeContents
  Sounds <- SomeSounds
  SceneTexts <- SomeTexts
  MaxCalls = 2
SPECIFICATION Spec
INVARIANTS
  TypeOK
  SharedUnlessAskedInVain
  FoundWhereItStands
  MapAgreesWithTree
  SceneMirrorsText
  CrashOnlyIf
  InfoAnswerRight
PROPERTIES
  GetSceneReturns
CHECK_DEADLOCK FALSE
