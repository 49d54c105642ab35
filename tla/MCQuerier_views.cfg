SPECIFICATION Spec
CONSTANTS
  r1 = r1
  r2 = r2
  a = a
  b = b
  k1 = k1
  k2 = k2
  RulePaths = {r1, r2}
  LinkPaths = {l1, l2, l3}
  ResPaths = {a, b}
  LinkSpecs <- MCLinkSpecs
  ResSpecs <- MCResSpecs
  Keys = {k1, k2}
  Undecodable = Undecodable
  MaxBad = 1
  Backends = {"filesystem", "git"}
  Queries <- MCQueries
  ViewModes = {"OverlaidView", "AllLinkedResView"}
SYMMETRY Symmetry
INVARIANTS
  TypeOK
  OverlaidCorrect
  WholeIndex
  AllLinkedCorrect
CHECK_DEADLOCK FALSE
