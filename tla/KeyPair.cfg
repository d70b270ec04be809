SPECIFICATION Spec
CONSTANTS
  A1 = A1
  A2 = A2
  B1 = B1
  Pa1 = Pa1
  Pa2 = Pa2
  Pb1 = Pb1
  Pb2 = Pb2
  NoHalf = NoHalf
  Private = {A1, A2, B1}
  Public = {Pa1, Pa2, Pb1, Pb2}
  Loaded = {A1, A2, B1}
  KeyOf <- MCKeyOf
  MaxDepth = 3
  MaxItem = 1
  MaxSteps = 5
SYMMETRY SymmetricHalves
CHECK_DEADLOCK FALSE
INVARIANTS
  TypeOK
  SiblingsMatch
  HalvesAgree
