SPECIFICATION Spec
CONSTANTS
  NoConn = NoConn
  RawConns = {r1, r2}
  VxiConns = {v1}
  INPUT_LENGTH = 2
  MaxPieces = 3
  MaxWrites = 1
  DROPS = TRUE
SYMMETRY ConnSymmetry
INVARIANTS
  TypeOK
  RawLinesIntact
  RawGetsOwnAnswers
