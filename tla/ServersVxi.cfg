SPECIFICATION Spec
CONSTANTS
  NoConn = NoConn
  RawConns = {r1}
  VxiConns = {v1, v2}
  INPUT_LENGTH = 2
  MaxPieces = 2
  MaxWrites = 2
  DROPS = TRUE
SYMMETRY ConnSymmetry
INVARIANTS
  VxiAnswersKept
  ControlOnlyWithLink
PROPERTY ImplementsAccess
