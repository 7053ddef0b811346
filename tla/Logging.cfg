SPECIFICATION Spec
CONSTANTS
  Client = {p, q}
  Logger = {la}
  File = {fa}
  la = la
  lb = lb
  fa = fa
  fb = fb
  ProcName = {n1, n2}
  NONE = NONE
  OPEN_MAX = 2
  MaxLines = 2
  Config <- ConfigOne
  Request <- RequestsLogging
INVARIANTS TypeOK DefaultThreshold ClearedIsEmpty
PROPERTIES LinesFromOwner OpenLogOnlyGrows ServesContract
SYMMETRY ClientSymmetry
CHECK_DEADLOCK FALSE
