SPECIFICATION Spec
CONSTANTS
  Client = {p, q}
  Logger = {la, lb}
  File = {fa, fb}
  la = la
  lb = lb
  fa = fa
  fb = fb
  ProcName = {n}
  NONE = NONE
  OPEN_MAX = 2
  MaxLines = 1
  Request <- RequestsOwnership
  Config <- ConfigPair
INVARIANT OneBeliever
SYMMETRY ClientSymmetry
CHECK_DEADLOCK FALSE
