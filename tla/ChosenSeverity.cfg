SPECIFICATION Spec
CONSTANTS
  Client = {p, q}
  Logger = {la}
  File = {fa}
  la = la
  lb = lb
  fa = fa
  fb = fb
  ProcName = {n}
  NONE = NONE
  OPEN_MAX = 2
  MaxLines = 1
  Request <- RequestsLogging
  Config <- ConfigOne
INVARIANT ChosenSeverityApplies
SYMMETRY ClientSymmetry
CHECK_DEADLOCK FALSE
