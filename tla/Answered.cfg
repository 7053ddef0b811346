SPECIFICATION Spec
CONSTANTS
  Client = {p, q}
  Logger = {la}
  File = {fa}
  la = la
  lb = lb
  fa = fa
  fb = fb
  ProcName = {n}
  NONE = NONE
  OPEN_MAX = 1
  MaxLines = 1
  Config <- ConfigOne
  Request <- RequestsAnswered
PROPERTIES EveryCallAnswered ServesFairly
CHECK_DEADLOCK FALSE
