CONSTANTS
  Cell = {p1, p2, p3, p4, p5}
  Name = {a, b, c}
  MaxLoggers = 3
  NULL = NULL
  JUNK = JUNK
SPECIFICATION Spec
INVARIANTS FoundIsConfigured
SYMMETRY Symmetry
CHECK_DEADLOCK FALSE
