CONSTANTS
  buffer_len = 4
  MaxItems = 4
  MaxMessage = 2
  Clock <- Dates
  NONE = NONE
SPECIFICATION Spec
INVARIANTS TypeOK LineAsFormatted
CHECK_DEADLOCK FALSE
