CONSTANTS
  Char = {"x", "y"}
  LS_IPC_LOGGER_MAX_NAME_LEN = 3
  MAX_LOGGERS_LEN = 5
  MaxList = 5
  LS_MAX_MESSAGE_LEN = 2048
  NameLengths = {0, 1, 2, 3}
  MessageLengths = {0, 2048, 2049, 65535, 65536, 67584}
  Levels <- SomeLevels
  NONE = NONE
  OK = OK
  EINVAL = EINVAL
  Errors = {e1, e2}
SPECIFICATION Spec
INVARIANTS TypeOK AllOrNothing AnyErrorReported InvalidRefused
