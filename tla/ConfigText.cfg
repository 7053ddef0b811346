CONSTANTS
  Char <- AllSymbols
  Byte <- AllBytes
  BYTE_FF = "0xff"
  BYTE_FE = "0xfe"
  LS_MAX_LOGGER_NAME_LEN = 2
  MAX_VALUE_LEN = 3
  LS_MAX_LOGGER_FORMAT_LEN = 2
  LS_MAX_LOGGER_LOGFILE_PATH_LEN = 2
  MaxLoggers = 2
  StaleName <- OldNames
  NONE = NONE
  BUFFER_SIZE = 6
  BUFIO_EOF = BUFIO_EOF
  BUFIO_ERR = BUFIO_ERR
  Names = {"x", "X"}
  Lines <- SomeLines
  MaxLines = 4
  SecondLines = 3
  FirstLines <- StdoutLines
  SlipLines = 2
  Slip <- SomeBytes
SPECIFICATION TSpec
INVARIANTS TypeOK BuffersFit EntryComplete EntryFromItsBlock NamesUnique CharactersInOrder EofExplained ParsedAsDocumented AcceptedWhole
PROPERTIES ParsingEnds
CHECK_DEADLOCK FALSE
