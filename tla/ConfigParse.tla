----------------------------- MODULE ConfigParse -----------------------------
(***************************************************************************)
(* The parser of /etc/logs.conf (servers/ls/config-parse.c), driven symbol *)
(* by symbol.  parse_advance is a pure function of the parser state; the   *)
(* actions are the iterations of parse_config_file's loop, for whatever    *)
(* symbols the file may hold.                                              *)
(*                                                                         *)
(* A symbol is a run of characters that the parser treats alike: a word of *)
(* lower case letters, a word that also has capitals, a blank, or one      *)
(* other character.  Words need not be separated, so the keyword is the    *)
(* two words "log" "ger", and a buffer holds a sequence of symbols.  The   *)
(* length limits count symbols.                                            *)
(*                                                                         *)
(* Nobody writes the tail of the newest entry of the list.  In fresh       *)
(* memory it is NULL; in memory that an earlier parse used it leads to the *)
(* entries of that parse, or round a cycle.  Module LoggerList has the     *)
(* heap; here what lies behind the newest entry is chosen with the entry.  *)
(***************************************************************************)
EXTENDS Integers, Sequences

CONSTANTS
  Char,                          \* symbols the file may contain
  LS_MAX_LOGGER_NAME_LEN, MAX_VALUE_LEN,
  LS_MAX_LOGGER_FORMAT_LEN, LS_MAX_LOGGER_LOGFILE_PATH_LEN,
  MaxLoggers,                    \* bound: the file ends after this many loggers
  StaleName,                     \* names in the entries an earlier parse left in memory
  NONE

Lower == {"log", "ger", "destination", "severity", "format", "filename", "append", "file",
          "stdout", "stderr", "trace", "debug", "info", "warn", "true", "false", "x"}

Upper == {"X"}

NL == "newline"

Keyword == <<"log", "ger">>

Option == {"destination", "severity", "format", "filename", "append"}

Kind == {"LOGGER_KEYWORD", "LOGGER_NAME", "OPEN_BRACE", "OPEN_BRACE_NEWLINE",
         "CONFIG_OPTION_NAME", "CONFIG_OPTION_EQUALS", "CONFIG_VALUE"}

\* The did_set_* fields; did_set_type belongs to the option destination.
Flag == Option \ {"severity"}

ASSUME CharAssumption == Char \subseteq Lower \cup Upper \cup {" ", NL, "{", "}", "=", "#"}

\* A buffer must take the terminator and, for a name, what the assertion demands.
ASSUME LimitAssumption ==
  /\ LS_MAX_LOGGER_NAME_LEN \in Nat \ {0} /\ MAX_VALUE_LEN \in Nat \ {0}
  /\ LS_MAX_LOGGER_FORMAT_LEN \in Nat \ {0} /\ LS_MAX_LOGGER_LOGFILE_PATH_LEN \in Nat \ {0}
  /\ LS_MAX_LOGGER_NAME_LEN <= MAX_VALUE_LEN

ASSUME NoneAssumption ==
  NONE \notin Seq(Char) /\ NONE \notin {"OK", "EINVAL", "ENOMEM", "EIO", "EPERM", "stuck"}

VARIABLES
  state,   \* parser_state_t
  head,    \* names of the loggers in the list, oldest first
  stale,   \* what a walk meets behind the newest of them
  new,     \* the entry this iteration added to the list, or NONE
  ret,     \* what parse_config_file returns, NONE while it runs, or "stuck"
  block    \* history: the values given by complete lines since the last logger name

vars == <<state, head, stale, new, ret, block>>

-----------------------------------------------------------------------------
(* parse_advance *)

is_white(ch) == ch = " "

is_allowed_in_logger_name(ch) == ch \in Lower \cup Upper

is_allowed_in_config_option_name(ch) == ch \in Lower

\* memset to zero: LS_DESTINATION_FILE, LS_SEV_TRACE, empty strings, FALSE.
ZeroLogger(name) == [name |-> name, dest_type |-> "file", severity |-> "trace",
                     dest_filename |-> <<>>, format |-> <<>>, append |-> "false"]

\* current_logger is not initialised here, but no entry is made before a name resets it.
parse_init ==
  [kind |-> "LOGGER_KEYWORD", consume_offset |-> 0, curr_value |-> <<>>, option_name |-> <<>>,
   did_set |-> {}, current_logger |-> ZeroLogger(<<>>)]

is_whitespace_invariant(st) ==
  /\ st.kind \in {"LOGGER_NAME", "CONFIG_OPTION_NAME", "CONFIG_VALUE"} => st.curr_value = <<>>
  /\ st.kind = "LOGGER_KEYWORD" => st.consume_offset = 0

is_newline_invariant(st) ==
  \/ st.kind \in {"OPEN_BRACE", "LOGGER_KEYWORD"} /\ st.consume_offset = 0
  \/ st.kind = "CONFIG_OPTION_NAME" /\ st.curr_value = <<>>

\* A step of the parser: what it tells parse_config_file, and its new state.
PARSE_OK(st)         == [kind |-> "PARSE_OK", state |-> st]
PARSE_ERROR(st)      == [kind |-> "PARSE_ERROR", state |-> st]
PARSE_GOT_LOGGER(st) == [kind |-> "PARSE_GOT_LOGGER", state |-> st]

ConsumptionPastEnd(st, literal, ch, next) ==
  IF literal[st.consume_offset + 1] # ch
  THEN PARSE_ERROR(st)
  ELSE IF st.consume_offset + 1 > Len(literal)
       THEN PARSE_OK([st EXCEPT !.kind = next, !.consume_offset = 0, !.curr_value = <<>>])
       ELSE PARSE_OK([st EXCEPT !.consume_offset = @ + 1])

parse_consumption(st, literal, ch, next) ==
  IF literal[st.consume_offset + 1] # ch
  THEN PARSE_ERROR(st)
  ELSE IF st.consume_offset + 1 >= Len(literal)
       THEN PARSE_OK([st EXCEPT !.kind = next, !.consume_offset = 0, !.curr_value = <<>>])
       ELSE PARSE_OK([st EXCEPT !.consume_offset = @ + 1])

trim(s) ==
  LET n == CHOOSE k \in 0 .. Len(s) : /\ \A i \in 1 .. k : is_white(s[i])
                                      /\ k = Len(s) \/ ~is_white(s[k + 1])
  IN  SubSeq(s, n + 1, Len(s))

\* The options that take one of a few words are stored as that word.
Destination == {"file", "stdout", "stderr"}
Severity    == {"trace", "debug", "info", "warn"}
Boolean     == {"true", "false"}

OneOf(value, words) == Len(value) = 1 /\ value[1] \in words

\* set_logger_dest_type, set_logger_severity, set_logger_append, and the two lengths.
Acceptable(option, value) ==
  CASE option = "destination" -> OneOf(value, Destination)
    [] option = "severity"    -> OneOf(value, Severity)
    [] option = "append"      -> OneOf(value, Boolean)
    [] option = "format"      -> Len(value) <= LS_MAX_LOGGER_FORMAT_LEN - 1
    [] option = "filename"    -> Len(value) <= LS_MAX_LOGGER_LOGFILE_PATH_LEN - 1

Stored(l, option, value) ==
  CASE option = "destination" -> [l EXCEPT !.dest_type = value[1]]
    [] option = "severity"    -> [l EXCEPT !.severity = value[1]]
    [] option = "append"      -> [l EXCEPT !.append = value[1]]
    [] option = "format"      -> [l EXCEPT !.format = value]
    [] option = "filename"    -> [l EXCEPT !.dest_filename = value]

\* There is no flag for the severity, which has a default.
FlagsOf(option) == IF option = "severity" THEN {} ELSE {option}

\* At the end of a line.  The flag is set even when the value is refused.
set_logger_option(st) ==
  LET name  == trim(st.option_name)
      value == trim(st.curr_value)
      st1   == [st EXCEPT !.kind = "CONFIG_OPTION_NAME"]
      st2   == [st1 EXCEPT !.did_set = @ \cup FlagsOf(name[1])]
  IN  IF ~OneOf(name, Option) THEN PARSE_ERROR(st1)
      ELSE IF ~Acceptable(name[1], value) THEN PARSE_ERROR(st2)
      ELSE PARSE_OK([st2 EXCEPT !.current_logger = Stored(@, name[1], value),
                                !.curr_value = <<>>, !.consume_offset = 0])

AdvanceKeyword(st, ch) ==
  parse_consumption([st EXCEPT !.did_set = {}], Keyword, ch, "LOGGER_NAME")

NameStateKeepsLogger(st, ch) ==
  IF is_allowed_in_logger_name(ch) /\ Len(st.curr_value) < LS_MAX_LOGGER_NAME_LEN - 1
  THEN PARSE_OK([st EXCEPT !.curr_value = Append(@, ch)])
  ELSE IF is_white(ch) \/ ch = NL
  THEN PARSE_OK([st EXCEPT !.current_logger.name = st.curr_value,
                           !.kind = "OPEN_BRACE", !.consume_offset = 0])
  ELSE PARSE_ERROR(st)

NameStateFillsBuffer(st, ch) ==
  IF is_allowed_in_logger_name(ch) /\ Len(st.curr_value) < LS_MAX_LOGGER_NAME_LEN
  THEN PARSE_OK([st EXCEPT !.curr_value = Append(@, ch)])
  ELSE IF is_white(ch) \/ ch = NL
  THEN PARSE_OK([st EXCEPT !.current_logger = ZeroLogger(st.curr_value),
                           !.kind = "OPEN_BRACE", !.consume_offset = 0])
  ELSE PARSE_ERROR(st)

AdvanceName(st, ch) ==
  IF is_allowed_in_logger_name(ch) /\ Len(st.curr_value) < LS_MAX_LOGGER_NAME_LEN - 1
  THEN PARSE_OK([st EXCEPT !.curr_value = Append(@, ch)])
  ELSE IF is_white(ch) \/ ch = NL
  THEN PARSE_OK([st EXCEPT !.current_logger = ZeroLogger(st.curr_value),
                           !.kind = "OPEN_BRACE", !.consume_offset = 0])
  ELSE PARSE_ERROR(st)

AdvanceOptionName(st, ch) ==
  IF is_allowed_in_config_option_name(ch) /\ Len(st.curr_value) < MAX_VALUE_LEN - 1
  THEN PARSE_OK([st EXCEPT !.curr_value = Append(@, ch)])
  ELSE IF ch = "}"
  THEN PARSE_GOT_LOGGER([st EXCEPT !.kind = "LOGGER_KEYWORD", !.consume_offset = 0])
  ELSE IF (ch = "=" \/ is_white(ch)) /\ st.curr_value # <<>>
  THEN PARSE_OK([st EXCEPT !.kind = IF ch = "=" THEN "CONFIG_VALUE" ELSE "CONFIG_OPTION_EQUALS",
                           !.option_name = st.curr_value,
                           !.consume_offset = 0, !.curr_value = <<>>])
  ELSE PARSE_ERROR(st)

AdvanceValue(st, ch) ==
  IF ch = NL THEN set_logger_option(st)
  ELSE IF Len(st.curr_value) < MAX_VALUE_LEN - 1
  THEN PARSE_OK([st EXCEPT !.curr_value = Append(@, ch)])
  ELSE PARSE_ERROR(st)

parse_advance(st, ch) ==
  IF \/ is_white(ch) /\ is_whitespace_invariant(st)
     \/ ch = NL /\ is_newline_invariant(st)
  THEN PARSE_OK(st)
  ELSE CASE st.kind = "LOGGER_KEYWORD"       -> AdvanceKeyword(st, ch)
         [] st.kind = "OPEN_BRACE"           -> parse_consumption(st, <<"{">>, ch, "OPEN_BRACE_NEWLINE")
         [] st.kind = "OPEN_BRACE_NEWLINE"   -> parse_consumption(st, <<NL>>, ch, "CONFIG_OPTION_NAME")
         [] st.kind = "CONFIG_OPTION_EQUALS" -> parse_consumption(st, <<"=">>, ch, "CONFIG_VALUE")
         [] st.kind = "LOGGER_NAME"          -> AdvanceName(st, ch)
         [] st.kind = "CONFIG_OPTION_NAME"   -> AdvanceOptionName(st, ch)
         [] st.kind = "CONFIG_VALUE"         -> AdvanceValue(st, ch)

-----------------------------------------------------------------------------
(* parse_config_file: the loop over the characters of the file *)

\* The tail of the newest entry: NULL, stale entries and then NULL, or a cycle.
Nothing == [names |-> {}, endless |-> FALSE]

Behind == [names : SUBSET StaleName, endless : BOOLEAN]

\* The names a walk from head meets.
Met == {head[i] : i \in 1 .. Len(head)} \cup stale.names

ValidButForNames(st, names) ==
  LET l == st.current_logger IN
  /\ {"format", "destination"} \subseteq st.did_set
  /\ st.did_set \cap {"filename", "append"} # {} => l.dest_type = "file"
  /\ l.dest_type = "file" => "filename" \in st.did_set

ValidWithAnyAppend(st, names) ==
  LET l == st.current_logger IN
  /\ l.name \notin names
  /\ {"format", "destination"} \subseteq st.did_set
  /\ "filename" \in st.did_set => l.dest_type = "file"
  /\ l.dest_type = "file" => "filename" \in st.did_set

\* The walk ends at the first entry of that name, or with the list.
WalkEnds(st) == st.current_logger.name \in Met \/ ~stale.endless

is_logger_valid(st, names) ==
  LET l == st.current_logger IN
  /\ l.name \notin names
  /\ {"format", "destination"} \subseteq st.did_set
  /\ st.did_set \cap {"filename", "append"} # {} => l.dest_type = "file"
  /\ l.dest_type = "file" => "filename" \in st.did_set

NoValues == [o \in Option |-> NONE]

Init ==
  /\ state = parse_init /\ head = <<>> /\ stale = Nothing /\ new = NONE /\ ret = NONE
  /\ block = NoValues

\* The history: a name starts a block, a line that sets an option adds to it.
Recorded(ch, r) ==
  IF state.kind = "LOGGER_NAME" /\ r.state.kind = "OPEN_BRACE" THEN NoValues
  ELSE IF state.kind = "CONFIG_VALUE" /\ ch = NL /\ r.kind = "PARSE_OK"
       THEN [block EXCEPT ![state.option_name[1]] = state.curr_value]
       ELSE block

\* dealloc_loggers: the loop that frees the list walks it as well.
Dealloc(error) == ret' = IF stale.endless THEN "stuck" ELSE error

\* One character.  An entry is a copy of current_logger; malloc may fail.
ParseChar(ch) ==
  /\ ret = NONE
  /\ LET r == parse_advance(state, ch) IN
     /\ state' = r.state
     /\ block' = Recorded(ch, r)
     /\ \/ r.kind = "PARSE_OK" /\ new' = NONE /\ UNCHANGED <<head, stale, ret>>
        \/ r.kind = "PARSE_ERROR" /\ ret' = "EINVAL" /\ new' = NONE /\ UNCHANGED <<head, stale>>
        \/ /\ r.kind = "PARSE_GOT_LOGGER" /\ ~WalkEnds(r.state)
           /\ ret' = "stuck" /\ new' = NONE /\ UNCHANGED <<head, stale>>
        \/ /\ r.kind = "PARSE_GOT_LOGGER" /\ WalkEnds(r.state) /\ ~is_logger_valid(r.state, Met)
           /\ Dealloc("EINVAL") /\ new' = NONE /\ UNCHANGED <<head, stale>>
        \/ /\ r.kind = "PARSE_GOT_LOGGER" /\ WalkEnds(r.state) /\ is_logger_valid(r.state, Met)
           /\ \/ Dealloc("ENOMEM") /\ new' = NONE /\ UNCHANGED <<head, stale>>
              \/ /\ new' = r.state.current_logger
                 /\ head' = Append(head, r.state.current_logger.name)
                 /\ stale' \in Behind
                 /\ UNCHANGED ret

EndIgnored == ret = NONE /\ new' = NONE /\ UNCHANGED <<state, head, stale, ret, block>>

\* BUFIO_EOF, in whatever state the parser is, and BUFIO_ERR.
EndOfFile == ret = NONE /\ ret' = "OK" /\ new' = NONE /\ UNCHANGED <<state, head, stale, block>>

ReadError == ret = NONE /\ Dealloc("EIO") /\ new' = NONE /\ UNCHANGED <<state, head, stale, block>>

Next == (\E ch \in Char : Len(head) < MaxLoggers /\ ParseChar(ch)) \/ EndOfFile \/ ReadError

Spec == Init /\ [][Next]_vars

-----------------------------------------------------------------------------
(* Properties *)

Text == Seq(Char)

Logger == [name : Text, dest_type : Destination, severity : Severity,
           dest_filename : Text, format : Text, append : Boolean]

ParserState == [kind : Kind, consume_offset : 0 .. 1, curr_value : Text, option_name : Text,
                did_set : SUBSET Flag, current_logger : Logger]

TypeOK ==
  /\ state \in ParserState
  /\ head \in Seq(Text) /\ stale \in Behind /\ new \in Logger \cup {NONE}
  /\ ret \in {NONE, "OK", "EINVAL", "ENOMEM", "EIO", "EPERM", "stuck"}
  /\ block \in [Option -> Text \cup {NONE}]

LoggerFits(l) ==
  /\ Len(l.name) < LS_MAX_LOGGER_NAME_LEN
  /\ Len(l.format) < LS_MAX_LOGGER_FORMAT_LEN
  /\ Len(l.dest_filename) < LS_MAX_LOGGER_LOGFILE_PATH_LEN

(* The two assertions (lines 352 and 383) never fire and every buffer has   *)
(* room for the terminator, although a brace may end a logger in the middle *)
(* of an option and leave an offset up to MAX_VALUE_LEN - 1 behind.         *)
BuffersFit ==
  /\ Len(state.curr_value) < MAX_VALUE_LEN /\ Len(state.option_name) < MAX_VALUE_LEN
  /\ state.kind = "LOGGER_NAME" => Len(state.curr_value) < LS_MAX_LOGGER_NAME_LEN
  /\ LoggerFits(state.current_logger)

(* An entry follows README.md lines 63 to 73 by the lines of its own block: *)
(* there is one for format and one for destination, one for filename if and *)
(* only if the destination is a file, one for append only then.  The flags  *)
(* did_set_*, which are reset while the next keyword is read (lines         *)
(* 322-325), never carry an option over from the block before.  A line may  *)
(* have no value after its equals sign: the code asks for the line only.    *)
EntryComplete ==
  new # NONE =>
    /\ block["format"] # NONE /\ block["destination"] # NONE
    /\ block["filename"] # NONE <=> new.dest_type = "file"
    /\ block["append"] # NONE => new.dest_type = "file"

Word(option, default) == IF block[option] = NONE THEN default ELSE block[option][1]

(* Every field of an entry is what the last line of its own block for that   *)
(* option says, or the default when there is none: severity trace, append    *)
(* false (set_logger_option, and the memset at line 349).                    *)
EntryFromItsBlock ==
  new # NONE =>
    /\ new.format = block["format"]
    /\ new.dest_filename = IF block["filename"] = NONE THEN <<>> ELSE block["filename"]
    /\ new.dest_type = Word("destination", "file")
    /\ new.severity = Word("severity", "trace")
    /\ new.append = Word("append", "false")

(* README.md line 40: a logger's name uniquely identifies it, so no two      *)
(* entries of the list have the same one (is_logger_valid, lines 431-438).   *)
NamesUnique == \A i, j \in 1 .. Len(head) : head[i] = head[j] => i = j

=============================================================================
