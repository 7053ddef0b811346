------------------------------ MODULE ConfigText ------------------------------
(***************************************************************************)
(* The files parse_config_file is meant for: the ones README.md describes, *)
(* a list of logger definitions laid out as in its example, and such files *)
(* with one byte wrong or missing.                                         *)
(***************************************************************************)
EXTENDS ConfigFile, SequencesExt

CONSTANTS
  Names,        \* logger names
  Lines,        \* option lines: pairs of a name and a value
  MaxLines,     \* bound: option lines of a definition alone in its file
  SecondLines,  \* bound: option lines of the second of two definitions
  FirstLines,   \* the lines of the first of two definitions
  SlipLines,    \* bound: option lines of a definition with a slip
  Slip          \* the bytes that may stand in the place of another

VARIABLE defs   \* history: the definitions the file is meant to hold

tvars == <<fvars, defs>>

Definitions(n) == [name : Names, lines : UNION {[1 .. k -> Lines] : k \in 0 .. n}]

FirstDefinition == [name : Names, lines : FirstLines]

\* A definition as text: the example of README.md lines 52 to 58.
Rendered(def) ==
  Keyword \o <<" ", def.name, " ", "{", NL>>
    \o FlattenSeq([i \in 1 .. Len(def.lines) |->
                     <<" ", def.lines[i][1], " ", "=", " ", def.lines[i][2], NL>>])
    \o <<"}", NL>>

FileOf(ds) == FlattenSeq([i \in 1 .. Len(ds) |-> Rendered(ds[i])])

Slips(f) == {ReplaceAt(f, i, b) : i \in DOMAIN f, b \in Slip} \cup {RemoveAt(f, i) : i \in DOMAIN f}

TInit ==
  /\ Init
  /\ \/ /\ defs \in {<<d>> : d \in Definitions(MaxLines)}
                      \cup {<<c, d>> : c \in FirstDefinition, d \in Definitions(SecondLines)}
        /\ file = FileOf(defs)
     \/ /\ defs \in {<<d>> : d \in Definitions(SlipLines)}
        /\ file \in Slips(FileOf(defs))
  /\ pos = 0 /\ buffer = <<>> /\ off = 0 /\ size = 0 /\ res = "unread" /\ got = <<>>

TNext == FNext /\ UNCHANGED defs

TSpec == TInit /\ [][TNext]_tvars /\ WF_tvars(TNext)

-----------------------------------------------------------------------------

Given(def) == {def.lines[i][1] : i \in 1 .. Len(def.lines)}

\* The value of the last line for an option.
Setting(def, option) ==
  LET i == CHOOSE i \in 1 .. Len(def.lines) :
             /\ def.lines[i][1] = option
             /\ \A j \in i + 1 .. Len(def.lines) : def.lines[j][1] # option
  IN  def.lines[i][2]

\* The rules of README.md lines 63 to 79 for one definition.
Documented(def) ==
  /\ {"format", "destination"} \subseteq Given(def)
  /\ IF Setting(def, "destination") = "file" THEN "filename" \in Given(def)
     ELSE Given(def) \cap {"filename", "append"} = {}

AllDocumented == /\ \A i \in 1 .. Len(defs) : Documented(defs[i])
                 /\ \A i, j \in 1 .. Len(defs) : defs[i].name = defs[j].name => i = j

Laid == file = FileOf(defs)

(* parse_config_file against the documentation: a file laid out as README.md *)
(* says is accepted only if its definitions follow the rules, however the    *)
(* chunks of the reader cut it, and the list then has its loggers in order.  *)
(* One that follows the rules is refused for two reasons only: it fills its  *)
(* last chunk, so that the reader gives a character more (bufio.c line 48),  *)
(* or the walk of is_logger_valid goes on into memory of an earlier parse    *)
(* and meets one of its names there.                                         *)
ParsedAsDocumented ==
  Laid =>
    /\ ret = "OK" => AllDocumented /\ head = [i \in 1 .. Len(defs) |-> <<defs[i].name>>]
    /\ ret = "EINVAL" => \/ ~AllDocumented
                         \/ WholeChunks
                         \/ \E i \in 2 .. Len(defs) : <<defs[i].name>> \in stale.names

Returned == ret \notin {NONE, "stuck"}

(* parse_config_file returns: reader and parser reach the end of every file  *)
(* or an error, as long as the tail of the newest entry, which nobody wrote, *)
(* does not lead round a cycle.                                              *)
ParsingEnds == []~stale.endless => <>Returned

=============================================================================
