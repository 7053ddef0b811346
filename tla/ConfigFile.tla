------------------------------ MODULE ConfigFile ------------------------------
(***************************************************************************)
(* parse_config_file (servers/ls/config-parse.c) on a whole file: the      *)
(* parser of module ConfigParse fed by the reader of module Bufio, on any  *)
(* file at all.                                                            *)
(***************************************************************************)
EXTENDS ConfigParse, BufioHistory

\* What is neither of the two bytes that promote to a result is a symbol of the parser.
ASSUME FileAssumption == Byte \ {BYTE_FF, BYTE_FE} \subseteq Char

fvars == <<state, head, stale, new, ret, block, file, pos, buffer, off, size, res, got>>

FInit == Init /\ HInit

\* open, bufio_init and parse_init: any may fail.  EPERM is the bare -1 of open.
Opening ==
  /\ ret = NONE /\ res = "unread"
  /\ UNCHANGED <<state, head, stale, new, block, got>>
  /\ \/ ret' = "EPERM" /\ UNCHANGED <<file, pos, buffer, off, size, res>>
     \/ bufio_init /\ ret' \in IF res' = "null" THEN {"ENOMEM"} ELSE {NONE, "ENOMEM"}

\* BUFIO_ERR ends the file like BUFIO_EOF.
ReadingPastErrors ==
  /\ ret = NONE
  /\ NextChar
  /\ \/ res' \in {BUFIO_EOF, BUFIO_ERR} /\ EndOfFile
     \/ res' \in Char /\ ParseChar(res')

\* One turn of the loop at lines 503 to 544, with its end at lines 546 to 555.
Reading ==
  /\ ret = NONE
  /\ NextChar
  /\ \/ res' = BUFIO_EOF /\ EndOfFile
     \/ res' = BUFIO_ERR /\ ReadError
     \/ res' \in Char /\ ParseChar(res')

FNext == Opening \/ Reading

FSpec == FInit /\ [][FNext]_fvars

-----------------------------------------------------------------------------

(* A file is accepted only if the parser has been given all of it, or all up *)
(* to a byte that the reader takes for the end: no read error, chunk         *)
(* boundary or error of the parser leaves a part of the loggers configured   *)
(* with the result OK (lines 503 to 553).                                    *)
AcceptedWhole ==
  ret = "OK" => Len(got) >= Len(file) \/ file[Len(got) + 1] = BYTE_FF

=============================================================================
