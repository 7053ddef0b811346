-------------------------------- MODULE Bufio --------------------------------
(***************************************************************************)
(* The buffered reader of the configuration file (servers/ls/bufio.c):     *)
(* bufio_init reads the first chunk and every call of bufio_next_char      *)
(* returns a character, BUFIO_EOF or BUFIO_ERR.  Its caller, the loop of   *)
(* parse_config_file, stops at the first of the last two.                  *)
(***************************************************************************)
EXTENDS Integers, Sequences

CONSTANTS
  Byte,              \* what a file may contain
  BYTE_FF, BYTE_FE,  \* the two bytes that promote to BUFIO_EOF and BUFIO_ERR
  BUFFER_SIZE,
  BUFIO_EOF, BUFIO_ERR

ASSUME SizeAssumption == BUFFER_SIZE \in Nat \ {0}

ASSUME ResultAssumption ==
  /\ BUFIO_EOF # BUFIO_ERR
  /\ {BUFIO_EOF, BUFIO_ERR} \cap {"unread", "ready", "null"} = {}
  /\ {BUFIO_EOF, BUFIO_ERR, "unread", "ready", "null"} \cap Byte = {}
  /\ BYTE_FF # BYTE_FE

VARIABLES
  file,    \* the bytes of the file; external
  pos,     \* the offset of the descriptor; external
  buffer,  \* bufio_t.buffer: what was read, a shorter read leaves older bytes
  off,     \* bufio_t.off
  size,    \* bufio_t.size
  res      \* the last result; "unread", "ready" or "null" around bufio_init

readerVars == <<file, pos, buffer, off, size, res>>

Result == Byte \cup {"unread", "ready", "null", BUFIO_EOF, BUFIO_ERR}

ReaderTypeOK ==
  /\ file \in Seq(Byte) /\ buffer \in Seq(Byte)
  /\ pos \in 0 .. Len(file)
  /\ size \in 0 .. BUFFER_SIZE /\ off \in 0 .. BUFFER_SIZE
  /\ Len(buffer) <= BUFFER_SIZE
  /\ res \in Result

ReaderInit ==
  /\ file \in Seq(Byte) /\ pos = 0
  /\ buffer = <<>> /\ off = 0 /\ size = 0
  /\ res = "unread"

-----------------------------------------------------------------------------

\* read(fd, buffer, BUFFER_SIZE) of a regular file: as many bytes as are left.
nread == IF Len(file) - pos < BUFFER_SIZE THEN Len(file) - pos ELSE BUFFER_SIZE

Refilled == [i \in 1 .. (IF nread > Len(buffer) THEN nread ELSE Len(buffer)) |->
               IF i <= nread THEN file[pos + i] ELSE buffer[i]]

\* The int a char promotes to: the two highest bytes collide with the results.
promote(byte) ==
  IF byte = BYTE_FF THEN BUFIO_EOF ELSE IF byte = BYTE_FE THEN BUFIO_ERR ELSE byte

bufio_init ==
  /\ res = "unread"
  /\ \/ /\ buffer' = Refilled /\ pos' = pos + nread
        /\ off' = 0 /\ size' = nread
        /\ res' = "ready"
     \/ res' = "null" /\ UNCHANGED <<pos, buffer, off, size>>   \* the read failed
  /\ UNCHANGED file

\* The bytes of the buffer are at 1 .. BUFFER_SIZE: ctx->buffer[ctx->off++].
Deliver == off' = off + 1 /\ res' = promote(buffer[off + 1]) /\ UNCHANGED <<pos, buffer, size>>

RefillKeepsOffset ==
  \/ /\ buffer' = Refilled /\ pos' = pos + nread /\ size' = nread
     /\ off' = off /\ res' = promote(Refilled[1])
  \/ off' = 0 /\ size' = 0 /\ res' = BUFIO_ERR /\ UNCHANGED <<pos, buffer>>

Refill ==
  \/ /\ buffer' = Refilled /\ pos' = pos + nread /\ size' = nread
     /\ off' = 1 /\ res' = promote(Refilled[1])
  \/ off' = 0 /\ size' = 0 /\ res' = BUFIO_ERR /\ UNCHANGED <<pos, buffer>>

Running == res \notin {"unread", "null", BUFIO_EOF, BUFIO_ERR}

\* Every chunk is taken for the last.
NextCharOneChunk ==
  /\ Running
  /\ \/ off >= size /\ res' = BUFIO_EOF /\ UNCHANGED <<pos, buffer, off, size>>
     \/ off < size /\ Deliver
  /\ UNCHANGED file

bufio_next_char ==
  /\ Running
  /\ \/ /\ off >= size /\ size < BUFFER_SIZE
        /\ res' = BUFIO_EOF
        /\ UNCHANGED <<pos, buffer, off, size>>
     \/ off >= size /\ size = BUFFER_SIZE /\ Refill
     \/ off < size /\ Deliver
  /\ UNCHANGED file

ReaderNext == bufio_init \/ bufio_next_char

ReaderSpec == ReaderInit /\ [][ReaderNext]_readerVars

=============================================================================
