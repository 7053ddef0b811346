------------------------------- MODULE LSClient -------------------------------
(***************************************************************************)
(* The library side of the log server's interface, lib/libc/sys/minix_ls.c:*)
(* what a process may pass to a call, and what reaches the server as a     *)
(* message.  The server is external here: it answers every request with OK *)
(* or an error (LSServer models it), except that the two checks main.c     *)
(* makes on the fields of a request are part of this module.               *)
(***************************************************************************)
EXTENDS Integers, Sequences, FiniteSets

CONSTANTS
  Char,                          \* characters of a logger name
  LS_IPC_LOGGER_MAX_NAME_LEN,    \* the name field of a request
  MAX_LOGGERS_LEN,               \* minix_ls_clear_logs: the list of names
  MaxList,                       \* bound: the longest list passed
  LS_MAX_MESSAGE_LEN,
  NameLengths, MessageLengths,   \* strlen of the names and messages passed
  Levels,                        \* the levels passed: any int
  NONE, OK, EINVAL, Errors       \* Errors: what the server may answer

Comma == ","

ASSUME ClientAssumption ==
  /\ Comma \notin Char
  /\ LS_IPC_LOGGER_MAX_NAME_LEN \in Nat \ {0, 1} /\ MAX_LOGGERS_LEN \in Nat \ {0}
  /\ MaxList \in Nat /\ LS_MAX_MESSAGE_LEN \in Nat
  /\ NameLengths \subseteq Nat /\ MessageLengths \subseteq Nat /\ Levels \subseteq Int
  /\ OK \notin Errors /\ EINVAL \notin Errors /\ EINVAL # OK
  /\ NONE \notin Errors \cup {OK, EINVAL}

VARIABLES
  call,         \* history: the call in progress or the last one
  p,            \* minix_ls_clear_logs: characters of the list consumed
  loggers_buf,  \* its buffer up to pb
  sent,         \* history: names of the LS_CLEAR_LOG requests of this call
  answers,      \* history: and their answers
  request,      \* history: the other request of this call, NONE if there was none
  result,       \* the variable ret of minix_ls_clear_logs
  ret           \* what the call returned; NONE while it lasts

vars == <<call, p, loggers_buf, sent, answers, request, result, ret>>

Answers == {OK} \cup Errors

\* The fields severity and message_len of a request are 16 bits wide.
FieldSize == 65536
Field == 0 .. FieldSize - 1
uint16(n) == n % FieldSize

\* The numbers that such a field can tell apart, signed or not.
FitsField == -(FieldSize \div 2) .. FieldSize - 1

Ops == {"start", "close", "set_level", "write"}

TypeOK ==
  /\ p \in 0 .. MaxList /\ Len(loggers_buf) < MAX_LOGGERS_LEN
  /\ \A i \in DOMAIN sent : Len(sent[i]) < LS_IPC_LOGGER_MAX_NAME_LEN
  /\ answers \in Seq(Answers) /\ Len(answers) = Len(sent)
  /\ \/ request \in {NONE, [op |-> "initialize"], [op |-> "clear_all"]}
     \/ request \in [op : Ops, name_len : 0 .. LS_IPC_LOGGER_MAX_NAME_LEN - 1,
                     message_len : Field, severity : Field]
  /\ result \in Answers /\ ret \in Answers \cup {EINVAL, NONE}

Lists == UNION {[1 .. n -> Char \cup {Comma}] : n \in 0 .. MaxList}

Idle == ret # NONE

Init ==
  /\ call = [op |-> "none"] /\ p = 0 /\ loggers_buf = <<>>
  /\ sent = <<>> /\ answers = <<>> /\ request = NONE
  /\ result = OK /\ ret = OK

-----------------------------------------------------------------------------

valid_severity(s) == s \in 0 .. 3

RequestTakenAnyLevel(m) ==
  /\ m.op = "write" => m.message_len <= LS_MAX_MESSAGE_LEN
  /\ m.op = "set_level" => valid_severity(m.severity)

\* The conditions main.c puts on the fields of a request.
RequestTaken(m) ==
  /\ m.op = "write" => m.message_len <= LS_MAX_MESSAGE_LEN
  /\ m.op \in {"write", "set_level"} => valid_severity(m.severity)

\* minix_ls_start_log, minix_ls_close_log, minix_ls_set_logger_level and
\* minix_ls_write_log; only the last has a message, only the last two a level.
NamedCall(op, len, message, level) ==
  /\ Idle
  /\ op # "write" => message = 0
  /\ op \notin {"write", "set_level"} => level = 0
  /\ call' = [op |-> op, len |-> len, message |-> message, level |-> level]
  /\ IF len >= LS_IPC_LOGGER_MAX_NAME_LEN - 1
     THEN request' = NONE /\ ret' = EINVAL
     ELSE LET m == [op |-> op, name_len |-> len,
                    message_len |-> uint16(message), severity |-> uint16(level)]
          IN  /\ request' = m
              /\ ret' \in IF RequestTaken(m) THEN Answers ELSE {EINVAL}
  /\ sent' = <<>> /\ answers' = <<>>
  /\ UNCHANGED <<p, loggers_buf, result>>

\* The names that the first pass of minix_ls_clear_logs measures: the parts
\* of the list between commas.
Commas(list) == {0, Len(list) + 1} \cup {i \in DOMAIN list : list[i] = Comma}

Adjacent(list, i, j) == i < j /\ \A k \in Commas(list) : k <= i \/ j <= k

Part(list, i, j) == SubSeq(list, i + 1, j - 1)

TooLongNameBeforeLast(list) ==
  \E i, j \in Commas(list) : /\ Adjacent(list, i, j) /\ j # Len(list) + 1
                             /\ Len(Part(list, i, j)) > LS_IPC_LOGGER_MAX_NAME_LEN - 1

TooLongName(list) ==
  \E i, j \in Commas(list) : /\ Adjacent(list, i, j)
                             /\ Len(Part(list, i, j)) > LS_IPC_LOGGER_MAX_NAME_LEN - 1

\* minix_ls_initialize, and minix_ls_clear_logs(NULL).
PlainCall(op) ==
  /\ Idle
  /\ call' = [op |-> op] /\ request' = [op |-> op]
  /\ ret' \in Answers
  /\ sent' = <<>> /\ answers' = <<>>
  /\ UNCHANGED <<p, loggers_buf, result>>

\* minix_ls_clear_logs up to its second loop.
minix_ls_clear_logs(list) ==
  /\ Idle
  /\ call' = [op |-> "clear", list |-> list]
  /\ ret' = IF Len(list) > MAX_LOGGERS_LEN - 1 \/ TooLongName(list) THEN EINVAL ELSE NONE
  /\ p' = 0 /\ loggers_buf' = <<>> /\ result' = OK
  /\ sent' = <<>> /\ answers' = <<>> /\ request' = NONE

\* A request of the second loop: strcpy of the buffer, wrap_syscall, and the
\* answer kept if it is an error.
RequestKeepsLast(a) ==
  /\ sent' = Append(sent, loggers_buf) /\ answers' = Append(answers, a)
  /\ loggers_buf' = <<>>
  /\ result' = a

Request(a) ==
  /\ sent' = Append(sent, loggers_buf) /\ answers' = Append(answers, a)
  /\ loggers_buf' = <<>>
  /\ result' = IF a # OK THEN a ELSE result

ClearStep ==
  /\ ret = NONE /\ p < Len(call.list)
  /\ p' = p + 1
  /\ IF call.list[p + 1] = Comma
     THEN \E a \in Answers : Request(a)
     ELSE /\ loggers_buf' = Append(loggers_buf, call.list[p + 1])
          /\ UNCHANGED <<sent, answers, result>>
  /\ UNCHANGED <<call, request, ret>>

\* A list whose last name is empty ends without a request.
ClearLastIfNamed ==
  /\ ret = NONE /\ p = Len(call.list)
  /\ IF loggers_buf = <<>> THEN UNCHANGED <<sent, answers, loggers_buf, result>>
                           ELSE \E a \in Answers : Request(a)
  /\ ret' = result'
  /\ UNCHANGED <<call, p, request>>

ClearLast ==
  /\ ret = NONE /\ p = Len(call.list)
  /\ \E a \in Answers : Request(a)
  /\ ret' = result'
  /\ UNCHANGED <<call, p, request>>

Next == \/ \E op \in Ops, len \in NameLengths, message \in MessageLengths, level \in Levels :
             NamedCall(op, len, message, level)
        \/ \E op \in {"initialize", "clear_all"} : PlainCall(op)
        \/ \E list \in Lists : minix_ls_clear_logs(list)
        \/ ClearStep \/ ClearLast

Spec == Init /\ [][Next]_vars

-----------------------------------------------------------------------------
(* Properties *)

Cleared == call.op = "clear" /\ Idle

\* How many names of a list end before its position j.
NamesBefore(list, j) == Cardinality({k \in Commas(list) : k < j})

(* A list of names is cleared name by name, in order and without omission,   *)
(* or refused as a whole before the first request is sent, and refused only  *)
(* for its length or the length of a name in it.                             *)
AllOrNothing ==
  Cleared =>
    IF sent = <<>>
    THEN ret = EINVAL /\ (Len(call.list) > MAX_LOGGERS_LEN - 1 \/ TooLongName(call.list))
    ELSE /\ Len(sent) = NamesBefore(call.list, Len(call.list) + 1)
         /\ \A i, j \in Commas(call.list) :
              Adjacent(call.list, i, j) => sent[NamesBefore(call.list, j)] = Part(call.list, i, j)

(* minix/ls.h lines 147-149: an error does not stop the clearing of the others *)
(* of the list, and the call returns an error if any of them had one.        *)
AnyErrorReported ==
  Cleared /\ sent # <<>> => (ret = OK <=> \A i \in DOMAIN answers : answers[i] = OK)

\* A name fits a message if its terminator does as well.
NameTooBig == call.len >= LS_IPC_LOGGER_MAX_NAME_LEN

Invalid == NameTooBig \/ call.message > LS_MAX_MESSAGE_LEN \/ call.level \notin 0 .. 3

AsPassed == [op |-> call.op, name_len |-> call.len,
             message_len |-> call.message, severity |-> call.level]

(* minix/ls.h lines 138-140, for numbers that fit a 16-bit field: a name, a  *)
(* message or a level out of range is answered with EINVAL, and any other    *)
(* call reaches the server with what its caller passed.  One call is refused *)
(* without need, that with the name that just fits (minix_ls.c line 50).  A  *)
(* number that does not fit its field is cut to 16 bits before anyone looks, *)
(* and nothing is promised for it.                                           *)
InvalidRefused ==
  Idle /\ call.op \in Ops =>
    (call.message \in Field /\ call.level \in FitsField =>
       /\ Invalid => ret = EINVAL
       /\ ret = EINVAL => Invalid \/ call.len = LS_IPC_LOGGER_MAX_NAME_LEN - 1
       /\ ret # EINVAL => request = AsPassed)

=============================================================================
