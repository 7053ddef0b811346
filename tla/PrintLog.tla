------------------------------- MODULE PrintLog -------------------------------
(***************************************************************************)
(* print_log and put_time of servers/ls/log.c: one line of a log put       *)
(* together from the format of the logger.                                 *)
(*                                                                         *)
(* A character is a pair, so that every text can be told from every other: *)
(* its tag says which text it comes from.  A number of the date is one     *)
(* character.  The clock driver is external: it gives a date or fails.     *)
(***************************************************************************)
EXTENDS Integers, SequencesExt

CONSTANTS
  buffer_len,   \* requests.c passes LOGBUF_LEN - 1
  MaxItems,     \* bound: escapes and plain characters in a format
  MaxMessage,   \* bound: the longest message
  Clock,        \* dates the clock driver may give: [tm_mon, tm_mday]
  NONE          \* no date; also "has not returned yet"

ASSUME PrintAssumption ==
  /\ buffer_len \in Nat /\ MaxItems \in Nat /\ MaxMessage \in Nat
  /\ \A d \in Clock : d.tm_mon \in 0 .. 11 /\ d.tm_mday \in 1 .. 31

VARIABLES
  items,      \* history: what the writer of the format meant
  dangling,   \* history: and whether a lone '%' ends it
  msg_len, clock,
  format,     \* what is left of the format
  buffer,     \* the characters before pb
  ret

vars == <<items, dangling, msg_len, clock, format, buffer, ret>>

Item == {"l", "t", "n", "m", "%", "x", "%x"}

\* The first n elements of s, or all of them.
Cut(s, n) == SubSeq(s, 1, IF n < Len(s) THEN n ELSE Len(s))

Text(tag, len) == [i \in 1 .. len |-> <<tag, i>>]

Message == Text("message", msg_len)
severity_to_str == Text("severity", 1)
procname == Text("procname", 1)
newline == <<"newline", 1>>
unknown_time == Text("unknown-time", 2)

\* mini_snprintf of the date.
PrintedTime == <<<<"mon", clock.tm_mon + 1>>, <<"mday", clock.tm_mday + 1>>>>

time == IF clock = NONE THEN unknown_time ELSE PrintedTime

Written(it) == IF it = "x" THEN <<"x">> ELSE IF it = "%x" THEN <<"%", "x">> ELSE <<"%", it>>

FormatOf(its, lone) == FlattenSeq([i \in DOMAIN its |-> Written(its[i])]) \o (IF lone THEN <<"%">> ELSE <<>>)

TypeOK ==
  /\ items \in BoundedSeq(Item, MaxItems) /\ dangling \in BOOLEAN
  /\ msg_len \in 0 .. MaxMessage /\ clock \in Clock \cup {NONE}
  /\ \A i \in DOMAIN format : format[i] \in Item
  /\ Len(buffer) <= buffer_len
  /\ ret \in {NONE} \cup 0 .. Len(buffer)

Init ==
  /\ items \in BoundedSeq(Item, MaxItems) /\ dangling \in BOOLEAN
  /\ msg_len \in 0 .. MaxMessage /\ clock \in Clock \cup {NONE}
  /\ format = FormatOf(items, dangling)
  /\ buffer = <<>> /\ ret = NONE

-----------------------------------------------------------------------------

\* PUTC for each character of s: as many as there is room for, and on the first
\* that does not fit the function returns.
PutPastEnd(s, short) ==
  LET room == buffer_len + 1 - Len(buffer)
  IN  /\ buffer' = buffer \o Cut(s, room)
      /\ ret' = IF Len(s) > room THEN short ELSE NONE

Put(s, short) ==
  LET room == buffer_len - Len(buffer)
  IN  /\ buffer' = buffer \o Cut(s, room)
      /\ ret' = IF Len(s) > room THEN short ELSE NONE

\* The macro's second argument: the characters in the buffer, which is full then.
\* For the severity it is pb - pend, and pb has reached pend.
Full == buffer_len
pb_minus_pend == 0

\* put_time returns the place it has come to, and print_log goes on from there.
put_time == Put(time, NONE)

EscapeSwallowsUnknown(c) ==
  CASE c = "l" -> Put(severity_to_str, pb_minus_pend)
    [] c = "t" -> put_time
    [] c = "n" -> Put(procname, Full)
    [] c = "m" -> Put(Message, Full)
    [] c = "%" -> Put(<<<<"%", 1>>>>, Full)
    [] OTHER   -> Put(<<<<c, 1>>>>, Full)

Escape(c) ==
  CASE c = "l" -> Put(severity_to_str, pb_minus_pend)
    [] c = "t" -> put_time
    [] c = "n" -> Put(procname, Full)
    [] c = "m" -> Put(Message, Full)
    [] c = "%" -> Put(<<<<"%", 1>>>>, Full)
    [] OTHER   -> Put(<<<<"%", 1>>, <<c, 1>>>>, Full)

\* One turn of the loop, or what follows it.
print_log ==
  /\ ret = NONE
  /\ \/ /\ format # <<>> /\ Head(format) # "%"
        /\ Put(<<<<Head(format), 1>>>>, Full)
        /\ format' = Tail(format)
     \/ /\ format = <<"%">>
        /\ ret' = Len(buffer) /\ format' = <<>> /\ UNCHANGED buffer
     \/ /\ Len(format) > 1 /\ Head(format) = "%"
        /\ Escape(format[2])
        /\ format' = SubSeq(format, 3, Len(format))
     \/ /\ format = <<>>
        /\ buffer' = buffer \o (IF Len(buffer) < buffer_len THEN <<newline>> ELSE <<>>)
        /\ ret' = Len(buffer') /\ UNCHANGED format
  /\ UNCHANGED <<items, dangling, msg_len, clock>>

Spec == Init /\ [][print_log]_vars

-----------------------------------------------------------------------------
(* Properties *)

\* The date the clock gives: tm_mon counts from 0, tm_mday from 1.
CurrentTime == <<<<"mon", clock.tm_mon + 1>>, <<"mday", clock.tm_mday>>>>

\* What README.md lines 75 to 79 say of an escape.
Meaning(it) ==
  CASE it = "l" -> severity_to_str
    [] it = "t" -> IF clock = NONE THEN unknown_time ELSE CurrentTime
    [] it = "n" -> procname
    [] it = "m" -> Message
    [] it = "x" -> <<<<"x", 1>>>>
    [] it = "%" -> <<<<"%", 1>>>>
    [] it = "%x" -> <<<<"%", 1>>, <<"x", 1>>>>

Meanings == [i \in DOMAIN items |-> Meaning(items[i])]

Line == FlattenSeq(Meanings) \o (IF dangling THEN <<>> ELSE <<newline>>)

\* The buffer is full before the end of item i, and print_log returns there; after a
\* date it goes on.
ReturnsIn(i) ==
  /\ items[i] # "t" /\ Meanings[i] # <<>>
  /\ Len(FlattenSeq(SubSeq(Meanings, 1, i))) > buffer_len

Dropped == \E i \in DOMAIN items : /\ items[i] = "l" /\ ReturnsIn(i)
                                   /\ \A j \in 1 .. i - 1 : ~ReturnsIn(j)

Output == Cut(buffer, ret)

\* The line with the day after the current one.
Tomorrow(line) ==
  [i \in DOMAIN line |-> IF line[i][1] = "mday" THEN <<"mday", line[i][2] + 1>> ELSE line[i]]

(* A line is written as the format says, escape by escape, and cut where the *)
(* buffer ends, in all but two things: its day of the month is one too high  *)
(* (log.c line 82), and it is dropped as a whole exactly when print_log      *)
(* returns in the middle of %l (log.c line 101), however the other escapes   *)
(* fill the buffer.                                                          *)
LineAsFormatted ==
  ret # NONE => Output = IF Dropped THEN <<>> ELSE Cut(Tomorrow(Line), buffer_len)

=============================================================================
