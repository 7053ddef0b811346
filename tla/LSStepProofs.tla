---------------------------- MODULE LSStepProofs ----------------------------
(***************************************************************************)
(* What the steps of LSServer do, for every value of the constants: to the *)
(* log files, and as steps of LoggerOwnership, which LSServer implements.  *)
(***************************************************************************)
EXTENDS LSRefinement, LSServerProofs

\* Most leaves are first-order reasoning about sets and functions, which is for
\* Zenon; a leaf with arithmetic, records or sequences calls for SMT by name.
USE ZenonT(60)

\* Exactly LinesFromOwner and OpenLogOnlyGrows as predicates of one step.
LinesStep ==
  \A d \in File \cup {NONE} : \A i \in 1 .. Len(LogOf(d)') :
    LET line == LogOf(d)'[i] IN
    (line # NONE /\ (i > Len(LogOf(d)) \/ line # LogOf(d)[i])) =>
      /\ IsOpen(line.logger)
      /\ g_loggers[line.logger].state.opened_by = line.who
      /\ line.severity >= g_loggers[line.logger].logger.severity
      /\ d = IF IsFile(line.logger) THEN g_loggers[line.logger].logger.dest_filename ELSE NONE

GrowsStep ==
  \A l \in OpenFileLoggers :
    l \in OpenFileLoggers' /\ SoleUser(l) =>
      LET f == g_loggers[l].logger.dest_filename IN
      /\ Len(disk'[f]) >= Len(disk[f])
      /\ \A i \in 1 .. Len(disk[f]) : disk'[f][i] = disk[f][i]

\* A descriptor in truncating mode whose file no other logger of the list names stands
\* at the end of that file: nothing but its own writes has moved either.
AtEnd ==
  \A l \in OpenFileLoggers :
    SoleUser(l) /\ ~g_loggers[l].logger.append =>
      fds[g_loggers[l].state.fd].pos = Len(disk[g_loggers[l].logger.dest_filename])

-----------------------------------------------------------------------------
(* How the steps of LSServer touch the files *)

\* Steps that leave every file and the kernel log alone.
LEMMA OtherSteps ==
  ASSUME IInv, Next, ~do_start_log, ~do_write_log, ~do_clear_log, ~do_clear_logs
  PROVE  UNCHANGED <<disk, klog>>
<1>1. CASE \E c \in Client : Call(c) \/ Exec(c) \/ Spawn(c) \/ Die(c)
  BY <1>1 DEF Call, Exec, Spawn, Die, serverVars, fsVars
<1>2. CASE wait_request \/ reply
  BY <1>2 DEF wait_request, reply, fsVars
<1>3. CASE ensure_initialized \/ HandleInitialize
  BY <1>3 DEF ensure_initialized, HandleInitialize, do_initialize, fsVars
<1>4. CASE do_close_log \/ do_set_severity
  BY <1>4 DEF do_close_log, do_set_severity, Return, fsVars
<1> QED
  BY <1>1, <1>2, <1>3, <1>4 DEF Next, Server, Handler, Environment

\* Starting and clearing leave a file alone or empty it, and only the file of a closed
\* file logger.
LEMMA TruncatingSteps ==
  ASSUME IInv, do_start_log \/ do_clear_log \/ do_clear_logs
  PROVE  /\ klog' = klog /\ disk' \in [File -> Seq(Line \cup {NONE})]
         /\ \A f \in File :
              \/ disk'[f] = disk[f]
              \/ /\ disk'[f] = <<>>
                 /\ \E l \in DOMAIN g_loggers : /\ IsFile(l) /\ ~IsOpen(l)
                                                /\ g_loggers[l].logger.dest_filename = f
<1>1. disk \in [File -> Seq(Line \cup {NONE})]
  BY DEF IInv, TypeOK, FsTypeOK
<1>2. CASE do_start_log
  <2>1. CASE disk' = disk
    BY <1>1, <1>2, <2>1 DEF do_start_log, Return, fsVars
  <2>2. CASE /\ find_logger(m.logger) /\ ~IsOpen(m.logger) /\ IsFile(m.logger) /\ klog' = klog
             /\ disk' = [disk EXCEPT ![g_loggers[m.logger].logger.dest_filename] = <<>>]
    <3> DEFINE g == g_loggers[m.logger].logger.dest_filename
    <3>1. \A f \in File : disk'[f] = disk[f] \/ (f = g /\ disk'[f] = <<>>)
      BY <1>1, <2>2
    <3>2. disk' \in [File -> Seq(Line \cup {NONE})]
      <4> DEFINE S == Seq(Line \cup {NONE})
      <4>1. <<>> \in S /\ disk \in [File -> S]
        BY <1>1, SMTT(60)
      <4> HIDE DEF S
      <4>2. disk' \in [File -> S]
        BY <2>2, <4>1
      <4> QED
        BY <4>2 DEF S
    <3>3. m.logger \in DOMAIN g_loggers
      BY <2>2 DEF find_logger
    <3> QED
      BY <2>2, <3>1, <3>2, <3>3
  <2>3. ASSUME NEW fd, IsFile(m.logger), OpenForLogging(g_loggers[m.logger].logger, fd)
        PROVE  \/ disk' = disk
               \/ disk' = [disk EXCEPT ![g_loggers[m.logger].logger.dest_filename] = <<>>]
    BY <2>3 DEF OpenForLogging
  <2> QED
    BY <1>2, <2>1, <2>2, <2>3 DEF do_start_log, Return, fsVars
<1>3. CASE do_clear_log
  <2>1. CASE disk' = disk
    BY <1>1, <1>3, <2>1 DEF do_clear_log, Return, fsVars
  <2>2. CASE /\ find_logger(m.logger) /\ ~IsOpen(m.logger) /\ IsFile(m.logger) /\ klog' = klog
             /\ disk' = Truncated({m.logger})
    BY <1>1, <2>2, SMTT(60) DEF Truncated, find_logger
  <2> QED
    BY <1>3, <2>1, <2>2 DEF do_clear_log, Return, fsVars
<1>4. CASE do_clear_logs
  <2>1. PICK ok \in SUBSET ClosedFileLoggers : disk' = Truncated(ok)
    BY <1>4 DEF do_clear_logs
  <2>2. \A l \in ok : l \in DOMAIN g_loggers /\ IsFile(l) /\ ~IsOpen(l)
    BY DEF ClosedFileLoggers
  <2>3. klog' = klog
    BY <1>4 DEF do_clear_logs
  <2> QED
    BY <1>1, <2>1, <2>2, <2>3, SMTT(60) DEF Truncated
<1> QED
  BY <1>2, <1>3, <1>4

\* do_write_log adds nothing, or one line: the owner's, at or above the threshold, to the
\* kernel log or through the logger's descriptor.
LEMMA WritingStep ==
  ASSUME IInv, do_write_log
  PROVE  \/ UNCHANGED fsVars
         \/ /\ IsOpen(m.logger) /\ IsOwner(m.logger) /\ ~BelowThreshold(g_loggers[m.logger].state)
            /\ \E whole \in BOOLEAN :
                 \/ /\ IsFile(m.logger) /\ klog' = klog
                    /\ g_loggers[m.logger].state.fd \in DOMAIN fds
                    /\ WriteFd(g_loggers[m.logger].state.fd, TheLine(whole))
                 \/ /\ ~IsFile(m.logger) /\ klog' = Append(klog, TheLine(whole))
                    /\ UNCHANGED <<fds, disk>>
BY DEF do_write_log, Return

\* The line do_write_log adds is one that LinesFromOwner allows in destination d.
LEMMA LineAllowed ==
  ASSUME IInv, IsOpen(m.logger), IsOwner(m.logger), ~BelowThreshold(g_loggers[m.logger].state),
         pc = "handle", NEW whole \in BOOLEAN
  PROVE  LET line == TheLine(whole) IN
         /\ line.logger = m.logger
         /\ IsOpen(line.logger)
         /\ g_loggers[line.logger].state.opened_by = line.who
         /\ line.severity >= g_loggers[line.logger].logger.severity
<1>1. g_loggers[m.logger].state.severity = g_loggers[m.logger].logger.severity
  BY DEF IInv, DefaultThreshold, IsOpen, find_logger
<1>2. m.severity \in Nat
  BY RequestAssumption DEF IInv, TypeOK, LoopTypeOK, Message
<1>3. g_loggers[m.logger].state.severity \in 0 .. 3
  BY DEF IInv, TypeOK, LsTypeOK, IsOpen, find_logger, ls_logger_state_t, Severity
<1> QED
  BY <1>1, <1>2, <1>3, SMTT(60) DEF TheLine, IsOwner, BelowThreshold

\* A line written at a position leaves the lines before and after it.
LEMMA WriteAtCells ==
  ASSUME NEW s \in Seq(Line \cup {NONE}), NEW pos \in Nat, NEW line \in Line
  PROVE  /\ Len(WriteAt(s, pos, line)) = IF pos >= Len(s) THEN pos + 1 ELSE Len(s)
         /\ \A i \in 1 .. Len(WriteAt(s, pos, line)) :
              \/ i = pos + 1 /\ WriteAt(s, pos, line)[i] = line
              \/ i <= Len(s) /\ WriteAt(s, pos, line)[i] = s[i]
              \/ WriteAt(s, pos, line)[i] = NONE
         /\ \A i \in 1 .. Len(s) : i # pos + 1 => WriteAt(s, pos, line)[i] = s[i]
<1> DEFINE n == IF pos >= Len(s) THEN pos + 1 ELSE Len(s)
<1>1. n \in Nat /\ n >= Len(s)
  BY SMTT(60)
<1>2. Len(WriteAt(s, pos, line)) = n
  BY <1>1, WriteAtType, SMTT(60) DEF WriteAt
<1>3. \A i \in 1 .. n : WriteAt(s, pos, line)[i] =
                          IF i = pos + 1 THEN line ELSE IF i <= Len(s) THEN s[i] ELSE NONE
  BY DEF WriteAt
<1> HIDE DEF n
<1>4. \A i \in 1 .. n : \/ i = pos + 1 /\ WriteAt(s, pos, line)[i] = line
                        \/ i <= Len(s) /\ WriteAt(s, pos, line)[i] = s[i]
                        \/ WriteAt(s, pos, line)[i] = NONE
  BY <1>3
<1>5. \A i \in 1 .. Len(s) : i \in 1 .. n /\ i <= Len(s)
  BY <1>1, SMTT(60)
<1>6. \A i \in 1 .. Len(s) : i # pos + 1 => WriteAt(s, pos, line)[i] = s[i]
  BY <1>3, <1>5
<1> QED
  BY <1>2, <1>4, <1>6 DEF n

\* A line written at the end of a file is added to it.
LEMMA WriteAtEnd ==
  ASSUME NEW s \in Seq(Line \cup {NONE}), NEW line \in Line
  PROVE  /\ Len(WriteAt(s, Len(s), line)) = Len(s) + 1
         /\ \A i \in 1 .. Len(s) : WriteAt(s, Len(s), line)[i] = s[i]
<1> DEFINE w == WriteAt(s, Len(s), line)
<1>1. Len(s) \in Nat
  BY SMTT(60)
<1>2. Len(w) = (IF Len(s) >= Len(s) THEN Len(s) + 1 ELSE Len(s))
  BY <1>1, WriteAtCells
<1>3. \A i \in 1 .. Len(s) : i # Len(s) + 1 => w[i] = s[i]
  BY <1>1, WriteAtCells
<1> HIDE DEF w
<1>4. Len(w) = Len(s) + 1 /\ \A i \in 1 .. Len(s) : w[i] = s[i]
  BY <1>1, <1>2, <1>3, SMTT(60)
<1> QED
  BY <1>4 DEF w

\* A write() through the descriptor of the served logger changes that logger's file only,
\* at the position the descriptor's mode asks for, and moves that descriptor only.
LEMMA WritesOwnFile ==
  ASSUME IInv, pc = "handle", m.m_type = "LS_WRITE_LOG", IsOpen(m.logger), IsFile(m.logger),
         NEW whole \in BOOLEAN, WriteFd(g_loggers[m.logger].state.fd, TheLine(whole))
  PROVE  LET fd  == g_loggers[m.logger].state.fd
             f   == g_loggers[m.logger].logger.dest_filename
             pos == IF g_loggers[m.logger].logger.append THEN Len(disk[f]) ELSE fds[fd].pos
         IN  /\ f \in File /\ fd \in DOMAIN fds /\ fds[fd].pos \in Nat /\ pos \in Nat
             /\ TheLine(whole) \in Line /\ disk[f] \in Seq(Line \cup {NONE})
             /\ disk' = [disk EXCEPT ![f] = WriteAt(disk[f], pos, TheLine(whole))]
             /\ DOMAIN fds' = DOMAIN fds
             /\ \A d \in DOMAIN fds : d # fd => fds'[d] = fds[d]
             /\ ~g_loggers[m.logger].logger.append => fds'[fd].pos = fds[fd].pos + 1
<1> DEFINE fd == g_loggers[m.logger].state.fd
           f  == g_loggers[m.logger].logger.dest_filename
           pos == IF g_loggers[m.logger].logger.append THEN Len(disk[f]) ELSE fds[fd].pos
<1>1. m.logger \in OpenFileLoggers
  BY DEF OpenFileLoggers, IsOpen, find_logger
<1>2. fd \in DOMAIN fds /\ fds[fd].file = f /\ fds[fd].append = g_loggers[m.logger].logger.append
  BY <1>1 DEF IInv, OwnDescriptor
<1>3. fds[fd] \in Filp /\ fds[fd].pos \in Nat
  BY <1>2 DEF IInv, TypeOK, FsTypeOK, Filp
<1>4. f \in File
  BY <1>2, <1>3 DEF Filp
<1>5. disk \in [File -> Seq(Line \cup {NONE})] /\ disk[f] \in Seq(Line \cup {NONE})
  BY <1>4 DEF IInv, TypeOK, FsTypeOK
<1>6. pos \in Nat
  <2>1. Len(disk[f]) \in Nat
    BY <1>5, SMTT(60)
  <2> QED
    BY <1>3, <2>1
<1>7. TheLine(whole) \in Line
  BY LineType DEF IInv, Handling
<1>8. disk' = [disk EXCEPT ![f] = WriteAt(disk[f], pos, TheLine(whole))]
  BY <1>2, <1>4, <1>5 DEF WriteFd
<1>9. fds' = [fds EXCEPT ![fd].pos = IF fds[fd].append THEN @ ELSE @ + 1]
  BY DEF WriteFd
<1>10. fds'[fd] = [fds[fd] EXCEPT !.pos = IF fds[fd].append THEN @ ELSE @ + 1]
  BY <1>2, <1>9
<1>11. ~g_loggers[m.logger].logger.append => fds'[fd].pos = fds[fd].pos + 1
  BY <1>2, <1>3, <1>10 DEF Filp
<1> QED
  BY <1>2, <1>3, <1>4, <1>5, <1>6, <1>7, <1>8, <1>9, <1>11

-----------------------------------------------------------------------------
(* Lines come from the owner *)

\* Every step adds only lines that LinesFromOwner allows.
LEMMA EveryLineAllowed == ASSUME IInv, [Next]_vars PROVE LinesStep
<1>1. SUFFICES ASSUME NEW d \in File \cup {NONE}, NEW i \in 1 .. Len(LogOf(d)'),
                      LogOf(d)'[i] # NONE,
                      i > Len(LogOf(d)) \/ LogOf(d)'[i] # LogOf(d)[i]
               PROVE  LET line == LogOf(d)'[i] IN
                      /\ IsOpen(line.logger)
                      /\ g_loggers[line.logger].state.opened_by = line.who
                      /\ line.severity >= g_loggers[line.logger].logger.severity
                      /\ d = IF IsFile(line.logger)
                             THEN g_loggers[line.logger].logger.dest_filename ELSE NONE
  BY DEF LinesStep
<1>2. disk \in [File -> Seq(Line \cup {NONE})] /\ klog \in Seq(Line)
  BY DEF IInv, TypeOK, FsTypeOK
<1>3. LogOf(d) \in Seq(Line \cup {NONE}) \cup Seq(Line)
  BY <1>2 DEF LogOf
<1>4. ASSUME LogOf(d)' = LogOf(d) \/ LogOf(d)' = <<>> PROVE FALSE
  BY <1>1, <1>3, <1>4, SMTT(60)
<1>5. ASSUME UNCHANGED <<disk, klog>> PROVE FALSE
  BY <1>4, <1>5 DEF LogOf
<1>6. CASE do_start_log \/ do_clear_log \/ do_clear_logs
  <2>1. LogOf(d)' = LogOf(d) \/ LogOf(d)' = <<>>
    BY <1>6, TruncatingSteps DEF LogOf
  <2> QED
    BY <1>4, <2>1
<1>7. CASE do_write_log
  <2>1. PICK whole \in BOOLEAN :
          /\ IsOpen(m.logger) /\ IsOwner(m.logger) /\ ~BelowThreshold(g_loggers[m.logger].state)
          /\ \/ /\ IsFile(m.logger) /\ klog' = klog
                /\ WriteFd(g_loggers[m.logger].state.fd, TheLine(whole))
             \/ ~IsFile(m.logger) /\ klog' = Append(klog, TheLine(whole)) /\ disk' = disk
    BY <1>5, <1>7, WritingStep DEF fsVars
  <2>2. pc = "handle" /\ m.m_type = "LS_WRITE_LOG"
    BY <1>7 DEF do_write_log, Handling
  <2>3. SUFFICES /\ LogOf(d)'[i] = TheLine(whole)
                 /\ d = IF IsFile(m.logger) THEN g_loggers[m.logger].logger.dest_filename ELSE NONE
    BY <2>1, <2>2, LineAllowed
  <2>4. CASE ~IsFile(m.logger) /\ klog' = Append(klog, TheLine(whole)) /\ disk' = disk
    <3>1. d = NONE
      BY <1>4, <2>4 DEF LogOf
    <3>2. TheLine(whole) \in Line
      BY <2>2, LineType
    <3>3. LogOf(d)' = Append(klog, TheLine(whole)) /\ LogOf(d) = klog
      BY <2>4, <3>1 DEF LogOf
    <3>4. i = Len(klog) + 1
      BY <1>1, <1>2, <3>2, <3>3, SMTT(60)
    <3> QED
      BY <1>2, <2>4, <3>1, <3>2, <3>3, <3>4, SMTT(60)
  <2>5. CASE /\ IsFile(m.logger) /\ klog' = klog
             /\ WriteFd(g_loggers[m.logger].state.fd, TheLine(whole))
    <3> DEFINE fd == g_loggers[m.logger].state.fd
               f   == g_loggers[m.logger].logger.dest_filename
               pos == IF g_loggers[m.logger].logger.append THEN Len(disk[f]) ELSE fds[fd].pos
    <3>1. /\ f \in File /\ pos \in Nat /\ TheLine(whole) \in Line
          /\ disk[f] \in Seq(Line \cup {NONE})
          /\ disk' = [disk EXCEPT ![f] = WriteAt(disk[f], pos, TheLine(whole))]
      BY <2>1, <2>2, <2>5, WritesOwnFile
    <3> HIDE DEF pos, f, fd
    <3>2. d = f
      BY <1>2, <1>4, <2>5, <3>1 DEF LogOf
    <3>3. f # NONE
      BY <3>1, NoneAssumption
    <3>4. LogOf(d)' = WriteAt(disk[f], pos, TheLine(whole)) /\ LogOf(d) = disk[f]
      BY <1>2, <3>1, <3>2, <3>3 DEF LogOf
    <3>5. LogOf(d)'[i] = TheLine(whole)
      <4>1. \/ i = pos + 1 /\ WriteAt(disk[f], pos, TheLine(whole))[i] = TheLine(whole)
            \/ i <= Len(disk[f]) /\ WriteAt(disk[f], pos, TheLine(whole))[i] = disk[f][i]
            \/ WriteAt(disk[f], pos, TheLine(whole))[i] = NONE
        <5>1. i \in 1 .. Len(WriteAt(disk[f], pos, TheLine(whole)))
          BY <1>1, <3>4
        <5> QED
          BY <3>1, <5>1, WriteAtCells
      <4> QED
        BY <1>1, <3>1, <3>4, <4>1, SMTT(60)
    <3> QED
      BY <2>5, <3>2, <3>5 DEF f
  <2> QED
    BY <2>1, <2>4, <2>5
<1>8. CASE UNCHANGED vars
  BY <1>5, <1>8 DEF vars, fsVars
<1> QED
  BY <1>5, <1>6, <1>7, <1>8, OtherSteps

\* For any number of clients, loggers and lines: a log gains a line only on behalf of the
\* logger's owner, at or above the configured severity, in the logger's destination.
THEOREM OnlyTheOwnerLogs == Spec => LinesFromOwner
<1>1. IInv /\ [Next]_vars => [LinesStep]_vars
  BY EveryLineAllowed
<1> QED
  BY <1>1, Invariance, PTL DEF Spec, LinesFromOwner, LinesStep

-----------------------------------------------------------------------------
(* An open log only grows *)

\* What one step does to the loggers that stay open: definitions are kept, except by an
\* initialisation, which leaves none open.
LEMMA DefinitionsKept ==
  ASSUME IInv, [Next]_vars
  PROVE  \/ OpenFileLoggers' = {}
         \/ /\ DOMAIN g_loggers' = DOMAIN g_loggers
            /\ \A l \in DOMAIN g_loggers : g_loggers'[l].logger = g_loggers[l].logger
<1>1. CASE g_loggers' = g_loggers
  BY <1>1
<1>2. CASE ensure_initialized \/ HandleInitialize
  <2>1. \A l \in DOMAIN g_loggers' : ~g_loggers'[l].state.is_open
    BY <1>2, InitializeList DEF ensure_initialized, HandleInitialize
  <2> QED
    BY <2>1 DEF OpenFileLoggers, IsOpen, find_logger
<1>3. CASE \E x : g_loggers' = [g_loggers EXCEPT ![m.logger].state = x]
  BY <1>3, SMTT(60) DEF IInv, TypeOK, LsTypeOK
<1>4. CASE do_start_log \/ do_close_log \/ do_set_severity
  <2>1. CASE do_start_log
    BY <1>1, <1>3, <2>1 DEF do_start_log, Return
  <2>2. CASE do_close_log
    BY <1>1, <1>3, <2>2 DEF do_close_log, Return
  <2>3. CASE do_set_severity
    BY <1>1, <1>3, <2>3 DEF do_set_severity, Return
  <2> QED
    BY <1>4, <2>1, <2>2, <2>3
<1>5. CASE do_write_log \/ do_clear_log \/ do_clear_logs
  <2>1. g_loggers' = g_loggers
    BY <1>5 DEF do_write_log, do_clear_log, do_clear_logs, Return, lsVars
  <2> QED
    BY <1>1, <2>1
<1>6. CASE wait_request \/ reply \/ Environment \/ UNCHANGED vars
  <2>1. g_loggers' = g_loggers
    BY <1>6 DEF wait_request, reply, Environment, Call, Exec, Spawn, Die, serverVars, vars, lsVars
  <2> QED
    BY <1>1, <2>1
<1> QED
  BY <1>2, <1>4, <1>5, <1>6 DEF Next, Server, Handler

\* A truncating step empties no file whose only user in the list is an open logger.
LEMMA NotTruncated ==
  ASSUME IInv, do_start_log \/ do_clear_log \/ do_clear_logs,
         NEW l \in OpenFileLoggers, SoleUser(l)
  PROVE  disk'[g_loggers[l].logger.dest_filename] = disk[g_loggers[l].logger.dest_filename]
<1> DEFINE f == g_loggers[l].logger.dest_filename
<1>1. f \in File /\ IsOpen(l)
  BY DEF OpenFileLoggers, IInv, PathOK
<1>2. \A k \in DOMAIN g_loggers :
        IsFile(k) /\ ~IsOpen(k) => g_loggers[k].logger.dest_filename # f
  BY <1>1 DEF SoleUser
<1> QED
  BY <1>1, <1>2, TruncatingSteps

\* A write through the descriptor of another logger goes to another file; one through
\* l's own descriptor, standing at the end, adds a line there.
LEMMA WriteGrows ==
  ASSUME IInv, AtEnd, do_write_log, NEW l \in OpenFileLoggers, SoleUser(l)
  PROVE  LET f == g_loggers[l].logger.dest_filename
             fd == g_loggers[l].state.fd IN
         /\ Len(disk'[f]) >= Len(disk[f])
         /\ \A i \in 1 .. Len(disk[f]) : disk'[f][i] = disk[f][i]
         /\ ~g_loggers[l].logger.append => fds'[fd].pos = Len(disk'[f])
<1> DEFINE f == g_loggers[l].logger.dest_filename
           fd == g_loggers[l].state.fd
<1>1. f \in File /\ disk[f] \in Seq(Line \cup {NONE}) /\ l \in DOMAIN g_loggers /\ IsFile(l) /\ IsOpen(l)
  BY DEF OpenFileLoggers, IInv, PathOK, TypeOK, FsTypeOK
<1>2. ~g_loggers[l].logger.append => fds[fd].pos = Len(disk[f])
  BY DEF AtEnd
<1>3. CASE UNCHANGED fsVars
  BY <1>1, <1>2, <1>3, SMTT(60) DEF fsVars
<1>4. CASE UNCHANGED <<fds, disk>>
  BY <1>1, <1>2, <1>4, SMTT(60)
<1>5. CASE /\ IsOpen(m.logger) /\ IsFile(m.logger)
           /\ \E whole \in BOOLEAN : WriteFd(g_loggers[m.logger].state.fd, TheLine(whole))
  <2>1. PICK whole \in BOOLEAN : WriteFd(g_loggers[m.logger].state.fd, TheLine(whole))
    BY <1>5
  <2>2. pc = "handle" /\ m.m_type = "LS_WRITE_LOG"
    BY DEF do_write_log, Handling
  <2> DEFINE gd == g_loggers[m.logger].state.fd
             g == g_loggers[m.logger].logger.dest_filename
             pos == IF g_loggers[m.logger].logger.append THEN Len(disk[g]) ELSE fds[gd].pos
  <2>3. /\ g \in File /\ gd \in DOMAIN fds /\ fds[gd].pos \in Nat /\ pos \in Nat
        /\ TheLine(whole) \in Line /\ disk[g] \in Seq(Line \cup {NONE})
        /\ disk' = [disk EXCEPT ![g] = WriteAt(disk[g], pos, TheLine(whole))]
        /\ \A d \in DOMAIN fds : d # gd => fds'[d] = fds[d]
        /\ ~g_loggers[m.logger].logger.append => fds'[gd].pos = fds[gd].pos + 1
    BY <1>5, <2>1, <2>2, WritesOwnFile
  <2>4. CASE l = m.logger
    <3>1. pos = Len(disk[f])
      BY <1>2, <2>4
    <3>2. disk'[f] = WriteAt(disk[f], pos, TheLine(whole))
      BY <1>1, <2>3, <2>4 DEF IInv, TypeOK, FsTypeOK
    <3>3. /\ Len(disk'[f]) = Len(disk[f]) + 1
          /\ \A i \in 1 .. Len(disk[f]) : disk'[f][i] = disk[f][i]
      <4> HIDE DEF f, fd, g, gd, pos
      <4>1. disk'[f] = WriteAt(disk[f], Len(disk[f]), TheLine(whole))
        BY <3>1, <3>2
      <4>2. TheLine(whole) \in Line /\ disk[f] \in Seq(Line \cup {NONE})
        BY <1>1, <2>3
      <4>3. /\ Len(WriteAt(disk[f], Len(disk[f]), TheLine(whole))) = Len(disk[f]) + 1
            /\ \A i \in 1 .. Len(disk[f]) :
                 WriteAt(disk[f], Len(disk[f]), TheLine(whole))[i] = disk[f][i]
        BY <4>2, WriteAtEnd
      <4> QED
        BY <4>1, <4>3
    <3>4. ~g_loggers[l].logger.append => fds'[fd].pos = Len(disk'[f])
      <4>1. fd = gd
        BY <2>4
      <4>2. ~g_loggers[l].logger.append => fds'[fd].pos = fds[fd].pos + 1
        BY <2>3, <2>4
      <4> HIDE DEF f, fd, g, gd, pos
      <4> QED
        BY <1>2, <3>3, <4>2
    <3>5. Len(disk'[f]) >= Len(disk[f])
      <4> HIDE DEF f
      <4> QED
        BY <1>1, <3>3, SMTT(60)
    <3> QED
      BY <3>3, <3>4, <3>5
  <2>5. CASE l # m.logger
    <3>1. m.logger \in OpenFileLoggers
      BY <1>5 DEF OpenFileLoggers, IsOpen, find_logger
    <3>2. g # f
      BY <2>5, <3>1 DEF SoleUser, OpenFileLoggers
    <3>3. fd # gd /\ fd \in DOMAIN fds
      BY <2>5, <3>1 DEF IInv, OwnDescriptor
    <3>4. disk'[f] = disk[f] /\ fds'[fd] = fds[fd]
      BY <1>1, <2>3, <3>2, <3>3 DEF IInv, TypeOK, FsTypeOK
    <3>5. Len(disk'[f]) >= Len(disk[f]) /\ \A i \in 1 .. Len(disk[f]) : disk'[f][i] = disk[f][i]
      <4> HIDE DEF f
      <4> QED
        BY <1>1, <3>4, SMTT(60)
    <3> QED
      BY <1>2, <3>4, <3>5
  <2> QED
    BY <2>4, <2>5
<1> QED
  BY <1>3, <1>4, <1>5, WritingStep

\* AtEnd is kept by every step.
LEMMA AtEndStep == ASSUME IInv, AtEnd, [Next]_vars PROVE AtEnd'
<1>1. SUFFICES ASSUME NEW l \in OpenFileLoggers', SoleUser(l)', ~g_loggers'[l].logger.append
               PROVE  fds'[g_loggers'[l].state.fd].pos =
                        Len(disk'[g_loggers'[l].logger.dest_filename])
  BY DEF AtEnd
<1>2. /\ DOMAIN g_loggers' = DOMAIN g_loggers
      /\ \A k \in DOMAIN g_loggers : g_loggers'[k].logger = g_loggers[k].logger
  BY <1>1, DefinitionsKept
<1>3. l \in DOMAIN g_loggers /\ IsFile(l) /\ SoleUser(l)
  BY <1>1, <1>2 DEF OpenFileLoggers, SoleUser, IsFile
<1> DEFINE f == g_loggers[l].logger.dest_filename
           fd == g_loggers[l].state.fd
<1>4. ASSUME IsOpen(l), fds'[fd].pos = Len(disk'[f]), g_loggers'[l].state.fd = fd
      PROVE  fds'[g_loggers'[l].state.fd].pos = Len(disk'[g_loggers'[l].logger.dest_filename])
  BY <1>2, <1>3, <1>4
<1>5. ASSUME IsOpen(l)
      PROVE  l \in OpenFileLoggers /\ fd \in DOMAIN fds /\ fds[fd].pos = Len(disk[f])
  <2>1. l \in OpenFileLoggers
    BY <1>3, <1>5 DEF OpenFileLoggers
  <2> QED
    BY <1>1, <1>2, <1>3, <2>1 DEF AtEnd, IInv, OwnDescriptor
<1>6. CASE IsOpen(l) /\ UNCHANGED <<fds, disk>> /\ g_loggers'[l].state.fd = fd
  BY <1>4, <1>5, <1>6
<1>7. IsOpen(l)'
  BY <1>1 DEF OpenFileLoggers
<1>8. CASE g_loggers' = g_loggers /\ UNCHANGED <<fds, disk>>
  BY <1>6, <1>7, <1>8 DEF IsOpen, find_logger
<1>9. CASE wait_request \/ reply \/ Environment \/ UNCHANGED vars
  <2>1. g_loggers' = g_loggers /\ UNCHANGED <<fds, disk>>
    BY <1>9 DEF wait_request, reply, Environment, Call, Exec, Spawn, Die, serverVars, vars, lsVars, fsVars
  <2> QED
    BY <1>8, <2>1
<1>10. CASE ensure_initialized \/ HandleInitialize
  <2>1. \A k \in DOMAIN g_loggers' : ~g_loggers'[k].state.is_open
    BY <1>10, InitializeList DEF ensure_initialized, HandleInitialize
  <2> QED
    BY <1>7, <2>1 DEF IsOpen, find_logger
<1>11. CASE do_write_log
  <2>1. g_loggers' = g_loggers
    BY <1>11 DEF do_write_log, Return
  <2>2. IsOpen(l)
    BY <1>7, <2>1 DEF IsOpen, find_logger
  <2>3. ~g_loggers[l].logger.append
    BY <1>1, <2>1
  <2> QED
    BY <1>3, <1>4, <1>5, <1>11, <2>1, <2>2, <2>3, WriteGrows
<1>12. CASE do_clear_log \/ do_clear_logs
  <2>1. g_loggers' = g_loggers /\ fds' = fds
    BY <1>12 DEF do_clear_log, do_clear_logs, Return, lsVars, fsVars
  <2>2. IsOpen(l)
    BY <1>7, <2>1 DEF IsOpen, find_logger
  <2>3. disk'[f] = disk[f]
    BY <1>3, <1>5, <1>12, <2>2, NotTruncated
  <2> QED
    BY <1>4, <1>5, <2>1, <2>2, <2>3
<1>13. CASE do_set_severity
  <2>1. CASE g_loggers' = g_loggers
    BY <1>8, <1>13, <2>1 DEF do_set_severity, Return, fsVars
  <2>2. CASE g_loggers' = [g_loggers EXCEPT ![m.logger].state = [@ EXCEPT !.severity = m.severity]]
    <3>1. IsOpen(l) /\ g_loggers'[l].state.fd = fd
      BY <1>3, <1>7, <2>2, SMTT(60) DEF IsOpen, find_logger, IInv, TypeOK, LsTypeOK, ls_logger_state_t
    <3>2. UNCHANGED <<fds, disk>>
      BY <1>13 DEF do_set_severity, Return, fsVars
    <3> QED
      BY <1>6, <3>1, <3>2
  <2> QED
    BY <1>13, <2>1, <2>2 DEF do_set_severity, Return
<1>14. CASE do_close_log
  <2>1. CASE g_loggers' = g_loggers /\ UNCHANGED <<fds, disk>>
    BY <1>8, <2>1
  <2>2. CASE /\ IsOpen(m.logger) /\ disk' = disk
             /\ fds' = (IF IsFile(m.logger) THEN CloseFd(g_loggers[m.logger].state.fd) ELSE fds)
             /\ g_loggers' = [g_loggers EXCEPT ![m.logger].state = ClosedState(@)]
    <3>1. l # m.logger
      BY <1>3, <1>7, <2>2, SMTT(60) DEF IsOpen, find_logger, ClosedState, IInv, TypeOK, LsTypeOK, ls_logger_state_t
    <3>2. IsOpen(l) /\ g_loggers'[l].state.fd = fd
      BY <1>3, <1>7, <2>2, <3>1 DEF IsOpen, find_logger, IInv, TypeOK, LsTypeOK
    <3>3. l \in OpenFileLoggers /\ fd \in DOMAIN fds /\ fds[fd].pos = Len(disk[f])
      BY <1>5, <3>2
    <3>4. IsFile(m.logger) => g_loggers[m.logger].state.fd # fd
      BY <2>2, <3>1, <3>3 DEF IInv, OwnDescriptor, OpenFileLoggers, IsOpen, find_logger
    <3>5. fds'[fd] = fds[fd]
      BY <2>2, <3>3, <3>4 DEF CloseFd
    <3> QED
      BY <1>4, <2>2, <3>2, <3>3, <3>5
  <2> QED
    BY <1>14, <2>1, <2>2 DEF do_close_log, Return, fsVars
<1>15. CASE do_start_log
  <2>1. CASE g_loggers' = g_loggers /\ UNCHANGED <<fds, disk>>
    BY <1>8, <2>1
  <2>2. CASE /\ ~IsOpen(m.logger) /\ find_logger(m.logger)
             /\ \E d \in FD \cup {-1} :
                  /\ \/ IsFile(m.logger) /\ OpenForLogging(g_loggers[m.logger].logger, d)
                     \/ ~IsFile(m.logger) /\ UNCHANGED <<fds, disk>>
                  /\ g_loggers' = [g_loggers EXCEPT ![m.logger].state =
                                     OpenedState(g_loggers[m.logger].logger, d)]
    <3>1. PICK d \in FD \cup {-1} :
            /\ \/ IsFile(m.logger) /\ OpenForLogging(g_loggers[m.logger].logger, d)
               \/ ~IsFile(m.logger) /\ UNCHANGED <<fds, disk>>
            /\ g_loggers' = [g_loggers EXCEPT ![m.logger].state =
                               OpenedState(g_loggers[m.logger].logger, d)]
      BY <2>2
    <3>2. CASE l = m.logger
      <4>1. g_loggers'[l].state.fd = d
        BY <1>3, <3>1, <3>2 DEF OpenedState, IInv, TypeOK, LsTypeOK
      <4>2. fds'[d].pos = 0
        BY <1>3, <3>1, <3>2, SMTT(60) DEF OpenForLogging
      <4>3. f \in File /\ disk'[f] = <<>>
        BY <1>1, <1>2, <1>3, <3>1, <3>2 DEF OpenForLogging, IInv, PathOK, TypeOK, FsTypeOK
      <4> QED
        BY <1>2, <1>3, <4>1, <4>2, <4>3, SMTT(60)
    <3>3. CASE l # m.logger
      <4>1. IsOpen(l) /\ g_loggers'[l].state.fd = fd
        BY <1>3, <1>7, <3>1, <3>3 DEF IsOpen, find_logger, IInv, TypeOK, LsTypeOK
      <4>2. l \in OpenFileLoggers /\ fd \in DOMAIN fds /\ fds[fd].pos = Len(disk[f])
        BY <1>5, <4>1
      <4>3. fds'[fd] = fds[fd]
        BY <3>1, <4>2 DEF OpenForLogging, LowestFreeFd
      <4>4. disk'[f] = disk[f]
        BY <1>3, <1>15, <4>2, NotTruncated
      <4> QED
        BY <1>4, <4>1, <4>2, <4>3, <4>4
    <3> QED
      BY <3>2, <3>3
  <2> QED
    BY <1>15, <2>1, <2>2 DEF do_start_log, Return, fsVars
<1> QED
  BY <1>9, <1>10, <1>11, <1>12, <1>13, <1>14, <1>15 DEF Next, Server, Handler

\* Each step lets the file of an open sole user only grow.
LEMMA EveryStepGrows == ASSUME IInv, AtEnd, [Next]_vars PROVE GrowsStep
<1>1. SUFFICES ASSUME NEW l \in OpenFileLoggers, SoleUser(l)
               PROVE  LET f == g_loggers[l].logger.dest_filename IN
                      /\ Len(disk'[f]) >= Len(disk[f])
                      /\ \A i \in 1 .. Len(disk[f]) : disk'[f][i] = disk[f][i]
  BY DEF GrowsStep
<1> DEFINE f == g_loggers[l].logger.dest_filename
<1>2. disk[f] \in Seq(Line \cup {NONE})
  BY DEF OpenFileLoggers, IInv, PathOK, TypeOK, FsTypeOK
<1>3. CASE disk'[f] = disk[f]
  <2> HIDE DEF f
  <2>1. Len(disk'[f]) >= Len(disk[f]) /\ \A i \in 1 .. Len(disk[f]) : disk'[f][i] = disk[f][i]
    BY <1>2, <1>3, SMTT(60)
  <2> QED
    BY <2>1 DEF f
<1>4. CASE do_write_log
  BY <1>1, <1>4, WriteGrows
<1>5. CASE do_start_log \/ do_clear_log \/ do_clear_logs
  BY <1>1, <1>3, <1>5, NotTruncated
<1>6. CASE UNCHANGED disk
  BY <1>3, <1>6
<1> QED
  BY <1>4, <1>5, <1>6, OtherSteps DEF vars, fsVars

\* For any number of loggers, files and descriptors: while a file logger stays open and no
\* other logger of the list names its file, that file only grows at its end.
THEOREM OpenLogsGrow == Spec => OpenLogOnlyGrows
<1>1. Init => AtEnd
  BY DEF Init, AtEnd, NoLoggers, OpenFileLoggers
<1>2. IInv /\ AtEnd /\ [Next]_vars => AtEnd'
  BY AtEndStep
<1>3. IInv /\ AtEnd /\ [Next]_vars => [GrowsStep]_vars
  BY EveryStepGrows
<1> QED
  BY <1>1, <1>2, <1>3, Invariance, PTL DEF Spec, OpenLogOnlyGrows, GrowsStep

-----------------------------------------------------------------------------
(* What a cleared log is like *)

\* The entry l is closed and its file, if it has one, empty.
Cleared(l) == ~IsOpen(l) /\ (IsFile(l) => disk[g_loggers[l].logger.dest_filename] = <<>>)

\* Truncating for a set of loggers empties the files of its file loggers.
LEMMA TruncatedIsEmpty ==
  ASSUME IInv, NEW ok, NEW l \in ok, l \in DOMAIN g_loggers, IsFile(l)
  PROVE  Truncated(ok)[g_loggers[l].logger.dest_filename] = <<>>
<1>1. g_loggers[l].logger.dest_filename \in File
  BY DEF IInv, PathOK
<1> QED
  BY <1>1 DEF Truncated

\* A successful do_clear_log leaves its logger cleared.
LEMMA ClearLogClears ==
  ASSUME IInv, do_clear_log, result' = "OK" PROVE g_loggers' = g_loggers /\ m' = m /\ Cleared(m.logger)'
<1> DEFINE l == m.logger
<1>1. /\ g_loggers' = g_loggers /\ m' = m /\ l \in DOMAIN g_loggers /\ ~IsOpen(l)
      /\ ~IsFile(l) \/ disk' = Truncated({l})
  BY DEF do_clear_log, Return, find_logger
<1>2. ~IsOpen(l)' /\ (IsFile(l)' <=> IsFile(l)) /\ l' = l
  BY <1>1 DEF IsOpen, IsFile, find_logger
<1>3. IsFile(l) => disk'[g_loggers[l].logger.dest_filename] = <<>>
  <2> SUFFICES ASSUME IsFile(l) PROVE disk'[g_loggers[l].logger.dest_filename] = <<>>
    OBVIOUS
  <2>1. disk' = Truncated({l}) /\ l \in {l}
    BY <1>1
  <2> QED
    BY <2>1, <1>1, TruncatedIsEmpty
<1> QED
  BY <1>1, <1>2, <1>3 DEF Cleared

\* A successful do_clear_logs leaves every logger cleared.
LEMMA ClearLogsClears ==
  ASSUME IInv, do_clear_logs, result' = "OK", NEW l \in DOMAIN g_loggers
  PROVE  g_loggers' = g_loggers /\ Cleared(l)'
<1>1. PICK ok \in SUBSET ClosedFileLoggers :
        /\ disk' = Truncated(ok)
        /\ result' = IF ok = ClosedFileLoggers /\ \A k \in DOMAIN g_loggers : ~IsOpen(k)
                     THEN "OK" ELSE "LS_ERR_LOGGER_OPEN"
  BY DEF do_clear_logs
<1>2. ok = ClosedFileLoggers /\ ~IsOpen(l)
  BY <1>1
<1>3. g_loggers' = g_loggers
  BY DEF do_clear_logs, lsVars
<1>4. ~IsOpen(l)' /\ (IsFile(l)' <=> IsFile(l))
  BY <1>2, <1>3 DEF IsOpen, IsFile, find_logger
<1>5. IsFile(l) => disk'[g_loggers[l].logger.dest_filename] = <<>>
  <2> SUFFICES ASSUME IsFile(l) PROVE disk'[g_loggers[l].logger.dest_filename] = <<>>
    OBVIOUS
  <2>1. l \in ok
    BY <1>2 DEF ClosedFileLoggers
  <2> QED
    BY <2>1, <1>1, TruncatedIsEmpty
<1> QED
  BY <1>3, <1>4, <1>5 DEF Cleared

\* No step breaks it: between the handler and the reply nothing touches the list or a file.
LEMMA ClearedStep == ASSUME IInv, ClearedIsEmpty, [Next]_vars PROVE ClearedIsEmpty'
<1> SUFFICES ASSUME pc' = "reply", result' = "OK", m'.m_type \in {"LS_CLEAR_LOG", "LS_CLEAR_ALL"},
                    NEW l \in DOMAIN g_loggers', m'.m_type = "LS_CLEAR_ALL" \/ l = m'.logger
             PROVE  Cleared(l)'
  BY DEF ClearedIsEmpty, Cleared
<1>1. CASE UNCHANGED vars \/ \E c \in Client : Call(c) \/ Exec(c) \/ Spawn(c) \/ Die(c)
  <2>1. UNCHANGED <<g_loggers, disk, pc, result, m>>
    BY <1>1 DEF vars, Call, Exec, Spawn, Die, serverVars, lsVars, fsVars
  <2>2. Cleared(l)
    BY <2>1 DEF ClearedIsEmpty, Cleared
  <2> QED
    BY <2>1, <2>2 DEF Cleared, IsOpen, IsFile, find_logger
<1>2. CASE wait_request \/ ensure_initialized \/ reply
  BY <1>2 DEF wait_request, ensure_initialized, reply
<1>3. CASE HandleInitialize \/ do_start_log \/ do_close_log \/ do_write_log \/ do_set_severity
  BY <1>3 DEF HandleInitialize, do_start_log, do_close_log, do_write_log, do_set_severity, Handling
<1>4. CASE do_clear_log
  <2>1. m' = m /\ m.m_type = "LS_CLEAR_LOG"
    BY <1>4 DEF do_clear_log, Handling
  <2> QED
    BY <1>4, <2>1, ClearLogClears
<1>5. CASE do_clear_logs
  BY <1>5, ClearLogsClears DEF do_clear_logs, lsVars
<1> QED
  BY <1>1, <1>2, <1>3, <1>4, <1>5 DEF Next, Server, Handler, Environment

\* For any number of loggers and files, shared or not: when clearing is answered OK, the logs
\* it was asked for are closed and empty.
THEOREM ClearingEmpties == Spec => []ClearedIsEmpty
<1>1. Init => ClearedIsEmpty
  BY DEF Init, ClearedIsEmpty
<1>2. IInv /\ ClearedIsEmpty /\ [Next]_vars => ClearedIsEmpty'
  BY ClearedStep
<1> QED
  BY <1>1, <1>2, Invariance, PTL DEF Spec

-----------------------------------------------------------------------------
(* LSServer implements LoggerOwnership *)

\* An open logger belongs to a process, only a live process is blocked on a call, and
\* LS_INITIALIZE is not preceded by an implicit initialisation.
RInv ==
  /\ \A l \in DOMAIN g_loggers : g_loggers[l].state.is_open => g_loggers[l].state.opened_by \in Client
  /\ \A c \in Client : status[c] # "alive" => call[c] = NONE
  /\ pc = "init" => m.m_type # "LS_INITIALIZE"

-----------------------------------------------------------------------------
(* RInv is invariant *)

\* An early return of a handler changes no logger.
LEMMA ReturnKeeps == ASSUME NEW ret, Return(ret) PROVE g_loggers' = g_loggers
BY DEF Return

\* A handler leaves every open logger in the hands of a process: it changes none, makes
\* new ones closed, or opens one for the process it serves.
LEMMA HandlerKeeps ==
  ASSUME IInv, RInv, Handler
  PROVE  RInv'
<1>1. source \in Client /\ status' = status /\ call' = call /\ pc' = "reply"
  BY DEF IInv, TypeOK, LoopTypeOK, Handler, HandleInitialize, do_start_log, do_close_log,
         do_write_log, do_set_severity, do_clear_log, do_clear_logs, Handling, clientVars
<1>2. SUFFICES ASSUME NEW l \in DOMAIN g_loggers', g_loggers'[l].state.is_open
               PROVE  g_loggers'[l].state.opened_by \in Client
  BY <1>1 DEF RInv
<1>3. CASE HandleInitialize
  BY <1>2, <1>3, InitializeList DEF HandleInitialize
<1>4. CASE do_start_log
  <2>1. CASE g_loggers' = g_loggers
    BY <1>2, <2>1 DEF RInv
  <2>2. CASE \E fd \in FD \cup {-1} :
               g_loggers' = [g_loggers EXCEPT ![m.logger].state =
                               OpenedState(g_loggers[m.logger].logger, fd)]
    BY <1>1, <1>2, <2>2, SMTT(60) DEF RInv, OpenedState
  <2> QED
    BY <1>4, <2>1, <2>2, ReturnKeeps DEF do_start_log
<1>5. CASE do_close_log
  <2>1. CASE g_loggers' = g_loggers
    BY <1>2, <2>1 DEF RInv
  <2>2. CASE g_loggers' = [g_loggers EXCEPT ![m.logger].state = ClosedState(@)]
    BY <1>2, <2>2, SMTT(60) DEF RInv, ClosedState, IInv, TypeOK, LsTypeOK, ls_logger_state_t
  <2> QED
    BY <1>5, <2>1, <2>2, ReturnKeeps DEF do_close_log
<1>6. CASE do_set_severity
  <2>1. CASE g_loggers' = g_loggers
    BY <1>2, <2>1 DEF RInv
  <2>2. CASE g_loggers' = [g_loggers EXCEPT ![m.logger].state = [@ EXCEPT !.severity = m.severity]]
    BY <1>2, <2>2, SMTT(60) DEF RInv, IInv, TypeOK, LsTypeOK, ls_logger_state_t
  <2> QED
    BY <1>6, <2>1, <2>2, ReturnKeeps DEF do_set_severity
<1>7. CASE do_write_log \/ do_clear_log \/ do_clear_logs
  <2>1. g_loggers' = g_loggers
    BY <1>7, ReturnKeeps DEF do_write_log, do_clear_log, do_clear_logs, lsVars
  <2> QED
    BY <1>2, <2>1 DEF RInv
<1> QED
  BY <1>3, <1>4, <1>5, <1>6, <1>7 DEF Handler

\* So does every other step.
LEMMA StepKeeps == ASSUME IInv, RInv, [Next]_vars PROVE RInv'
<1> USE DEF RInv
<1>1. CASE Handler
  BY <1>1, HandlerKeeps
<1>2. CASE wait_request
  BY <1>2 DEF wait_request, lsVars
<1>3. CASE ensure_initialized
  BY <1>3, InitializeList DEF ensure_initialized, clientVars
<1>4. CASE reply
  BY <1>4 DEF reply, lsVars, IInv, TypeOK, ClientTypeOK
<1>5. ASSUME NEW c \in Client, Call(c) \/ Exec(c) \/ Spawn(c) \/ Die(c) PROVE RInv'
  BY <1>5 DEF Call, Exec, Spawn, Die, serverVars, lsVars, IInv, TypeOK, ClientTypeOK
<1>6. CASE UNCHANGED vars
  BY <1>6 DEF vars, lsVars, clientVars
<1> QED
  BY <1>1, <1>2, <1>3, <1>4, <1>5, <1>6 DEF Next, Server, Environment

\* The invariant the refinement uses.
LEMMA RInvariance == Spec => []RInv
<1>1. Init => RInv
  BY DEF Init, RInv, NoLoggers
<1>2. IInv /\ RInv /\ [Next]_vars => RInv'
  BY StepKeeps
<1> QED
  BY <1>1, <1>2, Invariance, PTL DEF Spec

-----------------------------------------------------------------------------
(* Every step of the server or of a client is a step of the contract *)

\* The owner in the contract is the process that has the logger open.
LEMMA OwnerOf ==
  ASSUME RInv, NEW l \in Logger
  PROVE  /\ IsOpen(l) => ownerBar[l] = g_loggers[l].state.opened_by /\ ownerBar[l] # NONE
         /\ ~IsOpen(l) => ownerBar[l] = NONE
BY NoneAssumption DEF RInv, ownerBar, IsOpen, find_logger

\* A list in which every logger is closed is a closed table.
LEMMA AllClosed ==
  (\A l \in DOMAIN g_loggers : ~g_loggers[l].state.is_open) => ownerBar = Contract!Closed
BY DEF ownerBar, IsOpen, find_logger, Contract!Closed

\* A handler serves the unanswered request of its caller, and its result is the answer.
LEMMA Serves ==
  ASSUME IInv, pc \in {"init", "handle"}, pc' = "reply", result' \in Result,
         UNCHANGED <<m, source, call>>
  PROVE  /\ source \in Client /\ m \in Request /\ m \in Message
         /\ reqBar[source] = m /\ reqBar[source] # NONE /\ ansBar[source] = NONE
         /\ reqBar' = reqBar
         /\ ansBar' = [ansBar EXCEPT ![source] = result']
<1>1. source \in Client /\ m \in Request /\ m # NONE /\ result = NONE /\ m \in Message
  BY NoneAssumption, RequestAssumption DEF IInv, TypeOK, LoopTypeOK
<1>2. reqBar[source] = m /\ ansBar[source] = NONE
  BY <1>1 DEF reqBar, ansBar
<1>3. reqBar' = reqBar
  BY DEF reqBar
<1>4. ansBar' = [c \in Client |-> IF source = c THEN result' ELSE NONE]
  BY DEF ansBar
<1>5. ansBar' = [ansBar EXCEPT ![source] = result']
  BY <1>1, <1>4 DEF ansBar
<1> QED
  BY <1>1, <1>2, <1>3, <1>5

\* An early return changes neither the list nor its owners.
LEMMA ReturnSame ==
  ASSUME g_loggers' = g_loggers
  PROVE  knownBar' = knownBar /\ ownerBar' = ownerBar
BY DEF knownBar, ownerBar, IsOpen, find_logger

\* The refusals that every handler naming a logger shares.
LEMMA Refusals ==
  ASSUME IInv, RInv, pc = "handle", pc' = "reply", UNCHANGED <<m, source, call>>,
         g_loggers' = g_loggers,
         \/ /\ m.m_type \in {"LS_START_LOG", "LS_CLOSE_LOG", "LS_WRITE_LOG", "LS_SET_SEVERITY",
                             "LS_CLEAR_LOG"}
            /\ ~find_logger(m.logger) /\ result' = "LS_ERR_NO_SUCH_LOGGER"
         \/ /\ m.m_type \in {"LS_START_LOG", "LS_SET_SEVERITY", "LS_CLEAR_LOG"}
            /\ IsOpen(m.logger) /\ result' = "LS_ERR_LOGGER_OPEN"
         \/ /\ m.m_type \in {"LS_CLOSE_LOG", "LS_WRITE_LOG"}
            /\ find_logger(m.logger) /\ ~IsOpen(m.logger) /\ result' = "LS_ERR_LOGGER_NOT_OPEN"
         \/ /\ m.m_type \in {"LS_CLOSE_LOG", "LS_WRITE_LOG"}
            /\ IsOpen(m.logger) /\ ~IsOwner(m.logger) /\ result' = "LS_ERR_PERMISSION_DENIED"
  PROVE  Contract!Perform(source)
<1>1. /\ source \in Client /\ m \in Message
      /\ reqBar[source] = m /\ reqBar[source] # NONE /\ ansBar[source] = NONE
      /\ reqBar' = reqBar
      /\ ansBar' = [ansBar EXCEPT ![source] = result']
  BY Serves DEF Result
<1>2. m.logger \in Logger
  BY <1>1 DEF Message
<1>3. knownBar' = knownBar /\ ownerBar' = ownerBar
  BY ReturnSame
<1>4. Contract!Same /\ Contract!Answer(source, result')
  BY <1>1, <1>3 DEF Contract!Same, Contract!Answer
<1>5. CASE result' = "LS_ERR_NO_SUCH_LOGGER"
  <2>1. Contract!NoSuchLogger(source)
    BY <1>1, <1>4, <1>5 DEF Contract!NoSuchLogger, Contract!Asks, find_logger, knownBar
  <2> QED
    BY <2>1 DEF Contract!Perform
<1>6. CASE result' = "LS_ERR_LOGGER_OPEN"
  <2>1. ownerBar[m.logger] # NONE /\ m.logger \in knownBar
    BY <1>2, <1>6, OwnerOf DEF IsOpen, find_logger, knownBar
  <2>2. Contract!Busy(source)
    BY <1>1, <1>4, <1>6, <2>1 DEF Contract!Busy, Contract!Asks
  <2> QED
    BY <2>2 DEF Contract!Perform
<1>7. CASE result' = "LS_ERR_LOGGER_NOT_OPEN"
  <2>1. ownerBar[m.logger] = NONE /\ ownerBar[m.logger] # source /\ m.logger \in knownBar
    BY <1>1, <1>2, <1>7, OwnerOf, NoneAssumption DEF find_logger, knownBar
  <2>2. Contract!NotOwner(source)
    BY <1>1, <1>4, <1>7, <2>1 DEF Contract!NotOwner, Contract!Asks
  <2> QED
    BY <2>2 DEF Contract!Perform
<1>8. CASE result' = "LS_ERR_PERMISSION_DENIED"
  <2>1. ownerBar[m.logger] # NONE /\ ownerBar[m.logger] # source /\ m.logger \in knownBar
    BY <1>2, <1>8, OwnerOf DEF IsOpen, IsOwner, find_logger, knownBar
  <2>2. Contract!NotOwner(source)
    BY <1>1, <1>4, <1>8, <2>1 DEF Contract!NotOwner, Contract!Asks
  <2> QED
    BY <2>2 DEF Contract!Perform
<1> QED
  BY <1>5, <1>6, <1>7, <1>8

\* do_start_log is a start, or refuses.
LEMMA StartServes == ASSUME IInv, RInv, do_start_log PROVE Contract!Perform(source)
<1>1. /\ pc = "handle" /\ pc' = "reply" /\ m.m_type = "LS_START_LOG"
      /\ UNCHANGED <<m, source, call>>
  BY DEF do_start_log, Handling, clientVars
<1>2. m \in Message /\ m.logger \in Logger
  BY <1>1, RequestAssumption DEF IInv, TypeOK, LoopTypeOK, Message
<1>3. CASE ~find_logger(m.logger) /\ Return("LS_ERR_NO_SUCH_LOGGER")
  BY <1>1, <1>3, Refusals DEF Return
<1>4. CASE IsOpen(m.logger) /\ Return("LS_ERR_LOGGER_OPEN")
  BY <1>1, <1>4, Refusals DEF Return
<1>5. ASSUME find_logger(m.logger), ~IsOpen(m.logger), Contract!Answer(source, result'),
             result' \in {"OK", "LS_ERR_EXTERNAL"}, knownBar' = knownBar,
             \/ ownerBar' = [ownerBar EXCEPT ![m.logger] = source]
             \/ ownerBar' = ownerBar /\ result' = "LS_ERR_EXTERNAL"
      PROVE  Contract!Perform(source)
  <2>1. ownerBar[m.logger] = NONE /\ m.logger \in knownBar
    BY <1>2, <1>5, OwnerOf DEF find_logger, knownBar
  <2>2. Contract!Asks(source, {"LS_START_LOG"}) /\ reqBar[source] = m
    BY <1>1, <1>5, Serves DEF Contract!Asks, Result
  <2>3. Contract!Start(source)
    BY <1>5, <2>1, <2>2 DEF Contract!Start
  <2> QED
    BY <2>3 DEF Contract!Perform
<1>6. ASSUME result' \in {"OK", "LS_ERR_EXTERNAL"} PROVE Contract!Answer(source, result')
  BY <1>1, <1>6, Serves DEF Contract!Answer, Result
<1>7. CASE find_logger(m.logger) /\ ~IsOpen(m.logger) /\ Return("LS_ERR_EXTERNAL")
  BY <1>5, <1>6, <1>7, ReturnSame DEF Return
<1>8. CASE /\ find_logger(m.logger) /\ ~IsOpen(m.logger)
           /\ \E fd \in FD \cup {-1} :
                g_loggers' = [g_loggers EXCEPT ![m.logger].state =
                                OpenedState(g_loggers[m.logger].logger, fd)]
           /\ \E ret \in Result : get_process_table(ret) /\ result' = ret
  <2>1. result' \in {"OK", "LS_ERR_EXTERNAL"}
    BY <1>8 DEF get_process_table
  <2>2. PICK fd \in FD \cup {-1} :
          g_loggers' = [g_loggers EXCEPT ![m.logger].state =
                          OpenedState(g_loggers[m.logger].logger, fd)]
    BY <1>8
  <2>3. DOMAIN g_loggers' = DOMAIN g_loggers
    BY <2>2
  <2>4. \A l \in DOMAIN g_loggers :
          g_loggers'[l].state = IF l = m.logger THEN OpenedState(g_loggers[m.logger].logger, fd)
                                                ELSE g_loggers[l].state
    BY <1>8, <2>2, SMTT(60) DEF IInv, TypeOK, LsTypeOK
  <2>5. ownerBar' = [ownerBar EXCEPT ![m.logger] = source]
    <3>1. \A l \in Logger : IsOpen(l)' = (IsOpen(l) \/ l = m.logger)
      BY <1>8, <2>3, <2>4, SMTT(60) DEF IsOpen, find_logger, OpenedState
    <3>2. \A l \in Logger :
            IsOpen(l)' => g_loggers'[l].state.opened_by =
                            IF l = m.logger THEN source ELSE g_loggers[l].state.opened_by
      BY <2>3, <2>4, SMTT(60) DEF IsOpen, find_logger, OpenedState
    <3>3. \A l \in Logger : ownerBar'[l] = IF l = m.logger THEN source ELSE ownerBar[l]
      BY <3>1, <3>2 DEF ownerBar
    <3> QED
      BY <1>2, <3>3 DEF ownerBar
  <2> QED
    BY <1>5, <1>6, <1>8, <2>1, <2>3, <2>5 DEF knownBar
<1> QED
  BY <1>3, <1>4, <1>7, <1>8 DEF do_start_log

\* do_close_log is a close by the owner, or refuses.
LEMMA CloseServes == ASSUME IInv, RInv, do_close_log PROVE Contract!Perform(source)
<1>1. /\ pc = "handle" /\ pc' = "reply" /\ m.m_type = "LS_CLOSE_LOG"
      /\ UNCHANGED <<m, source, call>>
  BY DEF do_close_log, Handling, clientVars
<1>2. m \in Message /\ m.logger \in Logger
  BY <1>1, RequestAssumption DEF IInv, TypeOK, LoopTypeOK, Message
<1>3. CASE \/ ~find_logger(m.logger) /\ Return("LS_ERR_NO_SUCH_LOGGER")
           \/ find_logger(m.logger) /\ ~IsOpen(m.logger) /\ Return("LS_ERR_LOGGER_NOT_OPEN")
           \/ IsOpen(m.logger) /\ ~IsOwner(m.logger) /\ Return("LS_ERR_PERMISSION_DENIED")
  BY <1>1, <1>3, Refusals DEF Return
<1>4. CASE /\ IsOpen(m.logger) /\ IsOwner(m.logger) /\ result' = "OK"
           /\ g_loggers' = [g_loggers EXCEPT ![m.logger].state = ClosedState(@)]
  <2>1. \A l \in DOMAIN g_loggers :
          g_loggers'[l].state = IF l = m.logger THEN ClosedState(g_loggers[l].state)
                                                ELSE g_loggers[l].state
    BY <1>4 DEF IInv, TypeOK, LsTypeOK
  <2>2. DOMAIN g_loggers' = DOMAIN g_loggers
    BY <1>4
  <2>3. \A l \in DOMAIN g_loggers : g_loggers[l].state \in ls_logger_state_t
    BY DEF IInv, TypeOK, LsTypeOK
  <2>4. \A l \in Logger : IsOpen(l)' = (IsOpen(l) /\ l # m.logger)
    BY <2>1, <2>2, <2>3 DEF IsOpen, find_logger, ClosedState, ls_logger_state_t
  <2>5. \A l \in Logger :
          l # m.logger /\ IsOpen(l) => g_loggers'[l].state.opened_by = g_loggers[l].state.opened_by
    BY <2>1 DEF IsOpen, find_logger
  <2>6. \A l \in Logger : ownerBar'[l] = IF l = m.logger THEN NONE ELSE ownerBar[l]
    BY <2>4, <2>5 DEF ownerBar
  <2>7. ownerBar' = [ownerBar EXCEPT ![m.logger] = NONE]
    BY <1>2, <2>6 DEF ownerBar
  <2>8. ownerBar[m.logger] = source /\ m.logger \in knownBar
    BY <1>2, <1>4, OwnerOf DEF IsOwner, IsOpen, find_logger, knownBar
  <2>9. Contract!Close(source)
    BY <1>1, <1>4, <2>2, <2>7, <2>8, Serves
       DEF Contract!Close, Contract!Asks, Contract!Answer, knownBar, Result
  <2> QED
    BY <2>9 DEF Contract!Perform
<1> QED
  BY <1>3, <1>4 DEF do_close_log

\* do_write_log serves the owner and refuses everyone else.
LEMMA WriteServes == ASSUME IInv, RInv, do_write_log PROVE Contract!Perform(source)
<1>1. /\ pc = "handle" /\ pc' = "reply" /\ m.m_type = "LS_WRITE_LOG"
      /\ UNCHANGED <<m, source, call>>
  BY DEF do_write_log, Handling, clientVars
<1>2. m \in Message /\ m.logger \in Logger
  BY <1>1, RequestAssumption DEF IInv, TypeOK, LoopTypeOK, Message
<1>3. CASE \/ ~find_logger(m.logger) /\ Return("LS_ERR_NO_SUCH_LOGGER")
           \/ find_logger(m.logger) /\ ~IsOpen(m.logger) /\ Return("LS_ERR_LOGGER_NOT_OPEN")
           \/ IsOpen(m.logger) /\ ~IsOwner(m.logger) /\ Return("LS_ERR_PERMISSION_DENIED")
  BY <1>1, <1>3, Refusals DEF Return
<1>4. CASE /\ IsOpen(m.logger) /\ IsOwner(m.logger)
           /\ result' \in {"OK", "EFAULT", "LS_ERR_EXTERNAL"} /\ g_loggers' = g_loggers
  <2>1. ownerBar[m.logger] = source /\ m.logger \in knownBar
    BY <1>2, <1>4, OwnerOf DEF IsOwner, IsOpen, find_logger, knownBar
  <2>2. Contract!Write(source)
    BY <1>1, <1>4, <2>1, Serves, ReturnSame
       DEF Contract!Write, Contract!Asks, Contract!Answer, Contract!Same, Result
  <2> QED
    BY <2>2 DEF Contract!Perform
<1>5. CASE IsOpen(m.logger) /\ IsOwner(m.logger) /\ (Return("EFAULT") \/ Return("OK"))
  BY <1>4, <1>5 DEF Return
<1> QED
  BY <1>3, <1>4, <1>5 DEF do_write_log

\* Changing the severity of a logger or clearing one succeeds only while it is closed.
LEMMA ManageServes ==
  ASSUME IInv, RInv, do_set_severity \/ do_clear_log
  PROVE  Contract!Perform(source)
<1>1. /\ pc = "handle" /\ pc' = "reply" /\ m.m_type \in {"LS_SET_SEVERITY", "LS_CLEAR_LOG"}
      /\ UNCHANGED <<m, source, call>>
  BY DEF do_set_severity, do_clear_log, Handling, clientVars
<1>2. m \in Message /\ m.logger \in Logger
  BY <1>1, RequestAssumption DEF IInv, TypeOK, LoopTypeOK, Message
<1>3. CASE \/ ~find_logger(m.logger) /\ Return("LS_ERR_NO_SUCH_LOGGER")
           \/ IsOpen(m.logger) /\ Return("LS_ERR_LOGGER_OPEN")
  BY <1>1, <1>3, Refusals DEF Return
<1>4. CASE /\ find_logger(m.logger) /\ ~IsOpen(m.logger)
           /\ \/ result' = "OK"
              \/ m.m_type = "LS_CLEAR_LOG" /\ result' = "LS_ERR_EXTERNAL"
           /\ knownBar' = knownBar /\ ownerBar' = ownerBar
  <2>1. ownerBar[m.logger] = NONE /\ m.logger \in knownBar
    BY <1>2, <1>4, OwnerOf DEF find_logger, knownBar
  <2>2. Contract!Manage(source)
    BY <1>1, <1>4, <2>1, Serves
       DEF Contract!Manage, Contract!Asks, Contract!Answer, Contract!Same, Result
  <2> QED
    BY <2>2 DEF Contract!Perform
<1>5. CASE do_clear_log
  BY <1>3, <1>4, <1>5, ReturnSame DEF do_clear_log, Return, Handling
<1>6. CASE /\ find_logger(m.logger) /\ ~IsOpen(m.logger) /\ result' = "OK"
           /\ g_loggers' = [g_loggers EXCEPT ![m.logger].state = [@ EXCEPT !.severity = m.severity]]
  <2>1. DOMAIN g_loggers' = DOMAIN g_loggers
    BY <1>6
  <2>2. \A l \in DOMAIN g_loggers :
          /\ g_loggers'[l].state.is_open = g_loggers[l].state.is_open
          /\ g_loggers'[l].state.opened_by = g_loggers[l].state.opened_by
    BY <1>6, SMTT(60) DEF IInv, TypeOK, LsTypeOK, ls_logger_state_t
  <2>3. ownerBar' = ownerBar
    BY <2>1, <2>2 DEF ownerBar, IsOpen, find_logger
  <2> QED
    BY <1>4, <1>6, <2>1, <2>3 DEF knownBar
<1> QED
  BY <1>3, <1>5, <1>6 DEF do_set_severity

\* do_clear_logs answers OK only when no logger is open.
LEMMA ClearAllServes == ASSUME IInv, RInv, do_clear_logs PROVE Contract!Perform(source)
<1>1. /\ pc = "handle" /\ pc' = "reply" /\ m.m_type = "LS_CLEAR_ALL"
      /\ UNCHANGED <<m, source, call>> /\ g_loggers' = g_loggers
      /\ \/ result' = "OK" /\ \A l \in DOMAIN g_loggers : ~IsOpen(l)
         \/ result' = "LS_ERR_LOGGER_OPEN"
  BY DEF do_clear_logs, Handling, clientVars, lsVars
<1>2. result' = "OK" => ownerBar = Contract!Closed
  BY <1>1, AllClosed DEF IsOpen, find_logger
<1>3. Contract!ClearAll(source)
  BY <1>1, <1>2, Serves, ReturnSame
     DEF Contract!ClearAll, Contract!Asks, Contract!Answer, Contract!Same, Result
<1> QED
  BY <1>3 DEF Contract!Perform

\* do_initialize resets the table, and an error of the parser leaves it empty.
LEMMA InitializeResets ==
  ASSUME NEW ret, do_initialize(ret)
  PROVE  /\ Contract!Reset
         /\ ret \in {"OK", "EINVAL", "ENOMEM", "EIO", "EPERM", "LS_ERR_EXTERNAL"}
         /\ ret \notin {"OK", "LS_ERR_EXTERNAL"} => knownBar' = {}
<1>1. ownerBar' = Contract!Closed
  BY InitializeList DEF ownerBar, IsOpen, find_logger, Contract!Closed
<1>2. Contract!Reset
  BY <1>1, InitializeList DEF Contract!Reset, Contract!Closed, knownBar
<1>3. ret \notin {"OK", "LS_ERR_EXTERNAL"} => g_loggers' = NoLoggers
  BY DEF do_initialize, get_process_table
<1>4. DOMAIN NoLoggers = {}
  BY DEF NoLoggers
<1>5. ret \in {"OK", "EINVAL", "ENOMEM", "EIO", "EPERM", "LS_ERR_EXTERNAL"}
  BY DEF do_initialize, get_process_table
<1> QED
  BY <1>2, <1>3, <1>4, <1>5 DEF knownBar

\* LS_INITIALIZE is an explicit initialisation.
LEMMA InitializeServes == ASSUME IInv, RInv, HandleInitialize PROVE Contract!Perform(source)
<1>1. PICK ret \in Result : do_initialize(ret) /\ result' = ret
  BY DEF HandleInitialize
<1>2. /\ pc = "handle" /\ pc' = "reply" /\ m.m_type = "LS_INITIALIZE"
      /\ UNCHANGED <<m, source, call>>
  BY DEF HandleInitialize, Handling, clientVars
<1>3. Contract!Asks(source, {"LS_INITIALIZE"}) /\ Contract!Answer(source, ret)
  BY <1>1, <1>2, Serves DEF Contract!Asks, Contract!Answer
<1>4. Contract!ExplicitInitialise(source)
  BY <1>1, <1>3, InitializeResets DEF Contract!ExplicitInitialise
<1> QED
  BY <1>4 DEF Contract!Perform

\* ensure_initialized is a reset before the effect, or refuses the request.
LEMMA EnsureServes ==
  ASSUME IInv, RInv, ensure_initialized
  PROVE  source \in Client /\ (Contract!Initialise(source) \/ Contract!Perform(source))
<1>1. PICK ret \in Result :
        /\ do_initialize(ret)
        /\ \/ ret = "OK" /\ pc' = "handle" /\ UNCHANGED result
           \/ pc' = "reply" /\ result' = "LS_ERR_INIT_FAILED"
  BY DEF ensure_initialized
<1>2. pc = "init" /\ UNCHANGED <<m, source, call>>
  BY DEF ensure_initialized, clientVars
<1>3. source \in Client /\ m \in Message /\ m # NONE /\ result = NONE
  BY <1>2, NoneAssumption, RequestAssumption DEF IInv, TypeOK, LoopTypeOK
<1>4. Contract!Reset
  BY <1>1, InitializeResets
<1>5. CASE pc' = "handle" /\ UNCHANGED result
  <2>1. reqBar[source] # NONE /\ ansBar[source] = NONE /\ UNCHANGED <<reqBar, ansBar>>
    BY <1>2, <1>3, <1>5 DEF reqBar, ansBar
  <2> QED
    BY <1>3, <1>4, <2>1 DEF Contract!Initialise
<1>6. CASE pc' = "reply" /\ result' = "LS_ERR_INIT_FAILED"
  <2>1. m.m_type \in MsgType
    BY <1>3 DEF Message
  <2>2. CASE m.m_type # "LS_INITIALIZE"
    <3>1. Contract!Refuse(source)
      BY <1>2, <1>4, <1>6, <2>1, <2>2, Serves
         DEF Contract!Refuse, Contract!Asks, Contract!Answer, Result, MsgType
    <3> QED
      BY <1>3, <3>1 DEF Contract!Perform
  <2> QED
    BY <1>2, <2>2 DEF RInv
<1> QED
  BY <1>1, <1>5, <1>6

\* Taking a request off the queue is invisible, unless main() refuses it at once.
LEMMA ReceiveServes ==
  ASSUME IInv, RInv, wait_request
  PROVE  \/ UNCHANGED <<knownBar, ownerBar, reqBar, ansBar>>
         \/ \E c \in Client : Contract!Perform(c)
<1>1. /\ pc = "receive" /\ queue # <<>> /\ source' = Head(queue) /\ m' = call[Head(queue)]
      /\ g_loggers' = g_loggers /\ call' = call
      /\ \/ BadArguments(m') /\ result' = "EINVAL"
         \/ ~BadArguments(m') /\ result' = result
  BY DEF wait_request, lsVars
<1>2. m = NONE /\ source = NONE /\ result = NONE
  BY <1>1 DEF IInv, TypeOK, LoopTypeOK
<1>3. Head(queue) \in Client /\ queue[1] = Head(queue) /\ 1 \in 1 .. Len(queue)
  BY <1>1, SMTT(60) DEF IInv, TypeOK, ClientTypeOK
<1>4. m' # NONE /\ m' \in Message
  BY <1>1, <1>3, RequestAssumption DEF IInv, QueueOK, TypeOK, ClientTypeOK
<1>5. knownBar' = knownBar /\ ownerBar' = ownerBar
  BY <1>1, ReturnSame
<1>6. reqBar' = reqBar /\ reqBar[source'] = m'
  BY <1>1, <1>2, <1>3, NoneAssumption DEF reqBar
<1>7. ansBar = [c \in Client |-> NONE]
  BY <1>2, NoneAssumption DEF ansBar
<1>8. ansBar' = [ansBar EXCEPT ![source'] = result']
  BY <1>1, <1>3, <1>7 DEF ansBar
<1>9. CASE result' = result
  BY <1>2, <1>5, <1>6, <1>7, <1>8, <1>9
<1>10. CASE BadArguments(m') /\ result' = "EINVAL"
  <2>1. m'.m_type \in {"UNDEFINED", "LS_WRITE_LOG", "LS_SET_SEVERITY"}
    BY <1>10 DEF BadArguments
  <2>2. Contract!Same /\ Contract!Answer(source', "EINVAL")
    BY <1>5, <1>6, <1>8, <1>10 DEF Contract!Same, Contract!Answer
  <2>3. Contract!Asks(source', {"UNDEFINED", "LS_START_LOG", "LS_CLOSE_LOG", "LS_WRITE_LOG",
              "LS_SET_SEVERITY", "LS_CLEAR_LOG", "LS_CLEAR_ALL"})
    BY <1>1, <1>3, <1>4, <1>6, <1>7, <2>1 DEF Contract!Asks
  <2>4. Contract!Perform(source')
    BY <2>2, <2>3 DEF Contract!Perform, Contract!Refuse
  <2> QED
    BY <1>1, <1>3, <2>4
<1> QED
  BY <1>1, <1>9, <1>10

\* The reply, sent or not, ends the request.
LEMMA ReplyServes == ASSUME IInv, RInv, reply PROVE \E c \in Client : Contract!Respond(c)
<1>1. /\ pc = "reply" /\ source' = NONE /\ m' = NONE /\ result' = NONE /\ g_loggers' = g_loggers
      /\ \/ call' = [call EXCEPT ![source] = NONE]
         \/ status[source] # "alive" /\ call' = call
  BY DEF reply, lsVars
<1>2. source \in Client /\ result \in Result /\ result # NONE
  BY <1>1, NoneAssumption DEF IInv, TypeOK, LoopTypeOK
<1>3. call \in [Client -> Request \cup {NONE}]
  BY DEF IInv, TypeOK, ClientTypeOK
<1>4. call' = [call EXCEPT ![source] = NONE]
  BY <1>1, <1>2, <1>3 DEF RInv
<1>5. reqBar' = [reqBar EXCEPT ![source] = NONE]
  BY <1>1, <1>2, <1>3, <1>4, NoneAssumption DEF reqBar
<1>6. ansBar[source] # NONE /\ ansBar' = [ansBar EXCEPT ![source] = NONE]
  BY <1>1, <1>2, NoneAssumption DEF ansBar
<1>7. Contract!Respond(source)
  BY <1>1, <1>5, <1>6, ReturnSame DEF Contract!Respond
<1> QED
  BY <1>2, <1>7

\* Calling invokes a request; dying withdraws the one not yet taken up; birth and exec
\* are invisible.
LEMMA ClientServes ==
  ASSUME IInv, RInv, NEW c \in Client, Call(c) \/ Exec(c) \/ Spawn(c) \/ Die(c)
  PROVE  \/ UNCHANGED <<knownBar, ownerBar, reqBar, ansBar>>
         \/ Contract!Invoke(c) \/ Contract!Withdraw(c)
<1>1. /\ UNCHANGED <<g_loggers, m, source, result, pc>>
      /\ knownBar' = knownBar /\ ownerBar' = ownerBar /\ ansBar' = ansBar
  <2>1. UNCHANGED <<g_loggers, m, source, result, pc>>
    BY DEF Call, Exec, Spawn, Die, serverVars, lsVars
  <2> QED
    BY <2>1, ReturnSame DEF ansBar
<1>2. call \in [Client -> Request \cup {NONE}]
  BY DEF IInv, TypeOK, ClientTypeOK
<1>3. CASE Exec(c) \/ Spawn(c)
  BY <1>1, <1>3 DEF Exec, Spawn, reqBar
<1>4. CASE Call(c)
  <2>1. source # c
    <3>1. CASE pc = "receive"
      BY <3>1, NoneAssumption DEF IInv, TypeOK, LoopTypeOK
    <3>2. CASE pc # "receive"
      BY <1>4, <3>2 DEF Call, IInv, ServingOK
    <3> QED
      BY <3>1, <3>2
  <2>2. PICK r \in Request : call' = [call EXCEPT ![c] = r]
    BY <1>4 DEF Call
  <2>3. reqBar[c] = NONE /\ reqBar' = [reqBar EXCEPT ![c] = r]
    <3>1. call[c] = NONE
      BY <1>4 DEF Call
    <3>2. reqBar[c] = NONE
      BY <2>1, <3>1 DEF reqBar
    <3>3. \A d \in Client : reqBar'[d] = IF d = c THEN r ELSE reqBar[d]
      BY <1>1, <1>2, <2>1, <2>2 DEF reqBar
    <3> QED
      BY <3>2, <3>3 DEF reqBar
  <2> QED
    BY <1>1, <2>3 DEF Contract!Invoke
<1>5. CASE Die(c)
  <2>1. call' = [call EXCEPT ![c] = NONE]
    BY <1>5 DEF Die
  <2>2. CASE source = c \/ call[c] = NONE
    BY <1>1, <1>2, <2>1, <2>2 DEF reqBar
  <2>3. CASE source # c /\ call[c] # NONE
    <3>1. reqBar[c] # NONE /\ ansBar[c] = NONE /\ reqBar' = [reqBar EXCEPT ![c] = NONE]
      BY <1>1, <1>2, <2>1, <2>3 DEF reqBar, ansBar
    <3> QED
      BY <1>1, <3>1 DEF Contract!Withdraw
  <2> QED
    BY <2>2, <2>3
<1> QED
  BY <1>3, <1>4, <1>5

\* A step that leaves the model's variables alone leaves the contract's alone.
LEMMA StutterServes ==
  ASSUME UNCHANGED vars
  PROVE  UNCHANGED <<knownBar, ownerBar, reqBar, ansBar>>
BY DEF vars, lsVars, clientVars, knownBar, ownerBar, reqBar, ansBar, IsOpen, find_logger

\* Every step of the model is one step of the contract or none.
LEMMA StepServes == ASSUME IInv, RInv, [Next]_vars PROVE [Contract!Next]_(Contract!vars)
<1>1. SUFFICES \/ UNCHANGED <<knownBar, ownerBar, reqBar, ansBar>>
               \/ \E c \in Client : \/ Contract!Invoke(c) \/ Contract!Withdraw(c)
                                    \/ Contract!Initialise(c) \/ Contract!Perform(c)
                                    \/ Contract!Respond(c)
  BY DEF Contract!Next, Contract!vars
<1>2. CASE Handler
  <2>1. Contract!Perform(source)
    BY <1>2, InitializeServes, StartServes, CloseServes, WriteServes, ManageServes, ClearAllServes
       DEF Handler
  <2>2. source \in Client
    BY <1>2 DEF IInv, TypeOK, LoopTypeOK, Handler, HandleInitialize, do_start_log, do_close_log,
                do_write_log, do_set_severity, do_clear_log, do_clear_logs, Handling
  <2> QED
    BY <2>1, <2>2
<1>3. CASE wait_request
  BY <1>3, ReceiveServes
<1>4. CASE ensure_initialized
  BY <1>4, EnsureServes
<1>5. CASE reply
  BY <1>5, ReplyServes
<1>6. CASE Environment
  BY <1>6, ClientServes DEF Environment
<1>7. CASE UNCHANGED vars
  BY <1>7, StutterServes
<1> QED
  BY <1>2, <1>3, <1>4, <1>5, <1>6, <1>7 DEF Next, Server

-----------------------------------------------------------------------------
\* The log server implements its contract: for any number of clients, loggers, requests
\* and descriptors, every request takes effect at one instant on the table of owners
\* and is answered accordingly.
THEOREM Refinement == Spec => ServesContract
<1>1. Init => Contract!Init
  BY NoneAssumption DEF Init, Contract!Init, Contract!Closed, NoLoggers, knownBar, ownerBar, reqBar,
         ansBar, IsOpen, find_logger
<1>2. IInv /\ RInv /\ [Next]_vars => [Contract!Next]_(Contract!vars)
  BY StepServes
<1> QED
  BY <1>1, <1>2, Invariance, RInvariance, PTL DEF Spec, ServesContract, Contract!Safety


=============================================================================
