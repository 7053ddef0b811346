------------------------------ MODULE LSServer ------------------------------
(***************************************************************************)
(* The MINIX log server LS: its request loop (servers/ls/main.c) and its   *)
(* request handlers (servers/ls/requests.c), with the client processes     *)
(* that call it by a blocking send-receive and the parts of VFS, PM and    *)
(* the kernel it depends on.                                               *)
(*                                                                         *)
(* The server is one thread.  A request passes through the control points  *)
(*   "receive"  waiting in sef_receive(ANY);                               *)
(*   "init"     in ensure_initialized, g_is_initialized still FALSE;       *)
(*   "handle"   in a do_* handler, initialisation done;                    *)
(*   "reply"    result known, ipc_send of the reply not yet done;          *)
(* and between two of them clients may call, exec, be born or die.         *)
(*                                                                         *)
(* Data is abstract: a log line is one cell of a file, a configuration     *)
(* file is the set of loggers its parse yields, a process name is a model  *)
(* value.  The list g_loggers is a function from names to list entries:    *)
(* is_logger_valid keeps names unique, so find_logger's first match is the *)
(* only one.  The list ends in an element that was never written; the      *)
(* memory it lies in is taken to be fresh here, so that every walk over    *)
(* the list ends (ConfigParse and LoggerList model the other case).        *)
(***************************************************************************)
EXTENDS Integers, Sequences

CONSTANTS
  Client,     \* endpoints of the processes that may call LS
  Logger,     \* names a request or the configuration file may contain
  File,       \* paths of log files
  ProcName,   \* process names (mp_name)
  Config,     \* the parses /etc/logs.conf may have, now or after an edit
  Request,    \* the requests the clients issue
  OPEN_MAX,   \* size of LS's descriptor table in VFS
  MaxLines,   \* bound: no LS_WRITE_LOG is issued beyond this many lines
  NONE        \* no process, no name, no line, no request

LS_MAX_MESSAGE_LEN == 2048

Severity == 0..3            \* LS_SEV_TRACE, _DEBUG, _INFO, _WARN

ValidSeverityOffByOne(sev) == sev \in 0..4

valid_severity(sev) == sev \in Severity

MsgType == {"LS_INITIALIZE", "LS_START_LOG", "LS_SET_SEVERITY", "LS_WRITE_LOG",
            "LS_CLOSE_LOG", "LS_CLEAR_LOG", "LS_CLEAR_ALL", "UNDEFINED"}

ls_logger_t == [dest_type : {"FILE", "STDERR", "STDOUT"}, severity : Severity,
                dest_filename : File \cup {NONE}, append : BOOLEAN]

FD == 0 .. OPEN_MAX - 1

ls_logger_state_t == [is_open : BOOLEAN, severity : Severity,
                      opened_by : Client \cup {NONE}, fd : FD \cup {-1}]

Message == [m_type : MsgType, logger : Logger, severity : Nat, message_len : Nat]

\* What print_log renders for %n, %l and %m; whole is FALSE after a short write.
Line == [logger : Logger, who : Client, name : ProcName \cup {NONE},
         severity : Severity, whole : BOOLEAN]

\* An open file of LS in VFS.
Filp == [file : File, pos : Nat, append : BOOLEAN]

\* What the code sends in m_type of a reply; EPERM is the bare -1 of a failed open,
\* EFAULT stands for whatever error sys_vircopy had.
Result == {"OK", "EINVAL", "EFAULT", "ENOMEM", "EIO", "EPERM", "LS_ERR_NO_SUCH_LOGGER",
           "LS_ERR_LOGGER_OPEN", "LS_ERR_LOGGER_NOT_OPEN", "LS_ERR_PERMISSION_DENIED",
           "LS_ERR_INIT_FAILED", "LS_ERR_EXTERNAL"}

ASSUME OpenMaxAssumption == OPEN_MAX \in Nat \ {0}

ASSUME NoneAssumption ==
  NONE \notin Client \cup File \cup ProcName \cup Request /\ NONE \notin Result

ASSUME RequestAssumption == Request \subseteq Message

\* is_logger_valid accepts a file destination only with a filename.
ASSUME ConfigAssumption ==
  \A cf \in Config :
    /\ DOMAIN cf \subseteq Logger
    /\ \A l \in DOMAIN cf : /\ cf[l] \in ls_logger_t
                            /\ cf[l].dest_type = "FILE" => cf[l].dest_filename \in File

VARIABLES
  g_loggers,         \* name -> [logger, state], the list of main.c
  g_is_initialized,  \* main.c
  proctable,         \* LS's copy of PM's process table: endpoint -> name or NONE
  pc,                \* the server's control point
  m, source, result, \* request being served, who sent it, what to answer
  fds,               \* LS's open descriptors: fd -> Filp (in VFS)
  disk,              \* File -> sequence of lines; NONE is a hole
  klog,              \* lines printed to the kernel log
  queue,             \* endpoints blocked sending to LS, oldest first (kernel)
  status, mp_name,   \* state and name of each process (PM)
  call,              \* the request a client is blocked on, or NONE
  belief,            \* history: what its replies let a client think of a logger
  leaked,            \* history: descriptors of lists that do_initialize freed
  chosen             \* history: severity last accepted by LS_SET_SEVERITY

lsVars     == <<g_loggers, g_is_initialized, proctable>>
fsVars     == <<fds, disk, klog>>
clientVars == <<queue, status, mp_name, call>>
histVars   == <<belief, leaked, chosen>>
vars       == <<lsVars, pc, m, source, result, fsVars, clientVars, histVars>>

-----------------------------------------------------------------------------
(* The environment's answers to LS's calls *)

\* VFS hands out the lowest free descriptor; there may be none (EMFILE).
LowestFreeFd == {fd \in FD \ DOMAIN fds : \A g \in FD \ DOMAIN fds : fd <= g}

\* write() puts a line at pos; a gap before it reads as a hole.
WriteAt(s, pos, line) ==
  [i \in 1 .. (IF pos >= Len(s) THEN pos + 1 ELSE Len(s)) |->
     IF i = pos + 1 THEN line ELSE IF i <= Len(s) THEN s[i] ELSE NONE]

\* The names PM has now; a slot whose process is gone has no usable name.
Snapshot == [c \in Client |-> IF status[c] = "alive" THEN mp_name[c] ELSE NONE]

GetProcessTableNotRefreshed(ret) ==
  ret \in {"OK", "LS_ERR_EXTERNAL"} /\ UNCHANGED proctable

get_process_table(ret) ==
  \/ ret = "OK" /\ proctable' = Snapshot
  \/ ret = "LS_ERR_EXTERNAL" /\ UNCHANGED proctable

-----------------------------------------------------------------------------
(* The list of loggers *)

find_logger(l) == l \in DOMAIN g_loggers

IsOpen(l) == find_logger(l) /\ g_loggers[l].state.is_open

IsFile(l) == g_loggers[l].logger.dest_type = "FILE"

ClosedFileLoggersAll == {l \in DOMAIN g_loggers : IsFile(l)}

ClosedFileLoggers == {l \in DOMAIN g_loggers : ~IsOpen(l) /\ IsFile(l)}

IsOwnerUnchecked(l) == TRUE

IsOwner(l) == g_loggers[l].state.opened_by = source

OpenFileLoggers == {l \in DOMAIN g_loggers : IsOpen(l) /\ IsFile(l)}

OpenFds == {g_loggers[l].state.fd : l \in OpenFileLoggers}

\* memset of a new entry's state: closed, LS_SEV_TRACE, fd 0.  (opened_by is 0, which
\* is nobody here: it is read only while is_open.)
FreshState == [is_open |-> FALSE, severity |-> 0, opened_by |-> NONE, fd |-> 0]

NewList(cf) == [l \in DOMAIN cf |-> [logger |-> cf[l], state |-> FreshState]]

NoLoggers == [l \in {} |-> NONE]

\* The list is freed first, its descriptors stay open; g_is_initialized is not
\* touched.  The configuration file needs a free descriptor while it is read.
do_initialize(ret) ==
  /\ \/ /\ ret \in {"EINVAL", "ENOMEM", "EIO", "EPERM"}
        /\ g_loggers' = NoLoggers
        /\ UNCHANGED proctable
     \/ /\ LowestFreeFd # {}
        /\ \E cf \in Config : g_loggers' = NewList(cf)
        /\ get_process_table(ret)
  /\ leaked' = leaked \cup OpenFds
  /\ belief' = [c \in Client |-> [l \in Logger |->
                  IF belief[c][l] = "held" THEN "lost" ELSE belief[c][l]]]
  /\ chosen' = [l \in Logger |-> NONE]
  /\ UNCHANGED fsVars

-----------------------------------------------------------------------------
(* The request loop *)

\* The arguments main() checks before it calls a handler.
BadArguments(r) ==
  \/ r.m_type = "UNDEFINED"
  \/ r.m_type = "LS_WRITE_LOG" /\ (r.message_len > LS_MAX_MESSAGE_LEN \/ ~valid_severity(r.severity))
  \/ r.m_type = "LS_SET_SEVERITY" /\ ~valid_severity(r.severity)

wait_request ==
  /\ pc = "receive" /\ queue # <<>>
  /\ source' = Head(queue) /\ queue' = Tail(queue)
  /\ m' = call[Head(queue)]
  /\ \/ /\ BadArguments(m') /\ pc' = "reply" /\ result' = "EINVAL"
     \/ /\ ~BadArguments(m')
        /\ pc' = IF g_is_initialized \/ m'.m_type = "LS_INITIALIZE" THEN "handle" ELSE "init"
        /\ UNCHANGED result
  /\ UNCHANGED <<lsVars, fsVars, status, mp_name, call, histVars>>

ensure_initialized ==
  /\ pc = "init"
  /\ \E ret \in Result :
       /\ do_initialize(ret)
       /\ \/ /\ ret = "OK" /\ g_is_initialized' = TRUE
             /\ pc' = "handle" /\ UNCHANGED result
          \/ /\ ret # "OK" /\ UNCHANGED g_is_initialized
             /\ pc' = "reply" /\ result' = "LS_ERR_INIT_FAILED"
  /\ UNCHANGED <<m, source, clientVars>>

\* What a reply to its own request teaches a client about the logger it named.
Learnt(old) ==
  CASE m.m_type = "LS_START_LOG" /\ result = "OK" -> "held"
    [] m.m_type = "LS_CLOSE_LOG" /\ result = "OK" -> "no"
    [] result \in {"LS_ERR_NO_SUCH_LOGGER", "LS_ERR_LOGGER_NOT_OPEN",
                   "LS_ERR_PERMISSION_DENIED"} -> "no"
    [] OTHER -> old

\* The loop would hang on a caller that died.
ReplyToLiving ==
  /\ pc = "reply" /\ status[source] = "alive"
  /\ call' = [call EXCEPT ![source] = NONE]
  /\ belief' = [belief EXCEPT ![source][m.logger] = Learnt(@)]
  /\ pc' = "receive" /\ m' = NONE /\ source' = NONE /\ result' = NONE
  /\ UNCHANGED <<lsVars, fsVars, queue, status, mp_name, leaked, chosen>>

\* ipc_send to a process that died meanwhile fails with EDEADSRCDST; the loop goes on.
reply ==
  /\ pc = "reply"
  /\ \/ /\ status[source] = "alive"
        /\ call' = [call EXCEPT ![source] = NONE]
        /\ belief' = [belief EXCEPT ![source][m.logger] = Learnt(@)]
     \/ /\ status[source] # "alive"
        /\ UNCHANGED <<call, belief>>
  /\ pc' = "receive" /\ m' = NONE /\ source' = NONE /\ result' = NONE
  /\ UNCHANGED <<lsVars, fsVars, queue, status, mp_name, leaked, chosen>>

-----------------------------------------------------------------------------
(* The handlers: each runs from "handle" to "reply" *)

Handling(type) == pc = "handle" /\ m.m_type = type /\ pc' = "reply"

\* An early return: nothing changes but the result.
Return(ret) == result' = ret /\ UNCHANGED <<g_loggers, proctable, fsVars, chosen>>

HandleInitialize ==
  /\ Handling("LS_INITIALIZE")
  /\ \E ret \in Result : do_initialize(ret) /\ result' = ret
  /\ UNCHANGED <<g_is_initialized, m, source, clientVars>>

\* open() of the log file: append keeps its lines, otherwise it is truncated.
OpenForLogging(lg, fd) ==
  /\ fd \in LowestFreeFd
  /\ fds' = [d \in DOMAIN fds \cup {fd} |->
               IF d = fd THEN [file |-> lg.dest_filename, pos |-> 0, append |-> lg.append]
                         ELSE fds[d]]
  /\ disk' = IF lg.append THEN disk ELSE [disk EXCEPT ![lg.dest_filename] = <<>>]

OpenedStateForgetsOpen(lg, fd) ==
  [is_open |-> FALSE, severity |-> lg.severity, opened_by |-> source, fd |-> fd]

OpenedStateKeepsSeverity(lg, fd) ==
  [is_open |-> TRUE, severity |-> g_loggers[m.logger].state.severity, opened_by |-> source,
   fd |-> fd]

OpenedState(lg, fd) ==
  [is_open |-> TRUE, severity |-> lg.severity, opened_by |-> source, fd |-> fd]

do_start_log ==
  LET l == m.logger  entry == g_loggers[m.logger] IN
  /\ Handling("LS_START_LOG")
  /\ \/ ~find_logger(l) /\ Return("LS_ERR_NO_SUCH_LOGGER")
     \/ IsOpen(l) /\ Return("LS_ERR_LOGGER_OPEN")
     \/ find_logger(l) /\ ~IsOpen(l) /\ IsFile(l) /\ Return("LS_ERR_EXTERNAL")
     \/ /\ find_logger(l) /\ ~IsOpen(l)
        /\ \E fd \in FD \cup {-1} :
             /\ \/ IsFile(l) /\ OpenForLogging(entry.logger, fd)
                \/ ~IsFile(l) /\ fd = entry.state.fd /\ UNCHANGED <<fds, disk>>
             /\ g_loggers' = [g_loggers EXCEPT ![l].state = OpenedState(entry.logger, fd)]
        /\ \E ret \in Result : get_process_table(ret) /\ result' = ret
        /\ UNCHANGED <<klog, chosen>>
  /\ UNCHANGED <<g_is_initialized, m, source, clientVars, belief, leaked>>

\* close() of a descriptor that is not open changes nothing.
CloseFdSkipped(fd) == fds

CloseFd(fd) == [d \in DOMAIN fds \ {fd} |-> fds[d]]

ClosedStateStillOpen(st) == [st EXCEPT !.opened_by = NONE, !.fd = -1]

ClosedState(st) == [st EXCEPT !.is_open = FALSE, !.opened_by = NONE, !.fd = -1]

\* A failing close() jumps to set_closed as well, so OK is the only outcome.
do_close_log ==
  LET l == m.logger IN
  /\ Handling("LS_CLOSE_LOG")
  /\ \/ ~find_logger(l) /\ Return("LS_ERR_NO_SUCH_LOGGER")
     \/ find_logger(l) /\ ~IsOpen(l) /\ Return("LS_ERR_LOGGER_NOT_OPEN")
     \/ IsOpen(l) /\ ~IsOwner(l) /\ Return("LS_ERR_PERMISSION_DENIED")
     \/ /\ IsOpen(l) /\ IsOwner(l)
        /\ fds' = IF IsFile(l) THEN CloseFd(g_loggers[l].state.fd) ELSE fds
        /\ g_loggers' = [g_loggers EXCEPT ![l].state = ClosedState(@)]
        /\ result' = "OK"
        /\ UNCHANGED <<proctable, disk, klog, chosen>>
  /\ UNCHANGED <<g_is_initialized, m, source, clientVars, belief, leaked>>

TheLine(whole) ==
  [logger |-> m.logger, who |-> source, name |-> proctable[source],
   severity |-> m.severity, whole |-> whole]

\* write() through the descriptor: at the end with O_APPEND, when its position does
\* not matter, else at its position.
WriteFd(fd, line) ==
  LET f == fds[fd].file
      pos == IF fds[fd].append THEN Len(disk[f]) ELSE fds[fd].pos
  IN  /\ disk' = [disk EXCEPT ![f] = WriteAt(@, pos, line)]
      /\ fds' = [fds EXCEPT ![fd].pos = IF fds[fd].append THEN @ ELSE @ + 1]

BelowThresholdByOne(st) == m.severity < st.severity - 1

BelowThreshold(st) == m.severity < st.severity

do_write_log ==
  LET l == m.logger  entry == g_loggers[m.logger] IN
  /\ Handling("LS_WRITE_LOG")
  /\ \/ ~find_logger(l) /\ Return("LS_ERR_NO_SUCH_LOGGER")
     \/ find_logger(l) /\ ~IsOpen(l) /\ Return("LS_ERR_LOGGER_NOT_OPEN")
     \/ IsOpen(l) /\ ~IsOwner(l) /\ Return("LS_ERR_PERMISSION_DENIED")
     \/ IsOpen(l) /\ IsOwner(l) /\ Return("EFAULT") \* sys_vircopy failed
     \/ /\ IsOpen(l) /\ IsOwner(l) /\ status[source] = "alive"
        /\ \/ BelowThreshold(entry.state) /\ Return("OK")
           \/ /\ ~BelowThreshold(entry.state)
              /\ \/ /\ IsFile(l) /\ entry.state.fd \in DOMAIN fds
                    /\ WriteFd(entry.state.fd, TheLine(TRUE))
                    /\ result' = "OK" /\ UNCHANGED klog
                 \/ /\ IsFile(l) /\ entry.state.fd \in DOMAIN fds   \* short write
                    /\ WriteFd(entry.state.fd, TheLine(FALSE))
                    /\ result' = "LS_ERR_EXTERNAL" /\ UNCHANGED klog
                 \/ /\ IsFile(l)                                    \* write returned -1
                    /\ result' = "LS_ERR_EXTERNAL" /\ UNCHANGED fsVars
                 \/ /\ ~IsFile(l)
                    /\ klog' = Append(klog, TheLine(TRUE))
                    /\ result' = "OK" /\ UNCHANGED <<fds, disk>>
                 \/ /\ IsFile(l) => entry.state.fd \in DOMAIN fds  \* print_log returned 0
                    /\ result' = "OK" /\ UNCHANGED fsVars
              /\ UNCHANGED <<g_loggers, proctable, chosen>>
  /\ UNCHANGED <<g_is_initialized, m, source, clientVars, belief, leaked>>

do_set_severity ==
  LET l == m.logger IN
  /\ Handling("LS_SET_SEVERITY")
  /\ \/ ~find_logger(l) /\ Return("LS_ERR_NO_SUCH_LOGGER")
     \/ IsOpen(l) /\ Return("LS_ERR_LOGGER_OPEN")
     \/ /\ find_logger(l) /\ ~IsOpen(l)
        /\ g_loggers' = [g_loggers EXCEPT ![l].state = [@ EXCEPT !.severity = m.severity]]
        /\ chosen' = [chosen EXCEPT ![l] = m.severity]
        /\ result' = "OK" /\ UNCHANGED <<proctable, fsVars>>
  /\ UNCHANGED <<g_is_initialized, m, source, clientVars, belief, leaked>>

\* The files that clearing the loggers in ok truncates.  The open(O_TRUNC) needs a
\* descriptor, and the close() that follows cannot fail on an open one.
Truncated(ok) ==
  [f \in File |-> IF \E l \in ok : g_loggers[l].logger.dest_filename = f THEN <<>> ELSE disk[f]]

do_clear_log ==
  LET l == m.logger IN
  /\ Handling("LS_CLEAR_LOG")
  /\ \/ ~find_logger(l) /\ Return("LS_ERR_NO_SUCH_LOGGER")
     \/ IsOpen(l) /\ Return("LS_ERR_LOGGER_OPEN")
     \/ find_logger(l) /\ ~IsOpen(l) /\ IsFile(l) /\ Return("LS_ERR_EXTERNAL")
     \/ find_logger(l) /\ ~IsOpen(l) /\ ~IsFile(l) /\ Return("OK")
     \/ /\ find_logger(l) /\ ~IsOpen(l) /\ IsFile(l) /\ LowestFreeFd # {}
        /\ disk' = Truncated({l})
        /\ result' = "OK" /\ UNCHANGED <<g_loggers, proctable, fds, klog, chosen>>
  /\ UNCHANGED <<g_is_initialized, m, source, clientVars, belief, leaked>>

ClearLogsFailureIgnored ==
  /\ Handling("LS_CLEAR_ALL")
  /\ \E ok \in SUBSET ClosedFileLoggers :
       /\ ok # {} => LowestFreeFd # {}
       /\ disk' = Truncated(ok)
       /\ result' = IF \A l \in DOMAIN g_loggers : ~IsOpen(l) THEN "OK" ELSE "LS_ERR_LOGGER_OPEN"
  /\ UNCHANGED <<lsVars, fds, klog, m, source, clientVars, histVars>>

\* do_clear_log for every entry; ok are the file loggers whose open() succeeded.
do_clear_logs ==
  /\ Handling("LS_CLEAR_ALL")
  /\ \E ok \in SUBSET ClosedFileLoggers :
       /\ ok # {} => LowestFreeFd # {}
       /\ disk' = Truncated(ok)
       /\ result' = IF ok = ClosedFileLoggers /\ \A l \in DOMAIN g_loggers : ~IsOpen(l)
                    THEN "OK" ELSE "LS_ERR_LOGGER_OPEN"
  /\ UNCHANGED <<lsVars, fds, klog, m, source, clientVars, histVars>>

-----------------------------------------------------------------------------
(* Clients: blocking calls, exec, birth and death *)

serverVars == <<lsVars, pc, m, source, result, fsVars, histVars>>

\* Bound: a client writes only while no destination holds MaxLines lines and no
\* descriptor is that far into its file.
RoomForLine ==
  /\ Len(klog) < MaxLines
  /\ \A f \in File : Len(disk[f]) < MaxLines
  /\ \A d \in DOMAIN fds : fds[d].pos < MaxLines

EnqueuedFirst(c) == <<c>> \o queue

Enqueued(c) == Append(queue, c)

\* sendrec: the caller joins the end of the server's caller queue and blocks.
Call(c) ==
  /\ status[c] = "alive" /\ call[c] = NONE
  /\ \E r \in Request : /\ r.m_type = "LS_WRITE_LOG" => RoomForLine
                        /\ call' = [call EXCEPT ![c] = r]
  /\ queue' = Enqueued(c)
  /\ UNCHANGED <<serverVars, status, mp_name>>

\* A process not blocked on LS replaces its image: same endpoint, new name.
Exec(c) ==
  /\ status[c] = "alive" /\ call[c] = NONE
  /\ \E n \in ProcName \ {mp_name[c]} : mp_name' = [mp_name EXCEPT ![c] = n]
  /\ UNCHANGED <<serverVars, queue, status, call>>

Spawn(c) ==
  /\ status[c] = "unborn"
  /\ status' = [status EXCEPT ![c] = "alive"]
  /\ \E n \in ProcName : mp_name' = [mp_name EXCEPT ![c] = n]
  /\ UNCHANGED <<serverVars, queue, call>>

\* clear_ipc: the first occurrence of c leaves the queue.
clear_ipc(c) ==
  \/ (\A i \in 1 .. Len(queue) : queue[i] # c) /\ UNCHANGED queue
  \/ \E i \in 1 .. Len(queue) :
       /\ queue[i] = c /\ \A j \in 1 .. i - 1 : queue[j] # c
       /\ queue' = [j \in 1 .. Len(queue) - 1 |-> IF j < i THEN queue[j] ELSE queue[j + 1]]

\* Exit or kill at any time.  An endpoint is not reused: its generation changes.
Die(c) ==
  /\ status[c] = "alive"
  /\ status' = [status EXCEPT ![c] = "dead"]
  /\ mp_name' = [mp_name EXCEPT ![c] = NONE]
  /\ call' = [call EXCEPT ![c] = NONE]
  /\ clear_ipc(c)
  /\ UNCHANGED serverVars

-----------------------------------------------------------------------------
Init ==
  /\ g_loggers = NoLoggers /\ g_is_initialized = FALSE
  /\ proctable = [c \in Client |-> NONE]
  /\ pc = "receive" /\ m = NONE /\ source = NONE /\ result = NONE
  /\ fds = [d \in {} |-> NONE]
  /\ disk = [f \in File |-> <<>>] /\ klog = <<>>
  /\ queue = <<>>
  /\ status = [c \in Client |-> "unborn"] /\ mp_name = [c \in Client |-> NONE]
  /\ call = [c \in Client |-> NONE]
  /\ belief = [c \in Client |-> [l \in Logger |-> "no"]]
  /\ leaked = {} /\ chosen = [l \in Logger |-> NONE]

Handler ==
  \/ HandleInitialize \/ do_start_log \/ do_close_log \/ do_write_log
  \/ do_set_severity \/ do_clear_log \/ do_clear_logs

Server == wait_request \/ ensure_initialized \/ Handler \/ reply

Environment == \E c \in Client : Call(c) \/ Exec(c) \/ Spawn(c) \/ Die(c)

Next == Server \/ Environment

\* The server is one process that is always scheduled again, and the kernel,
\* VFS and PM answer its calls: it never stops while a step is possible.
Spec == Init /\ [][Next]_vars /\ WF_vars(Server)

-----------------------------------------------------------------------------
(* Properties *)

LsTypeOK ==
  /\ DOMAIN g_loggers \subseteq Logger
  /\ g_loggers = [l \in DOMAIN g_loggers |-> g_loggers[l]]
  /\ \A l \in DOMAIN g_loggers :
       g_loggers[l] \in [logger : ls_logger_t, state : ls_logger_state_t]
  /\ g_is_initialized \in BOOLEAN
  /\ proctable \in [Client -> ProcName \cup {NONE}]

LoopTypeOK ==
  /\ pc \in {"receive", "init", "handle", "reply"}
  /\ IF pc = "receive" THEN m = NONE /\ source = NONE ELSE m \in Request /\ source \in Client
  /\ IF pc = "reply" THEN result \in Result ELSE result = NONE

FsTypeOK ==
  /\ DOMAIN fds \subseteq FD
  /\ fds = [d \in DOMAIN fds |-> fds[d]]
  /\ \A d \in DOMAIN fds : fds[d] \in Filp
  /\ disk \in [File -> Seq(Line \cup {NONE})]
  /\ klog \in Seq(Line)

ClientTypeOK ==
  /\ queue \in Seq(Client)
  /\ status \in [Client -> {"unborn", "alive", "dead"}]
  /\ mp_name \in [Client -> ProcName \cup {NONE}]
  /\ call \in [Client -> Request \cup {NONE}]

HistTypeOK ==
  /\ belief \in [Client -> [Logger -> {"no", "held", "lost"}]]
  /\ leaked \subseteq FD
  /\ chosen \in [Logger -> Severity \cup {NONE}]

\* Type invariant: every variable has the shape its C type, or the component that
\* holds it, allows; in particular a request and a requester are known whenever the
\* loop is not waiting, and a result exactly when a reply is due.
TypeOK == LsTypeOK /\ LoopTypeOK /\ FsTypeOK /\ ClientTypeOK /\ HistTypeOK

\* An open file logger owns its descriptor: state.fd is open in VFS, on the logger's
\* own dest_filename and in its own append mode, no other open logger has it, and no
\* freed list left it behind.  So the write() of do_write_log lands in the right
\* file and the close() of do_close_log neither fails nor closes another's file,
\* although descriptors are leaked by do_initialize and reused after every close.
OwnDescriptor ==
  \A l \in OpenFileLoggers :
    LET fd == g_loggers[l].state.fd IN
    /\ fd \in DOMAIN fds \ leaked
    /\ fds[fd].file = g_loggers[l].logger.dest_filename
    /\ fds[fd].append = g_loggers[l].logger.append
    /\ \A k \in OpenFileLoggers : g_loggers[k].state.fd = fd => k = l

\* Descriptor accounting: the descriptors VFS holds for LS are those of the open file
\* loggers and those of lists do_initialize has freed, nothing else.  Clearing a log,
\* failing to start one and reading the configuration leave no descriptor behind.
DescriptorsAccounted == DOMAIN fds = OpenFds \cup leaked

\* A client that was told OK by start_log, was not told since that it lost the logger,
\* and has seen no initialisation in between, is the logger's owner in the server;
\* the one exception is the time its own successful close takes to be answered.
HolderIsOwner ==
  \A c \in Client, l \in Logger :
    belief[c][l] = "held" /\ status[c] = "alive" =>
      \/ IsOpen(l) /\ g_loggers[l].state.opened_by = c
      \/ pc = "reply" /\ source = c /\ m.m_type = "LS_CLOSE_LOG" /\ m.logger = l /\ result = "OK"

\* At most one live process holds a logger of the current list, whatever the
\* interleaving of calls, deaths and delayed replies (do_start_log's is_open test).
OneHolder ==
  \A l \in Logger : \A c, d \in Client :
    (/\ belief[c][l] = "held" /\ status[c] = "alive"
     /\ belief[d][l] = "held" /\ status[d] = "alive") => c = d

\* The threshold of an open logger is the configured one: do_start_log sets it and
\* do_set_severity, which could change it, refuses an open logger.
DefaultThreshold ==
  \A l \in DOMAIN g_loggers :
    IsOpen(l) => g_loggers[l].state.severity = g_loggers[l].logger.severity

\* The destinations of log lines, with the kernel log as one of them.
LogOf(d) == IF d = NONE THEN klog ELSE disk[d]

\* A log gains a line only on behalf of the process that owns the logger at that
\* moment, at or above the severity configured for it, in that logger's destination.
LinesFromOwner ==
  [][\A d \in File \cup {NONE} : \A i \in 1 .. Len(LogOf(d)') :
       LET line == LogOf(d)'[i] IN
       (line # NONE /\ (i > Len(LogOf(d)) \/ line # LogOf(d)[i])) =>
         /\ IsOpen(line.logger)
         /\ g_loggers[line.logger].state.opened_by = line.who
         /\ line.severity >= g_loggers[line.logger].logger.severity
         /\ d = IF IsFile(line.logger) THEN g_loggers[line.logger].logger.dest_filename ELSE NONE
    ]_vars

\* No other entry of the list writes to the file of l.
SoleUser(l) ==
  \A k \in DOMAIN g_loggers :
    (IsFile(k) /\ g_loggers[k].logger.dest_filename = g_loggers[l].logger.dest_filename) => k = l

\* While a file logger stays open its file only grows at the end, in either append
\* mode, provided no other logger of the list names the same file: clearing, starting
\* and writing other loggers, and descriptors leaked earlier, never disturb it.
OpenLogOnlyGrows ==
  [][\A l \in OpenFileLoggers :
       l \in OpenFileLoggers' /\ SoleUser(l) =>
         LET f == g_loggers[l].logger.dest_filename IN
         /\ Len(disk'[f]) >= Len(disk[f])
         /\ \A i \in 1 .. Len(disk[f]) : disk'[f][i] = disk[f][i]
    ]_vars

\* When clearing is answered OK the files are empty and the loggers closed: that of the
\* request, or all of the list.  do_clear_logs goes on after a logger it cannot clear,
\* and still has to say so after clearing the rest.
ClearedIsEmpty ==
  pc = "reply" /\ result = "OK" /\ m.m_type \in {"LS_CLEAR_LOG", "LS_CLEAR_ALL"} =>
    \A l \in DOMAIN g_loggers :
      m.m_type = "LS_CLEAR_ALL" \/ l = m.logger =>
        ~IsOpen(l) /\ (IsFile(l) => disk[g_loggers[l].logger.dest_filename] = <<>>)

\* A process whose start_log was answered OK is in LS's copy of the process table, so
\* its lines never say unknown-pid.
HolderIsNamed ==
  \A c \in Client, l \in Logger :
    belief[c][l] = "held" /\ status[c] = "alive" => proctable[c] # NONE

\* Every call is answered: the request of a client that stays alive is taken from the
\* queue, handled and replied to, however the other clients call, die or initialise.
EveryCallAnswered ==
  \A c \in Client : (call[c] # NONE) ~> (call[c] = NONE)

-----------------------------------------------------------------------------
(* What the documentation says and the code does not do *)

\* README.md: only one process can have a logger open at a time, as its clients see it.
OneBeliever ==
  \A l \in Logger : \A c, d \in Client :
    (/\ belief[c][l] # "no" /\ status[c] = "alive"
     /\ belief[d][l] # "no" /\ status[d] = "alive") => c = d

\* ls.h: the level given to minix_ls_set_logger_level is the threshold of the logger
\* when it is next open.
ChosenSeverityApplies ==
  \A l \in Logger : IsOpen(l) /\ chosen[l] # NONE => g_loggers[l].state.severity = chosen[l]

=============================================================================
