--------------------------- MODULE LSServerProofs ---------------------------
(* Theorems about LSServer, for every set of clients, loggers, files, requests *)
(* and configurations and every size of the descriptor table.                *)
EXTENDS LSServer, TLAPS

\* Most leaves are first-order reasoning about sets and functions, which is for
\* Zenon; a leaf with arithmetic, records or sequences calls for SMT by name.
USE ZenonT(60)

-----------------------------------------------------------------------------
(* Auxiliary invariants *)

\* Every entry of the caller queue is a live process blocked on a request, queued once.
QueueOK ==
  /\ \A i \in 1 .. Len(queue) : status[queue[i]] = "alive" /\ call[queue[i]] # NONE
  /\ \A i, j \in 1 .. Len(queue) : queue[i] = queue[j] => i = j

\* A file destination has a path, as is_logger_valid demands.
PathOK == \A l \in DOMAIN g_loggers : IsFile(l) => g_loggers[l].logger.dest_filename \in File

\* A live process has a name in PM.
NamedOK == \A c \in Client : status[c] = "alive" => mp_name[c] \in ProcName

\* The process being served is not queued; if alive it is still blocked on its request.
ServingOK ==
  pc # "receive" =>
    /\ \A i \in 1 .. Len(queue) : queue[i] # source
    /\ status[source] = "alive" => call[source] # NONE

\* main() lets only checked arguments through to a handler.
ArgsOK == pc \in {"init", "handle"} => ~BadArguments(m)

\* Only a process that exists is served or holds a logger.
BornOK ==
  /\ pc # "receive" => status[source] # "unborn"
  /\ \A c \in Client, l \in Logger : belief[c][l] = "held" => status[c] # "unborn"

\* When the reply to a successful start_log is due the logger is the caller's and LS has
\* the caller's name; when that to a successful close_log is due the logger is closed.
ReplyOK ==
  pc = "reply" /\ result = "OK" =>
    /\ m.m_type = "LS_START_LOG" =>
         /\ IsOpen(m.logger) /\ g_loggers[m.logger].state.opened_by = source
         /\ status[source] = "alive" => proctable[source] # NONE
    /\ m.m_type = "LS_CLOSE_LOG" => ~IsOpen(m.logger)

\* The inductive invariant.
IInv ==
  /\ TypeOK /\ QueueOK /\ ServingOK /\ ArgsOK /\ PathOK /\ NamedOK /\ BornOK /\ ReplyOK
  /\ OwnDescriptor /\ DescriptorsAccounted
  /\ DefaultThreshold /\ HolderIsOwner /\ HolderIsNamed

-----------------------------------------------------------------------------
(* Lemmas about the operators of the model *)

\* Writing a line into a file yields a file, whatever the position.
LEMMA WriteAtType ==
  ASSUME NEW s \in Seq(Line \cup {NONE}), NEW pos \in Nat, NEW line \in Line
  PROVE  WriteAt(s, pos, line) \in Seq(Line \cup {NONE})
<1> DEFINE n == IF pos >= Len(s) THEN pos + 1 ELSE Len(s)
<1>1. n \in Nat
  BY SMTT(60)
<1>2. \A i \in 1 .. n :
        (IF i = pos + 1 THEN line ELSE IF i <= Len(s) THEN s[i] ELSE NONE) \in Line \cup {NONE}
  BY SMTT(60)
<1> QED
  BY <1>1, <1>2, SMTT(60) DEF WriteAt

\* A new list consists of closed loggers with the parsed definitions.
LEMMA NewListType ==
  ASSUME NEW cf \in Config
  PROVE  /\ DOMAIN NewList(cf) \subseteq Logger
         /\ NewList(cf) = [l \in DOMAIN NewList(cf) |-> NewList(cf)[l]]
         /\ \A l \in DOMAIN NewList(cf) :
              /\ NewList(cf)[l] \in [logger : ls_logger_t, state : ls_logger_state_t]
              /\ ~NewList(cf)[l].state.is_open
              /\ NewList(cf)[l].logger.dest_type = "FILE" =>
                   NewList(cf)[l].logger.dest_filename \in File
<1>1. FreshState \in ls_logger_state_t /\ ~FreshState.is_open
  BY OpenMaxAssumption, SMTT(60) DEF FreshState, ls_logger_state_t, Severity, FD
<1> QED
  BY <1>1, ConfigAssumption DEF NewList

\* Refreshing LS's process table leaves it a table, with an entry for every live process.
LEMMA TableType ==
  ASSUME IInv, NEW ret, get_process_table(ret)
  PROVE  /\ ret \in {"OK", "LS_ERR_EXTERNAL"}
         /\ proctable' \in [Client -> ProcName \cup {NONE}]
         /\ \/ proctable' = proctable
            \/ \A c \in Client : status[c] = "alive" => proctable'[c] \in ProcName
         /\ ret = "OK" => \A c \in Client : status[c] = "alive" => proctable'[c] \in ProcName
BY DEF IInv, TypeOK, LsTypeOK, ClientTypeOK, NamedOK, get_process_table, Snapshot

\* do_initialize leaves a list of closed loggers, whatever the outcome.
LEMMA InitializeList ==
  ASSUME NEW ret, do_initialize(ret)
  PROVE  /\ ret \in Result
         /\ DOMAIN g_loggers' \subseteq Logger
         /\ g_loggers' = [l \in DOMAIN g_loggers' |-> g_loggers'[l]]
         /\ \A l \in DOMAIN g_loggers' :
              /\ g_loggers'[l] \in [logger : ls_logger_t, state : ls_logger_state_t]
              /\ ~g_loggers'[l].state.is_open
              /\ g_loggers'[l].logger.dest_type = "FILE" =>
                   g_loggers'[l].logger.dest_filename \in File
<1>1. CASE ret \in {"EINVAL", "ENOMEM", "EIO", "EPERM"} /\ g_loggers' = NoLoggers
  <2>1. DOMAIN g_loggers' = {}
    BY <1>1 DEF NoLoggers
  <2>2. g_loggers' = [l \in DOMAIN g_loggers' |-> g_loggers'[l]]
    BY <1>1 DEF NoLoggers
  <2> QED
    BY <1>1, <2>1, <2>2 DEF Result
<1>2. CASE (\E cf \in Config : g_loggers' = NewList(cf)) /\ get_process_table(ret)
  <2>1. PICK cf \in Config : g_loggers' = NewList(cf)
    BY <1>2
  <2>2. ret \in Result
    BY <1>2 DEF get_process_table, Result
  <2> QED
    BY <2>1, <2>2, NewListType
<1> QED
  BY <1>1, <1>2 DEF do_initialize

\* do_initialize turns every holder into a former one, forgets chosen severities, and
\* keeps the old list's descriptors open; files are not touched.
LEMMA InitializeRest ==
  ASSUME IInv, NEW ret, do_initialize(ret)
  PROVE  /\ proctable' \in [Client -> ProcName \cup {NONE}]
         /\ belief' \in [Client -> [Logger -> {"no", "lost"}]]
         /\ leaked' = leaked \cup OpenFds
         /\ chosen' \in [Logger -> {NONE}]
         /\ UNCHANGED fsVars
<1>1. proctable' \in [Client -> ProcName \cup {NONE}]
  BY TableType DEF do_initialize, IInv, TypeOK, LsTypeOK
<1>2. belief' \in [Client -> [Logger -> {"no", "lost"}]]
  BY SMTT(60) DEF do_initialize, IInv, TypeOK, HistTypeOK
<1> QED
  BY <1>1, <1>2 DEF do_initialize

-----------------------------------------------------------------------------
(* The environment *)

\* Loggers that stay open keep their descriptors when those stay open on the same files.
LEMMA StillOwn ==
  ASSUME OwnDescriptor, UNCHANGED leaked,
         \A k \in OpenFileLoggers' :
           /\ k \in OpenFileLoggers /\ g_loggers[k].state.fd \in DOMAIN fds'
           /\ g_loggers'[k].state.fd = g_loggers[k].state.fd
           /\ g_loggers'[k].logger = g_loggers[k].logger,
         \A d \in DOMAIN fds \cap DOMAIN fds' :
           fds'[d].file = fds[d].file /\ fds'[d].append = fds[d].append
  PROVE  OwnDescriptor'
<1>1. SUFFICES ASSUME NEW l \in OpenFileLoggers'
               PROVE  /\ g_loggers'[l].state.fd \in DOMAIN fds' \ leaked'
                      /\ fds'[g_loggers'[l].state.fd].file = g_loggers'[l].logger.dest_filename
                      /\ fds'[g_loggers'[l].state.fd].append = g_loggers'[l].logger.append
                      /\ \A k \in OpenFileLoggers' :
                           g_loggers'[k].state.fd = g_loggers'[l].state.fd => k = l
  BY DEF OwnDescriptor
<1>2. /\ l \in OpenFileLoggers /\ g_loggers[l].state.fd \in DOMAIN fds'
      /\ g_loggers'[l].state.fd = g_loggers[l].state.fd
      /\ g_loggers'[l].logger = g_loggers[l].logger
  OBVIOUS
<1>3. /\ g_loggers[l].state.fd \in DOMAIN fds \ leaked
      /\ fds[g_loggers[l].state.fd].file = g_loggers[l].logger.dest_filename
      /\ fds[g_loggers[l].state.fd].append = g_loggers[l].logger.append
      /\ \A k \in OpenFileLoggers : g_loggers[k].state.fd = g_loggers[l].state.fd => k = l
  BY <1>2 DEF OwnDescriptor
<1> QED
  BY <1>2, <1>3, SMTT(60)

\* A step that leaves the list, and which descriptors are open on what, alone keeps
\* what is said of descriptors.
LEMMA SameDescriptors ==
  ASSUME OwnDescriptor, DescriptorsAccounted, UNCHANGED <<g_loggers, leaked>>,
         DOMAIN fds' = DOMAIN fds,
         \A d \in DOMAIN fds : fds'[d].file = fds[d].file /\ fds'[d].append = fds[d].append
  PROVE  OwnDescriptor' /\ DescriptorsAccounted'
<1>1. OpenFileLoggers' = OpenFileLoggers
  BY DEF OpenFileLoggers, IsOpen, IsFile, find_logger
<1>2. OpenFds' = OpenFds
  BY <1>1 DEF OpenFds
<1>3. \A k \in OpenFileLoggers : g_loggers[k].state.fd \in DOMAIN fds
  BY DEF OwnDescriptor
<1>4. OwnDescriptor'
  BY <1>1, <1>3, StillOwn
<1> QED
  BY <1>2, <1>4 DEF DescriptorsAccounted

\* A step that leaves the server's variables alone keeps what is said of them alone.
LEMMA ServerUntouched ==
  ASSUME IInv, UNCHANGED serverVars
  PROVE  /\ LsTypeOK' /\ LoopTypeOK' /\ FsTypeOK' /\ HistTypeOK' /\ PathOK' /\ ArgsOK'
         /\ OwnDescriptor' /\ DescriptorsAccounted' /\ DefaultThreshold'
<1> USE DEF serverVars, lsVars, fsVars, histVars, IInv, TypeOK
<1>1. LsTypeOK' /\ LoopTypeOK' /\ FsTypeOK' /\ HistTypeOK'
  BY DEF LsTypeOK, LoopTypeOK, FsTypeOK, HistTypeOK
<1>2. PathOK' /\ DefaultThreshold'
  BY DEF PathOK, DefaultThreshold, IsFile, IsOpen, find_logger
<1>3. OwnDescriptor' /\ DescriptorsAccounted'
  BY SameDescriptors
<1>4. ArgsOK'
  BY DEF ArgsOK, BadArguments
<1> QED
  BY <1>1, <1>2, <1>3, <1>4

\* If moreover no process becomes alive, holders and names are as before.
LEMMA NobodyBorn ==
  ASSUME IInv, UNCHANGED serverVars,
         \A c \in Client : /\ status'[c] = "alive" => status[c] = "alive"
                           /\ status'[c] = "unborn" => status[c] = "unborn"
  PROVE  BornOK' /\ ReplyOK' /\ HolderIsOwner' /\ HolderIsNamed'
<1> USE DEF serverVars, lsVars, fsVars, histVars, IInv, TypeOK
<1>1. BornOK'
  BY DEF BornOK, LoopTypeOK
<1>2. ReplyOK'
  BY DEF ReplyOK, LoopTypeOK, IsOpen, find_logger
<1>3. HolderIsOwner'
  BY SMTT(60) DEF HolderIsOwner, IsOpen, find_logger
<1>4. HolderIsNamed'
  BY DEF HolderIsNamed
<1> QED
  BY <1>1, <1>2, <1>3, <1>4

\* A client's call keeps the invariant: a process that is not blocked is not queued.
LEMMA CallStep == ASSUME IInv, NEW c \in Client, Call(c) PROVE IInv'
<1> USE DEF IInv, TypeOK
<1>1. UNCHANGED <<serverVars, status, mp_name>>
  BY DEF Call
<1>2. ClientTypeOK'
  BY SMTT(60) DEF ClientTypeOK, Call, Enqueued
<1>3. QueueOK'
  BY NoneAssumption, SMTT(60) DEF QueueOK, ClientTypeOK, Call, Enqueued
<1>4. NamedOK'
  BY <1>1 DEF NamedOK
<1>5. ServingOK'
  BY <1>1, NoneAssumption, SMTT(60)
     DEF ServingOK, LoopTypeOK, ClientTypeOK, Call, Enqueued, serverVars
<1> QED
  BY <1>1, <1>2, <1>3, <1>4, <1>5, ServerUntouched, NobodyBorn

\* An exec keeps the invariant.
LEMMA ExecStep == ASSUME IInv, NEW c \in Client, Exec(c) PROVE IInv'
<1> USE DEF IInv, TypeOK
<1>1. UNCHANGED <<serverVars, queue, status, call>>
  BY DEF Exec
<1>2. ClientTypeOK'
  BY DEF ClientTypeOK, Exec
<1>3. QueueOK'
  BY <1>1 DEF QueueOK
<1>4. NamedOK'
  BY DEF NamedOK, ClientTypeOK, Exec
<1>5. ServingOK'
  BY <1>1 DEF ServingOK, serverVars
<1> QED
  BY <1>1, <1>2, <1>3, <1>4, <1>5, ServerUntouched, NobodyBorn

\* A birth keeps the invariant: nobody holds a logger, or is served, before being born.
LEMMA SpawnStep == ASSUME IInv, NEW c \in Client, Spawn(c) PROVE IInv'
<1> USE DEF IInv, TypeOK
<1>1. UNCHANGED <<serverVars, queue, call>>
  BY DEF Spawn
<1>2. ClientTypeOK' /\ NamedOK'
  BY DEF ClientTypeOK, NamedOK, Spawn
<1>3. QueueOK'
  BY SMTT(60) DEF QueueOK, ClientTypeOK, Spawn
<1>4. BornOK'
  BY DEF BornOK, LoopTypeOK, ClientTypeOK, Spawn, serverVars, histVars
<1>5. \A d \in Client : d # c => status'[d] = status[d]
  BY DEF Spawn, ClientTypeOK
<1>6. \A l \in Logger : belief[c][l] # "held"
  BY DEF Spawn, BornOK
<1>7. HolderIsOwner' /\ HolderIsNamed'
  BY <1>1, <1>5, <1>6, SMTT(60)
     DEF HolderIsOwner, HolderIsNamed, IsOpen, find_logger, serverVars, lsVars, histVars
<1>8. ReplyOK'
  BY <1>1, <1>5 DEF ReplyOK, Spawn, BornOK, LoopTypeOK, IsOpen, find_logger, serverVars, lsVars
<1>9. ServingOK'
  BY <1>1, <1>5 DEF ServingOK, BornOK, LoopTypeOK, Spawn, serverVars
<1> QED
  BY <1>1, <1>2, <1>3, <1>4, <1>7, <1>8, <1>9, ServerUntouched

\* A death keeps the invariant: the dead process leaves the queue.
LEMMA DieStep == ASSUME IInv, NEW c \in Client, Die(c) PROVE IInv'
<1> USE DEF IInv, TypeOK
<1>1. UNCHANGED serverVars
  BY DEF Die
<1>2. /\ status' = [status EXCEPT ![c] = "dead"] /\ mp_name' = [mp_name EXCEPT ![c] = NONE]
      /\ call' = [call EXCEPT ![c] = NONE]
  BY DEF Die
<1>3. queue' \in Seq(Client) /\ QueueOK' /\ ServingOK'
  <2>1. CASE (\A i \in 1 .. Len(queue) : queue[i] # c) /\ UNCHANGED queue
    <3>1. QueueOK'
      BY <1>2, <2>1, SMTT(60) DEF QueueOK, ClientTypeOK
    <3>2. ServingOK'
      BY <1>1, <1>2, <2>1 DEF ServingOK, LoopTypeOK, ClientTypeOK, serverVars
    <3> QED
      BY <2>1, <3>1, <3>2 DEF ClientTypeOK
  <2>2. CASE \E i \in 1 .. Len(queue) :
               /\ queue[i] = c /\ \A j \in 1 .. i - 1 : queue[j] # c
               /\ queue' = [j \in 1 .. Len(queue) - 1 |-> IF j < i THEN queue[j] ELSE queue[j + 1]]
    <3>1. PICK i \in 1 .. Len(queue) :
               /\ queue[i] = c
               /\ queue' = [j \in 1 .. Len(queue) - 1 |-> IF j < i THEN queue[j] ELSE queue[j + 1]]
      BY <2>2
    <3>2. Len(queue) - 1 \in Nat
      BY SMTT(60) DEF ClientTypeOK
    <3>3. \A j \in 1 .. Len(queue) - 1 :
            (IF j < i THEN queue[j] ELSE queue[j + 1]) \in Client
      BY SMTT(60) DEF ClientTypeOK
    <3>4. queue' \in Seq(Client) /\ Len(queue') = Len(queue) - 1
      BY <3>1, <3>2, <3>3, SMTT(60)
    <3> DEFINE old(j) == IF j < i THEN j ELSE j + 1
    <3>5. \A j \in 1 .. Len(queue') :
            queue'[j] = queue[old(j)] /\ old(j) \in 1 .. Len(queue) /\ old(j) # i
      BY <3>1, <3>4, SMTT(60)
    <3>a. \A j, k \in 1 .. Len(queue') : old(j) = old(k) => j = k
      BY <3>4, SMTT(60)
    <3> HIDE DEF old
    <3>6. \A j \in 1 .. Len(queue') : queue'[j] # c
      BY <3>1, <3>5, SMTT(60) DEF QueueOK
    <3>7. \A j \in 1 .. Len(queue') : status'[queue'[j]] = "alive" /\ call'[queue'[j]] # NONE
      BY <1>2, <3>4, <3>5, <3>6, SMTT(60) DEF QueueOK, ClientTypeOK
    <3>8. \A j, k \in 1 .. Len(queue') : queue'[j] = queue'[k] => j = k
      <4>1. SUFFICES ASSUME NEW j \in 1 .. Len(queue'), NEW k \in 1 .. Len(queue'),
                            queue'[j] = queue'[k]
                     PROVE  j = k
        OBVIOUS
      <4>2. old(j) \in 1 .. Len(queue) /\ old(k) \in 1 .. Len(queue)
            /\ queue[old(j)] = queue[old(k)]
        BY <3>5, <4>1
      <4>3. old(j) = old(k)
        BY <4>2 DEF QueueOK
      <4> QED
        BY <4>3, <3>a
    <3>9. ServingOK'
      BY <1>1, <1>2, <3>5 DEF ServingOK, LoopTypeOK, ClientTypeOK, serverVars
    <3> QED
      BY <3>4, <3>7, <3>8, <3>9 DEF QueueOK
  <2> QED
    BY <2>1, <2>2 DEF Die, clear_ipc
<1>4. ClientTypeOK' /\ NamedOK'
  BY <1>2, <1>3 DEF ClientTypeOK, NamedOK
<1>5. \A d \in Client : /\ status'[d] = "alive" => status[d] = "alive"
                        /\ status'[d] = "unborn" => status[d] = "unborn"
  BY <1>2 DEF ClientTypeOK
<1> QED
  BY <1>1, <1>3, <1>4, <1>5, ServerUntouched, NobodyBorn

-----------------------------------------------------------------------------
(* The request loop *)

\* Taking the next request keeps the invariant: its sender is alive and blocked on it.
LEMMA WaitRequestStep == ASSUME IInv, wait_request PROVE IInv'
<1> USE DEF IInv, TypeOK
<1>1. UNCHANGED <<lsVars, fsVars, status, mp_name, call, histVars>> /\ pc = "receive"
  BY DEF wait_request
<1>2. LsTypeOK' /\ FsTypeOK' /\ HistTypeOK' /\ NamedOK'
  BY <1>1 DEF LsTypeOK, FsTypeOK, HistTypeOK, NamedOK, lsVars, fsVars, histVars
<1>3. PathOK' /\ DefaultThreshold' /\ OwnDescriptor' /\ DescriptorsAccounted'
  <2>1. PathOK' /\ DefaultThreshold'
    BY <1>1 DEF PathOK, DefaultThreshold, IsFile, IsOpen, find_logger, lsVars
  <2> QED
    BY <1>1, <2>1, SameDescriptors DEF lsVars, fsVars, histVars
<1>4. /\ queue # <<>> /\ source' = Head(queue) /\ queue' = Tail(queue)
      /\ m' = call[Head(queue)]
  BY DEF wait_request
<1>5. /\ source' \in Client /\ status[source'] = "alive" /\ m' \in Request
      /\ Head(queue) = queue[1] /\ 1 \in 1 .. Len(queue)
  BY <1>4, SMTT(60) DEF QueueOK, ClientTypeOK
<1>6. queue' \in Seq(Client) /\ Len(queue') = Len(queue) - 1
      /\ \A i \in 1 .. Len(queue') : queue'[i] = queue[i + 1]
  BY <1>4, SMTT(60) DEF ClientTypeOK
<1>7. ClientTypeOK'
  BY <1>1, <1>6 DEF ClientTypeOK
<1>8. QueueOK'
  <2>1. \A i \in 1 .. Len(queue') : i + 1 \in 1 .. Len(queue)
    BY <1>6, SMTT(60) DEF ClientTypeOK
  <2>2. \A i \in 1 .. Len(queue') : status'[queue'[i]] = "alive" /\ call'[queue'[i]] # NONE
    BY <1>1, <1>6, <2>1, SMTT(60) DEF QueueOK
  <2>3. \A i, j \in 1 .. Len(queue') : queue'[i] = queue'[j] => i = j
    <3>1. SUFFICES ASSUME NEW i \in 1 .. Len(queue'), NEW j \in 1 .. Len(queue'),
                          queue'[i] = queue'[j]
                   PROVE  i = j
      OBVIOUS
    <3>2. i + 1 = j + 1
      BY <1>6, <2>1, <3>1, SMTT(60) DEF QueueOK
    <3> QED
      BY <3>2, SMTT(60)
  <2> QED
    BY <2>2, <2>3 DEF QueueOK
<1>9. LoopTypeOK'
  BY <1>1, <1>5 DEF LoopTypeOK, wait_request, Result
<1>10. BornOK'
  BY <1>1, <1>5 DEF BornOK, histVars
<1>11. ReplyOK'
  BY <1>1 DEF ReplyOK, wait_request, BadArguments
<1>12. HolderIsOwner' /\ HolderIsNamed'
  BY <1>1 DEF HolderIsOwner, HolderIsNamed, IsOpen, find_logger, lsVars, histVars
<1>13. ServingOK'
  <2>1. \A i \in 1 .. Len(queue') : i + 1 \in 1 .. Len(queue) /\ i + 1 # 1
    BY <1>6, SMTT(60) DEF ClientTypeOK
  <2>2. \A i \in 1 .. Len(queue') : queue'[i] # source'
    BY <1>4, <1>5, <1>6, <2>1, SMTT(60) DEF QueueOK
  <2> QED
    BY <1>1, <1>4, <1>5, <2>2, NoneAssumption DEF ServingOK
<1>14. ArgsOK'
  BY DEF ArgsOK, wait_request, BadArguments
<1> QED
  BY <1>2, <1>3, <1>7, <1>8, <1>9, <1>10, <1>11, <1>12, <1>13, <1>14

\* Delivering a reply keeps the invariant: who is told OK by start_log is the owner, and
\* who is told OK by close_log no longer counts as holder.
LEMMA ReplyStep == ASSUME IInv, reply PROVE IInv'
<1> USE DEF IInv, TypeOK
<1>1. /\ pc = "reply" /\ pc' = "receive" /\ m' = NONE /\ source' = NONE /\ result' = NONE
      /\ UNCHANGED <<lsVars, fsVars, queue, status, mp_name, leaked, chosen>>
  BY DEF reply
<1>2. /\ source \in Client /\ m \in Request /\ m.logger \in Logger
  BY <1>1, RequestAssumption DEF LoopTypeOK, Message
<1>3. LsTypeOK' /\ FsTypeOK' /\ NamedOK' /\ LoopTypeOK'
  BY <1>1 DEF LsTypeOK, FsTypeOK, NamedOK, LoopTypeOK, lsVars, fsVars
<1>4. PathOK' /\ DefaultThreshold' /\ OwnDescriptor' /\ DescriptorsAccounted'
  <2>1. PathOK' /\ DefaultThreshold'
    BY <1>1 DEF PathOK, DefaultThreshold, IsFile, IsOpen, find_logger, lsVars
  <2> QED
    BY <1>1, <2>1, SameDescriptors DEF lsVars, fsVars
<1>5. ReplyOK' /\ ArgsOK'
  BY <1>1 DEF ReplyOK, ArgsOK
<1>6. CASE status[source] # "alive" /\ UNCHANGED <<call, belief>>
  <2>1. ClientTypeOK' /\ HistTypeOK' /\ QueueOK' /\ BornOK'
    BY <1>1, <1>6, SMTT(60) DEF ClientTypeOK, HistTypeOK, QueueOK, BornOK
  <2>2. HolderIsOwner' /\ HolderIsNamed'
    BY <1>1, <1>6 DEF HolderIsOwner, HolderIsNamed, IsOpen, find_logger, lsVars
  <2>3. ServingOK'
    BY <1>1 DEF ServingOK
  <2> QED
    BY <1>3, <1>4, <1>5, <2>1, <2>2, <2>3
<1>7. CASE /\ status[source] = "alive"
           /\ call' = [call EXCEPT ![source] = NONE]
           /\ belief' = [belief EXCEPT ![source][m.logger] = Learnt(@)]
  <2>1. \A old \in {"no", "held", "lost"} : Learnt(old) \in {"no", "held", "lost"}
    BY DEF Learnt
  <2>2. HistTypeOK' /\ ClientTypeOK'
    BY <1>1, <1>2, <1>7, <2>1, SMTT(60) DEF HistTypeOK, ClientTypeOK
  <2>3. \A c \in Client, l \in Logger :
          belief'[c][l] = IF c = source /\ l = m.logger THEN Learnt(belief[c][l]) ELSE belief[c][l]
    BY <1>2, <1>7 DEF HistTypeOK
  <2>4. BornOK'
    BY <1>1, <1>7, <2>3, SMTT(60) DEF BornOK
  <2>5. \A i \in 1 .. Len(queue) : queue[i] # source
    BY <1>1 DEF ServingOK
  <2>6. QueueOK'
    BY <1>1, <1>2, <1>7, <2>5, SMTT(60) DEF QueueOK, ClientTypeOK
  <2>7. HolderIsOwner'
    <3>1. SUFFICES ASSUME NEW c \in Client, NEW l \in Logger,
                          belief'[c][l] = "held", status'[c] = "alive"
                   PROVE  (IsOpen(l) /\ g_loggers[l].state.opened_by = c)'
      BY DEF HolderIsOwner
    <3>2. CASE c = source /\ l = m.logger
      <4>1. Learnt(belief[c][l]) = "held"
        BY <2>3, <3>1, <3>2
      <4>2. CASE m.m_type = "LS_START_LOG" /\ result = "OK"
        BY <1>1, <3>2, <4>2 DEF ReplyOK, IsOpen, find_logger, lsVars
      <4>3. CASE ~(m.m_type = "LS_START_LOG" /\ result = "OK")
        <5>1. belief[c][l] = "held" /\ ~(m.m_type = "LS_CLOSE_LOG" /\ result = "OK")
          BY <4>1, <4>3 DEF Learnt
        <5> QED
          BY <1>1, <3>1, <5>1 DEF HolderIsOwner, IsOpen, find_logger, lsVars
      <4> QED
        BY <4>2, <4>3
    <3>3. CASE ~(c = source /\ l = m.logger)
      <4>1. belief[c][l] = "held" /\ status[c] = "alive"
        BY <1>1, <2>3, <3>1, <3>3
      <4> QED
        BY <1>1, <3>3, <4>1 DEF HolderIsOwner, IsOpen, find_logger, lsVars
    <3> QED
      BY <3>2, <3>3
  <2>8. HolderIsNamed'
    <3>1. SUFFICES ASSUME NEW c \in Client, NEW l \in Logger,
                          belief'[c][l] = "held", status'[c] = "alive"
                   PROVE  proctable'[c] # NONE
      BY DEF HolderIsNamed
    <3>2. CASE belief[c][l] = "held"
      BY <1>1, <3>1, <3>2 DEF HolderIsNamed, lsVars
    <3>3. CASE belief[c][l] # "held"
      <4>1. c = source /\ Learnt(belief[c][l]) = "held"
        BY <2>3, <3>1, <3>3
      <4>2. m.m_type = "LS_START_LOG" /\ result = "OK"
        BY <3>3, <4>1 DEF Learnt
      <4> QED
        BY <1>1, <3>1, <4>1, <4>2 DEF ReplyOK, lsVars
    <3> QED
      BY <3>2, <3>3
  <2>9. ServingOK'
    BY <1>1 DEF ServingOK
  <2> QED
    BY <1>3, <1>4, <1>5, <2>2, <2>4, <2>6, <2>7, <2>8, <2>9
<1> QED
  BY <1>6, <1>7 DEF reply

-----------------------------------------------------------------------------
(* Initialisation *)

\* A server step between receiving and replying leaves the clients as they are.
LEMMA ClientsUntouched ==
  ASSUME IInv, UNCHANGED <<m, source, clientVars>>, pc # "receive", pc' # "receive"
  PROVE  ClientTypeOK' /\ QueueOK' /\ NamedOK' /\ ServingOK'
BY DEF IInv, TypeOK, ClientTypeOK, QueueOK, NamedOK, ServingOK, clientVars

\* do_initialize establishes, for its new list of closed loggers, everything the
\* invariant says of lists, descriptors and holders.
LEMMA InitializeInv ==
  ASSUME IInv, NEW ret, do_initialize(ret)
  PROVE  /\ FsTypeOK' /\ PathOK' /\ DefaultThreshold' /\ OwnDescriptor' /\ DescriptorsAccounted'
         /\ HolderIsOwner' /\ HolderIsNamed' /\ leaked' \subseteq FD
<1> USE DEF IInv, TypeOK
<1>1. \A l \in DOMAIN g_loggers' : ~g_loggers'[l].state.is_open
  BY InitializeList
<1>2. OpenFileLoggers' = {} /\ OpenFds' = {}
  BY <1>1 DEF OpenFileLoggers, OpenFds, IsOpen, find_logger
<1>3. PathOK' /\ DefaultThreshold'
  BY <1>1, InitializeList DEF PathOK, DefaultThreshold, IsFile, IsOpen, find_logger
<1>4. OwnDescriptor' /\ DescriptorsAccounted'
  <2>1. OwnDescriptor'
    BY <1>2 DEF OwnDescriptor
  <2>2. DescriptorsAccounted'
    BY <1>2, InitializeRest DEF DescriptorsAccounted, fsVars
  <2> QED
    BY <2>1, <2>2
<1>5. HolderIsOwner' /\ HolderIsNamed'
  BY InitializeRest, SMTT(60) DEF HolderIsOwner, HolderIsNamed
<1>6. FsTypeOK'
  BY InitializeRest DEF FsTypeOK, fsVars
<1>7. leaked' \subseteq FD
  BY InitializeRest DEF DescriptorsAccounted, FsTypeOK
<1> QED
  BY <1>3, <1>4, <1>5, <1>6, <1>7

\* The implicit initialisation keeps the invariant.
LEMMA EnsureInitializedStep == ASSUME IInv, ensure_initialized PROVE IInv'
<1> USE DEF IInv, TypeOK
<1>1. PICK ret \in Result : do_initialize(ret)
  BY DEF ensure_initialized
<1>2. /\ pc = "init" /\ pc' \in {"handle", "reply"} /\ UNCHANGED <<m, source, clientVars>>
      /\ g_is_initialized' \in BOOLEAN
      /\ IF pc' = "reply" THEN result' = "LS_ERR_INIT_FAILED" ELSE result' = result
  BY DEF ensure_initialized, LsTypeOK
<1>3. LsTypeOK'
  BY <1>1, <1>2, InitializeList, InitializeRest DEF LsTypeOK
<1>4. HistTypeOK'
  BY <1>1, <1>2, InitializeRest, InitializeInv, SMTT(60) DEF HistTypeOK
<1>5. LoopTypeOK'
  BY <1>2 DEF LoopTypeOK, Result
<1>6. BornOK'
  BY <1>1, <1>2, InitializeRest DEF BornOK, clientVars
<1>7. ReplyOK' /\ ArgsOK'
  BY <1>2 DEF ReplyOK, ArgsOK, BadArguments
<1> QED
  BY <1>1, <1>2, <1>3, <1>4, <1>5, <1>6, <1>7, ClientsUntouched, InitializeInv

\* LS_INITIALIZE keeps the invariant.
LEMMA HandleInitializeStep == ASSUME IInv, HandleInitialize PROVE IInv'
<1> USE DEF IInv, TypeOK
<1>1. PICK ret \in Result : do_initialize(ret) /\ result' = ret
  BY DEF HandleInitialize
<1>2. /\ pc = "handle" /\ pc' = "reply" /\ UNCHANGED <<g_is_initialized, m, source, clientVars>>
      /\ m.m_type = "LS_INITIALIZE"
  BY DEF HandleInitialize, Handling
<1>3. LsTypeOK'
  BY <1>1, <1>2, InitializeList, InitializeRest DEF LsTypeOK
<1>4. HistTypeOK'
  BY <1>1, <1>2, InitializeRest, InitializeInv, SMTT(60) DEF HistTypeOK
<1>5. LoopTypeOK'
  BY <1>1, <1>2 DEF LoopTypeOK
<1>6. BornOK'
  BY <1>1, <1>2, InitializeRest, SMTT(60) DEF BornOK, clientVars
<1>7. ReplyOK' /\ ArgsOK'
  BY <1>2 DEF ReplyOK, ArgsOK, BadArguments
<1> QED
  BY <1>1, <1>2, <1>3, <1>4, <1>5, <1>6, <1>7, ClientsUntouched, InitializeInv

-----------------------------------------------------------------------------
(* The handlers *)

\* What every handler leaves alone.
HandlerFrame ==
  /\ pc = "handle" /\ pc' = "reply"
  /\ UNCHANGED <<g_is_initialized, m, source, clientVars, belief, leaked>>

\* In a handler the request and its sender are known.
LEMMA Serving ==
  ASSUME IInv, pc = "handle"
  PROVE  m \in Request /\ m.logger \in Logger /\ m.severity \in Nat /\ source \in Client
BY RequestAssumption DEF IInv, TypeOK, LoopTypeOK, Message

\* An early return keeps the invariant.
LEMMA ReturnStep ==
  ASSUME IInv, HandlerFrame, NEW ret \in Result, Return(ret),
         m.m_type \in {"LS_START_LOG", "LS_CLOSE_LOG"} => ret # "OK"
  PROVE  IInv'
<1> USE DEF IInv, TypeOK
<1>1. LsTypeOK' /\ FsTypeOK' /\ HistTypeOK' /\ LoopTypeOK'
  BY DEF LsTypeOK, FsTypeOK, HistTypeOK, LoopTypeOK, HandlerFrame, Return, fsVars
<1>2. PathOK' /\ DefaultThreshold' /\ OwnDescriptor' /\ DescriptorsAccounted'
  <2>1. PathOK' /\ DefaultThreshold'
    BY DEF PathOK, DefaultThreshold, IsFile, IsOpen, find_logger, Return
  <2> QED
    BY <2>1, SameDescriptors DEF HandlerFrame, Return, fsVars
<1>3. BornOK' /\ HolderIsOwner' /\ HolderIsNamed'
  BY DEF BornOK, HolderIsOwner, HolderIsNamed, IsOpen, find_logger, HandlerFrame, Return, clientVars
<1>4. ReplyOK' /\ ArgsOK'
  BY DEF ReplyOK, ArgsOK, HandlerFrame, Return
<1> QED
  BY <1>1, <1>2, <1>3, <1>4, ClientsUntouched DEF HandlerFrame

\* A handler that changes files only, through descriptors that stay open on the same
\* file in the same mode, keeps the invariant.
LEMMA FilesStep ==
  ASSUME IInv, HandlerFrame, UNCHANGED <<g_loggers, proctable, chosen>>, FsTypeOK',
         result' \in Result, m.m_type \notin {"LS_START_LOG", "LS_CLOSE_LOG"},
         DOMAIN fds' = DOMAIN fds,
         \A d \in DOMAIN fds : fds'[d].file = fds[d].file /\ fds'[d].append = fds[d].append
  PROVE  IInv'
<1> USE DEF IInv, TypeOK
<1>1. LsTypeOK' /\ HistTypeOK' /\ LoopTypeOK'
  BY DEF LsTypeOK, HistTypeOK, LoopTypeOK, HandlerFrame
<1>2. PathOK' /\ DefaultThreshold'
  BY DEF PathOK, DefaultThreshold, IsFile, IsOpen, find_logger
<1>4. OwnDescriptor' /\ DescriptorsAccounted'
  BY SameDescriptors DEF HandlerFrame
<1>5. BornOK' /\ HolderIsOwner' /\ HolderIsNamed'
  BY DEF BornOK, HolderIsOwner, HolderIsNamed, IsOpen, find_logger, HandlerFrame, clientVars
<1>6. ReplyOK' /\ ArgsOK'
  BY DEF ReplyOK, ArgsOK, HandlerFrame
<1> QED
  BY <1>1, <1>2, <1>4, <1>5, <1>6, ClientsUntouched DEF HandlerFrame

\* Replacing the state of one entry changes nothing else in the list.
LEMMA OneEntry ==
  ASSUME LsTypeOK, NEW l \in DOMAIN g_loggers, NEW st \in ls_logger_state_t,
         g_loggers' = [g_loggers EXCEPT ![l].state = st]
  PROVE  /\ DOMAIN g_loggers' = DOMAIN g_loggers
         /\ g_loggers' = [k \in DOMAIN g_loggers' |-> g_loggers'[k]]
         /\ \A k \in DOMAIN g_loggers :
              /\ g_loggers'[k] \in [logger : ls_logger_t, state : ls_logger_state_t]
              /\ g_loggers'[k].logger = g_loggers[k].logger
              /\ g_loggers'[k].state = IF k = l THEN st ELSE g_loggers[k].state
BY DEF LsTypeOK

\* Setting a closed logger's severity keeps the invariant.
LEMMA SetSeverityStep == ASSUME IInv, do_set_severity PROVE IInv'
<1> USE DEF IInv, TypeOK
<1> DEFINE l == m.logger
<1>1. HandlerFrame /\ m.m_type = "LS_SET_SEVERITY"
  BY DEF do_set_severity, Handling, HandlerFrame
<1>2. CASE \E ret \in {"LS_ERR_NO_SUCH_LOGGER", "LS_ERR_LOGGER_OPEN"} : Return(ret)
  BY <1>1, <1>2, ReturnStep DEF Result
<1>3. CASE /\ find_logger(l) /\ ~IsOpen(l)
           /\ g_loggers' = [g_loggers EXCEPT ![l].state = [@ EXCEPT !.severity = m.severity]]
           /\ chosen' = [chosen EXCEPT ![l] = m.severity]
           /\ result' = "OK" /\ UNCHANGED <<proctable, fsVars>>
  <2> DEFINE st == [g_loggers[l].state EXCEPT !.severity = m.severity]
  <2>1. l \in DOMAIN g_loggers /\ m.severity \in Severity
    BY <1>1, <1>3 DEF find_logger, ArgsOK, BadArguments, valid_severity, HandlerFrame
  <2>2. st \in ls_logger_state_t /\ st.is_open = FALSE /\ g_loggers[l].state.is_open = FALSE
    BY <1>3, <2>1 DEF LsTypeOK, ls_logger_state_t, IsOpen, find_logger
  <2> HIDE DEF st
  <2>3. g_loggers' = [g_loggers EXCEPT ![l].state = st]
    BY <1>3 DEF st
  <2>4. /\ DOMAIN g_loggers' = DOMAIN g_loggers
        /\ g_loggers' = [k \in DOMAIN g_loggers' |-> g_loggers'[k]]
        /\ \A k \in DOMAIN g_loggers :
             /\ g_loggers'[k] \in [logger : ls_logger_t, state : ls_logger_state_t]
             /\ g_loggers'[k].logger = g_loggers[k].logger
             /\ g_loggers'[k].state = IF k = l THEN st ELSE g_loggers[k].state
    BY <2>1, <2>2, <2>3, OneEntry
  <2>5. LsTypeOK' /\ FsTypeOK' /\ HistTypeOK' /\ LoopTypeOK'
    <3>1. LsTypeOK'
      BY <1>1, <1>3, <2>4 DEF LsTypeOK, HandlerFrame
    <3>2. FsTypeOK' /\ LoopTypeOK'
      BY <1>1, <1>3 DEF FsTypeOK, LoopTypeOK, HandlerFrame, fsVars, Result
    <3>3. HistTypeOK'
      BY <1>1, <1>3, <2>1 DEF HistTypeOK, HandlerFrame
    <3> QED
      BY <3>1, <3>2, <3>3
  <2>6. \A k \in DOMAIN g_loggers : /\ IsOpen(k)' <=> IsOpen(k)
                                    /\ IsFile(k)' <=> IsFile(k)
                                    /\ IsOpen(k) => g_loggers'[k].state = g_loggers[k].state
    BY <2>2, <2>4 DEF IsOpen, IsFile, find_logger
  <2>7. PathOK' /\ DefaultThreshold'
    BY <2>4, <2>6 DEF PathOK, DefaultThreshold
  <2>8. OpenFileLoggers' = OpenFileLoggers /\ OpenFds' = OpenFds
    BY <2>4, <2>6, SMTT(60) DEF OpenFileLoggers, OpenFds
  <2>9. OwnDescriptor' /\ DescriptorsAccounted'
    <3>1. \A k \in OpenFileLoggers : /\ g_loggers'[k].state = g_loggers[k].state
                                     /\ g_loggers'[k].logger = g_loggers[k].logger
      BY <2>4, <2>6 DEF OpenFileLoggers
    <3>a. \A k \in OpenFileLoggers : g_loggers[k].state.fd \in DOMAIN fds
      BY DEF OwnDescriptor
    <3>2. OwnDescriptor'
      BY <1>1, <1>3, <2>8, <3>1, <3>a, StillOwn DEF HandlerFrame, fsVars
    <3> QED
      BY <1>1, <1>3, <2>8, <3>2 DEF DescriptorsAccounted, HandlerFrame, fsVars
  <2>10. BornOK' /\ HolderIsOwner' /\ HolderIsNamed'
    <3> HIDE DEF IInv, TypeOK, l
    <3>1. BornOK /\ HolderIsOwner /\ HolderIsNamed /\ pc # "reply"
      BY <1>1 DEF IInv, HandlerFrame
    <3>2. UNCHANGED <<source, m, status, belief, proctable>> /\ pc # "receive"
      BY <1>1, <1>3 DEF HandlerFrame, clientVars
    <3>3. BornOK' /\ HolderIsNamed'
      BY <3>1, <3>2 DEF BornOK, HolderIsNamed
    <3>4. \A k : IsOpen(k) => IsOpen(k)' /\ g_loggers'[k].state = g_loggers[k].state
      BY <2>6 DEF IsOpen, find_logger
    <3>5. HolderIsOwner'
      BY <3>1, <3>2, <3>4 DEF HolderIsOwner
    <3> QED
      BY <3>3, <3>5
  <2>11. ReplyOK' /\ ArgsOK'
    BY <1>1 DEF ReplyOK, ArgsOK, HandlerFrame
  <2> QED
    BY <1>1, <2>5, <2>7, <2>9, <2>10, <2>11, ClientsUntouched DEF HandlerFrame
<1> QED
  BY <1>2, <1>3 DEF do_set_severity

\* Truncating files leaves files, and clearing touches no descriptor.
LEMMA ClearStep ==
  ASSUME IInv, HandlerFrame, NEW ok, disk' = Truncated(ok), result' \in Result,
         m.m_type \notin {"LS_START_LOG", "LS_CLOSE_LOG"}, UNCHANGED <<g_loggers, proctable, fds, klog, chosen>>
  PROVE  IInv'
<1>1. disk' \in [File -> Seq(Line \cup {NONE})]
  BY SMTT(60) DEF IInv, TypeOK, FsTypeOK, Truncated
<1>2. FsTypeOK'
  BY <1>1 DEF IInv, TypeOK, FsTypeOK
<1> QED
  BY <1>2, FilesStep

\* Clearing one log keeps the invariant.
LEMMA ClearLogStep == ASSUME IInv, do_clear_log PROVE IInv'
<1>1. HandlerFrame /\ m.m_type = "LS_CLEAR_LOG"
  BY DEF do_clear_log, Handling, HandlerFrame
<1>2. CASE \E ret \in Result : Return(ret)
  BY <1>1, <1>2, ReturnStep
<1>3. CASE /\ disk' = Truncated({m.logger}) /\ result' = "OK"
           /\ UNCHANGED <<g_loggers, proctable, fds, klog, chosen>>
  BY <1>1, <1>3, ClearStep DEF Result
<1> QED
  BY <1>2, <1>3 DEF do_clear_log, Result

\* Clearing all logs keeps the invariant.
LEMMA ClearLogsStep == ASSUME IInv, do_clear_logs PROVE IInv'
<1>1. HandlerFrame /\ m.m_type = "LS_CLEAR_ALL" /\ UNCHANGED <<g_loggers, proctable, fds, klog, chosen>>
  BY DEF do_clear_logs, Handling, HandlerFrame, lsVars, histVars
<1>2. \E ok \in SUBSET ClosedFileLoggers : disk' = Truncated(ok)
  BY DEF do_clear_logs
<1>3. result' \in Result
  BY DEF do_clear_logs, Result
<1> QED
  BY <1>1, <1>2, <1>3, ClearStep

\* Appending a member keeps a sequence a sequence.
LEMMA AppendType ==
  ASSUME NEW S, NEW s \in Seq(S), NEW e \in S
  PROVE  Append(s, e) \in Seq(S)
BY SMTT(60)

\* A line that do_write_log emits is a line.
LEMMA LineType ==
  ASSUME IInv, pc = "handle", m.m_type = "LS_WRITE_LOG", NEW whole \in BOOLEAN
  PROVE  TheLine(whole) \in Line
BY Serving DEF IInv, TypeOK, LsTypeOK, ArgsOK, BadArguments, valid_severity, TheLine, Line

\* Writing through an open descriptor keeps file system types, and which file every
\* descriptor is open on.
LEMMA WriteFdType ==
  ASSUME FsTypeOK, NEW fd \in DOMAIN fds, NEW line \in Line, WriteFd(fd, line), UNCHANGED klog
  PROVE  /\ FsTypeOK' /\ DOMAIN fds' = DOMAIN fds
         /\ \A d \in DOMAIN fds : fds'[d].file = fds[d].file /\ fds'[d].append = fds[d].append
<1>1. /\ fds[fd].file \in File /\ fds[fd].pos \in Nat /\ fds[fd].append \in BOOLEAN
      /\ disk[fds[fd].file] \in Seq(Line \cup {NONE})
  BY DEF FsTypeOK, Filp
<1> DEFINE pos == IF fds[fd].append THEN Len(disk[fds[fd].file]) ELSE fds[fd].pos
<1>2. pos \in Nat
  BY <1>1, SMTT(60)
<1> HIDE DEF pos
<1>3. WriteAt(disk[fds[fd].file], pos, line) \in Seq(Line \cup {NONE})
  BY <1>1, <1>2, WriteAtType
<1>4. disk' = [disk EXCEPT ![fds[fd].file] = WriteAt(disk[fds[fd].file], pos, line)]
  BY DEF WriteFd, pos
<1>5. disk' \in [File -> Seq(Line \cup {NONE})]
  BY <1>1, <1>3, <1>4 DEF FsTypeOK
<1> DEFINE newpos == IF fds[fd].append THEN fds[fd].pos ELSE fds[fd].pos + 1
<1>6. newpos \in Nat
  BY <1>1, SMTT(60)
<1>7. fds' = [fds EXCEPT ![fd].pos = newpos]
  BY DEF WriteFd
<1> HIDE DEF newpos
<1>8. /\ DOMAIN fds' = DOMAIN fds
      /\ fds' = [d \in DOMAIN fds' |-> fds'[d]]
      /\ \A d \in DOMAIN fds : /\ fds'[d] \in Filp
                               /\ fds'[d].file = fds[d].file /\ fds'[d].append = fds[d].append
  BY <1>6, <1>7 DEF FsTypeOK, Filp
<1> QED
  BY <1>5, <1>8 DEF FsTypeOK

\* Writing a message keeps the invariant.
LEMMA WriteLogStep == ASSUME IInv, do_write_log PROVE IInv'
<1>1. HandlerFrame /\ m.m_type = "LS_WRITE_LOG"
  BY DEF do_write_log, Handling, HandlerFrame
<1>2. CASE \E ret \in Result : Return(ret)
  BY <1>1, <1>2, ReturnStep
<1> DEFINE fd == g_loggers[m.logger].state.fd
<1>3. CASE /\ \E whole \in BOOLEAN : fd \in DOMAIN fds /\ WriteFd(fd, TheLine(whole))
           /\ result' \in {"OK", "LS_ERR_EXTERNAL"}
           /\ UNCHANGED <<klog, g_loggers, proctable, chosen>>
  <2>1. PICK whole \in BOOLEAN : fd \in DOMAIN fds /\ WriteFd(fd, TheLine(whole))
    BY <1>3
  <2>2. TheLine(whole) \in Line
    BY <1>1, LineType DEF HandlerFrame
  <2>3. /\ FsTypeOK' /\ DOMAIN fds' = DOMAIN fds
        /\ \A d \in DOMAIN fds : fds'[d].file = fds[d].file /\ fds'[d].append = fds[d].append
    BY <1>3, <2>1, <2>2, WriteFdType DEF IInv, TypeOK
  <2> QED
    BY <1>1, <1>3, <2>3, FilesStep DEF Result
<1>4. CASE /\ result' \in {"OK", "LS_ERR_EXTERNAL"} /\ UNCHANGED <<fsVars, g_loggers, proctable, chosen>>
  BY <1>1, <1>4, ReturnStep DEF Return, Result
<1>5. CASE /\ klog' = Append(klog, TheLine(TRUE)) /\ result' = "OK"
           /\ UNCHANGED <<fds, disk, g_loggers, proctable, chosen>>
  <2>1. TheLine(TRUE) \in Line /\ klog \in Seq(Line)
    BY <1>1, LineType DEF IInv, TypeOK, FsTypeOK, HandlerFrame
  <2>2. klog' \in Seq(Line)
    BY <1>5, <2>1, AppendType
  <2>3. FsTypeOK'
    BY <1>5, <2>2 DEF IInv, TypeOK, FsTypeOK
  <2> QED
    BY <1>1, <1>5, <2>3, FilesStep DEF Result
<1> QED
  BY <1>2, <1>3, <1>4, <1>5 DEF do_write_log, Result

\* Closing a logger keeps the invariant: its descriptor, which is nobody else's, goes
\* with it.
LEMMA CloseLogStep == ASSUME IInv, do_close_log PROVE IInv'
<1> USE DEF IInv, TypeOK
<1> DEFINE l == m.logger
<1>1. HandlerFrame /\ m.m_type = "LS_CLOSE_LOG"
  BY DEF do_close_log, Handling, HandlerFrame
<1>2. CASE \E ret \in Result \ {"OK"} : Return(ret)
  BY <1>1, <1>2, ReturnStep
<1>3. CASE /\ IsOpen(l) /\ IsOwner(l)
           /\ fds' = IF IsFile(l) THEN CloseFd(g_loggers[l].state.fd) ELSE fds
           /\ g_loggers' = [g_loggers EXCEPT ![l].state = ClosedState(@)]
           /\ result' = "OK"
           /\ UNCHANGED <<proctable, disk, klog, chosen>>
  <2> DEFINE st == ClosedState(g_loggers[l].state)
             fd == g_loggers[l].state.fd
  <2>1. l \in DOMAIN g_loggers
    BY <1>3 DEF IsOpen, find_logger
  <2>2. st \in ls_logger_state_t /\ st.is_open = FALSE
    <3>1. g_loggers[l].state \in ls_logger_state_t
      BY <2>1 DEF LsTypeOK
    <3> HIDE DEF IInv, TypeOK
    <3> QED
      BY <3>1 DEF ls_logger_state_t, ClosedState
  <2>3. g_loggers' = [g_loggers EXCEPT ![l].state = st]
    BY <1>3
  <2> HIDE DEF st
  <2>4. /\ DOMAIN g_loggers' = DOMAIN g_loggers
        /\ g_loggers' = [k \in DOMAIN g_loggers' |-> g_loggers'[k]]
        /\ \A k \in DOMAIN g_loggers :
             /\ g_loggers'[k] \in [logger : ls_logger_t, state : ls_logger_state_t]
             /\ g_loggers'[k].logger = g_loggers[k].logger
             /\ g_loggers'[k].state = IF k = l THEN st ELSE g_loggers[k].state
    BY <2>1, <2>2, <2>3, OneEntry
  <2>5. LsTypeOK' /\ HistTypeOK' /\ LoopTypeOK'
    BY <1>1, <1>3, <2>4 DEF LsTypeOK, HistTypeOK, LoopTypeOK, HandlerFrame, Result
  <2>6. /\ DOMAIN fds' = IF IsFile(l) THEN DOMAIN fds \ {fd} ELSE DOMAIN fds
        /\ fds' = [d \in DOMAIN fds' |-> fds'[d]]
        /\ \A d \in DOMAIN fds' : fds'[d] = fds[d]
    BY <1>3 DEF CloseFd, FsTypeOK
  <2>7. FsTypeOK'
    BY <1>3, <2>6 DEF FsTypeOK
  <2>8. \A k \in DOMAIN g_loggers : /\ IsOpen(k)' <=> IsOpen(k) /\ k # l
                                    /\ IsFile(k)' <=> IsFile(k)
                                    /\ k # l => g_loggers'[k].state = g_loggers[k].state
    BY <2>2, <2>4 DEF IsOpen, IsFile, find_logger
  <2>9. PathOK' /\ DefaultThreshold'
    BY <2>4, <2>8 DEF PathOK, DefaultThreshold
  <2>10. OpenFileLoggers' = OpenFileLoggers \ {l}
    BY <2>4, <2>8 DEF OpenFileLoggers
  <2>11. \A k \in OpenFileLoggers' : /\ g_loggers'[k] = g_loggers[k] /\ k \in OpenFileLoggers
    <3>1. \A k \in OpenFileLoggers' : k \in DOMAIN g_loggers /\ k # l /\ k \in OpenFileLoggers
      BY <2>10 DEF OpenFileLoggers
    <3> QED
      BY <2>3, <3>1 DEF LsTypeOK
  <2>12. IsFile(l) => /\ l \in OpenFileLoggers /\ fd \in DOMAIN fds \ leaked
                      /\ \A k \in OpenFileLoggers : g_loggers[k].state.fd = fd => k = l
    BY <1>3, <2>1 DEF OpenFileLoggers, OwnDescriptor
  <2>13. \A k \in OpenFileLoggers' : g_loggers[k].state.fd \in DOMAIN fds'
    BY <2>6, <2>10, <2>11, <2>12 DEF OwnDescriptor
  <2>14. OwnDescriptor'
    BY <1>1, <2>6, <2>11, <2>13, StillOwn DEF HandlerFrame
  <2>15. OpenFds' = IF IsFile(l) THEN OpenFds \ {fd} ELSE OpenFds
    <3>1. OpenFds' = {g_loggers[k].state.fd : k \in OpenFileLoggers \ {l}}
      BY <2>10, <2>11 DEF OpenFds
    <3>2. ~IsFile(l) => l \notin OpenFileLoggers
      BY DEF OpenFileLoggers
    <3> QED
      BY <2>12, <3>1, <3>2 DEF OpenFds
  <2>16. DescriptorsAccounted'
    BY <1>1, <2>6, <2>12, <2>15 DEF DescriptorsAccounted, HandlerFrame
  <2>17. BornOK' /\ HolderIsNamed'
    BY <1>1, <1>3 DEF BornOK, HolderIsNamed, HandlerFrame, clientVars
  <2>18. HolderIsOwner'
    <3>1. SUFFICES ASSUME NEW c \in Client, NEW k \in Logger,
                          belief[c][k] = "held", status[c] = "alive"
                   PROVE  \/ IsOpen(k)' /\ g_loggers'[k].state.opened_by = c
                          \/ /\ pc' = "reply" /\ source' = c /\ m'.m_type = "LS_CLOSE_LOG"
                             /\ m'.logger = k /\ result' = "OK"
      BY <1>1 DEF HolderIsOwner, HandlerFrame, clientVars
    <3>2. IsOpen(k) /\ g_loggers[k].state.opened_by = c /\ k \in DOMAIN g_loggers
      BY <1>1, <3>1 DEF HolderIsOwner, HandlerFrame, IsOpen, find_logger
    <3>3. CASE k = l
      BY <1>1, <1>3, <3>2, <3>3 DEF IsOwner, HandlerFrame
    <3>4. CASE k # l
      BY <2>8, <3>2, <3>4
    <3> QED
      BY <3>3, <3>4
  <2>19. ReplyOK' /\ ArgsOK'
    BY <1>1, <2>2, <2>4 DEF ReplyOK, ArgsOK, HandlerFrame, IsOpen, find_logger
  <2> QED
    BY <1>1, <2>5, <2>7, <2>9, <2>14, <2>16, <2>17, <2>18, <2>19, ClientsUntouched DEF HandlerFrame
<1> QED
  BY <1>2, <1>3 DEF do_close_log, Result

\* Starting a logger keeps the invariant: it was nobody's, and its descriptor is new.
LEMMA StartLogStep == ASSUME IInv, do_start_log PROVE IInv'
<1> USE DEF IInv, TypeOK
<1> DEFINE l == m.logger
           entry == g_loggers[l]
<1>1. HandlerFrame /\ m.m_type = "LS_START_LOG"
  BY DEF do_start_log, Handling, HandlerFrame
<1>2. CASE \E ret \in Result \ {"OK"} : Return(ret)
  BY <1>1, <1>2, ReturnStep
<1>3. CASE /\ find_logger(l) /\ ~IsOpen(l)
           /\ \E fd \in FD \cup {-1} :
                /\ \/ IsFile(l) /\ OpenForLogging(entry.logger, fd)
                   \/ ~IsFile(l) /\ fd = entry.state.fd /\ UNCHANGED <<fds, disk>>
                /\ g_loggers' = [g_loggers EXCEPT ![l].state = OpenedState(entry.logger, fd)]
           /\ \E ret \in Result : get_process_table(ret) /\ result' = ret
           /\ UNCHANGED <<klog, chosen>>
  <2>1. PICK fd \in FD \cup {-1} :
          /\ \/ IsFile(l) /\ OpenForLogging(entry.logger, fd)
             \/ ~IsFile(l) /\ fd = entry.state.fd /\ UNCHANGED <<fds, disk>>
          /\ g_loggers' = [g_loggers EXCEPT ![l].state = OpenedState(entry.logger, fd)]
    BY <1>3
  <2> DEFINE st == OpenedState(entry.logger, fd)
  <2>2. l \in DOMAIN g_loggers /\ source \in Client
    BY <1>1, <1>3, Serving DEF find_logger, HandlerFrame
  <2>a. st \in ls_logger_state_t
    BY <2>2 DEF LsTypeOK, ls_logger_t, ls_logger_state_t, OpenedState
  <2>3. /\ st.is_open /\ st.opened_by = source /\ st.fd = fd
        /\ st.severity = entry.logger.severity
    BY DEF OpenedState
  <2>4. g_loggers' = [g_loggers EXCEPT ![l].state = st]
    BY <2>1
  <2> HIDE DEF st
  <2>5. /\ DOMAIN g_loggers' = DOMAIN g_loggers
        /\ g_loggers' = [k \in DOMAIN g_loggers' |-> g_loggers'[k]]
        /\ \A k \in DOMAIN g_loggers :
             /\ g_loggers'[k] \in [logger : ls_logger_t, state : ls_logger_state_t]
             /\ g_loggers'[k].logger = g_loggers[k].logger
             /\ g_loggers'[k].state = IF k = l THEN st ELSE g_loggers[k].state
    <3>1. LsTypeOK
      OBVIOUS
    <3> HIDE DEF IInv, TypeOK
    <3> QED
      BY <2>2, <2>a, <2>4, <3>1, OneEntry
  <2>6. PICK ret \in Result : get_process_table(ret) /\ result' = ret
    BY <1>3
  <2>7. /\ proctable' \in [Client -> ProcName \cup {NONE}]
        /\ \/ proctable' = proctable
           \/ \A c \in Client : status[c] = "alive" => proctable'[c] \in ProcName
        /\ result' = "OK" => \A c \in Client : status[c] = "alive" => proctable'[c] \in ProcName
    BY <2>6, TableType
  <2>8. LsTypeOK' /\ HistTypeOK' /\ LoopTypeOK'
    BY <1>1, <1>3, <2>5, <2>6, <2>7 DEF LsTypeOK, HistTypeOK, LoopTypeOK, HandlerFrame
  <2>9. \A k \in DOMAIN g_loggers : /\ IsOpen(k)' <=> IsOpen(k) \/ k = l
                                    /\ IsFile(k)' <=> IsFile(k)
                                    /\ k # l => g_loggers'[k].state = g_loggers[k].state
    BY <2>3, <2>5 DEF IsOpen, IsFile, find_logger
  <2>10. PathOK' /\ DefaultThreshold'
    BY <2>2, <2>3, <2>5, <2>9, SMTT(60) DEF PathOK, DefaultThreshold
  <2>11. FsTypeOK' /\ OwnDescriptor' /\ DescriptorsAccounted'
    <3>a. LsTypeOK /\ FsTypeOK /\ PathOK /\ OwnDescriptor /\ DescriptorsAccounted
      OBVIOUS
    <3> HIDE DEF IInv, TypeOK
    <3>b. \A k \in OpenFileLoggers : g_loggers[k].state.fd \in DOMAIN fds
      BY <3>a DEF OwnDescriptor
    <3>0. /\ l \notin OpenFileLoggers /\ OpenFileLoggers \subseteq DOMAIN g_loggers
          /\ \A k \in OpenFileLoggers : /\ g_loggers'[k].state = g_loggers[k].state
                                        /\ g_loggers'[k].logger = g_loggers[k].logger
      BY <1>3, <2>5, <2>9 DEF OpenFileLoggers
    <3>1. CASE ~IsFile(l) /\ UNCHANGED <<fds, disk>>
      <4>1. OpenFileLoggers' = OpenFileLoggers
        BY <2>5, <2>9, <3>1 DEF OpenFileLoggers
      <4>2. OpenFds' = OpenFds
        BY <3>0, <4>1 DEF OpenFds
      <4>3. OwnDescriptor'
        BY <1>1, <3>0, <3>1, <3>a, <3>b, <4>1, StillOwn DEF HandlerFrame
      <4>4. FsTypeOK' /\ DescriptorsAccounted'
        BY <1>1, <1>3, <3>1, <3>a, <4>2 DEF FsTypeOK, DescriptorsAccounted, HandlerFrame
      <4> QED
        BY <4>3, <4>4
    <3>2. CASE IsFile(l) /\ OpenForLogging(entry.logger, fd)
      <4>1. OpenFileLoggers' = OpenFileLoggers \cup {l}
        BY <2>2, <2>5, <2>9, <3>2 DEF OpenFileLoggers
      <4>2. g_loggers'[l].state.fd = fd /\ g_loggers'[l].logger = entry.logger
        BY <2>2, <2>3, <2>5
      <4>3. OpenFds' = OpenFds \cup {fd}
        BY <3>0, <4>1, <4>2, SMTT(60) DEF OpenFds
      <4>4. /\ fd \in FD \ DOMAIN fds /\ entry.logger.dest_filename \in File
            /\ entry.logger.append \in BOOLEAN
        BY <2>2, <3>2, <3>a DEF OpenForLogging, LowestFreeFd, PathOK, LsTypeOK, ls_logger_t
      <4>5. /\ DOMAIN fds' = DOMAIN fds \cup {fd}
            /\ fds' = [d \in DOMAIN fds' |-> fds'[d]]
            /\ \A d \in DOMAIN fds : fds'[d] = fds[d]
            /\ fds'[fd] = [file |-> entry.logger.dest_filename, pos |-> 0,
                           append |-> entry.logger.append]
        BY <3>2, <4>4 DEF OpenForLogging
      <4>6. disk' \in [File -> Seq(Line \cup {NONE})]
        <5>1. /\ disk \in [File -> Seq(Line \cup {NONE})]
              /\ disk' = IF entry.logger.append THEN disk ELSE [disk EXCEPT ![entry.logger.dest_filename] = <<>>]
          BY <3>2, <3>a DEF OpenForLogging, FsTypeOK
        <5> HIDE DEF entry
        <5> QED
          BY <5>1, <4>4, SMTT(60)
      <4>7. FsTypeOK'
        BY <1>3, <3>a, <4>4, <4>5, <4>6, SMTT(60) DEF FsTypeOK, Filp
      <4>8. DescriptorsAccounted'
        BY <1>1, <3>a, <4>3, <4>5 DEF DescriptorsAccounted, HandlerFrame
      <4>9. fd \notin leaked /\ \A k \in OpenFileLoggers : g_loggers[k].state.fd # fd
        BY <3>a, <4>4 DEF DescriptorsAccounted, OpenFds
      <4>10. \A k \in OpenFileLoggers' :
               /\ g_loggers'[k].state.fd \in DOMAIN fds' \ leaked
               /\ fds'[g_loggers'[k].state.fd].file = g_loggers'[k].logger.dest_filename
               /\ fds'[g_loggers'[k].state.fd].append = g_loggers'[k].logger.append
        <5>1. SUFFICES ASSUME NEW k \in OpenFileLoggers \cup {l}
                       PROVE  /\ g_loggers'[k].state.fd \in DOMAIN fds' \ leaked
                              /\ fds'[g_loggers'[k].state.fd].file = g_loggers'[k].logger.dest_filename
                              /\ fds'[g_loggers'[k].state.fd].append = g_loggers'[k].logger.append
          BY <4>1
        <5>2. CASE k = l
          <6>1. fd \in DOMAIN fds' \ leaked
            BY <4>5, <4>9
          <6>2. /\ fds'[fd].file = entry.logger.dest_filename
                /\ fds'[fd].append = entry.logger.append
            BY <4>5, SMTT(60)
          <6> HIDE DEF entry
          <6> QED
            BY <4>2, <5>2, <6>1, <6>2
        <5>3. CASE k \in OpenFileLoggers
          <6>1. /\ g_loggers[k].state.fd \in DOMAIN fds \ leaked
                /\ fds[g_loggers[k].state.fd].file = g_loggers[k].logger.dest_filename
                /\ fds[g_loggers[k].state.fd].append = g_loggers[k].logger.append
            BY <3>a, <5>3 DEF OwnDescriptor
          <6> QED
            BY <3>0, <4>5, <5>3, <6>1, SMTT(60)
        <5> QED
          BY <5>2, <5>3
      <4>11. \A k, j \in OpenFileLoggers' :
               g_loggers'[k].state.fd = g_loggers'[j].state.fd => k = j
        <5>1. \A k \in OpenFileLoggers : g_loggers'[k].state.fd = g_loggers[k].state.fd
          BY <3>0
        <5>2. \A k, j \in OpenFileLoggers :
                g_loggers[k].state.fd = g_loggers[j].state.fd => k = j
          BY <3>a DEF OwnDescriptor
        <5> QED
          BY <4>1, <4>2, <4>9, <5>1, <5>2, SMTT(60)
      <4>12. OwnDescriptor'
        BY <1>1, <4>10, <4>11 DEF OwnDescriptor, HandlerFrame
      <4> QED
        BY <4>7, <4>8, <4>12
    <3> QED
      BY <2>1, <3>1, <3>2
  <2>12. BornOK' /\ HolderIsNamed'
    BY <1>1, <2>7, NoneAssumption DEF BornOK, HolderIsNamed, HandlerFrame, clientVars
  <2>13. HolderIsOwner'
    <3>1. SUFFICES ASSUME NEW c \in Client, NEW k \in Logger,
                          belief[c][k] = "held", status[c] = "alive"
                   PROVE  IsOpen(k)' /\ g_loggers'[k].state.opened_by = c
      BY <1>1 DEF HolderIsOwner, HandlerFrame, clientVars
    <3>2. IsOpen(k) /\ g_loggers[k].state.opened_by = c /\ k \in DOMAIN g_loggers
      BY <1>1, <3>1 DEF HolderIsOwner, HandlerFrame, IsOpen, find_logger
    <3> QED
      BY <1>3, <2>9, <3>2
  <2>14. ReplyOK'
    <3>1. IsOpen(m.logger)' /\ g_loggers'[m.logger].state.opened_by = source
      BY <1>1, <2>2, <2>3, <2>5 DEF HandlerFrame, IsOpen, find_logger
    <3> QED
      BY <1>1, <2>2, <2>7, <3>1, NoneAssumption
         DEF ReplyOK, HandlerFrame, clientVars, IsOpen, find_logger
  <2>15. ArgsOK'
    BY <1>1 DEF ArgsOK, HandlerFrame
  <2> QED
    BY <1>1, <2>8, <2>10, <2>11, <2>12, <2>13, <2>14, <2>15, ClientsUntouched DEF HandlerFrame
<1> QED
  BY <1>2, <1>3 DEF do_start_log, Result

-----------------------------------------------------------------------------
(* The theorems *)

\* The boot state satisfies the invariant.
LEMMA InitInv == ASSUME Init PROVE IInv
<1> USE DEF Init
<1>1. LsTypeOK /\ LoopTypeOK
  BY DEF LsTypeOK, LoopTypeOK, NoLoggers
<1>2. FsTypeOK /\ ClientTypeOK /\ HistTypeOK
  <2>1. <<>> \in Seq(Line) /\ <<>> \in Seq(Line \cup {NONE}) /\ <<>> \in Seq(Client)
    BY SMTT(60)
  <2>2. DOMAIN fds = {} /\ fds = [d \in DOMAIN fds |-> fds[d]]
    OBVIOUS
  <2>3. FsTypeOK
    BY <2>1, <2>2 DEF FsTypeOK
  <2> QED
    BY <2>1, <2>3 DEF ClientTypeOK, HistTypeOK
<1>3. DOMAIN g_loggers = {} /\ OpenFileLoggers = {} /\ OpenFds = {} /\ DOMAIN fds = {}
  BY DEF NoLoggers, OpenFileLoggers, OpenFds
<1>4. QueueOK /\ ServingOK /\ ArgsOK /\ NamedOK /\ BornOK /\ ReplyOK
  <2>1. QueueOK /\ ServingOK
    BY SMTT(60) DEF QueueOK, ServingOK
  <2>2. ArgsOK /\ ReplyOK
    BY DEF ArgsOK, ReplyOK
  <2>3. NamedOK /\ BornOK
    BY DEF NamedOK, BornOK
  <2> QED
    BY <2>1, <2>2, <2>3
<1>5. PathOK /\ DefaultThreshold /\ OwnDescriptor /\ DescriptorsAccounted
  BY <1>3 DEF PathOK, DefaultThreshold, OwnDescriptor, DescriptorsAccounted
<1>6. HolderIsOwner /\ HolderIsNamed
  BY DEF HolderIsOwner, HolderIsNamed
<1> QED
  BY <1>1, <1>2, <1>4, <1>5, <1>6 DEF IInv, TypeOK

\* Every step of the server or of its environment keeps the invariant.
LEMMA NextInv == ASSUME IInv, Next PROVE IInv'
<1>1. CASE Server
  BY <1>1, WaitRequestStep, EnsureInitializedStep, ReplyStep, HandleInitializeStep,
     StartLogStep, CloseLogStep, WriteLogStep, SetSeverityStep, ClearLogStep, ClearLogsStep
     DEF Server, Handler
<1>2. CASE Environment
  BY <1>2, CallStep, ExecStep, SpawnStep, DieStep DEF Environment
<1> QED
  BY <1>1, <1>2 DEF Next

\* A step that changes no variable keeps the invariant.
LEMMA StutterInv == ASSUME IInv, UNCHANGED vars PROVE IInv'
<1> USE DEF vars, IInv, TypeOK
<1>1. UNCHANGED serverVars /\ UNCHANGED clientVars
  BY DEF serverVars
<1>2. ClientTypeOK' /\ QueueOK' /\ NamedOK'
  BY <1>1 DEF clientVars, ClientTypeOK, QueueOK, NamedOK
<1>3. ServingOK'
  BY <1>1 DEF clientVars, serverVars, ServingOK
<1>4. \A c \in Client : /\ status'[c] = "alive" => status[c] = "alive"
                        /\ status'[c] = "unborn" => status[c] = "unborn"
  BY <1>1 DEF clientVars
<1> QED
  BY <1>1, <1>2, <1>3, <1>4, ServerUntouched, NobodyBorn

\* The inductive invariant holds in every reachable state of LS and its clients.
THEOREM Invariance == Spec => []IInv
<1>1. Init => IInv
  BY InitInv
<1>2. IInv /\ [Next]_vars => IInv'
  BY NextInv, StutterInv
<1> QED
  BY <1>1, <1>2, PTL DEF Spec

\* Type correctness of the server, its clients and its part of VFS.
THEOREM TypeCorrect == Spec => []TypeOK
<1>1. IInv => TypeOK
  BY DEF IInv
<1> QED
  BY <1>1, Invariance, PTL

\* LS's descriptors are those of the open loggers and those do_initialize leaked, for any
\* number of loggers, clients and descriptors.
THEOREM NoDescriptorLost == Spec => []DescriptorsAccounted
<1>1. IInv => DescriptorsAccounted
  BY DEF IInv
<1> QED
  BY <1>1, Invariance, PTL

\* Every open file logger owns its descriptor: do_write_log and do_close_log act on the
\* right file for any number of loggers, clients and descriptors.
THEOREM DescriptorsCorrect == Spec => []OwnDescriptor
<1>1. IInv => OwnDescriptor
  BY DEF IInv
<1> QED
  BY <1>1, Invariance, PTL

\* A process that was told OK by start_log is in LS's copy of the process table.
THEOREM HoldersNamed == Spec => []HolderIsNamed
<1>1. IInv => HolderIsNamed
  BY DEF IInv
<1> QED
  BY <1>1, Invariance, PTL

\* Who was told OK by start_log owns the logger until it closes it or LS initialises
\* again.
THEOREM HoldersCorrect == Spec => []HolderIsOwner
<1>1. IInv => HolderIsOwner
  BY DEF IInv
<1> QED
  BY <1>1, Invariance, PTL

\* Mutual exclusion: at most one live process holds a logger of the current list.
THEOREM MutualExclusion == Spec => []OneHolder
<1>1. IInv => OneHolder
  BY SMTT(60) DEF IInv, HolderIsOwner, ReplyOK, OneHolder
<1> QED
  BY <1>1, Invariance, PTL

\* An open logger filters at its configured severity, whatever do_set_severity accepted.
THEOREM ThresholdIsDefault == Spec => []DefaultThreshold
<1>1. IInv => DefaultThreshold
  BY DEF IInv
<1> QED
  BY <1>1, Invariance, PTL

=============================================================================
