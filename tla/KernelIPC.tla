------------------------------ MODULE KernelIPC ------------------------------
(***************************************************************************)
(* Message passing in the kernel, on which every call to the log server    *)
(* and every call it makes rests: SEND, SENDNB, SENDREC, RECEIVE and NOTIFY*)
(* (kernel/proc.c) and what the death of a process and SYS_STATECTL do to  *)
(* the processes blocked on it (kernel/system.c).                          *)
(*                                                                         *)
(* A process is its slot number: clear_ipc_refs goes through the slots in  *)
(* order.  Each has a privilege structure of its own, may send to all the  *)
(* others and to itself never, passes valid message buffers and makes only *)
(* the calls its masks allow (others are refused without effect).  Nothing *)
(* keeps a process from receiving from itself.  A dead slot is not used    *)
(* again.  A trap is one step: the kernel runs with its lock held.  SENDA  *)
(* is left out.                                                            *)
(***************************************************************************)
EXTENDS Integers, Sequences, Functions

CONSTANTS
  NR_PROCS,
  s_trap_mask,     \* process -> the traps it may make
  s_k_call_mask,   \* process -> the kernel calls it may make
  ANY, NONE, NULL

Proc == 1 .. NR_PROCS

Message == [src : Proc, notify : BOOLEAN]

\* A call that sends.
Sending == [op : {"SEND", "SENDREC"}, dst : Proc]

ASSUME IPCAssumption ==
  /\ NR_PROCS \in Nat
  /\ ANY \notin Proc /\ NONE \notin Proc /\ NULL \notin Proc /\ ANY # NONE
  /\ NONE \notin Message \cup Sending \cup {"no message handed", "sender alive", "link NULL", "walk endless"}
  /\ s_trap_mask \in [Proc -> SUBSET {"SEND", "SENDNB", "SENDREC", "RECEIVE", "NOTIFY"}]
  /\ s_k_call_mask \in [Proc -> SUBSET {"SYS_STATECTL"}]

VARIABLES
  proc,    \* the process table
  panic,   \* what has stopped the kernel: the assertion that has failed or the walk
           \* of deadlock that does not end; NONE while it runs
  last,    \* history: the last call of a process if it sent, [op, dst], or NONE
  handed   \* history: how often its message was handed to dst

vars == <<proc, panic, last, handed>>

Code == {"OK", "EDEADSRCDST", "ELOCKED", "ENOTREADY"}

\* struct proc, and s_notify_pending of its privilege structure.
Slot == [alive : BOOLEAN, sending : BOOLEAN, receiving : BOOLEAN,
         sendto_e : Proc \cup {NONE}, getfrom_e : Proc \cup {ANY, NONE},
         reply_pend : BOOLEAN,
         delivermsg : Message \cup {NONE},
         caller_q : Proc \cup {NULL}, q_link : Proc \cup {NULL},
         notify_pending : SUBSET Proc, retreg : Code]

Table == [Proc -> Slot]

TypeOK ==
  /\ proc \in Table
  /\ panic \in {NONE, "no message handed", "sender alive", "link NULL", "walk endless"}
  /\ last \in [Proc -> Sending \cup {NONE}]
  /\ handed \in [Proc -> 0 .. 1]

Init ==
  /\ proc = [p \in Proc |->
               [alive |-> TRUE, sending |-> FALSE, receiving |-> FALSE,
                sendto_e |-> NONE, getfrom_e |-> NONE, reply_pend |-> FALSE,
                delivermsg |-> NONE, caller_q |-> NULL, q_link |-> NULL,
                notify_pending |-> {}, retreg |-> "OK"]]
  /\ panic = NONE
  /\ last = [p \in Proc |-> NONE] /\ handed = [p \in Proc |-> 0]

-----------------------------------------------------------------------------
(* Helpers on a process table T *)

P_BLOCKEDON(T, p) ==
  IF T[p].sending THEN T[p].sendto_e ELSE IF T[p].receiving THEN T[p].getfrom_e ELSE NONE

WILLRECEIVE(T, d, src) ==
  /\ T[d].receiving /\ ~T[d].sending
  /\ T[d].getfrom_e \in {ANY, src}

\* The processes reached from p by following P_BLOCKEDON, at most one round.
BlockedChain(T, p) ==
  LET next(x) == IF x \in Proc THEN P_BLOCKEDON(T, x) ELSE x
      chain[k \in 0 .. NR_PROCS] == IF k = 0 THEN p ELSE next(chain[k - 1])
  IN  chain

deadlockPairOnly(function, T, p, d) ==
  d # ANY /\ P_BLOCKEDON(T, d) = p /\ T[d].sending = (function = "SEND")

\* Is the caller p, about to block on d, reached again from d?  In a group of
\* two one may send and the other receive.
deadlock(function, T, p, d) ==
  /\ d # ANY
  /\ \E k \in 1 .. NR_PROCS : BlockedChain(T, d)[k] = p
  /\ ~(P_BLOCKEDON(T, d) = p /\ T[d].sending # (function = "SEND"))

\* The walk from d comes neither to the caller p nor to an end.  Among NR_PROCS
\* processes it is then in a circle and goes on for ever.
Endless(T, p, d) == d # ANY /\ \A k \in 1 .. NR_PROCS : BlockedChain(T, d)[k] \in Proc \ {p}

\* The pointers met on the walk along the caller queue of d.
QueueWalk(T, d) ==
  LET q[k \in 0 .. NR_PROCS] == IF k = 0 THEN T[d].caller_q
                                ELSE IF q[k - 1] = NULL THEN NULL ELSE T[q[k - 1]].q_link
  IN  q

\* The caller queue of d from its head on, as a sequence.
Queue(T, d) ==
  LET q == QueueWalk(T, d)
  IN  [k \in {k \in 1 .. NR_PROCS : q[k - 1] # NULL} |-> q[k - 1]]

\* Make the link that leads to the i-th of d's queue lead to p.
Relinked(T, d, i, p) ==
  IF i = 1 THEN [T EXCEPT ![d].caller_q = p]
           ELSE [T EXCEPT ![Queue(T, d)[i - 1]].q_link = p]

EnqueuedFirst(T, p, d) == [T EXCEPT ![d].caller_q = p, ![p].q_link = T[d].caller_q]

Enqueued(T, p, d) == Relinked(T, d, Len(Queue(T, d)) + 1, p)

UnlinkedWithRest(T, x, d) ==
  LET q == Queue(T, d)
  IN  IF x \in Range(q) THEN Relinked(T, d, CHOOSE i \in DOMAIN q : q[i] = x, NULL) ELSE T

UnlinkedNot(T, x, d) == T

\* x leaves d's queue; its own link stays.
Unlinked(T, x, d) ==
  LET q == Queue(T, d)
  IN  IF x \in Range(q) THEN Relinked(T, d, CHOOSE i \in DOMAIN q : q[i] = x, T[x].q_link) ELSE T

Handed(T, p, msg) ==
  [T EXCEPT ![p].delivermsg = msg, ![p].reply_pend = FALSE, ![p].receiving = FALSE, ![p].getfrom_e = NONE]

-----------------------------------------------------------------------------
(* The operations: each yields the new table t, the result r, and what stops *)
(* the kernel, if something does                                             *)

Done(T, r) == [t |-> T, r |-> r, failed |-> NONE]

\* The walk of deadlock goes on for ever: the call has no result.
Stuck(T) == [t |-> T, r |-> "OK", failed |-> "walk endless"]

mini_send(T, p, d, non_blocking) ==
  IF ~T[d].alive THEN Done(T, "EDEADSRCDST")
  ELSE IF WILLRECEIVE(T, d, p)
       THEN [Done(Handed(T, d, [src |-> p, notify |-> FALSE]), "OK")
               EXCEPT !.failed = IF T[d].delivermsg = NONE THEN NONE ELSE "no message handed"]
  ELSE IF non_blocking THEN Done(T, "ENOTREADY")
  ELSE IF Endless(T, p, d) THEN Stuck(T)
  ELSE IF deadlock("SEND", T, p, d) THEN Done(T, "ELOCKED")
  ELSE [Done(Enqueued([T EXCEPT ![p].sending = TRUE, ![p].sendto_e = d], p, d), "OK")
          EXCEPT !.failed = IF T[p].q_link = NULL THEN NONE ELSE "link NULL"]

\* The source of a pending notification to p that a receive from src accepts.
has_pending_notify(T, p, src) == {x \in T[p].notify_pending : src \in {ANY, x}}

\* The places in p's caller queue of the messages a receive from src accepts.
Acceptable(T, p, src) == {i \in DOMAIN Queue(T, p) : src \in {ANY, Queue(T, p)[i]}}

First(S) == CHOOSE i \in S : \A j \in S : i <= j

ReceiveNotification(T, p, src) ==
  LET x == First(has_pending_notify(T, p, src))
  IN  Done(Handed([T EXCEPT ![p].notify_pending = @ \ {x}], p, [src |-> x, notify |-> TRUE]), "OK")

\* p takes the message of sender, which goes on.
Taken(T, p, sender) ==
  LET T1 == Handed(Unlinked(T, sender, p), p, [src |-> sender, notify |-> FALSE])
  IN  [T1 EXCEPT ![sender].sending = FALSE, ![sender].sendto_e = NONE, ![sender].q_link = NULL]

ReceiveQueued(T, p, src) ==
  LET sender == Queue(T, p)[First(Acceptable(T, p, src))]
  IN  [Done(Taken(T, p, sender), "OK")
         EXCEPT !.failed = IF T[sender].alive THEN NONE ELSE "sender alive"]

ReceiveBlocks(T, p, src) ==
  IF Endless(T, p, src) THEN Stuck(T)
  ELSE IF deadlock("RECEIVE", T, p, src) THEN Done(T, "ELOCKED")
  ELSE Done([T EXCEPT ![p].getfrom_e = src, ![p].receiving = TRUE], "OK")

mini_receiveNoNotify(T, p, src) ==
  IF src # ANY /\ ~T[IF src = ANY THEN p ELSE src].alive THEN Done(T, "EDEADSRCDST")
  ELSE IF ~T[p].sending /\ Acceptable(T, p, src) # {} THEN ReceiveQueued(T, p, src)
  ELSE ReceiveBlocks(T, p, src)

mini_receive(T, p, src) ==
  IF src # ANY /\ ~T[IF src = ANY THEN p ELSE src].alive THEN Done(T, "EDEADSRCDST")
  ELSE IF ~T[p].sending /\ ~T[p].reply_pend /\ has_pending_notify(T, p, src) # {}
       THEN ReceiveNotification(T, p, src)
  ELSE IF ~T[p].sending /\ Acceptable(T, p, src) # {} THEN ReceiveQueued(T, p, src)
  ELSE ReceiveBlocks(T, p, src)

mini_notify(T, p, d) ==
  IF ~T[d].alive THEN Done(T, "EDEADSRCDST")
  ELSE IF WILLRECEIVE(T, d, p) /\ ~T[d].reply_pend
       THEN Done(Handed(T, d, [src |-> p, notify |-> TRUE]), "OK")
  ELSE Done([T EXCEPT ![d].notify_pending = @ \cup {p}], "OK")

clear_ipc(T, p) ==
  LET T1 == IF T[p].sending THEN Unlinked(T, p, T[p].sendto_e) ELSE T
  IN  [T1 EXCEPT ![p].sending = FALSE, ![p].sendto_e = NONE,
                   ![p].receiving = FALSE, ![p].getfrom_e = NONE]

clear_ipc_refsSilent(T, p) ==
  LET step[x \in 0 .. NR_PROCS] ==
        IF x = 0 THEN T
        ELSE IF P_BLOCKEDON(step[x - 1], x) = p THEN clear_ipc(step[x - 1], x) ELSE step[x - 1]
  IN  step[NR_PROCS]

clear_ipc_refSenders(T, x, p) ==
  LET T1 == [T EXCEPT ![x].notify_pending = @ \ {p}]
  IN  IF ~T[x].alive THEN T
      ELSE IF T[x].sending /\ T[x].sendto_e = p
           THEN clear_ipc([T1 EXCEPT ![x].retreg = "EDEADSRCDST"], x)
      ELSE T1

\* What clear_ipc_refs does for the process in slot x.
clear_ipc_ref(T, x, p) ==
  LET T1 == [T EXCEPT ![x].notify_pending = @ \ {p}]
  IN  IF ~T[x].alive THEN T
      ELSE IF P_BLOCKEDON(T, x) = p THEN clear_ipc([T1 EXCEPT ![x].retreg = "EDEADSRCDST"], x)
      ELSE T1

clear_ipc_refs(T, p) ==
  LET step[x \in 0 .. NR_PROCS] ==
        IF x = 0 THEN T ELSE clear_ipc_ref(step[x - 1], x, p)
  IN  step[NR_PROCS]

-----------------------------------------------------------------------------
(* Actions *)

Runnable(p) == panic = NONE /\ proc[p].alive /\ ~proc[p].sending /\ ~proc[p].receiving

\* The process runs in user mode: a message it was handed has been copied to it.
Running(p) == Runnable(p) /\ proc[p].delivermsg = NONE

\* The messages of p handed to their destination by a step from T to U.
HandedBy(T, U, p, d) ==
  IF T[d].delivermsg = NONE /\ U[d].delivermsg = [src |-> p, notify |-> FALSE] THEN 1 ELSE 0

\* The end of a trap of p with outcome o; lst is the history of sends by then.
Trapped(p, o, lst, count) ==
  /\ proc' = [o.t EXCEPT ![p].retreg = o.r]
  /\ panic' = o.failed
  /\ last' = lst
  /\ handed' = [x \in Proc |-> IF lst[x] = NONE THEN 0
                              ELSE count[x] + HandedBy(proc, o.t, x, lst[x].dst)]

Sent(p, op, d, o) ==
  /\ Running(p) /\ p # d
  /\ Trapped(p, o, [last EXCEPT ![p] = [op |-> op, dst |-> d]], [handed EXCEPT ![p] = 0])

Called(p, o) == Running(p) /\ Trapped(p, o, [last EXCEPT ![p] = NONE], handed)

Send(p, d) == Sent(p, "SEND", d, mini_send(proc, p, d, FALSE))

SendNB(p, d) == Sent(p, "SEND", d, mini_send(proc, p, d, TRUE))

SendRec(p, d) ==
  LET o == mini_send([proc EXCEPT ![p].reply_pend = TRUE], p, d, FALSE)
  IN  Sent(p, "SENDREC", d, IF o.r = "OK" /\ o.failed = NONE THEN mini_receive(o.t, p, d) ELSE o)

Receive(p, src) == Called(p, mini_receive([proc EXCEPT ![p].reply_pend = FALSE], p, src))

Notify(p, d) == p # d /\ Called(p, mini_notify(proc, p, d))

\* SYS_STATE_CLEAR_IPC_REFS: p frees all the processes blocked on it.
do_statectl(p) == Called(p, Done(clear_ipc_refs(proc, p), "OK"))

\* switch_to_user: p is about to run again.
delivermsg(p) ==
  /\ Runnable(p) /\ proc[p].delivermsg # NONE
  /\ proc' = [proc EXCEPT ![p].delivermsg = NONE, ![p].retreg = "OK"]
  /\ UNCHANGED <<panic, last, handed>>

\* SYS_CLEAR: PM reports the end of p, which may be blocked.
clear_endpoint(p) ==
  /\ panic = NONE /\ proc[p].alive
  /\ proc' = clear_ipc_refs(clear_ipc([proc EXCEPT ![p].alive = FALSE], p), p)
  /\ UNCHANGED <<panic, last, handed>>

Next == \E p \in Proc :
  \/ \E d \in Proc : \/ "SEND" \in s_trap_mask[p] /\ Send(p, d)
                     \/ "SENDNB" \in s_trap_mask[p] /\ SendNB(p, d)
                     \/ "SENDREC" \in s_trap_mask[p] /\ SendRec(p, d)
                     \/ "NOTIFY" \in s_trap_mask[p] /\ Notify(p, d)
  \/ \E src \in Proc \cup {ANY} : "RECEIVE" \in s_trap_mask[p] /\ Receive(p, src)
  \/ delivermsg(p)
  \/ clear_endpoint(p)
  \/ "SYS_STATECTL" \in s_k_call_mask[p] /\ do_statectl(p)

Spec == Init /\ [][Next]_vars

-----------------------------------------------------------------------------
(* Properties *)

ReceivesFromItself(T, p) == T[p].receiving /\ ~T[p].sending /\ T[p].getfrom_e = p

(* No two processes wait for each other in a circle: the test in deadlock,   *)
(* made before a process blocks, lets no circle come about but that of one   *)
(* process that receives from itself, which nothing refuses (no message can  *)
(* come to it; only its death ends the call).  And nothing but such a        *)
(* process makes the walk of deadlock endless.                               *)
NoWaitCycle ==
  /\ panic = NONE =>
       \A p \in Proc : (\E k \in 1 .. NR_PROCS : BlockedChain(proc, p)[k] = p) => ReceivesFromItself(proc, p)
  /\ panic = "walk endless" => \E p \in Proc : ReceivesFromItself(proc, p)

(* No wake-up is lost: a process that waits for a message has none it would  *)
(* accept, queued or pending.  Notifications do not count while it waits for *)
(* the reply of a SENDREC, and such a wait names its process: the mark of an *)
(* earlier SENDREC never keeps one that receives from ANY asleep.            *)
NoLostWakeup ==
  panic = NONE =>
    \A p \in Proc :
      proc[p].alive /\ proc[p].receiving /\ ~proc[p].sending =>
        /\ Acceptable(proc, p, proc[p].getfrom_e) = {}
        /\ \/ proc[p].reply_pend /\ proc[p].getfrom_e # ANY
           \/ has_pending_notify(proc, p, proc[p].getfrom_e) = {}

(* The caller queue of a process holds exactly the processes blocked on      *)
(* sending to it, each once and all alive, however many have died.           *)
QueueIsSenders ==
  panic = NONE =>
    \A d \in Proc : LET q == Queue(proc, d) IN
      /\ Range(q) = {p \in Proc : proc[p].sending /\ proc[p].sendto_e = d}
      /\ \A i, j \in DOMAIN q : q[i] = q[j] => i = j
      /\ \A i \in DOMAIN q : proc[q[i]].alive

(* Senders wait in the order in which they came: whoever is ahead of a      *)
(* process that stays in a queue was ahead of it before, so none overtakes   *)
(* another and who joins joins behind, whatever dies or is received.         *)
SendersInOrder ==
  [][\A d \in Proc :
       LET old == Queue(proc, d)
           new == Queue(proc', d)
       IN  panic' = NONE =>
             \A i \in DOMAIN old, j \in DOMAIN new : new[j] = old[i] =>
               \A m \in 1 .. j - 1 : \E k \in 1 .. i - 1 : old[k] = new[m]]_vars

(* A send that is over has told the truth: with OK its message was handed to *)
(* the destination, once; a SEND or SENDNB with an error left no message.    *)
SentIsDelivered ==
  \A p \in Proc :
    proc[p].alive /\ last[p] # NONE /\ ~proc[p].sending /\ panic = NONE =>
      /\ proc[p].retreg = "OK" => handed[p] = 1
      /\ proc[p].retreg # "OK" /\ last[p].op = "SEND" => handed[p] = 0

(* No process is left waiting for a dead one, to which no message can come   *)
(* and from which none will.                                                 *)
NoneWaitsForDead ==
  panic = NONE => \A p \in Proc : P_BLOCKEDON(proc, p) \in Proc => proc[P_BLOCKEDON(proc, p)].alive

(* Two of the assertions never fail: a receiver has not been handed another  *)
(* message, and whoever is in a caller queue is alive.                       *)
AssertionsHold == panic \notin {"no message handed", "sender alive"}

(* kernel/proc.c line 886: assert(caller_ptr->p_q_link == NULL).  clear_ipc  *)
(* takes a process off a queue without clearing its link.                    *)
LinkIsNull == panic # "link NULL"

=============================================================================
