------------------------- MODULE KernelTableProofs --------------------------
(*****************************************************************************)
(* What the operations of KernelIPC make of a good process table: it stays   *)
(* good, who was in which order in a queue is still in that order, and the   *)
(* history of calls agrees with it.                                          *)
(*****************************************************************************)
EXTENDS KernelQueueProofs

\* Most leaves are first-order reasoning about sets and functions, which is for
\* Zenon; a leaf with arithmetic, records or sequences calls for SMT by name.
USE ZenonT(60)

-----------------------------------------------------------------------------
(* A process blocks, and is handed what it waits for *)

\* p blocks on sending to d, which does not wait for it.
LEMMA SendBlocks ==
  ASSUME NEW T, NEW Q, Good(T, Q), Awaited(T), NEW p \in Proc, NEW d \in Proc, p # d,
         T[p].alive, ~T[p].sending, ~T[p].receiving, T[p].delivermsg = NONE, T[p].q_link = NULL,
         T[d].alive, ~WILLRECEIVE(T, d, p), ~deadlock("SEND", T, p, d)
  PROVE  LET U == Enqueued([T EXCEPT ![p].sending = TRUE, ![p].sendto_e = d], p, d) IN
         /\ Good(U, [Q EXCEPT ![d] = Append(Q[d], p)])
         /\ Awaited(U)
         /\ SameFlags([T EXCEPT ![p].sending = TRUE, ![p].sendto_e = d], U)
<1> DEFINE V == [T EXCEPT ![p].sending = TRUE, ![p].sendto_e = d]
           U == Enqueued(V, p, d)
           R == [Q EXCEPT ![d] = Append(Q[d], p)]
<1>1. T \in Table /\ Links(T, Q) /\ Members(T, Q)
  BY DEF Good
<1>2. /\ V \in Table /\ V[p].sending /\ V[p].sendto_e = d /\ ~V[p].receiving
      /\ V[p].alive /\ V[p].delivermsg = NONE
      /\ \A x \in Proc \ {p} : V[x] = T[x]
      /\ \A x \in Proc : V[x].caller_q = T[x].caller_q /\ V[x].q_link = T[x].q_link /\ V[x].alive = T[x].alive
  <2>1. V \in Table
    <3>1. [T[p] EXCEPT !.sending = TRUE, !.sendto_e = d] \in Slot
      BY <1>1, SlotUpdate DEF Table
    <3>2. V = [T EXCEPT ![p] = [T[p] EXCEPT !.sending = TRUE, !.sendto_e = d]]
      BY <1>1 DEF Table
    <3> QED BY <1>1, <3>1, <3>2 DEF Table
  <2>2. V[p].sending /\ V[p].sendto_e = d /\ ~V[p].receiving /\ V[p].alive /\ V[p].delivermsg = NONE
    BY <1>1, SMTT(60) DEF Table, Slot
  <2>3. \A x \in Proc \ {p} : V[x] = T[x]
    BY <1>1, SMTT(60) DEF Table, Slot
  <2>4. \A x \in Proc : V[x].caller_q = T[x].caller_q /\ V[x].q_link = T[x].q_link /\ V[x].alive = T[x].alive
    BY <1>1, SMTT(60) DEF Table, Slot
  <2> QED BY <2>1, <2>2, <2>3, <2>4
<1> HIDE DEF V
<1>3. \A e \in Proc : \A i \in 1 .. Len(Q[e]) : Q[e][i] # p
  BY <1>1, NotQueued
<1>4. Links(V, Q)
  <2>1. \A e \in Proc : \A i \in 1 .. Len(Q[e]) : Q[e][i] \in Proc
    BY <1>1, SMTT(60) DEF Links
  <2>2. \A e \in Proc : \A i \in 1 .. Len(Q[e]) : V[Q[e][i]].q_link = T[Q[e][i]].q_link
    BY <2>1, <1>2
  <2> QED BY <2>2, <1>1, <1>2, LinksFrame, SMTT(60)
<1>5. U \in Table /\ SameFlags(V, U) /\ Links(U, R)
  BY <1>2, <1>3, <1>4, EnqueuedLinks, SMTT(60)
<1>6. Acyclic(V)
  <2>1. \A x \in Proc \ {p} : P_BLOCKEDON(V, x) = P_BLOCKEDON(T, x)
    BY <1>2 DEF P_BLOCKEDON
  <2>2. P_BLOCKEDON(V, p) = d
    BY <1>2 DEF P_BLOCKEDON
  <2>3. ~(P_BLOCKEDON(T, d) = p /\ T[d].sending # ("SEND" = "SEND"))
    <3>1. SUFFICES ASSUME P_BLOCKEDON(T, d) = p, ~T[d].sending PROVE FALSE
      BY <1>1 DEF Table, Slot
    <3>2. T[d].receiving /\ T[d].getfrom_e = p
      BY <3>1, IPCAssumption DEF P_BLOCKEDON
    <3> QED BY <3>1, <3>2 DEF WILLRECEIVE
  <2>4. \A k \in 1 .. NR_PROCS : BlockedChain(T, d)[k] # p
    BY <2>3, IPCAssumption DEF deadlock
  <2> QED BY <1>1, <2>1, <2>2, <2>4, AcyclicMore, SMTT(60) DEF Good
<1>7. Blocked(V)
  BY <1>2, SMTT(60) DEF Good, Blocked, BlockedOf
<1>8. Wakeful(V)
  <2> SUFFICES ASSUME NEW y \in Proc, V[y].receiving, ~V[y].sending
               PROVE  /\ \A x \in Proc : V[x].sending /\ V[x].sendto_e = y => V[y].getfrom_e \notin {ANY, x}
                      /\ V[y].reply_pend \/ \A x \in V[y].notify_pending : V[y].getfrom_e \notin {ANY, x}
    BY DEF Wakeful
  <2>1. y # p /\ V[y] = T[y]
    BY <1>2
  <2>2. V[y].reply_pend \/ \A x \in V[y].notify_pending : V[y].getfrom_e \notin {ANY, x}
    BY <2>1 DEF Good, Wakeful
  <2>3. ASSUME NEW x \in Proc, V[x].sending, V[x].sendto_e = y PROVE V[y].getfrom_e \notin {ANY, x}
    <3>1. CASE x = p
      BY <3>1, <2>1, <2>3, <1>2 DEF WILLRECEIVE
    <3>2. CASE x # p
      BY <3>2, <2>1, <2>3, <1>2, SMTT(60) DEF Good, Wakeful
    <3> QED BY <3>1, <3>2
  <2> QED BY <2>2, <2>3
<1>9. Awaited(V)
  <2> SUFFICES ASSUME NEW x \in Proc, P_BLOCKEDON(V, x) \in Proc PROVE V[P_BLOCKEDON(V, x)].alive
    BY DEF Awaited
  <2>1. \A y \in Proc : V[y].alive = T[y].alive
    BY <1>2
  <2>2. CASE x = p
    BY <2>2, <1>2 DEF P_BLOCKEDON
  <2>3. CASE x # p
    <3>1. P_BLOCKEDON(V, x) = P_BLOCKEDON(T, x)
      BY <2>3, <1>2 DEF P_BLOCKEDON
    <3> QED BY <2>1, <3>1 DEF Awaited
  <2> QED BY <2>2, <2>3
<1>10. Members(V, R)
  <2> SUFFICES ASSUME NEW e \in Proc, NEW x \in Proc
               PROVE  (V[x].sending /\ V[x].sendto_e = e) <=> In(R[e], x)
    BY DEF Members
  <2>1. (T[x].sending /\ T[x].sendto_e = e) <=> In(Q[e], x)
    BY <1>1 DEF Members
  <2>2. Q \in [Proc -> Seq(Proc)] /\ Q[d] \in Seq(Proc)
    BY <1>1 DEF Links
  <2>3. CASE e # d
    <3>1. R[e] = Q[e]
      BY <2>2, <2>3
    <3> QED BY <2>1, <2>3, <3>1, <1>2
  <2>4. CASE e = d
    <3>1. R[e] = Append(Q[d], p)
      BY <2>2, <2>4
    <3>2. In(R[e], x) <=> x = p \/ In(Q[d], x)
      <4>1. In(Append(Q[d], p), x) <=> x = p \/ In(Q[d], x)
        BY <2>2, AppendIn
      <4> HIDE DEF R
      <4> QED BY <3>1, <4>1
    <3> QED BY <2>1, <2>4, <3>2, <1>2
  <2> QED BY <2>3, <2>4
<1> HIDE DEF U, R
<1>11. \A x \in Proc : SameFlagsOf(V, U, x)
  BY <1>5 DEF SameFlags
<1>12. Good(U, R) /\ Awaited(U)
  BY <1>5, <1>6, <1>7, <1>8, <1>9, <1>10, <1>11, FlagsFrame DEF Good
<1> QED BY <1>5, <1>12 DEF U, V, R

\* What a receive looks at, by the flags of the senders.
LEMMA AcceptableIs ==
  ASSUME NEW T, NEW Q, Good(T, Q), NEW p \in Proc, NEW src
  PROVE  /\ Acceptable(T, p, src) = {i \in 1 .. Len(Q[p]) : src \in {ANY, Q[p][i]}}
         /\ Acceptable(T, p, src) = {} <=>
              \A x \in Proc : T[x].sending /\ T[x].sendto_e = p => src \notin {ANY, x}
<1>1. Queue(T, p) = Q[p] /\ DOMAIN Q[p] = 1 .. Len(Q[p]) /\ \A i \in 1 .. Len(Q[p]) : Q[p][i] \in Proc
  <2>1. Queue(T, p) = Q[p]
    BY QueueOf DEF Good
  <2>2. Q[p] \in Seq(Proc)
    BY DEF Good, Links
  <2> QED BY <2>1, <2>2, SMTT(60)
<1>2. Acceptable(T, p, src) = {i \in 1 .. Len(Q[p]) : src \in {ANY, Q[p][i]}}
  BY <1>1 DEF Acceptable
<1>3. \A x \in Proc : (T[x].sending /\ T[x].sendto_e = p) <=> \E i \in 1 .. Len(Q[p]) : Q[p][i] = x
  BY DEF Good, Members, In
<1> QED BY <1>1, <1>2, <1>3, SMTT(60)

\* p, which is not in a queue, blocks on receiving from src, having found nothing.
LEMMA ReceiveBlocksStep ==
  ASSUME NEW T, NEW Q, Good(T, Q), Awaited(T), NEW p \in Proc, NEW src \in Proc \cup {ANY},
         T[p].alive, ~T[p].sending, ~T[p].receiving, T[p].delivermsg = NONE,
         src \in Proc => T[src].alive, src = ANY => ~T[p].reply_pend, Acceptable(T, p, src) = {},
         T[p].reply_pend \/ has_pending_notify(T, p, src) = {}, ~deadlock("RECEIVE", T, p, src)
  PROVE  LET U == [T EXCEPT ![p].getfrom_e = src, ![p].receiving = TRUE] IN Good(U, Q) /\ Awaited(U)
<1> DEFINE r == [T[p] EXCEPT !.getfrom_e = src, !.receiving = TRUE]
           U == [T EXCEPT ![p] = r]
<1>1. T \in Table /\ T[p] \in Slot
  BY DEF Good, Table
<1>2. [T EXCEPT ![p].getfrom_e = src, ![p].receiving = TRUE] = U
  BY <1>1 DEF Table
<1>3. /\ r \in Slot /\ r.receiving /\ r.getfrom_e = src /\ ~r.sending
      /\ r.alive = T[p].alive /\ r.delivermsg = NONE /\ r.reply_pend = T[p].reply_pend
      /\ r.notify_pending = T[p].notify_pending
      /\ r.caller_q = T[p].caller_q /\ r.q_link = T[p].q_link
  <2>1. r \in Slot
    BY <1>1, SlotUpdate
  <2> QED BY <2>1, <1>1 DEF Slot
<1> HIDE DEF r
<1>4. U \in Table /\ U[p] = r /\ \A x \in Proc \ {p} : U[x] = T[x]
  BY <1>1, <1>3, TableUpdate, SMTT(60)
<1> HIDE DEF U
<1>5. ANY \notin Proc /\ NONE \notin Proc /\ ANY # NONE
  BY IPCAssumption
<1>6. P_BLOCKEDON(U, p) = src /\ \A x \in Proc \ {p} : P_BLOCKEDON(U, x) = P_BLOCKEDON(T, x)
  BY <1>3, <1>4 DEF P_BLOCKEDON
<1>7. Acyclic(U)
  <2>1. CASE src = ANY
    BY <2>1, <1>6, AcyclicLess DEF Good
  <2>2. CASE src \in Proc
    <3>1. ~(P_BLOCKEDON(T, src) = p /\ T[src].sending # ("RECEIVE" = "SEND"))
      <4>1. SUFFICES ASSUME P_BLOCKEDON(T, src) = p, T[src].sending PROVE FALSE
        BY <1>1, <2>2 DEF Table, Slot
      <4>2. T[src].sendto_e = p
        BY <4>1 DEF P_BLOCKEDON
      <4> QED BY <4>1, <4>2, <2>2, AcceptableIs, SMTT(60)
    <3>2. \A k \in 1 .. NR_PROCS : BlockedChain(T, src)[k] # p
      BY <2>2, <3>1, <1>5 DEF deadlock
    <3> QED BY <2>2, <3>2, <1>1, <1>6, AcyclicMore, SMTT(60) DEF Good
  <2> QED BY <2>1, <2>2
<1>8. Blocked(U)
  <2> SUFFICES ASSUME NEW x \in Proc PROVE BlockedOf(U, x)
    BY DEF Blocked
  <2>1. CASE x = p
    BY <2>1, <1>3, <1>4 DEF BlockedOf
  <2>2. CASE x # p
    BY <2>2, <1>4 DEF Good, Blocked, BlockedOf
  <2> QED BY <2>1, <2>2
<1>9. Wakeful(U)
  <2> SUFFICES ASSUME NEW y \in Proc, U[y].receiving, ~U[y].sending
               PROVE  /\ \A x \in Proc : U[x].sending /\ U[x].sendto_e = y => U[y].getfrom_e \notin {ANY, x}
                      /\ U[y].reply_pend \/ \A x \in U[y].notify_pending : U[y].getfrom_e \notin {ANY, x}
    BY DEF Wakeful
  <2>1. \A x \in Proc : U[x].sending => T[x].sending /\ U[x].sendto_e = T[x].sendto_e
    BY <1>3, <1>4
  <2>2. CASE y = p
    <3>1. \A x \in Proc : T[x].sending /\ T[x].sendto_e = p => src \notin {ANY, x}
      BY AcceptableIs
    <3>2. T[p].reply_pend \/ \A x \in T[p].notify_pending : src \notin {ANY, x}
      BY DEF has_pending_notify
    <3> QED BY <2>1, <2>2, <3>1, <3>2, <1>3, <1>4
  <2>3. CASE y # p
    BY <2>1, <2>3, <1>4 DEF Good, Wakeful
  <2> QED BY <2>2, <2>3
<1>10. Links(U, Q)
  <2>1. Links(T, Q) /\ \A d \in Proc : \A i \in 1 .. Len(Q[d]) : Q[d][i] \in Proc
    BY SMTT(60) DEF Good, Links
  <2>2. \A x \in Proc : U[x].caller_q = T[x].caller_q /\ U[x].q_link = T[x].q_link
    BY <1>3, <1>4
  <2>3. \A d \in Proc : \A i \in 1 .. Len(Q[d]) : U[Q[d][i]].q_link = T[Q[d][i]].q_link
    BY <2>1, <2>2
  <2> QED BY <2>1, <2>2, <2>3, LinksFrame, SMTT(60)
<1>11. Members(U, Q)
  BY <1>3, <1>4, SMTT(60) DEF Good, Members
<1>12. Awaited(U)
  <2> SUFFICES ASSUME NEW x \in Proc, P_BLOCKEDON(U, x) \in Proc PROVE U[P_BLOCKEDON(U, x)].alive
    BY DEF Awaited
  <2>1. \A y \in Proc : U[y].alive = T[y].alive
    BY <1>3, <1>4
  <2>2. CASE x = p
    BY <2>1, <2>2, <1>6
  <2>3. CASE x # p
    BY <2>1, <2>3, <1>6 DEF Awaited
  <2> QED BY <2>2, <2>3
<1> QED BY <1>2, <1>4, <1>7, <1>8, <1>9, <1>10, <1>11, <1>12 DEF Good

\* p, which is in the queue of d, is to receive from d afterwards.
LEMMA ReplyBlocksStep ==
  ASSUME NEW T, NEW Q, Good(T, Q), Awaited(T), NEW p \in Proc, NEW d \in Proc,
         T[p].sending, T[p].sendto_e = d, T[p].reply_pend
  PROVE  LET U == [T EXCEPT ![p].getfrom_e = d, ![p].receiving = TRUE] IN Good(U, Q) /\ Awaited(U)
<1> DEFINE r == [T[p] EXCEPT !.getfrom_e = d, !.receiving = TRUE]
           U == [T EXCEPT ![p] = r]
<1>1. T \in Table /\ T[p] \in Slot
  BY DEF Good, Table
<1>2. [T EXCEPT ![p].getfrom_e = d, ![p].receiving = TRUE] = U
  BY <1>1 DEF Table
<1>3. /\ r \in Slot /\ r.receiving /\ r.getfrom_e = d /\ r.sending /\ r.sendto_e = d
      /\ r.alive = T[p].alive /\ r.delivermsg = T[p].delivermsg /\ r.reply_pend
      /\ r.caller_q = T[p].caller_q /\ r.q_link = T[p].q_link
  <2>1. r \in Slot
    BY <1>1, SlotUpdate
  <2> QED BY <2>1, <1>1 DEF Slot
<1> HIDE DEF r
<1>4. U \in Table /\ U[p] = r /\ \A x \in Proc \ {p} : U[x] = T[x]
  BY <1>1, <1>3, TableUpdate, SMTT(60)
<1> HIDE DEF U
<1>5. \A x \in Proc : P_BLOCKEDON(U, x) = P_BLOCKEDON(T, x)
  BY <1>3, <1>4, SMTT(60) DEF P_BLOCKEDON
<1>6. Acyclic(U)
  BY <1>5, AcyclicLess DEF Good
<1>7. Blocked(U)
  <2> SUFFICES ASSUME NEW x \in Proc PROVE BlockedOf(U, x)
    BY DEF Blocked
  <2>1. CASE x = p
    <3>1. T[p].alive /\ T[p].delivermsg = NONE /\ d # p /\ d # ANY
      BY IPCAssumption DEF Good, Blocked, BlockedOf
    <3> QED BY <2>1, <3>1, <1>3, <1>4 DEF BlockedOf
  <2>2. CASE x # p
    BY <2>2, <1>4 DEF Good, Blocked, BlockedOf
  <2> QED BY <2>1, <2>2
<1>8. Wakeful(U)
  BY <1>3, <1>4, SMTT(60) DEF Good, Wakeful
<1>9. Links(U, Q)
  <2>1. Links(T, Q) /\ \A e \in Proc : \A i \in 1 .. Len(Q[e]) : Q[e][i] \in Proc
    BY SMTT(60) DEF Good, Links
  <2>2. \A x \in Proc : U[x].caller_q = T[x].caller_q /\ U[x].q_link = T[x].q_link
    BY <1>3, <1>4
  <2>3. \A e \in Proc : \A i \in 1 .. Len(Q[e]) : U[Q[e][i]].q_link = T[Q[e][i]].q_link
    BY <2>1, <2>2
  <2> QED BY <2>1, <2>2, <2>3, LinksFrame, SMTT(60)
<1>10. Members(U, Q)
  BY <1>3, <1>4, SMTT(60) DEF Good, Members
<1>11. Awaited(U)
  <2>1. \A y \in Proc : U[y].alive = T[y].alive
    BY <1>3, <1>4
  <2> QED BY <2>1, <1>5 DEF Awaited
<1> QED BY <1>2, <1>4, <1>6, <1>7, <1>8, <1>9, <1>10, <1>11 DEF Good

\* How the table U differs from T when p has taken the message of s from its queue.
TookQueued(T, Q, U, p, s) ==
  /\ \E R : Good(U, R) /\ \A e \in Proc : Thinned(Q[e], R[e])
  /\ Awaited(U)
  /\ s # p /\ T[s].sending /\ T[s].sendto_e = p
  /\ \A x \in Proc \ {p, s} : SameFlagsOf(T, U, x)
  /\ \A x \in Proc : U[x].retreg = T[x].retreg /\ U[x].alive = T[x].alive
  /\ ~U[p].sending /\ ~U[p].receiving /\ U[p].delivermsg = MessageOf(s)
  /\ ~U[s].sending /\ U[s].receiving = T[s].receiving
  /\ U[s].delivermsg = T[s].delivermsg

\* p takes a message from its queue, and the sender goes on.
LEMMA ReceiveQueuedStep ==
  ASSUME NEW T, NEW Q, Good(T, Q), Awaited(T), NEW p \in Proc, ~T[p].sending,
         NEW sender \in Proc, In(Q[p], sender)
  PROVE  TookQueued(T, Q, Taken(T, p, sender), p, sender)
<1>26. PICK i \in 1 .. Len(Q[p]) : Q[p][i] = sender
  BY DEF In
<1> DEFINE m == MessageOf(sender)
           W == Unlinked(T, sender, p)
           R == [Q EXCEPT ![p] = Removed(Q[p], i)]
           r1 == [W[p] EXCEPT !.delivermsg = m, !.reply_pend = FALSE, !.receiving = FALSE, !.getfrom_e = NONE]
           T1 == [W EXCEPT ![p] = r1]
           r2 == [T1[sender] EXCEPT !.sending = FALSE, !.sendto_e = NONE, !.q_link = NULL]
           U == [T1 EXCEPT ![sender] = r2]
<1>1. T \in Table /\ Links(T, Q) /\ Members(T, Q)
  BY DEF Good
<1>2. T[sender].sending /\ T[sender].sendto_e = p /\ sender # p
  BY <1>1 DEF Members
<1>3. /\ W \in Table /\ SameFlags(T, W) /\ Links(W, R)
      /\ \A e \in Proc : \A j \in 1 .. Len(R[e]) : R[e][j] # sender
  <2>1. LET V == Unlinked(T, Q[p][i], p) IN
        /\ V \in Table /\ SameFlags(T, V) /\ Links(V, R)
        /\ \A e \in Proc : \A j \in 1 .. Len(R[e]) : R[e][j] # Q[p][i]
    BY <1>1, UnlinkedLinks
  <2> HIDE DEF R
  <2> QED BY <2>1, <1>26
<1>27. \A e \in Proc : Thinned(Q[e], R[e])
  <2>1. ASSUME NEW e \in Proc PROVE Thinned(Q[e], R[e])
    <3>1. Q \in [Proc -> Seq(Proc)]
      BY <1>1 DEF Links
    <3>2. Q[e] \in Seq(Proc) /\ Distinct(Q[e])
      BY <1>1, LinksDistinct
    <3>3. CASE e = p
      <4>1. R[e] = Removed(Q[e], i)
        BY <3>1, <3>3
      <4> HIDE DEF R
      <4> QED BY <4>1, <3>2, <3>3, ThinnedRemoved
    <3>4. CASE e # p
      <4>1. R[e] = Q[e]
        BY <3>1, <3>4
      <4> HIDE DEF R
      <4> QED BY <4>1, <3>2, ThinnedSame
    <3> QED BY <3>3, <3>4
  <2> QED BY <2>1
<1>4. m \in Message
  BY DEF Message, MessageOf
<1>0. ASSUME NEW e \in Proc, NEW y \in Proc
      PROVE  In(R[e], y) <=> y # sender /\ In(Q[e], y)
  <2>1. In(R[e], y) <=> y # Q[p][i] /\ In(Q[e], y)
    BY <1>1, LeftQueue
  <2> HIDE DEF R
  <2> QED BY <2>1, <1>26
<1> HIDE DEF W, R, m
<1>5. W[p] \in Slot /\ W[sender] \in Slot
  BY <1>2, <1>3 DEF Table
<1>6. /\ r1 \in Slot /\ ~r1.receiving /\ r1.delivermsg = m /\ r1.sending = W[p].sending
      /\ r1.alive = W[p].alive /\ r1.sendto_e = W[p].sendto_e /\ r1.retreg = W[p].retreg
      /\ r1.caller_q = W[p].caller_q /\ r1.q_link = W[p].q_link
  <2>1. r1 \in Slot
    BY <1>4, <1>5, SlotUpdate
  <2> QED BY <2>1, <1>5 DEF Slot
<1> HIDE DEF r1
<1>7. T1 \in Table /\ T1[p] = r1 /\ \A x \in Proc \ {p} : T1[x] = W[x]
  BY <1>3, <1>6, TableUpdate, SMTT(60)
<1>8. Handed(W, p, m) = T1
  BY <1>3 DEF Handed, Table, r1
<1> HIDE DEF T1
<1>9. /\ r2 \in Slot /\ ~r2.sending /\ r2.receiving = W[sender].receiving /\ r2.getfrom_e = W[sender].getfrom_e
      /\ r2.alive = W[sender].alive /\ r2.delivermsg = W[sender].delivermsg /\ r2.retreg = W[sender].retreg
      /\ r2.reply_pend = W[sender].reply_pend /\ r2.caller_q = W[sender].caller_q
  <2>1. r2 \in Slot
    BY <1>2, <1>5, <1>7, SlotUpdate
  <2>2. T1[sender] = W[sender]
    BY <1>2, <1>7
  <2> QED BY <2>1, <2>2, <1>5 DEF Slot
<1>10. [T1 EXCEPT ![sender].sending = FALSE, ![sender].sendto_e = NONE, ![sender].q_link = NULL] = U
  BY <1>2, <1>7 DEF Table
<1> HIDE DEF r2
<1>11. U \in Table /\ U[sender] = r2 /\ \A x \in Proc \ {sender} : U[x] = T1[x]
  BY <1>2, <1>7, <1>9, TableUpdate, SMTT(60)
<1> HIDE DEF U
<1>12. /\ U[p] = r1 /\ U[sender] = r2 /\ \A x \in Proc \ {p, sender} : U[x] = W[x]
  BY <1>2, <1>7, <1>11
<1>13. \A x \in Proc : SameFlagsOf(T, W, x) /\ W[x].retreg = T[x].retreg
  BY <1>3 DEF SameFlags
<1>14. /\ \A x \in Proc \ {p, sender} : SameFlagsOf(T, U, x)
       /\ \A x \in Proc : U[x].retreg = T[x].retreg /\ U[x].alive = T[x].alive
       /\ ~U[p].sending /\ ~U[p].receiving /\ U[p].delivermsg = m
       /\ ~U[sender].sending /\ U[sender].receiving = T[sender].receiving
       /\ U[sender].getfrom_e = T[sender].getfrom_e /\ U[sender].reply_pend = T[sender].reply_pend
       /\ U[sender].delivermsg = T[sender].delivermsg
  <2>1. \A x \in Proc \ {p, sender} : SameFlagsOf(T, U, x)
    BY <1>12, <1>13, SMTT(60) DEF SameFlagsOf
  <2>2. \A x \in Proc : U[x].retreg = T[x].retreg /\ U[x].alive = T[x].alive
    BY <1>2, <1>6, <1>9, <1>12, <1>13, SMTT(60) DEF SameFlagsOf
  <2>3. ~U[p].sending
    BY <1>6, <1>12, <1>13 DEF SameFlagsOf
  <2>4. ~U[p].receiving /\ U[p].delivermsg = m /\ ~U[sender].sending
    BY <1>6, <1>9, <1>12
  <2>5. /\ U[sender].receiving = T[sender].receiving
        /\ U[sender].getfrom_e = T[sender].getfrom_e /\ U[sender].reply_pend = T[sender].reply_pend
        /\ U[sender].delivermsg = T[sender].delivermsg
    BY <1>2, <1>9, <1>12, <1>13 DEF SameFlagsOf
  <2> QED BY <2>1, <2>2, <2>3, <2>4, <2>5
<1>15. T[sender].receiving => T[sender].reply_pend /\ T[sender].getfrom_e = p
  BY <1>2 DEF Good, Blocked, BlockedOf
<1>16. /\ P_BLOCKEDON(U, p) = NONE
       /\ P_BLOCKEDON(U, sender) \in {P_BLOCKEDON(T, sender), NONE}
       /\ \A x \in Proc \ {p, sender} : P_BLOCKEDON(U, x) = P_BLOCKEDON(T, x)
  BY <1>2, <1>14, <1>15, SMTT(60) DEF P_BLOCKEDON, SameFlagsOf
<1>17. Acyclic(U)
  BY <1>2, <1>16, AcyclicLess DEF Good
<1>18. Blocked(U)
  <2> SUFFICES ASSUME NEW x \in Proc PROVE BlockedOf(U, x)
    BY DEF Blocked
  <2>1. CASE x = p
    BY <2>1, <1>14 DEF BlockedOf
  <2>2. CASE x = sender
    <3>1. BlockedOf(T, sender) /\ U[sender].alive = T[sender].alive
      BY <1>2, <1>14 DEF Good, Blocked
    <3> QED BY <2>2, <3>1, <1>14 DEF BlockedOf
  <2>3. CASE x \notin {p, sender}
    BY <2>3, <1>14, SMTT(60) DEF Good, Blocked, BlockedOf, SameFlagsOf
  <2> QED BY <2>1, <2>2, <2>3
<1>19. \A x \in Proc : U[x].sending => x \notin {p, sender} /\ T[x].sending /\ U[x].sendto_e = T[x].sendto_e
  BY <1>14 DEF SameFlagsOf
<1>20. Wakeful(U)
  <2> SUFFICES ASSUME NEW y \in Proc, U[y].receiving, ~U[y].sending
               PROVE  /\ \A x \in Proc : U[x].sending /\ U[x].sendto_e = y => U[y].getfrom_e \notin {ANY, x}
                      /\ U[y].reply_pend \/ \A x \in U[y].notify_pending : U[y].getfrom_e \notin {ANY, x}
    BY DEF Wakeful
  <2>1. y # p
    BY <1>14
  <2>2. CASE y = sender
    <3>1. U[y].getfrom_e = p /\ U[y].reply_pend
      BY <2>2, <1>2, <1>14, <1>15
    <3> QED BY <3>1, <1>19, IPCAssumption
  <2>3. CASE y # sender
    BY <2>1, <2>3, <1>14, <1>19, SMTT(60) DEF Good, Wakeful, SameFlagsOf
  <2> QED BY <2>2, <2>3
<1>21. Links(U, R)
  <2>1. \A e \in Proc : \A j \in 1 .. Len(R[e]) : R[e][j] \in Proc \ {sender}
    BY <1>3, SMTT(60) DEF Links
  <2>2. \A x \in Proc : U[x].caller_q = W[x].caller_q
    BY <1>2, <1>6, <1>9, <1>12, SMTT(60)
  <2>3. \A x \in Proc \ {sender} : U[x].q_link = W[x].q_link
    BY <1>2, <1>6, <1>12
  <2>4. \A e \in Proc : \A j \in 1 .. Len(R[e]) : U[R[e][j]].q_link = W[R[e][j]].q_link
    BY <2>1, <2>3
  <2> QED BY <2>2, <2>4, <1>3, LinksFrame, SMTT(60)
<1>22. Members(U, R)
  <2> SUFFICES ASSUME NEW e \in Proc, NEW y \in Proc
               PROVE  (U[y].sending /\ U[y].sendto_e = e) <=> In(R[e], y)
    BY DEF Members
  <2>1. In(R[e], y) <=> y # sender /\ In(Q[e], y)
    BY <1>0
  <2>2. (T[y].sending /\ T[y].sendto_e = e) <=> In(Q[e], y)
    BY <1>1 DEF Members
  <2>3. (U[y].sending /\ U[y].sendto_e = e) <=> y # sender /\ T[y].sending /\ T[y].sendto_e = e
    <3>1. CASE y \in {p, sender}
      BY <3>1, <1>14
    <3>2. CASE y \notin {p, sender}
      BY <3>2, <1>14 DEF SameFlagsOf
    <3> QED BY <3>1, <3>2
  <2> QED BY <2>1, <2>2, <2>3
<1>23. Awaited(U)
  <2> SUFFICES ASSUME NEW x \in Proc, P_BLOCKEDON(U, x) \in Proc PROVE U[P_BLOCKEDON(U, x)].alive
    BY DEF Awaited
  <2>1. P_BLOCKEDON(U, x) = P_BLOCKEDON(T, x)
    BY <1>2, <1>16, IPCAssumption
  <2> QED BY <2>1, <1>14 DEF Awaited
<1>24. Good(U, R)
  BY <1>11, <1>17, <1>18, <1>20, <1>21, <1>22 DEF Good
<1>25. Taken(T, p, sender) = U
  BY <1>8, <1>10 DEF Taken, m, W, MessageOf
<1> HIDE DEF U
<1>28. TookQueued(T, Q, U, p, sender)
  BY <1>2, <1>14, <1>23, <1>24, <1>27 DEF m, TookQueued
<1> QED BY <1>25, <1>28

-----------------------------------------------------------------------------
(* The other steps of a call *)

\* Process p, which is in no queue, is handed a message.
LEMMA HandedStep ==
  ASSUME NEW T, NEW Q, Good(T, Q), Awaited(T), NEW p \in Proc, ~T[p].sending, NEW m \in Message
  PROVE  LET U == Handed(T, p, m) IN
         /\ Good(U, Q) /\ Awaited(U)
         /\ \A x \in Proc \ {p} : SameFlagsOf(T, U, x)
         /\ \A x \in Proc : U[x].retreg = T[x].retreg /\ U[x].alive = T[x].alive
         /\ ~U[p].sending /\ ~U[p].receiving /\ U[p].delivermsg = m
<1> DEFINE r == [T[p] EXCEPT !.delivermsg = m, !.reply_pend = FALSE, !.receiving = FALSE, !.getfrom_e = NONE]
           U == [T EXCEPT ![p] = r]
<1>1. T \in Table /\ T[p] \in Slot
  BY DEF Table, Good
<1>2. Handed(T, p, m) = U
  BY <1>1 DEF Table, Handed
<1>3. r \in Slot
  BY <1>1, SlotUpdate
<1>4. U \in Table /\ U[p] = r /\ \A x \in Proc \ {p} : U[x] = T[x]
  <2> HIDE DEF r
  <2> QED BY <1>1, <1>3, TableUpdate, SMTT(60)
<1>5. /\ r.alive = T[p].alive /\ ~r.sending /\ ~r.receiving /\ r.delivermsg = m
      /\ r.caller_q = T[p].caller_q /\ r.q_link = T[p].q_link /\ r.retreg = T[p].retreg
  BY <1>1 DEF Slot
<1> HIDE DEF r, U
<1>6. \A x \in Proc \ {p} : SameFlagsOf(T, U, x)
  BY <1>4 DEF SameFlagsOf
<1>7. \A x \in Proc : /\ U[x].caller_q = T[x].caller_q /\ U[x].q_link = T[x].q_link
                      /\ U[x].retreg = T[x].retreg /\ U[x].alive = T[x].alive
  BY <1>4, <1>5
<1>8. ~U[p].sending /\ ~U[p].receiving /\ U[p].delivermsg = m
  BY <1>4, <1>5
<1>9. Good(U, Q) /\ Awaited(U)
  BY <1>4, <1>6, <1>7, <1>8, RestStep
<1> QED BY <1>2, <1>6, <1>7, <1>8, <1>9

\* The caller p notes whether it is in a SENDREC.
Marked(T, p, b) == [T EXCEPT ![p].reply_pend = b]

\* The caller may set and clear MF_REPLY_PEND: none of the invariant depends on it while the caller runs.
LEMMA ReplyPendStep ==
  ASSUME NEW T, NEW Q, Good(T, Q), Awaited(T), NEW p \in Proc, NEW b \in BOOLEAN, Free(T, p)
  PROVE  LET U == Marked(T, p, b) IN
         /\ Good(U, Q) /\ Awaited(U) /\ Free(U, p) /\ U[p].reply_pend = b
         /\ \A x \in Proc \ {p} : SameFlagsOf(T, U, x)
         /\ \A x \in Proc : U[x].retreg = T[x].retreg /\ U[x].alive = T[x].alive
         /\ \A x \in Proc : U[x].delivermsg = T[x].delivermsg
         /\ U[p].q_link = T[p].q_link
<1> DEFINE r == [T[p] EXCEPT !.reply_pend = b]
           U == [T EXCEPT ![p] = r]
<1>1. T \in Table /\ T[p] \in Slot
  BY DEF Table, Good
<1>2. Marked(T, p, b) = U
  BY <1>1 DEF Table, Marked
<1>3. r \in Slot
  BY <1>1, SlotUpdate
<1>4. U \in Table /\ U[p] = r /\ \A x \in Proc \ {p} : U[x] = T[x]
  <2> HIDE DEF r
  <2> QED BY <1>1, <1>3, TableUpdate, SMTT(60)
<1>5. /\ r.alive = T[p].alive /\ ~r.sending /\ ~r.receiving /\ r.delivermsg = T[p].delivermsg
      /\ r.caller_q = T[p].caller_q /\ r.q_link = T[p].q_link /\ r.retreg = T[p].retreg
      /\ r.reply_pend = b
  BY <1>1 DEF Slot, Free
<1> HIDE DEF r, U
<1>6. \A x \in Proc \ {p} : SameFlagsOf(T, U, x)
  BY <1>4 DEF SameFlagsOf
<1>7. \A x \in Proc : /\ U[x].caller_q = T[x].caller_q /\ U[x].q_link = T[x].q_link
                      /\ U[x].retreg = T[x].retreg /\ U[x].alive = T[x].alive
                      /\ U[x].delivermsg = T[x].delivermsg
  BY <1>4, <1>5
<1>8. ~U[p].sending /\ ~U[p].receiving /\ ~T[p].sending
  BY <1>4, <1>5 DEF Free
<1>9. Good(U, Q) /\ Awaited(U)
  BY <1>4, <1>6, <1>7, <1>8, RestStep
<1>10. Free(U, p) /\ U[p].reply_pend = b
  BY <1>4, <1>5, <1>7, <1>8 DEF Free
<1> QED BY <1>2, <1>6, <1>7, <1>9, <1>10

\* A notification that does not find d waiting for it stays pending.
LEMMA PendingStep ==
  ASSUME NEW T, NEW Q, Good(T, Q), Awaited(T), NEW p \in Proc, NEW d \in Proc,
         ~WILLRECEIVE(T, d, p) \/ T[d].reply_pend
  PROVE  LET U == [T EXCEPT ![d].notify_pending = @ \cup {p}] IN
         /\ Good(U, Q) /\ Awaited(U)
         /\ \A x \in Proc : Kept(T, U, x)
<1> DEFINE r == [T[d] EXCEPT !.notify_pending = @ \cup {p}]
           U == [T EXCEPT ![d] = r]
<1>1. T \in Table /\ T[d] \in Slot
  BY DEF Table, Good
<1>2. [T EXCEPT ![d].notify_pending = @ \cup {p}] = U
  BY <1>1 DEF Table
<1>3. r \in Slot
  <2>1. T[d].notify_pending \cup {p} \in SUBSET Proc
    BY <1>1 DEF Slot
  <2>2. r = [T[d] EXCEPT !.notify_pending = T[d].notify_pending \cup {p}]
    OBVIOUS
  <2> HIDE DEF r
  <2> QED BY <2>1, <2>2, <1>1, SlotUpdate
<1>4. U \in Table /\ U[d] = r /\ \A x \in Proc \ {d} : U[x] = T[x]
  <2> HIDE DEF r
  <2> QED BY <1>1, <1>3, TableUpdate, SMTT(60)
<1>5. /\ r.alive = T[d].alive /\ r.sending = T[d].sending /\ r.receiving = T[d].receiving
      /\ r.sendto_e = T[d].sendto_e /\ r.getfrom_e = T[d].getfrom_e /\ r.reply_pend = T[d].reply_pend
      /\ r.delivermsg = T[d].delivermsg /\ r.notify_pending = T[d].notify_pending \cup {p}
      /\ r.caller_q = T[d].caller_q /\ r.q_link = T[d].q_link /\ r.retreg = T[d].retreg
  BY <1>1 DEF Slot
<1> HIDE DEF r, U
<1>6. \A x \in Proc : /\ U[x].alive = T[x].alive /\ U[x].sending = T[x].sending /\ U[x].receiving = T[x].receiving
                      /\ U[x].sendto_e = T[x].sendto_e /\ U[x].getfrom_e = T[x].getfrom_e
                      /\ U[x].reply_pend = T[x].reply_pend /\ U[x].delivermsg = T[x].delivermsg
                      /\ U[x].caller_q = T[x].caller_q /\ U[x].q_link = T[x].q_link /\ U[x].retreg = T[x].retreg
  BY <1>4, <1>5
<1>7. \A x \in Proc : P_BLOCKEDON(U, x) = P_BLOCKEDON(T, x)
  BY <1>6 DEF P_BLOCKEDON
<1>8. Acyclic(U)
  BY <1>7, AcyclicLess DEF Good
<1>9. Blocked(U)
  BY <1>6, SMTT(60) DEF Good, Blocked, BlockedOf
<1>10. Links(U, Q)
  <2>1. Links(T, Q)
    BY DEF Good
  <2>2. \A e \in Proc : \A i \in 1 .. Len(Q[e]) : Q[e][i] \in Proc
    BY <2>1, SMTT(60) DEF Links
  <2>3. \A e \in Proc : \A i \in 1 .. Len(Q[e]) : U[Q[e][i]].q_link = T[Q[e][i]].q_link
    BY <2>2, <1>6
  <2> QED BY <2>1, <2>3, <1>6, LinksFrame, SMTT(60)
<1>11. Members(U, Q)
  BY <1>6, SMTT(60) DEF Good, Members
<1>12. Awaited(U)
  BY <1>6, <1>7, SMTT(60) DEF Awaited
<1>13. Wakeful(U)
  <2> SUFFICES ASSUME NEW y \in Proc, U[y].receiving, ~U[y].sending
               PROVE  /\ \A x \in Proc : U[x].sending /\ U[x].sendto_e = y => U[y].getfrom_e \notin {ANY, x}
                      /\ U[y].reply_pend \/ \A x \in U[y].notify_pending : U[y].getfrom_e \notin {ANY, x}
    BY DEF Wakeful
  <2>1. /\ \A x \in Proc : T[x].sending /\ T[x].sendto_e = y => T[y].getfrom_e \notin {ANY, x}
        /\ T[y].reply_pend \/ \A x \in T[y].notify_pending : T[y].getfrom_e \notin {ANY, x}
    BY <1>6 DEF Good, Wakeful
  <2>2. CASE y # d
    BY <2>1, <2>2, <1>4, <1>6, SMTT(60)
  <2>3. CASE y = d
    <3>1. T[y].reply_pend \/ T[y].getfrom_e \notin {ANY, p}
      BY <2>3, <1>6 DEF WILLRECEIVE
    <3> QED BY <3>1, <2>1, <2>3, <1>4, <1>5, <1>6, SMTT(60)
  <2> QED BY <2>2, <2>3
<1>14. \A x \in Proc : Kept(T, U, x)
  BY <1>6 DEF Kept
<1> QED BY <1>2, <1>4, <1>8, <1>9, <1>10, <1>11, <1>12, <1>13, <1>14 DEF Good

\* Process p begins to wait for a message.
Waits(T, p, src) == [T EXCEPT ![p].getfrom_e = src, ![p].receiving = TRUE]

\* From table T to table U, process p has begun to wait and done nothing else.
BeganToWait(T, U, p) ==
  /\ U \in Table /\ \A x \in Proc \ {p} : U[x] = T[x]
  /\ U[p].receiving /\ U[p].alive = T[p].alive /\ U[p].sending = T[p].sending
  /\ U[p].sendto_e = T[p].sendto_e /\ U[p].delivermsg = T[p].delivermsg

\* What beginning to wait does to the table.
LEMMA WaitsIs ==
  ASSUME NEW T \in Table, NEW p \in Proc, NEW src \in Proc \cup {ANY}
  PROVE  BeganToWait(T, Waits(T, p, src), p)
<1> DEFINE r == [T[p] EXCEPT !.getfrom_e = src, !.receiving = TRUE]
           U == [T EXCEPT ![p] = r]
<1>1. T[p] \in Slot
  BY DEF Table
<1>2. Waits(T, p, src) = U
  BY DEF Table, Waits
<1>3. r \in Slot
  BY <1>1, SlotUpdate
<1>4. U \in Table /\ U[p] = r /\ \A x \in Proc \ {p} : U[x] = T[x]
  <2> HIDE DEF r
  <2> QED BY <1>3, TableUpdate, SMTT(60)
<1>5. /\ r.receiving /\ r.alive = T[p].alive /\ r.sending = T[p].sending
      /\ r.sendto_e = T[p].sendto_e /\ r.delivermsg = T[p].delivermsg
  BY <1>1 DEF Slot
<1> HIDE DEF r, U
<1> QED BY <1>2, <1>4, <1>5 DEF BeganToWait

\* Some process receives from itself.
Looped(T) == \E x \in Proc : ReceivesFromItself(T, x)

\* The second half of a SENDREC whose message was handed over at once: p waits
\* for the reply, or is refused to.
LEMMA ReplyAwaited ==
  ASSUME NEW H, NEW Q, Good(H, Q), Awaited(H), NEW p \in Proc, NEW d \in Proc, p # d,
         Free(H, p), H[p].reply_pend, H[d].alive, ~H[d].sending, ~H[d].receiving
  PROVE  LET o == mini_receive(H, p, d) IN
         /\ o.failed = NONE
         /\ \/ o.t = H /\ o.r = "ELOCKED"
            \/ /\ o.t = Waits(H, p, d) /\ o.r = "OK"
               /\ Good(o.t, Q) /\ Awaited(o.t)
<1>1. d # ANY /\ p # d
  BY IPCAssumption
<1>2. Acceptable(H, p, d) = {}
  <2>1. \A x \in Proc : H[x].sending /\ H[x].sendto_e = p => d \notin {ANY, x}
    BY <1>1
  <2> QED BY <2>1, AcceptableIs
<1>3. mini_receive(H, p, d) = ReceiveBlocks(H, p, d)
  BY <1>1, <1>2 DEF mini_receive
<1>6. ~Endless(H, p, d)
  <2>1. P_BLOCKEDON(H, d) = NONE /\ NONE \notin Proc /\ H \in Table
    BY IPCAssumption DEF P_BLOCKEDON, Good
  <2>2. NR_PROCS \in Nat /\ d \in 1 .. NR_PROCS
    BY IPCAssumption DEF Proc
  <2>3. 0 \in 0 .. NR_PROCS - 1 /\ 0 + 1 = 1 /\ 1 \in 1 .. NR_PROCS
    BY <2>2, SMTT(60)
  <2>4. /\ BlockedChain(H, d)[0] = d
        /\ \A k \in 0 .. NR_PROCS - 1 : BlockedChain(H, d)[k + 1] =
             IF BlockedChain(H, d)[k] \in Proc THEN P_BLOCKEDON(H, BlockedChain(H, d)[k])
             ELSE BlockedChain(H, d)[k]
    BY <2>1, ChainStep, SMTT(60)
  <2>5. BlockedChain(H, d)[1] = NONE
    BY <2>1, <2>3, <2>4, SMTT(60)
  <2> QED BY <2>1, <2>3, <2>5 DEF Endless
<1>4. CASE deadlock("RECEIVE", H, p, d)
  BY <1>3, <1>4, <1>6, SMTT(60) DEF ReceiveBlocks, Done
<1>5. CASE ~deadlock("RECEIVE", H, p, d)
  <2> DEFINE W == Waits(H, p, d)
  <2>1. mini_receive(H, p, d) = Done(W, "OK")
    BY <1>3, <1>5, <1>6 DEF ReceiveBlocks, Waits
  <2>2. Good(W, Q) /\ Awaited(W)
    BY <1>1, <1>2, <1>5, ReceiveBlocksStep DEF Free, Waits
  <2> HIDE DEF W
  <2>3. Done(W, "OK").t = W /\ Done(W, "OK").r = "OK" /\ Done(W, "OK").failed = NONE
    BY DEF Done
  <2> QED BY <2>1, <2>2, <2>3 DEF W
<1> QED BY <1>4, <1>5

\* The outcome o of the second half of a SENDREC that has blocked on the send.
ReplyOutcome(E, Q, p, d, o) ==
  \/ o.t = E /\ o.r = "OK" /\ o.failed = "walk endless" /\ Looped(E)
  \/ o.t = E /\ o.r = "ELOCKED" /\ o.failed = NONE
  \/ o.t = Waits(E, p, d) /\ o.r = "OK" /\ o.failed = NONE /\ Good(o.t, Q) /\ Awaited(o.t)

\* These are all its outcomes.
LEMMA ReplyToCome ==
  ASSUME NEW E, NEW Q, Good(E, Q), Awaited(E), NEW p \in Proc, NEW d \in Proc,
         E[p].sending, E[p].sendto_e = d, E[p].reply_pend, E[d].alive
  PROVE  ReplyOutcome(E, Q, p, d, mini_receive(E, p, d))
<1>1. d # ANY
  BY IPCAssumption
<1>2. mini_receive(E, p, d) = ReceiveBlocks(E, p, d)
  BY <1>1 DEF mini_receive
<1>5. CASE Endless(E, p, d)
  <2>1. Looped(E)
    BY <1>5, EndlessOnSelf DEF Looped
  <2>2. mini_receive(E, p, d) = Stuck(E)
    BY <1>2, <1>5 DEF ReceiveBlocks
  <2>3. Stuck(E).t = E /\ Stuck(E).r = "OK" /\ Stuck(E).failed = "walk endless"
    BY SMTT(60) DEF Stuck
  <2> QED BY <2>1, <2>2, <2>3 DEF ReplyOutcome
<1>3. CASE ~Endless(E, p, d) /\ deadlock("RECEIVE", E, p, d)
  <2>1. mini_receive(E, p, d) = Done(E, "ELOCKED")
    BY <1>2, <1>3 DEF ReceiveBlocks
  <2>2. Done(E, "ELOCKED").t = E /\ Done(E, "ELOCKED").r = "ELOCKED" /\ Done(E, "ELOCKED").failed = NONE
    BY DEF Done
  <2> QED BY <2>1, <2>2 DEF ReplyOutcome
<1>4. CASE ~Endless(E, p, d) /\ ~deadlock("RECEIVE", E, p, d)
  <2> DEFINE W == Waits(E, p, d)
  <2>1. mini_receive(E, p, d) = Done(W, "OK")
    BY <1>2, <1>4 DEF ReceiveBlocks, Waits
  <2>2. Good(W, Q) /\ Awaited(W)
    BY ReplyBlocksStep DEF Waits
  <2> HIDE DEF W
  <2>3. Done(W, "OK").t = W /\ Done(W, "OK").r = "OK" /\ Done(W, "OK").failed = NONE
    BY DEF Done
  <2> QED BY <2>1, <2>2, <2>3 DEF W, ReplyOutcome
<1> QED BY <1>3, <1>4, <1>5

-----------------------------------------------------------------------------
(* What mini_send does, in table T with the queues Q *)

SendRefused(T, o) == o.t = T /\ o.r \in Code \ {"OK"} /\ o.failed = NONE

SendDirect(T, p, d, o) ==
  /\ T[d].alive /\ T[d].receiving /\ ~T[d].sending /\ T[d].delivermsg = NONE
  /\ o.t = Handed(T, d, MessageOf(p)) /\ o.r = "OK" /\ o.failed = NONE

SendPanics(T, o) ==
  /\ o.failed = "link NULL" \/ (o.failed = "walk endless" /\ Looped(o.t))
  /\ o.r = "OK" /\ o.t \in Table /\ \A x \in Proc : o.t[x].delivermsg = T[x].delivermsg

Joined(Q, p, d) == [Q EXCEPT ![d] = Append(Q[d], p)]

SendQueued(T, Q, p, d, o) ==
  /\ o.r = "OK" /\ o.failed = NONE /\ T[d].alive
  /\ Good(o.t, Joined(Q, p, d)) /\ Awaited(o.t) /\ \A e \in Proc : InOrder(Q[e], Joined(Q, p, d)[e])
  /\ \A x \in Proc \ {p} : SameFlagsOf(T, o.t, x)
  /\ \A x \in Proc : o.t[x].retreg = T[x].retreg
  /\ o.t[p].sending /\ o.t[p].sendto_e = d /\ ~o.t[p].receiving /\ o.t[p].delivermsg = NONE
  /\ o.t[p].reply_pend = T[p].reply_pend /\ o.t[p].alive

\* The queues after p has joined that of d: in the order of arrival.
LEMMA JoinedInOrder ==
  ASSUME NEW T, NEW Q, Good(T, Q), NEW p \in Proc, NEW d \in Proc, ~T[p].sending
  PROVE  \A e \in Proc : InOrder(Q[e], Joined(Q, p, d)[e])
<1>1. Q \in [Proc -> Seq(Proc)] /\ Links(T, Q) /\ Members(T, Q)
  BY DEF Good, Links
<1>2. \A e \in Proc : \A i \in 1 .. Len(Q[e]) : Q[e][i] # p
  BY <1>1, NotQueued
<1>3. ASSUME NEW e \in Proc PROVE InOrder(Q[e], Joined(Q, p, d)[e])
  <2>1. Q[e] \in Seq(Proc) /\ Distinct(Q[e])
    BY <1>1, LinksDistinct
  <2>2. CASE e = d
    <3>1. Joined(Q, p, d)[e] = Append(Q[e], p)
      BY <2>2, <1>1 DEF Joined
    <3> QED BY <3>1, <2>1, <1>2, InOrderAppend
  <2>3. CASE e # d
    <3>1. Joined(Q, p, d)[e] = Q[e]
      BY <2>3, <1>1 DEF Joined
    <3>2. Thinned(Q[e], Q[e])
      BY <2>1, ThinnedSame
    <3> QED BY <3>1, <3>2 DEF Thinned
  <2> QED BY <2>2, <2>3
<1> QED BY <1>3

\* The outcomes of mini_send.
LEMMA SendOutcome ==
  ASSUME NEW T, NEW Q, Good(T, Q), Awaited(T), NEW p \in Proc, NEW d \in Proc, p # d, Free(T, p),
         NEW non_blocking \in BOOLEAN
  PROVE  LET o == mini_send(T, p, d, non_blocking) IN
         SendRefused(T, o) \/ SendDirect(T, p, d, o) \/ SendPanics(T, o) \/ SendQueued(T, Q, p, d, o)
<1> DEFINE o == mini_send(T, p, d, non_blocking)
           r == [T[p] EXCEPT !.sending = TRUE, !.sendto_e = d]
           V == [T EXCEPT ![p] = r]
<1>1. T \in Table /\ T[d] \in Slot /\ T[p] \in Slot /\ Links(T, Q)
  BY DEF Good, Table
<1>2. T[p].alive /\ ~T[p].sending /\ ~T[p].receiving /\ T[p].delivermsg = NONE
  BY DEF Free
<1>3. CASE ~T[d].alive
  BY <1>3 DEF mini_send, Done, SendRefused, Code
<1>4. CASE T[d].alive /\ WILLRECEIVE(T, d, p)
  <2>1. T[d].receiving /\ ~T[d].sending
    BY <1>4 DEF WILLRECEIVE
  <2>2. T[d].delivermsg = NONE
    BY <2>1 DEF Good, Blocked, BlockedOf
  <2>3. o = Done(Handed(T, d, MessageOf(p)), "OK")
    BY <1>4, <2>2 DEF mini_send, Done, MessageOf
  <2> QED BY <2>1, <2>2, <2>3, <1>4, SMTT(60) DEF SendDirect, Done
<1>7. CASE T[d].alive /\ ~WILLRECEIVE(T, d, p) /\ ~non_blocking /\ Endless(T, p, d)
  <2>1. Looped(T)
    BY <1>7, EndlessOnSelf DEF Looped
  <2>2. o = Stuck(T)
    BY <1>7 DEF mini_send
  <2>3. Stuck(T).t = T /\ Stuck(T).r = "OK" /\ Stuck(T).failed = "walk endless"
    BY SMTT(60) DEF Stuck
  <2>4. SendPanics(T, o)
    BY <2>1, <2>2, <2>3, <1>1 DEF SendPanics
  <2> QED BY <2>4
<1>5. CASE /\ T[d].alive /\ ~WILLRECEIVE(T, d, p)
           /\ non_blocking \/ (~Endless(T, p, d) /\ deadlock("SEND", T, p, d))
  BY <1>5 DEF mini_send, Done, SendRefused, Code
<1>6. CASE /\ T[d].alive /\ ~WILLRECEIVE(T, d, p) /\ ~non_blocking
           /\ ~Endless(T, p, d) /\ ~deadlock("SEND", T, p, d)
  <2>2. [T EXCEPT ![p].sending = TRUE, ![p].sendto_e = d] = V
    BY <1>1 DEF Table
  <2>1. /\ o.t = Enqueued([T EXCEPT ![p].sending = TRUE, ![p].sendto_e = d], p, d) /\ o.r = "OK"
        /\ o.failed = IF T[p].q_link = NULL THEN NONE ELSE "link NULL"
    BY <1>6 DEF mini_send, Done
  <2>3. r \in Slot
    BY <1>1, SlotUpdate
  <2>4. /\ r.sending /\ r.sendto_e = d /\ ~r.receiving /\ r.alive /\ r.delivermsg = T[p].delivermsg
        /\ r.reply_pend = T[p].reply_pend /\ r.caller_q = T[p].caller_q /\ r.q_link = T[p].q_link
        /\ r.retreg = T[p].retreg
    BY <1>1, <1>2 DEF Slot
  <2>5. V \in Table /\ V[p] = r /\ \A x \in Proc \ {p} : V[x] = T[x]
    <3> HIDE DEF r
    <3> QED BY <2>3, <1>1, TableUpdate, SMTT(60)
  <2> HIDE DEF r, V, o
  <2>6. ASSUME T[p].q_link # NULL PROVE SendPanics(T, o)
    <3>1. Links(V, Q)
      <4>1. \A x \in Proc : V[x].caller_q = T[x].caller_q /\ V[x].q_link = T[x].q_link
        BY <2>4, <2>5
      <4>2. \A e \in Proc : \A i \in 1 .. Len(Q[e]) : Q[e][i] \in Proc
        BY <1>1, SMTT(60) DEF Links
      <4>3. \A e \in Proc : \A i \in 1 .. Len(Q[e]) : V[Q[e][i]].q_link = T[Q[e][i]].q_link
        BY <4>1, <4>2
      <4> QED BY <4>1, <4>3, <1>1, LinksFrame, SMTT(60)
    <3>2. Len(Q[d]) + 1 \in 1 .. Len(Q[d]) + 1
      <4>1. Q[d] \in Seq(Proc)
        BY <3>1 DEF Links
      <4> QED BY <4>1, SMTT(60)
    <3>3. PICK i \in 1 .. Len(Q[d]) + 1 : i = Len(Q[d]) + 1
      BY <3>2
    <3>6. Enqueued(V, p, d) = Relinked(V, d, i, p)
      BY <3>1, <3>3, <2>5, QueueOf DEF Enqueued
    <3>7. Relinked(V, d, i, p) \in Table /\ SameFlags(V, Relinked(V, d, i, p))
      BY <3>1, <2>5, RelinkedIs
    <3>4. o.t \in Table /\ SameFlags(V, o.t)
      BY <3>6, <3>7, <2>1, <2>2
    <3>5. \A x \in Proc : o.t[x].delivermsg = T[x].delivermsg
      BY <3>4, <2>4, <2>5, SMTT(60) DEF SameFlags, SameFlagsOf
    <3>8. o.failed = "link NULL" /\ o.r = "OK"
      BY <2>1, <2>6
    <3> QED BY <3>4, <3>5, <3>8 DEF SendPanics
  <2>7. ASSUME T[p].q_link = NULL PROVE SendQueued(T, Q, p, d, o)
    <3>1. Good(o.t, Joined(Q, p, d)) /\ Awaited(o.t) /\ SameFlags(V, o.t)
      <4> DEFINE W == [T EXCEPT ![p].sending = TRUE, ![p].sendto_e = d]
      <4>1. /\ Good(Enqueued(W, p, d), [Q EXCEPT ![d] = Append(Q[d], p)])
            /\ Awaited(Enqueued(W, p, d)) /\ SameFlags(W, Enqueued(W, p, d))
        BY <2>7, <1>2, <1>6, SendBlocks
      <4> HIDE DEF W
      <4> QED BY <4>1, <2>1, <2>2 DEF Joined, W
    <3>2. \A e \in Proc : InOrder(Q[e], Joined(Q, p, d)[e])
      BY <1>2, JoinedInOrder
    <3>3. \A x \in Proc \ {p} : SameFlagsOf(T, o.t, x)
      BY <3>1, <2>5, SMTT(60) DEF SameFlags, SameFlagsOf
    <3>4. \A x \in Proc : o.t[x].retreg = T[x].retreg
      BY <3>1, <2>4, <2>5 DEF SameFlags
    <3>5. /\ o.t[p].sending /\ o.t[p].sendto_e = d /\ ~o.t[p].receiving /\ o.t[p].delivermsg = NONE
          /\ o.t[p].reply_pend = T[p].reply_pend /\ o.t[p].alive
      BY <3>1, <2>4, <2>5, <1>2, SMTT(60) DEF SameFlags, SameFlagsOf
    <3> QED BY <3>1, <3>2, <3>3, <3>4, <3>5, <2>1, <2>7, <1>6 DEF SendQueued
  <2> QED BY <2>6, <2>7 DEF o
<1> QED BY <1>3, <1>4, <1>5, <1>6, <1>7

-----------------------------------------------------------------------------
(* What mini_receive finds *)

\* First picks an element.
LEMMA FirstIn ==
  ASSUME NEW S \in SUBSET Nat, S # {}
  PROVE  First(S) \in S
BY LeastNumber DEF First

\* A receive takes the first pending notification it accepts.
LEMMA NotificationTaken ==
  ASSUME NEW T, NEW Q, Good(T, Q), Awaited(T), NEW p \in Proc, NEW src, Free(T, p),
         has_pending_notify(T, p, src) # {}
  PROVE  LET o == ReceiveNotification(T, p, src) IN
         /\ o.r = "OK" /\ o.failed = NONE /\ Good(o.t, Q) /\ Awaited(o.t) /\ ~o.t[p].sending
         /\ Notified(o.t[p].delivermsg)
         /\ \A x \in Proc \ {p} : Kept(T, o.t, x)
<1> DEFINE s == First(has_pending_notify(T, p, src))
           m == [src |-> s, notify |-> TRUE]
           r == [T[p] EXCEPT !.notify_pending = T[p].notify_pending \ {s}]
           V == [T EXCEPT ![p] = r]
           U == Handed(V, p, m)
<1>1. T \in Table /\ T[p] \in Slot
  BY DEF Good, Table
<1>2. s \in Proc
  <2>1. has_pending_notify(T, p, src) \in SUBSET Proc
    BY <1>1 DEF has_pending_notify, Slot
  <2>2. Proc \subseteq Nat
    <3>1. NR_PROCS \in Nat
      BY IPCAssumption
    <3> QED BY <3>1, SMTT(60) DEF Proc
  <2>3. has_pending_notify(T, p, src) \in SUBSET Nat
    BY <2>1, <2>2
  <2> HIDE DEF s
  <2>4. s \in has_pending_notify(T, p, src)
    BY <2>3, FirstIn DEF s
  <2> QED BY <2>1, <2>4
<1>3. ReceiveNotification(T, p, src) = Done(U, "OK")
  <2>1. [T EXCEPT ![p].notify_pending = @ \ {s}] = V
    BY <1>1 DEF Table
  <2> HIDE DEF s, V
  <2> QED BY <2>1 DEF ReceiveNotification, s
<1> HIDE DEF s
<1>4. m \in Message
  BY <1>2 DEF Message
<1>5. r \in Slot
  <2>1. T[p].notify_pending \ {s} \in SUBSET Proc
    BY <1>1 DEF Slot
  <2> QED BY <2>1, <1>1, SlotUpdate
<1>6. /\ r.alive = T[p].alive /\ ~r.sending /\ ~r.receiving
      /\ r.caller_q = T[p].caller_q /\ r.q_link = T[p].q_link
  BY <1>1 DEF Slot, Free
<1> HIDE DEF r, m
<1>7. V \in Table /\ V[p] = r /\ \A x \in Proc \ {p} : V[x] = T[x]
  BY <1>1, <1>5, TableUpdate, SMTT(60)
<1> HIDE DEF V
<1>8. Good(V, Q) /\ Awaited(V) /\ ~V[p].sending
  <2>1. ~T[p].sending /\ ~V[p].sending /\ ~V[p].receiving /\ V[p].alive = T[p].alive
    BY <1>6, <1>7 DEF Free
  <2>2. \A x \in Proc \ {p} : SameFlagsOf(T, V, x)
    BY <1>7 DEF SameFlagsOf
  <2>3. \A x \in Proc : V[x].caller_q = T[x].caller_q /\ V[x].q_link = T[x].q_link
    BY <1>6, <1>7
  <2> QED BY <2>1, <2>2, <2>3, <1>7, RestStep
<1>9. /\ Good(U, Q) /\ Awaited(U) /\ ~U[p].sending /\ U[p].delivermsg = m
      /\ \A x \in Proc \ {p} : SameFlagsOf(V, U, x)
      /\ \A x \in Proc : U[x].retreg = V[x].retreg
  BY <1>4, <1>8, HandedStep, SMTT(60)
<1> HIDE DEF U
<1>10. \A x \in Proc \ {p} : Kept(T, U, x)
  <2>1. \A x \in Proc \ {p} : V[x] = T[x]
    BY <1>7
  <2>2. \A x \in Proc \ {p} : Kept(V, U, x)
    BY <1>9, KeptFlags
  <2> QED BY <2>1, <2>2 DEF Kept
<1>11. Notified(U[p].delivermsg)
  BY <1>2, <1>9 DEF m, Notified
<1>12. Done(U, "OK").t = U /\ Done(U, "OK").r = "OK" /\ Done(U, "OK").failed = NONE
  BY DEF Done
<1> QED BY <1>3, <1>9, <1>10, <1>11, <1>12

\* A receive of p with outcome o has taken the message of a process in its queue.
FromQueue(T, Q, p, o) ==
  /\ o.r = "OK" /\ o.failed = NONE
  /\ \E R : Good(o.t, R) /\ \A e \in Proc : InOrder(Q[e], R[e])
  /\ Awaited(o.t) /\ ~o.t[p].sending
  /\ \E s \in Proc :
       /\ s # p /\ T[s].sending /\ T[s].sendto_e = p /\ T[s].delivermsg = NONE
       /\ o.t[p].delivermsg = MessageOf(s)
       /\ ~o.t[s].sending /\ o.t[s].receiving = T[s].receiving /\ o.t[s].delivermsg = NONE
       /\ o.t[s].retreg = T[s].retreg
       /\ \A x \in Proc \ {p, s} : Kept(T, o.t, x)

\* A receive takes the message of the first process in the queue that it accepts.
LEMMA QueuedTaken ==
  ASSUME NEW T, NEW Q, Good(T, Q), Awaited(T), NEW p \in Proc, NEW src, Free(T, p),
         Acceptable(T, p, src) # {}
  PROVE  FromQueue(T, Q, p, ReceiveQueued(T, p, src))
<1>1. Acceptable(T, p, src) = {i \in 1 .. Len(Q[p]) : src \in {ANY, Q[p][i]}}
  BY AcceptableIs, SMTT(60)
<1>2. /\ T \in Table /\ Links(T, Q) /\ Queue(T, p) = Q[p] /\ Q \in [Proc -> Seq(Proc)]
      /\ Q[p] \in Seq(Proc) /\ Distinct(Q[p])
  <2>1. T \in Table /\ Links(T, Q)
    BY DEF Good
  <2>2. Queue(T, p) = Q[p]
    BY <2>1, QueueOf
  <2>3. Q \in [Proc -> Seq(Proc)] /\ Q[p] \in Seq(Proc)
    BY <2>1 DEF Links
  <2> QED BY <2>1, <2>2, <2>3, LinksDistinct
<1>3. PICK i \in 1 .. Len(Q[p]) : i = First(Acceptable(T, p, src))
  <2>1. Acceptable(T, p, src) \in SUBSET Nat
    BY <1>1, SMTT(60)
  <2>2. First(Acceptable(T, p, src)) \in Acceptable(T, p, src)
    BY <2>1, FirstIn
  <2> QED BY <2>2, <1>1
<1>10. PICK s \in Proc : Q[p][i] = s
  BY <1>2, SMTT(60)
<1> DEFINE U == Taken(T, p, s)
<1>4. TookQueued(T, Q, U, p, s)
  <2>1. ~T[p].sending /\ In(Q[p], s)
    BY <1>10 DEF Free, In
  <2> QED BY <2>1, ReceiveQueuedStep
<1>5. T[s].alive /\ T[s].delivermsg = NONE
  <2>1. T[s].sending
    BY <1>4 DEF TookQueued
  <2> QED BY <2>1 DEF Good, Blocked, BlockedOf
<1>6. ReceiveQueued(T, p, src) = Done(U, "OK")
  <2>1. Queue(T, p)[First(Acceptable(T, p, src))] = s
    BY <1>2, <1>3, <1>10
  <2> HIDE DEF U
  <2> QED BY <2>1, <1>5, SMTT(60) DEF ReceiveQueued, Done, U
<1> HIDE DEF U
<1> DEFINE o == ReceiveQueued(T, p, src)
<1>7. o.t = U /\ o.r = "OK" /\ o.failed = NONE
  BY <1>6, SMTT(60) DEF Done
<1> HIDE DEF o
<1>8. \E R : Good(o.t, R) /\ \A e \in Proc : InOrder(Q[e], R[e])
  BY <1>4, <1>7 DEF Thinned, TookQueued
<1>9. /\ s # p /\ T[s].sending /\ T[s].sendto_e = p /\ T[s].delivermsg = NONE
      /\ o.t[p].delivermsg = MessageOf(s)
      /\ ~o.t[s].sending /\ o.t[s].receiving = T[s].receiving /\ o.t[s].delivermsg = NONE
      /\ o.t[s].retreg = T[s].retreg
  BY <1>4, <1>5, <1>7 DEF TookQueued
<1>11. \A x \in Proc \ {p, s} : Kept(T, o.t, x)
  BY <1>4, <1>7, KeptFlags DEF TookQueued
<1>12. Awaited(o.t) /\ ~o.t[p].sending
  BY <1>4, <1>7 DEF TookQueued
<1> QED BY <1>7, <1>8, <1>9, <1>11, <1>12 DEF o, FromQueue

-----------------------------------------------------------------------------
(* The history of calls *)

\* What the last call of a process has led to, by what the process does now.
HistoryOf(T, lst, hnd, p) ==
  /\ T[p].sending => /\ lst[p] # NONE /\ lst[p].dst = T[p].sendto_e /\ hnd[p] = 0
                     /\ lst[p].op = "SEND" => T[p].retreg = "OK" /\ ~T[p].receiving
  /\ T[p].receiving /\ ~T[p].sending /\ lst[p] # NONE => lst[p].op = "SENDREC" /\ hnd[p] = 1
  /\ T[p].delivermsg # NONE /\ lst[p] # NONE => lst[p].op = "SENDREC" /\ hnd[p] = 1
  /\ T[p].alive /\ lst[p] # NONE /\ ~T[p].sending =>
       /\ T[p].retreg = "OK" => hnd[p] = 1
       /\ T[p].retreg # "OK" /\ lst[p].op = "SEND" => hnd[p] = 0

History(T, lst, hnd) == \A p \in Proc : HistoryOf(T, lst, hnd, p)

\* A process that a call neither touches nor takes a message from.
LEMMA HistoryFrame ==
  ASSUME NEW T, NEW U, NEW x \in Proc, NEW lst, NEW hnd, NEW lst1, NEW hnd1, HistoryOf(T, lst, hnd, x),
         Kept(T, U, x), lst1[x] = lst[x], hnd1[x] = hnd[x]
  PROVE  HistoryOf(U, lst1, hnd1, x)
BY DEF HistoryOf, Kept

\* A process whose call did not send.
LEMMA HistoryNone ==
  ASSUME NEW U, NEW x \in Proc, NEW lst1, NEW hnd1, ~U[x].sending, lst1[x] = NONE
  PROVE  HistoryOf(U, lst1, hnd1, x)
BY DEF HistoryOf

\* The history after a call that leads from table T to table U; lst and count as in Trapped.
HandedNow(T, U, lst, count) ==
  [x \in Proc |-> IF lst[x] = NONE THEN 0 ELSE count[x] + HandedBy(T, U, x, lst[x].dst)]

Calls == [Proc -> Sending \cup {NONE}]

\* A call that hands out notifications at most changes no count.
LEMMA NoneHanded ==
  ASSUME NEW T \in Table, NEW U, NEW lst \in Calls, NEW count \in [Proc -> 0 .. 1],
         \A y \in Proc : \/ U[y].delivermsg = T[y].delivermsg
                         \/ Notified(U[y].delivermsg)
  PROVE  /\ HandedNow(T, U, lst, count) \in [Proc -> 0 .. 1]
         /\ \A x \in Proc : HandedNow(T, U, lst, count)[x] = IF lst[x] = NONE THEN 0 ELSE count[x]
<1>1. ASSUME NEW x \in Proc, lst[x] # NONE PROVE HandedBy(T, U, x, lst[x].dst) = 0
  <2>1. lst[x].dst \in Proc
    BY <1>1 DEF Calls, Sending
  <2>2. [src |-> x, notify |-> FALSE] # NONE
    <3>1. [src |-> x, notify |-> FALSE] \in Message
      BY DEF Message
    <3> QED BY <3>1, IPCAssumption
  <2>3. \A m : Notified(m) => m # [src |-> x, notify |-> FALSE]
    BY SMTT(60) DEF Notified
  <2> QED BY <2>1, <2>2, <2>3 DEF HandedBy
<1>2. ASSUME NEW x \in Proc PROVE HandedNow(T, U, lst, count)[x] = IF lst[x] = NONE THEN 0 ELSE count[x]
  <2>1. count[x] \in Nat
    BY SMTT(60)
  <2> QED BY <2>1, <1>1, SMTT(60) DEF HandedNow
<1>3. HandedNow(T, U, lst, count) = [x \in Proc |-> IF lst[x] = NONE THEN 0 ELSE count[x]]
  <2>1. HandedNow(T, U, lst, count) = [x \in Proc |-> HandedNow(T, U, lst, count)[x]]
    BY DEF HandedNow
  <2> QED BY <2>1, <1>2
<1> QED BY <1>2, <1>3, SMTT(60)

\* The message of s has been counted, and no other.
Counts(now, lst, count, s) ==
  /\ now \in [Proc -> 0 .. 1] /\ now[s] = 1
  /\ \A x \in Proc \ {s} : now[x] = IF lst[x] = NONE THEN 0 ELSE count[x]

\* A call that hands y the message of s, and no other, counts it.
LEMMA OneSent ==
  ASSUME NEW T \in Table, NEW U, NEW lst \in Calls, NEW count \in [Proc -> 0 .. 1],
         NEW y \in Proc, NEW s \in Proc, T[y].delivermsg = NONE,
         U[y].delivermsg = MessageOf(s),
         \A x \in Proc \ {y} : U[x].delivermsg = T[x].delivermsg,
         lst[s] # NONE, lst[s].dst = y, count[s] = 0
  PROVE  Counts(HandedNow(T, U, lst, count), lst, count, s)
<1>1. ASSUME NEW x \in Proc, lst[x] # NONE, x # s PROVE HandedBy(T, U, x, lst[x].dst) = 0
  <2>1. lst[x].dst \in Proc
    BY <1>1 DEF Calls, Sending
  <2>2. [src |-> x, notify |-> FALSE] # NONE
    <3>1. [src |-> x, notify |-> FALSE] \in Message
      BY DEF Message
    <3> QED BY <3>1, IPCAssumption
  <2>3. [src |-> x, notify |-> FALSE] # [src |-> s, notify |-> FALSE]
    BY <1>1
  <2> QED BY <2>1, <2>2, <2>3 DEF HandedBy, MessageOf
<1>2. ASSUME NEW x \in Proc, x # s
      PROVE  HandedNow(T, U, lst, count)[x] = IF lst[x] = NONE THEN 0 ELSE count[x]
  <2>1. count[x] \in Nat
    BY SMTT(60)
  <2> QED BY <2>1, <1>1, <1>2, SMTT(60) DEF HandedNow
<1>3. HandedNow(T, U, lst, count)[s] = 1
  <2>1. HandedBy(T, U, s, lst[s].dst) = 1
    BY DEF HandedBy, MessageOf
  <2> QED BY <2>1, SMTT(60) DEF HandedNow
<1>4. \A x \in Proc : HandedNow(T, U, lst, count)[x] \in 0 .. 1
  <2>1. \A x \in Proc : count[x] \in 0 .. 1
    OBVIOUS
  <2> QED BY <2>1, <1>2, <1>3, SMTT(60)
<1>5. HandedNow(T, U, lst, count) = [x \in Proc |-> HandedNow(T, U, lst, count)[x]]
  BY DEF HandedNow
<1>6. HandedNow(T, U, lst, count) \in [Proc -> 0 .. 1]
  BY <1>4, <1>5
<1> QED BY <1>2, <1>3, <1>6 DEF Counts

\* Pointers of queues are not part of the history.
LEMMA KeptBoth ==
  ASSUME NEW T, NEW X, NEW U, NEW x \in Proc, Kept(T, X, x), SameFlagsOf(X, U, x), U[x].retreg = X[x].retreg
  PROVE  Kept(T, U, x)
BY DEF Kept, SameFlagsOf

\* After a call of p that sends, from T to X with result c: the history is that of X.
LEMMA SentDirectly ==
  ASSUME NEW T \in Table, NEW lst \in Calls, NEW hnd \in [Proc -> 0 .. 1], History(T, lst, hnd),
         NEW p \in Proc, NEW d \in Proc, p # d, NEW op \in {"SEND", "SENDREC"},
         T[d].receiving, ~T[d].sending, T[d].delivermsg = NONE, T[p].delivermsg = NONE,
         NEW X \in Table, \A x \in Proc \ {p, d} : Kept(T, X, x),
         ~X[p].sending, X[p].delivermsg = NONE, X[p].receiving => op = "SENDREC",
         ~X[d].sending, ~X[d].receiving, X[d].delivermsg = MessageOf(p),
         X[d].retreg = T[d].retreg, X[d].alive = T[d].alive,
         NEW c \in Code, op = "SEND" => c = "OK"
  PROVE  LET lst1 == [lst EXCEPT ![p] = [op |-> op, dst |-> d]]
             hnd1 == HandedNow(T, X, lst1, [hnd EXCEPT ![p] = 0])
         IN  hnd1 \in [Proc -> 0 .. 1] /\ History([X EXCEPT ![p].retreg = c], lst1, hnd1)
<1> DEFINE lst1 == [lst EXCEPT ![p] = [op |-> op, dst |-> d]]
           cnt == [hnd EXCEPT ![p] = 0]
           hnd1 == HandedNow(T, X, lst1, cnt)
           U == [X EXCEPT ![p].retreg = c]
<1>1. lst1 \in Calls /\ lst1[p] = [op |-> op, dst |-> d] /\ \A x \in Proc \ {p} : lst1[x] = lst[x]
  BY DEF Calls, Sending
<1>2. cnt \in [Proc -> 0 .. 1] /\ cnt[p] = 0 /\ \A x \in Proc \ {p} : cnt[x] = hnd[x]
  BY SMTT(60)
<1>3. lst1[p] # NONE /\ lst1[p].dst = d /\ lst1[p].op = op
  <2>1. [op |-> op, dst |-> d] \in Sending
    BY DEF Sending
  <2>2. lst1[p] \in Sending /\ lst1[p].dst = d /\ lst1[p].op = op
    BY <2>1, <1>1, SMTT(60)
  <2> HIDE DEF lst1
  <2> QED BY <2>2, IPCAssumption
<1> HIDE DEF lst1, cnt
<1>4. /\ hnd1 \in [Proc -> 0 .. 1] /\ hnd1[p] = 1
      /\ \A x \in Proc \ {p} : hnd1[x] = IF lst1[x] = NONE THEN 0 ELSE cnt[x]
  <2>1. \A x \in Proc \ {d} : X[x].delivermsg = T[x].delivermsg
    BY DEF Kept
  <2>2. Counts(hnd1, lst1, cnt, p)
    BY <2>1, <1>1, <1>2, <1>3, OneSent
  <2> QED BY <2>2 DEF Counts
<1>5. \A x \in Proc : SameFlagsOf(X, U, x) /\ U[x].retreg = IF x = p THEN c ELSE X[x].retreg
  BY RetregSet, SMTT(60)
<1> HIDE DEF hnd1, U
<1>6. ASSUME NEW x \in Proc PROVE HistoryOf(U, lst1, hnd1, x)
  <2>1. CASE x = p
    BY <2>1, <1>3, <1>4, <1>5 DEF HistoryOf, SameFlagsOf
  <2>2. CASE x # p /\ lst[x] = NONE
    <3>1. ~U[x].sending
      <4>1. ~X[x].sending
        BY <2>2 DEF History, HistoryOf, Kept
      <4> QED BY <4>1, <1>5 DEF SameFlagsOf
    <3> QED BY <3>1, <2>2, <1>1, HistoryNone
  <2>3. CASE x = d /\ lst[x] # NONE
    <3>1. hnd1[x] = hnd[x] /\ lst1[x] = lst[x]
      BY <2>3, <1>1, <1>2, <1>4
    <3>2. HistoryOf(T, lst, hnd, x)
      BY DEF History
    <3> QED BY <3>1, <3>2, <2>3, <1>5 DEF HistoryOf, SameFlagsOf
  <2>4. CASE x # p /\ x # d /\ lst[x] # NONE
    <3>1. hnd1[x] = hnd[x] /\ lst1[x] = lst[x]
      BY <2>4, <1>1, <1>2, <1>4
    <3>2. HistoryOf(T, lst, hnd, x)
      BY DEF History
    <3>3. Kept(T, U, x)
      BY <2>4, <1>5, KeptBoth
    <3> QED BY <3>1, <3>2, <3>3, HistoryFrame
  <2> QED BY <2>1, <2>2, <2>3, <2>4
<1> QED BY <1>4, <1>6 DEF History, lst1, cnt, hnd1, U

\* After a send that hands nothing over, because it blocks or is refused, the history agrees with the slots.
LEMMA SentQuietly ==
  ASSUME NEW T \in Table, NEW lst \in Calls, NEW hnd \in [Proc -> 0 .. 1], History(T, lst, hnd),
         NEW p \in Proc, NEW d \in Proc, NEW op \in {"SEND", "SENDREC"}, T[p].delivermsg = NONE,
         NEW X \in Table, \A x \in Proc \ {p} : Kept(T, X, x), X[p].delivermsg = NONE, NEW c \in Code,
         \/ X[p].sending /\ X[p].sendto_e = d /\ (op = "SEND" => c = "OK" /\ ~X[p].receiving)
         \/ ~X[p].sending /\ ~X[p].receiving /\ c # "OK"
  PROVE  LET lst1 == [lst EXCEPT ![p] = [op |-> op, dst |-> d]]
             hnd1 == HandedNow(T, X, lst1, [hnd EXCEPT ![p] = 0])
         IN  hnd1 \in [Proc -> 0 .. 1] /\ History([X EXCEPT ![p].retreg = c], lst1, hnd1)
<1> DEFINE lst1 == [lst EXCEPT ![p] = [op |-> op, dst |-> d]]
           cnt == [hnd EXCEPT ![p] = 0]
           hnd1 == HandedNow(T, X, lst1, cnt)
           U == [X EXCEPT ![p].retreg = c]
<1>1. lst1 \in Calls /\ lst1[p] = [op |-> op, dst |-> d] /\ \A x \in Proc \ {p} : lst1[x] = lst[x]
  BY DEF Calls, Sending
<1>2. cnt \in [Proc -> 0 .. 1] /\ cnt[p] = 0 /\ \A x \in Proc \ {p} : cnt[x] = hnd[x]
  BY SMTT(60)
<1>3. lst1[p] # NONE /\ lst1[p].dst = d /\ lst1[p].op = op
  <2>1. [op |-> op, dst |-> d] \in Sending
    BY DEF Sending
  <2>2. lst1[p] \in Sending /\ lst1[p].dst = d /\ lst1[p].op = op
    BY <2>1, <1>1, SMTT(60)
  <2> HIDE DEF lst1
  <2> QED BY <2>2, IPCAssumption
<1> HIDE DEF lst1, cnt
<1>4. /\ hnd1 \in [Proc -> 0 .. 1]
      /\ \A x \in Proc : hnd1[x] = IF lst1[x] = NONE THEN 0 ELSE cnt[x]
  <2>1. \A x \in Proc : X[x].delivermsg = T[x].delivermsg
    BY DEF Kept
  <2> HIDE DEF hnd1
  <2> QED BY <2>1, <1>1, <1>2, NoneHanded, SMTT(60) DEF hnd1
<1>5. \A x \in Proc : SameFlagsOf(X, U, x) /\ U[x].retreg = IF x = p THEN c ELSE X[x].retreg
  BY RetregSet, SMTT(60)
<1> HIDE DEF hnd1, U
<1>6. ASSUME NEW x \in Proc PROVE HistoryOf(U, lst1, hnd1, x)
  <2>1. CASE x = p
    BY <2>1, <1>2, <1>3, <1>4, <1>5 DEF HistoryOf, SameFlagsOf
  <2>2. CASE x # p /\ lst[x] = NONE
    <3>1. ~U[x].sending
      <4>1. ~X[x].sending
        BY <2>2 DEF History, HistoryOf, Kept
      <4> QED BY <4>1, <1>5 DEF SameFlagsOf
    <3> QED BY <3>1, <2>2, <1>1, HistoryNone
  <2>4. CASE x # p /\ lst[x] # NONE
    <3>1. hnd1[x] = hnd[x] /\ lst1[x] = lst[x]
      BY <2>4, <1>1, <1>2, <1>4
    <3>2. HistoryOf(T, lst, hnd, x)
      BY DEF History
    <3>3. Kept(T, U, x)
      BY <2>4, <1>5, KeptBoth
    <3> QED BY <3>1, <3>2, <3>3, HistoryFrame
  <2> QED BY <2>1, <2>2, <2>4
<1> QED BY <1>4, <1>6 DEF History, lst1, cnt, hnd1, U

\* A process whose wait for p has been ended by clear_ipc_refs.
LEMMA HistoryFreed ==
  ASSUME NEW T, NEW U, NEW p \in Proc, NEW x \in Proc, NEW lst, NEW hnd, HistoryOf(T, lst, hnd, x),
         BlockedOf(T, x), Freed(T, U, p, x)
  PROVE  HistoryOf(U, lst, hnd, x)
<1>1. NONE # p
  BY IPCAssumption
<1>2. CASE P_BLOCKEDON(T, x) = p /\ ~U[x].sending /\ ~U[x].receiving /\ U[x].retreg = "EDEADSRCDST"
  <2>1. T[x].sending \/ T[x].receiving
    BY <1>1, <1>2 DEF P_BLOCKEDON
  <2>2. U[x].delivermsg = NONE
    BY <2>1 DEF BlockedOf, Freed
  <2> QED BY <2>1, <2>2, <1>2 DEF HistoryOf
<1>3. CASE Kept(T, U, x)
  BY <1>3, HistoryFrame
<1> QED BY <1>2, <1>3 DEF Freed, Kept

\* After a call of p that does not send, from T to X, in which no sender's message is handed over.
LEMMA CalledQuietly ==
  ASSUME NEW T \in Table, NEW lst \in Calls, NEW hnd \in [Proc -> 0 .. 1], History(T, lst, hnd),
         NEW p \in Proc, NEW X \in Table, ~X[p].sending,
         \A y \in Proc : \/ X[y].delivermsg = T[y].delivermsg
                         \/ Notified(X[y].delivermsg),
         \A x \in Proc \ {p} : HistoryOf(X, lst, hnd, x), NEW c \in Code
  PROVE  LET lst1 == [lst EXCEPT ![p] = NONE]
             hnd1 == HandedNow(T, X, lst1, hnd)
         IN  hnd1 \in [Proc -> 0 .. 1] /\ History([X EXCEPT ![p].retreg = c], lst1, hnd1)
<1> DEFINE lst1 == [lst EXCEPT ![p] = NONE]
           hnd1 == HandedNow(T, X, lst1, hnd)
           U == [X EXCEPT ![p].retreg = c]
<1>1. lst1 \in Calls /\ lst1[p] = NONE /\ \A x \in Proc \ {p} : lst1[x] = lst[x]
  BY DEF Calls
<1> HIDE DEF lst1
<1>2. hnd1 \in [Proc -> 0 .. 1] /\ \A x \in Proc : hnd1[x] = IF lst1[x] = NONE THEN 0 ELSE hnd[x]
  BY <1>1, NoneHanded, SMTT(60)
<1>3. \A x \in Proc : SameFlagsOf(X, U, x) /\ U[x].retreg = IF x = p THEN c ELSE X[x].retreg
  BY RetregSet, SMTT(60)
<1> HIDE DEF hnd1, U
<1>4. ASSUME NEW x \in Proc PROVE HistoryOf(U, lst1, hnd1, x)
  <2>1. CASE x = p \/ lst[x] = NONE
    <3>1. ~X[x].sending
      BY <2>1 DEF HistoryOf
    <3>2. ~U[x].sending /\ lst1[x] = NONE
      BY <3>1, <2>1, <1>1, <1>3 DEF SameFlagsOf
    <3> QED BY <3>2, HistoryNone
  <2>2. CASE x # p /\ lst[x] # NONE
    <3>1. hnd1[x] = hnd[x] /\ lst1[x] = lst[x]
      BY <2>2, <1>1, <1>2
    <3>2. Kept(X, U, x)
      BY <2>2, <1>3 DEF Kept, SameFlagsOf
    <3> QED BY <3>1, <3>2, <2>2, HistoryFrame
  <2> QED BY <2>1, <2>2
<1> QED BY <1>2, <1>4 DEF History, lst1, hnd1, U

\* After a receive of p that has taken the message of the queued process s.
LEMMA CalledTaking ==
  ASSUME NEW T \in Table, NEW lst \in Calls, NEW hnd \in [Proc -> 0 .. 1], History(T, lst, hnd),
         NEW p \in Proc, NEW s \in Proc, s # p, T[s].sending, T[s].sendto_e = p,
         T[p].delivermsg = NONE, T[s].delivermsg = NONE,
         NEW X \in Table, ~X[p].sending, X[p].delivermsg = MessageOf(s),
         \A x \in Proc \ {p, s} : Kept(T, X, x),
         ~X[s].sending, X[s].receiving = T[s].receiving, X[s].delivermsg = NONE, X[s].retreg = T[s].retreg,
         NEW c \in Code
  PROVE  LET lst1 == [lst EXCEPT ![p] = NONE]
             hnd1 == HandedNow(T, X, lst1, hnd)
         IN  hnd1 \in [Proc -> 0 .. 1] /\ History([X EXCEPT ![p].retreg = c], lst1, hnd1)
<1> DEFINE lst1 == [lst EXCEPT ![p] = NONE]
           hnd1 == HandedNow(T, X, lst1, hnd)
           U == [X EXCEPT ![p].retreg = c]
<1>1. lst1 \in Calls /\ lst1[p] = NONE /\ \A x \in Proc \ {p} : lst1[x] = lst[x]
  BY DEF Calls
<1> HIDE DEF lst1
<1>2. /\ lst[s] # NONE /\ lst[s].dst = p /\ hnd[s] = 0
      /\ lst[s].op = "SEND" => T[s].retreg = "OK" /\ ~T[s].receiving
  BY DEF History, HistoryOf
<1>3. /\ hnd1 \in [Proc -> 0 .. 1] /\ hnd1[s] = 1
      /\ \A x \in Proc \ {s} : hnd1[x] = IF lst1[x] = NONE THEN 0 ELSE hnd[x]
  <2>1. \A x \in Proc \ {p} : X[x].delivermsg = T[x].delivermsg
    BY DEF Kept
  <2>2. lst1[s] # NONE /\ lst1[s].dst = p /\ hnd[s] = 0
    BY <1>1, <1>2
  <2>3. lst1 \in Calls
    BY <1>1
  <2>4. Counts(hnd1, lst1, hnd, s)
    BY <2>1, <2>2, <2>3, OneSent
  <2> QED BY <2>4 DEF Counts
<1>4. \A x \in Proc : SameFlagsOf(X, U, x) /\ U[x].retreg = IF x = p THEN c ELSE X[x].retreg
  BY RetregSet, SMTT(60)
<1> HIDE DEF hnd1, U
<1>5. ASSUME NEW x \in Proc PROVE HistoryOf(U, lst1, hnd1, x)
  <2>1. CASE x = s
    <3>1. lst1[s] = lst[s]
      BY <1>1
    <3>2. lst[s] \in Sending
      BY <1>2 DEF Calls
    <3>3. lst[s].op \in {"SEND", "SENDREC"}
      BY <3>2 DEF Sending
    <3> QED BY <3>1, <3>3, <2>1, <1>2, <1>3, <1>4 DEF HistoryOf, SameFlagsOf
  <2>2. CASE x # s /\ (x = p \/ lst[x] = NONE)
    <3>1. ~X[x].sending
      BY <2>2 DEF HistoryOf, History, Kept
    <3>2. ~U[x].sending /\ lst1[x] = NONE
      BY <3>1, <2>2, <1>1, <1>4 DEF SameFlagsOf
    <3> QED BY <3>2, HistoryNone
  <2>3. CASE x # s /\ x # p /\ lst[x] # NONE
    <3>1. hnd1[x] = hnd[x] /\ lst1[x] = lst[x]
      BY <2>3, <1>1, <1>3
    <3>2. Kept(T, U, x)
      BY <2>3, <1>4, KeptBoth
    <3>3. HistoryOf(T, lst, hnd, x)
      BY DEF History
    <3> QED BY <3>1, <3>2, <3>3, HistoryFrame
  <2> QED BY <2>1, <2>2, <2>3
<1> QED BY <1>3, <1>5 DEF History, lst1, hnd1, U

=============================================================================
