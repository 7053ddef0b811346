-------------------------- MODULE KernelIPCProofs ---------------------------
(*****************************************************************************)
(* For every number of processes and all masks: what KernelIPC promises.     *)
(*****************************************************************************)
EXTENDS KernelTableProofs

\* Most leaves are first-order reasoning about sets and functions, which is for
\* Zenon; a leaf with arithmetic, records or sequences calls for SMT by name.
USE ZenonT(60)

IInv ==
  /\ TypeOK
  /\ AssertionsHold
  /\ panic = NONE => (\E Q : Good(proc, Q)) /\ Awaited(proc) /\ History(proc, last, handed)
  /\ panic = "walk endless" => Looped(proc)

-----------------------------------------------------------------------------
(* What a whole call of p does, from table T with the queues Q: table X,      *)
(* result c and failed assertion f are its outcome, and lst and count are as  *)
(* in Trapped                                                                 *)

Lasting(Q, U, lst, hnd) ==
  /\ \E R : Good(U, R) /\ \A e \in Proc : InOrder(Q[e], R[e])
  /\ Awaited(U) /\ History(U, lst, hnd)

Ends(T, Q, p, X, c, f, lst, count) ==
  /\ [X EXCEPT ![p].retreg = c] \in Table
  /\ lst \in Calls
  /\ HandedNow(T, X, lst, count) \in [Proc -> 0 .. 1]
  /\ f \in {NONE, "link NULL", "walk endless"}
  /\ f = NONE => Lasting(Q, [X EXCEPT ![p].retreg = c], lst, HandedNow(T, X, lst, count))
  /\ f = "walk endless" => Looped([X EXCEPT ![p].retreg = c])

\* A call that ends in a good table ends well.
LEMMA EndsWell ==
  ASSUME NEW T, NEW Q, NEW p \in Proc, NEW X, NEW R, Good(X, R), Awaited(X),
         \A e \in Proc : InOrder(Q[e], R[e]), NEW c \in Code, NEW lst \in Calls, NEW count,
         HandedNow(T, X, lst, count) \in [Proc -> 0 .. 1],
         History([X EXCEPT ![p].retreg = c], lst, HandedNow(T, X, lst, count))
  PROVE  Ends(T, Q, p, X, c, NONE, lst, count)
<1> DEFINE U == [X EXCEPT ![p].retreg = c]
<1>1. X \in Table
  BY DEF Good
<1>2. U \in Table /\ Good(U, R) /\ Awaited(U)
  BY <1>1, RetregSet
<1> HIDE DEF U
<1>3. Lasting(Q, U, lst, HandedNow(T, X, lst, count))
  BY <1>2 DEF Lasting, U
<1>4. NONE # "walk endless"
  BY IPCAssumption
<1> QED BY <1>2, <1>3, <1>4 DEF Ends, U

\* The history variables after a call are of their types.
LEMMA LstType ==
  ASSUME NEW lst \in Calls, NEW hnd \in [Proc -> 0 .. 1], NEW p \in Proc, NEW d \in Proc,
         NEW op \in {"SEND", "SENDREC"}
  PROVE  /\ [lst EXCEPT ![p] = [op |-> op, dst |-> d]] \in Calls
         /\ [lst EXCEPT ![p] = NONE] \in Calls
         /\ [hnd EXCEPT ![p] = 0] \in [Proc -> 0 .. 1]
BY SMTT(60) DEF Calls, Sending

\* A call that ends in the failure of the assertion on q_link, or in an endless walk.
LEMMA EndsInPanic ==
  ASSUME NEW T \in Table, NEW Q, NEW p \in Proc, NEW X \in Table,
         \A x \in Proc : X[x].delivermsg = T[x].delivermsg,
         NEW lst \in Calls, NEW count \in [Proc -> 0 .. 1],
         NEW f, f = "link NULL" \/ (f = "walk endless" /\ Looped(X))
  PROVE  Ends(T, Q, p, X, "OK", f, lst, count)
<1>1. HandedNow(T, X, lst, count) \in [Proc -> 0 .. 1]
  BY NoneHanded
<1>4. "OK" \in Code
  BY DEF Code
<1>2. [X EXCEPT ![p].retreg = "OK"] \in Table
  BY <1>4, RetregSet
<1>5. Looped(X) => Looped([X EXCEPT ![p].retreg = "OK"])
  <2> DEFINE U == [X EXCEPT ![p].retreg = "OK"]
  <2>1. \A x \in Proc : SameFlagsOf(X, U, x)
    BY <1>4, RetregSet
  <2> HIDE DEF U
  <2>2. \A x \in Proc : ReceivesFromItself(X, x) => ReceivesFromItself(U, x)
    BY <2>1 DEF SameFlagsOf, ReceivesFromItself
  <2>3. Looped(X) => Looped(U)
    BY <2>2 DEF Looped
  <2> QED BY <2>3 DEF U
<1>3. f # NONE /\ f \in {NONE, "link NULL", "walk endless"} /\ (f = "walk endless" => Looped(X))
  BY IPCAssumption
<1> QED BY <1>1, <1>2, <1>3, <1>5 DEF Ends

\* SEND and SENDNB.
LEMMA SendEnds ==
  ASSUME NEW T, NEW Q, Good(T, Q), Awaited(T), NEW lst \in Calls, NEW hnd \in [Proc -> 0 .. 1],
         History(T, lst, hnd), NEW p \in Proc, NEW d \in Proc, p # d, Free(T, p),
         NEW non_blocking \in BOOLEAN
  PROVE  LET o == mini_send(T, p, d, non_blocking) IN
         Ends(T, Q, p, o.t, o.r, o.failed, [lst EXCEPT ![p] = [op |-> "SEND", dst |-> d]], [hnd EXCEPT ![p] = 0])
<1> DEFINE o == mini_send(T, p, d, non_blocking)
           lst1 == [lst EXCEPT ![p] = [op |-> "SEND", dst |-> d]]
           cnt == [hnd EXCEPT ![p] = 0]
<1>1. T \in Table /\ T[p].delivermsg = NONE /\ ~T[p].sending /\ ~T[p].receiving
  BY DEF Good, Free
<1>2. lst1 \in Calls /\ cnt \in [Proc -> 0 .. 1]
  BY LstType
<1>3. SendRefused(T, o) \/ SendDirect(T, p, d, o) \/ SendPanics(T, o) \/ SendQueued(T, Q, p, d, o)
  BY SendOutcome
<1>4. \A x \in Proc : Kept(T, T, x)
  BY DEF Kept
<1>5. \A e \in Proc : InOrder(Q[e], Q[e])
  BY SameInOrder
<1>11. "SEND" \in {"SEND", "SENDREC"} /\ "OK" \in Code
  BY DEF Code
<1> HIDE DEF o
<1>6. ASSUME SendRefused(T, o) PROVE Ends(T, Q, p, o.t, o.r, o.failed, lst1, cnt)
  <2>1. o.t = T /\ o.r \in Code /\ o.r # "OK" /\ o.failed = NONE
    BY <1>6 DEF SendRefused
  <2>2. /\ HandedNow(T, T, lst1, cnt) \in [Proc -> 0 .. 1]
        /\ History([T EXCEPT ![p].retreg = o.r], lst1, HandedNow(T, T, lst1, cnt))
    BY <2>1, <1>1, <1>4, <1>11, SentQuietly
  <2> HIDE DEF lst1, cnt
  <2> QED BY <2>1, <2>2, <1>2, <1>5, EndsWell, SMTT(60)
<1>7. ASSUME SendDirect(T, p, d, o) PROVE Ends(T, Q, p, o.t, o.r, o.failed, lst1, cnt)
  <2> DEFINE X == Handed(T, d, MessageOf(p))
  <2>1. /\ o.t = X /\ o.r = "OK" /\ o.failed = NONE
        /\ T[d].receiving /\ ~T[d].sending /\ T[d].delivermsg = NONE
    BY <1>7 DEF SendDirect
  <2>2. MessageOf(p) \in Message
    BY DEF MessageOf, Message
  <2>3. /\ Good(X, Q) /\ Awaited(X)
        /\ \A x \in Proc \ {d} : SameFlagsOf(T, X, x)
        /\ \A x \in Proc : X[x].retreg = T[x].retreg /\ X[x].alive = T[x].alive
        /\ ~X[d].sending /\ ~X[d].receiving /\ X[d].delivermsg = MessageOf(p)
    BY <2>1, <2>2, HandedStep, SMTT(60)
  <2> HIDE DEF X
  <2>4. X \in Table /\ ~X[p].sending /\ X[p].delivermsg = NONE /\ ~X[p].receiving
    BY <2>3, <1>1 DEF Good, SameFlagsOf
  <2>5. \A x \in Proc \ {p, d} : Kept(T, X, x)
    BY <2>3 DEF Kept, SameFlagsOf
  <2>6. /\ HandedNow(T, X, lst1, cnt) \in [Proc -> 0 .. 1]
        /\ History([X EXCEPT ![p].retreg = "OK"], lst1, HandedNow(T, X, lst1, cnt))
    BY <2>1, <2>3, <2>4, <2>5, <1>1, <1>11, SentDirectly
  <2> HIDE DEF lst1, cnt
  <2> QED BY <2>1, <2>3, <2>6, <1>2, <1>5, <1>11, EndsWell, SMTT(60)
<1>8. ASSUME SendPanics(T, o) PROVE Ends(T, Q, p, o.t, o.r, o.failed, lst1, cnt)
  <2>1. /\ o.failed = "link NULL" \/ (o.failed = "walk endless" /\ Looped(o.t))
        /\ o.r = "OK" /\ o.t \in Table
        /\ \A x \in Proc : o.t[x].delivermsg = T[x].delivermsg
    BY <1>8 DEF SendPanics
  <2> HIDE DEF lst1, cnt
  <2> QED BY <2>1, <1>1, <1>2, EndsInPanic
<1>9. ASSUME SendQueued(T, Q, p, d, o) PROVE Ends(T, Q, p, o.t, o.r, o.failed, lst1, cnt)
  <2> DEFINE X == o.t
             R == Joined(Q, p, d)
  <2>1. /\ o.r = "OK" /\ o.failed = NONE
        /\ Good(X, R) /\ Awaited(X) /\ \A e \in Proc : InOrder(Q[e], R[e])
        /\ X[p].sending /\ X[p].sendto_e = d /\ ~X[p].receiving /\ X[p].delivermsg = NONE
    BY <1>9 DEF SendQueued
  <2>2. \A x \in Proc \ {p} : Kept(T, X, x)
    BY <1>9 DEF SendQueued, Kept, SameFlagsOf
  <2> HIDE DEF X, R
  <2>3. X \in Table
    BY <2>1 DEF Good
  <2>4. /\ HandedNow(T, X, lst1, cnt) \in [Proc -> 0 .. 1]
        /\ History([X EXCEPT ![p].retreg = "OK"], lst1, HandedNow(T, X, lst1, cnt))
    BY <2>1, <2>2, <2>3, <1>1, <1>11, SentQuietly
  <2> HIDE DEF lst1, cnt
  <2>5. Ends(T, Q, p, X, "OK", NONE, lst1, cnt)
    BY <2>1, <2>4, <1>2, <1>11, EndsWell, SMTT(60)
  <2> QED BY <2>1, <2>5 DEF X
<1> QED BY <1>3, <1>6, <1>7, <1>8, <1>9, SMTT(60) DEF o

\* SENDREC.
LEMMA SendRecEnds ==
  ASSUME NEW T, NEW Q, Good(T, Q), Awaited(T), NEW lst \in Calls, NEW hnd \in [Proc -> 0 .. 1],
         History(T, lst, hnd), NEW p \in Proc, NEW d \in Proc, p # d, Free(T, p)
  PROVE  LET s == mini_send([T EXCEPT ![p].reply_pend = TRUE], p, d, FALSE)
             o == IF s.r = "OK" /\ s.failed = NONE THEN mini_receive(s.t, p, d) ELSE s
         IN  Ends(T, Q, p, o.t, o.r, o.failed,
                  [lst EXCEPT ![p] = [op |-> "SENDREC", dst |-> d]], [hnd EXCEPT ![p] = 0])
<1>12. PICK b \in BOOLEAN : b = TRUE
  OBVIOUS
<1> DEFINE V == Marked(T, p, b)
           s == mini_send(V, p, d, FALSE)
           o == IF s.r = "OK" /\ s.failed = NONE THEN mini_receive(s.t, p, d) ELSE s
           lst1 == [lst EXCEPT ![p] = [op |-> "SENDREC", dst |-> d]]
           cnt == [hnd EXCEPT ![p] = 0]
<1>1. T \in Table /\ T[p].delivermsg = NONE
  BY DEF Good, Free
<1>2. lst1 \in Calls /\ cnt \in [Proc -> 0 .. 1]
  BY LstType
<1>3. /\ Good(V, Q) /\ Awaited(V) /\ Free(V, p) /\ V[p].reply_pend = b
      /\ \A x \in Proc \ {p} : SameFlagsOf(T, V, x)
      /\ \A x \in Proc : /\ V[x].retreg = T[x].retreg /\ V[x].alive = T[x].alive
                         /\ V[x].delivermsg = T[x].delivermsg
  BY ReplyPendStep, SMTT(60)
<1> HIDE DEF V
<1>13. V[p].reply_pend
  BY <1>3, <1>12
<1>4. SendRefused(V, s) \/ SendDirect(V, p, d, s) \/ SendPanics(V, s) \/ SendQueued(V, Q, p, d, s)
  BY <1>3, SendOutcome
<1>5. \A e \in Proc : InOrder(Q[e], Q[e])
  BY SameInOrder
<1>11. "SENDREC" \in {"SEND", "SENDREC"} /\ "OK" \in Code /\ "ELOCKED" \in Code
  BY DEF Code
<1> HIDE DEF s
<1>6. ASSUME SendRefused(V, s) PROVE Ends(T, Q, p, o.t, o.r, o.failed, lst1, cnt)
  <2>1. s.t = V /\ s.r \in Code /\ s.r # "OK" /\ s.failed = NONE
    BY <1>6 DEF SendRefused
  <2>2. \A x \in Proc \ {p} : Kept(T, V, x)
    BY <1>3 DEF Kept, SameFlagsOf
  <2>3. V \in Table /\ V[p].delivermsg = NONE /\ ~V[p].sending /\ ~V[p].receiving
    BY <1>3 DEF Good, Free
  <2>4. /\ HandedNow(T, V, lst1, cnt) \in [Proc -> 0 .. 1]
        /\ History([V EXCEPT ![p].retreg = s.r], lst1, HandedNow(T, V, lst1, cnt))
    BY <2>1, <2>2, <2>3, <1>1, <1>11, SentQuietly
  <2> HIDE DEF lst1, cnt
  <2>5. Ends(T, Q, p, V, s.r, NONE, lst1, cnt)
    BY <2>1, <2>4, <1>2, <1>3, <1>5, EndsWell, SMTT(60)
  <2> QED BY <2>1, <2>5
<1>7. ASSUME SendDirect(V, p, d, s) PROVE Ends(T, Q, p, o.t, o.r, o.failed, lst1, cnt)
  <2> DEFINE H == Handed(V, d, MessageOf(p))
  <2>1. /\ s.t = H /\ s.r = "OK" /\ s.failed = NONE
        /\ V[d].alive /\ V[d].receiving /\ ~V[d].sending /\ V[d].delivermsg = NONE
    BY <1>7 DEF SendDirect
  <2>2. MessageOf(p) \in Message
    BY DEF MessageOf, Message
  <2>3. /\ Good(H, Q) /\ Awaited(H)
        /\ \A x \in Proc \ {d} : SameFlagsOf(V, H, x)
        /\ \A x \in Proc : H[x].retreg = V[x].retreg /\ H[x].alive = V[x].alive
        /\ ~H[d].sending /\ ~H[d].receiving /\ H[d].delivermsg = MessageOf(p)
    BY <2>1, <2>2, <1>3, HandedStep, SMTT(60)
  <2>4. o = mini_receive(H, p, d)
    BY <2>1
  <2> HIDE DEF H, o
  <2>5. H \in Table /\ Free(H, p) /\ H[p].reply_pend /\ H[d].alive
    BY <2>1, <2>3, <1>3, <1>13, SMTT(60) DEF Good, SameFlagsOf, Free
  <2>6. /\ o.failed = NONE
        /\ \/ o.t = H /\ o.r = "ELOCKED"
           \/ /\ o.t = Waits(H, p, d) /\ o.r = "OK"
              /\ Good(o.t, Q) /\ Awaited(o.t)
    BY <2>3, <2>4, <2>5, ReplyAwaited, SMTT(60)
  <2>7. Good(o.t, Q) /\ Awaited(o.t) /\ o.t \in Table /\ o.r \in Code
    BY <2>3, <2>6, <1>11 DEF Good
  <2>8. /\ \A x \in Proc \ {p} : o.t[x] = H[x]
        /\ o.t[p].sending = H[p].sending /\ o.t[p].delivermsg = H[p].delivermsg
    <3>1. CASE o.t = H
      BY <3>1
    <3>2. CASE o.t = Waits(H, p, d)
      <4>1. BeganToWait(H, o.t, p)
        BY <3>2, <2>5, WaitsIs
      <4> QED BY <4>1 DEF BeganToWait
    <3> QED BY <3>1, <3>2, <2>6
  <2>9. \A x \in Proc \ {p, d} : Kept(T, o.t, x)
    BY <2>3, <2>8, <1>3, SMTT(60) DEF Kept, SameFlagsOf
  <2>10. /\ ~o.t[p].sending /\ o.t[p].delivermsg = NONE
         /\ ~o.t[d].sending /\ ~o.t[d].receiving /\ o.t[d].delivermsg = MessageOf(p)
         /\ o.t[d].retreg = T[d].retreg /\ o.t[d].alive = T[d].alive
    BY <2>3, <2>5, <2>8, <1>3, SMTT(60) DEF Free
  <2>11. T[d].receiving /\ ~T[d].sending /\ T[d].delivermsg = NONE
    BY <2>1, <1>3 DEF SameFlagsOf
  <2>12. /\ HandedNow(T, o.t, lst1, cnt) \in [Proc -> 0 .. 1]
         /\ History([o.t EXCEPT ![p].retreg = o.r], lst1, HandedNow(T, o.t, lst1, cnt))
    BY <2>7, <2>9, <2>10, <2>11, <1>1, <1>11, SentDirectly
  <2> HIDE DEF lst1, cnt
  <2> QED BY <2>6, <2>7, <2>12, <1>2, <1>5, EndsWell, SMTT(60)
<1>8. ASSUME SendPanics(V, s) PROVE Ends(T, Q, p, o.t, o.r, o.failed, lst1, cnt)
  <2>1. /\ s.failed = "link NULL" \/ (s.failed = "walk endless" /\ Looped(s.t))
        /\ s.r = "OK" /\ s.t \in Table
        /\ \A x \in Proc : s.t[x].delivermsg = T[x].delivermsg
    BY <1>3, <1>8 DEF SendPanics
  <2>2. o = s
    BY <2>1, IPCAssumption
  <2> HIDE DEF lst1, cnt, o
  <2> QED BY <2>1, <2>2, <1>1, <1>2, EndsInPanic
<1>9. ASSUME SendQueued(V, Q, p, d, s) PROVE Ends(T, Q, p, o.t, o.r, o.failed, lst1, cnt)
  <2> DEFINE E == s.t
             R == Joined(Q, p, d)
  <2>1. /\ s.r = "OK" /\ s.failed = NONE /\ V[d].alive
        /\ Good(E, R) /\ Awaited(E) /\ \A e \in Proc : InOrder(Q[e], R[e])
        /\ E[p].sending /\ E[p].sendto_e = d /\ E[p].delivermsg = NONE /\ E[p].reply_pend
    BY <1>13, <1>9 DEF SendQueued
  <2>2. \A x \in Proc \ {p} : SameFlagsOf(V, E, x) /\ E[x].retreg = V[x].retreg
    BY <1>9 DEF SendQueued
  <2>3. o = mini_receive(E, p, d)
    BY <2>1
  <2> HIDE DEF E, R, o
  <2>4. E \in Table /\ E[d].alive
    BY <2>1, <2>2 DEF Good, SameFlagsOf
  <2>5. ReplyOutcome(E, R, p, d, o)
    BY <2>1, <2>3, <2>4, ReplyToCome
  <2>6. Good(o.t, R) /\ Awaited(o.t) /\ o.t \in Table /\ o.r \in Code
    BY <2>1, <2>5, <1>11 DEF Good, ReplyOutcome
  <2>7. /\ \A x \in Proc \ {p} : o.t[x] = E[x]
        /\ o.t[p].sending = E[p].sending /\ o.t[p].sendto_e = E[p].sendto_e
        /\ o.t[p].delivermsg = E[p].delivermsg
    <3>1. CASE o.t = E
      BY <3>1
    <3>2. CASE o.t = Waits(E, p, d)
      <4>1. BeganToWait(E, o.t, p)
        BY <3>2, <2>4, WaitsIs
      <4> QED BY <4>1 DEF BeganToWait
    <3> QED BY <3>1, <3>2, <2>5 DEF ReplyOutcome
  <2>8. \A x \in Proc \ {p} : Kept(T, o.t, x)
    BY <2>2, <2>7, <1>3, SMTT(60) DEF Kept, SameFlagsOf
  <2>9. o.t[p].sending /\ o.t[p].sendto_e = d /\ o.t[p].delivermsg = NONE
    BY <2>1, <2>7
  <2>10. /\ HandedNow(T, o.t, lst1, cnt) \in [Proc -> 0 .. 1]
         /\ History([o.t EXCEPT ![p].retreg = o.r], lst1, HandedNow(T, o.t, lst1, cnt))
    BY <2>6, <2>8, <2>9, <1>1, <1>11, SentQuietly
  <2> HIDE DEF lst1, cnt
  <2>11. CASE o.failed = NONE
    BY <2>1, <2>11, <2>6, <2>10, <1>2, EndsWell, SMTT(60)
  <2>12. CASE o.failed # NONE
    <3>1. o.r = "OK" /\ o.failed = "walk endless" /\ Looped(o.t)
      BY <2>12, <2>5 DEF ReplyOutcome
    <3>2. \A x \in Proc : o.t[x].delivermsg = T[x].delivermsg
      BY <2>8, <2>9, <1>1 DEF Kept
    <3> QED BY <3>1, <3>2, <2>6, <1>1, <1>2, EndsInPanic
  <2> QED BY <2>11, <2>12
<1> HIDE DEF lst1, cnt, o
<1>10. Ends(T, Q, p, o.t, o.r, o.failed, lst1, cnt)
  BY <1>4, <1>6, <1>7, <1>8, <1>9, SMTT(60)
<1> QED BY <1>10, <1>12 DEF lst1, cnt, o, s, V, Marked

\* RECEIVE.
LEMMA ReceiveEnds ==
  ASSUME NEW T, NEW Q, Good(T, Q), Awaited(T), NEW lst \in Calls, NEW hnd \in [Proc -> 0 .. 1],
         History(T, lst, hnd), NEW p \in Proc, NEW src \in Proc \cup {ANY}, Free(T, p)
  PROVE  LET o == mini_receive([T EXCEPT ![p].reply_pend = FALSE], p, src) IN
         Ends(T, Q, p, o.t, o.r, o.failed, [lst EXCEPT ![p] = NONE], hnd)
<1>1. PICK b \in BOOLEAN : b = FALSE
  OBVIOUS
<1> DEFINE V == Marked(T, p, b)
           o == mini_receive(V, p, src)
           lst1 == [lst EXCEPT ![p] = NONE]
<1>2. T \in Table /\ T[p].delivermsg = NONE
  BY DEF Good, Free
<1>3. lst1 \in Calls
  BY DEF Calls
<1>4. /\ Good(V, Q) /\ Awaited(V) /\ Free(V, p) /\ V[p].reply_pend = b
      /\ \A x \in Proc \ {p} : SameFlagsOf(T, V, x)
      /\ \A x \in Proc : /\ V[x].retreg = T[x].retreg /\ V[x].alive = T[x].alive
                         /\ V[x].delivermsg = T[x].delivermsg
  BY ReplyPendStep, SMTT(60)
<1> HIDE DEF V
<1>5. V \in Table /\ ~V[p].reply_pend /\ ~V[p].sending /\ V[p].delivermsg = NONE
  BY <1>1, <1>4 DEF Good, Free
<1>6. \A e \in Proc : InOrder(Q[e], Q[e])
  BY SameInOrder
<1>7. \A x \in Proc \ {p} : Kept(T, V, x)
  BY <1>4 DEF Kept, SameFlagsOf
<1>8. "OK" \in Code /\ "ELOCKED" \in Code /\ "EDEADSRCDST" \in Code
  BY DEF Code
<1>9. ASSUME NEW X, Good(X, Q), Awaited(X), NEW c \in Code, ~X[p].sending,
             \A x \in Proc \ {p} : Kept(T, X, x),
             X[p].delivermsg = NONE \/ Notified(X[p].delivermsg)
      PROVE  Ends(T, Q, p, X, c, NONE, lst1, hnd)
  <2>1. X \in Table
    BY <1>9 DEF Good
  <2>2. \A y \in Proc : \/ X[y].delivermsg = T[y].delivermsg
                        \/ Notified(X[y].delivermsg)
    BY <1>2, <1>9 DEF Kept
  <2>3. \A x \in Proc \ {p} : HistoryOf(X, lst, hnd, x)
    BY <1>9, HistoryFrame DEF History
  <2>4. /\ HandedNow(T, X, lst1, hnd) \in [Proc -> 0 .. 1]
        /\ History([X EXCEPT ![p].retreg = c], lst1, HandedNow(T, X, lst1, hnd))
    BY <2>1, <2>2, <2>3, <1>2, <1>9, CalledQuietly
  <2> HIDE DEF lst1
  <2> QED BY <2>4, <1>3, <1>6, <1>9, EndsWell, SMTT(60)
<1> DEFINE dead == src # ANY /\ ~V[IF src = ANY THEN p ELSE src].alive
<1>10. ASSUME dead PROVE Ends(T, Q, p, o.t, o.r, o.failed, lst1, hnd)
  <2>1. o.t = V /\ o.r = "EDEADSRCDST" /\ o.failed = NONE
    BY <1>10 DEF mini_receive, Done
  <2> HIDE DEF o, lst1
  <2> QED BY <2>1, <1>4, <1>5, <1>7, <1>8, <1>9, SMTT(60)
<1>11. ASSUME ~dead, has_pending_notify(V, p, src) # {} PROVE Ends(T, Q, p, o.t, o.r, o.failed, lst1, hnd)
  <2>1. o = ReceiveNotification(V, p, src)
    BY <1>5, <1>11 DEF mini_receive
  <2> HIDE DEF o, lst1
  <2>2. /\ o.r = "OK" /\ o.failed = NONE /\ Good(o.t, Q) /\ Awaited(o.t) /\ ~o.t[p].sending
        /\ Notified(o.t[p].delivermsg)
        /\ \A x \in Proc \ {p} : Kept(V, o.t, x)
    BY <2>1, <1>4, <1>11, NotificationTaken, SMTT(60)
  <2>3. \A x \in Proc \ {p} : Kept(T, o.t, x)
    BY <2>2, <1>7, KeptTwice
  <2> QED BY <2>2, <2>3, <1>8, <1>9
<1>12. ASSUME ~dead, has_pending_notify(V, p, src) = {}, Acceptable(V, p, src) # {}
       PROVE  Ends(T, Q, p, o.t, o.r, o.failed, lst1, hnd)
  <2>1. o = ReceiveQueued(V, p, src)
    BY <1>5, <1>12 DEF mini_receive
  <2> HIDE DEF o
  <2>2. FromQueue(V, Q, p, o)
    BY <2>1, <1>4, <1>12, QueuedTaken
  <2>3. PICK R : Good(o.t, R) /\ \A e \in Proc : InOrder(Q[e], R[e])
    BY <2>2 DEF FromQueue
  <2>4. PICK s \in Proc : /\ s # p /\ V[s].sending /\ V[s].sendto_e = p /\ V[s].delivermsg = NONE
                          /\ o.t[p].delivermsg = MessageOf(s)
                          /\ ~o.t[s].sending /\ o.t[s].receiving = V[s].receiving /\ o.t[s].delivermsg = NONE
                          /\ o.t[s].retreg = V[s].retreg
                          /\ \A x \in Proc \ {p, s} : Kept(V, o.t, x)
    BY <2>2 DEF FromQueue
  <2>5. o.t \in Table /\ Awaited(o.t) /\ ~o.t[p].sending /\ o.r = "OK" /\ o.failed = NONE
    BY <2>2, <2>3 DEF Good, FromQueue
  <2>6. /\ T[s].sending /\ T[s].sendto_e = p /\ T[s].delivermsg = NONE
        /\ o.t[s].receiving = T[s].receiving /\ o.t[s].retreg = T[s].retreg
    BY <2>4, <1>7 DEF Kept
  <2>7. \A x \in Proc \ {p, s} : Kept(T, o.t, x)
    BY <2>4, <1>7, KeptTwice
  <2>8. /\ HandedNow(T, o.t, lst1, hnd) \in [Proc -> 0 .. 1]
        /\ History([o.t EXCEPT ![p].retreg = "OK"], lst1, HandedNow(T, o.t, lst1, hnd))
    BY <2>4, <2>5, <2>6, <2>7, <1>2, <1>8, CalledTaking
  <2> HIDE DEF lst1
  <2>9. Ends(T, Q, p, o.t, "OK", NONE, lst1, hnd)
    BY <2>3, <2>5, <2>8, <1>3, <1>8, EndsWell, SMTT(60)
  <2> QED BY <2>5, <2>9
<1>13. ASSUME ~dead, has_pending_notify(V, p, src) = {}, Acceptable(V, p, src) = {}
       PROVE  Ends(T, Q, p, o.t, o.r, o.failed, lst1, hnd)
  <2>1. o = ReceiveBlocks(V, p, src)
    BY <1>13 DEF mini_receive
  <2> HIDE DEF o, lst1
  <2>4. CASE Endless(V, p, src)
    <3>1. Looped(V)
      BY <2>4, <1>4, EndlessOnSelf DEF Looped
    <3>3. o = Stuck(V)
      BY <2>1, <2>4 DEF ReceiveBlocks
    <3>4. Stuck(V).t = V /\ Stuck(V).r = "OK" /\ Stuck(V).failed = "walk endless"
      BY SMTT(60) DEF Stuck
    <3>2. o.t = V /\ o.r = "OK" /\ o.failed = "walk endless"
      BY <3>3, <3>4
    <3> QED BY <3>1, <3>2, <1>2, <1>3, <1>4, <1>5, EndsInPanic
  <2>2. CASE ~Endless(V, p, src) /\ deadlock("RECEIVE", V, p, src)
    <3>1. o.t = V /\ o.r = "ELOCKED" /\ o.failed = NONE
      BY <2>1, <2>2 DEF ReceiveBlocks, Done
    <3> QED BY <3>1, <1>4, <1>5, <1>7, <1>8, <1>9, SMTT(60)
  <2>3. CASE ~Endless(V, p, src) /\ ~deadlock("RECEIVE", V, p, src)
    <3> DEFINE X == Waits(V, p, src)
    <3>1. o.t = X /\ o.r = "OK" /\ o.failed = NONE
      BY <2>1, <2>3 DEF ReceiveBlocks, Done, Waits
    <3>2. src \in Proc => V[src].alive
      BY <1>13, IPCAssumption
    <3>3. Good(X, Q) /\ Awaited(X)
      <4>1. V[p].alive /\ ~V[p].sending /\ ~V[p].receiving /\ V[p].delivermsg = NONE
        BY <1>4 DEF Free
      <4> QED BY <4>1, <3>2, <2>3, <1>4, <1>5, <1>13, ReceiveBlocksStep DEF Waits
    <3>4. /\ \A x \in Proc \ {p} : X[x] = V[x]
          /\ ~X[p].sending /\ X[p].delivermsg = NONE
      <4>1. BeganToWait(V, X, p)
        BY <1>5, WaitsIs
      <4> HIDE DEF X
      <4> QED BY <4>1, <1>5 DEF BeganToWait
    <3> HIDE DEF X
    <3>5. \A x \in Proc \ {p} : Kept(T, X, x)
      BY <3>4, <1>7, SMTT(60) DEF Kept
    <3> QED BY <3>1, <3>3, <3>4, <3>5, <1>8, <1>9, SMTT(60)
  <2> QED BY <2>2, <2>3, <2>4
<1> HIDE DEF lst1, o, dead
<1>14. Ends(T, Q, p, o.t, o.r, o.failed, lst1, hnd)
  BY <1>10, <1>11, <1>12, <1>13
<1> QED BY <1>14, <1>1 DEF lst1, o, V, Marked

\* NOTIFY.
LEMMA NotifyEnds ==
  ASSUME NEW T, NEW Q, Good(T, Q), Awaited(T), NEW lst \in Calls, NEW hnd \in [Proc -> 0 .. 1],
         History(T, lst, hnd), NEW p \in Proc, NEW d \in Proc, p # d, Free(T, p)
  PROVE  LET o == mini_notify(T, p, d) IN
         Ends(T, Q, p, o.t, o.r, o.failed, [lst EXCEPT ![p] = NONE], hnd)
<1> DEFINE o == mini_notify(T, p, d)
           lst1 == [lst EXCEPT ![p] = NONE]
<1>1. T \in Table /\ ~T[p].sending
  BY DEF Good, Free
<1>2. lst1 \in Calls
  BY DEF Calls
<1>3. \A e \in Proc : InOrder(Q[e], Q[e])
  BY SameInOrder
<1>4. "OK" \in Code /\ "EDEADSRCDST" \in Code
  BY DEF Code
<1>5. ASSUME NEW X, Good(X, Q), Awaited(X), NEW c \in Code, ~X[p].sending,
             \A y \in Proc : \/ X[y].delivermsg = T[y].delivermsg
                             \/ Notified(X[y].delivermsg),
             \A x \in Proc \ {p} : HistoryOf(X, lst, hnd, x)
      PROVE  Ends(T, Q, p, X, c, NONE, lst1, hnd)
  <2>1. X \in Table
    BY <1>5 DEF Good
  <2>2. /\ HandedNow(T, X, lst1, hnd) \in [Proc -> 0 .. 1]
        /\ History([X EXCEPT ![p].retreg = c], lst1, HandedNow(T, X, lst1, hnd))
    BY <2>1, <1>1, <1>5, CalledQuietly
  <2> HIDE DEF lst1
  <2> QED BY <2>2, <1>2, <1>3, <1>5, EndsWell, SMTT(60)
<1>6. ASSUME ~T[d].alive PROVE Ends(T, Q, p, o.t, o.r, o.failed, lst1, hnd)
  <2>1. o.t = T /\ o.r = "EDEADSRCDST" /\ o.failed = NONE
    BY <1>6 DEF mini_notify, Done
  <2> HIDE DEF o, lst1
  <2> QED BY <2>1, <1>1, <1>4, <1>5 DEF History
<1>7. ASSUME T[d].alive, WILLRECEIVE(T, d, p), ~T[d].reply_pend
      PROVE  Ends(T, Q, p, o.t, o.r, o.failed, lst1, hnd)
  <2> DEFINE m == [src |-> p, notify |-> TRUE]
             X == Handed(T, d, m)
  <2>1. o.t = X /\ o.r = "OK" /\ o.failed = NONE
    BY <1>7 DEF mini_notify, Done
  <2>2. T[d].receiving /\ ~T[d].sending
    BY <1>7 DEF WILLRECEIVE
  <2>3. m \in Message
    BY DEF Message
  <2> HIDE DEF o, lst1, m
  <2>4. /\ Good(X, Q) /\ Awaited(X)
        /\ \A x \in Proc \ {d} : SameFlagsOf(T, X, x)
        /\ \A x \in Proc : X[x].retreg = T[x].retreg /\ X[x].alive = T[x].alive
        /\ ~X[d].sending /\ ~X[d].receiving /\ X[d].delivermsg = m
    BY <2>2, <2>3, HandedStep, SMTT(60)
  <2> HIDE DEF X
  <2>5. ~X[p].sending
    BY <2>4, <1>1 DEF SameFlagsOf
  <2>6. \A y \in Proc : \/ X[y].delivermsg = T[y].delivermsg
                        \/ Notified(X[y].delivermsg)
    BY <2>4 DEF SameFlagsOf, m, Notified
  <2>7. ASSUME NEW x \in Proc PROVE HistoryOf(X, lst, hnd, x)
    <3>1. HistoryOf(T, lst, hnd, x)
      BY DEF History
    <3>2. CASE x = d
      BY <3>1, <3>2, <2>2, <2>4 DEF HistoryOf
    <3>3. CASE x # d
      <4>1. Kept(T, X, x)
        BY <3>3, <2>4 DEF Kept, SameFlagsOf
      <4> QED BY <4>1, <3>1, HistoryFrame
    <3> QED BY <3>2, <3>3
  <2> QED BY <2>1, <2>4, <2>5, <2>6, <2>7, <1>4, <1>5, SMTT(60)
<1>8. ASSUME T[d].alive, ~WILLRECEIVE(T, d, p) \/ T[d].reply_pend
      PROVE  Ends(T, Q, p, o.t, o.r, o.failed, lst1, hnd)
  <2> DEFINE X == [T EXCEPT ![d].notify_pending = @ \cup {p}]
  <2>1. o = Done(X, "OK")
    BY <1>8 DEF mini_notify
  <2>2. Good(X, Q) /\ Awaited(X) /\ \A x \in Proc : Kept(T, X, x)
    BY <1>8, PendingStep
  <2> HIDE DEF X
  <2>3. o.t = X /\ o.r = "OK" /\ o.failed = NONE
    BY <2>1, SMTT(60) DEF Done
  <2> HIDE DEF o, lst1
  <2>4. \A x \in Proc \ {p} : HistoryOf(X, lst, hnd, x)
    BY <2>2, HistoryFrame DEF History
  <2>5. ~X[p].sending /\ \A y \in Proc : X[y].delivermsg = T[y].delivermsg
    BY <2>2, <1>1 DEF Kept
  <2> QED BY <2>2, <2>3, <2>4, <2>5, <1>4, <1>5, SMTT(60)
<1> HIDE DEF lst1, o
<1> QED BY <1>6, <1>7, <1>8, SMTT(60) DEF lst1, o

\* SYS_STATECTL.
LEMMA StatectlEnds ==
  ASSUME NEW T, NEW Q, Good(T, Q), Awaited(T), NEW lst \in Calls, NEW hnd \in [Proc -> 0 .. 1],
         History(T, lst, hnd), NEW p \in Proc, Free(T, p)
  PROVE  LET o == Done(clear_ipc_refs(T, p), "OK") IN
         Ends(T, Q, p, o.t, o.r, o.failed, [lst EXCEPT ![p] = NONE], hnd)
<1> DEFINE X == clear_ipc_refs(T, p)
           lst1 == [lst EXCEPT ![p] = NONE]
<1>1. T \in Table /\ ~T[p].sending
  BY DEF Good, Free
<1>2. lst1 \in Calls
  BY DEF Calls
<1>3. /\ \E R : Good(X, R) /\ \A e \in Proc : Thinned(Q[e], R[e])
      /\ \A y \in Proc : Freed(T, X, p, y) /\ P_BLOCKEDON(X, y) # p
  BY ClearRefsStep
<1> HIDE DEF X
<1>4. PICK R : Good(X, R) /\ \A e \in Proc : InOrder(Q[e], R[e])
  BY <1>3 DEF Thinned
<1>5. X \in Table /\ ~X[p].sending /\ \A y \in Proc : X[y].delivermsg = T[y].delivermsg
  BY <1>1, <1>3, <1>4 DEF Good, Freed
<1>6. Awaited(X)
  BY <1>3, FreedAwaited DEF Awaited
<1>7. \A x \in Proc \ {p} : HistoryOf(X, lst, hnd, x)
  <2>1. \A x \in Proc : BlockedOf(T, x) /\ HistoryOf(T, lst, hnd, x)
    BY DEF Good, Blocked, History
  <2> QED BY <2>1, <1>3, HistoryFreed
<1>8. "OK" \in Code
  BY DEF Code
<1>9. /\ HandedNow(T, X, lst1, hnd) \in [Proc -> 0 .. 1]
      /\ History([X EXCEPT ![p].retreg = "OK"], lst1, HandedNow(T, X, lst1, hnd))
  BY <1>1, <1>5, <1>7, <1>8, CalledQuietly
<1> HIDE DEF lst1
<1>10. Ends(T, Q, p, X, "OK", NONE, lst1, hnd)
  BY <1>2, <1>4, <1>6, <1>8, <1>9, EndsWell, SMTT(60)
<1>11. Done(X, "OK").t = X /\ Done(X, "OK").r = "OK" /\ Done(X, "OK").failed = NONE
  BY DEF Done
<1> QED BY <1>10, <1>11 DEF lst1, X

\* The message p was handed is copied to it.
LEMMA DeliverStep ==
  ASSUME NEW T, NEW Q, Good(T, Q), Awaited(T), NEW lst, NEW hnd,
         History(T, lst, hnd), NEW p \in Proc, ~T[p].sending, ~T[p].receiving, T[p].delivermsg # NONE
  PROVE  LET U == [T EXCEPT ![p].delivermsg = NONE, ![p].retreg = "OK"] IN
         U \in Table /\ Lasting(Q, U, lst, hnd)
<1> DEFINE r == [T[p] EXCEPT !.delivermsg = NONE, !.retreg = "OK"]
           U == [T EXCEPT ![p] = r]
<1>1. T \in Table /\ T[p] \in Slot
  BY DEF Good, Table
<1>2. [T EXCEPT ![p].delivermsg = NONE, ![p].retreg = "OK"] = U
  BY <1>1 DEF Table
<1>3. r \in Slot
  BY <1>1, SlotUpdate
<1>4. /\ r.alive = T[p].alive /\ ~r.sending /\ ~r.receiving /\ r.delivermsg = NONE /\ r.retreg = "OK"
      /\ r.caller_q = T[p].caller_q /\ r.q_link = T[p].q_link
  BY <1>1 DEF Slot
<1> HIDE DEF r
<1>5. U \in Table /\ U[p] = r /\ \A x \in Proc \ {p} : U[x] = T[x]
  BY <1>1, <1>3, TableUpdate, SMTT(60)
<1> HIDE DEF U
<1>6. Good(U, Q) /\ Awaited(U)
  <2>1. ~U[p].sending /\ ~U[p].receiving /\ U[p].alive = T[p].alive
    BY <1>4, <1>5
  <2>2. \A x \in Proc \ {p} : SameFlagsOf(T, U, x)
    BY <1>5 DEF SameFlagsOf
  <2>3. \A x \in Proc : U[x].caller_q = T[x].caller_q /\ U[x].q_link = T[x].q_link
    BY <1>4, <1>5
  <2> QED BY <2>1, <2>2, <2>3, <1>5, RestStep
<1>7. ASSUME NEW x \in Proc PROVE HistoryOf(U, lst, hnd, x)
  <2>1. HistoryOf(T, lst, hnd, x)
    BY DEF History
  <2>2. CASE x = p
    BY <2>1, <2>2, <1>4, <1>5 DEF HistoryOf
  <2>3. CASE x # p
    BY <2>1, <2>3, <1>5 DEF HistoryOf
  <2> QED BY <2>2, <2>3
<1>8. \A e \in Proc : InOrder(Q[e], Q[e])
  BY SameInOrder
<1>9. Lasting(Q, U, lst, hnd)
  BY <1>6, <1>7, <1>8 DEF Lasting, History
<1> QED BY <1>2, <1>5, <1>9

\* The end of process p.
LEMMA EndStep ==
  ASSUME NEW T, NEW Q, Good(T, Q), Awaited(T), NEW lst, NEW hnd, History(T, lst, hnd), NEW p \in Proc
  PROVE  LET U == clear_ipc_refs(clear_ipc([T EXCEPT ![p].alive = FALSE], p), p) IN
         U \in Table /\ Lasting(Q, U, lst, hnd)
<1> DEFINE D == [T EXCEPT ![p].alive = FALSE]
           W == clear_ipc(D, p)
           U == clear_ipc_refs(W, p)
<1>1. /\ D \in Table /\ Links(D, Q) /\ Members(D, Q) /\ Acyclic(D) /\ Wakeful(D)
      /\ D[p].sending => D[p].sendto_e \in Proc
      /\ \A y \in Proc \ {p} : D[y] = T[y] /\ BlockedOf(D, y)
      /\ ~D[p].alive /\ D[p].delivermsg = T[p].delivermsg
  BY DeadIs
<1> HIDE DEF D
<1>2. /\ \E R : Good(W, R) /\ \A e \in Proc : Thinned(Q[e], R[e])
      /\ \A y \in Proc \ {p} : SameFlagsOf(D, W, y)
      /\ \A y \in Proc : W[y].retreg = D[y].retreg
      /\ ~W[p].sending /\ ~W[p].receiving
      /\ W[p].alive = D[p].alive /\ W[p].delivermsg = D[p].delivermsg
  BY <1>1, ClearIpcStep
<1> HIDE DEF W
<1>3. PICK R1 : Good(W, R1) /\ \A e \in Proc : Thinned(Q[e], R1[e])
  BY <1>2
<1>4. /\ \E R : Good(U, R) /\ \A e \in Proc : Thinned(R1[e], R[e])
      /\ \A y \in Proc : Freed(W, U, p, y) /\ P_BLOCKEDON(U, y) # p
  BY <1>3, ClearRefsStep
<1> HIDE DEF U
<1>5. PICK R2 : Good(U, R2) /\ \A e \in Proc : Thinned(R1[e], R2[e])
  BY <1>4
<1>6. \A e \in Proc : InOrder(Q[e], R2[e])
  <2>1. ASSUME NEW e \in Proc PROVE InOrder(Q[e], R2[e])
    <3>1. Q[e] \in Seq(Proc) /\ R1[e] \in Seq(Proc) /\ R2[e] \in Seq(Proc)
      BY <1>3, <1>5 DEF Good, Links
    <3>2. Thinned(Q[e], R1[e]) /\ Thinned(R1[e], R2[e])
      BY <1>3, <1>5
    <3>3. Thinned(Q[e], R2[e])
      BY <3>1, <3>2, ThinnedTwice
    <3> QED BY <3>3 DEF Thinned
  <2> QED BY <2>1
<1>7. \A x \in Proc \ {p} : Kept(T, W, x) /\ P_BLOCKEDON(W, x) = P_BLOCKEDON(T, x)
  <2>1. ASSUME NEW x \in Proc \ {p}
        PROVE  Kept(T, W, x) /\ P_BLOCKEDON(W, x) = P_BLOCKEDON(T, x)
    <3>1. D[x] = T[x] /\ SameFlagsOf(D, W, x) /\ W[x].retreg = D[x].retreg
      BY <1>1, <1>2
    <3>2. SameFlagsOf(T, W, x) /\ W[x].retreg = T[x].retreg
      BY <3>1 DEF SameFlagsOf
    <3>3. P_BLOCKEDON(W, x) = P_BLOCKEDON(T, x)
      BY <3>2 DEF SameFlagsOf, P_BLOCKEDON
    <3> QED BY <3>2, <3>3, KeptFlags
  <2> QED BY <2>1
<1>8. P_BLOCKEDON(W, p) = NONE
  BY <1>2 DEF P_BLOCKEDON
<1>9. \A y \in Proc : P_BLOCKEDON(W, y) \in Proc \ {p} => W[P_BLOCKEDON(W, y)].alive
  BY <1>7, <1>8, IPCAssumption DEF Awaited, Kept
<1>10. Awaited(U)
  BY <1>4, <1>9, FreedAwaited
<1>11. ASSUME NEW x \in Proc PROVE HistoryOf(U, lst, hnd, x)
  <2>1. HistoryOf(T, lst, hnd, x)
    BY DEF History
  <2>2. HistoryOf(W, lst, hnd, x)
    <3>1. CASE x = p
      BY <3>1, <2>1, <1>1, <1>2 DEF HistoryOf
    <3>2. CASE x # p
      BY <3>2, <2>1, <1>7, HistoryFrame
    <3> QED BY <3>1, <3>2
  <2>3. BlockedOf(W, x)
    BY <1>3 DEF Good, Blocked
  <2> QED BY <2>2, <2>3, <1>4, HistoryFreed, SMTT(60)
<1>12. U \in Table
  BY <1>5 DEF Good
<1>13. Lasting(Q, U, lst, hnd)
  BY <1>5, <1>6, <1>10, <1>11, SMTT(60) DEF Lasting, History
<1> QED BY <1>12, <1>13 DEF U, W, D

-----------------------------------------------------------------------------
(* The invariant *)

\* The table at boot: nobody is blocked and all queues are empty.
LEMMA BootTable ==
  ASSUME NEW T \in Table,
         \A x \in Proc : /\ ~T[x].sending /\ ~T[x].receiving
                         /\ T[x].caller_q = NULL
  PROVE  Good(T, [d \in Proc |-> << >>]) /\ Awaited(T)
<1> DEFINE Q == [d \in Proc |-> << >>]
<1>1. \A x \in Proc : P_BLOCKEDON(T, x) = NONE
  BY DEF P_BLOCKEDON
<1>2. Q \in [Proc -> Seq(Proc)] /\ \A d \in Proc : Len(Q[d]) = 0
  BY SMTT(60)
<1> HIDE DEF Q
<1>3. Acyclic(T)
  <2> SUFFICES ASSUME NEW S \in SUBSET Proc, S # {} PROVE \E x \in S : P_BLOCKEDON(T, x) \notin S
    BY DEF Acyclic
  <2>1. PICK x \in S : TRUE
    OBVIOUS
  <2>2. P_BLOCKEDON(T, x) = NONE
    BY <1>1
  <2>3. NONE \notin S
    BY IPCAssumption
  <2> QED BY <2>1, <2>2, <2>3, SMTT(60)
<1>4. Blocked(T) /\ Wakeful(T)
  BY DEF Blocked, BlockedOf, Wakeful
<1>5. Links(T, Q)
  <2>1. \A d \in Proc : T[d].caller_q = At(Q[d], 1)
    BY <1>2, SMTT(60) DEF At
  <2>2. \A d \in Proc : 1 .. Len(Q[d]) = {}
    BY <1>2, SMTT(60)
  <2> QED BY <2>1, <2>2, <1>2 DEF Links
<1>6. Members(T, Q)
  BY <1>2, SMTT(60) DEF Members, In
<1>7. Awaited(T)
  BY <1>1, IPCAssumption DEF Awaited
<1> QED BY <1>3, <1>4, <1>5, <1>6, <1>7, SMTT(60) DEF Good, Q

\* The invariant holds at boot.
LEMMA InitIInv == Init => IInv
<1> SUFFICES ASSUME Init PROVE IInv
  OBVIOUS
<1>1. \A x \in Proc : /\ proc[x] \in Slot
                      /\ ~proc[x].sending /\ ~proc[x].receiving /\ proc[x].caller_q = NULL
                      /\ proc[x].delivermsg = NONE
  BY DEF Init, Slot, Code
<1>2. proc \in Table
  BY <1>1 DEF Table, Init
<1>3. Good(proc, [d \in Proc |-> << >>]) /\ Awaited(proc)
  BY <1>1, <1>2, BootTable
<1>4. History(proc, last, handed)
  <2>1. \A x \in Proc : last[x] = NONE
    BY DEF Init
  <2> QED BY <2>1, <1>1, HistoryNone DEF History
<1>5. TypeOK
  BY <1>2, SMTT(60) DEF TypeOK, Init
<1>6. AssertionsHold /\ panic # "walk endless"
  BY IPCAssumption DEF AssertionsHold, Init
<1> QED BY <1>3, <1>4, <1>5, <1>6 DEF IInv

\* A step preserves the invariant, and the order in the queues Q.
Preserves(Q) ==
  /\ TypeOK' /\ AssertionsHold'
  /\ panic' = NONE => Lasting(Q, proc', last', handed')
  /\ panic' = "walk endless" => Looped(proc')

\* A call that ends as shown above preserves the invariant.
LEMMA TrapStep ==
  ASSUME NEW Q, NEW p, NEW STATE X, NEW STATE c, NEW STATE f, NEW STATE lst, NEW STATE count,
         Ends(proc, Q, p, X, c, f, lst, count),
         proc' = [X EXCEPT ![p].retreg = c], panic' = f, last' = lst,
         handed' = HandedNow(proc, X, lst, count)
  PROVE  Preserves(Q)
<1>1. f \in {NONE, "link NULL", "walk endless"} /\ f \notin {"no message handed", "sender alive"}
  BY IPCAssumption DEF Ends
<1>2. TypeOK'
  BY <1>1 DEF Ends, TypeOK, Calls
<1>3. AssertionsHold'
  BY <1>1 DEF AssertionsHold
<1>4. panic' = NONE => Lasting(Q, proc', last', handed')
  BY DEF Ends
<1>5. panic' = "walk endless" => Looped(proc')
  BY DEF Ends
<1> QED BY <1>2, <1>3, <1>4, <1>5 DEF Preserves

\* What a process in user mode may rely on.
LEMMA RunningIs ==
  ASSUME IInv, NEW p \in Proc, Running(p)
  PROVE  /\ panic = NONE /\ Free(proc, p) /\ Awaited(proc) /\ History(proc, last, handed)
         /\ last \in Calls /\ handed \in [Proc -> 0 .. 1]
BY DEF IInv, Running, Runnable, Free, TypeOK, Calls

\* One lemma for each action.
LEMMA SendStep ==
  ASSUME IInv, NEW Q, Good(proc, Q), NEW p \in Proc, NEW d \in Proc, Send(p, d)
  PROVE  Preserves(Q)
<1> DEFINE o == mini_send(proc, p, d, FALSE)
           lst == [last EXCEPT ![p] = [op |-> "SEND", dst |-> d]]
           cnt == [handed EXCEPT ![p] = 0]
<1>1. Running(p) /\ p # d
  BY DEF Send, Sent
<1>2. PICK nb \in BOOLEAN : nb = FALSE
  OBVIOUS
<1>3. Ends(proc, Q, p, o.t, o.r, o.failed, lst, cnt)
  <2>1. LET s == mini_send(proc, p, d, nb) IN Ends(proc, Q, p, s.t, s.r, s.failed, lst, cnt)
    BY <1>1, RunningIs, SendEnds
  <2> HIDE DEF lst, cnt
  <2> QED BY <2>1, <1>2
<1>4. /\ proc' = [o.t EXCEPT ![p].retreg = o.r] /\ panic' = o.failed /\ last' = lst
      /\ handed' = HandedNow(proc, o.t, lst, cnt)
  BY DEF Send, Sent, Trapped, HandedNow
<1> HIDE DEF o, lst, cnt
<1> QED BY <1>3, <1>4, TrapStep, SMTT(60)

\* SENDNB preserves the invariant.
LEMMA SendNBStep ==
  ASSUME IInv, NEW Q, Good(proc, Q), NEW p \in Proc, NEW d \in Proc, SendNB(p, d)
  PROVE  Preserves(Q)
<1> DEFINE o == mini_send(proc, p, d, TRUE)
           lst == [last EXCEPT ![p] = [op |-> "SEND", dst |-> d]]
           cnt == [handed EXCEPT ![p] = 0]
<1>1. Running(p) /\ p # d
  BY DEF SendNB, Sent
<1>2. PICK nb \in BOOLEAN : nb = TRUE
  OBVIOUS
<1>3. Ends(proc, Q, p, o.t, o.r, o.failed, lst, cnt)
  <2>1. LET s == mini_send(proc, p, d, nb) IN Ends(proc, Q, p, s.t, s.r, s.failed, lst, cnt)
    BY <1>1, RunningIs, SendEnds
  <2> HIDE DEF lst, cnt
  <2> QED BY <2>1, <1>2
<1>4. /\ proc' = [o.t EXCEPT ![p].retreg = o.r] /\ panic' = o.failed /\ last' = lst
      /\ handed' = HandedNow(proc, o.t, lst, cnt)
  BY DEF SendNB, Sent, Trapped, HandedNow
<1> HIDE DEF o, lst, cnt
<1> QED BY <1>3, <1>4, TrapStep

\* SENDREC preserves the invariant, whether its first half blocks, is refused or goes through.
LEMMA SendRecStep ==
  ASSUME IInv, NEW Q, Good(proc, Q), NEW p \in Proc, NEW d \in Proc, SendRec(p, d)
  PROVE  Preserves(Q)
<1> DEFINE s == mini_send([proc EXCEPT ![p].reply_pend = TRUE], p, d, FALSE)
           o == IF s.r = "OK" /\ s.failed = NONE THEN mini_receive(s.t, p, d) ELSE s
           lst == [last EXCEPT ![p] = [op |-> "SENDREC", dst |-> d]]
           cnt == [handed EXCEPT ![p] = 0]
<1>1. Sent(p, "SENDREC", d, o)
  BY DEF SendRec
<1> HIDE DEF s
<1>2. Running(p) /\ p # d
  BY <1>1 DEF Sent
<1>3. Ends(proc, Q, p, o.t, o.r, o.failed, lst, cnt)
  BY <1>2, RunningIs, SendRecEnds DEF s
<1>4. /\ proc' = [o.t EXCEPT ![p].retreg = o.r] /\ panic' = o.failed /\ last' = lst
      /\ handed' = HandedNow(proc, o.t, lst, cnt)
  <2> HIDE DEF o
  <2> QED BY <1>1 DEF Sent, Trapped, HandedNow
<1> HIDE DEF o, lst, cnt
<1> QED BY <1>3, <1>4, TrapStep

\* RECEIVE preserves the invariant.
LEMMA ReceiveStep ==
  ASSUME IInv, NEW Q, Good(proc, Q), NEW p \in Proc, NEW src \in Proc \cup {ANY}, Receive(p, src)
  PROVE  Preserves(Q)
<1> DEFINE o == mini_receive([proc EXCEPT ![p].reply_pend = FALSE], p, src)
           lst == [last EXCEPT ![p] = NONE]
<1>1. Called(p, o)
  BY DEF Receive
<1>2. Running(p)
  BY <1>1 DEF Called
<1>3. Ends(proc, Q, p, o.t, o.r, o.failed, lst, handed)
  BY <1>1, <1>2, RunningIs, ReceiveEnds
<1> HIDE DEF o
<1>4. /\ proc' = [o.t EXCEPT ![p].retreg = o.r] /\ panic' = o.failed /\ last' = lst
      /\ handed' = HandedNow(proc, o.t, lst, handed)
  BY <1>1 DEF Called, Trapped, HandedNow
<1> HIDE DEF lst
<1> QED BY <1>3, <1>4, TrapStep

\* NOTIFY preserves the invariant.
LEMMA NotifyStep ==
  ASSUME IInv, NEW Q, Good(proc, Q), NEW p \in Proc, NEW d \in Proc, Notify(p, d)
  PROVE  Preserves(Q)
<1> DEFINE o == mini_notify(proc, p, d)
           lst == [last EXCEPT ![p] = NONE]
<1>1. Called(p, o) /\ p # d
  BY DEF Notify
<1>2. Running(p)
  BY <1>1 DEF Called
<1>3. Ends(proc, Q, p, o.t, o.r, o.failed, lst, handed)
  BY <1>1, <1>2, RunningIs, NotifyEnds, SMTT(60)
<1> HIDE DEF o
<1>4. /\ proc' = [o.t EXCEPT ![p].retreg = o.r] /\ panic' = o.failed /\ last' = lst
      /\ handed' = HandedNow(proc, o.t, lst, handed)
  BY <1>1 DEF Called, Trapped, HandedNow
<1> HIDE DEF lst
<1> QED BY <1>3, <1>4, TrapStep, SMTT(60)

\* SYS_STATE_CLEAR_IPC_REFS preserves the invariant.
LEMMA StatectlStep ==
  ASSUME IInv, NEW Q, Good(proc, Q), NEW p \in Proc, do_statectl(p)
  PROVE  Preserves(Q)
<1> DEFINE o == Done(clear_ipc_refs(proc, p), "OK")
           lst == [last EXCEPT ![p] = NONE]
<1>1. Called(p, o)
  BY DEF do_statectl
<1>2. Running(p)
  BY <1>1 DEF Called
<1>3. Ends(proc, Q, p, o.t, o.r, o.failed, lst, handed)
  BY <1>2, RunningIs, StatectlEnds
<1> HIDE DEF o
<1>4. /\ proc' = [o.t EXCEPT ![p].retreg = o.r] /\ panic' = o.failed /\ last' = lst
      /\ handed' = HandedNow(proc, o.t, lst, handed)
  BY <1>1 DEF Called, Trapped, HandedNow
<1> HIDE DEF lst
<1> QED BY <1>3, <1>4, TrapStep

\* Handing the message to the process preserves the invariant.
LEMMA DelivermsgStep ==
  ASSUME IInv, NEW Q, Good(proc, Q), NEW p \in Proc, delivermsg(p)
  PROVE  Preserves(Q)
<1>1. /\ panic = NONE /\ ~proc[p].sending /\ ~proc[p].receiving /\ proc[p].delivermsg # NONE
      /\ proc' = [proc EXCEPT ![p].delivermsg = NONE, ![p].retreg = "OK"]
      /\ panic' = panic /\ last' = last /\ handed' = handed
  BY DEF delivermsg, Runnable
<1>2. Awaited(proc) /\ History(proc, last, handed) /\ TypeOK /\ AssertionsHold
  BY <1>1 DEF IInv
<1>3. proc' \in Table /\ Lasting(Q, proc', last, handed)
  BY <1>1, <1>2, DeliverStep
<1>4. panic' # "walk endless"
  BY <1>1, IPCAssumption
<1> QED BY <1>1, <1>2, <1>3, <1>4 DEF Preserves, TypeOK, AssertionsHold

\* The end of a process preserves the invariant.
LEMMA ClearEndpointStep ==
  ASSUME IInv, NEW Q, Good(proc, Q), NEW p \in Proc, clear_endpoint(p)
  PROVE  Preserves(Q)
<1>1. /\ panic = NONE
      /\ proc' = clear_ipc_refs(clear_ipc([proc EXCEPT ![p].alive = FALSE], p), p)
      /\ panic' = panic /\ last' = last /\ handed' = handed
  BY DEF clear_endpoint
<1>2. Awaited(proc) /\ History(proc, last, handed) /\ TypeOK /\ AssertionsHold
  BY <1>1 DEF IInv
<1>3. proc' \in Table /\ Lasting(Q, proc', last, handed)
  BY <1>1, <1>2, EndStep
<1>4. panic' # "walk endless"
  BY <1>1, IPCAssumption
<1> QED BY <1>1, <1>2, <1>3, <1>4 DEF Preserves, TypeOK, AssertionsHold

\* Every step of the kernel preserves the invariant.
LEMMA NextPreserves ==
  ASSUME IInv, NEW Q, Good(proc, Q), Next
  PROVE  Preserves(Q)
<1>1. PICK p \in Proc :
        \/ \E d \in Proc : Send(p, d) \/ SendNB(p, d) \/ SendRec(p, d) \/ Notify(p, d)
        \/ \E src \in Proc \cup {ANY} : Receive(p, src)
        \/ delivermsg(p) \/ clear_endpoint(p) \/ do_statectl(p)
  BY DEF Next
<1>2. ASSUME NEW d \in Proc, Send(p, d) \/ SendNB(p, d) \/ SendRec(p, d) \/ Notify(p, d) PROVE Preserves(Q)
  BY <1>2, SendStep, SendNBStep, SendRecStep, NotifyStep, SMTT(60)
<1>3. ASSUME NEW src \in Proc \cup {ANY}, Receive(p, src) PROVE Preserves(Q)
  BY <1>3, ReceiveStep
<1>4. CASE delivermsg(p)
  BY <1>4, DelivermsgStep
<1>5. CASE clear_endpoint(p)
  BY <1>5, ClearEndpointStep, SMTT(60)
<1>6. CASE do_statectl(p)
  BY <1>6, StatectlStep
<1> QED BY <1>1, <1>2, <1>3, <1>4, <1>5, <1>6, SMTT(60)

\* A kernel that has panicked stops.
LEMMA PanicStops == Next => panic = NONE
BY DEF Next, Send, SendNB, SendRec, Notify, Receive, delivermsg, clear_endpoint, do_statectl,
       Sent, Called, Running, Runnable

\* Every step preserves the invariant; after a panic there is none.
LEMMA StepIInv == IInv /\ [Next]_vars => IInv'
<1> SUFFICES ASSUME IInv, [Next]_vars PROVE IInv'
  OBVIOUS
<1>1. CASE Next
  <2>1. PICK Q : Good(proc, Q)
    BY <1>1, PanicStops DEF IInv
  <2>2. Preserves(Q)
    BY <1>1, <2>1, NextPreserves
  <2>3. panic' = NONE => (\E R : Good(proc', R)) /\ Awaited(proc') /\ History(proc', last', handed')
    BY <2>2 DEF Preserves, Lasting
  <2>4. panic' = "walk endless" => Looped(proc')
    BY <2>2 DEF Preserves
  <2> QED BY <2>2, <2>3, <2>4 DEF IInv, Preserves
<1>2. CASE UNCHANGED vars
  BY <1>2 DEF IInv, vars, TypeOK, AssertionsHold
<1> QED BY <1>1, <1>2

\* The inductive invariant.
THEOREM Invariance == Spec => []IInv
BY InitIInv, StepIInv, PTL DEF Spec

-----------------------------------------------------------------------------
(* The properties *)

\* The process table and the history of calls keep their types, and a send is
\* handed over at most once.
THEOREM KernelTypes == Spec => []TypeOK
<1>1. IInv => TypeOK
  BY DEF IInv
<1> QED BY <1>1, Invariance, PTL

\* deadlock() lets no circle of waiting processes come about but that of a process
\* that receives from itself, and only such a process makes its walk endless.
THEOREM NoCycles == Spec => []NoWaitCycle
<1>1. IInv => NoWaitCycle
  <2>1. ASSUME IInv, panic = NONE, NEW p \in Proc, NEW k \in 1 .. NR_PROCS, BlockedChain(proc, p)[k] = p
        PROVE  ReceivesFromItself(proc, p)
    <3>1. proc \in Table /\ Acyclic(proc) /\ Blocked(proc)
      BY <2>1 DEF IInv, Good
    <3>2. P_BLOCKEDON(proc, p) = p
      BY <3>1, <2>1, AcyclicChain
    <3> QED BY <3>1, <3>2, SelfReceives
  <2>2. ASSUME IInv, panic = "walk endless" PROVE \E p \in Proc : ReceivesFromItself(proc, p)
    BY <2>2 DEF IInv, Looped
  <2> QED BY <2>1, <2>2 DEF NoWaitCycle
<1> QED BY <1>1, Invariance, PTL

\* A process that waits in mini_receive has nothing to take.
THEOREM NoWakeupLost == Spec => []NoLostWakeup
<1>1. IInv => NoLostWakeup
  <2> SUFFICES ASSUME IInv, panic = NONE, NEW p \in Proc, proc[p].receiving, ~proc[p].sending
               PROVE  /\ Acceptable(proc, p, proc[p].getfrom_e) = {}
                      /\ \/ proc[p].reply_pend /\ proc[p].getfrom_e # ANY
                         \/ has_pending_notify(proc, p, proc[p].getfrom_e) = {}
    BY DEF NoLostWakeup
  <2>1. PICK Q : Good(proc, Q)
    BY DEF IInv
  <2>2. /\ \A x \in Proc : proc[x].sending /\ proc[x].sendto_e = p => proc[p].getfrom_e \notin {ANY, x}
        /\ proc[p].reply_pend \/ \A x \in proc[p].notify_pending : proc[p].getfrom_e \notin {ANY, x}
    BY <2>1 DEF Good, Wakeful
  <2>3. Acceptable(proc, p, proc[p].getfrom_e) = {}
    BY <2>1, <2>2, AcceptableIs
  <2>4. proc[p].reply_pend \/ has_pending_notify(proc, p, proc[p].getfrom_e) = {}
    BY <2>2 DEF has_pending_notify
  <2>5. proc[p].reply_pend => proc[p].getfrom_e # ANY
    BY <2>1 DEF Good, Blocked, BlockedOf
  <2> QED BY <2>3, <2>4, <2>5
<1> QED BY <1>1, Invariance, PTL

\* The caller queues hold the blocked senders, each once, and no dead process.
THEOREM QueuesAreSenders == Spec => []QueueIsSenders
<1>1. IInv => QueueIsSenders
  <2> SUFFICES ASSUME IInv, panic = NONE, NEW d \in Proc
               PROVE  /\ Range(Queue(proc, d)) = {p \in Proc : proc[p].sending /\ proc[p].sendto_e = d}
                      /\ \A i, j \in DOMAIN Queue(proc, d) : Queue(proc, d)[i] = Queue(proc, d)[j] => i = j
                      /\ \A i \in DOMAIN Queue(proc, d) : proc[Queue(proc, d)[i]].alive
    BY DEF QueueIsSenders
  <2>1. PICK Q : Good(proc, Q)
    BY DEF IInv
  <2>2. Queue(proc, d) = Q[d] /\ Q[d] \in Seq(Proc) /\ Distinct(Q[d])
    BY <2>1, QueueOf, LinksDistinct DEF Good
  <2>3. DOMAIN Q[d] = 1 .. Len(Q[d]) /\ \A i \in 1 .. Len(Q[d]) : Q[d][i] \in Proc
    BY <2>2, SMTT(60)
  <2>4. \A p \in Proc : (proc[p].sending /\ proc[p].sendto_e = d) <=> \E i \in 1 .. Len(Q[d]) : Q[d][i] = p
    BY <2>1 DEF Good, Members, In
  <2>5. Range(Q[d]) = {p \in Proc : proc[p].sending /\ proc[p].sendto_e = d}
    BY <2>3, <2>4, SMTT(60) DEF Range
  <2>6. \A i \in 1 .. Len(Q[d]) : proc[Q[d][i]].alive
    <3>1. \A i \in 1 .. Len(Q[d]) : proc[Q[d][i]].sending
      BY <2>3, <2>4
    <3> QED BY <3>1, <2>1, <2>3 DEF Good, Blocked, BlockedOf
  <2> QED BY <2>2, <2>3, <2>5, <2>6, SMTT(60) DEF Distinct
<1> QED BY <1>1, Invariance, PTL

\* What a send returns is what happened to its message.
THEOREM SendsTellTheTruth == Spec => []SentIsDelivered
<1>1. IInv => SentIsDelivered
  <2> SUFFICES ASSUME IInv, panic = NONE, NEW p \in Proc, proc[p].alive, last[p] # NONE, ~proc[p].sending
               PROVE  /\ proc[p].retreg = "OK" => handed[p] = 1
                      /\ proc[p].retreg # "OK" /\ last[p].op = "SEND" => handed[p] = 0
    BY DEF SentIsDelivered
  <2>1. HistoryOf(proc, last, handed, p)
    BY DEF IInv, History
  <2> QED BY <2>1 DEF HistoryOf
<1> QED BY <1>1, Invariance, PTL

\* clear_ipc_refs leaves none blocked on a process that is gone.
THEOREM DeadAreNotAwaited == Spec => []NoneWaitsForDead
<1>1. IInv => NoneWaitsForDead
  BY DEF IInv, NoneWaitsForDead, Awaited
<1> QED BY <1>1, Invariance, PTL

\* The assertions in mini_send and mini_receive on a second message and on a
\* dead sender hold.
THEOREM AssertionsNeverFail == Spec => []AssertionsHold
<1>1. IInv => AssertionsHold
  BY DEF IInv
<1> QED BY <1>1, Invariance, PTL

\* No step changes the order in which processes wait in a caller queue.
THEOREM OrderKept == Spec => SendersInOrder
<1> DEFINE Order(d) ==
             LET old == Queue(proc, d)
                 new == Queue(proc', d)
             IN  panic' = NONE =>
                   \A i \in DOMAIN old, j \in DOMAIN new : new[j] = old[i] =>
                     \A m \in 1 .. j - 1 : \E k \in 1 .. i - 1 : old[k] = new[m]
<1>1. ASSUME IInv, Next, NEW d \in Proc PROVE Order(d)
  <2> SUFFICES ASSUME panic' = NONE, NEW i \in DOMAIN Queue(proc, d), NEW j \in DOMAIN Queue(proc', d),
                      Queue(proc', d)[j] = Queue(proc, d)[i], NEW m \in 1 .. j - 1
               PROVE  \E k \in 1 .. i - 1 : Queue(proc, d)[k] = Queue(proc', d)[m]
    OBVIOUS
  <2>1. PICK Q : Good(proc, Q)
    BY <1>1, PanicStops DEF IInv
  <2>2. Preserves(Q)
    BY <1>1, <2>1, NextPreserves, SMTT(60)
  <2>3. PICK R : Good(proc', R) /\ InOrder(Q[d], R[d])
    <3>1. Lasting(Q, proc', last', handed')
      BY <2>2 DEF Preserves
    <3> QED BY <3>1 DEF Lasting
  <2>4. Queue(proc, d) = Q[d] /\ Q[d] \in Seq(Proc)
    BY <1>1, <2>1, QueueOf, LinksDistinct, SMTT(60) DEF Good
  <2>5. Queue(proc', d) = R[d] /\ R[d] \in Seq(Proc)
    BY <1>1, <2>3, QueueOf, LinksDistinct DEF Good
  <2>6. DOMAIN Q[d] = 1 .. Len(Q[d]) /\ DOMAIN R[d] = 1 .. Len(R[d])
    BY <2>4, <2>5, SMTT(60)
  <2>7. /\ i \in 1 .. Len(Q[d]) /\ j \in 1 .. Len(R[d]) /\ R[d][j] = Q[d][i]
    BY <2>4, <2>5, <2>6
  <2>8. \E k \in 1 .. i - 1 : Q[d][k] = R[d][m]
    BY <2>3, <2>7 DEF InOrder
  <2> QED BY <2>4, <2>5, <2>8
<1>2. IInv /\ [Next]_vars => [\A d \in Proc : Order(d)]_vars
  BY <1>1
<1> QED BY <1>2, Invariance, PTL DEF Spec, SendersInOrder

=============================================================================
