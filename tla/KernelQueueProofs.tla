------------------------- MODULE KernelQueueProofs --------------------------
(*****************************************************************************)
(* The caller queues of KernelIPC as sequences: the pointers of the table link *)
(* them, enqueueing and unlinking change them as one expects, the chain of   *)
(* blocked processes ends because the relation has no cycle, and the end of a *)
(* process leaves no trace of it.  Walks along lists and chains are recursive *)
(* functions, so induction and the existence of such functions come first.   *)
(*****************************************************************************)
EXTENDS KernelIPC, WellFoundedInduction, TLAPS

\* Most leaves are first-order reasoning about sets and functions, which is for
\* Zenon; a leaf with arithmetic, records or sequences calls for SMT by name.
USE ZenonT(60)

-----------------------------------------------------------------------------
(* Induction and recursion.  A recursive function definition chooses a function *)
(* with its equation; that there is one is what has to be shown.             *)

\* A nonempty set of natural numbers has a least element.
LEMMA LeastNumber ==
  ASSUME NEW S \in SUBSET Nat, S # {}
  PROVE  \E n \in S : \A m \in S : n <= m
<1>1. PICK n \in S : \A m \in S : ~(<<m, n>> \in OpToRel(<, Nat))
  BY WFMin, NatLessThanWellFounded
<1>2. ASSUME NEW m \in S PROVE n <= m
  <2>1. ~(<<m, n>> \in OpToRel(<, Nat))
    BY <1>1
  <2> QED BY <2>1, SMTT(60) DEF OpToRel
<1> QED BY <1>2

\* Induction: a set that holds 0 and with each number the next one holds them all.
LEMMA SetInduction ==
  ASSUME NEW S, 0 \in S, \A n \in Nat : n \in S => n + 1 \in S
  PROVE  Nat \subseteq S
<1>1. SUFFICES ASSUME Nat \ S # {} PROVE FALSE
  OBVIOUS
<1>2. PICK n \in Nat \ S : \A m \in Nat \ S : n <= m
  BY <1>1, LeastNumber
<1>3. n # 0 /\ n - 1 \in Nat
  BY <1>2, SMTT(60)
<1>4. n - 1 \in S
  BY <1>2, <1>3, SMTT(60)
<1> QED BY <1>2, <1>3, <1>4, SMTT(60)

\* Induction along 0 .. n.
LEMMA IntervalInduction ==
  ASSUME NEW N \in Nat, NEW S, 0 \in S, \A n \in 0 .. N - 1 : n \in S => n + 1 \in S
  PROVE  0 .. N \subseteq S
<1> DEFINE U == {n \in Nat : n <= N => n \in S}
<1>1. 0 \in U
  OBVIOUS
<1>2. \A n \in Nat : n \in U => n + 1 \in U
  BY SMTT(60)
<1>3. Nat \subseteq U
  <2> HIDE DEF U
  <2> QED BY <1>1, <1>2, SetInduction
<1> QED BY <1>3, SMTT(60)

\* g applies the steps f[1], ..., f[n] one after the other to x.
Iterates(g, S, x, f, n) ==
  /\ g \in [0 .. n -> S]
  /\ g[0] = x
  /\ \A k \in 1 .. n : g[k] = f[k][g[k - 1]]

\* Steps may be applied one after the other, as often as one likes, from any value.
LEMMA Iteration ==
  ASSUME NEW S, NEW x \in S, NEW f \in [Nat -> [S -> S]], NEW N \in Nat
  PROVE  \E g : Iterates(g, S, x, f, N)
<1> DEFINE T == {n \in Nat : \E g : Iterates(g, S, x, f, n)}
<1>1. 0 \in T
  <2>1. Iterates([k \in 0 .. 0 |-> x], S, x, f, 0)
    BY SMTT(60) DEF Iterates
  <2> QED BY <2>1
<1>2. ASSUME NEW n \in Nat, n \in T PROVE n + 1 \in T
  <2>1. PICK g : Iterates(g, S, x, f, n)
    BY <1>2
  <2> DEFINE h == [k \in 0 .. n + 1 |-> IF k <= n THEN g[k] ELSE f[n + 1][g[n]]]
  <2>2. h \in [0 .. n + 1 -> S]
    BY <2>1, SMTT(60) DEF Iterates
  <2>3. h[0] = x
    BY <2>1, SMTT(60) DEF Iterates
  <2>4. \A k \in 1 .. n + 1 : h[k] = f[k][h[k - 1]]
    BY <2>1, SMTT(60) DEF Iterates
  <2>5. Iterates(h, S, x, f, n + 1)
    <3> HIDE DEF h
    <3> QED BY <2>2, <2>3, <2>4 DEF Iterates
  <2> QED BY <2>5, SMTT(60)
<1>3. Nat \subseteq T
  <2> HIDE DEF T
  <2> QED BY <1>1, <1>2, SetInduction
<1> QED BY <1>3

\* The numbers but for k, counted from 0.
Past(k, i) == IF i < k THEN i ELSE i + 1

\* Past(k, i) misses k ...
LEMMA PastMisses ==
  ASSUME NEW n \in Nat, NEW k \in 0 .. n + 1, NEW i \in 0 .. n
  PROVE  Past(k, i) \in 0 .. n + 1 /\ Past(k, i) # k
<1>1. k \in Int /\ i \in Int /\ 0 <= i /\ i <= n
  BY SMTT(60)
<1>2. CASE i < k
  BY <1>1, <1>2, SMTT(60) DEF Past
<1>3. CASE ~(i < k)
  BY <1>1, <1>3, SMTT(60) DEF Past
<1> QED BY <1>2, <1>3

\* ... and keeps the order.
LEMMA PastKeepsOrder ==
  ASSUME NEW k \in Int, NEW i \in Int, NEW j \in Int, i < j
  PROVE  Past(k, i) < Past(k, j)
<1>1. CASE j < k
  BY <1>1, SMTT(60) DEF Past
<1>2. CASE ~(j < k) /\ i < k
  BY <1>2, SMTT(60) DEF Past
<1>3. CASE ~(j < k) /\ ~(i < k)
  BY <1>3, SMTT(60) DEF Past
<1> QED BY <1>1, <1>2, <1>3

\* The numbers of an interval are integers.
LEMMA Integral == \A a, b \in Int : \A i \in a .. b : i \in Int
BY SMTT(60)

\* A number of an interval that is not its last one is in the interval before it.
LEMMA NotTheLast ==
  ASSUME NEW n \in Nat, NEW x \in 1 .. n + 1, x # n + 1
  PROVE  x \in 1 .. n
BY SMTT(60)

\* The walk g of n steps comes to a place twice; n places are too few not to.
Twice(n, g) == \E i, j \in 0 .. n : i < j /\ g[i] = g[j]
AllTwice(n) == \A g \in [0 .. n -> 1 .. n] : Twice(n, g)

\* A walk that comes to no place twice comes to the last one once at most.
LEMMA LastOnce ==
  ASSUME NEW n \in Nat, NEW g, ~Twice(n + 1, g)
  PROVE  \E k \in 0 .. n + 1 : \A i \in 0 .. n + 1 : i # k => g[i] # n + 1
<1>1. CASE \E k \in 0 .. n + 1 : g[k] = n + 1
  <2>1. PICK k \in 0 .. n + 1 : g[k] = n + 1
    BY <1>1
  <2>2. ASSUME NEW i \in 0 .. n + 1, i # k, g[i] = n + 1 PROVE FALSE
    <3>1. i < k \/ k < i
      BY <2>2, SMTT(60)
    <3>2. g[i] = g[k]
      BY <2>1, <2>2
    <3> QED BY <3>1, <3>2 DEF Twice
  <2> QED BY <2>2
<1>2. CASE ~\E k \in 0 .. n + 1 : g[k] = n + 1
  <2>1. 0 \in 0 .. n + 1
    BY SMTT(60)
  <2> QED BY <1>2, <2>1
<1> QED BY <1>1, <1>2

\* Without the step that comes to the last place a walk is one among the others.
LEMMA MetTwiceStep ==
  ASSUME NEW n \in Nat, AllTwice(n)
  PROVE  AllTwice(n + 1)
<1> SUFFICES ASSUME NEW g, g \in [0 .. n + 1 -> 1 .. n + 1], ~Twice(n + 1, g) PROVE FALSE
  BY DEF AllTwice
<1>1. PICK k \in 0 .. n + 1 : \A i \in 0 .. n + 1 : i # k => g[i] # n + 1
  BY LastOnce
<1>2. \A i \in 0 .. n : Past(k, i) \in 0 .. n + 1 /\ Past(k, i) # k
  BY PastMisses
<1>3. \A i \in 0 .. n : g[Past(k, i)] \in 1 .. n + 1 /\ g[Past(k, i)] # n + 1
  BY <1>1, <1>2
<1>4. \A i \in 0 .. n : g[Past(k, i)] \in 1 .. n
  BY <1>3, NotTheLast
<1> DEFINE f == [i \in 0 .. n |-> g[Past(k, i)]]
<1>5. f \in [0 .. n -> 1 .. n]
  BY <1>4
<1>6. \A i \in 0 .. n : f[i] = g[Past(k, i)]
  OBVIOUS
<1> HIDE DEF f
<1>7. Twice(n, f)
  BY <1>5 DEF AllTwice
<1>8. PICK i \in 0 .. n, j \in 0 .. n : i < j /\ f[i] = f[j]
  BY <1>7 DEF Twice
<1>9. k \in Int /\ i \in Int /\ j \in Int
  BY Integral, SMTT(60)
<1>10. Past(k, i) < Past(k, j)
  BY <1>8, <1>9, PastKeepsOrder
<1>11. g[Past(k, i)] = g[Past(k, j)]
  BY <1>6, <1>8
<1> QED BY <1>2, <1>10, <1>11 DEF Twice

\* A walk of n steps among n things comes to one of them twice.
LEMMA MetTwice ==
  ASSUME NEW N \in Nat, NEW h \in [0 .. N -> 1 .. N]
  PROVE  \E i, j \in 0 .. N : i < j /\ h[i] = h[j]
<1> DEFINE T == {n \in Nat : AllTwice(n)}
<1>1. AllTwice(0)
  <2>1. ASSUME NEW g \in [0 .. 0 -> 1 .. 0] PROVE FALSE
    <3>1. 0 \in 0 .. 0 /\ ~\E x : x \in 1 .. 0
      BY SMTT(60)
    <3>2. g[0] \in 1 .. 0
      BY <3>1
    <3> QED BY <3>1, <3>2
  <2> QED BY <2>1 DEF AllTwice
<1>2. 0 \in T /\ \A n \in Nat : n \in T => n + 1 \in T
  <2>1. 0 \in Nat /\ \A n \in Nat : n + 1 \in Nat
    BY SMTT(60)
  <2> QED BY <1>1, <2>1, MetTwiceStep
<1>3. Nat \subseteq T
  <2> HIDE DEF T
  <2> QED BY <1>2, SetInduction
<1>4. AllTwice(N)
  BY <1>3
<1> QED BY <1>4 DEF AllTwice, Twice

-----------------------------------------------------------------------------
(* The links of the queues *)

\* The i-th of a queue, or NULL behind its end.
At(s, i) == IF i \in 1 .. Len(s) THEN s[i] ELSE NULL

\* The pointers of table T link the queues Q; nobody is in a queue twice, or in two.
Links(T, Q) ==
  /\ Q \in [Proc -> Seq(Proc)]
  /\ \A d \in Proc : T[d].caller_q = At(Q[d], 1)
  /\ \A d \in Proc : \A i \in 1 .. Len(Q[d]) : T[Q[d][i]].q_link = At(Q[d], i + 1)
  /\ \A d, e \in Proc : \A i \in 1 .. Len(Q[d]), j \in 1 .. Len(Q[e]) :
       Q[d][i] = Q[e][j] => d = e /\ i = j

In(s, x) == \E i \in 1 .. Len(s) : s[i] = x

\* The queues hold the senders.
Members(T, Q) == \A d, p \in Proc : (T[p].sending /\ T[p].sendto_e = d) <=> In(Q[d], p)

\* In every set of processes one is blocked on none of the others.
Acyclic(T) == \A S \in SUBSET Proc : S # {} => \E x \in S : P_BLOCKEDON(T, x) \notin S \ {x}

\* A blocked process is alive and has been handed nothing; it does not send to itself;
\* one that is to receive after its send is in a SENDREC; one that receives from ANY is in none.
BlockedOf(T, p) ==
  /\ T[p].sending => T[p].alive /\ T[p].delivermsg = NONE /\ T[p].sendto_e \in Proc \ {p}
  /\ T[p].receiving => T[p].alive /\ T[p].delivermsg = NONE
  /\ T[p].sending /\ T[p].receiving => T[p].reply_pend /\ T[p].getfrom_e = T[p].sendto_e
  /\ T[p].receiving /\ T[p].getfrom_e = ANY => ~T[p].reply_pend

Blocked(T) == \A p \in Proc : BlockedOf(T, p)

\* NoLostWakeup by the flags of the senders, and without them in queues.
Wakeful(T) ==
  \A p \in Proc : T[p].receiving /\ ~T[p].sending =>
    /\ \A x \in Proc : T[x].sending /\ T[x].sendto_e = p => T[p].getfrom_e \notin {ANY, x}
    /\ T[p].reply_pend \/ \A x \in T[p].notify_pending : T[p].getfrom_e \notin {ANY, x}

\* Who is blocked waits for the living.
Awaited(T) == \A p \in Proc : P_BLOCKEDON(T, p) \in Proc => T[P_BLOCKEDON(T, p)].alive

\* The invariant of the table alone, with the queues it links.
Good(T, Q) ==
  T \in Table /\ Acyclic(T) /\ Blocked(T) /\ Wakeful(T) /\ Links(T, Q) /\ Members(T, Q)

-----------------------------------------------------------------------------
(* The two walks: along a caller queue and along the chain of the blocked *)

\* The walk along a queue obeys its recursive definition: the recursion is over an interval of numbers.
LEMMA WalkEquation ==
  ASSUME NEW T \in Table, NEW d \in Proc
  PROVE  LET q == QueueWalk(T, d) IN
         q = [k \in 0 .. NR_PROCS |-> IF k = 0 THEN T[d].caller_q
                                     ELSE IF q[k - 1] = NULL THEN NULL ELSE T[q[k - 1]].q_link]
<1> DEFINE S == Proc \cup {NULL}
           f == [k \in Nat |-> [x \in S |-> IF x = NULL THEN NULL ELSE T[x].q_link]]
<1>1. T[d].caller_q \in S /\ f \in [Nat -> [S -> S]]
  BY DEF Table, Slot
<1>2. NR_PROCS \in Nat
  BY IPCAssumption
<1>3. PICK g : Iterates(g, S, T[d].caller_q, f, NR_PROCS)
  <2> HIDE DEF f, S
  <2> QED BY <1>1, <1>2, Iteration
<1>4. \A k \in 1 .. NR_PROCS : f[k][g[k - 1]] = IF g[k - 1] = NULL THEN NULL ELSE T[g[k - 1]].q_link
  BY <1>2, <1>3, SMTT(60) DEF Iterates
<1>5. g = [k \in 0 .. NR_PROCS |-> IF k = 0 THEN T[d].caller_q
                                  ELSE IF g[k - 1] = NULL THEN NULL ELSE T[g[k - 1]].q_link]
  <2> HIDE DEF f
  <2> QED BY <1>2, <1>3, <1>4, SMTT(60) DEF Iterates
<1> QED BY <1>5 DEF QueueWalk

\* And so does the walk along the chain of the blocked.
LEMMA ChainEquation ==
  ASSUME NEW T \in Table, NEW d \in Proc \cup {ANY, NONE}
  PROVE  LET c == BlockedChain(T, d) IN
         c = [k \in 0 .. NR_PROCS |-> IF k = 0 THEN d
                                     ELSE IF c[k - 1] \in Proc THEN P_BLOCKEDON(T, c[k - 1]) ELSE c[k - 1]]
<1> DEFINE S == Proc \cup {ANY, NONE}
           f == [k \in Nat |-> [x \in S |-> IF x \in Proc THEN P_BLOCKEDON(T, x) ELSE x]]
<1>1. d \in S /\ f \in [Nat -> [S -> S]]
  BY DEF Table, Slot, P_BLOCKEDON
<1>2. NR_PROCS \in Nat
  BY IPCAssumption
<1>3. PICK g : Iterates(g, S, d, f, NR_PROCS)
  <2> HIDE DEF f, S
  <2> QED BY <1>1, <1>2, Iteration
<1>4. \A k \in 1 .. NR_PROCS : f[k][g[k - 1]] = IF g[k - 1] \in Proc THEN P_BLOCKEDON(T, g[k - 1]) ELSE g[k - 1]
  BY <1>2, <1>3, SMTT(60) DEF Iterates
<1>5. g = [k \in 0 .. NR_PROCS |-> IF k = 0 THEN d
                                  ELSE IF g[k - 1] \in Proc THEN P_BLOCKEDON(T, g[k - 1]) ELSE g[k - 1]]
  <2> HIDE DEF f
  <2> QED BY <1>2, <1>3, <1>4, SMTT(60) DEF Iterates
<1> QED BY <1>5 DEF BlockedChain

-----------------------------------------------------------------------------
(* Queues *)

\* The walk along linked pointers finds the queue: it ends, since nobody is met twice.
LEMMA QueueOf ==
  ASSUME NEW T \in Table, NEW Q, Links(T, Q), NEW d \in Proc
  PROVE  Queue(T, d) = Q[d]
<1> DEFINE w == QueueWalk(T, d)
           s == Q[d]
           S == {k \in 0 .. NR_PROCS : w[k] = At(s, k + 1)}
<1>1. NR_PROCS \in Nat /\ NULL \notin Proc
  BY IPCAssumption
<1>2. s \in Seq(Proc) /\ Len(s) \in Nat /\ \A i \in 1 .. Len(s) : s[i] \in Proc
  BY SMTT(60) DEF Links
<1>3. w = [k \in 0 .. NR_PROCS |-> IF k = 0 THEN T[d].caller_q
                                   ELSE IF w[k - 1] = NULL THEN NULL ELSE T[w[k - 1]].q_link]
  BY WalkEquation
<1>4. 0 .. NR_PROCS \subseteq S
  <2>1. 0 \in S
    <3>1. w[0] = T[d].caller_q
      BY <1>1, <1>3, SMTT(60)
    <3> QED BY <1>1, <3>1, SMTT(60) DEF Links
  <2>2. ASSUME NEW k \in 0 .. NR_PROCS - 1, k \in S PROVE k + 1 \in S
    <3>1. w[k] = At(s, k + 1)
      BY <2>2
    <3>2. w[k + 1] = IF w[k] = NULL THEN NULL ELSE T[w[k]].q_link
      <4>1. k + 1 \in 0 .. NR_PROCS /\ k + 1 # 0 /\ (k + 1) - 1 = k
        BY <1>1, SMTT(60)
      <4> HIDE DEF w
      <4> QED BY <1>3, <4>1
    <3>3. CASE k + 1 \in 1 .. Len(s)
      <4>1. w[k] = s[k + 1] /\ s[k + 1] \in Proc
        BY <3>1, <3>3, <1>2 DEF At
      <4>2. T[s[k + 1]].q_link = At(s, (k + 1) + 1)
        BY <3>3 DEF Links
      <4> QED BY <4>1, <4>2, <3>2, <1>1, SMTT(60)
    <3>4. CASE k + 1 \notin 1 .. Len(s)
      <4>1. At(s, (k + 1) + 1) = NULL
        BY <1>2, <3>4, SMTT(60) DEF At
      <4>2. w[k] = NULL
        BY <3>1, <3>4 DEF At
      <4> QED BY <4>1, <4>2, <3>2, <1>1, SMTT(60)
    <3> QED BY <3>3, <3>4
  <2> HIDE DEF S
  <2> QED BY <2>1, <2>2, <1>1, IntervalInduction
<1>5. Len(s) <= NR_PROCS
  <2>1. SUFFICES ASSUME NR_PROCS < Len(s) PROVE FALSE
    BY <1>1, <1>2, SMTT(60)
  <2> DEFINE h == [k \in 0 .. NR_PROCS |-> s[k + 1]]
  <2>2. \A k \in 0 .. NR_PROCS : k + 1 \in 1 .. Len(s)
    BY <2>1, <1>1, <1>2, SMTT(60)
  <2>3. h \in [0 .. NR_PROCS -> 1 .. NR_PROCS]
    BY <2>2, <1>2 DEF Proc
  <2> HIDE DEF h
  <2>4. PICK i, j \in 0 .. NR_PROCS : i < j /\ h[i] = h[j]
    BY <2>3, <1>1, MetTwice
  <2>5. s[i + 1] = s[j + 1]
    BY <2>4 DEF h
  <2>6. i + 1 = j + 1
    BY <2>2, <2>5, SMTT(60) DEF Links
  <2> QED BY <2>4, <2>6, SMTT(60)
<1>6. \A k \in 1 .. NR_PROCS : w[k - 1] = At(s, k)
  BY <1>4, <1>1, SMTT(60)
<1>7. {k \in 1 .. NR_PROCS : w[k - 1] # NULL} = 1 .. Len(s)
  <2> HIDE DEF w, s
  <2>1. \A k \in 1 .. NR_PROCS : At(s, k) # NULL <=> k \in 1 .. Len(s)
    BY <1>1, <1>2 DEF At
  <2>2. 1 .. Len(s) \subseteq 1 .. NR_PROCS
    BY <1>1, <1>2, <1>5, SMTT(60)
  <2> QED BY <2>1, <2>2, <1>6
<1>8. \A k \in 1 .. Len(s) : w[k - 1] = s[k]
  <2> HIDE DEF w, s
  <2> QED BY <1>1, <1>2, <1>5, <1>6, SMTT(60) DEF At
<1>9. s = [k \in 1 .. Len(s) |-> s[k]]
  BY <1>2, SMTT(60)
<1>10. Queue(T, d) = [k \in {k \in 1 .. NR_PROCS : w[k - 1] # NULL} |-> w[k - 1]]
  BY DEF Queue
<1> HIDE DEF w, s
<1>11. Queue(T, d) = [k \in 1 .. Len(s) |-> s[k]]
  BY <1>7, <1>8, <1>10
<1> QED BY <1>9, <1>11 DEF s

\* Process x is the same in both tables but for the pointers of the queues ...
SameFlagsOf(T, U, x) ==
  /\ U[x].alive = T[x].alive /\ U[x].sending = T[x].sending /\ U[x].receiving = T[x].receiving
  /\ U[x].sendto_e = T[x].sendto_e /\ U[x].getfrom_e = T[x].getfrom_e
  /\ U[x].reply_pend = T[x].reply_pend /\ U[x].delivermsg = T[x].delivermsg
  /\ U[x].notify_pending = T[x].notify_pending

\* ... and these are the only difference between the tables.
SameFlags(T, U) == \A x \in Proc : SameFlagsOf(T, U, x) /\ U[x].retreg = T[x].retreg

\* Relinked changes one pointer: that of d, or that of the process ahead in the queue.
LEMMA RelinkedIs ==
  ASSUME NEW T \in Table, NEW Q, Links(T, Q), NEW d \in Proc, NEW i \in 1 .. Len(Q[d]) + 1,
         NEW v \in Proc \cup {NULL}
  PROVE  LET U == Relinked(T, d, i, v) IN
         /\ U \in Table
         /\ SameFlags(T, U)
         /\ \A x \in Proc : U[x].caller_q = IF i = 1 /\ x = d THEN v ELSE T[x].caller_q
         /\ \A x \in Proc : U[x].q_link = IF i # 1 /\ x = Q[d][i - 1] THEN v ELSE T[x].q_link
<1>1. Queue(T, d) = Q[d]
  BY QueueOf
<1>2. i # 1 => Q[d][i - 1] \in Proc
  BY SMTT(60) DEF Links
<1>3. CASE i = 1
  BY <1>3, SMTT(60) DEF Relinked, Table, Slot, SameFlags, SameFlagsOf
<1>4. CASE i # 1
  <2>1. Relinked(T, d, i, v) = [T EXCEPT ![Q[d][i - 1]].q_link = v]
    BY <1>1, <1>4 DEF Relinked
  <2> DEFINE y == Q[d][i - 1]
  <2>2. y \in Proc
    BY <1>2, <1>4
  <2> HIDE DEF y
  <2>3. [T EXCEPT ![y].q_link = v] \in Table /\ SameFlags(T, [T EXCEPT ![y].q_link = v])
    BY <2>2, SMTT(60) DEF Table, Slot, SameFlags, SameFlagsOf
  <2>4. \A x \in Proc : /\ [T EXCEPT ![y].q_link = v][x].caller_q = T[x].caller_q
                        /\ [T EXCEPT ![y].q_link = v][x].q_link = IF x = y THEN v ELSE T[x].q_link
    BY <2>2, SMTT(60) DEF Table, Slot
  <2> QED BY <2>1, <2>3, <2>4, <1>4 DEF y
<1> QED BY <1>3, <1>4

\* Only the pointers of those in a queue, and those to its first, matter.
LEMMA LinksFrame ==
  ASSUME NEW T, NEW U, NEW Q, Links(T, Q),
         \A x \in Proc : U[x].caller_q = T[x].caller_q,
         \A d \in Proc : \A i \in 1 .. Len(Q[d]) : U[Q[d][i]].q_link = T[Q[d][i]].q_link
  PROVE  Links(U, Q)
BY DEF Links

\* A process that is in no queue and has no link left joins the queue of d at its end.
LEMMA EnqueuedLinks ==
  ASSUME NEW T \in Table, NEW Q, Links(T, Q), NEW d \in Proc, NEW p \in Proc,
         T[p].q_link = NULL,
         \A e \in Proc : \A i \in 1 .. Len(Q[e]) : Q[e][i] # p
  PROVE  /\ Enqueued(T, p, d) \in Table
         /\ SameFlags(T, Enqueued(T, p, d))
         /\ Links(Enqueued(T, p, d), [Q EXCEPT ![d] = Append(Q[d], p)])
<1> DEFINE U == Enqueued(T, p, d)
           n == Len(Q[d])
           R == [Q EXCEPT ![d] = Append(Q[d], p)]
<1>1. n \in Nat /\ Q[d] \in Seq(Proc) /\ Q \in [Proc -> Seq(Proc)]
  BY SMTT(60) DEF Links
<1>2. U = Relinked(T, d, n + 1, p)
  BY QueueOf DEF Enqueued
<1>3. /\ U \in Table
      /\ SameFlags(T, U)
      /\ \A x \in Proc : U[x].caller_q = IF n = 0 /\ x = d THEN p ELSE T[x].caller_q
      /\ \A x \in Proc : U[x].q_link = IF n # 0 /\ x = Q[d][n] THEN p ELSE T[x].q_link
  <2> DEFINE i == n + 1
  <2>1. i \in 1 .. Len(Q[d]) + 1 /\ i - 1 = n /\ (i = 1 <=> n = 0) /\ U = Relinked(T, d, i, p)
    BY <1>1, <1>2, SMTT(60)
  <2> HIDE DEF i, U, n
  <2>2. /\ U \in Table
        /\ SameFlags(T, U)
        /\ \A x \in Proc : U[x].caller_q = IF i = 1 /\ x = d THEN p ELSE T[x].caller_q
        /\ \A x \in Proc : U[x].q_link = IF i # 1 /\ x = Q[d][i - 1] THEN p ELSE T[x].q_link
    BY <2>1, RelinkedIs, SMTT(60)
  <2> QED BY <2>1, <2>2
<1>4. /\ R \in [Proc -> Seq(Proc)]
      /\ \A e \in Proc : e # d => R[e] = Q[e]
      /\ R[d] = Append(Q[d], p)
  BY <1>1, SMTT(60)
<1>5. /\ Len(R[d]) = n + 1 /\ R[d][n + 1] = p
      /\ \A i \in 1 .. n : R[d][i] = Q[d][i]
  BY <1>1, <1>4, SMTT(60)
<1>6. \A e \in Proc : Len(Q[e]) \in Nat /\ Q[e] \in Seq(Proc) /\ \A i \in 1 .. Len(Q[e]) : Q[e][i] \in Proc
  BY SMTT(60) DEF Links
<1> HIDE DEF U, R
<1>7. ASSUME NEW e \in Proc PROVE U[e].caller_q = At(R[e], 1)
  <2>1. T[e].caller_q = At(Q[e], 1)
    BY DEF Links
  <2>2. CASE e # d
    BY <2>1, <2>2, <1>3, <1>4
  <2>3. CASE e = d /\ n = 0
    BY <2>3, <1>3, <1>5, SMTT(60) DEF At
  <2>4. CASE e = d /\ n # 0
    BY <2>1, <2>4, <1>1, <1>3, <1>5, SMTT(60) DEF At
  <2> QED BY <2>2, <2>3, <2>4
<1>8. ASSUME NEW e \in Proc, NEW i \in 1 .. Len(R[e]) PROVE U[R[e][i]].q_link = At(R[e], i + 1)
  <2>1. CASE e # d
    <3>1. R[e] = Q[e] /\ i \in 1 .. Len(Q[e])
      BY <2>1, <1>8, <1>4
    <3>2. n # 0 => Q[d][n] # Q[e][i]
      <4>1. n # 0 => n \in 1 .. Len(Q[d])
        BY <1>1, SMTT(60)
      <4> HIDE DEF n
      <4> QED BY <2>1, <3>1, <4>1 DEF Links
    <3>3. U[Q[e][i]].q_link = T[Q[e][i]].q_link
      <4>1. Q[e][i] \in Proc
        BY <3>1, <1>6
      <4> QED BY <1>3, <3>2, <4>1
    <3>4. T[Q[e][i]].q_link = At(Q[e], i + 1)
      BY <3>1 DEF Links
    <3> QED BY <3>1, <3>3, <3>4
  <2>2. CASE e = d /\ i = n + 1
    <3>1. U[p].q_link = NULL
      <4>1. n # 0 => Q[d][n] # p
        BY <1>1, SMTT(60)
      <4> QED BY <1>3, <4>1
    <3> QED BY <2>2, <3>1, <1>5, <1>1, SMTT(60) DEF At
  <2>3. CASE e = d /\ i = n /\ i # n + 1
    <3>1. n # 0 /\ Q[d][n] \in Proc
      BY <2>3, <1>8, <1>6, <1>1, SMTT(60)
    <3>2. U[Q[d][n]].q_link = p
      BY <1>3, <3>1, <1>1
    <3> QED BY <2>3, <3>1, <3>2, <1>5, <1>1, SMTT(60) DEF At
  <2>4. CASE e = d /\ i # n /\ i # n + 1
    <3>1. i \in 1 .. n - 1
      BY <2>4, <1>5, <1>8, <1>1, SMTT(60)
    <3>2. Q[d][i] # Q[d][n] /\ Q[d][i] \in Proc
      BY <3>1, <1>1, <1>6, SMTT(60) DEF Links
    <3>3. U[Q[d][i]].q_link = T[Q[d][i]].q_link
      BY <1>3, <3>2
    <3>4. T[Q[d][i]].q_link = Q[d][i + 1]
      <4>1. i \in 1 .. Len(Q[d]) /\ i + 1 \in 1 .. Len(Q[d])
        BY <3>1, <1>1, SMTT(60)
      <4> QED BY <4>1 DEF Links, At
    <3> QED BY <2>4, <3>1, <3>3, <3>4, <1>5, <1>1, SMTT(60) DEF At
  <2> QED BY <2>1, <2>2, <2>3, <2>4
<1>9. ASSUME NEW e \in Proc, NEW f \in Proc, NEW i \in 1 .. Len(R[e]), NEW j \in 1 .. Len(R[f]),
             R[e][i] = R[f][j]
      PROVE  e = f /\ i = j
  <2>1. ASSUME NEW g \in Proc, NEW k \in 1 .. Len(R[g])
        PROVE  \/ g = d /\ k = n + 1 /\ R[g][k] = p
               \/ k \in 1 .. Len(Q[g]) /\ R[g][k] = Q[g][k] /\ R[g][k] # p
    <3>1. CASE g # d
      <4>1. R[g] = Q[g]
        BY <3>1, <1>4
      <4> QED BY <4>1
    <3>2. CASE g = d /\ k = n + 1
      BY <3>2, <1>5
    <3>3. CASE g = d /\ k # n + 1
      <4>1. k \in 1 .. n
        BY <3>3, <1>1, <1>5, SMTT(60)
      <4> QED BY <3>3, <4>1, <1>5
    <3> QED BY <3>1, <3>2, <3>3
  <2>2. \/ e = d /\ i = n + 1 /\ R[e][i] = p
        \/ i \in 1 .. Len(Q[e]) /\ R[e][i] = Q[e][i] /\ R[e][i] # p
    BY <2>1
  <2>3. \/ f = d /\ j = n + 1 /\ R[f][j] = p
        \/ j \in 1 .. Len(Q[f]) /\ R[f][j] = Q[f][j] /\ R[f][j] # p
    BY <2>1
  <2>4. CASE R[e][i] = p
    BY <2>2, <2>3, <2>4, <1>9
  <2>5. CASE R[e][i] # p
    <3>1. i \in 1 .. Len(Q[e]) /\ j \in 1 .. Len(Q[f]) /\ Q[e][i] = Q[f][j]
      BY <2>2, <2>3, <2>5, <1>9
    <3> QED BY <3>1, SMTT(60) DEF Links
  <2> QED BY <2>4, <2>5
<1> QED BY <1>3, <1>4, <1>7, <1>8, <1>9 DEF Links, U, R

\* A sequence without its i-th element.
Removed(s, i) == [k \in 1 .. Len(s) - 1 |-> IF k < i THEN s[k] ELSE s[k + 1]]

\* What is left of a sequence, element by element.
LEMMA RemovedIs ==
  ASSUME NEW s \in Seq(Proc), NEW i \in 1 .. Len(s)
  PROVE  /\ Removed(s, i) \in Seq(Proc)
         /\ Len(Removed(s, i)) = Len(s) - 1
         /\ \A k \in 1 .. Len(s) - 1 : Removed(s, i)[k] = IF k < i THEN s[k] ELSE s[k + 1]
BY SMTT(60) DEF Removed

\* The i-th process of d's queue leaves it: the rest stays linked, in the same order.
LEMMA UnlinkedLinks ==
  ASSUME NEW T \in Table, NEW Q, Links(T, Q), NEW d \in Proc, NEW i \in 1 .. Len(Q[d])
  PROVE  LET U == Unlinked(T, Q[d][i], d) IN
         /\ U \in Table
         /\ SameFlags(T, U)
         /\ Links(U, [Q EXCEPT ![d] = Removed(Q[d], i)])
         /\ \A e \in Proc : \A j \in 1 .. Len([Q EXCEPT ![d] = Removed(Q[d], i)][e]) :
              [Q EXCEPT ![d] = Removed(Q[d], i)][e][j] # Q[d][i]
<1> DEFINE x == Q[d][i]
           U == Unlinked(T, x, d)
           n == Len(Q[d])
           R == [Q EXCEPT ![d] = Removed(Q[d], i)]
<1>1. n \in Nat /\ Q[d] \in Seq(Proc) /\ Q \in [Proc -> Seq(Proc)]
  BY SMTT(60) DEF Links
<1>2. \A e \in Proc : Len(Q[e]) \in Nat /\ Q[e] \in Seq(Proc) /\ \A j \in 1 .. Len(Q[e]) : Q[e][j] \in Proc
  BY SMTT(60) DEF Links
<1>3. x \in Proc /\ T[x].q_link \in Proc \cup {NULL} /\ T[x].q_link = At(Q[d], i + 1)
  BY <1>2 DEF Links, Table, Slot
<1>4. \A e \in Proc : \A j \in 1 .. Len(Q[e]) : Q[e][j] = x => e = d /\ j = i
  BY SMTT(60) DEF Links
<1>5. U = Relinked(T, d, i, T[x].q_link)
  <2>1. Queue(T, d) = Q[d] /\ DOMAIN Q[d] = 1 .. n
    BY <1>1, QueueOf, SMTT(60)
  <2>2. (CHOOSE j \in DOMAIN Q[d] : Q[d][j] = x) = i
    BY <2>1, <1>4
  <2>3. x \in Range(Q[d])
    BY <2>1 DEF Range
  <2> QED BY <2>1, <2>2, <2>3 DEF Unlinked
<1>6. /\ U \in Table
      /\ SameFlags(T, U)
      /\ \A y \in Proc : U[y].caller_q = IF i = 1 /\ y = d THEN T[x].q_link ELSE T[y].caller_q
      /\ \A y \in Proc : U[y].q_link = IF i # 1 /\ y = Q[d][i - 1] THEN T[x].q_link ELSE T[y].q_link
  <2>1. i \in 1 .. Len(Q[d]) + 1
    BY <1>1, SMTT(60)
  <2> HIDE DEF U, x
  <2> QED BY <1>3, <1>5, <2>1, RelinkedIs, SMTT(60)
<1>7. /\ R \in [Proc -> Seq(Proc)]
      /\ \A e \in Proc : e # d => R[e] = Q[e]
      /\ R[d] = Removed(Q[d], i)
  BY <1>1, RemovedIs
<1>8. /\ Len(R[d]) = n - 1
      /\ \A k \in 1 .. n - 1 : R[d][k] = IF k < i THEN Q[d][k] ELSE Q[d][k + 1]
  BY <1>1, <1>7, RemovedIs, SMTT(60)
<1> HIDE DEF U, R, x
<1>9. ASSUME NEW e \in Proc PROVE U[e].caller_q = At(R[e], 1)
  <2>1. T[e].caller_q = At(Q[e], 1)
    BY DEF Links
  <2>2. CASE e # d
    BY <2>1, <2>2, <1>6, <1>7
  <2>3. CASE e = d /\ i = 1
    BY <2>3, <1>1, <1>3, <1>6, <1>8, SMTT(60) DEF At
  <2>4. CASE e = d /\ i # 1
    BY <2>1, <2>4, <1>1, <1>6, <1>8, SMTT(60) DEF At
  <2> QED BY <2>2, <2>3, <2>4
<1>10. ASSUME NEW e \in Proc, NEW j \in 1 .. Len(R[e]) PROVE U[R[e][j]].q_link = At(R[e], j + 1)
  <2>1. CASE e # d
    <3>1. R[e] = Q[e] /\ j \in 1 .. Len(Q[e]) /\ Q[e][j] \in Proc
      BY <2>1, <1>2, <1>7, <1>10
    <3>2. i # 1 => Q[d][i - 1] # Q[e][j]
      <4>1. i # 1 => i - 1 \in 1 .. Len(Q[d])
        BY <1>1, SMTT(60)
      <4> QED BY <2>1, <3>1, <4>1 DEF Links
    <3>3. U[Q[e][j]].q_link = T[Q[e][j]].q_link
      BY <3>1, <3>2, <1>6
    <3> QED BY <3>1, <3>3, SMTT(60) DEF Links
  <2>2. CASE e = d /\ j = i - 1
    <3>1. j \in 1 .. n - 1 /\ R[d][j] = Q[d][j] /\ i # 1 /\ j \in 1 .. n
      BY <2>2, <1>1, <1>8, <1>10, SMTT(60)
    <3>2. U[Q[d][j]].q_link = At(Q[d], i + 1)
      BY <2>2, <3>1, <1>2, <1>3, <1>6
    <3>3. At(Q[d], i + 1) = At(R[d], j + 1)
      <4>1. j + 1 = i /\ (i \in 1 .. n - 1 <=> i + 1 \in 1 .. n)
        BY <2>2, <1>1, SMTT(60)
      <4>2. i \in 1 .. n - 1 => R[d][i] = Q[d][i + 1]
        BY <1>1, <1>8, SMTT(60)
      <4> QED BY <4>1, <4>2, <1>8 DEF At
    <3> QED BY <2>2, <3>1, <3>2, <3>3
  <2>3. CASE e = d /\ j # i - 1
    <3> DEFINE k == IF j < i THEN j ELSE j + 1
    <3>1. /\ j \in 1 .. n - 1 /\ k \in 1 .. n /\ R[d][j] = Q[d][k] /\ k # i - 1
          /\ k + 1 \in 1 .. n + 1 /\ (j + 1 \in 1 .. n - 1 <=> k + 1 \in 1 .. n)
          /\ j + 1 \in 1 .. n - 1 => k + 1 = IF j + 1 < i THEN j + 1 ELSE (j + 1) + 1
      BY <2>3, <1>1, <1>8, <1>10, SMTT(60)
    <3> HIDE DEF k
    <3>2. i # 1 => Q[d][i - 1] # Q[d][k]
      <4>1. i # 1 => i - 1 \in 1 .. n
        BY <1>1, SMTT(60)
      <4> QED BY <3>1, <4>1, SMTT(60) DEF Links
    <3>3. U[Q[d][k]].q_link = T[Q[d][k]].q_link
      BY <3>1, <3>2, <1>2, <1>6
    <3>4. T[Q[d][k]].q_link = At(Q[d], k + 1)
      BY <3>1 DEF Links
    <3>5. j + 1 \in 1 .. n - 1 => R[d][j + 1] = Q[d][k + 1]
      <4>1. j + 1 \in 1 .. n - 1 =>
              R[d][j + 1] = IF j + 1 < i THEN Q[d][j + 1] ELSE Q[d][(j + 1) + 1]
        BY <1>8
      <4> QED BY <3>1, <4>1, SMTT(60)
    <3>6. At(Q[d], k + 1) = At(R[d], j + 1)
      BY <3>1, <3>5, <1>8 DEF At
    <3> QED BY <2>3, <3>1, <3>3, <3>4, <3>6
  <2> QED BY <2>1, <2>2, <2>3
<1>11. ASSUME NEW e \in Proc, NEW j \in 1 .. Len(R[e])
       PROVE  \E k \in 1 .. Len(Q[e]) :
                /\ R[e][j] = Q[e][k] /\ (e # d => k = j)
                /\ e = d => k = IF j < i THEN j ELSE j + 1
  <2>1. CASE e # d
    <3>1. R[e] = Q[e]
      BY <2>1, <1>7
    <3> QED BY <2>1, <3>1, <1>11
  <2>2. CASE e = d
    <3> DEFINE k == IF j < i THEN j ELSE j + 1
    <3>1. k \in 1 .. n /\ R[d][j] = Q[d][k]
      <4>1. j \in 1 .. n - 1 /\ i \in 1 .. n
        BY <2>2, <1>8, <1>11
      <4> HIDE DEF n
      <4>2. R[d][j] = IF j < i THEN Q[d][j] ELSE Q[d][j + 1]
        BY <4>1, <1>8
      <4> QED BY <4>1, <4>2, <1>1, SMTT(60)
    <3> QED BY <2>2, <3>1
  <2> QED BY <2>1, <2>2
<1>12. ASSUME NEW e \in Proc, NEW f \in Proc, NEW j \in 1 .. Len(R[e]), NEW k \in 1 .. Len(R[f]),
              R[e][j] = R[f][k]
       PROVE  e = f /\ j = k
  <2>1. PICK a \in 1 .. Len(Q[e]) : /\ R[e][j] = Q[e][a] /\ (e # d => a = j)
                                    /\ e = d => a = IF j < i THEN j ELSE j + 1
    BY <1>11
  <2>2. PICK b \in 1 .. Len(Q[f]) : /\ R[f][k] = Q[f][b] /\ (f # d => b = k)
                                    /\ f = d => b = IF k < i THEN k ELSE k + 1
    BY <1>11
  <2>3. e = f /\ a = b
    <3>1. Q[e][a] = Q[f][b]
      BY <2>1, <2>2, <1>12
    <3> QED BY <3>1, SMTT(60) DEF Links
  <2>4. j \in Int /\ k \in Int
    BY <1>12, SMTT(60)
  <2> QED BY <2>1, <2>2, <2>3, <2>4, SMTT(60)
<1>13. ASSUME NEW e \in Proc, NEW j \in 1 .. Len(R[e]) PROVE R[e][j] # x
  <2>1. PICK a \in 1 .. Len(Q[e]) : /\ R[e][j] = Q[e][a]
                                    /\ e = d => a = IF j < i THEN j ELSE j + 1
    BY <1>11
  <2> QED BY <2>1, <1>4, SMTT(60)
<1>14. Links(U, R)
  BY <1>7, <1>9, <1>10, <1>12 DEF Links
<1> QED BY <1>6, <1>13, <1>14 DEF U, R, x

-----------------------------------------------------------------------------
(* The relation "is blocked on" *)

\* The steps of the walk in deadlock.
LEMMA ChainStep ==
  ASSUME NEW T \in Table, NEW d \in Proc \cup {ANY, NONE}
  PROVE  /\ BlockedChain(T, d)[0] = d
         /\ \A k \in 0 .. NR_PROCS - 1 : BlockedChain(T, d)[k + 1] =
              IF BlockedChain(T, d)[k] \in Proc THEN P_BLOCKEDON(T, BlockedChain(T, d)[k])
              ELSE BlockedChain(T, d)[k]
<1> DEFINE c == BlockedChain(T, d)
<1>1. c = [k \in 0 .. NR_PROCS |-> IF k = 0 THEN d
                                   ELSE IF c[k - 1] \in Proc THEN P_BLOCKEDON(T, c[k - 1]) ELSE c[k - 1]]
  BY ChainEquation
<1> HIDE DEF c
<1>2. NR_PROCS \in Nat
  BY IPCAssumption
<1>3. c[0] = d
  BY <1>1, <1>2, SMTT(60)
<1>4. ASSUME NEW k \in 0 .. NR_PROCS - 1
      PROVE  c[k + 1] = IF c[k] \in Proc THEN P_BLOCKEDON(T, c[k]) ELSE c[k]
  <2>1. k + 1 \in 0 .. NR_PROCS /\ k + 1 # 0 /\ (k + 1) - 1 = k
    BY <1>2, SMTT(60)
  <2> QED BY <1>1, <2>1
<1> QED BY <1>3, <1>4 DEF c

\* A process that is woken leaves no circle behind.
LEMMA AcyclicLess ==
  ASSUME NEW T, NEW U, Acyclic(T),
         \A x \in Proc : P_BLOCKEDON(U, x) \in {P_BLOCKEDON(T, x), ANY, NONE}
  PROVE  Acyclic(U)
<1> SUFFICES ASSUME NEW S \in SUBSET Proc, S # {} PROVE \E x \in S : P_BLOCKEDON(U, x) \notin S \ {x}
  BY DEF Acyclic
<1>1. PICK x \in S : P_BLOCKEDON(T, x) \notin S \ {x}
  BY DEF Acyclic
<1>2. ANY \notin S /\ NONE \notin S
  BY IPCAssumption
<1> QED BY <1>1, <1>2

\* Where the walk from d comes to a process again, some process between is blocked
\* on itself.
LEMMA SelfInCircle ==
  ASSUME NEW T \in Table, Acyclic(T), NEW d \in Proc,
         NEW i \in 0 .. NR_PROCS, NEW j \in 0 .. NR_PROCS, i < j,
         BlockedChain(T, d)[i] = BlockedChain(T, d)[j],
         \A k \in i .. j - 1 : BlockedChain(T, d)[k] \in Proc
  PROVE  \E k \in i .. j - 1 : P_BLOCKEDON(T, BlockedChain(T, d)[k]) = BlockedChain(T, d)[k]
<1> DEFINE c == BlockedChain(T, d)
           C == {c[k] : k \in i .. j - 1}
<1>1. NR_PROCS \in Nat
  BY IPCAssumption
<1>2. \A k \in 0 .. NR_PROCS - 1 : c[k + 1] = IF c[k] \in Proc THEN P_BLOCKEDON(T, c[k]) ELSE c[k]
  BY ChainStep
<1>3. c[i] = c[j] /\ \A k \in i .. j - 1 : c[k] \in Proc
  OBVIOUS
<1> HIDE DEF c
<1>4. i \in i .. j - 1
  BY SMTT(60)
<1>5. C \in SUBSET Proc /\ C # {}
  BY <1>3, <1>4
<1>6. PICK k \in i .. j - 1 : P_BLOCKEDON(T, c[k]) \notin C \ {c[k]}
  BY <1>5 DEF Acyclic
<1>7. P_BLOCKEDON(T, c[k]) = c[k + 1]
  <2>1. k \in 0 .. NR_PROCS - 1
    BY <1>1, SMTT(60)
  <2> QED BY <2>1, <1>2, <1>3
<1>8. c[k + 1] \in C
  <2>1. CASE k + 1 = j
    BY <2>1, <1>3, <1>4
  <2>2. CASE k + 1 # j
    <3>1. k + 1 \in i .. j - 1
      BY <2>2, SMTT(60)
    <3> QED BY <3>1
  <2> QED BY <2>1, <2>2
<1>9. P_BLOCKEDON(T, c[k]) = c[k]
  BY <1>6, <1>7, <1>8
<1> QED BY <1>9 DEF c

\* A walk that stays among the processes comes to one blocked on itself.
LEMMA SelfOnWalk ==
  ASSUME NEW T \in Table, Acyclic(T), NEW d \in Proc,
         \A k \in 0 .. NR_PROCS : BlockedChain(T, d)[k] \in Proc
  PROVE  \E k \in 0 .. NR_PROCS : P_BLOCKEDON(T, BlockedChain(T, d)[k]) = BlockedChain(T, d)[k]
<1> DEFINE c == BlockedChain(T, d)
           h == [k \in 0 .. NR_PROCS |-> c[k]]
<1>1. NR_PROCS \in Nat
  BY IPCAssumption
<1>2. h \in [0 .. NR_PROCS -> 1 .. NR_PROCS]
  BY DEF Proc
<1>3. \A k \in 0 .. NR_PROCS : h[k] = c[k]
  OBVIOUS
<1> HIDE DEF h, c
<1>4. PICK i, j \in 0 .. NR_PROCS : i < j /\ h[i] = h[j]
  BY <1>1, <1>2, MetTwice
<1>5. \A k \in i .. j - 1 : k \in 0 .. NR_PROCS
  BY <1>1, SMTT(60)
<1>6. PICK k \in i .. j - 1 : P_BLOCKEDON(T, c[k]) = c[k]
  BY <1>3, <1>4, <1>5, SelfInCircle DEF c
<1> QED BY <1>5, <1>6 DEF c

\* p may block on d when the walk from d does not come to p: a set in which everyone
\* waits for another contains the walk, and nobody in it waits for themselves.
LEMMA AcyclicMore ==
  ASSUME NEW T \in Table, NEW U, Acyclic(T), NEW p \in Proc, NEW d \in Proc,
         \A x \in Proc \ {p} : P_BLOCKEDON(U, x) \in {P_BLOCKEDON(T, x), ANY, NONE},
         P_BLOCKEDON(U, p) = d,
         p # d => \A k \in 1 .. NR_PROCS : BlockedChain(T, d)[k] # p
  PROVE  Acyclic(U)
<1> SUFFICES ASSUME NEW S \in SUBSET Proc, S # {}, \A x \in S : P_BLOCKEDON(U, x) \in S \ {x} PROVE FALSE
  BY DEF Acyclic
<1> DEFINE c == BlockedChain(T, d)
           K == {k \in 0 .. NR_PROCS : c[k] \in S \ {p}}
<1>1. NR_PROCS \in Nat /\ ANY \notin S /\ NONE \notin S
  BY IPCAssumption
<1>2. \A x \in S \ {p} : P_BLOCKEDON(T, x) \in S \ {x}
  BY <1>1
<1>3. d \in S \ {p}
  <2>1. p \in S
    BY <1>2 DEF Acyclic
  <2> QED BY <2>1
<1>4. /\ c[0] = d
      /\ \A k \in 0 .. NR_PROCS - 1 : c[k + 1] = IF c[k] \in Proc THEN P_BLOCKEDON(T, c[k]) ELSE c[k]
  BY ChainStep, SMTT(60)
<1> HIDE DEF c
<1>5. 0 .. NR_PROCS \subseteq K
  <2>1. 0 \in K
    <3>1. 0 \in 0 .. NR_PROCS
      BY <1>1, SMTT(60)
    <3> QED BY <3>1, <1>3, <1>4
  <2>2. ASSUME NEW k \in 0 .. NR_PROCS - 1, k \in K PROVE k + 1 \in K
    <3>1. k + 1 \in 1 .. NR_PROCS /\ k + 1 \in 0 .. NR_PROCS
      BY <1>1, SMTT(60)
    <3>2. c[k + 1] \in S
      BY <2>2, <1>2, <1>4
    <3>3. c[k + 1] # p
      BY <3>1, <1>3 DEF c
    <3> QED BY <3>1, <3>2, <3>3
  <2> HIDE DEF K
  <2> QED BY <2>1, <2>2, <1>1, IntervalInduction
<1>6. \A k \in 0 .. NR_PROCS : c[k] \in S \ {p}
  BY <1>5
<1>7. \A k \in 0 .. NR_PROCS : c[k] \in Proc
  BY <1>6
<1>8. PICK k \in 0 .. NR_PROCS : P_BLOCKEDON(T, c[k]) = c[k]
  <2>1. \E k \in 0 .. NR_PROCS : P_BLOCKEDON(T, BlockedChain(T, d)[k]) = BlockedChain(T, d)[k]
    BY <1>7, SelfOnWalk DEF c
  <2> QED BY <2>1 DEF c
<1> QED BY <1>2, <1>6, <1>8

\* A circle is that of a process blocked on itself.
LEMMA AcyclicChain ==
  ASSUME NEW T \in Table, Acyclic(T), NEW p \in Proc, NEW k \in 1 .. NR_PROCS, BlockedChain(T, p)[k] = p
  PROVE  P_BLOCKEDON(T, p) = p
<1> DEFINE c == BlockedChain(T, p)
<1>1. NR_PROCS \in Nat
  BY IPCAssumption
<1>2. /\ c[0] = p /\ c[k] = p
      /\ \A m \in 0 .. NR_PROCS - 1 : c[m + 1] = IF c[m] \in Proc THEN P_BLOCKEDON(T, c[m]) ELSE c[m]
  BY ChainStep
<1> HIDE DEF c
<1>3. ASSUME NEW m \in 0 .. k - 1, c[m] \in Proc => P_BLOCKEDON(T, c[m]) = c[m] PROVE c[m] = p
  <2> DEFINE K == {n \in 0 .. k - m : c[m + n] = c[m]}
  <2>1. k - m \in Nat
    BY <1>3, SMTT(60)
  <2>2. 0 \in K
    BY <2>1, SMTT(60)
  <2>3. ASSUME NEW n \in 0 .. (k - m) - 1, n \in K PROVE n + 1 \in K
    <3>1. m + n \in 0 .. NR_PROCS - 1 /\ (m + n) + 1 = m + (n + 1) /\ n + 1 \in 0 .. k - m
      BY <1>1, <1>3, <2>3, SMTT(60)
    <3>2. c[(m + n) + 1] = c[m]
      BY <3>1, <2>3, <1>2, <1>3
    <3> QED BY <3>1, <3>2
  <2>4. 0 .. k - m \subseteq K
    <3> HIDE DEF K
    <3> QED BY <2>1, <2>2, <2>3, IntervalInduction
  <2>5. k - m \in K /\ m + (k - m) = k
    BY <2>1, <2>4, SMTT(60)
  <2> QED BY <2>5, <1>2
<1>4. \A m \in 0 .. k - 1 : c[m] \in Proc
  BY <1>3
<1>5. 0 \in 0 .. NR_PROCS /\ k \in 0 .. NR_PROCS /\ 0 < k
  BY <1>1, SMTT(60)
<1>6. PICK m \in 0 .. k - 1 : P_BLOCKEDON(T, c[m]) = c[m]
  BY <1>2, <1>4, <1>5, SelfInCircle DEF c
<1> QED BY <1>3, <1>6

\* A process blocked on itself receives: nobody sends to themselves.
LEMMA SelfReceives ==
  ASSUME NEW T \in Table, Blocked(T), NEW p \in Proc, P_BLOCKEDON(T, p) = p
  PROVE  ReceivesFromItself(T, p)
<1>1. NONE \notin Proc
  BY IPCAssumption
<1>2. ~T[p].sending
  BY DEF Blocked, BlockedOf, P_BLOCKEDON
<1> QED BY <1>1, <1>2 DEF P_BLOCKEDON, ReceivesFromItself

\* The walk of deadlock is endless only on account of such a process.
LEMMA EndlessOnSelf ==
  ASSUME NEW T, NEW Q, Good(T, Q), NEW p \in Proc, NEW d \in Proc \cup {ANY}, Endless(T, p, d)
  PROVE  \E x \in Proc : ReceivesFromItself(T, x)
<1>1. T \in Table /\ Acyclic(T) /\ Blocked(T) /\ d \in Proc
  BY DEF Good, Endless
<1>2. \A k \in 0 .. NR_PROCS : k = 0 \/ k \in 1 .. NR_PROCS
  <2>1. NR_PROCS \in Nat
    BY IPCAssumption
  <2> QED BY <2>1, SMTT(60)
<1>3. \A k \in 0 .. NR_PROCS : BlockedChain(T, d)[k] \in Proc
  <2>1. BlockedChain(T, d)[0] = d
    BY <1>1, ChainStep
  <2>2. \A k \in 1 .. NR_PROCS : BlockedChain(T, d)[k] \in Proc
    BY DEF Endless
  <2> QED BY <1>1, <1>2, <2>1, <2>2
<1>4. PICK k \in 0 .. NR_PROCS : P_BLOCKEDON(T, BlockedChain(T, d)[k]) = BlockedChain(T, d)[k]
  BY <1>1, <1>3, SelfOnWalk
<1> QED BY <1>1, <1>3, <1>4, SelfReceives

-----------------------------------------------------------------------------
(* The order in a queue *)

\* Whoever is ahead of a member of the queue was ahead of it before.
InOrder(old, new) ==
  \A i \in 1 .. Len(old), j \in 1 .. Len(new) : new[j] = old[i] =>
    \A m \in 1 .. j - 1 : \E k \in 1 .. i - 1 : old[k] = new[m]

Distinct(s) == \A i, j \in 1 .. Len(s) : s[i] = s[j] => i = j

\* The queue has only lost members.
Thinned(old, new) ==
  /\ \A j \in 1 .. Len(new) : \E i \in 1 .. Len(old) : old[i] = new[j]
  /\ InOrder(old, new)

\* A queue that stays as it is has only lost members ...
LEMMA ThinnedSame ==
  ASSUME NEW s \in Seq(Proc), Distinct(s)
  PROVE  Thinned(s, s)
BY DEF Distinct, Thinned, InOrder

\* ... and a queue that loses members twice has only lost members ...
LEMMA ThinnedTwice ==
  ASSUME NEW r \in Seq(Proc), NEW s \in Seq(Proc), NEW t \in Seq(Proc), Thinned(r, s), Thinned(s, t)
  PROVE  Thinned(r, t)
<1>1. ASSUME NEW i \in 1 .. Len(r), NEW j \in 1 .. Len(t), t[j] = r[i], NEW m \in 1 .. j - 1
      PROVE  \E k \in 1 .. i - 1 : r[k] = t[m]
  <2>1. PICK a \in 1 .. Len(s) : s[a] = t[j]
    BY DEF Thinned
  <2>2. PICK b \in 1 .. a - 1 : s[b] = t[m]
    BY <2>1 DEF Thinned, InOrder
  <2>3. PICK k \in 1 .. i - 1 : r[k] = s[b]
    <3>1. s[a] = r[i]
      BY <2>1, <1>1
    <3>2. InOrder(r, s)
      BY DEF Thinned
    <3> QED BY <3>1, <3>2 DEF InOrder
  <2> QED BY <2>2, <2>3
<1>2. ASSUME NEW j \in 1 .. Len(t) PROVE \E i \in 1 .. Len(r) : r[i] = t[j]
  <2>1. PICK a \in 1 .. Len(s) : s[a] = t[j]
    BY DEF Thinned
  <2>2. PICK i \in 1 .. Len(r) : r[i] = s[a]
    BY DEF Thinned
  <2> QED BY <2>1, <2>2
<1> QED BY <1>1, <1>2 DEF Thinned, InOrder

\* ... and so has one that loses its i-th.
LEMMA ThinnedRemoved ==
  ASSUME NEW s \in Seq(Proc), Distinct(s), NEW i \in 1 .. Len(s)
  PROVE  Thinned(s, Removed(s, i))
<1> DEFINE t == Removed(s, i)
           n == Len(s)
           at(k) == IF k < i THEN k ELSE k + 1
<1>1. n \in Nat /\ Len(t) = n - 1 /\ \A k \in 1 .. n - 1 : t[k] = s[at(k)]
  BY RemovedIs, SMTT(60)
<1>2. \A k \in 1 .. n - 1 : at(k) \in 1 .. n
  BY <1>1, SMTT(60)
<1>3. \A k \in 1 .. n - 1 : \A m \in 1 .. k - 1 : m \in 1 .. n - 1 /\ at(m) \in 1 .. at(k) - 1
  BY <1>1, SMTT(60)
<1> HIDE DEF t, at, n
<1>4. ASSUME NEW j \in 1 .. Len(t) PROVE \E k \in 1 .. Len(s) : s[k] = t[j]
  BY <1>1, <1>2 DEF n
<1>5. ASSUME NEW a \in 1 .. Len(s), NEW j \in 1 .. Len(t), t[j] = s[a], NEW m \in 1 .. j - 1
      PROVE  \E k \in 1 .. a - 1 : s[k] = t[m]
  <2>1. a = at(j)
    BY <1>1, <1>2, <1>5 DEF Distinct, n
  <2>2. at(m) \in 1 .. a - 1 /\ s[at(m)] = t[m]
    BY <2>1, <1>1, <1>3
  <2> QED BY <2>2
<1> QED BY <1>4, <1>5 DEF Thinned, InOrder, t

\* The newcomer at the end of a queue is ahead of nobody: Enqueued keeps the order.
LEMMA InOrderAppend ==
  ASSUME NEW s \in Seq(Proc), Distinct(s), NEW p \in Proc, \A i \in 1 .. Len(s) : s[i] # p
  PROVE  InOrder(s, Append(s, p))
<1> SUFFICES ASSUME NEW i \in 1 .. Len(s), NEW j \in 1 .. Len(s) + 1, Append(s, p)[j] = s[i],
                    NEW m \in 1 .. j - 1
             PROVE  \E k \in 1 .. i - 1 : s[k] = Append(s, p)[m]
  BY SMTT(60) DEF InOrder
<1>1. j \in 1 .. Len(s) /\ i = j /\ m \in 1 .. i - 1
  BY SMTT(60) DEF Distinct
<1> QED BY <1>1, SMTT(60)

\* Who is in a queue after somebody joined.
LEMMA AppendIn ==
  ASSUME NEW s \in Seq(Proc), NEW p \in Proc, NEW x
  PROVE  In(Append(s, p), x) <=> x = p \/ In(s, x)
<1>1. /\ Len(s) \in Nat /\ Len(Append(s, p)) = Len(s) + 1 /\ Append(s, p)[Len(s) + 1] = p
      /\ \A i \in 1 .. Len(s) : Append(s, p)[i] = s[i]
  BY SMTT(60)
<1> QED BY <1>1, SMTT(60) DEF In

\* Nobody is in a queue twice.
LEMMA LinksDistinct ==
  ASSUME NEW T, NEW Q, Links(T, Q), NEW d \in Proc
  PROVE  Q[d] \in Seq(Proc) /\ Distinct(Q[d])
BY SMTT(60) DEF Links, Distinct

\* Who is in a queue after its i-th member left.
LEMMA RemovedIn ==
  ASSUME NEW s \in Seq(Proc), Distinct(s), NEW i \in 1 .. Len(s), NEW y
  PROVE  In(Removed(s, i), y) <=> y # s[i] /\ In(s, y)
<1> DEFINE t == Removed(s, i)
           n == Len(s)
<1>1. n \in Nat /\ Len(t) = n - 1 /\ i \in 1 .. n
  BY RemovedIs, SMTT(60)
<1>2. \A k \in 1 .. n - 1 : t[k] = IF k < i THEN s[k] ELSE s[k + 1]
  BY RemovedIs
<1>3. \A j, k \in 1 .. n : s[j] = s[k] => j = k
  BY DEF Distinct
<1> HIDE DEF t, n
<1>4. ASSUME In(t, y) PROVE y # s[i] /\ In(s, y)
  <2>1. PICK j \in 1 .. n - 1 : t[j] = y
    BY <1>1, <1>4 DEF In
  <2> DEFINE k == IF j < i THEN j ELSE j + 1
  <2>2. k \in 1 .. n /\ k # i
    BY <1>1, SMTT(60)
  <2>3. y = s[k]
    BY <2>1, <1>2
  <2> HIDE DEF k
  <2> QED BY <2>2, <2>3, <1>1, <1>3 DEF In, n
<1>5. ASSUME y # s[i], In(s, y) PROVE In(t, y)
  <2>1. PICK j \in 1 .. n : s[j] = y
    BY <1>5 DEF In, n
  <2> DEFINE k == IF j < i THEN j ELSE j - 1
  <2>2. i # j
    BY <2>1, <1>5
  <2>3. k \in 1 .. n - 1 /\ (IF k < i THEN k ELSE k + 1) = j
    BY <2>2, <1>1, SMTT(60)
  <2> HIDE DEF k
  <2>4. t[k] = y
    BY <2>1, <2>3, <1>2
  <2> QED BY <2>3, <2>4, <1>1 DEF In
<1> QED BY <1>4, <1>5 DEF t

\* Who is not sending is in no queue.
LEMMA NotQueued ==
  ASSUME NEW T, NEW Q, Members(T, Q), NEW p \in Proc, ~T[p].sending
  PROVE  \A d \in Proc : \A i \in 1 .. Len(Q[d]) : Q[d][i] # p
BY SMTT(60) DEF Members, In

\* A queue is in its own order.
LEMMA SameInOrder ==
  ASSUME NEW T, NEW Q, Good(T, Q)
  PROVE  \A e \in Proc : InOrder(Q[e], Q[e])
<1>1. \A e \in Proc : Q[e] \in Seq(Proc) /\ Distinct(Q[e])
  BY LinksDistinct DEF Good, Links
<1> QED BY <1>1, ThinnedSame DEF Thinned

-----------------------------------------------------------------------------
(* Updates of the table *)

\* The invariants do not read the pointers, and only History reads the result.
LEMMA FlagsFrame ==
  ASSUME NEW T, NEW U, \A x \in Proc : SameFlagsOf(T, U, x)
  PROVE  /\ \A x \in Proc : P_BLOCKEDON(U, x) = P_BLOCKEDON(T, x)
         /\ Acyclic(T) => Acyclic(U)
         /\ Blocked(T) => Blocked(U)
         /\ Wakeful(T) => Wakeful(U)
         /\ Awaited(T) => Awaited(U)
         /\ \A Q : Members(T, Q) => Members(U, Q)
<1>1. ASSUME NEW x \in Proc PROVE P_BLOCKEDON(U, x) = P_BLOCKEDON(T, x)
  BY DEF SameFlagsOf, P_BLOCKEDON
<1>2. Acyclic(T) => Acyclic(U)
  BY <1>1, AcyclicLess
<1>3. Blocked(T) => Blocked(U)
  BY SMTT(60) DEF SameFlagsOf, Blocked, BlockedOf
<1>4. Wakeful(T) => Wakeful(U)
  BY SMTT(60) DEF SameFlagsOf, Wakeful
<1>5. Awaited(T) => Awaited(U)
  <2> SUFFICES ASSUME Awaited(T), NEW x \in Proc, P_BLOCKEDON(U, x) \in Proc
               PROVE  U[P_BLOCKEDON(U, x)].alive
    BY DEF Awaited
  <2> QED BY <1>1 DEF Awaited, SameFlagsOf
<1>6. \A Q : Members(T, Q) => Members(U, Q)
  BY SMTT(60) DEF SameFlagsOf, Members
<1> QED BY <1>1, <1>2, <1>3, <1>4, <1>5, <1>6

\* Updates of a process keep its type.
LEMMA SlotUpdate ==
  ASSUME NEW r \in Slot
  PROVE  /\ \A d \in Proc : [r EXCEPT !.sending = TRUE, !.sendto_e = d] \in Slot
         /\ \A m \in Message :
              [r EXCEPT !.delivermsg = m, !.reply_pend = FALSE, !.receiving = FALSE, !.getfrom_e = NONE] \in Slot
         /\ [r EXCEPT !.sending = FALSE, !.sendto_e = NONE, !.q_link = NULL] \in Slot
         /\ [r EXCEPT !.sending = FALSE, !.sendto_e = NONE, !.receiving = FALSE, !.getfrom_e = NONE] \in Slot
         /\ \A src \in Proc \cup {ANY} : [r EXCEPT !.getfrom_e = src, !.receiving = TRUE] \in Slot
         /\ \A S \in SUBSET Proc : [r EXCEPT !.notify_pending = S] \in Slot
         /\ \A c \in Code : [r EXCEPT !.retreg = c] \in Slot
         /\ \A b \in BOOLEAN : [r EXCEPT !.reply_pend = b] \in Slot
         /\ [r EXCEPT !.alive = FALSE] \in Slot
         /\ [r EXCEPT !.delivermsg = NONE, !.retreg = "OK"] \in Slot
<1>1. \A d \in Proc : [r EXCEPT !.sending = TRUE, !.sendto_e = d] \in Slot
  BY DEF Slot
<1>2. \A m \in Message :
        [r EXCEPT !.delivermsg = m, !.reply_pend = FALSE, !.receiving = FALSE, !.getfrom_e = NONE] \in Slot
  BY DEF Slot
<1>3. [r EXCEPT !.sending = FALSE, !.sendto_e = NONE, !.q_link = NULL] \in Slot
  BY DEF Slot
<1>4. [r EXCEPT !.sending = FALSE, !.sendto_e = NONE, !.receiving = FALSE, !.getfrom_e = NONE] \in Slot
  BY DEF Slot
<1>5. \A src \in Proc \cup {ANY} : [r EXCEPT !.getfrom_e = src, !.receiving = TRUE] \in Slot
  BY DEF Slot
<1>6. /\ \A S \in SUBSET Proc : [r EXCEPT !.notify_pending = S] \in Slot
      /\ \A c \in Code : [r EXCEPT !.retreg = c] \in Slot
      /\ \A b \in BOOLEAN : [r EXCEPT !.reply_pend = b] \in Slot
      /\ [r EXCEPT !.alive = FALSE] \in Slot
  BY DEF Slot
<1>7. [r EXCEPT !.delivermsg = NONE, !.retreg = "OK"] \in Slot
  BY DEF Slot, Code
<1> QED BY <1>1, <1>2, <1>3, <1>4, <1>5, <1>6, <1>7

\* What replacing the slot of p does to the table.
LEMMA TableUpdate ==
  ASSUME NEW T \in Table, NEW p \in Proc, NEW r \in Slot
  PROVE  /\ [T EXCEPT ![p] = r] \in Table
         /\ [T EXCEPT ![p] = r][p] = r
         /\ \A x \in Proc \ {p} : [T EXCEPT ![p] = r][x] = T[x]
BY DEF Table

\* Process p, which is in no queue, is not blocked afterwards; nothing else changes.
LEMMA RestStep ==
  ASSUME NEW T, NEW Q, Good(T, Q), NEW U \in Table, NEW p \in Proc,
         ~T[p].sending, ~U[p].sending, ~U[p].receiving, U[p].alive = T[p].alive,
         \A x \in Proc \ {p} : SameFlagsOf(T, U, x),
         \A x \in Proc : U[x].caller_q = T[x].caller_q /\ U[x].q_link = T[x].q_link
  PROVE  Good(U, Q) /\ (Awaited(T) => Awaited(U))
<1>1. P_BLOCKEDON(U, p) = NONE
  BY DEF P_BLOCKEDON
<1>2. \A x \in Proc \ {p} : P_BLOCKEDON(U, x) = P_BLOCKEDON(T, x)
  BY DEF SameFlagsOf, P_BLOCKEDON
<1>3. Acyclic(U)
  BY <1>1, <1>2, AcyclicLess DEF Good
<1>4. Blocked(U)
  BY SMTT(60) DEF Good, Blocked, BlockedOf, SameFlagsOf
<1>5. Wakeful(U)
  BY SMTT(60) DEF Good, Wakeful, SameFlagsOf
<1>6. Links(U, Q)
  <2>1. \A d \in Proc : \A i \in 1 .. Len(Q[d]) : Q[d][i] \in Proc
    BY SMTT(60) DEF Good, Links
  <2>2. Links(T, Q)
    BY DEF Good
  <2>3. \A d \in Proc : \A i \in 1 .. Len(Q[d]) : U[Q[d][i]].q_link = T[Q[d][i]].q_link
    BY <2>1
  <2> QED BY <2>2, <2>3, LinksFrame, SMTT(60)
<1>7. Members(U, Q)
  BY SMTT(60) DEF Good, Members, SameFlagsOf
<1>8. ASSUME Awaited(T) PROVE Awaited(U)
  <2> SUFFICES ASSUME NEW x \in Proc, P_BLOCKEDON(U, x) \in Proc PROVE U[P_BLOCKEDON(U, x)].alive
    BY DEF Awaited
  <2>1. x # p
    BY <1>1, IPCAssumption
  <2>2. T[P_BLOCKEDON(T, x)].alive
    BY <2>1, <1>2, <1>8 DEF Awaited
  <2> QED BY <2>1, <2>2, <1>2, SMTT(60) DEF SameFlagsOf
<1> QED BY <1>3, <1>4, <1>5, <1>6, <1>7, <1>8 DEF Good

\* Who is in the queues when the i-th of d's has left.
LEMMA LeftQueue ==
  ASSUME NEW T, NEW Q, Links(T, Q), NEW d \in Proc, NEW i \in 1 .. Len(Q[d]), NEW e \in Proc, NEW y
  PROVE  In([Q EXCEPT ![d] = Removed(Q[d], i)][e], y) <=> y # Q[d][i] /\ In(Q[e], y)
<1>1. Q \in [Proc -> Seq(Proc)]
  BY DEF Links
<1>2. CASE e # d
  <2>1. [Q EXCEPT ![d] = Removed(Q[d], i)][e] = Q[e]
    BY <1>1, <1>2
  <2>2. ~In(Q[e], Q[d][i])
    BY <1>2 DEF Links, In
  <2> QED BY <2>1, <2>2
<1>3. CASE e = d
  <2>1. [Q EXCEPT ![d] = Removed(Q[d], i)][e] = Removed(Q[d], i)
    BY <1>1, <1>3
  <2>2. Q[d] \in Seq(Proc) /\ Distinct(Q[d])
    BY LinksDistinct
  <2> QED BY <2>1, <2>2, <1>3, RemovedIn, SMTT(60)
<1> QED BY <1>2, <1>3

\* A call leaves in the slot of x what the history speaks of.
Kept(T, U, x) ==
  /\ U[x].alive = T[x].alive /\ U[x].sending = T[x].sending /\ U[x].receiving = T[x].receiving
  /\ U[x].sendto_e = T[x].sendto_e /\ U[x].delivermsg = T[x].delivermsg /\ U[x].retreg = T[x].retreg

\* What two calls keep, both together keep.
LEMMA KeptTwice ==
  ASSUME NEW T, NEW V, NEW U, NEW x, Kept(T, V, x), Kept(V, U, x)
  PROVE  Kept(T, U, x)
BY SMTT(60) DEF Kept

\* The flags and the register of a slot are more than the history speaks of.
LEMMA KeptFlags ==
  ASSUME NEW T, NEW U, NEW x, SameFlagsOf(T, U, x), U[x].retreg = T[x].retreg
  PROVE  Kept(T, U, x)
BY SMTT(60) DEF Kept, SameFlagsOf

\* p runs in user mode.
Free(T, p) == T[p].alive /\ ~T[p].sending /\ ~T[p].receiving /\ T[p].delivermsg = NONE

\* The result of a call is put in the register of the caller.
LEMMA RetregSet ==
  ASSUME NEW T \in Table, NEW p \in Proc, NEW c \in Code
  PROVE  LET U == [T EXCEPT ![p].retreg = c] IN
         /\ U \in Table
         /\ \A x \in Proc : SameFlagsOf(T, U, x) /\ U[x].retreg = IF x = p THEN c ELSE T[x].retreg
         /\ \A Q : Good(T, Q) => Good(U, Q)
         /\ Awaited(T) => Awaited(U)
<1> DEFINE r == [T[p] EXCEPT !.retreg = c]
           U == [T EXCEPT ![p] = r]
<1>1. T[p] \in Slot
  BY DEF Table
<1>2. [T EXCEPT ![p].retreg = c] = U
  BY DEF Table
<1>3. r \in Slot
  BY <1>1, SlotUpdate
<1>4. U \in Table /\ U[p] = r /\ \A x \in Proc \ {p} : U[x] = T[x]
  <2> HIDE DEF r
  <2> QED BY <1>3, TableUpdate, SMTT(60)
<1>5. /\ r.alive = T[p].alive /\ r.sending = T[p].sending /\ r.receiving = T[p].receiving
      /\ r.sendto_e = T[p].sendto_e /\ r.getfrom_e = T[p].getfrom_e /\ r.reply_pend = T[p].reply_pend
      /\ r.delivermsg = T[p].delivermsg /\ r.notify_pending = T[p].notify_pending
      /\ r.caller_q = T[p].caller_q /\ r.q_link = T[p].q_link /\ r.retreg = c
  BY <1>1 DEF Slot
<1> HIDE DEF r, U
<1>6. ASSUME NEW x \in Proc
      PROVE  /\ SameFlagsOf(T, U, x) /\ U[x].retreg = IF x = p THEN c ELSE T[x].retreg
             /\ U[x].caller_q = T[x].caller_q /\ U[x].q_link = T[x].q_link
  <2>1. CASE x = p
    BY <2>1, <1>4, <1>5 DEF SameFlagsOf
  <2>2. CASE x # p
    BY <2>2, <1>4 DEF SameFlagsOf
  <2> QED BY <2>1, <2>2
<1>7. ASSUME NEW Q, Good(T, Q) PROVE Good(U, Q)
  <2>1. Links(U, Q)
    <3>1. Links(T, Q) /\ \A d \in Proc : \A i \in 1 .. Len(Q[d]) : Q[d][i] \in Proc
      BY <1>7, SMTT(60) DEF Good, Links
    <3> QED BY <3>1, <1>6, LinksFrame, SMTT(60)
  <2>2. /\ Acyclic(T) => Acyclic(U)
        /\ Blocked(T) => Blocked(U)
        /\ Wakeful(T) => Wakeful(U)
        /\ Members(T, Q) => Members(U, Q)
    BY <1>6, FlagsFrame
  <2> QED BY <2>1, <2>2, <1>4, <1>7 DEF Good
<1>8. Awaited(T) => Awaited(U)
  BY <1>6, FlagsFrame
<1> QED BY <1>2, <1>4, <1>6, <1>7, <1>8

Notified(m) == \E s \in Proc : m = [src |-> s, notify |-> TRUE]

\* The message a send of s hands over.
MessageOf(s) == [src |-> s, notify |-> FALSE]

-----------------------------------------------------------------------------
(* A process ends *)

\* x leaves the queue it is in, and its flags are cleared.
LEMMA ClearIpcStep ==
  ASSUME NEW T \in Table, NEW Q, Links(T, Q), Members(T, Q), Acyclic(T), Wakeful(T), NEW x \in Proc,
         T[x].sending => T[x].sendto_e \in Proc, \A y \in Proc \ {x} : BlockedOf(T, y)
  PROVE  LET U == clear_ipc(T, x) IN
         /\ \E R : Good(U, R) /\ \A e \in Proc : Thinned(Q[e], R[e])
         /\ U \in Table
         /\ \A y \in Proc \ {x} : SameFlagsOf(T, U, y)
         /\ \A y \in Proc : U[y].retreg = T[y].retreg
         /\ ~U[x].sending /\ ~U[x].receiving
         /\ U[x].alive = T[x].alive /\ U[x].delivermsg = T[x].delivermsg
<1> DEFINE W == IF T[x].sending THEN Unlinked(T, x, T[x].sendto_e) ELSE T
           r == [W[x] EXCEPT !.sending = FALSE, !.sendto_e = NONE, !.receiving = FALSE, !.getfrom_e = NONE]
           U == [W EXCEPT ![x] = r]
<1>1. PICK R : /\ W \in Table /\ SameFlags(T, W) /\ Links(W, R)
               /\ \A e \in Proc : Thinned(Q[e], R[e])
               /\ \A e, y \in Proc : In(R[e], y) <=> y # x /\ In(Q[e], y)
  <2>1. CASE T[x].sending
    <3> DEFINE d == T[x].sendto_e
    <3>1. d \in Proc /\ In(Q[d], x)
      BY <2>1 DEF Members
    <3> HIDE DEF d
    <3>2. PICK i \in 1 .. Len(Q[d]) : Q[d][i] = x
      BY <3>1 DEF In
    <3> DEFINE S == [Q EXCEPT ![d] = Removed(Q[d], i)]
    <3>3. Unlinked(T, x, d) \in Table /\ SameFlags(T, Unlinked(T, x, d)) /\ Links(Unlinked(T, x, d), S)
      BY <3>1, <3>2, UnlinkedLinks
    <3>4. ASSUME NEW e \in Proc PROVE Thinned(Q[e], S[e])
      <4>1. Q[e] \in Seq(Proc) /\ Distinct(Q[e]) /\ Q \in [Proc -> Seq(Proc)]
        <5>1. Q \in [Proc -> Seq(Proc)]
          BY DEF Links
        <5> QED BY <5>1, LinksDistinct
      <4>2. CASE e = d
        <5>1. S[e] = Removed(Q[e], i)
          BY <4>1, <4>2
        <5> HIDE DEF S
        <5> QED BY <4>1, <4>2, <5>1, ThinnedRemoved
      <4>3. CASE e # d
        <5>1. S[e] = Q[e]
          BY <4>1, <4>3
        <5> HIDE DEF S
        <5> QED BY <4>1, <5>1, ThinnedSame
      <4> QED BY <4>2, <4>3
    <3>5. ASSUME NEW e \in Proc, NEW y \in Proc PROVE In(S[e], y) <=> y # x /\ In(Q[e], y)
      BY <3>1, <3>2, LeftQueue
    <3>6. W = Unlinked(T, x, d)
      BY <2>1 DEF d
    <3> HIDE DEF S, W
    <3> QED BY <3>3, <3>4, <3>5, <3>6
  <2>2. CASE ~T[x].sending
    <3>1. W = T
      BY <2>2
    <3>2. SameFlags(T, T)
      BY DEF SameFlags, SameFlagsOf
    <3>3. ASSUME NEW e \in Proc PROVE Thinned(Q[e], Q[e])
      BY LinksDistinct, ThinnedSame
    <3>4. \A e \in Proc : ~In(Q[e], x)
      BY <2>2 DEF Members
    <3> HIDE DEF W
    <3> QED BY <3>1, <3>2, <3>3, <3>4
  <2> QED BY <2>1, <2>2
<1> HIDE DEF W
<1>2. W[x] \in Slot
  BY <1>1 DEF Table
<1>3. /\ r \in Slot /\ ~r.sending /\ ~r.receiving /\ r.alive = W[x].alive
      /\ r.delivermsg = W[x].delivermsg /\ r.retreg = W[x].retreg
      /\ r.caller_q = W[x].caller_q /\ r.q_link = W[x].q_link
  <2>1. r \in Slot
    BY <1>2, SlotUpdate
  <2> QED BY <2>1, <1>2 DEF Slot
<1>4. clear_ipc(T, x) = U
  <2>1. clear_ipc(T, x) = [W EXCEPT ![x].sending = FALSE, ![x].sendto_e = NONE,
                                     ![x].receiving = FALSE, ![x].getfrom_e = NONE]
    BY DEF clear_ipc, W
  <2> QED BY <2>1, <1>1 DEF Table
<1> HIDE DEF r
<1>5. U \in Table /\ U[x] = r /\ \A y \in Proc \ {x} : U[y] = W[y]
  BY <1>1, <1>3, TableUpdate, SMTT(60)
<1> HIDE DEF U
<1>6. \A y \in Proc : SameFlagsOf(T, W, y) /\ W[y].retreg = T[y].retreg
  BY <1>1 DEF SameFlags
<1>7. /\ \A y \in Proc \ {x} : SameFlagsOf(T, U, y)
      /\ \A y \in Proc : U[y].retreg = T[y].retreg
      /\ ~U[x].sending /\ ~U[x].receiving
      /\ U[x].alive = T[x].alive /\ U[x].delivermsg = T[x].delivermsg
  <2>1. \A y \in Proc \ {x} : SameFlagsOf(T, U, y) /\ U[y].retreg = T[y].retreg
    <3>1. ASSUME NEW y \in Proc \ {x} PROVE SameFlagsOf(T, U, y) /\ U[y].retreg = T[y].retreg
      <4>1. U[y] = W[y] /\ SameFlagsOf(T, W, y) /\ W[y].retreg = T[y].retreg
        BY <1>5, <1>6
      <4> QED BY <4>1 DEF SameFlagsOf
    <3> QED BY <3>1
  <2>2. U[x].retreg = T[x].retreg /\ U[x].alive = T[x].alive /\ U[x].delivermsg = T[x].delivermsg
    BY <1>3, <1>5, <1>6 DEF SameFlagsOf
  <2> QED BY <2>1, <2>2, <1>3, <1>5
<1>8. Acyclic(U)
  <2>1. P_BLOCKEDON(U, x) = NONE
    BY <1>7 DEF P_BLOCKEDON
  <2>2. \A y \in Proc \ {x} : P_BLOCKEDON(U, y) = P_BLOCKEDON(T, y)
    BY <1>7 DEF P_BLOCKEDON, SameFlagsOf
  <2> QED BY <2>1, <2>2, AcyclicLess
<1>9. Blocked(U)
  <2> SUFFICES ASSUME NEW y \in Proc PROVE BlockedOf(U, y)
    BY DEF Blocked
  <2>1. CASE y = x
    BY <2>1, <1>7 DEF BlockedOf
  <2>2. CASE y # x
    BY <2>2, <1>7, SMTT(60) DEF BlockedOf, SameFlagsOf
  <2> QED BY <2>1, <2>2
<1>10. Wakeful(U)
  BY <1>7, SMTT(60) DEF Wakeful, SameFlagsOf
<1>11. Links(U, R)
  <2>1. \A e \in Proc : \A i \in 1 .. Len(R[e]) : R[e][i] \in Proc
    BY <1>1, SMTT(60) DEF Links
  <2>2. \A y \in Proc : U[y].caller_q = W[y].caller_q /\ U[y].q_link = W[y].q_link
    BY <1>3, <1>5
  <2>3. \A e \in Proc : \A i \in 1 .. Len(R[e]) : U[R[e][i]].q_link = W[R[e][i]].q_link
    BY <2>1, <2>2
  <2> QED BY <2>2, <2>3, <1>1, LinksFrame, SMTT(60)
<1>12. Members(U, R)
  <2> SUFFICES ASSUME NEW e \in Proc, NEW y \in Proc
               PROVE  (U[y].sending /\ U[y].sendto_e = e) <=> In(R[e], y)
    BY DEF Members
  <2>1. CASE y = x
    BY <2>1, <1>1, <1>7
  <2>2. CASE y # x
    <3>1. (T[y].sending /\ T[y].sendto_e = e) <=> In(Q[e], y)
      BY DEF Members
    <3> QED BY <2>2, <3>1, <1>1, <1>7 DEF SameFlagsOf
  <2> QED BY <2>1, <2>2
<1>13. Good(U, R)
  BY <1>5, <1>8, <1>9, <1>10, <1>11, <1>12 DEF Good
<1> QED BY <1>1, <1>4, <1>5, <1>7, <1>13

\* What freeing the processes blocked on p may do to process x.
Freed(T, U, p, x) ==
  /\ U[x].alive = T[x].alive /\ U[x].delivermsg = T[x].delivermsg
  /\ \/ /\ U[x].sending = T[x].sending /\ U[x].receiving = T[x].receiving
        /\ U[x].sendto_e = T[x].sendto_e /\ U[x].getfrom_e = T[x].getfrom_e
        /\ U[x].retreg = T[x].retreg
     \/ /\ ~U[x].sending /\ ~U[x].receiving /\ U[x].retreg = "EDEADSRCDST"
        /\ P_BLOCKEDON(T, x) = p

\* What the loop of clear_ipc_refs does to x in several turns, it may do in one.
LEMMA FreedTwice ==
  ASSUME NEW T, NEW U, NEW V, NEW p \in Proc, NEW x \in Proc, Freed(T, U, p, x), Freed(U, V, p, x)
  PROVE  Freed(T, V, p, x)
<1>1. CASE ~V[x].sending /\ ~V[x].receiving /\ V[x].retreg = "EDEADSRCDST" /\ P_BLOCKEDON(U, x) = p
  <2>1. P_BLOCKEDON(T, x) = p
    BY <1>1, IPCAssumption DEF Freed, P_BLOCKEDON
  <2> QED BY <1>1, <2>1 DEF Freed
<1>2. CASE /\ V[x].sending = U[x].sending /\ V[x].receiving = U[x].receiving
           /\ V[x].sendto_e = U[x].sendto_e /\ V[x].getfrom_e = U[x].getfrom_e
           /\ V[x].retreg = U[x].retreg
  BY <1>2 DEF Freed
<1> QED BY <1>1, <1>2 DEF Freed

\* One step of the loop of clear_ipc_refs.
LEMMA ClearRefStep ==
  ASSUME NEW T, NEW Q, Good(T, Q), NEW x \in Proc, NEW p \in Proc
  PROVE  LET U == clear_ipc_ref(T, x, p) IN
         /\ \E R : Good(U, R) /\ \A e \in Proc : Thinned(Q[e], R[e])
         /\ U \in Table
         /\ \A y \in Proc : Freed(T, U, p, y)
         /\ \A y \in Proc \ {x} : P_BLOCKEDON(U, y) = P_BLOCKEDON(T, y)
         /\ P_BLOCKEDON(U, x) # p
<1> DEFINE U == clear_ipc_ref(T, x, p)
           r1 == [T[x] EXCEPT !.notify_pending = T[x].notify_pending \ {p}]
           T1 == [T EXCEPT ![x] = r1]
           r2 == [r1 EXCEPT !.retreg = "EDEADSRCDST"]
           T2 == [T1 EXCEPT ![x] = r2]
<1>1. T \in Table /\ T[x] \in Slot /\ NONE \notin Proc
  BY IPCAssumption DEF Good, Table
<1>2. /\ r1 \in Slot
      /\ r1.alive = T[x].alive /\ r1.sending = T[x].sending /\ r1.receiving = T[x].receiving
      /\ r1.sendto_e = T[x].sendto_e /\ r1.getfrom_e = T[x].getfrom_e
      /\ r1.reply_pend = T[x].reply_pend /\ r1.delivermsg = T[x].delivermsg
      /\ r1.caller_q = T[x].caller_q /\ r1.q_link = T[x].q_link
      /\ r1.notify_pending = T[x].notify_pending \ {p} /\ r1.retreg = T[x].retreg
  <2>1. T[x].notify_pending \ {p} \in SUBSET Proc
    BY <1>1 DEF Slot
  <2>2. r1 \in Slot
    BY <2>1, <1>1, SlotUpdate
  <2> QED BY <2>2, <1>1 DEF Slot
<1>3. [T EXCEPT ![x].notify_pending = @ \ {p}] = T1
  BY <1>1 DEF Table
<1> HIDE DEF r1
<1>4. T1 \in Table /\ T1[x] = r1 /\ \A y \in Proc \ {x} : T1[y] = T[y]
  BY <1>1, <1>2, TableUpdate, SMTT(60)
<1>5. /\ r2 \in Slot
      /\ r2.alive = T[x].alive /\ r2.sending = T[x].sending /\ r2.receiving = T[x].receiving
      /\ r2.sendto_e = T[x].sendto_e /\ r2.getfrom_e = T[x].getfrom_e
      /\ r2.reply_pend = T[x].reply_pend /\ r2.delivermsg = T[x].delivermsg
      /\ r2.caller_q = T[x].caller_q /\ r2.q_link = T[x].q_link
      /\ r2.notify_pending = T[x].notify_pending \ {p} /\ r2.retreg = "EDEADSRCDST"
  <2>1. r2 \in Slot
    BY <1>2, SlotUpdate DEF Code
  <2> QED BY <2>1, <1>2 DEF Slot
<1>6. [T1 EXCEPT ![x].retreg = "EDEADSRCDST"] = T2
  BY <1>4 DEF Table
<1> HIDE DEF T1, r2
<1>7. T2 \in Table /\ T2[x] = r2 /\ \A y \in Proc \ {x} : T2[y] = T[y]
  BY <1>4, <1>5, TableUpdate, SMTT(60)
<1> HIDE DEF T2
<1>8. ASSUME NEW V \in Table, V[x] \in {r1, r2}, \A y \in Proc \ {x} : V[y] = T[y]
      PROVE  Good(V, Q) /\ \A y \in Proc : P_BLOCKEDON(V, y) = P_BLOCKEDON(T, y)
  <2>1. /\ V[x].alive = T[x].alive /\ V[x].sending = T[x].sending /\ V[x].receiving = T[x].receiving
        /\ V[x].sendto_e = T[x].sendto_e /\ V[x].getfrom_e = T[x].getfrom_e
        /\ V[x].reply_pend = T[x].reply_pend /\ V[x].delivermsg = T[x].delivermsg
        /\ V[x].caller_q = T[x].caller_q /\ V[x].q_link = T[x].q_link
        /\ V[x].notify_pending \subseteq T[x].notify_pending
    BY <1>2, <1>5, <1>8
  <2>2. \A y \in Proc : P_BLOCKEDON(V, y) = P_BLOCKEDON(T, y)
    BY <2>1, <1>8 DEF P_BLOCKEDON
  <2>3. Acyclic(V)
    BY <2>2, AcyclicLess DEF Good
  <2>4. Blocked(V)
    BY <2>1, <1>8, SMTT(60) DEF Good, Blocked, BlockedOf
  <2>5. Wakeful(V)
    <3> SUFFICES ASSUME NEW y \in Proc, V[y].receiving, ~V[y].sending
                 PROVE  /\ \A z \in Proc : V[z].sending /\ V[z].sendto_e = y => V[y].getfrom_e \notin {ANY, z}
                        /\ V[y].reply_pend \/ \A z \in V[y].notify_pending : V[y].getfrom_e \notin {ANY, z}
      BY DEF Wakeful
    <3>1. \A z \in Proc : V[z].sending = T[z].sending /\ V[z].sendto_e = T[z].sendto_e
      BY <2>1, <1>8
    <3>2. /\ V[y].receiving = T[y].receiving /\ V[y].getfrom_e = T[y].getfrom_e
          /\ V[y].reply_pend = T[y].reply_pend /\ V[y].notify_pending \subseteq T[y].notify_pending
      BY <2>1, <1>8
    <3>3. /\ \A z \in Proc : T[z].sending /\ T[z].sendto_e = y => T[y].getfrom_e \notin {ANY, z}
          /\ T[y].reply_pend \/ \A z \in T[y].notify_pending : T[y].getfrom_e \notin {ANY, z}
      BY <3>1, <3>2 DEF Good, Wakeful
    <3> QED BY <3>1, <3>2, <3>3
  <2>6. Links(V, Q)
    <3>1. Links(T, Q) /\ \A e \in Proc : \A i \in 1 .. Len(Q[e]) : Q[e][i] \in Proc
      BY SMTT(60) DEF Good, Links
    <3>2. \A y \in Proc : V[y].caller_q = T[y].caller_q /\ V[y].q_link = T[y].q_link
      BY <2>1, <1>8
    <3>3. \A e \in Proc : \A i \in 1 .. Len(Q[e]) : V[Q[e][i]].q_link = T[Q[e][i]].q_link
      BY <3>1, <3>2
    <3> QED BY <3>1, <3>2, <3>3, LinksFrame, SMTT(60)
  <2>7. Members(V, Q)
    BY <2>1, <1>8, SMTT(60) DEF Good, Members
  <2> QED BY <2>2, <2>3, <2>4, <2>5, <2>6, <2>7 DEF Good
<1>9. \A e \in Proc : Thinned(Q[e], Q[e])
  BY LinksDistinct, ThinnedSame DEF Good
<1>10. CASE ~T[x].alive
  <2>1. U = T
    BY <1>10 DEF clear_ipc_ref
  <2>2. \A y \in Proc : Freed(T, T, p, y)
    BY DEF Freed
  <2>3. P_BLOCKEDON(T, x) # p
    BY <1>10, <1>1 DEF Good, Blocked, BlockedOf, P_BLOCKEDON
  <2> HIDE DEF U
  <2> QED BY <2>1, <2>2, <2>3, <1>1, <1>9 DEF U
<1>11. CASE T[x].alive /\ P_BLOCKEDON(T, x) # p
  <2>1. U = T1
    BY <1>3, <1>11 DEF clear_ipc_ref
  <2>2. Good(T1, Q) /\ \A y \in Proc : P_BLOCKEDON(T1, y) = P_BLOCKEDON(T, y)
    BY <1>4, <1>8
  <2>3. \A y \in Proc : Freed(T, T1, p, y)
    BY <1>2, <1>4 DEF Freed
  <2> HIDE DEF U
  <2> QED BY <2>1, <2>2, <2>3, <1>4, <1>9, <1>11 DEF U
<1>12. CASE T[x].alive /\ P_BLOCKEDON(T, x) = p
  <2>1. U = clear_ipc(T2, x)
    BY <1>3, <1>6, <1>12 DEF clear_ipc_ref
  <2>2. Good(T2, Q) /\ \A y \in Proc : P_BLOCKEDON(T2, y) = P_BLOCKEDON(T, y)
    BY <1>7, <1>8
  <2>3. /\ Links(T2, Q) /\ Members(T2, Q) /\ Acyclic(T2) /\ Wakeful(T2)
        /\ T2[x].sending => T2[x].sendto_e \in Proc
        /\ \A y \in Proc \ {x} : BlockedOf(T2, y)
    BY <2>2 DEF Good, Blocked, BlockedOf
  <2> HIDE DEF U
  <2>4. /\ \E R : Good(U, R) /\ \A e \in Proc : Thinned(Q[e], R[e])
        /\ U \in Table
        /\ \A y \in Proc \ {x} : SameFlagsOf(T2, U, y)
        /\ \A y \in Proc : U[y].retreg = T2[y].retreg
        /\ ~U[x].sending /\ ~U[x].receiving
        /\ U[x].alive = T2[x].alive /\ U[x].delivermsg = T2[x].delivermsg
    BY <2>1, <2>3, <1>7, ClearIpcStep
  <2>5. ASSUME NEW y \in Proc PROVE Freed(T, U, p, y)
    <3>1. CASE y = x
      BY <3>1, <2>4, <1>5, <1>7, <1>12 DEF Freed
    <3>2. CASE y # x
      BY <3>2, <2>4, <1>7, SMTT(60) DEF Freed, SameFlagsOf
    <3> QED BY <3>1, <3>2
  <2>6. \A y \in Proc \ {x} : P_BLOCKEDON(U, y) = P_BLOCKEDON(T, y)
    BY <2>4, <1>7, SMTT(60) DEF SameFlagsOf, P_BLOCKEDON
  <2>7. P_BLOCKEDON(U, x) # p
    BY <2>4, <1>1 DEF P_BLOCKEDON
  <2> QED BY <2>4, <2>5, <2>6, <2>7 DEF U
<1> QED BY <1>10, <1>11, <1>12

\* The whole loop: the tables between its steps are all good, and in the end nobody is blocked on p.
LEMMA ClearRefsStep ==
  ASSUME NEW T, NEW Q, Good(T, Q), NEW p \in Proc
  PROVE  LET U == clear_ipc_refs(T, p) IN
         /\ \E R : Good(U, R) /\ \A e \in Proc : Thinned(Q[e], R[e])
         /\ \A y \in Proc : Freed(T, U, p, y) /\ P_BLOCKEDON(U, y) # p
<1> DEFINE Gd == {V \in Table : \E R : Good(V, R)}
           f == [k \in Nat |-> [V \in Gd |-> IF k \in Proc THEN clear_ipc_ref(V, k, p) ELSE V]]
<1>1. NR_PROCS \in Nat /\ T \in Gd
  BY IPCAssumption DEF Good
<1>2. ASSUME NEW k \in Proc, NEW V \in Gd PROVE clear_ipc_ref(V, k, p) \in Gd
  <2>1. PICK R : Good(V, R)
    OBVIOUS
  <2> QED BY <2>1, ClearRefStep
<1>3. f \in [Nat -> [Gd -> Gd]]
  <2> HIDE DEF Gd
  <2> QED BY <1>2
<1>4. PICK g : Iterates(g, Gd, T, f, NR_PROCS)
  <2> HIDE DEF f, Gd
  <2> QED BY <1>1, <1>3, Iteration
<1>5. \A k \in 1 .. NR_PROCS : f[k][g[k - 1]] = clear_ipc_ref(g[k - 1], k, p)
  <2> HIDE DEF Gd
  <2> QED BY <1>1, <1>4, SMTT(60) DEF Iterates, Proc
<1>6. g = [k \in 0 .. NR_PROCS |-> IF k = 0 THEN T ELSE clear_ipc_ref(g[k - 1], k, p)]
  <2> HIDE DEF f, Gd
  <2> QED BY <1>1, <1>4, <1>5, SMTT(60) DEF Iterates
<1>7. PICK c : /\ c = [k \in 0 .. NR_PROCS |-> IF k = 0 THEN T ELSE clear_ipc_ref(c[k - 1], k, p)]
               /\ clear_ipc_refs(T, p) = c[NR_PROCS]
  BY <1>6 DEF clear_ipc_refs
<1>8. c[0] = T /\ \A k \in 0 .. NR_PROCS - 1 : c[k + 1] = clear_ipc_ref(c[k], k + 1, p)
  <2>1. c[0] = T
    BY <1>1, <1>7, SMTT(60)
  <2>2. ASSUME NEW k \in 0 .. NR_PROCS - 1 PROVE c[k + 1] = clear_ipc_ref(c[k], k + 1, p)
    <3>1. k + 1 \in 0 .. NR_PROCS /\ k + 1 # 0 /\ (k + 1) - 1 = k
      BY <1>1, SMTT(60)
    <3> QED BY <3>1, <1>7
  <2> QED BY <2>1, <2>2
<1> DEFINE Thin(R) == \A e \in Proc : Thinned(Q[e], R[e])
           K == {k \in 0 .. NR_PROCS :
                   /\ \E R : Good(c[k], R) /\ Thin(R)
                   /\ \A y \in Proc : Freed(T, c[k], p, y)
                   /\ \A y \in 1 .. k : P_BLOCKEDON(c[k], y) # p}
<1>9. 0 \in K
  <2>1. Thin(Q)
    BY LinksDistinct, ThinnedSame DEF Good
  <2>2. \A y \in Proc : Freed(T, T, p, y)
    BY DEF Freed
  <2>3. \A y \in 1 .. 0 : FALSE
    BY SMTT(60)
  <2> HIDE DEF Thin
  <2> QED BY <2>1, <2>2, <2>3, <1>1, <1>8, SMTT(60)
<1>10. ASSUME NEW k \in 0 .. NR_PROCS - 1, k \in K PROVE k + 1 \in K
  <2>1. k + 1 \in Proc /\ k + 1 \in 0 .. NR_PROCS /\ \A y \in 1 .. k : y \in Proc \ {k + 1}
    BY <1>1, SMTT(60) DEF Proc
  <2>2. PICK R : Good(c[k], R) /\ Thin(R)
    BY <1>10
  <2>3. /\ \E S : Good(c[k + 1], S) /\ \A e \in Proc : Thinned(R[e], S[e])
        /\ \A y \in Proc : Freed(c[k], c[k + 1], p, y)
        /\ \A y \in Proc \ {k + 1} : P_BLOCKEDON(c[k + 1], y) = P_BLOCKEDON(c[k], y)
        /\ P_BLOCKEDON(c[k + 1], k + 1) # p
    BY <2>1, <2>2, <1>8, ClearRefStep, SMTT(60)
  <2>4. PICK S : Good(c[k + 1], S) /\ \A e \in Proc : Thinned(R[e], S[e])
    BY <2>3
  <2>5. Thin(S)
    <3>1. ASSUME NEW e \in Proc PROVE Q[e] \in Seq(Proc) /\ R[e] \in Seq(Proc) /\ S[e] \in Seq(Proc)
      BY <2>2, <2>4 DEF Good, Links
    <3> QED BY <2>2, <2>4, <3>1, ThinnedTwice
  <2>6. \A y \in Proc : Freed(T, c[k + 1], p, y)
    BY <2>3, <1>10, FreedTwice
  <2>7. ASSUME NEW y \in 1 .. k + 1 PROVE P_BLOCKEDON(c[k + 1], y) # p
    <3>1. CASE y = k + 1
      BY <3>1, <2>3
    <3>2. CASE y # k + 1
      <4>1. y \in 1 .. k
        BY <3>2, SMTT(60)
      <4> QED BY <4>1, <2>1, <2>3, <1>10
    <3> QED BY <3>1, <3>2
  <2> HIDE DEF Thin
  <2> QED BY <2>1, <2>4, <2>5, <2>6, <2>7
<1>11. NR_PROCS \in K
  <2> HIDE DEF K
  <2>1. 0 .. NR_PROCS \subseteq K
    BY <1>1, <1>9, <1>10, IntervalInduction
  <2> QED BY <2>1, <1>1, SMTT(60)
<1> QED BY <1>7, <1>11 DEF Proc

\* When all that were blocked on p are freed, nobody waits for the dead.
LEMMA FreedAwaited ==
  ASSUME NEW T, NEW U, NEW p \in Proc,
         \A y \in Proc : P_BLOCKEDON(T, y) \in Proc \ {p} => T[P_BLOCKEDON(T, y)].alive,
         \A y \in Proc : Freed(T, U, p, y) /\ P_BLOCKEDON(U, y) # p
  PROVE  Awaited(U)
<1> SUFFICES ASSUME NEW y \in Proc, P_BLOCKEDON(U, y) \in Proc PROVE U[P_BLOCKEDON(U, y)].alive
  BY DEF Awaited
<1>1. Freed(T, U, p, y)
  OBVIOUS
<1>2. CASE ~U[y].sending /\ ~U[y].receiving
  <2>1. P_BLOCKEDON(U, y) = NONE
    BY <1>2 DEF P_BLOCKEDON
  <2> QED BY <2>1, IPCAssumption
<1>3. CASE /\ U[y].sending = T[y].sending /\ U[y].receiving = T[y].receiving
           /\ U[y].sendto_e = T[y].sendto_e /\ U[y].getfrom_e = T[y].getfrom_e
  <2>1. P_BLOCKEDON(U, y) = P_BLOCKEDON(T, y)
    BY <1>3 DEF P_BLOCKEDON
  <2>2. T[P_BLOCKEDON(T, y)].alive
    BY <2>1
  <2>3. Freed(T, U, p, P_BLOCKEDON(U, y))
    OBVIOUS
  <2> QED BY <2>1, <2>2, <2>3 DEF Freed
<1> QED BY <1>1, <1>2, <1>3 DEF Freed

\* The process table without p among the living.
LEMMA DeadIs ==
  ASSUME NEW T, NEW Q, Good(T, Q), NEW p \in Proc
  PROVE  LET D == [T EXCEPT ![p].alive = FALSE] IN
         /\ D \in Table /\ Links(D, Q) /\ Members(D, Q) /\ Acyclic(D) /\ Wakeful(D)
         /\ D[p].sending => D[p].sendto_e \in Proc
         /\ \A y \in Proc \ {p} : D[y] = T[y] /\ BlockedOf(D, y)
         /\ ~D[p].alive /\ D[p].delivermsg = T[p].delivermsg
<1> DEFINE r == [T[p] EXCEPT !.alive = FALSE]
           D == [T EXCEPT ![p] = r]
<1>1. T \in Table /\ T[p] \in Slot
  BY DEF Good, Table
<1>2. [T EXCEPT ![p].alive = FALSE] = D
  BY <1>1 DEF Table
<1>3. r \in Slot
  BY <1>1, SlotUpdate
<1>4. /\ ~r.alive /\ r.sending = T[p].sending /\ r.receiving = T[p].receiving
      /\ r.sendto_e = T[p].sendto_e /\ r.getfrom_e = T[p].getfrom_e /\ r.reply_pend = T[p].reply_pend
      /\ r.delivermsg = T[p].delivermsg /\ r.notify_pending = T[p].notify_pending
      /\ r.caller_q = T[p].caller_q /\ r.q_link = T[p].q_link
  BY <1>1 DEF Slot
<1> HIDE DEF r
<1>5. D \in Table /\ D[p] = r /\ \A x \in Proc \ {p} : D[x] = T[x]
  BY <1>1, <1>3, TableUpdate, SMTT(60)
<1> HIDE DEF D
<1>6. \A x \in Proc : /\ D[x].sending = T[x].sending /\ D[x].receiving = T[x].receiving
                      /\ D[x].sendto_e = T[x].sendto_e /\ D[x].getfrom_e = T[x].getfrom_e
                      /\ D[x].reply_pend = T[x].reply_pend /\ D[x].notify_pending = T[x].notify_pending
                      /\ D[x].caller_q = T[x].caller_q /\ D[x].q_link = T[x].q_link
  BY <1>4, <1>5
<1>7. Links(D, Q)
  <2>1. Links(T, Q)
    BY DEF Good
  <2>2. \A e \in Proc : \A i \in 1 .. Len(Q[e]) : Q[e][i] \in Proc
    BY <2>1, SMTT(60) DEF Links
  <2>3. \A e \in Proc : \A i \in 1 .. Len(Q[e]) : D[Q[e][i]].q_link = T[Q[e][i]].q_link
    BY <2>2, <1>6
  <2> QED BY <2>1, <2>3, <1>6, LinksFrame, SMTT(60)
<1>8. Members(D, Q) /\ Wakeful(D)
  <2>1. Members(D, Q)
    BY <1>6, SMTT(60) DEF Good, Members
  <2>2. Wakeful(D)
    BY <1>6, SMTT(60) DEF Good, Wakeful
  <2> QED BY <2>1, <2>2
<1>9. Acyclic(D)
  <2>1. \A x \in Proc : P_BLOCKEDON(D, x) = P_BLOCKEDON(T, x)
    BY <1>6 DEF P_BLOCKEDON
  <2> QED BY <2>1, AcyclicLess DEF Good
<1>10. \A y \in Proc \ {p} : BlockedOf(D, y)
  BY <1>5 DEF Good, Blocked, BlockedOf
<1>11. D[p].sending => D[p].sendto_e \in Proc
  BY <1>6 DEF Good, Blocked, BlockedOf
<1>12. ~D[p].alive /\ D[p].delivermsg = T[p].delivermsg
  BY <1>4, <1>5
<1> QED BY <1>2, <1>5, <1>7, <1>8, <1>9, <1>10, <1>11, <1>12

=============================================================================
