-------------------------- MODULE LoggerListProofs ---------------------------
(***************************************************************************)
(* That find_logger finds what the file lists and that nothing else is     *)
(* lost, for a heap and a file of any size.  The inductive invariant LInv  *)
(* says what every cell is used for and who knows it, and that the two     *)
(* lists, the one being built and the one that is served, are chains of    *)
(* distinct cells.  It leaves the tail of a last entry open: nobody sets   *)
(* it, so the loops that free a list may run on into any other cell.       *)
(***************************************************************************)
EXTENDS LoggerList, FiniteSetTheorems, WellFoundedInduction, TLAPS

\* Most leaves are first-order reasoning about sets and functions, which is for
\* Zenon; a leaf with arithmetic, records or sequences calls for SMT by name.
USE ZenonT(60)

Heaps == [Cell -> [use : {"free", "node", "bufio", "state"}, name : Name \cup {JUNK}, tail : Ptr]]

Members(s) == {s[i] : i \in 1 .. Len(s)}

\* s is the list that begins at p.  The tail of its last cell is left open.
Chained(h, p, s) ==
  /\ p = IF s = <<>> THEN NULL ELSE s[1]
  /\ \A i \in 1 .. Len(s) - 1 : h[s[i]].tail = s[i + 1]
  /\ \A i, j \in 1 .. Len(s) : s[i] = s[j] => i = j

\* The cells of s are the entries of these names.
Entries(h, s, names) ==
  /\ Len(s) = Len(names)
  /\ \A i \in 1 .. Len(s) : h[s[i]].use = "node" /\ h[s[i]].name = names[i]
  /\ \A i, j \in 1 .. Len(s) : names[i] = names[j] => i = j

\* A loop that frees s has come to q.
Freeing(h, q, s) ==
  \E k \in 0 .. Len(s) : /\ \A i \in 1 .. k : h[s[i]].use = "free"
                         /\ k < Len(s) => q = s[k + 1]

Reading ==
  /\ bufio \in Cell /\ heap[bufio].use = "bufio"
  /\ state \in Cell /\ heap[state].use = "state"

Accounted ==
  \A c \in Cell :
    /\ heap[c].use = "bufio" => c = bufio
    /\ heap[c].use = "state" => c = state \/ c \in lost
    /\ heap[c].use = "node" => \/ c \in lost
                               \/ c \in Members(listed.cells)
                               \/ pc \in {"parse", "dealloc", "stuck"} /\ c \in Members(cells)

\* The list that is served, or that do_initialize is freeing.
Served ==
  /\ pc \notin {"idle", "free"} => g_loggers = NULL /\ listed = NoList
  /\ Chained(heap, g_loggers, listed.cells)
  /\ pc = "idle" => Entries(heap, listed.cells, listed.names)
  /\ pc = "free" => Freeing(heap, l, listed.cells)

\* The list parse_config_file builds, or frees after an error.
Built ==
  /\ pc \in {"open", "parse", "dealloc"} => Chained(heap, head, cells)
  /\ pc \in {"open", "parse"} => Entries(heap, cells, file)
  /\ pc \in {"open", "parse"} /\ cells # <<>> => last = cells[Len(cells)]
  /\ pc = "dealloc" => Freeing(heap, l, cells)

Buffers ==
  /\ pc \in {"idle", "free", "open"} => bufio = NULL /\ state = NULL
  /\ pc = "parse" => Reading

LInv == TypeOK /\ Served /\ Built /\ Buffers /\ Accounted

-----------------------------------------------------------------------------

\* g is h with a cell freed.
Frees(g, h, p) ==
  /\ g \in Heaps
  /\ \A c \in Cell : /\ g[c].tail = h[c].tail
                     /\ g[c].name = h[c].name
                     /\ g[c].use = IF c = p THEN "free" ELSE h[c].use

\* free changes the use of one cell and nothing else.
LEMMA FreedCell ==
  ASSUME NEW h \in Heaps, NEW p \in Ptr
  PROVE  Frees(Freed(h, p), h, p)
<1>1. NULL \notin Cell
  BY ConstantAssumption
<1>2. CASE p = NULL
  BY <1>1, <1>2 DEF Freed, Frees
<1>3. CASE p # NULL
  <2>1. p \in Cell
    BY <1>3 DEF Ptr
  <2>2. Freed(h, p) = [h EXCEPT ![p].use = "free"]
    BY <1>3 DEF Freed
  <2> QED BY <2>1, <2>2, SMTT(60) DEF Heaps, Frees
<1> QED BY <1>2, <1>3

\* A nonempty set of natural numbers has a least element.
LEMMA LeastNumber ==
  ASSUME NEW S \in SUBSET Nat, S # {}
  PROVE  \E n \in S : \A m \in S : n <= m
<1>1. PICK n \in S : \A m \in S : ~(<<m, n>> \in OpToRel(<, Nat))
  BY WFMin, NatLessThanWellFounded
<1>2. ASSUME NEW m \in S PROVE n <= m
  <2>1. ~(<<m, n>> \in OpToRel(<, Nat))
    BY <1>1
  <2> QED BY <2>1, SMTT(60) DEF OpToRel
<1> QED BY <1>2

\* g is a walk of n steps from p.
IsWalk(g, p, n) ==
  /\ g \in [0 .. n -> Ptr]
  /\ g[0] = p
  /\ \A k \in 1 .. n : g[k] = IF g[k - 1] = NULL THEN NULL ELSE heap[g[k - 1]].tail

\* There are walks of every length: one that ends can be continued, so there is no
\* least length without one.
LEMMA WalkExists ==
  ASSUME heap \in Heaps, NEW p \in Ptr, NEW N \in Nat
  PROVE  \E g : IsWalk(g, p, N)
<1> DEFINE T == {n \in Nat : ~\E g : IsWalk(g, p, n)}
<1> SUFFICES ASSUME T # {} PROVE FALSE
  OBVIOUS
<1>1. PICK n \in T : \A m \in T : n <= m
  <2>1. T \in SUBSET Nat
    OBVIOUS
  <2> HIDE DEF T
  <2> QED BY <2>1, LeastNumber
<1>2. IsWalk([k \in 0 .. 0 |-> p], p, 0)
  BY SMTT(60) DEF IsWalk
<1>3. n \in Nat /\ n # 0 /\ n - 1 \in Nat
  BY <1>1, <1>2, SMTT(60)
<1>4. PICK g : IsWalk(g, p, n - 1)
  BY <1>1, <1>3, SMTT(60)
<1> DEFINE q == g[n - 1]
           h == [k \in 0 .. n |-> IF k < n THEN g[k] ELSE IF q = NULL THEN NULL ELSE heap[q].tail]
<1>5. q \in Ptr /\ (IF q = NULL THEN NULL ELSE heap[q].tail) \in Ptr
  BY <1>3, <1>4, SMTT(60) DEF IsWalk, Heaps, Ptr
<1>6. \A k \in 0 .. n : k < n => k \in 0 .. n - 1 /\ g[k] \in Ptr
  BY <1>3, <1>4, SMTT(60) DEF IsWalk
<1>7. h \in [0 .. n -> Ptr] /\ h[0] = p
  BY <1>3, <1>4, <1>5, <1>6, SMTT(60) DEF IsWalk
<1>8. ASSUME NEW k \in 1 .. n PROVE h[k] = IF h[k - 1] = NULL THEN NULL ELSE heap[h[k - 1]].tail
  <2>1. h[k - 1] = g[k - 1]
    BY <1>3, SMTT(60)
  <2>2. CASE k = n
    BY <1>3, <2>1, <2>2, SMTT(60)
  <2>3. CASE k # n
    <3>1. k \in 1 .. n - 1 /\ h[k] = g[k]
      BY <1>3, <2>3, SMTT(60)
    <3> QED BY <1>4, <2>1, <3>1 DEF IsWalk
  <2> QED BY <2>2, <2>3
<1>9. IsWalk(h, p, n)
  <2> HIDE DEF h
  <2> QED BY <1>7, <1>8 DEF IsWalk
<1> QED BY <1>1, <1>9

\* The equation of Walk.
LEMMA WalkSteps ==
  ASSUME heap \in Heaps, NEW p \in Ptr
  PROVE  /\ DOMAIN Walk(p) = 0 .. Cardinality(Cell)
         /\ Walk(p)[0] = p
         /\ \A k \in 1 .. Cardinality(Cell) :
              Walk(p)[k] = IF Walk(p)[k - 1] = NULL THEN NULL ELSE heap[Walk(p)[k - 1]].tail
<1> DEFINE N == Cardinality(Cell)
           eq(g) == [k \in 0 .. N |-> IF k = 0 THEN p
                                      ELSE IF g[k - 1] = NULL THEN NULL ELSE heap[g[k - 1]].tail]
<1>1. N \in Nat
  BY ConstantAssumption, FS_CardinalityType
<1> HIDE DEF N
<1>3. PICK g : IsWalk(g, p, N)
  BY <1>1, WalkExists
<1>4. g = eq(g)
  BY <1>1, <1>3, SMTT(60) DEF IsWalk
<1>5. Walk(p) = CHOOSE w : w = eq(w)
  BY DEF Walk, N
<1> HIDE DEF eq
<1>6. Walk(p) = eq(Walk(p))
  BY <1>4, <1>5
<1>7. /\ DOMAIN Walk(p) = 0 .. N
      /\ \A k \in 0 .. N : Walk(p)[k] = IF k = 0 THEN p
                                        ELSE IF Walk(p)[k - 1] = NULL THEN NULL ELSE heap[Walk(p)[k - 1]].tail
  <2> DEFINE w == Walk(p)
  <2>1. w = eq(w)
    BY <1>6
  <2> HIDE DEF w
  <2>2. /\ DOMAIN w = 0 .. N
        /\ \A k \in 0 .. N : w[k] = IF k = 0 THEN p
                                    ELSE IF w[k - 1] = NULL THEN NULL ELSE heap[w[k - 1]].tail
    BY <2>1 DEF eq
  <2> QED BY <2>2 DEF w
<1> QED BY <1>1, <1>7, SMTT(60) DEF N

\* The cells of a chain are among the cells of the heap, each once.
LEMMA ChainLength ==
  ASSUME NEW s \in Seq(Cell), \A i, j \in 1 .. Len(s) : s[i] = s[j] => i = j
  PROVE  Len(s) <= Cardinality(Cell)
<1>1. Len(s) \in Nat /\ s \in [1 .. Len(s) -> Cell]
  BY SMTT(60)
<1>2. s \in Injection(1 .. Len(s), Cell)
  BY <1>1 DEF Injection, IsInjective
<1>3. IsFiniteSet(1 .. Len(s)) /\ Cardinality(1 .. Len(s)) = Len(s)
  <2>1. 1 \in Int /\ Len(s) \in Int
    BY <1>1, SMTT(60)
  <2>2. /\ IsFiniteSet(1 .. Len(s))
        /\ Cardinality(1 .. Len(s)) = IF 1 > Len(s) THEN 0 ELSE Len(s) - 1 + 1
    BY <2>1, FS_Interval
  <2> QED BY <1>1, <2>2, SMTT(60)
<1>4. Cardinality(1 .. Len(s)) <= Cardinality(Cell)
  BY <1>2, ConstantAssumption, FS_Injection
<1> QED BY <1>3, <1>4

\* A walk along a list visits its cells in order.
LEMMA WalkAlong ==
  ASSUME heap \in Heaps, NEW s \in Seq(Cell), NEW p, Chained(heap, p, s), s # <<>>
  PROVE  /\ p \in Cell
         /\ \A i \in 1 .. Len(s) : i - 1 \in 0 .. Cardinality(Cell) /\ Walk(p)[i - 1] = s[i]
<1>1. Len(s) \in Nat /\ Len(s) > 0 /\ p = s[1] /\ p \in Cell
  BY SMTT(60) DEF Chained
<1>2. Len(s) <= Cardinality(Cell) /\ Cardinality(Cell) \in Nat
  BY ChainLength, ConstantAssumption, FS_CardinalityType DEF Chained
<1> DEFINE w == Walk(p)
           T == {i \in 0 .. Len(s) - 1 : w[i] # s[i + 1]}
<1>3. /\ w[0] = p
      /\ \A k \in 1 .. Cardinality(Cell) : w[k] = IF w[k - 1] = NULL THEN NULL ELSE heap[w[k - 1]].tail
  BY <1>1, WalkSteps, SMTT(60) DEF Ptr
<1> HIDE DEF w
<1>4. ASSUME NEW n \in T, \A m \in T : n <= m PROVE FALSE
  <2>1. n # 0 /\ n \in 1 .. Len(s) - 1
    BY <1>1, <1>3, <1>4, SMTT(60)
  <2>2. n - 1 \in 0 .. Len(s) - 1 /\ n - 1 \notin T
    BY <1>4, <2>1, SMTT(60)
  <2>3. w[n - 1] = s[n]
    BY <2>1, <2>2, SMTT(60)
  <2>4. s[n] \in Cell /\ s[n] # NULL
    BY <1>1, <2>1, ConstantAssumption, SMTT(60)
  <2>5. n \in 1 .. Cardinality(Cell)
    BY <1>1, <1>2, <2>1, SMTT(60)
  <2>6. w[n] = heap[s[n]].tail
    BY <1>3, <2>3, <2>4, <2>5
  <2>7. heap[s[n]].tail = s[n + 1]
    BY <2>1 DEF Chained
  <2> QED BY <1>4, <2>6, <2>7
<1>5. T = {}
  <2>1. T \in SUBSET Nat
    BY <1>1, SMTT(60)
  <2> HIDE DEF T
  <2> QED BY <1>4, <2>1, LeastNumber
<1>7. ASSUME NEW i \in 1 .. Len(s) PROVE i - 1 \in 0 .. Cardinality(Cell) /\ w[i - 1] = s[i]
  <2>1. i - 1 \in 0 .. Len(s) - 1 /\ (i - 1) + 1 = i
    BY <1>1, SMTT(60)
  <2>2. w[i - 1] = s[(i - 1) + 1]
    BY <1>5, <2>1
  <2> QED BY <1>1, <1>2, <2>1, <2>2, SMTT(60)
<1> QED BY <1>1, <1>7 DEF w

\* A name that a list does not hold is not the name of one of its entries.
LEMMA NotNamed ==
  ASSUME heap \in Heaps, NEW p, NEW s \in Seq(Cell), NEW names, Chained(heap, p, s),
         Entries(heap, s, names), NEW n, ~Named(p, n)
  PROVE  \A i \in 1 .. Len(s) : names[i] # n
<1> SUFFICES ASSUME NEW i \in 1 .. Len(s), names[i] = n PROVE FALSE
  OBVIOUS
<1>1. s # <<>> /\ s[i] \in Cell /\ s[i] # NULL
  BY ConstantAssumption, SMTT(60)
<1>2. i - 1 \in 0 .. Cardinality(Cell) /\ Walk(p)[i - 1] = s[i]
  BY <1>1, WalkAlong
<1>3. s[i] \in Visits(p)
  BY <1>1, <1>2 DEF Visits
<1>4. heap[s[i]].name = n
  BY DEF Entries
<1> QED BY <1>3, <1>4 DEF Named

\* find_logger returns the entry of each name of the list.
LEMMA EntryFound ==
  ASSUME heap \in Heaps, NEW s \in Seq(Cell), NEW names, Chained(heap, g_loggers, s),
         Entries(heap, s, names), NEW i \in 1 .. Len(s)
  PROVE  find_logger(names[i]) = s[i]
<1> DEFINE w == Walk(g_loggers)
           n == names[i]
           First(k) == /\ w[k] # NULL /\ heap[w[k]].name = n
                       /\ \A j \in 0 .. k - 1 : heap[w[j]].name # n
<1>1. s # <<>>
  BY SMTT(60)
<1>2. /\ g_loggers \in Ptr
      /\ \A j \in 1 .. Len(s) : j - 1 \in 0 .. Cardinality(Cell) /\ w[j - 1] = s[j]
  BY <1>1, WalkAlong DEF Ptr
<1>3. DOMAIN w = 0 .. Cardinality(Cell)
  BY <1>2, WalkSteps
<1>4. \A j \in 1 .. Len(s) : heap[s[j]].name = n <=> j = i
  BY DEF Entries
<1>5. Named(g_loggers, n)
  <2>1. w[i - 1] \in Visits(g_loggers)
    BY <1>2, ConstantAssumption, SMTT(60) DEF Visits
  <2> QED BY <2>1, <1>2, <1>4 DEF Named
<1>6. First(i - 1) /\ i - 1 \in DOMAIN w
  <2>1. w[i - 1] # NULL /\ heap[w[i - 1]].name = n
    BY <1>2, <1>4, ConstantAssumption, SMTT(60)
  <2>2. ASSUME NEW j \in 0 .. (i - 1) - 1 PROVE heap[w[j]].name # n
    <3>1. j + 1 \in 1 .. Len(s) /\ j + 1 # i /\ (j + 1) - 1 = j
      BY SMTT(60)
    <3>2. w[j] = s[j + 1]
      BY <1>2, <3>1
    <3> QED BY <1>4, <3>1, <3>2
  <2> QED BY <2>1, <2>2, <1>2, <1>3
<1>7. ASSUME NEW k \in DOMAIN w, First(k) PROVE k = i - 1
  <2>1. k \in Nat /\ i - 1 \in Nat
    BY <1>3, SMTT(60)
  <2>2. CASE k < i - 1
    <3>1. k + 1 \in 1 .. Len(s) /\ k + 1 # i /\ (k + 1) - 1 = k
      BY <2>1, <2>2, SMTT(60)
    <3>2. w[k] = s[k + 1]
      BY <1>2, <3>1
    <3> QED BY <1>4, <1>7, <3>1, <3>2
  <2>3. CASE i - 1 < k
    <3>1. i - 1 \in 0 .. k - 1
      BY <2>1, <2>3, SMTT(60)
    <3>2. heap[w[i - 1]].name # n
      BY <1>7, <3>1
    <3> QED BY <1>6, <3>2
  <2> QED BY <2>1, <2>2, <2>3, SMTT(60)
<1>8. find_logger(n) = w[CHOOSE k \in DOMAIN w : First(k)]
  BY <1>5 DEF find_logger
<1>9. (CHOOSE k \in DOMAIN w : First(k)) = i - 1
  <2> HIDE DEF First, w
  <2> QED BY <1>6, <1>7
<1> QED BY <1>2, <1>8, <1>9

-----------------------------------------------------------------------------
(* The steps *)

\* Initially nothing is allocated, nothing is listed and the invariant holds.
LEMMA LInit == Init => LInv
<1> SUFFICES ASSUME Init PROVE LInv
  OBVIOUS
<1>1. TypeOK
  BY SMTT(60) DEF Init, TypeOK, NoList, Ptr
<1>2. Chained(heap, NULL, <<>>) /\ Entries(heap, <<>>, <<>>)
  BY SMTT(60) DEF Chained, Entries
<1>3. Served /\ Built
  BY <1>2 DEF Init, NoList, Served, Built
<1>4. Buffers /\ Accounted
  BY DEF Init, Buffers, Accounted
<1> QED BY <1>1, <1>3, <1>4 DEF LInv

\* A heap that agrees on the tails of the cells of s has the same chain.
LEMMA ChainKept ==
  ASSUME NEW h, NEW g, NEW p, NEW s \in Seq(Cell), Chained(h, p, s),
         \A i \in 1 .. Len(s) - 1 : g[s[i]].tail = h[s[i]].tail
  PROVE  Chained(g, p, s)
BY DEF Chained

\* And one that agrees on their uses and names has the same entries.
LEMMA EntriesKept ==
  ASSUME NEW h, NEW g, NEW s \in Seq(Cell), NEW names, Entries(h, s, names),
         \A i \in 1 .. Len(s) : g[s[i]].use = h[s[i]].use /\ g[s[i]].name = h[s[i]].name
  PROVE  Entries(g, s, names)
BY DEF Entries

\* One turn of a loop that frees s, or a turn past its end.
LEMMA FreeingStep ==
  ASSUME NEW h \in Heaps, NEW s \in Seq(Cell), NEW p, Chained(h, p, s),
         NEW q \in Cell, Freeing(h, q, s)
  PROVE  Freeing(Freed(h, q), h[q].tail, s)
<1>1. PICK k \in 0 .. Len(s) : /\ \A i \in 1 .. k : h[s[i]].use = "free"
                               /\ k < Len(s) => q = s[k + 1]
  BY DEF Freeing
<1> DEFINE g == Freed(h, q)
<1>2. \A c \in Cell : g[c].use = IF c = q THEN "free" ELSE h[c].use
  BY FreedCell DEF Ptr, Frees
<1> HIDE DEF g
<1>3. CASE k < Len(s)
  <2>1. k + 1 \in 0 .. Len(s)
    BY <1>3, SMTT(60)
  <2>2. ASSUME NEW i \in 1 .. k + 1 PROVE g[s[i]].use = "free"
    <3>1. i \in 1 .. Len(s) /\ s[i] \in Cell
      BY <2>1, SMTT(60)
    <3>2. i \in 1 .. k \/ s[i] = q
      BY <1>1, <1>3, SMTT(60)
    <3> QED BY <1>1, <1>2, <3>1, <3>2
  <2>3. ASSUME k + 1 < Len(s) PROVE h[q].tail = s[(k + 1) + 1]
    <3>1. k + 1 \in 1 .. Len(s) - 1
      BY <2>3, SMTT(60)
    <3> QED BY <1>1, <1>3, <3>1 DEF Chained
  <2>4. Freeing(g, h[q].tail, s)
    BY <2>1, <2>2, <2>3 DEF Freeing
  <2> QED BY <2>4 DEF g
<1>4. CASE k = Len(s)
  <2>1. \A i \in 1 .. k : s[i] \in Cell
    BY <1>4, SMTT(60)
  <2>2. Freeing(g, h[q].tail, s)
    BY <1>1, <1>2, <1>4, <2>1, SMTT(60) DEF Freeing
  <2> QED BY <2>2 DEF g
<1> QED BY <1>3, <1>4, SMTT(60)

\* A loop that has come to NULL has freed all of s.
LEMMA FreeingDone ==
  ASSUME NEW h, NEW s \in Seq(Cell), Freeing(h, NULL, s)
  PROVE  \A c \in Members(s) : h[c].use = "free"
<1>1. PICK k \in 0 .. Len(s) : /\ \A i \in 1 .. k : h[s[i]].use = "free"
                               /\ k < Len(s) => NULL = s[k + 1]
  BY DEF Freeing
<1>2. k = Len(s)
  BY <1>1, ConstantAssumption, SMTT(60)
<1> QED BY <1>1, <1>2 DEF Members

\* A loop over s starts at its first cell.
LEMMA FreeingStarts ==
  ASSUME NEW h, NEW s \in Seq(Cell), NEW p, Chained(h, p, s)
  PROVE  Freeing(h, p, s)
<1>1. 0 \in 0 .. Len(s) /\ (0 < Len(s) => p = s[0 + 1])
  BY SMTT(60) DEF Chained
<1> QED BY <1>1, SMTT(60) DEF Freeing

\* g is h with a cell that was given a use and a name.
Takes(g, h, c, u, n) ==
  /\ g \in Heaps
  /\ g[c] = [use |-> u, name |-> n, tail |-> h[c].tail]
  /\ \A d \in Cell \ {c} : g[d] = h[d]

\* malloc, and what its caller writes over the name, change one cell and not its tail.
LEMMA Allocated ==
  ASSUME NEW h \in Heaps, NEW c \in Cell, NEW u \in {"node", "bufio", "state"}, NEW n \in Name \cup {JUNK}
  PROVE  Takes([h EXCEPT ![c].use = u, ![c].name = n], h, c, u, n)
<1> DEFINE g == [h EXCEPT ![c].use = u, ![c].name = n]
<1>1. g[c] = [use |-> u, name |-> n, tail |-> h[c].tail]
  BY DEF Heaps
<1>2. \A d \in Cell \ {c} : g[d] = h[d]
  BY DEF Heaps
<1>3. g \in Heaps
  BY DEF Heaps
<1> QED BY <1>1, <1>2, <1>3 DEF Takes

\* What the type invariant says of the sequences.
LEMMA Types ==
  ASSUME TypeOK
  PROVE  /\ heap \in Heaps /\ cells \in Seq(Cell) /\ file \in Seq(Name)
         /\ listed.cells \in Seq(Cell) /\ listed.names \in Seq(Name)
         /\ \A s \in Seq(Cell) : \A i \in 1 .. Len(s) : s[i] \in Cell
BY SMTT(60) DEF TypeOK, Heaps

\* do_initialize starts to walk the old list and keeps the invariant.
LEMMA InitializeStep ==
  ASSUME LInv, do_initialize
  PROVE  LInv'
<1> USE DEF do_initialize
<1>1. TypeOK'
  BY SMTT(60) DEF LInv, TypeOK
<1>2. Freeing(heap, g_loggers, listed.cells)
  BY Types, FreeingStarts DEF LInv, Served
<1>3. Served'
  BY <1>2 DEF LInv, Served
<1>4. Built' /\ Buffers'
  BY DEF LInv, Built, Buffers, Reading
<1>5. Accounted'
  BY DEF LInv, Accounted, Members
<1> QED BY <1>1, <1>3, <1>4, <1>5 DEF LInv

\* Freeing an entry of the old list takes it from the heap and moves to the
\* entry that was read from it before.
LEMMA FreeEntryStep ==
  ASSUME LInv, FreeEntry
  PROVE  LInv'
<1>1. l \in Cell /\ heap \in Heaps
  BY Types DEF LInv, FreeEntry, TypeOK, Ptr
<1>2. /\ heap' \in Heaps
      /\ \A c \in Cell : /\ heap'[c].tail = heap[c].tail
                         /\ heap'[c].use = IF c = l THEN "free" ELSE heap[c].use
  BY <1>1, FreedCell, SMTT(60) DEF FreeEntry, Ptr, Frees
<1>3. l' \in Ptr
  BY <1>1 DEF FreeEntry, Heaps
<1>4. TypeOK'
  BY <1>2, <1>3, SMTT(60) DEF LInv, TypeOK, FreeEntry, Heaps
<1>5. Chained(heap', g_loggers, listed.cells)
  BY <1>2, Types, ChainKept, SMTT(60) DEF LInv, Served
<1>6. ASSUME pc = "free" PROVE Freeing(heap', l', listed.cells)
  BY <1>1, <1>6, Types, FreeingStep DEF LInv, Served, FreeEntry
<1>7. Served'
  BY <1>5, <1>6 DEF LInv, Served, FreeEntry
<1>8. ASSUME pc = "dealloc" PROVE Chained(heap', head, cells) /\ Freeing(heap', l', cells)
  <2>1. Chained(heap, head, cells) /\ Freeing(heap, l, cells)
    BY <1>8 DEF LInv, Built
  <2>2. Chained(heap', head, cells)
    BY <1>2, <2>1, Types, ChainKept, SMTT(60) DEF LInv
  <2>3. Freeing(heap', l', cells)
    BY <1>1, <2>1, Types, FreeingStep DEF LInv, FreeEntry
  <2> QED BY <2>2, <2>3
<1>9. Built'
  BY <1>8 DEF LInv, Built, FreeEntry
<1>10. Buffers'
  BY DEF LInv, Buffers, FreeEntry
<1>11. Accounted'
  BY <1>2, SMTT(60) DEF LInv, Accounted, FreeEntry, Members
<1> QED BY <1>4, <1>7, <1>9, <1>10, <1>11 DEF LInv

\* The loop has freed every entry, so no cell in use is left without its owner.
LEMMA ListFreedStep ==
  ASSUME LInv, ListFreed
  PROVE  LInv'
<1>1. TypeOK'
  BY SMTT(60) DEF LInv, TypeOK, ListFreed, NoList, Ptr
<1>2. Chained(heap, NULL, <<>>) /\ Entries(heap, <<>>, <<>>)
  BY SMTT(60) DEF Chained, Entries
<1>3. Served' /\ Built'
  BY <1>2 DEF ListFreed, NoList, Served, Built
<1>4. Buffers'
  BY DEF LInv, Buffers, ListFreed
<1>5. \A c \in Members(listed.cells) : heap[c].use = "free"
  BY Types, FreeingDone DEF LInv, Served, ListFreed
<1>6. Accounted'
  BY <1>5 DEF LInv, Accounted, ListFreed
<1> QED BY <1>1, <1>3, <1>4, <1>6 DEF LInv

\* bufio_open and the parser's malloc take two cells that nothing refers to.
LEMMA OpenStep ==
  ASSUME LInv, Open
  PROVE  LInv'
<1>1. PICK b \in malloc, s \in malloc :
        /\ b # s
        /\ heap' = [heap EXCEPT ![b].use = "bufio", ![b].name = JUNK,
                                ![s].use = "state", ![s].name = JUNK]
        /\ bufio' = b /\ state' = s /\ pc' = "parse"
        /\ lost' = lost \ {b, s}
  BY DEF Open
<1>2. heap \in Heaps /\ b \in Cell /\ s \in Cell /\ heap[b].use = "free" /\ heap[s].use = "free"
  BY Types DEF LInv, malloc
<1>3. /\ heap' \in Heaps
      /\ heap'[b].use = "bufio" /\ heap'[s].use = "state"
      /\ \A c \in Cell : heap'[c].tail = heap[c].tail
      /\ \A c \in Cell \ {b, s} : heap'[c] = heap[c]
  <2> DEFINE h == [heap EXCEPT ![b].use = "bufio", ![b].name = JUNK]
  <2>1. Takes(h, heap, b, "bufio", JUNK)
    BY <1>2, Allocated
  <2>2. heap' = [h EXCEPT ![s].use = "state", ![s].name = JUNK]
    BY <1>1
  <2> HIDE DEF h
  <2>3. Takes(heap', h, s, "state", JUNK)
    <3>1. h \in Heaps
      BY <2>1 DEF Takes
    <3> QED BY <1>2, <2>2, <3>1, Allocated
  <2>4. \A c \in Cell \ {b, s} : heap'[c] = heap[c]
    BY <2>1, <2>3 DEF Takes
  <2>5. heap'[b] = [use |-> "bufio", name |-> JUNK, tail |-> heap[b].tail]
    BY <1>1, <1>2, <2>1, <2>3 DEF Takes
  <2>6. heap'[s] = [use |-> "state", name |-> JUNK, tail |-> heap[s].tail]
    BY <1>1, <1>2, <2>1, <2>3 DEF Takes
  <2> QED BY <2>3, <2>4, <2>5, <2>6, SMTT(60) DEF Takes
<1>4. TypeOK'
  <2>1. {g_loggers', l', bufio', state', head', last'} \subseteq Ptr /\ lost' \subseteq Cell
    BY <1>1, <1>2, SMTT(60) DEF LInv, TypeOK, Open, Ptr
  <2> QED BY <1>1, <1>3, <2>1 DEF LInv, TypeOK, Open, Heaps
<1>5. Chained(heap', g_loggers, listed.cells) /\ Chained(heap', head, cells)
  <2>1. Chained(heap, g_loggers, listed.cells) /\ Chained(heap, head, cells)
    BY DEF LInv, Served, Built, Open
  <2>2. listed.cells \in Seq(Cell) /\ cells \in Seq(Cell)
    BY Types DEF LInv
  <2>3. Chained(heap', g_loggers, listed.cells)
    BY <1>3, <2>1, <2>2, ChainKept, SMTT(60)
  <2>4. Chained(heap', head, cells)
    BY <1>3, <2>1, <2>2, ChainKept, SMTT(60)
  <2> QED BY <2>3, <2>4
<1>6. Entries(heap, cells, file)
  BY DEF LInv, Built, Open
<1>7. \A i \in 1 .. Len(cells) : cells[i] \in Cell \ {b, s}
  BY <1>2, <1>6, Types DEF LInv, Entries
<1>8. Entries(heap', cells, file)
  BY <1>3, <1>6, <1>7, Types, EntriesKept DEF LInv
<1>9. Served'
  BY <1>1, <1>5 DEF LInv, Served, Open
<1>10. Built'
  BY <1>1, <1>5, <1>8 DEF LInv, Built, Open
<1>11. Buffers'
  BY <1>1, <1>2, <1>3 DEF Buffers, Reading
<1>12. Accounted'
  <2> SUFFICES ASSUME NEW c \in Cell
               PROVE  /\ heap'[c].use = "bufio" => c = b
                      /\ heap'[c].use = "state" => c = s \/ c \in lost'
                      /\ heap'[c].use = "node" => c \in lost' \/ c \in Members(listed.cells) \/ c \in Members(cells)
    <3>1. /\ bufio' = b /\ state' = s /\ pc' = "parse"
          /\ Members(cells)' = Members(cells) /\ Members(listed.cells)' = Members(listed.cells)
      BY <1>1, SMTT(60) DEF Open, Members
    <3> QED BY <3>1 DEF Accounted
  <2>1. CASE c \in {b, s}
    BY <1>3, <2>1
  <2>2. CASE c \notin {b, s}
    <3>1. heap'[c] = heap[c] /\ bufio = NULL /\ state = NULL /\ c # NULL /\ pc = "open"
      BY <1>3, <2>2, ConstantAssumption DEF LInv, Buffers, Open
    <3>2. c \in lost => c \in lost'
      BY <1>1, <2>2
    <3> QED BY <3>1, <3>2 DEF LInv, Accounted
  <2> QED BY <2>1, <2>2
<1> QED BY <1>4, <1>9, <1>10, <1>11, <1>12 DEF LInv

\* When bufio_open fails the list stays empty.
LEMMA OpenFailsStep ==
  ASSUME LInv, OpenFails
  PROVE  LInv'
<1>1. heap \in Heaps
  BY Types DEF LInv
<1>2. /\ heap' \in Heaps
      /\ \A c \in Cell : heap'[c].tail = heap[c].tail /\ heap'[c].use = heap[c].use
  <2>1. CASE UNCHANGED heap
    BY <1>1, <2>1
  <2>2. CASE \E b \in malloc : heap' = [heap EXCEPT ![b].name = JUNK]
    BY <1>1, <2>2, SMTT(60) DEF malloc, Heaps
  <2> QED BY <2>1, <2>2 DEF OpenFails
<1>3. TypeOK'
  BY <1>2 DEF LInv, TypeOK, OpenFails, Heaps
<1>4. Chained(heap', NULL, <<>>) /\ Entries(heap', <<>>, <<>>)
  BY SMTT(60) DEF Chained, Entries
<1>5. Served' /\ Built'
  BY <1>4, SMTT(60) DEF LInv, Served, Built, OpenFails, NoList
<1>6. Buffers' /\ Accounted'
  BY <1>2, SMTT(60) DEF LInv, Buffers, Accounted, OpenFails, Members
<1> QED BY <1>3, <1>5, <1>6 DEF LInv

\* Zeroing the logger under construction touches the parser's state only, no
\* entry of the list.
LEMMA LoggerNameStep ==
  ASSUME LInv, LoggerName
  PROVE  LInv'
<1>1. /\ heap \in Heaps /\ state \in Cell /\ heap[state].use = "state" /\ pc = "parse" /\ pc' = "parse"
      /\ Chained(heap, head, cells) /\ Entries(heap, cells, file) /\ cells \in Seq(Cell)
  BY Types DEF LInv, LoggerName, Buffers, Built, Reading
<1>2. /\ heap' \in Heaps
      /\ \A c \in Cell : heap'[c].use = heap[c].use /\ heap'[c].name = heap[c].name
      /\ \A c \in Cell \ {state} : heap'[c] = heap[c]
  <2>1. heap' = [heap EXCEPT ![state].tail = NULL]
    BY DEF LoggerName
  <2>2. heap' \in Heaps
    BY <1>1, <2>1, SMTT(60) DEF Heaps, Ptr
  <2>3. ASSUME NEW c \in Cell PROVE heap'[c].use = heap[c].use /\ heap'[c].name = heap[c].name
    BY <1>1, <2>1 DEF Heaps
  <2>4. \A c \in Cell \ {state} : heap'[c] = heap[c]
    BY <1>1, <2>1 DEF Heaps
  <2> QED BY <2>2, <2>3, <2>4
<1>3. TypeOK'
  BY <1>2 DEF LInv, TypeOK, LoggerName, Heaps
<1>4. \A i \in 1 .. Len(cells) : cells[i] \in Cell \ {state}
  BY <1>1, SMTT(60) DEF Entries
<1>5. Entries(heap', cells, file)
  BY <1>1, <1>2, <1>4, EntriesKept
<1>6. Chained(heap', head, cells)
  BY <1>1, <1>2, <1>4, ChainKept, SMTT(60)
<1>7. Chained(heap', NULL, <<>>)
  BY SMTT(60) DEF Chained
<1>8. Served' /\ Built'
  BY <1>1, <1>5, <1>6, <1>7, SMTT(60) DEF LInv, Served, Built, LoggerName, NoList
<1>9. Buffers' /\ Accounted'
  BY <1>1, <1>2, SMTT(60) DEF LInv, Buffers, Accounted, Reading, LoggerName, Members
<1> QED BY <1>3, <1>8, <1>9 DEF LInv

\* The list is freed from its head on: an invalid logger, no memory, a read error.
LEMMA GiveUpStep ==
  ASSUME LInv, pc = "parse", pc' = "dealloc", l' = head, file' \in Seq(Name), Len(file') >= Len(file),
         UNCHANGED <<heap, g_loggers, bufio, state, head, last, cells, listed, lost>>
  PROVE  LInv'
<1>1. TypeOK'
  <2>1. Len(cells') <= Len(file')
    BY SMTT(60) DEF LInv, TypeOK
  <2>2. {g_loggers', l', bufio', state', head', last'} \subseteq Ptr
    BY SMTT(60) DEF LInv, TypeOK
  <2> QED BY <2>1, <2>2 DEF LInv, TypeOK
<1>2. Freeing(heap, head, cells)
  BY Types, FreeingStarts DEF LInv, Built
<1>3. Served' /\ Built'
  BY <1>2 DEF LInv, Served, Built
<1>4. Buffers' /\ Accounted'
  BY DEF LInv, Buffers, Accounted, Members
<1> QED BY <1>1, <1>3, <1>4 DEF LInv

\* is_logger_valid follows a cycle.
LEMMA StuckStep ==
  ASSUME LInv, pc = "parse", pc' = "stuck", file' \in Seq(Name), Len(file') >= Len(file),
         UNCHANGED <<heap, g_loggers, l, bufio, state, head, last, cells, listed, lost>>
  PROVE  LInv'
<1>1. TypeOK'
  <2>1. Len(cells') <= Len(file')
    BY SMTT(60) DEF LInv, TypeOK
  <2> QED BY <2>1 DEF LInv, TypeOK
<1>2. Served' /\ Built'
  BY DEF LInv, Served, Built
<1>3. Buffers' /\ Accounted'
  BY DEF LInv, Buffers, Accounted, Members
<1> QED BY <1>1, <1>2, <1>3 DEF LInv

\* The new entry is linked behind the last one, which no other cell stands for.
LEMMA MakeEntryStep ==
  ASSUME LInv, pc = "parse", NEW n \in Name, file' = Append(file, n), MakeEntry(n),
         UNCHANGED <<g_loggers, bufio, state, listed>>
  PROVE  LInv'
<1>1. PICK c \in malloc :
       /\ heap' = [[heap EXCEPT ![c].use = "node", ![c].name = n]
                     EXCEPT ![IF last = NULL THEN c ELSE last].tail = IF last = NULL THEN @ ELSE c]
       /\ head' = (IF head = NULL THEN c ELSE head) /\ last' = c
       /\ cells' = Append(cells, c) /\ lost' = lost \ {c}
  BY DEF MakeEntry
<1>2. /\ heap \in Heaps /\ c \in Cell /\ heap[c].use = "free" /\ pc' = "parse" /\ l' = l
      /\ cells \in Seq(Cell) /\ file \in Seq(Name)
      /\ Chained(heap, head, cells) /\ Entries(heap, cells, file)
      /\ Reading /\ (cells # <<>> => last = cells[Len(cells)])
      /\ (head = NULL) = (cells = <<>>) /\ (last = NULL) = (cells = <<>>)
  BY Types DEF LInv, TypeOK, Built, Buffers, MakeEntry, malloc
<1>3. \A i \in 1 .. Len(cells) : cells[i] \in Cell /\ cells[i] # c
  BY <1>2, SMTT(60) DEF Entries
<1>4. last \in Cell \cup {NULL} /\ last # c
  BY <1>2, <1>3, ConstantAssumption, SMTT(60)
<1> DEFINE h == [heap EXCEPT ![c].use = "node", ![c].name = n]
<1>5. Takes(h, heap, c, "node", n)
  BY <1>2, Allocated
<1>6. /\ heap' \in Heaps
      /\ heap'[c].use = "node" /\ heap'[c].name = n
      /\ \A d \in Cell \ {c} : heap'[d].use = heap[d].use /\ heap'[d].name = heap[d].name
      /\ \A d \in Cell \ {c, last} : heap'[d].tail = heap[d].tail
      /\ last # NULL => heap'[last].tail = c
  <2>1. h \in Heaps
    BY <1>5 DEF Takes
  <2>2. CASE last = NULL
    <3>1. heap' = [h EXCEPT ![c].tail = @]
      BY <1>1, <2>2
    <3> HIDE DEF h
    <3>2. heap' = h
      BY <2>1, <3>1, <1>2 DEF Heaps
    <3> QED BY <2>2, <3>2, <1>5, SMTT(60) DEF Takes
  <2>3. CASE last # NULL
    <3>1. heap' = [h EXCEPT ![last].tail = c] /\ last \in Cell
      BY <1>1, <1>4, <2>3
    <3> HIDE DEF h
    <3>2. heap' \in Heaps
      BY <2>1, <3>1, <1>2 DEF Heaps, Ptr
    <3>3. heap'[last].tail = c /\ heap'[last].use = h[last].use /\ heap'[last].name = h[last].name
      BY <2>1, <3>1 DEF Heaps
    <3>4. \A d \in Cell \ {last} : heap'[d] = h[d]
      BY <2>1, <3>1 DEF Heaps
    <3>5. heap'[c].use = "node" /\ heap'[c].name = n
      BY <1>2, <1>4, <1>5, <3>4, SMTT(60) DEF Takes
    <3>6. ASSUME NEW d \in Cell \ {c} PROVE heap'[d].use = heap[d].use /\ heap'[d].name = heap[d].name
      BY <1>5, <3>3, <3>4 DEF Takes
    <3>7. \A d \in Cell \ {c, last} : heap'[d].tail = heap[d].tail
      BY <1>5, <3>4 DEF Takes
    <3> QED BY <3>2, <3>3, <3>5, <3>6, <3>7
  <2> QED BY <2>2, <2>3
<1> HIDE DEF h
<1>7. /\ cells' \in Seq(Cell) /\ Len(cells') = Len(cells) + 1 /\ cells'[Len(cells) + 1] = c
      /\ \A i \in 1 .. Len(cells) : cells'[i] = cells[i]
      /\ file' \in Seq(Name) /\ Len(file') = Len(file) + 1 /\ file'[Len(file) + 1] = n
      /\ \A i \in 1 .. Len(file) : file'[i] = file[i]
      /\ cells' # <<>>
  BY <1>1, <1>2, SMTT(60)
<1>8. head' # NULL /\ last' # NULL /\ head' \in Ptr /\ last' \in Ptr
  BY <1>1, <1>2, ConstantAssumption DEF LInv, TypeOK, Ptr
<1>9. TypeOK'
  <2>1. {g_loggers', l', bufio', state', head', last'} \subseteq Ptr /\ lost' \subseteq Cell
    BY <1>1, <1>2, <1>8, SMTT(60) DEF LInv, TypeOK
  <2>2. Len(cells') <= Len(file')
    BY <1>2, <1>7, SMTT(60) DEF Entries
  <2> QED BY <1>2, <1>6, <1>7, <1>8, <2>1, <2>2 DEF LInv, TypeOK, Heaps
<1>10. Entries(heap', cells', file')
  <2>1. Len(cells) = Len(file) /\ Len(cells') = Len(file')
    BY <1>2, <1>7 DEF Entries
  <2>2. ASSUME NEW i \in 1 .. Len(cells') PROVE heap'[cells'[i]].use = "node" /\ heap'[cells'[i]].name = file'[i]
    <3>1. CASE i = Len(cells) + 1
      BY <1>6, <1>7, <2>1, <3>1
    <3>2. CASE i \in 1 .. Len(cells)
      <4>1. cells'[i] = cells[i] /\ file'[i] = file[i] /\ cells[i] \in Cell \ {c}
        BY <1>3, <1>7, <2>1, <3>2
      <4>2. heap[cells[i]].use = "node" /\ heap[cells[i]].name = file[i]
        BY <1>2, <3>2 DEF Entries
      <4>3. heap'[cells[i]].use = heap[cells[i]].use /\ heap'[cells[i]].name = heap[cells[i]].name
        BY <1>6, <4>1
      <4> QED BY <4>1, <4>2, <4>3
    <3>3. i \in 1 .. Len(cells) \/ i = Len(cells) + 1
      BY <1>2, <1>7, SMTT(60)
    <3> QED BY <3>1, <3>2, <3>3
  <2>3. \A i \in 1 .. Len(cells) : file[i] # n
    BY <1>2, NotNamed, SMTT(60) DEF MakeEntry
  <2>4. ASSUME NEW i \in 1 .. Len(cells'), NEW j \in 1 .. Len(cells'), file'[i] = file'[j] PROVE i = j
    <3>1. i \in 1 .. Len(cells) \/ i = Len(cells) + 1
      BY <1>2, <1>7, SMTT(60)
    <3>2. j \in 1 .. Len(cells) \/ j = Len(cells) + 1
      BY <1>2, <1>7, SMTT(60)
    <3> QED BY <1>2, <1>7, <2>1, <2>3, <2>4, <3>1, <3>2, SMTT(60) DEF Entries
  <2> QED BY <2>1, <2>2, <2>4 DEF Entries
<1>11. Chained(heap', head', cells')
  <2>1. head' = cells'[1]
    <3>1. CASE cells = <<>>
      BY <1>1, <1>2, <1>7, <3>1, SMTT(60)
    <3>2. CASE cells # <<>>
      <4>1. 1 \in 1 .. Len(cells) /\ head # NULL
        BY <1>2, <3>2, SMTT(60)
      <4> QED BY <1>1, <1>2, <1>7, <3>2, <4>1 DEF Chained
    <3> QED BY <3>1, <3>2
  <2>2. ASSUME NEW i \in 1 .. Len(cells') - 1 PROVE heap'[cells'[i]].tail = cells'[i + 1]
    <3>1. i \in 1 .. Len(cells) /\ cells # <<>> /\ cells'[i] = cells[i] /\ cells[i] \in Cell \ {c}
      BY <1>2, <1>3, <1>7, SMTT(60)
    <3>2. last = cells[Len(cells)] /\ last # NULL /\ Len(cells) \in 1 .. Len(cells)
      BY <1>2, <3>1, SMTT(60)
    <3>3. CASE i = Len(cells)
      BY <1>6, <1>7, <3>1, <3>2, <3>3
    <3>4. CASE i # Len(cells)
      <4>1. i \in 1 .. Len(cells) - 1 /\ i + 1 \in 1 .. Len(cells)
        BY <3>1, <3>4, SMTT(60)
      <4>2. cells[i] # last
        BY <1>2, <3>1, <3>2, <3>4 DEF Chained
      <4>3. heap'[cells[i]].tail = heap[cells[i]].tail
        BY <1>6, <3>1, <4>2
      <4>4. heap[cells[i]].tail = cells[i + 1]
        BY <1>2, <4>1 DEF Chained
      <4> QED BY <1>7, <3>1, <4>1, <4>3, <4>4
    <3> QED BY <3>3, <3>4
  <2>3. ASSUME NEW i \in 1 .. Len(cells'), NEW j \in 1 .. Len(cells'), cells'[i] = cells'[j] PROVE i = j
    <3>1. i \in 1 .. Len(cells) \/ i = Len(cells) + 1
      BY <1>2, <1>7, SMTT(60)
    <3>2. j \in 1 .. Len(cells) \/ j = Len(cells) + 1
      BY <1>2, <1>7, SMTT(60)
    <3> QED BY <1>2, <1>3, <1>7, <2>3, <3>1, <3>2, SMTT(60) DEF Chained
  <2> QED BY <1>7, <2>1, <2>2, <2>3 DEF Chained
<1>12. Built'
  BY <1>1, <1>2, <1>7, <1>10, <1>11 DEF Built
<1>13. Served'
  <2>1. Chained(heap', NULL, <<>>)
    BY SMTT(60) DEF Chained
  <2> QED BY <1>2, <2>1, SMTT(60) DEF LInv, Served, NoList
<1>14. Buffers'
  <2>1. bufio # c /\ state # c
    BY <1>2 DEF Reading
  <2> QED BY <1>2, <1>6, <2>1 DEF Buffers, Reading
<1>15. Accounted'
  <2>1. Members(listed.cells)' = Members(listed.cells)
    BY DEF Members
  <2>2. Members(cells) \subseteq Members(cells') /\ c \in Members(cells')
    <3>1. Len(cells) \in Nat /\ Len(cells') = Len(cells) + 1 /\ Len(cells) + 1 \in 1 .. Len(cells')
      BY <1>2, <1>7, SMTT(60)
    <3>2. \A i \in 1 .. Len(cells) : i \in 1 .. Len(cells')
      BY <3>1, SMTT(60)
    <3>3. c \in Members(cells')
      BY <1>7, <3>1 DEF Members
    <3>4. Members(cells) \subseteq Members(cells')
      BY <1>7, <3>2 DEF Members
    <3> QED BY <3>3, <3>4
  <2>3. ASSUME NEW d \in Cell
        PROVE  /\ heap'[d].use = "bufio" => d = bufio
               /\ heap'[d].use = "state" => d = state \/ d \in lost'
               /\ heap'[d].use = "node" => d \in lost' \/ d \in Members(listed.cells) \/ d \in Members(cells')
    <3>1. CASE d = c
      BY <1>6, <2>2, <3>1
    <3>2. CASE d # c
      <4>1. heap'[d].use = heap[d].use /\ (d \in lost => d \in lost')
        BY <1>1, <1>6, <3>2
      <4> QED BY <2>2, <4>1 DEF LInv, Accounted
    <3> QED BY <3>1, <3>2
  <2> QED BY <1>2, <2>1, <2>3 DEF Accounted
<1> QED BY <1>9, <1>12, <1>13, <1>14, <1>15 DEF LInv

\* The entries of a list are cells.
LEMMA ListedCells ==
  ASSUME NEW r \in [names : Seq(Name), cells : Seq(Cell)]
  PROVE  r.cells \in Seq(Cell) /\ \A i \in 1 .. Len(r.cells) : r.cells[i] \in Cell
BY SMTT(60)

\* Return frees the reader, which is no entry, and forgets the parser state.
LEMMA ReturnStep ==
  ASSUME LInv, NEW STATE forgotten, Return(heap, forgotten), forgotten \in SUBSET Cell,
         g_loggers' \in Ptr, listed' \in [names : Seq(Name), cells : Seq(Cell)],
         Chained(heap, g_loggers', listed'.cells), Entries(heap, listed'.cells, listed'.names),
         \A c \in Cell : heap[c].use = "node" => c \in lost \/ c \in forgotten \/ c \in Members(listed'.cells),
         pc = "parse" \/ listed'.cells = <<>>, UNCHANGED <<l, head, last, file, cells>>
  PROVE  LInv'
<1>1. /\ heap \in Heaps /\ bufio \in Ptr /\ state \in Ptr /\ pc' = "idle" /\ bufio' = NULL /\ state' = NULL
      /\ heap' = Freed(heap, bufio) /\ lost' = lost \cup forgotten \cup ({state} \ {NULL})
  BY Types DEF LInv, TypeOK, Return
<1>2. Frees(heap', heap, bufio)
  BY <1>1, FreedCell
<1>3. TypeOK'
  <2>1. NULL \in Ptr /\ lost' \subseteq Cell
    BY <1>1 DEF LInv, TypeOK, Ptr
  <2>2. {g_loggers', l', bufio', state', head', last'} \subseteq Ptr
    BY <1>1, <2>1 DEF LInv, TypeOK
  <2> QED BY <1>1, <1>2, <2>1, <2>2 DEF LInv, TypeOK, Heaps, Frees
<1>4. listed'.cells \in Seq(Cell) /\ \A i \in 1 .. Len(listed'.cells) : listed'.cells[i] \in Cell
  BY ListedCells
<1>5. Chained(heap', g_loggers', listed'.cells)
  BY <1>2, <1>4, ChainKept, SMTT(60) DEF Frees
<1>6. \A i \in 1 .. Len(listed'.cells) : listed'.cells[i] # bufio
  <2> SUFFICES ASSUME NEW i \in 1 .. Len(listed'.cells), listed'.cells[i] = bufio PROVE FALSE
    OBVIOUS
  <2>1. heap[bufio].use = "node" /\ bufio \in Cell /\ bufio # NULL
    BY <1>4, ConstantAssumption DEF Entries
  <2>2. pc = "parse"
    BY SMTT(60)
  <2>3. heap[bufio].use = "bufio"
    BY <2>2 DEF LInv, Buffers, Reading
  <2> QED BY <2>1, <2>3
<1>7. Entries(heap', listed'.cells, listed'.names)
  <2>1. ASSUME NEW i \in 1 .. Len(listed'.cells)
        PROVE  /\ heap'[listed'.cells[i]].use = heap[listed'.cells[i]].use
               /\ heap'[listed'.cells[i]].name = heap[listed'.cells[i]].name
    <3>1. listed'.cells[i] \in Cell /\ listed'.cells[i] # bufio
      BY <1>4, <1>6
    <3> QED BY <1>2, <3>1 DEF Frees
  <2> QED BY <1>4, <2>1, EntriesKept
<1>8. Served' /\ Built' /\ Buffers'
  BY <1>1, <1>5, <1>7 DEF Served, Built, Buffers
<1>9. Accounted'
  <2>1. Members(listed.cells)' = Members(listed'.cells)
    BY DEF Members
  <2>2. ASSUME NEW c \in Cell
        PROVE  /\ heap'[c].use # "bufio"
               /\ heap'[c].use = "state" => c \in lost'
               /\ heap'[c].use = "node" => c \in lost' \/ c \in Members(listed'.cells)
    <3>1. CASE c = bufio
      BY <1>2, <3>1 DEF Frees
    <3>2. CASE c # bufio
      <4>1. heap'[c].use = heap[c].use /\ c # NULL
        BY <1>2, <3>2, ConstantAssumption DEF Frees
      <4> QED BY <1>1, <3>2, <4>1 DEF LInv, Accounted
    <3> QED BY <3>1, <3>2
  <2> QED BY <1>1, <2>1, <2>2 DEF Accounted
<1> QED BY <1>3, <1>8, <1>9 DEF LInv

\* A logger of the file is linked behind the last entry or becomes the head,
\* or it ends the parse and the list so far is freed.
LEMMA GotLoggerStep ==
  ASSUME LInv, NEW n \in Name, GotLogger(n)
  PROVE  LInv'
<1>1. pc = "parse" /\ file' = Append(file, n) /\ UNCHANGED <<g_loggers, bufio, state, listed>>
  BY DEF GotLogger
<1>2. file' \in Seq(Name) /\ Len(file') >= Len(file)
  BY <1>1, Types, SMTT(60) DEF LInv
<1>3. CASE pc' = "dealloc" /\ l' = head /\ UNCHANGED <<heap, head, last, cells, lost>>
  BY <1>1, <1>2, <1>3, GiveUpStep
<1>4. CASE pc' = "stuck" /\ UNCHANGED <<heap, head, last, cells, lost, l>>
  BY <1>1, <1>2, <1>4, StuckStep
<1>5. CASE MakeEntry(n)
  BY <1>1, <1>5, MakeEntryStep
<1> QED BY <1>3, <1>4, <1>5 DEF GotLogger

\* A parse error leaves the list NULL and the entries read so far lost.
LEMMA ParseErrorStep ==
  ASSUME LInv, ParseError
  PROVE  LInv'
<1>1. /\ pc = "parse" /\ g_loggers = NULL /\ listed = NoList
      /\ Return(heap, Members(cells)) /\ UNCHANGED <<g_loggers, l, head, last, file, cells, listed>>
  BY DEF LInv, Served, ParseError, Members
<1>2. listed'.cells = <<>> /\ listed'.names = <<>> /\ g_loggers' = NULL /\ NULL \in Ptr
  BY <1>1 DEF NoList, Ptr
<1>3. Members(cells) \in SUBSET Cell /\ Members(<<>>) = {}
  BY Types, SMTT(60) DEF LInv, Members
<1>4. Chained(heap, NULL, <<>>) /\ Entries(heap, <<>>, <<>>)
  BY SMTT(60) DEF Chained, Entries
<1>5. \A c \in Cell : heap[c].use = "node" => c \in lost \/ c \in Members(cells)
  BY <1>1, <1>3 DEF LInv, Accounted, NoList
<1>6. listed' \in [names : Seq(Name), cells : Seq(Cell)]
  BY <1>1 DEF LInv, TypeOK
<1> QED BY <1>1, <1>2, <1>3, <1>4, <1>5, <1>6, ReturnStep

\* An initialisation that has freed the list it was building loses nothing more.
LEMMA DeallocatedStep ==
  ASSUME LInv, Deallocated
  PROVE  LInv'
<1>1. /\ pc = "dealloc" /\ g_loggers = NULL /\ listed = NoList
      /\ Return(heap, {}) /\ UNCHANGED <<g_loggers, l, head, last, file, cells, listed>>
  BY DEF LInv, Served, Deallocated
<1>2. listed'.cells = <<>> /\ listed'.names = <<>> /\ g_loggers' = NULL /\ NULL \in Ptr
  BY <1>1 DEF NoList, Ptr
<1>3. Members(<<>>) = {}
  BY SMTT(60) DEF Members
<1>4. Chained(heap, NULL, <<>>) /\ Entries(heap, <<>>, <<>>)
  BY SMTT(60) DEF Chained, Entries
<1>5. \A c \in Members(cells) : heap[c].use = "free"
  BY Types, FreeingDone DEF LInv, Built, Deallocated
<1>6. \A c \in Cell : heap[c].use = "node" => c \in lost
  BY <1>1, <1>3, <1>5 DEF LInv, Accounted, NoList
<1>7. listed' \in [names : Seq(Name), cells : Seq(Cell)]
  BY <1>1 DEF LInv, TypeOK
<1> QED BY <1>1, <1>2, <1>4, <1>6, <1>7, ReturnStep

\* At the end of the file the entries read become the list of the server.
LEMMA EndOfFileStep ==
  ASSUME LInv, EndOfFile
  PROVE  LInv'
<1>1. /\ pc = "parse" /\ listed = NoList
      /\ g_loggers' = head /\ listed' = [names |-> file, cells |-> cells]
      /\ Return(heap, {}) /\ UNCHANGED <<l, head, last, file, cells>>
  BY DEF LInv, Served, EndOfFile
<1>2. listed'.cells = cells /\ listed'.names = file /\ listed' \in [names : Seq(Name), cells : Seq(Cell)]
  BY <1>1, Types DEF LInv
<1>3. head \in Ptr /\ Chained(heap, head, cells) /\ Entries(heap, cells, file)
  BY <1>1 DEF LInv, TypeOK, Built
<1>4. \A c \in Cell : heap[c].use = "node" => c \in lost \/ c \in Members(cells)
  <2>1. Members(listed.cells) = {}
    BY <1>1, SMTT(60) DEF Members, NoList
  <2> QED BY <1>1, <2>1 DEF LInv, Accounted
<1> QED BY <1>1, <1>2, <1>3, <1>4, ReturnStep

\* The invariant is inductive.
LEMMA LStep == LInv /\ [Next]_vars => LInv'
<1> SUFFICES ASSUME LInv, [Next]_vars PROVE LInv'
  OBVIOUS
<1>1. CASE do_initialize
  BY <1>1, InitializeStep
<1>2. CASE FreeEntry
  BY <1>2, FreeEntryStep
<1>3. CASE ListFreed
  BY <1>3, ListFreedStep
<1>4. CASE Open
  BY <1>4, OpenStep
<1>5. CASE OpenFails
  BY <1>5, OpenFailsStep
<1>6. CASE LoggerName
  BY <1>6, LoggerNameStep
<1>7. CASE \E n \in Name : GotLogger(n)
  BY <1>7, GotLoggerStep
<1>8. CASE ParseError
  BY <1>8, ParseErrorStep
<1>9. CASE ReadError
  <2>1. file \in Seq(Name) /\ Len(file) >= Len(file)
    BY Types, SMTT(60) DEF LInv
  <2> QED BY <1>9, <2>1, GiveUpStep DEF ReadError
<1>10. CASE Deallocated
  BY <1>10, DeallocatedStep
<1>11. CASE EndOfFile
  BY <1>11, EndOfFileStep
<1>12. CASE UNCHANGED vars
  <2>1. TypeOK' /\ Buffers'
    BY <1>12 DEF vars, LInv, TypeOK, Buffers, Reading
  <2>2. Served' /\ Built'
    BY <1>12 DEF vars, LInv, Served, Built
  <2>3. Accounted'
    BY <1>12 DEF vars, LInv, Accounted, Members
  <2> QED BY <2>1, <2>2, <2>3 DEF LInv
<1> QED BY <1>1, <1>2, <1>3, <1>4, <1>5, <1>6, <1>7, <1>8, <1>9, <1>10, <1>11, <1>12 DEF Next

-----------------------------------------------------------------------------

\* LInv holds in every state.
THEOREM ListInvariant == Spec => []LInv
BY LInit, LStep, PTL DEF Spec

\* Every pointer is NULL or a cell, and parse_config_file has a first and a last
\* entry exactly when it has made one.
THEOREM ListTypes == Spec => []TypeOK
<1>1. LInv => TypeOK
  BY DEF LInv
<1> QED BY <1>1, ListInvariant, PTL

\* find_logger finds every logger of the last file that was read to its end, at
\* the entry parse_config_file made for it, whatever the memory held before.
THEOREM EveryLoggerFound == Spec => []ConfiguredFound
<1>1. LInv => ConfiguredFound
  <2> SUFFICES ASSUME LInv, pc = "idle", NEW i \in 1 .. Len(listed.names)
               PROVE  find_logger(listed.names[i]) = listed.cells[i] /\ heap[listed.cells[i]].use = "node"
    BY DEF ConfiguredFound
  <2>1. Chained(heap, g_loggers, listed.cells) /\ Entries(heap, listed.cells, listed.names)
    BY DEF LInv, Served
  <2>2. i \in 1 .. Len(listed.cells) /\ heap[listed.cells[i]].use = "node"
    BY <2>1 DEF Entries
  <2>3. heap \in Heaps /\ listed.cells \in Seq(Cell)
    BY Types DEF LInv
  <2> QED BY <2>1, <2>2, <2>3, EntryFound
<1> QED BY <1>1, ListInvariant, PTL

\* Between two requests the cells in use are the list that is served, parser
\* states of earlier parses and the entries of files with a parse error.
THEOREM NothingElseLost == Spec => []OnlyTheseLeak
<1>1. LInv => OnlyTheseLeak
  <2> SUFFICES ASSUME LInv, pc = "idle", NEW c \in Cell
               PROVE  /\ heap[c].use # "bufio"
                      /\ heap[c].use = "state" => c \in lost
                      /\ heap[c].use = "node" =>
                           c \in lost \/ \E i \in 1 .. Len(listed.cells) : listed.cells[i] = c
    BY DEF OnlyTheseLeak
  <2>1. bufio = NULL /\ state = NULL /\ c # NULL
    BY ConstantAssumption DEF LInv, Buffers
  <2> QED BY <2>1 DEF LInv, Accounted, Members
<1> QED BY <1>1, ListInvariant, PTL

=============================================================================
