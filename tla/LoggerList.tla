----------------------------- MODULE LoggerList ------------------------------
(***************************************************************************)
(* The list of loggers as cells of the heap: what do_initialize            *)
(* (servers/ls/requests.c) frees, what parse_config_file (config-parse.c)  *)
(* allocates, links and frees, and what find_logger (main.c) walks.        *)
(*                                                                         *)
(* A list entry, the reader and the parser state each take one cell: all   *)
(* three need more than one page and less than two.  malloc and free are   *)
(* external.  A cell that was never used is zero, free leaves a cell as it *)
(* is, malloc may return any free cell or fail, and freeing a free cell    *)
(* does nothing.  The reader ends before the tail of an entry; the parser  *)
(* state has bytes 112 to 115 of a format there, zero for any shorter one, *)
(* and longer ones are left out.  The text is what ConfigParse makes of    *)
(* it: the names of its loggers in order, an error, or its end.            *)
(***************************************************************************)
EXTENDS Integers, Sequences, FiniteSets

CONSTANTS
  Cell,        \* heap cells
  Name,        \* logger names
  MaxLoggers,  \* bound: loggers in one file
  NULL,
  JUNK         \* the name field of a cell that holds no entry

ASSUME ConstantAssumption ==
  /\ IsFiniteSet(Cell) /\ NULL \notin Cell
  /\ JUNK \notin Name /\ MaxLoggers \in Nat

VARIABLES
  heap,             \* cell -> [use, name, tail]
  g_loggers,        \* main.c
  pc,               \* where do_initialize is
  l,                \* the loop variable of the two loops that free a list
  bufio, state,     \* the cells of reader and parser
  head, last,       \* the list under construction
  file,             \* history: the names read from the file so far
  cells,            \* history: the cells of the list under construction
  listed,           \* history: names and cells of the last list completed
  lost              \* history: cells the server holds no pointer to any more

vars == <<heap, g_loggers, pc, l, bufio, state, head, last, file, cells, listed, lost>>

Ptr == Cell \cup {NULL}

TypeOK ==
  /\ heap \in [Cell -> [use : {"free", "node", "bufio", "state"}, name : Name \cup {JUNK}, tail : Ptr]]
  /\ {g_loggers, l, bufio, state, head, last} \subseteq Ptr
  /\ pc \in {"idle", "free", "open", "parse", "stuck", "dealloc"}
  /\ file \in Seq(Name) /\ cells \in Seq(Cell) /\ Len(cells) <= Len(file)
  /\ listed \in [names : Seq(Name), cells : Seq(Cell)]
  /\ (head = NULL) = (cells = <<>>) /\ (last = NULL) = (cells = <<>>)
  /\ lost \subseteq Cell

NoList == [names |-> <<>>, cells |-> <<>>]

Init ==
  /\ heap = [c \in Cell |-> [use |-> "free", name |-> JUNK, tail |-> NULL]]
  /\ g_loggers = NULL /\ pc = "idle" /\ l = NULL
  /\ bufio = NULL /\ state = NULL /\ head = NULL /\ last = NULL
  /\ file = <<>> /\ cells = <<>> /\ listed = NoList
  /\ lost = {}

-----------------------------------------------------------------------------

malloc == {c \in Cell : heap[c].use = "free"}

Freed(h, p) == IF p = NULL THEN h ELSE [h EXCEPT ![p].use = "free"]

\* The cells a walk from p visits, in order; a cycle goes on to the last index.
Walk(p) ==
  LET N == Cardinality(Cell)
      step[k \in 0 .. N] == IF k = 0 THEN p
                            ELSE IF step[k - 1] = NULL THEN NULL ELSE heap[step[k - 1]].tail
  IN  step

Visits(p) == {Walk(p)[k] : k \in 0 .. Cardinality(Cell)} \ {NULL}

Endless(p) == Walk(p)[Cardinality(Cell)] # NULL

Named(p, n) == \E c \in Visits(p) : heap[c].name = n

\* The first entry of that name, or NULL.  It does not return on a cycle without one.
find_logger(n) ==
  IF ~Named(g_loggers, n) THEN NULL
  ELSE LET w == Walk(g_loggers)
           k == CHOOSE k \in DOMAIN w : /\ w[k] # NULL /\ heap[w[k]].name = n
                                        /\ \A j \in 0 .. k - 1 : heap[w[j]].name # n
       IN  w[k]

\* do_initialize: the loop over the old list.
do_initialize ==
  /\ pc = "idle"
  /\ pc' = "free" /\ l' = g_loggers
  /\ UNCHANGED <<heap, g_loggers, bufio, state, head, last, file, cells, listed, lost>>

FreeEntry ==
  /\ pc \in {"free", "dealloc"} /\ l # NULL
  /\ heap' = Freed(heap, l) /\ l' = heap[l].tail
  /\ UNCHANGED <<g_loggers, pc, bufio, state, head, last, file, cells, listed, lost>>

\* The end of that loop, and the start of parse_config_file.
ListFreed ==
  /\ pc = "free" /\ l = NULL
  /\ g_loggers' = NULL /\ listed' = NoList
  /\ pc' = "open"
  /\ head' = NULL /\ last' = NULL /\ file' = <<>> /\ cells' = <<>>
  /\ UNCHANGED <<heap, l, bufio, state, lost>>

ReturnKeepsReader(h, forgotten) ==
  /\ heap' = h
  /\ lost' = lost \cup forgotten \cup ({state} \ {NULL})
  /\ bufio' = NULL /\ state' = NULL /\ pc' = "idle"

\* bufio_free, and the return: the parser state is not freed on any path.
Return(h, forgotten) ==
  /\ heap' = Freed(h, bufio)
  /\ lost' = lost \cup forgotten \cup ({state} \ {NULL})
  /\ bufio' = NULL /\ state' = NULL /\ pc' = "idle"

\* open, bufio_init, parse_init.  Each may fail; bufio_init reads into its cell first.
Open ==
  /\ pc = "open"
  /\ \E b \in malloc, s \in malloc :
       /\ b # s
       /\ heap' = [heap EXCEPT ![b].use = "bufio", ![b].name = JUNK,
                               ![s].use = "state", ![s].name = JUNK]
       /\ bufio' = b /\ state' = s /\ pc' = "parse"
       /\ lost' = lost \ {b, s}
  /\ UNCHANGED <<g_loggers, l, head, last, file, cells, listed>>

OpenFails ==
  /\ pc = "open" /\ pc' = "idle"
  /\ \/ UNCHANGED heap
     \/ \E b \in malloc : heap' = [heap EXCEPT ![b].name = JUNK]
  /\ UNCHANGED <<g_loggers, l, bufio, state, head, last, file, cells, listed, lost>>

\* A name is read: the logger under construction, which lies over the place of
\* an entry's tail, is zeroed.
LoggerName ==
  /\ pc = "parse" /\ heap[state].tail # NULL
  /\ heap' = [heap EXCEPT ![state].tail = NULL]
  /\ UNCHANGED <<g_loggers, pc, l, bufio, state, head, last, file, cells, listed, lost>>

MakeEntryKeepsLast(n) ==
  /\ ~Named(head, n)
  /\ \E c \in malloc :
       /\ heap' = [[heap EXCEPT ![c].use = "node", ![c].name = n]
                     EXCEPT ![IF last = NULL THEN c ELSE last].tail = IF last = NULL THEN @ ELSE c]
       /\ head' = (IF head = NULL THEN c ELSE head) /\ last' = (IF last = NULL THEN c ELSE last)
       /\ cells' = Append(cells, c) /\ lost' = lost \ {c}
  /\ UNCHANGED <<pc, l>>

MakeEntryKeepsHead(n) ==
  /\ ~Named(head, n)
  /\ \E c \in malloc :
       /\ heap' = [[heap EXCEPT ![c].use = "node", ![c].name = n]
                     EXCEPT ![IF last = NULL THEN c ELSE last].tail = IF last = NULL THEN @ ELSE c]
       /\ last' = c /\ UNCHANGED head
       /\ cells' = Append(cells, c) /\ lost' = lost \ {c}
  /\ UNCHANGED <<pc, l>>

\* PARSE_GOT_LOGGER: is_logger_valid looks for the name, then an entry is made.
\* Nobody sets the tail of the new entry.
MakeEntry(n) ==
  /\ ~Named(head, n)
  /\ \E c \in malloc :
       /\ heap' = [[heap EXCEPT ![c].use = "node", ![c].name = n]
                     EXCEPT ![IF last = NULL THEN c ELSE last].tail = IF last = NULL THEN @ ELSE c]
       /\ head' = (IF head = NULL THEN c ELSE head) /\ last' = c
       /\ cells' = Append(cells, c) /\ lost' = lost \ {c}
  /\ UNCHANGED <<pc, l>>

GotLogger(n) ==
  /\ pc = "parse" /\ heap[state].tail = NULL /\ Len(file) < MaxLoggers
  /\ file' = Append(file, n)
  /\ \/ /\ Named(head, n)                                \* "is already defined"
        /\ pc' = "dealloc" /\ l' = head
        /\ UNCHANGED <<heap, head, last, cells, lost>>
     \/ /\ ~Named(head, n) /\ Endless(head)
        /\ pc' = "stuck"
        /\ UNCHANGED <<heap, head, last, cells, lost, l>>
     \/ /\ ~Named(head, n) /\ ~Endless(head)             \* incomplete, or no memory
        /\ pc' = "dealloc" /\ l' = head
        /\ UNCHANGED <<heap, head, last, cells, lost>>
     \/ ~Endless(head) /\ MakeEntry(n)
  /\ UNCHANGED <<g_loggers, bufio, state, listed>>

\* PARSE_ERROR jumps past the loop that frees the list.
ParseError ==
  /\ pc = "parse"
  /\ Return(heap, {cells[i] : i \in 1 .. Len(cells)})
  /\ UNCHANGED <<g_loggers, l, head, last, file, cells, listed>>

\* BUFIO_ERR frees it, and so do the failures of GotLogger.
ReadError ==
  /\ pc = "parse"
  /\ pc' = "dealloc" /\ l' = head
  /\ UNCHANGED <<heap, g_loggers, bufio, state, head, last, file, cells, listed, lost>>

Deallocated ==
  /\ pc = "dealloc" /\ l = NULL
  /\ Return(heap, {})
  /\ UNCHANGED <<g_loggers, l, head, last, file, cells, listed>>

EndOfFile ==
  /\ pc = "parse"
  /\ g_loggers' = head
  /\ listed' = [names |-> file, cells |-> cells]
  /\ Return(heap, {})
  /\ UNCHANGED <<l, head, last, file, cells>>

Next == \/ do_initialize \/ FreeEntry \/ ListFreed \/ Open \/ OpenFails \/ LoggerName
        \/ \E n \in Name : GotLogger(n)
        \/ ParseError \/ ReadError \/ Deallocated \/ EndOfFile

Spec == Init /\ [][Next]_vars

-----------------------------------------------------------------------------
(* Properties *)

(* Whatever memory the list was built in, find_logger finds every logger of  *)
(* the file at the entry parse_config_file made for it, and that entry is    *)
(* allocated: the stale tail of the last entry only adds to the list.        *)
ConfiguredFound ==
  pc = "idle" =>
    \A i \in 1 .. Len(listed.names) :
      LET c == listed.cells[i]
      IN  find_logger(listed.names[i]) = c /\ heap[c].use = "node"

(* Between two requests no memory is lost but the parser state, once per     *)
(* parse, and the entries of a file with a parse error (config-parse.c, line *)
(* 510); the reader is freed on every path.                                  *)
OnlyTheseLeak ==
  pc = "idle" =>
    \A c \in Cell : /\ heap[c].use # "bufio"
                    /\ heap[c].use = "state" => c \in lost
                    /\ heap[c].use = "node" =>
                         c \in lost \/ \E i \in 1 .. Len(listed.cells) : listed.cells[i] = c

(* minix/ls.h lines 38-40: LS_ERR_NO_SUCH_LOGGER means that the logger is    *)
(* not in the configuration file, so a name that is found is in the file.    *)
FoundIsConfigured ==
  pc = "idle" =>
    \A n \in Name : find_logger(n) # NULL => \E i \in 1 .. Len(listed.names) : listed.names[i] = n

=============================================================================
