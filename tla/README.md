# Verification of the MINIX log server `ls`

This directory holds a TLA+ model of `ls`, the log server this repository adds to
MINIX 3.3.0, the TLC configurations that check it on small instances, and TLAPS
proofs about it. Paths below are relative to `usr/src/minix/` unless they start
with `README.md` or `ls-api-test/`, which are at the top of the repository.

## 1. The system

`ls` is a single-threaded server. Clients call it through a libc library
(`lib/libc/sys/minix_ls.c`), each call being one blocking send-receive. The server
keeps a list of loggers, built by parsing `/etc/logs.conf`; a client opens a logger,
writes lines to it, and closes it. To do so `ls` opens and writes files through VFS,
copies messages from the caller's memory, and copies the process table from PM to
learn process names.

| Part | State | Operations | Interacts with |
|---|---|---|---|
| Request loop, `servers/ls/main.c` | `g_loggers`, `g_is_initialized`, the request in hand | `wait_request`, argument checks, `ensure_initialized`, dispatch, `reply` | kernel IPC, handlers |
| Handlers, `servers/ls/requests.c` | logger states, `proctable`, `g_logbuf` | `do_initialize`, `do_start_log`, `do_close_log`, `do_write_log`, `do_set_severity`, `do_clear_log`, `do_clear_logs` | parser, formatter, VFS, PM, kernel copy |
| Configuration parser, `servers/ls/config-parse.c` | parser state, list under construction | `parse_advance` per character, `is_logger_valid`, `parse_config_file` | reader, heap, VFS |
| Buffered reader, `servers/ls/bufio.c` | buffer, offset, size | `bufio_init`, `bufio_next_char`, `bufio_free` | VFS |
| Line formatter, `servers/ls/log.c` | output buffer | `print_log`, `put_time` | RS, readclock.drv |
| Diagnostics, `servers/ls/mini-printf*` | none | formatting for the kernel log | - |
| Client library, `lib/libc/sys/minix_ls.c` | request message, a static name buffer | seven `minix_ls_*` functions | kernel IPC |
| Kernel IPC, `kernel/proc.c`, `kernel/system.c` | the caller queue of `ls` | `mini_send`, `mini_receive`, `clear_ipc` | all |
| VFS, `servers/vfs` | descriptors of `ls`, files | open, close, write | file systems |
| PM, `servers/pm` | process table | `SI_PROC_TAB`, exec, fork, exit | - |

What makes it hard: a client may die, or another client may re-initialise the server,
between any two of a client's calls; requests queue behind one another; descriptors
are reused by VFS after a close and leaked by a re-initialisation; several loggers may
name the same file; the copy of the process table goes stale; initialisation may fail
half way, at any call; and each of VFS, PM and the kernel copy may answer with an error.
`ls` itself is a core boot service: when it crashes RS does not restart it
(`servers/rs/manager.c`), so there is no recovery to model.

Properties that matter, by part:

* loop: every call answered; a known requester for every reply; only checked
  arguments reach a handler; initialisation done once;
* handlers: one holder per logger; the owner in the server is who its replies say;
  an open logger's descriptor is its own; no descriptor unaccounted for; lines only
  from the owner and at the right threshold; an open log is never truncated;
* parser: what it accepts is a list of distinct, complete loggers; a file is either
  parsed to its end or refused; everything allocated is freed or in the list;
* reader: delivers exactly the bytes of the file, then EOF;
* formatter: never writes past its buffer, returns the number of bytes written;
* client library: the message carries what the caller passed, or the call is refused.

## 2. Modules

| Module | Content |
|---|---|
| `LSServer` | the server, its clients, and its share of kernel, VFS and PM |
| `LoggerOwnership` | the contract: a table from loggers to owners on which every request takes effect at one instant |
| `LSRefinement` | the refinement mapping from `LSServer` to `LoggerOwnership` |
| `MCLSServer` | instances of both for TLC |
| `LSServerProofs`, `LSStepProofs` | theorems about `LSServer`: its invariants; what a step may do to log files, and the refinement |
| `Bufio`, `BufioHistory` | the reader; the same with the characters delivered so far |
| `ConfigParse` | the parser, driven by any sequence of symbols |
| `ConfigFile` | composition: the parser fed by the reader, on any file |
| `ConfigFileProofs` | theorems about the reader, the parser and their composition |
| `ConfigText`, `MCConfigText` | `ConfigFile` on files laid out as in `README.md` and on such files with a slip |
| `LoggerList`, `MCLoggerList` | the list of loggers as heap cells, through any number of initialisations |
| `LoggerListProofs` | theorems about the list |
| `PrintLog`, `MCPrintLog` | the formatter |
| `LSClient`, `MCLSClient` | the client library |
| `LSClientProofs` | theorems about the client library |
| `KernelIPC`, `MCKernelIPC` | synchronous message passing in the kernel |
| `KernelQueueProofs`, `KernelTableProofs`, `KernelIPCProofs` | theorems about it: the caller queues and the end of a process; what each kernel function does to a good table and to the history of calls; the theorems |

The modules meet at these points. `LSServer` takes from a parse only its outcome (`Config`,
or an error); `ConfigFile` and `ConfigText` show what the outcome is for a given file and `LoggerList`
when the list in memory is that outcome. `LSServer` writes a line that names its values;
`PrintLog` says which characters of it are written. `LSServer` starts from a message as
received; `LSClient` says which messages a call sends. `LSServer` has one queue of callers,
first in, first out, from which the dead are removed; `KernelIPC` shows that the
kernel's queues are of this kind (`SendersInOrder`, `QueueIsSenders`) and that a blocked
caller is woken (`NoLostWakeup`, `SentIsDelivered`).

## 3. How the modules correspond to the code

### `LSServer`

The server's control point is `pc`: `receive` (in `sef_receive`), `init` (in
`ensure_initialized` with the flag down), `handle` (in a handler), `reply` (before
`ipc_send`). A handler's body is one action: between its statements only other
processes run, and nothing they can do changes the server's memory, its descriptors
or, as no other process writes log files, the files. What other processes can do, die
or exec, is looked at by a handler in two places only, the copy from the caller and
the copy of the process table, and the outcome of each is a choice of the action.

* `wait_request` takes the head of the caller queue and applies the argument checks of
  `main`; `ensure_initialized`, `reply` and the handlers carry the names of the C
  functions. `HandleInitialize` is the `LS_INITIALIZE` case of the switch.
* `do_initialize(ret)` is shared by the two paths that call it, with its result as a
  parameter. It frees the list without closing its descriptors; a failure leaves an
  empty list; a success builds a list of closed loggers from one of the parses in
  `Config` and refreshes the process table, which may fail after the list is in place.
* `do_start_log` includes the process-table refresh it ends with, and with it the case
  where the logger is open and the caller is told `LS_ERR_EXTERNAL`.
* `do_close_log`: a failing `close` jumps to `set_closed`, so the error return after
  the `goto` is dead code and `OK` is the only outcome for the owner.
* `do_write_log`: failing copy, filtered message, whole write, short write, failing
  write, kernel log, and a line for which `print_log` returned 0, of which nothing is
  written and which is answered `OK`. The `-1` of a failed write leaves the file alone.
* `do_clear_logs` applies `do_clear_log` to every entry; which truncations succeed is a
  choice, and one failure of any kind turns the answer into `LS_ERR_LOGGER_OPEN`.
* `Call`, `Exec`, `Spawn`, `Die` are the clients. `Die` includes the kernel's removal
  of the dead process from the caller queue. A dead endpoint does not come back.

Abstractions. A line is a record of the values that `%n`, `%l` and `%m` print and the
process that wrote it; a file is a sequence of lines with holes; a configuration file
is the function from names to loggers that its parse yields. `g_loggers` is a function
from names to entries: `is_logger_valid` keeps names unique. The model therefore
assumes a properly terminated list, which is what the first parse builds in fresh
memory, and with it that every walk over the list ends and every initialisation returns;
`LoggerList` and `ConfigParse` have the list without this assumption. The failure of `sef_receive`
itself is left out, as are diagnostics and `fsync`.

History variables, never read by the server's actions: `belief` (what its replies let a client
think: it holds the logger, it lost it by an initialisation it was not told of, or
neither), `leaked`, `chosen`.

### `LoggerOwnership` and `LSRefinement`

The contract has a table `owner`, the configured loggers `known`, and for each client
its unanswered request and undelivered answer. `Initialise` and the disjuncts of
`Perform` are the outcomes of the handlers as a caller may observe them. The mapping
takes `known` and `owner` from `g_loggers`, and a request as unanswered until the
server has sent the reply or failed to. Where the code is looser than one might wish
the contract says so: a start may fail and still take the logger, and an
initialisation for anybody closes everything.

### `Bufio`

`bufio_init` and `bufio_next_char` are one action each; a read returns as much of the file
as is left and fits, as VFS and the file systems do. `buffer` is what previous reads left in
the array, so that the read of 0 bytes at the end of a file of whole chunks shows the old
byte. `promote` is the conversion of a `char` to `int`, signed as on i386: two byte values
become the two special results. `BufioHistory` adds `got`, the characters returned.

### `ConfigParse`, `ConfigFile` and `ConfigText`

`parse_advance` is a pure operator from a parser state and a symbol to a result and a new
state, one operator per case of its `switch`; `ParseChar` is one turn of the loop of
`parse_config_file`, with the validity test and the allocation. A symbol stands for
a run of characters that the code treats alike in every state (a word, a blank, a
newline, a brace...), and lengths count symbols. `current_logger` is not cleared by
`parse_init` (the arguments of that `memset` are swapped), but no entry is made before
`AdvanceName` clears it. The tail of the last entry is never written. What a walk meets
behind that entry is `stale`, chosen anew for each entry: the names of other entries
that lie there, out of `StaleName`, and whether the walk comes to no end. `is_logger_valid`
looks for the new name among `Met`, the names of the list and of what lies behind it; when
it meets no such name in an endless list, or when the loop that frees the list runs into one
(`Dealloc`), the parse never returns (`ret` is `"stuck"`). In fresh memory `stale` is
`Nothing`. `new` is the entry made in this turn and `block` a history of
the lines since the last name. `ConfigFile` extends both modules and runs the parser on the
characters that the reader returns, with the failures of `open` (whose bare -1 is `EPERM`),
`bufio_init` and `parse_init`. `ConfigText` chooses the file: `defs` is a history of what its
writer meant, and a slip puts one byte of `Slip` in the place of another or leaves one out.

### `LoggerList`

One heap of cells; an entry, a reader and a parser state take one each, since all three
need between one page and two. `do_initialize`, the loops that free, each way out of
`parse_config_file` and the making of an entry are actions. `FreeEntry` reads `tail`
before it frees, as the code does; `MakeEntry` sets no `tail`; `ParseError` jumps past
the loop that frees the list; `Return` frees the reader only. External assumptions:
fresh memory is zero, `free` leaves a cell's content, `malloc` returns any free cell
or fails, and a double `free` has no effect. When a stale tail closes a circle a walk
never ends (`stuck`); this is why deadlock is not checked.

### `PrintLog`

One action is one turn of the loop of `print_log`; `Put` is the macro pair `PUTC` and
`PUTS`, which write what fits and return from the function. A character is a pair of
the text it comes from and its place there, a number of the date is one character.
`items` is the format as its writer meant it; the format proper is its spelling. `clock`
is what the clock driver answers, with the day of the month from 1 and the month from 0;
`Meaning` is what each item stands for by `README.md`, with the date of the clock, and
`PrintedTime` what `put_time` prints.

### `LSClient`

`NamedCall` covers the four calls with one logger, `PlainCall` the two without arguments,
`minix_ls_clear_logs` with `ClearStep` and `ClearLast` the two passes over a list. The fields of a
message are 16 bits wide (`uint16`). The names in a list are its parts between adjacent
commas (`Part`, `Adjacent`). The tests `main` makes on them (`RequestTaken`) are
included, the rest of the server is any of its answers. `Invalid` and `AsPassed` say
what the interface makes of the arguments: which it calls invalid, and the request that
carries them.

### `KernelIPC`

A process is its slot. A trap is one step, because the kernel runs with its lock held. The
operations are operators from a process table to a new table and a result, named after the C
functions, so that `SendRec` is the composition that the fall-through of `do_sync_ipc`
makes. `s_trap_mask` and `s_k_call_mask` are the masks of the privilege structure: a trap or
kernel call that they do not allow changes nothing. The caller queue is the linked list it
is in the code (`caller_q`, `q_link`), and the assertions that could matter are in `panic`.
`delivermsg` is the copy to the receiver just before it runs again. `clear_endpoint` is the
end of a process at any moment. A process may receive from itself: `do_sync_ipc` refuses no
source, and the deadlock test looks at what the source is blocked on. `BlockedChain` is the
walk of that test, and `Endless` says that it comes to none of its ends; the kernel then
stands still with its lock held (`panic` is `"walk endless"`). Not in it: asynchronous
sends, messages from the kernel, signals and tracing, the masks of allowed destinations,
faults in message buffers, and reuse of a slot.

## 4. Runs

### The server

These run on `MCLSServer`. Deadlock is not checked: when every client has died the
system rightly stops.

| Run | Instance | Shows |
|---|---|---|
| `ownership` | 2 clients, 2 loggers, 2 files, 2 descriptors, two possible parses | `OwnDescriptor`, `DescriptorsAccounted`, `HolderIsOwner`, `OneHolder`, `HolderIsNamed` |
| `logging` | 2 clients, 1 logger on a file or the kernel log, 2 descriptors, 2 lines, 2 names, every request but `LS_INITIALIZE` | `TypeOK`, `DefaultThreshold`, `ClearedIsEmpty`, `LinesFromOwner`, `OpenLogOnlyGrows`, and `ServesContract`: the server implements `LoggerOwnership` |
| `answered` | 2 clients, 1 logger, start, close, initialise and an undefined request, no symmetry | `EveryCallAnswered`; `ServesFairly`: the contract with its fairness |

Bounds. Two clients are enough for one to be queued, dying or holding a logger while another
is served, and the argument about each property involves at most two. In `ownership` two
descriptors are fewer than two open loggers and a configuration file need, so the table
fills; one leak and one reuse fit. `MaxLines` bounds how many lines a client will add to a
log and how far a descriptor moves; two lines distinguish appending, overwriting and leaving
a hole. Requests are a small set per run, so that each question has the handlers it is
about; between them the runs take every action, and the contract meets `LS_INITIALIZE` in
`answered`. Two loggers that name the same file, where `OpenLogOnlyGrows` promises nothing,
and the clearing of several loggers at once are left to the proofs. The clients are
interchangeable, so the safety runs use symmetry; the liveness run does not.

Fairness. `Spec` has weak fairness of the server's steps only: `ls` is a process the
scheduler always runs again, and VFS, PM and the kernel answer its calls. Clients are
under no obligation. `EveryCallAnswered` rests on the queue being first in, first out.
The fairness of the contract, weak fairness of performing each request and of delivering
each answer, is written without `ENABLED`, for which TLC would have to search the
contract's steps.

### The other parts

Deadlock is checked in `client`, and not where the function modelled returns once, where a
walk may never end (`logger_list`) or where every process may die or wait (`kernel`).

| Run | Instance | Shows |
|---|---|---|
| `config_file` | files of one definition with up to 4 lines, or of two, the second with up to 3; files of one definition with up to 2 lines and one byte wrong or missing; chunks of 6; opens and reads that fail; any tail of the last entry, with one name behind it | of the reader `CharactersInOrder`, `EofExplained`; of the parser `TypeOK`, `BuffersFit`, `EntryComplete`, `EntryFromItsBlock`, `NamesUnique`; of both `AcceptedWhole`, `ParsedAsDocumented`, `ParsingEnds` |
| `logger_list` | 5 cells, 3 names, files of up to 3 loggers, any number of initialisations | `TypeOK`, `ConfiguredFound`, `OnlyTheseLeak` |
| `print_log` | formats of up to 4 items, messages of up to 2 characters, a buffer of 4 | `TypeOK`, `LineAsFormatted` |
| `client` | lists of up to 5 characters, fields of 3, levels and lengths around each 16-bit boundary | `TypeOK`, `AllOrNothing`, `AnyErrorReported`, `InvalidRefused` |
| `kernel` | two services, one of which sends and the other calls, notifies and clears references, and a user process | `TypeOK`, `NoWaitCycle`, `NoLostWakeup`, `QueueIsSenders`, `SentIsDelivered`, `NoneWaitsForDead`, `AssertionsHold`, `SendersInOrder` |

Bounds. `config_file` takes the option lines in every order and in any combination, and with
chunks of 6 cuts the text at every kind of place; some documented files fill whole chunks; a
wrong byte may be a letter, a word, a blank, a newline, a brace, an equals sign or one of
the two bytes that promote to a special result, so every state of the parser meets a wrong
byte and both early ends are reached. Two definitions show what one may leave behind for the
next. Lengths of one to three symbols put the limits within reach of one slip; the order of
the limits is that of the code. Five cells hold the parser state that leaked, the reader,
the parser state and two entries, the fewest with which a reused entry's tail leads to an
entry of the old list. A buffer of four characters ends before, in and after each kind of
text of up to two. Three processes are the smallest circle the kernel's test has to look for
beyond a pair, and put two senders in one queue; the traps are shared out between the two
services to keep the states few, and user processes may only `SENDREC`
(`include/minix/priv.h`). `BUFFER_SIZE`, the limits of the parser and its input are
arbitrary in the proofs.

Fairness. `ParsingEnds` assumes weak fairness of the parse itself: the server runs and
VFS answers its reads. Its premise is about memory: while no tail leads into an endless
list the parse returns; when one does, the search for the next logger's name need not end.

What these properties say of the known exceptions is exact. `ParsedAsDocumented`: a file
laid out as documented is parsed to the loggers it defines, unless it fills whole chunks or
a name of its second or a later definition lies behind the list. `LineAsFormatted`: the
output is the line that the format means with the day after the current one, cut at the end
of the buffer, and it is dropped exactly when the buffer ends inside `%l`. `InvalidRefused`:
within 16-bit fields an invalid argument is refused, no valid one is refused but a name one
short of the limit, and what is not refused is sent as it was passed. `NoWaitCycle`: there
is no circle of blocked processes but that of a process that receives from itself. The
exceptions are among the disagreements below.

### Runs that end in a violation

Each states what a document or an assertion of the repository says, and TLC shows the code
doing otherwise:

| Run | Claim | What the code does |
|---|---|---|
| `two_holders` | one process at a time has a logger open (`README.md:44`) | a re-initialisation closes every logger behind its owner's back, and another process opens it |
| `chosen_severity` | `minix_ls_set_logger_level` sets the threshold (`include/minix/ls.h:77`, `ls-api-test/ls-api-test.c:87`) | it is accepted only while closed, and `start_log` resets it |
| `found_logger` | a logger that is found is in the configuration (`include/minix/ls.h:38`) | the stale tail of the last entry leads to old entries |
| `queue_link` | who blocks on a send has no queue link (`kernel/proc.c:886`) | a sender freed by its destination's death keeps it |

`OneHolder` and `OneBeliever` together say what mutual exclusion the code gives: it
holds between initialisations and is broken by one.

### Other disagreements

The modules model the code where it differs from what is written about it. These
differences have no run of their own; the definition named shows what the code does.

| What is written | What the code does | Definition |
|---|---|---|
| `minix_ls_initialize` fails with `LS_ERR_EXTERNAL` or `LS_ERR_INIT_FAILED` (`include/minix/ls.h:17`) | the parser's raw error is returned | `LSServer!HandleInitialize` |
| implicit initialisation only if there was no explicit one (`ls.h:13`) | an explicit one does not set the flag | `LSServer!HandleInitialize` |
| a bad configuration is `LS_ERR_INIT_FAILED` (`ls.h:35`) | after a failed re-initialisation every logger is `LS_ERR_NO_SUCH_LOGGER` | `LSServer!do_initialize` |
| `LS_ERR_LOGGER_OPEN` means a logger was open (`ls.h:163`) | it is the answer to every failure | `LSServer!do_clear_logs` |
| only who last successfully started a logger can close it (`ls.h:51`) | a start that reports failure may have opened it | `LSServer!do_start_log` |
| at the end there are no more bytes in the file (`servers/ls/bufio.c:32`) | the byte 0xff is returned as the end | `Bufio!promote`, stated by `EofExplained` |
| `%n` is the writer's name (`README.md:75`) | it is the name at the last table refresh, before any exec since | `LSServer!get_process_table` |
| a log that is cleared is not open (`ls.h:147`) | only the logger that is cleared is tested, not another one on the same file | `LSServer!Truncated` |
| any number of loggers can be defined (`README.md:61`) | a file that fills whole chunks gets a character more and may be refused | `Bufio!Refill`, stated by `ParsedAsDocumented` |
| the same, and a name reported as already defined is (`servers/ls/config-parse.c:434`) | it may lie behind the last entry, in memory of an old list | `ConfigParse!Met`, `LoggerList!GotLogger`, stated by `ParsedAsDocumented` |
| a call initialises the server and goes on (`ls.h:13`) | the walk over the list never ends when its last tail leads back into it | `ConfigParse!WalkEnds`, stated by `ParsingEnds` |
| a value for `filename` must be given (`README.md:63`) | `filename =` alone is accepted | `ConfigParse!set_logger_option` |
| a message is written to the log (`ls.h:107`) | a line whose buffer ends inside `%l` is dropped and answered `OK` | `PrintLog!pb_minus_pend`, stated by `LineAsFormatted` |
| `%t` is the current date (`README.md:76`) | the day is one too high | `PrintLog!PrintedTime`, stated by `LineAsFormatted` |
| a name is refused when it does not fit (`ls.h:138`) | the longest name that fits is refused | `LSClient!NamedCall`, stated by `InvalidRefused` |
| a message too big is `EINVAL` (`ls.h:138`) | 65536 characters count as none | `LSClient!uint16` |
| the deadlock test returns (`kernel/proc.c:646`) | its walk never leaves a process that receives from itself | `KernelIPC!Endless`, stated by `NoWaitCycle` |
| `MF_REPLY_PEND` means that a reply is pending (`kernel/proc.h:231`) | it stays set after a `SENDREC` that failed | `KernelIPC!SendRec` |

## 5. Proofs

The proofs are for every value of the constants that the assumptions named in the modules
allow. They complement the runs: a property with a theorem is also checked by TLC on an
instance, but for `ReaderTypeOK`, on which other theorems rest.

### The server

`LSServerProofs` proves, for every set of clients, loggers, files, names, requests and
configurations and every positive `OPEN_MAX`:

* `TypeCorrect`: `TypeOK`;
* `DescriptorsCorrect` and `NoDescriptorLost`: `OwnDescriptor` and `DescriptorsAccounted`;
* `HoldersCorrect` and `HoldersNamed`: `HolderIsOwner` and `HolderIsNamed`;
* `MutualExclusion`: `OneHolder`;
* `ThresholdIsDefault`: `DefaultThreshold`.

All follow from `Invariance`, that `IInv` is inductive. The assumptions are those of
`LSServer`: `NONE` is no client, file, name or request; requests are messages; a parse
is a function from names to well-formed loggers, with a path for each file logger, as
`is_logger_valid` demands.

`IInv` adds to the properties what they need to be inductive. `OwnDescriptor` alone
would not survive `do_start_log`: that the new descriptor is nobody's needs
`DescriptorsAccounted`, by which a descriptor free in VFS is neither leaked nor any
open logger's. `HolderIsOwner` needs `ReplyOK`, since a client becomes a holder when the
reply is delivered and not when the handler runs: while a successful `start_log` is
unanswered the logger must already be the caller's. `OneHolder` needs its other
half, that while a successful `close_log` is unanswered the logger is closed.
`ReplyOK` survives client steps because of `ServingOK` and `QueueOK`: the process being
served is blocked on its request and in no queue. `BornOK` keeps a new process from
inheriting anything, `ArgsOK` carries the checks of `main` into the handlers, `NamedOK`
and `PathOK` carry PM's and the parser's guarantees.

The proof has one lemma per action, and lemmas for what actions share: `InitializeInv`
for the two paths to `do_initialize`, `ReturnStep` for the early returns, `FilesStep`
for handlers that change only files, `OneEntry` for those that change one logger.

`LSStepProofs` proves the two action properties about files. `OnlyTheOwnerLogs`
(`LinesFromOwner`) follows from `IInv` by cases on the steps that touch a file.
`OpenLogsGrow` (`OpenLogOnlyGrows`) needs one invariant more, `AtEnd`: the descriptor of an
open logger that does not append, and whose file no other logger names, stands at the
end of the file, so that its next write overwrites nothing. `ClearingEmpties`
(`ClearedIsEmpty`) follows from `IInv` and itself: the handler leaves the logs cleared, and until the
reply nothing touches the list or a file.

It also proves `Refinement`, that `LSServer` implements the safety part of
`LoggerOwnership`. Each step of the server maps to one step of the contract or to a
stutter; `RInv` adds to `IInv` that an open logger has a process as its owner, that
the dead have no call, and that `LS_INITIALIZE` does not pass through the implicit initialisation.

### Reader and parser

`ConfigFileProofs` proves, for every file, byte set and positive `BUFFER_SIZE`, every
input and all limits in the order of the code's:

* of the reader `ReaderTypes` (`ReaderTypeOK`), `ReadsInOrder` (`CharactersInOrder`) and
  `EndIsExplained` (`EofExplained`). The invariant `HInv` says that the buffer is a window
  of the file that ends at the descriptor's offset and starts at a multiple of
  `BUFFER_SIZE`, with the one exception of a read of 0 bytes;
* of the parser, whatever lies behind its last entry, `ParserTypes` (`TypeOK`), `NoOverrun`
  (`BuffersFit`), `EntriesComplete`, `EntriesFromTheirBlocks` and `NamesAreUnique`. `PInv`
  has two parts. `Sound` bounds each buffer by the state the parser is in and says that no
  buffer starts with a blank, so that `trim` changes nothing. `Linked` says that from a name
  to the closing brace the logger under construction and its flags are exactly what the
  lines of the block say; it fails between blocks, where the old flags are still set, which
  is why the reset at the keyword matters;
* of `parse_config_file`, which composes them, all of this (`FileParsed`) and
  `NothingCutOff` (`AcceptedWhole`). Each step of the composition is a step of the parser,
  of the reader, or of both, and `CInv` joins the two invariants: the parse goes on only
  while the reader does, and returns `OK` only at `BUFIO_EOF`, which `EofExplained`
  explains.

Beyond the assumptions of the parts, `FileAssumption` says that every byte but the two that
promote to a special result is a symbol the parser knows.

### The list

`LoggerListProofs` proves `ListTypes` (`TypeOK`), `EveryLoggerFound` (`ConfiguredFound`) and
`NothingElseLost` (`OnlyTheseLeak`) for any finite heap, any set of names and files of any
length, through any number of initialisations, failed or not.

The code never ends the list: the tail of the last entry is whatever the cell held. So the invariant
`LInv` cannot say that the list is what a walk visits. It says that a walk
begins with the entries of the file: `Chained` makes each entry's tail point to the next
and says nothing of the last, and `find_logger` meets the name it looks for before it gets to
the end. `Freeing` is the same for the loop that frees while it walks: the cells behind the
cursor are free, those before it still chained. That the loop may run on past the end is
harmless for `ConfiguredFound`, because nothing is listed by then. `Accounted` gives every
allocated cell its reason: the reader in use, a parser state in use or lost, an entry
listed, under construction or lost.

### The client library

`LSClientProofs` proves `ClientTypes` (`TypeOK`), `ListCleared` (`AllOrNothing`),
`ErrorReported` (`AnyErrorReported`) and `RefusesInvalid` (`InvalidRefused`) for lists,
names, messages and levels of any size, any positive `MAX_LOGGERS_LEN` and every
`LS_IPC_LOGGER_MAX_NAME_LEN` above 1.

`AllOrNothing` relates the two passes of `minix_ls_clear_logs`: either nothing is sent or
exactly the names between the commas, in order. In the middle of the second pass the
invariant `ClientInv` says that the names sent are those that end at the commas passed
(`SentUpTo`), that the buffer is the text since the last of them, and that the whole list
passed the tests of the first loop (`Accepted`). That the buffer cannot overrun, and that a
name fits in its field, follow only from this last part.

### Message passing

`KernelIPCProofs` proves, for any number of processes and all trap and call masks:

* `KernelTypes` (`TypeOK`), `AssertionsNeverFail` (`AssertionsHold`);
* `NoCycles` (`NoWaitCycle`) and `DeadAreNotAwaited` (`NoneWaitsForDead`);
* `NoWakeupLost` (`NoLostWakeup`);
* `QueuesAreSenders` (`QueueIsSenders`) and, of steps, `OrderKept` (`SendersInOrder`);
* `SendsTellTheTruth` (`SentIsDelivered`).

They follow from `Invariance`: its `IInv` says that, unless an assertion has failed or a
walk is endless (then some process receives from itself), there are queues `Q`, one sequence
for each process, such that

* the pointers `caller_q` and `q_link` link exactly `Q` (`Links`), no process being in two places,
  and `Q` holds exactly the senders (`Members`). The link of a process in no queue is
  arbitrary, since `clear_ipc` does not clear it;
* in every set of processes one is blocked on none of the others (`Acyclic`). `NoWaitCycle`
  speaks of walks of up to `NR_PROCS` steps; said of sets, the same is kept by a step
  without counting the length of a chain;
* who is blocked is alive and has been handed nothing (`Blocked`), waits for the living
  (`Awaited`), and would accept nothing that is queued or pending (`Wakeful`); one that
  receives from `ANY` is not waiting for the reply of a `SENDREC`;
* the history of sends agrees with the flags (`History`): a send in progress has not been
  delivered, and what a call returned is what happened to its message.

A call is a composition of operators on tables. There is one lemma for each operator, that
it takes a good table to a good one and what it does to the queues and to the history, and the
lemma for a call chains them. The end of a process takes others off queues any number of
times (`clear_ipc_refs` is a fold over the processes); its lemma is an induction over them.

### Induction

The theorems of the library that state induction take an operator as a parameter and
cannot be used. Where a walk or a fold is recursive over numbers, the proofs
argue from a least counterexample instead: a set of numbers that is not empty has a least
element (`LeastNumber`, from the well-foundedness of `<` stated for sets). This gives the
value of a recursive function on numbers (the queue walk, `deadlock`, the iteration of
`clear_ipc_refs`, the walk of `find_logger`), and what holds along it.

### Only model-checked

* The liveness properties `EveryCallAnswered`, `ServesFairly` and `ParsingEnds`: liveness under
  fairness is out of the prover's reach.
* `ParsedAsDocumented` of `ConfigText`: it relates the text of a file, which is a
  join of joins of sequences, to what a run of the parser over it does. That needs an induction
  over the text with the parser's state as its hypothesis, for a definition that
  is itself recursive over sequences.
* `LineAsFormatted` and `TypeOK` of `PrintLog`: what is written is compared with the joined
  expansions of a format, again recursive over sequences.

## 6. What is not modelled

Every C function of `ls` and of its client library that changes state is an action of
a module. Diagnostics (`mini-printf`) are output that no state depends on. The server's start-up
(`sef_startup`) is the stock one.

Of the kernel the synchronous part of message passing is modelled, as the part every
call to the log server rests on; of VFS and PM only what `ls` sees of them. The rest of the
tree, more than half a million lines of drivers, commands, libraries and servers, is the
stock MINIX 3.3.0 system to which the logger is added; it shares no state with the
logger, and the share of the tree that the modules cover is accordingly small.

A process that dies without closing its loggers leaves them open until the next
initialisation; the code has no hook for it and no document promises one, so no
property speaks of it.
