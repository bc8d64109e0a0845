# Formal models of the CS 4400 labs

TLA+ models of the programs in this repository, model-checked with TLC and in
part proved with TLAPS.  The repository is a set of independent C programs: a
multi-threaded chat server (`Serverlab`), a malloc package with its driver
(`Malloclab`), a script shell (`Shelllab`), image kernels with their driver
(`Performancelab`) and a pattern matcher (`Matchlab`).

## Inventory

### TinyChat (`Serverlab/tinychat.c`, `dictionary.c`, `more_string.c`, `csapp.c`)

State: one dictionary `global_dic` from topics to heap-allocated conversation
strings, shared by one detached thread per connection; the semaphore `sem_lock`;
per connection the rio buffer, the headers and the query.  Operations: reading
and parsing a request, and the branches of `doit` (join, post, `/conversation`,
`/say`, `/import`, welcome, error answers).  What is hard: every dictionary call
is locked but no sequence of them is; a pointer returned by `dictionary_get` is
used after the unlock; an import is a client of another server, possibly of
itself or of one that never answers; a field the client leaves out is a NULL
pointer; a request arrives in pieces, may be cut or reset anywhere, and the
results of the readers are not looked at.  Correctness: mutual exclusion, one
owner per string, no acknowledged entry lost, no reply from freed memory, the
form that was sent is the one that is handled, every request answered.

### Malloc (`Malloclab/mm.c`, `memlib.c`, `pagemap.c`, `mdriver.c`)

State: an explicit free list threaded through boundary-tagged blocks in regions
of mapped pages; a table and a list of mapped pages; the driver's traces, range
list and statistics.  Operations: `mm_malloc`, `mm_free`, `mm_init`; `mem_map`,
`mem_unmap`, `mem_reset`; `add_range`, `remove_range`; the passes
`eval_mm_valid`, `eval_mm_util`, `eval_mm_speed`.  What is hard: long sequences
of calls after which a tag or a link is stale, words that the client wrote next
to words the allocator reads, a list taken apart while it is walked, a trace
that fails half-way.  Correctness: regions tiled by well-formed blocks, the free
list exactly the free blocks, payloads disjoint and intact, pages given back;
the driver measures every pass on an empty heap and reports what happened.

### Whoosh (`Shelllab/whoosh.c`, `parse.c`, `csapp.c`)

State: the table of variables and the parsed groups; the position in the script,
`array` and `pid` (read by the signal handler), `var_list`, the signal mask, and
the process tree.  Operations: parsing and printing; single commands, pipelines
(AND), races (OR), repetition, variables, `sigint_handler`.  What is hard: the
handler runs between any two instructions; it and the main program wait for the
same children; children end in any order; names that begin one another.
Correctness: no child left behind, no wrapper error without cause, results in
their variables, Ctl-C ends the command and not the script, a script means the
same after it is printed.

### Performance lab (`Performancelab/kernels.c`, `driver.c`, `fcyc.c`)

State: four images in one array, the registered functions, the K smallest times,
the best score of each kind.  Operations: the four kernels, the checks, K-best
sampling, scoring.  What is hard: the optimised `motion` runs in blocks over the
edge of the image and reads what happens to lie behind it; sampling must end for
any times.  Correctness: the checks accept the kernels whatever that memory
holds; the smallest times are kept; the score is the fastest function's.

### Match lab (`Matchlab/matchlab.c`)

State: the arguments in memory, which the conversions write, and the chunks of
the allocator.  Operations: three matchers, three conversions, the options.  What
is hard: unterminated buffers whose meaning depends on the heap, a `memmove` of
the wrong length.  Correctness: verdicts and conversions as the models define
them, for arguments that are still what was given.

### Not modelled

`Linkinglab/inspect.c`: a straight-line walk over the tables and machine code of
an ELF image, without state of its own.  `Bomblab`: binaries and disassembly; the
C source is only their `main`.  `clock.c`, `fsecs.c`, the counters and interval
timers: hardware and wall-clock time, of which the models take any value
(`ftimer_gettod` appears by its ten calls).  Malloclab's copy of `fcyc.c` is not
selected by `config.h`.  Of the modelled files: the HTML and JSON pages, tables
and image files that are only printed; `inst_util` (a floating-point product);
`free_dictionary`, `entity_encode`, `to_string`, `starts_with`,
`parse_status_line`; descriptors and leaks; the wrappers of `csapp.c` around
single system calls; suspended jobs of the shell (`continued_list` is never
filled).  Tests, traces and Perl/Racket tools are data or clients.

## Modules

| module | models | notes |
|---|---|---|
| `TinyChat` | `tinychat.c`, `dictionary_get/set`, `P`/`V` | one action per shared access of a thread; a conversation is the sequence of its entries, an entry is the thread that said it |
| `HttpText` | `more_string.c`, `dictionary.c` | pure operators on byte sequences |
| `Request` | the rio readers, `read_requesthdrs`, `read_postquery` | one thread and its client; ends where `TinyChat` starts |
| `MM` | `mm.c`, `memlib.c` | pure operators from heap to heap, 4-byte words, byte addresses |
| `Ranges` | `add_range`, `remove_range` | pure operators |
| `MDriver` | `eval_mm_valid` over `MM` and `Ranges` | one action per request kind |
| `Malloc` | | what `mm.h` promises; `MDriver` implements it |
| `TraceDriver` | `main`, `read_trace` and the three passes, over `Ranges` | any package |
| `PageMap` | `pagemap.c` and the loops of `memlib.c` | one action per loop iteration |
| `Whoosh` | `whoosh.c`, the csapp process wrappers | shell, handler and processes interleave |
| `Parse` | `parse.c` | one action per turn of a parser loop |
| `Kernels` | `kernels.c`, the checks and image formulas of `driver.c` | pure operators on one colour channel |
| `Fcyc` | `fcyc.c` | the sampler's state, used by `PerfDriver` |
| `PerfDriver` | `driver.c` | composes `Kernels` and `Fcyc` |
| `Matchlab` | `matchlab.c` | one action per argument |
| `MC*` | | workloads: clients, requests, payloads, traces, scripts, arguments, images; `MCScanners` runs `Parse` or `Matchlab`, `MCTraceDriver` runs `TraceDriver` or `PageMap` |
| `TinyChatProofs`, `PageMapProofs`, `TraceDriverProofs`, `WhooshProofs`, `MMProofs`, `MDriverProofs`, `PerfDriverProofs`, `ScannersProofs` | | theorems |

### TinyChat

`pc[t]` is the position of connection `t` in `doit`; `round[t]` tells the first,
second and third `dictionary_get` of a handler apart.  `P`, `dictionary_get`,
`V_get` are the locked read that every branch starts with.  `Build` is
`append_strings` on the pointer read; it happens after the unlock, so it reads
whatever the pointer leads to by then (`Contents`: the live text, or, if the
string was freed, its old bytes, another string's, or garbage; `MayCrash`: the
page may be gone).  `Lacks` and a NULL topic are requests with missing fields,
which reach `strcmp`, `strlen`, `strdup` and `strcasecmp` (`PassesNull`,
`NullCrash`); `append_strings` ends at the first NULL, so a missing user or text
only loses the entry.  `Crash` is what may kill the process and need not: freed
memory, the uninitialised `method` of a refused line, an unresolved host, a topic
that `sprintf` takes for its format (`Unprintable`).  `dictionary_set` is two steps, the free and the store.
`serve_form` reads the pointer once more.  `Connect` and `Await` are the import,
from any of `Hosts`: this server (one more thread, whose client sends no blank
line), or another that cannot be resolved or reached, stays silent, answers with
a refused line, a status line or a request, or never ends its headers.  `raced` is a history variable: the topics on which a
`dictionary_get` fell into another request's window from its own get to its
last use of the pointer.

The model's bounds are the numbers of threads, topics and strings of a run;
`SlotBound` keeps one connection free for each self-import so that the bound on
threads is not what stops it.

### HttpText and Request

A string is a sequence of bytes; codes from 256 on are words nothing looks into
(a method, a header name), with an upper-case spelling each.  `Fill` is a `read`
of any length; `Line` and `Bytes` copy from the buffer up to the newline, the
buffer's end or the length asked for; `Eof` and `Error` are the ways a reader
returns early, with what they leave in the caller's buffer (the bytes of an
unfinished line without a terminator, over the line before).  The uninitialised
values the code reads are choices: `method` of a refused line, the first `buf` of
`read_requesthdrs`, the part of a body that did not arrive.  `atoi` keeps to an
int of width `INT_MAX`: a negative or maximal Content-Length gets no usable buffer
(`NoBuffer`), and one of -1 writes before it.

### MM and MDriver

A heap is a record of memory words, list head, mapped pages and a fault flag.
`mm_malloc` returns the set of its outcomes, one for each address that `mmap`
could choose.  A request fills its payload with `FillWord`, words that look like
a prologue tag or like a terminator, the words `coalesce` and `mm_free` search
for.  Page size, growth factor and number of pages are constants: the code's
4096-byte pages and factor 16 are replaced by pages of 48 bytes and factor
3.  The block layout (16-byte alignment, 8 bytes of overhead, 16-byte list node)
is the code's.  `new_size` and `this_size` are ints (`ToInt`): a request whose
region would not fit (`Fits`; 128 MiB with the real constants) gets another size
than it asked for.  `mm_malloc(0)` is NULL.  The driver's `SizesAssumption` leaves
both out, as the traces do.

### TraceDriver

The package under test is external: a call returns NULL or any address, maps the
payload's pages or not, and a free keeps or returns them.  `pass` is the position
in `main` and the passes; `Invalid` is the return that leaves the pages of a
refused trace mapped; a size of 0 ends the driver at `add_range`'s assert
(`Aborts`).  `SpeedEnd` counts the calls `ftimer_gettod` makes.  The
libc package is run by one action, since it shares no state with the rest.
`FilesAssumption` is what parsing a trace file with `fscanf` yields, well-formed
or not.  `trace->blocks` and `block_sizes` are kept as one function and forgotten between
passes: a well-formed trace never reads an entry before its own pass wrote it.

### PageMap

`Link` and `Unlink` are the two halves of `pagemap_modify`; the three-level table
behind them is the function from pages to records.  `kernel` is what `mmap` and
`munmap` did.  A wrong `mem_unmap` is allowed as a call and aborts in the middle
of its run.

### Whoosh

The steps between blocking and unblocking SIGINT in `run_command` are one
action, since neither the handler nor a child can see between them.  The
unprotected ones are apart: the fork and the assignment to `pid` in an AND
group, the stores of `freeArray`.  A pending SIGINT that is not blocked is
delivered before the shell's next step.  `handle_pipe` runs in a forked copy of
the shell: only the processes it starts are visible.  `Wait` on no child, `Kill`
and `Waitpid` on a reaped one end the shell (`out = "error"`), as the csapp
wrappers do.  A command ends with an exit code or by a signal of its own
(`Ends`); `code[p]` also keeps whether the process ended by itself or by SIGTERM.
`Waitpid` with a `pid` of 0, before the first assignment, asks for a child of the
shell's own process group (`InShellGroup`).  A read of the freed array can give
anything: no process (an error), an unmapped page (a crash) or a 0, for which
`kill` ends the shell (`out = "killed"`).  Pids are not reused.  `ScriptsAssumption` is what `parse.c`
produces: groups with a command, single exactly when there is one.

### Parse

`at` is the pointer `buffer`; `step` says which loop it is in.  `StartGroup` is
`parse_group` up to its first command, `StartCommand`, `NextArgument` and
`EndCommand` are `parse_command`, `NextCombiner` the rest of the loop of
`parse_group`.  `ParsePrinted` starts a second process on what `print_script`
printed.  `repeats` is an int and wraps at `INT_MAX` (`Number`); `isspace` takes
all six blanks of the C locale.  `refs` is a history variable: every name read with the variable found.

### Kernels, Fcyc and PerfDriver

The channels are computed alike, so one is modelled.  The images lie one behind
the other, and a read past `orig` is a read of `tmp` (`Read`), which holds any of
`Stale`.  `Store` lists the seven loops of `motion` in their order, with where each
stores and what it adds up; a pixel has what the last of them stored there
(`Storing`, `Latest`).  The code's blocks of 8 and dimensions from 32 to 1024
become blocks of `TILE` and small multiples of two of them.  `Options` covers the
exits of the option parser and a line of the `-f` file without a colon (`Bare`),
whose NULL name `strcmp` is given.  Mean
speedups of one kind have the same baselines, so they are compared by the
products of the cycles.

### Matchlab

`mem` is the argument area, in which conversions write; `freed` and `stale` are
the one chunk that `b_model_conversion` gives back and what it holds when
`malloc` returns it.  `tem_str`, `temp_for_cmp` and `positioned` are malloc'd with
10, 10 and 255 bytes and written without a bound: a chunk really holds 24 and 264
bytes (`SMALL_CHUNK`, `LARGE_CHUNK`), and what is written behind that is another
chunk's header.  `Overrun` ends the model there, since from then on `malloc` may
abort or any answer be printed.

## Runs

| run | shows |
|---|---|
| `tinychat` | 2 connections, all requests, 2 topics: `TypeOK`, `LockInv`, `Ownership`, `ExactWithoutOverlap`, `CompleteDiesOnlyRacing`, `TopicsStay`, `RequestsEnd` |
| `tinychat_lost`, `tinychat_import` | two things `stress.rkt` tests for that the code does not do |
| `request_garbage` | a client whose errors the server does not survive |
| `request` | requests cut at every byte and split in every way: `FormReceived`, `DiesOnlyMalformed`, `RequestEnds` |
| `mm` | 2 regions, 3 blocks of 2 sizes: `RegionsTiled`, `FreeListExact`, `PayloadsIntact`, `NothingLeaks`, `NeverCaught`, `RangesAreBlocks`, `Implements` |
| `mdriver` | two traces over any package: `OverlapOnlyEngulfs`, `UtilExact`, `ErrorsAgree`; or the page layer on 4 pages: `ListExact`, `KernelAgrees`, `NoDoubleMap`, `CallsEnd` |
| `mdriver_overlap` | an overlap that `add_range` does not see |
| `whoosh` | one or two groups, two Ctl-C anywhere: `NoZombies`, `ErrorsNeedCtlC`, `ResultReceived`, `CrashesExplained`, `TermsOwnGroup`, `Finishes`, `CtlCEndsCommand` |
| `whoosh_pause` | where the shell does not do what `pause.whoosh` expects |
| `scanners` | the parser and the matcher: `PrintsBack`, `NamesStable`, `OutputRight`, `ArgumentsKept` |
| `perflab` | kernels, sampler and driver: `KeepsSmallest`, `BestIsFastest`, `NeverRefused`, `DriverEnds` |

Why the bounds are enough.  The races of TinyChat are between two requests on one
topic; two topics let strings move between topics through reuse of addresses (of
three: the strings of both topics and one being built), and the proofs cover any
number of connections.  In `request` a line buffer of 13
bytes lets a header overflow it and the others fit, and a rio buffer of 5 is
refilled several times in every line; every cut and every split occurs, and with
`INT_MAX` = 127 a length of three digits overflows.  In
`mm` a region holds three blocks, so every combination of free and allocated
neighbours occurs at both ends and in the middle, with a remainder that is split
off and one that is too small; a fourth block, the new one of a realloc, makes a
second region, and both come and go at every address; one owner's payload looks
like prologues, the others' like terminators.  Two sizes, both in blocks of 32
bytes, make a realloc that grows or shrinks in place visible to `Implements`.
Blocks of several sizes and regions of several sizes are left to the theorems.  In `mdriver` two sizes and five
addresses give disjoint, equal, overlapping, containing, misaligned and unmapped
payloads, and a second trace can follow one that failed.  Four pages give the
page list a head, a tail and two middles.  The scripts of `whoosh` have every
kind of group before others, and with a `var_list` of three entries some of them
run past it.  The lines of `scanners` are all sequences of four
of thirteen words, good and bad; with `INT_MAX` = 31 the count 40 wraps to a
negative one.  The strings are all short ones over each model's letters, every run
length around the limits, and some of 25 digits and 9 letters, one more than the
chunks of 24 and 8 bytes hold.  In `perflab` blocks of 4 on images of 8 and 16: as
with blocks of 8 on 32 and up, `dim - 2` is not a multiple of the block, so case 1
of `motion` runs over the last two rows and columns and reads behind `orig`.  The
images light one pixel at a time in the corners and last rows.

Deadlock checking is off where the program really stops: a finished workload,
an abort, the end of a script or of a driver, a client that stays silent.

### Fairness

TinyChat: weak fairness of each thread (the kernel schedules every runnable
thread); none is assumed of the order in which `sem_wait` admits threads, or of
clients.  Request: the thread goes on and what was sent arrives; nothing is
assumed of the client.  PageMap and PerfDriver: the one thread goes on.  The callibration loop of `clock.c:184` is
outside the model: `DriverEnds` is about the sampler and the driver.  Whoosh:
the shell, signal delivery and every process go on; a command that "ends" or was
sent SIGTERM does end, one that "sleeps" need not.

## Findings

1. Of two overlapping says of one topic one entry is lost (`tinychat_lost`).
   `ExactWithoutOverlap` and `CompleteDiesOnlyRacing` show the converse: without
   overlap nothing is lost or garbled, and no complete request is fatal.
2. `/import` from a TinyChat server never returns: no blank line is sent
   (`tinychat_import`).
3. Ctl-C can end the script instead of the command (`whoosh_pause`).
4. A line that is no request may kill the server (`request_garbage`: the answer
   is built from an uninitialised pointer), although `tinychat.c:54-57` means it
   to survive the errors of its clients and `trouble.rkt` sends such lines.
5. `add_range` accepts a payload that lies around an older one
   (`mdriver_overlap`), although `mdriver.c:396` says that payloads must not
   overlap.  `OverlapOnlyEngulfs` shows that this is all it misses, and
   `RangesAreBlocks` that `mm.c` never produces one.

Other limits of the code are part of the statements that pass, as their exact
exceptions:

- a form without its message or a request without its topic passes NULL on and
  kills the server (`CompleteDiesOnlyRacing` is about requests that have them);
- the server dies while reading a request only at a refused line, a post without a usable
  Content-Type or one with a negative or maximal Content-Length, and never parses
  the first header (`DiesOnlyMalformed`, `FormReceived`); names of fields are kept as they were sent, not decoded;
  a connection closed inside the headers keeps its thread for ever
  (`RequestEnds`);
- a group that has a result variable crashes the shell if it is repeated or if
  its command has a pid variable, and so does a Ctl-C between freeing the array
  and clearing its length; a script with more pids and results than `var_list`
  has entries writes past its end (`CrashesExplained` says that nothing else
  does); a pipeline's result is never
  set in the shell (`ResultReceived` is about the other groups); the first
  commands of a pipeline are not waited for and may outlive the script;
- `$a` after `$ab` is `$ab` (`NamesStable`);
- a repeat count that overflows its int to a negative one is printed so and then
  refused, as is a printed line that has become too long (`PrintsBack`);
- `matchlab -b -t` depends on bytes left in the heap, `-c -t` with a single `A`
  takes the character before it too and may write into the next argument, a lone
  option crashes, and arguments longer than its buffers run over them
  (`OutputRight`, `ArgumentsKept`);
- a line without a colon in the `-f` file crashes the performance driver
  (`DriverEnds`).

## Proofs

Every theorem is for any value of the constants.  Each rests on an inductive
invariant, which TLC has checked on the run's instance before it was proved
(the one of `MDriverProofs` quantifies over the blocks of the heap; TLC has
checked it as the four invariants that read the blocks off the headers).

`TinyChatProofs`: `TypeCorrect`, `LockCorrect`, `OwnershipCorrect`,
`TopicsStayCorrect`.  `LockInv` is inductive with the type invariant: the threads
between a P and its V are exactly those in `InSection`.  `Ownership` is the
inductive invariant of the strings: a fresh string is private, a slot of the
dictionary owns its string unless its thread is between the free and the store
(`Stale`), and every live string has one of these owners.  `LockInv` is needed so
that at most one slot is stale at a time.  `TopicsStay` follows because what
`dictionary_set_store` stores is a fresh string, not NULL.

Its second half: `CrashCorrect` (of complete requests) and `ExactCorrect`, from
`ExactInv` (`TextCorrect`).  The parts: which places a request can be at (`PathInv`); two
handlers that are inside their read-append-replace sequences on one topic have
raced, and one that has not still holds the string the dictionary holds
(`RaceInv`); the string a handler has built extends that one and holds its own
entry (`TextInv`); every acknowledged entry is in the dictionary's string or in
the one about to be stored, and replies are clean (`ReplyInv`).  `Ownership` is
needed: it says that nobody else can free or rebuild the string in hand.

`PageMapProofs`: `ListCorrect`, `KernelCorrect`, `DoubleMapUnreachable`.
`ListExact` says there is a listing: an injective sequence whose range is the
mapped pages and whose order is the links.  Linking puts a page in front of it;
unlinking takes one out anywhere, by giving the shortened sequence explicitly.
`RunInv` (the run being mapped is not in the table, the run being unmapped no
longer is) makes `KernelAgrees` and `NoDoubleMap` inductive.

`TraceDriverProofs`: `OverlapCorrect`, `ErrorsAgreeCorrect`, from
`DriverInv` (`DriverCorrect`), for any traces and any answers of the package.  The
range list is newest first; that a payload overlaps an older one only by
containing it is kept by `add_range` (the two tests of `Accepts`) and by
`remove_range`, which takes out the first entry with an address (`LeastNat`, a
set of naturals has a least element, stands in for induction).  `CountInv` ties
`errors` to the cardinality of the set of failed traces.  `UtilCorrect` follows from
a second invariant, `UtilInv` (`UtilInvCorrect`): during `eval_mm_util` the blocks
in use have the sizes their last requests gave them, so that a request changes the
sum at one block (`SumChange`) by what the code adds to or takes from `total_size`
(`GrowthIs`); that no other pass starts with a stale entry needs the trace to be
well formed.

`WhooshProofs`: `NoZombiesCorrect`, `ErrorsCorrect`, `TermsCorrect`, from `IInv`
(`ChildrenCorrect`): at every place of `run_script` the set of the shell's
children is exactly the processes that the place knows of (none; the one in
`pid`; one that is not noted yet; those of `pid_list` from `i` on but the first
finisher), and while a SIGINT was handled the noted one may be missing.
`HandlerInv` says where the handler can run; `PidsInOrder` that a fork's pid is
new.

Its second half: `ResultCorrect`, `CrashesCorrect`, from `VarInv`
(`VariablesCorrect`).  `EntryInv` says what the entry of `var_list` at
`var_index` is at every place: the result variable that `run_group` noted, or
nothing once it was used or a pid took it.  `CountInv` bounds `var_index` by the
number of entries the script has used, a set of which every use adds a new
member.  `StatusInv` says whose status the last Wait returned, and that without
Ctl-C no child has been terminated before `handle_or` has its first finisher;
`ResultsInv` carries a result over the groups that do not assign its variable.

`MMProofs`: `MallocCorrect` and `FreeCorrect`, what `mm_malloc` (of a size that
`Fits`) and `mm_free` do to a well-formed heap (`HeapOK`), function by function.  A heap is well formed
for some set of blocks `B` of sizes `S`, of which `A` are allocated, when the
blocks tile the regions (`Layout`), headers and footers say so (`Tags`, `Marks`),
the others are the free list (`FreeList`: an injective sequence in the order of
the links), no two of them are neighbours (`Merged`), every region holds an
allocated block (`InUse`) and nothing was written outside.  Each function is a
lemma from one such description to the next: cutting a block (`Allocates`,
`SplitLayout`), growing (`Extends`), the four cases of `coalesce`, unmapping
(`Releases`).  `WordsApart`, `ListFrame` and `BlockFrame` are the frame: a write
into one block leaves the tags, links and payloads of the others alone.  Between
two writes the tags of one block are wrong and the list is incomplete, which
`Stage` can say and `HeapOK` cannot.

`MDriverProofs`: `DriverSound`, from `DriverInv`: the heap is well formed with the
live blocks of the trace as the allocated ones, one each, large enough and filled
by their owners, and the range list is these blocks.  None of the parts is
inductive alone: that a free writes no tag into a payload needs the tiling, that
the tiling is kept needs that no owner wrote over a tag.  `TilingKept`,
`FreeListKept`, `PayloadsKept`, `NothingKept`, `AllocatorNeverCaught` and
`DriverRanges` follow, and `AllocatorImplementsMalloc` is the refinement, step by
step: whatever `mmap` picks, the new payload is disjoint from the live ones.
`WalkIs` shows that the bounded walk of `BlocksOf` meets exactly the blocks of a
region, and `ChainBound` (a pigeonhole argument) that the list fits the bound of
`Node`; both bounds are the number of blocks that the address space can hold, so
no heap escapes them.

`PerfDriverProofs`: `KernelsAccepted`, `SamplerCorrect`, `BestCorrect`, from
`PerfInv` (`PerfCorrect`).  `MotionIsNaive` and `PinwheelIsNaive` show that the
blocked kernels store what the naive ones store at every pixel, for any block size
and any side that is a multiple of two blocks: the last
loop of `motion` to store at a pixel reads exactly the neighbours inside the image
(`BlocksReach`, `LastStore`), so what lies behind `orig` is read and never kept.  `ImageInv` carries this from the run to the
check.  `SinkIsMoved` says what the insertion loop of `add_sample` leaves (the new
value at its place, the larger ones moved up by one), and `InsertKeeps` that the
kept values then are again the smallest, from samples of their own.  `BestInv` says
that `maxmean` belongs to the fastest of the benchmarks scored so far.

`ScannersProofs`, first half: `NamesCorrect`, from `ParseInv` (`ParseCorrect`).
`Parsed` says that `buffer` points into its line or at its terminator and that
groups, commands and arguments are well formed and refer to variables of the table;
`Named` that each name looked up so far still finds its variable first, which needs
that the table only grows at its end and that a name added matched no entry.
`LiteralParsed` gives what `parse_literal` returns for any text.

Second half: `ArgumentsCorrect`, from `MatchInv` (`MatchCorrect`).  The arguments
that are still to come lie where `execve` put them (`Holds`), or an earlier one was
converted under `-c` with its first `A` at index 3 or more or its last at 5 or
more.  `Places` gives the layout of the arguments, `HeldString` what `strlen` finds
there, `ConversionOfA` that the swap keeps to its own bytes, `ConversionOfC` that
both calls of `remove_char_at_index` write no further than the terminator when the
indices are smaller: the first moves n - 1 bytes of a string of length n
to an index of at most 2, the second n - 2 bytes to one of at most 3.  `CModelFits` shows that
what `is_c_model` accepts has the form that `Fits` states without loops.

Functions defined by recursion (`Sink`, `Product`, `SumTo`, `Number`,
`parse_literal`, `FlattenSeq`) are handled by proving that a function with the
defining equation exists, value by value up to the least counterexample
(`LeastNat`), and reasoning from the equation.

Assumptions on constants: a page has at least 32 bytes and a multiple of 16,
`GROWTH` is at least 2, request sizes are positive multiples of 4 that `Fits` holds of; `NULL` and `Garbled` are no addresses, threads or
variables; clients of the network are not importers; `MaxPage`, `VAR`,
`MaxPids`, `MaxInterrupts` and `num_tracefiles` are natural numbers, a page has a
byte, exit codes and signals are natural numbers, `INT_MAX` too; `FilesAssumption` and `ScriptsAssumption`
as described above.  `TracesAssumption`: a trace allocates only blocks that are not
in use and reallocates and frees only ones that are, as every file under `traces/`
does; `mdriver.c` does not check it.  `PerfAssumption`: the test dimensions and
`ODD_DIM` are multiples of two blocks, as 32, 64, ... and 96 are of 16, and there
is at least one of them; `FcycAssumption`: `kbest` is positive.
`ScriptAssumption` and `BytesAssumption`: scripts and arguments are sequences of
bytes, and an argument has no 0 in it.  TLC evaluates them on every run.

Only model-checked:

- all liveness (`RequestsEnd`, `RequestEnds`, `CallsEnd`, `Finishes`,
  `CtlCEndsCommand`, `DriverEnds`), which is out of the prover's reach;
- `FormReceived` and `DiesOnlyMalformed`: they compare the bytes of a request,
  composed by nested folds, with what the line reader and the decoders make of
  them, an induction over the text;
- `PrintsBack`: a round trip of the printer and the parser, likewise;
- `OutputRight`: its conversions delete and insert characters of any text, and
  once an argument was moved the strings depend on the bytes behind the last one.

## Plan

What a later version could add: `DiesOnlyMalformed` from an invariant that says
which line of the request text the reader is in, for buffers of any size; and the
three-level table of `pagemap.c` under `PageMap`.
