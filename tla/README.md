# Specifications for Operating-System-Basics

TLA+ models of the programs in this repository, the TLC configurations that
check them on small instances, and TLAPS proofs about them for every instance.
All source paths are relative to `src/`.

## 1. The system and its parts

The repository is a collection of separate programs. They share no code except
copies of the kernel's `list.h`; within one program the parts interact by calls
and, in `mcgrep`, by threads and files.

| part | sources | state | operations | module |
|---|---|---|---|---|
| explicit free-list allocator | `Efficient Mallocs/mm_freeList.c` | the words of the heap (boundary tags, links in free payloads), `start`, `heap_listp` | `mm_init`, `mm_malloc`, `mm_free`, `mm_realloc`, `mm_check` | `BlockHeap`, `FreeListMalloc` |
| simulated heap | `Efficient Mallocs/memlib.c` | `mem_start_brk`, `mem_brk`, `mem_max_addr`, 20 MB of memory | `mem_init`, `mem_sbrk`, `mem_reset_brk`, `mem_heap_lo/hi` | part of `FreeListMalloc` |
| trace driver | `Efficient Mallocs/mdriver.c` | the trace, `blocks` and `block_sizes`, the range list, `errors`, statistics | `eval_mm_valid`, `eval_mm_util`, `eval_mm_speed`, `add_range`, `remove_range`, `clear_ranges`, `main` | `MDriver` |
| multi-threaded grep | `MCGrep/mcgrep.c` | the thread table, stdio buffers, the files `k.tmp`, `k.out` and the `-o` file | `parse`, `grep` (thread), `wrapToFile`, `wrapToStdout`, `main` | `MCGrep` |
| bump allocator | `Efficient Mallocs/mm-original.c` | the break, a size word per block | `mm_malloc`, `mm_free`, `mm_realloc` | `BumpAllocator` |
| CPU scheduling simulator | `Cpu Scheduling/schedsim.c` | source list, run list, counters, `output` | `read_config`, `fcfs_tick`, `sjf_tick`, `stcf_tick`, `run_simulator` | `CpuSched` |
| disk scheduling simulator | `Disk Scheduling/disksim.c` | request list, run list, `processes`, `elevatorUp` | `read_config`, six `*_tick` functions | `DiskSched` |
| shell | `Simple XSSHell/xssh.c`, `xssh.h`, `uthash.h` | variable table, background flag, redirection positions, `args`; the processes and their states | the command loop, `runInternal`, `runExternal`, `getVal`; `find`, `add`, `removeKey` | `Xssh`, `EnvVars`, `EnvTable`, `UtHash` |
| timing | `Efficient Mallocs/fcyc.c`, `clock.c`, `ftimer.c`, `fsecs.c` | sorted array of samples, options, cycle counter and its calibration | `fcyc`, `set_fcyc_*`, `add_sample`, `has_converged`, `start_counter`, `get_counter`, `callibrate` | `KBest`, `CycleClock` |
| segregated-list allocator | `Efficient Mallocs/mm_seggregatedLists.c` | array of list heads, heap words | as the free-list allocator | not modelled (section 5) |
| kernel modules | `Kernel Programming/*` | a `/proc` entry | load, read, unload | not modelled (section 5) |

The vendored `list.h` is modelled as sequences where the programs use it, with
its merge sort run by run; `Efficient Mallocs/test.c` is an allocator of another
origin that no Makefile target builds, and is left out.

How they interact: `mdriver` is linked with one malloc package and calls it
through `mm_init`, `mm_malloc`, `mm_free` and `mm_realloc`; the package gets its
memory from `memlib`, which the driver resets before every evaluation. The
threads of `mcgrep` share no variables that change while they run: they
communicate through numbered files and `pthread_join`.

### What makes each part correct, and what is hard about it

* *Free-list allocator.* After any sequence of calls: the blocks tile the heap,
  header and footer agree, no two free blocks are neighbours, the free list holds
  each free block exactly once and can be walked both ways, no payload is written
  by the package, payloads are aligned, inside the heap and disjoint, and the heap
  grows only when it must. Hard: long call sequences; links that live in what is
  payload an instant later; running on the leftovers of the former trace; the
  limit of the heap; the wrap of `ALIGN`.
* *Trace driver.* The range list is exactly the set of live payloads; a correct
  package is never accused; the driver never passes a dead pointer; utilization
  is at most 1; the index is printed only if every trace is valid. Hard: tables
  that survive from one evaluation or trace to the next.
* *mcgrep.* The output is the grep of the input whatever the interleaving of
  the threads, and the program ends. Hard: interleaving, rounding of the chunk
  size, files left over from an earlier run, and lines that are given to `fprintf`
  as its format.
* *Disk scheduling.* Every request is served once, in the order the policy's name
  says; the total is the way of the head. Hard: list lengths that are no power of
  two, equal keys, requests at the ends of the disk or under the head.
* *CPU scheduling.* Every process runs once, for its burst, in the order of the
  policy, and table and timeline agree. Hard: the order is decided by running
  sums; STCF changes the list it walks; the table is kept in too little memory.
* *Shell.* A variable reads as last set; the table's links are sound; a command
  gets the arguments of its own line; `$?` is the status of a command that was waited
  for; every shell and every command ends. Hard: state that stays from line to line,
  an element entered into the hash table a second time, `waitpid` with a number nobody
  wrote, and children that go on as shells, with copies of all memory.
* *Timing.* The k best samples are the k shortest of all, convergence is judged on
  them, a counter that runs over does not spoil a sample, and a call ends. Hard: word
  arithmetic, compensation that makes times negative, options changed between calls.
* *Bump allocator.* Payloads are apart and keep their contents although nothing is
  ever reused. Hard: the sums that wrap in an `int`.
* *Kernel modules.* The task list is walked inside one read-side critical section.

## 2. Modules

| module | what it is | composed with |
|---|---|---|
| `Allocator` | the promise of a malloc package to its client: what `add_range` demands | |
| `BlockHeap` | the free-list allocator on abstract blocks | implements `Allocator` (`PromiseSpec`) |
| `FreeListMalloc` | the same on the words of the heap, with `memlib` and the driver as client | implements `BlockHeap` (`ImplementsBlockHeap`) |
| `BumpAllocator` | `mm-original.c`, with clients that fill and reallocate their payloads | implements `Allocator` until a sum wraps (`PromiseUntilWrap`) |
| `CycleClock` | the cycle counter of `clock.c`, plain and compensated | |
| `KBest` | `fcyc` and `fsecs` | extends `CycleClock` |
| `UtHash` | the macros of `uthash.h` as operators on a table | |
| `EnvTable` | `find`, `add` and `removeKey` of `xssh.h` | extends `UtHash` |
| `EnvVars` | the table of variables under any sequence of commands | extends `EnvTable` |
| `Xssh` | the shell with a script, and all its processes | extends `EnvTable`; every process has a table |
| `MDriver` | the driver, with any package as its environment | `Package == INSTANCE Allocator` is the honest package |
| `MCGrep` | `mcgrep`: main, threads, files | |
| `DiskSched` | `disksim`: the six policies, `list_sort`, the rows of output | |
| `CpuSched` | `schedsim`: three policies entry by entry, and the play-out | |
| `ListLemmas` | lemmas about sequences that list a set (the free list, the range list), least numbers and `FlattenSeq` | extended by the modules of proofs that need them |
| `BlockHeapProofs` | the proofs about `BlockHeap` with `Allocator` | |
| `FreeListProofs` | the proofs about `FreeListMalloc` and its refinement of `BlockHeap` | instantiates `BlockHeapProofs` on the blocks read off the words |
| `MCGrepProofs`, `CpuSchedProofs`, `KBestProofs` | the proofs about `MCGrep`, `CpuSched`, and `KBest` with `CycleClock` | |
| `DiskSchedProofs` | the proofs about `DiskSched` with `list_sort` | |
| `MDriverProofs` | the proofs about `MDriver` with any package, and with an honest one; about the promise of `Allocator` itself; and about `BumpAllocator`, the package of `mm-original.c` | `Package == INSTANCE Allocator`, `Bump == INSTANCE BumpAllocator` |
| `MC*` | one per checked module: values for its constants | |

Definitions named after a mutation (`...Forgets`, `...Keeps`, ...) and marked
"mutant" sit before the definition they distort. They are not part of the models:
each is a plausible bug in that piece of code, and each property was shown to fail
when the mutant replaces the original.

### Correspondence with the code

**BlockHeap.** A block is named by its payload pointer `bp`, as in the code.
`heap.size` and `heap.alloc` are the boundary tags, `heap.list` is the doubly
linked free list read from `start` along `PREV_BLKP`, `heap.brk` is `mem_brk`,
at which the epilogue's header ends. `MergeRight` and the second half of
`Coalesce` are the cases of `coalesce`; `Split` and `Mark` those of `place`.
`mm_malloc` has two successful exits, `MallocFromList` and `MallocByExtending`;
its failing exits change nothing and are stutters. `ReallocInPlace` is the path of
`mm_realloc` that returns its argument. `NewTrace` is `mem_reset_brk` and `mm_init`.

**FreeListMalloc.** `heap.mem` holds the words; the macros, `removeBlock`,
`insertBlock`, `coalesce`, `place`, `extend_heap`, `mm_init` are operators on
it, statement by statement. `mem_reset_brk` moves the break and leaves the words,
so that later traces run on leftovers. The client fills payloads (`Fill`), as the
driver does. `status` records how a trace ended: running, refused (`out of
memory`), `outside heap` (realloc returned the C library's memory and `add_range`
complains), `crashed` (realloc followed client bytes as a pointer), `aborted`
(the assertion `size > 0` of `add_range`). Sizes wrap modulo `SizeMod`. A loop that
follows tags or links is the recursive function of where it is after n rounds (`Down`,
`Across`) and the first round its condition stops at, sought up to `MaxBlocks`, the number
of blocks that fit the heap; that it is reached before is part of what is proved.

**BumpAllocator.** `Malloc`, `Free`, `Realloc`, `Reset` are the functions of
`mm-original.c`; `NewSize` is line 61 with its wrap, `SbrkGrants` the test of
`mem_sbrk` on an `int`, `StoreSize` the size word, `Memcpy` the copy of `mm_realloc`
cell by cell. `wrapped` is set when a request has been granted by a sum that passed
the end of the word; nothing is claimed after that.

**CycleClock, KBest.** `hi` and `lo` are the words of the counter; `GetCounter` is the
double-precision subtraction of `get_counter`, and `CallibrateRead` one turn of the
loop of `callibrate`. `Sample` is one turn of the sampling loop of `fcyc`, for which
`RunFunction` says how long the function took and how many timer interrupts it met;
`AddSample` and `HasConverged` are the functions of those names.

**UtHash, EnvTable, EnvVars.** A table is a record of the fields of `UT_hash_table` and
of the handles of every struct: two threads of links (`next`/`prev`,
`hhNext`/`hhPrev`), the buckets with their counts, `items`. The macros are operators
that follow and write these links as the code does, also where the links are no
longer those of a sound table: `Follow` gives `Endless` for a circle, and an
operation that follows a pointer to nowhere leaves `fate = "crashed"`. `Malloc` is a
parameter that says which free structs an `add` may get. `EnvVars` adds what a reader
of the commands expects (`env`).

**Xssh.** One action per command and per exit of `runExternal`: `Fork` enters `$` and
forks, `ExecFails` is the child that returns into the loop, `Background` and
`Foreground` the two ways of the parent, `Reap` and `NoChild` the return of `waitpid`.
`ReadLine` is the parsing of a line, word by word (`ParseWord`). Words are records of
text and tail; `args` holds addresses, so that what a later command stores under a
name changes what an earlier entry points to, as in the code.

**MDriver.** `phase` is the function the driver is in; `ValidMalloc`,
`ValidRealloc`, `ValidFree`, `Refuse` are the cases of `eval_mm_valid`'s loop body,
`Util*` and `Speed*` those of the other two evaluations, `Libc*` those of the C
library, which both evaluations of it share, `*End` their ends,
`NextTrace` and `Finish` the loop of `main`. `Objection` is `add_range` with its
endpoint test as written. What the package does is `PackageMalloc`,
`PackageRealloc`, `PackageFree`: if the `job` says the package is `honest` the
actions of `Allocator`, otherwise any address at all.

**MCGrep.** `pc` and `k` are the place of the main thread and its loop counter;
`thr` the threads with what `fgets` has not read yet and the stdio buffer; `tmp`
and `out` the files in the directory, which survive `NextRun`. Bytes are
abstracted to seven classes; `job.percent` says which of them is `%`. `ParseChunk` is one round of the loop of `parse`,
with its unconditional `memcpy` of a whole chunk; `ParseFaults` is the same
where that copy leaves the mapped pages. `WrapFile` is one round of the loop of
`wrapToFile` and `wrapToStdout`, `WrapFaults` its `memcpy` where it leaves the mapping
of the `-o` file. Line 229 is `fprintf(fp2, line)`: the line is the format. `Fprintf(f)`
is the set of what that may write: `f` as it is when it has no `%`, one `%` for each
`%%`, and from the first conversion on anything in `Garbage`, as there are no arguments;
`FprintfFaults` is the conversion that ends the program.

**DiskSched.** One action per `*_tick`; `Scan` and `Look` stand for two each, which
differ by the compare function and by how the total is added up; in `Scan`, `processes` is
raised and lowered within the step, and only `print_rq` sees it raised. `After` is the
three compare functions (`After(by, a, b)`: the function returns 1, `by` being the policy
and the direction that the function reads in `elevatorUp`), `ListSort` the merge sort of
`list.h` as `Pass`es over runs of doubled length. The loops of the sort are recursive
functions, which the proofs can unfold. `rows` is the output
file; `newline` is the position at which `print_rq` ends the line. The direction
that `Up_or_Down` draws is any.

**CpuSched.** One action per visit of an entry of the source list: `FcfsVisit`,
`SjfVisit`, and for STCF `StcfAppend`, `StcfInsertLast` (the early return) and
`StcfBreak`; `PassBy` is a visit that queues nothing, `NextTick` the head of the
loop over ticks. `sums` holds `j`, `k` and `m`. `Play` is one round of
`run_simulator`; its `j` is `Len(timeline) + 1`. `table` are the rows stored in `output`,
`printed` what the last loop prints of them: a line for each process counted, `Junk` where
no row was stored. `output` has 3 bytes for each process and a row is three ints, so that most
rows lie behind its end (`Inside`): such a row either does no harm, and then it is `Play`, or
it is `Overrun`, after which nothing is known of the run (`pc = "astray"`).

## 3. Runs

| run | question | bounds |
|---|---|---|
| `block_heap` | `BlockHeap`: type, `HeapOK`, `LiveMatches`, refinement of `Allocator`, `GrowsOnlyWhenFull` | heap of 144 bytes, chunks of 48, minimal blocks of 24: up to six blocks, so that free blocks have free and allocated neighbours on either side, the heap is extended with and without a free last block, and it runs full |
| `free_list_words` | the word-level invariants and the refinement of `BlockHeap` | the real constants; room for `mm_init` and one chunk of 4096 bytes; three request indices; sizes that make a minimal block, one twice as big, one that takes a whole chunk, and 0; seven calls, enough for all four cases of `coalesce`, for exhaustion and for a second trace on leftovers |
| `bump_allocator` | payloads keep their contents, refinement of `Allocator` | words of 7 bits and a heap of six cells near their end: requests of one cell and of two, one granted when the new break wraps, one that is negative once rounded, two whose rounded size wraps |
| `k_best` | samples, convergence, counter, calibration, termination | a counter of two words of 2 bits, so that each call runs over the end of one; times of which two agree and the third does not; k of 2, and 3 as `fsecs` sets it, with up to three samples; an interrupt per call that costs 1 cycle or 5; two sizes of cache and block; options set in any order between calls |
| `env_vars` | the table is a map until a variable is set again; what holds after that | four names in two buckets that become four and eight, three of them colliding, with a threshold of 2 instead of 10 elements in a chain, so that the expansion comes with few of them; six entries. Tables in which a variable has been set again and one has been removed are not explored further (`Claimed`): freed elements are then still linked, and no property says anything of them |
| `xssh` | commands run, arguments, status, background, termination | fifty-odd scripts of three lines that bring every pair of built-ins, externals, `&`, redirections and failed commands together; seven choices of arguments; three processes, after which `fork` fails; hash values whose buckets are those the real hash function gives |
| `mdriver` | honest package: never accused, contract kept, utilization at most 1; any package: range list exact, index only if all valid | three settings: an honest package with traces of 7 and 3 requests, the same with the C library first (`-l`), which needs traces of their own, and a package that returns any of 8 addresses, with traces of 5 and 1; two speed rounds |
| `mcgrep` | output, bounds of the mapping, termination, for text without `%` | eighteen command lines with up to 3 threads and 7 bytes, lines of 3, pages of 4, two runs in one directory in every order; five of the command lines have to do with `%`, in the file, as the replacement, or as what is searched for, and a conversion writes nothing or more than a page |
| `disk_sched` | order and total of each policy against independent definitions: stable order, one sweep, LOOK as SCAN without the ends, movement of the head for all policies but CSCAN | both ends of the disk, 53, and the two cylinders 10 away from it, each also as start; all lists of up to 4 of them, so that runs of the merge sort come out whole and cut off, and keys tie; every direction |
| `cpu_sched` | run queue, counters, who is left out, what is printed | all files of up to 4 processes with arrivals 0, 1, 3 and bursts 1, 2, 4: together, overlapping, after a gap, after the sum of all bursts; STCF breaks processes and breaks them again |

Several invariants are conjunctions of named parts (`WordsOK`, `RangesOK`,
`SamplerOK`, ...): the part a module's type invariant plays, and the facts that the
code keeps together. Each part has its own comment.

Two runs show a statement of a comment or a document to be false of the code;
`PROJECT.json` quotes the statement.

| run | what TLC finds |
|---|---|
| `realloc_stays_in_heap` | growing realloc returns memory of the C library |
| `builtins_run` | a line that begins with `show` does not run it: `getVal` makes `NULL` of every word that is not the name of a variable, whether it has a `$` or not |

What the properties say of the code where it does not do what one expects:

* `OverlapsEnclose`: a payload that encloses another passes `add_range`.
* `GrepsWholeLines` speaks only of files that the chunk size cuts at ends of lines,
  `Terminates` only of at least a byte per thread: chunks cut lines in two, and `parse`
  never ends otherwise.
* The properties of `mcgrep` are about text in which no `%` is printed (`PlainText`, and the
  same of what `-r` puts in). A matching line with `%` is the format of `fprintf` (line 229):
  `100%%` comes out as `100%`, `%d` as a number nobody passed, `%100d` may make the
  output longer than the mapping of the `-o` file, and `%s` may end the program. The model has
  these outcomes, and claims of them only that a later run in the directory is right again.
  The comment of lines 33-36 promises each line that contains the character.
* `TotalsAreMovement` leaves CSCAN out. `cscan_tick` adds a sum where it means a difference
  (line 170), at both ends of the disk; at cylinder 200, which it serves in every run, that
  is 400 more than the head moves. The simulator's README (line 14) calls the figure the
  total seek distance: CSCAN's never is.
* `LeftOut` (of `TurnsTaken`): under FCFS the processes that never run are exactly
  those that arrive when the sum of all bursts has passed. Under SJF and STCF it says
  only who *may* be left out. SJF leaves nobody out but a process whose burst is the whole work
  or 1 less (one of two bursts of 1, for instance), or one that arrives later than the work
  queued ahead of it in the file lasts; that such a process is left out it does not say,
  and it need not be. Of STCF nothing is said of processes that arrive after 0, and files are
  exempted of which some remainder has fallen below 0: the sum `k` may then be negative,
  and a process that is there from the beginning is never found to have arrived by
  `k`. It takes seven processes to lose one so, more than the run has; the proof
  asks for the exemption. `NearlyShortestFirst`: SJF may be wrong by 1.
* `PrintedAsPlayed` compares lines of the table with one another, not with an origin of
  time: the clock of `run_simulator` starts at 1 and is never moved on to an arrival, so that each
  waiting time is one more than the units printed before less the arrival, and may be negative.
  It is about the runs that do not go astray when rows are stored behind the end of `output`,
  and counts the lines that show nothing: one for each process left out.
* `PidsOfTheFamily`: a shell that a failed command leaves has its parent's `$$` and
  `$!` until it forks itself; neither ever names a stranger.
* What `getVal` (line 280) makes of words is not taken for right anywhere: a word that is the
  name of no variable but for its first character is `NULL`, and `commands.txt`, run as the
  shell's README says, runs nothing (`builtins_run`).
* `StatusOfAReapedChild` does not say which child: `child` is never written, and `$?`
  may be that of a background command, or 0 although the command failed.
* `LooksUpWhatWasSet` stops at the first variable that is set again. From then on an
  element may be its own successor; lookups of other names in its bucket never
  return, and they are what every word of every line is. The second external
  command sets `$` again: the shell can hang from there on (`ScriptEnds` excepts it).
* `OwnArguments` stops at the first line with `<` or `>`. After it the end of `args` is
  marked too far right, and what lies before it is an earlier line's, or nobody's.
* `NegativeRunsOut`: a negative time is never found to have converged.

Further statements of comments and documents that the models contradict, without
a run of their own: `mm_init` extends the heap by 32 bytes, not by `CHUNKSIZE`
(`CHUNKSIZE/WSIZE` is `1<<(12/4)`; `InitWords` in `FreeListMalloc`); shrinking
`mm_realloc` follows payload bytes as a pointer (`status = "crashed"`);
`mm_checkBlock` reports every sound block that has a `NULL` link; `ALIGN` wraps
for requests within 7 of the largest `size_t`; a request index of 128 and up makes
`eval_mm_valid` find correct packages guilty, as `char` is signed (`SignedChar`);
the remainder of the file makes a chunk file more than there are threads; on an
empty file the threads of `mcgrep` search the chunk files of the run before; the
`-o` file is padded with NULs; SSTF sorts once by the distance from the start, and
does not go on to the request nearest to the head; a request file without requests
crashes `disksim`; `mcgrep` prints lines through `fprintf` as formats, and CSCAN's total is not
the total seek distance (both above).

`CHECK_DEADLOCK FALSE` is said only of programs that end (`MDriver`, `MCGrep`,
`DiskSched`, `CpuSched`, `Xssh`, `KBest` where `fcyc` exits the program, `EnvVars`
where a lookup hangs, and `FreeListMalloc`, whose calls are bounded by `MaxCalls`).

### Fairness

`MCGrep`: weak fairness of the main thread and of each grep thread, which is what a
preemptive scheduler gives threads that do not wait for one another except in
`pthread_join`. No fairness is assumed of `NextRun`: nobody need type another command.

`Xssh`: weak fairness of every process. A process can move unless it is in a
`waitpid` whose children all still run; the kernel schedules it then, and the
commands a script runs are taken to end. `Moves(p)` says only that `st[p]` changes,
which every step of `p` does, so that the condition is the same and cheap to evaluate.

`KBest`: weak fairness of the steps of a call, and of the timer: the calibration
ends only when interrupts go on happening, which the system's clock sees to.

## 4. Proofs

`BlockHeapProofs` proves, for every heap size, chunk size, minimal block size and set of
requests that `BlockHeapAssumption` allows:

* `TypeCorrect`: `Spec => []TypeOK`,
* `HeapCorrect`: `Spec => []HeapOK` (tiling, no free neighbours, exact list),
* `LiveCorrect`: `Spec => []LiveMatches`,
* `KeepsPromise`: `Spec => PromiseSpec`, the refinement of `Allocator`,
* `GrowthJustified`: `Spec => GrowsOnlyWhenFull`.

The assumptions are those the code's constants satisfy: sizes and addresses are
multiples of `DSIZE`, a minimal block is larger than its two tags, the first
heap fits.

*The argument.* `HeapOK` by itself is nearly inductive, but only between calls.
Inside a call one free block `b` is in no list and may have free neighbours;
`Loose(h, b)` describes that. `ClearFacts`, `SplitFacts` and the first half of
`ExtendFacts` show that `mm_free`, `place` and `extend_heap` produce a loose heap,
`CoalesceFacts` that `coalesce` turns any loose heap into a `Good` one. The
inductive invariant `IInv` joins `Good(heap)` to the client's table (`LiveMatches`:
without it nothing says that `mm_free` is given an allocated block) and to the
fact that the heap has at least the size `mm_init` gave it (so that a new trace is
not mistaken for growth). The list lemmas (`WithoutFacts`, `ConsFacts`) are about
sequences without repetition and know nothing of the allocator.

`FreeListProofs` proves, for every size and start of the heap, set of requests, width of
`size_t` and number of calls that `FreeListMallocAssumption` allows (the heap has room for
what `mm_init` asks, sizes are ints of the driver, and a client's fill is not an address of
the heap. The last is taken on trust: where the real heap lies is the C library's matter, and
a fill such as `0xF6F6F6F6` could be an address of it. A shrinking `mm_realloc` takes that word
for a link; the model only has the outcome in which it leads out of the heap and ends the
program):

* `WordsCorrect`: `Spec => []WordsOK`,
* `PayloadsKept`: `Spec => []PayloadsUntouched`,
* `LinksCorrect`: `Spec => []LinksAgree`,
* `WordsImplementBlocks`: `Spec => ImplementsBlockHeap`, the refinement of `BlockHeap`.

*The argument.* `Rep(h, G)` says that the words `h` stand for the blocks `G`: both tags of
every block hold its size and bit, the links of the listed blocks and of the prologue
follow `G.list` in both directions, `start` is its head, the epilogue is marked allocated,
and the word left of the first block is zero. Words of different blocks are different
words (`Apart`), and what a function writes lies in the blocks it is about
(`Kept(h, g, G, D)`: it leaves the blocks in `D` alone). For each function of the package
there is a lemma: on words that stand for `G` it leaves words that stand for what the
operation of `BlockHeap` makes of `G`, and keeps the allocated blocks: `InsertHolds`,
`RemoveRep`, `CoalesceRep` (four cases), `ExtendRep`, `PlaceRep`, `FreeRep`, `FreshRep`.
Inside a call one block may be in no list or have no tags yet, so `Holds(h, G, D, l)` says
the same of the tags of `D` and a list `l` only. `FreshRep` starts from any leftovers of
a trace. What the *blocks* then satisfy is not proved again: `BlockHeapProofs` is
instantiated with the heap read off the words.

That reading is the other half. `Across` and `Down`, the walks over `RIGHT_BLKP` and
`PREV_BLKP`, are recursive functions; their values are shown to exist by a least round
without one (`RunExists`, `RunsAgree`). A walk across visits each block once because the
blocks tile the heap, and stops within `MaxBlocks` rounds because no more fit (`ShortList`
says it of the list), so that `BlockHeapOf(h) = G` whenever `Rep(h, G)` (`ReadBack`).
The inductive invariant `IInv` is `Rep(heap, BlockHeapOf(heap))`, the invariant of
`BlockHeapProofs`, `PayloadsUntouched`, and the type of the client's table. Each needs the
others: `mm_free` is right only on an allocated block, which is the client's table; the
client's memset spares tags only if its payload fits its block, which is the invariant on
blocks; and the next `coalesce` reads tags that memset must have spared.

`MDriverProofs` proves of `Allocator`, for any set of addresses and sizes:

* `PromiseIsSafe`: what `Allocator` promises call by call (`Alloc` and `Resize` name
  a place apart from the live payloads) keeps all payloads aligned, inside the heap and
  disjoint for ever, for any package that keeps the promise, as `KeepsPromise` says of the
  free-list allocator;

and of `BumpAllocator`, for every heap, word size, and set of requests and client marks
that `BumpAssumption` allows:

* `BumpSafe`: `Spec => []PayloadsSafe` (type, size words, contents),
* `BumpKeepsPromise`: `Spec => PromiseUntilWrap`, the refinement of `Allocator` up to
  the first sum that wraps.

The inductive invariant of the latter adds two facts to the properties: `Layout` (until a sum
wraps, payloads start aligned behind a size word of their own, lie below the
break, and are apart from one another with their size words) and `WroteOK` (what a
client has written fits its payload). Without `Layout` nothing says that the size word
of one block is not in the payload of another.

`MCGrepProofs` proves `WrapSafe`: `Spec => []WrapIsSafe`, for all command lines, files,
thread counts and interleavings (`MCGrepAssumption`: files are sequences of bytes, there
is at least a thread, and pages are not empty). Main wraps only when every thread
has ended, and, if no `%` is printed, what it wraps fits the mapping of the `-o` file: then
`fprintf` writes what it is given (`CleanPrinted`). The inductive invariant
adds what each phase of main says of the threads (`Phases`: which have been
created, which are joined), and sizes (`Sizes`): a chunk that has been written is at most
`ChunkSize` long, what a thread has in its buffer and has still to read together fit its
chunk, and what is wrapped so far is at most `ChunkSize` per chunk. The rest
is `ChunkFacts`: as many chunks as threads are no longer than the file.

It also proves `GrepsTheChunks`: `Spec => []OutputIsGrep`, for the same, again of text without
`%`, and for all lengths of lines and buffers. The invariant is `GInv`: when there are no more threads than
bytes, a thread stands at the beginning of a piece of its chunk, and its buffer with what
it will yet keep of the pieces that follow is the grep of the chunk (`Greps`), whatever
lay in the files before. That the output is then the grep of the whole file, where
every chunk ends at the end of a line and no line outgrows the buffer, is a fact about
data (`ChunksOfLines`): the pieces of such a chunk are its lines. The prover has no induction
over `FlattenSeq` and `Pieces`; `FlattensExists` and `RunsOverExists` show that these
functions exist, and what they are at each index, from a least counterexample.

`MDriverProofs` is about the driver and any number of traces that
are well formed (`MDriverAssumption`: `realloc` and `free` name a request that is allocated,
`alloc` one that is not):

* `VerdictIsSound`: `Spec => []IndexOnlyIfAllValid`, for any package. The invariant counts:
  the traces behind the driver are those found valid and those that are one error each
  (`errors + Cardinality(valid)`), so that no errors at the end leave no trace that is not
  valid.
* `RangeListExact`: `Spec => []RangesOK`, for any package. `RInv` says, beside what is to
  be shown, that live requests have different addresses. `add_range` sees to that: of
  two ranges that begin at one address, one overlaps the other. `remove_range` needs
  it, since it takes out the first record that begins at the address.
* `ContractKept`: `Spec => []ClientKeepsContract`, for an honest package. `HInv` joins the
  package's table to the driver's.
* `HonestPasses`: `Spec => []HonestNeverAccused`, if every request index has a low byte below
  128 (`CharIds`). Without that premise it is false, as `char` is signed. It needs both
  invariants: the package keeps a new payload apart from what *it* has handed out,
  `add_range` compares it with what the *driver* has recorded.

* `UtilizationSound`: `Spec => []UtilOK`, for any package, and for an honest one that
  utilization is at most 1. `total_size` only adds differences up; the bytes that are live
  are numbered within their requests, so that the set of them (`Cells`) has as many members
  as `total_size` says (`Counters`). Payloads that lie side by side (`SideBySide`) map
  these bytes to different addresses of the heap, of which there are `brk - HeapStart`.

`CpuSchedProofs` proves all that the run of `schedsim` checks, for every input file:

* `CountersAgree`: `Spec => []CountsOK`. That the sum of the bursts is a number at all
  is proved first (`SumIsInteger`): the recursive function exists for every length, and no
  length is the first whose value is not an integer. `Counted` compares, for every set of
  processes, the entries of the run queue with those marked in the source list; both lists
  get longer in the middle, and `ShiftedFacts` says that places which move up stay as many.
* `ArrivalOrder`: `Spec => []FirstComeFirst`. The invariant adds what the run queue holds
  in the middle of a tick (`QueuedSoFar`): processes that arrived earlier, and those of
  this tick that stand before the current entry.
* `TurnsAsNamed`: `Spec => []TurnsTaken`. `Waiting` bounds the burst of every process that
  was there from the beginning and has been passed by in this tick, from below, `SjfTurns`
  those that are queued, from above, both by the tick; `InTime` says that FCFS queues nobody
  who arrives after the last tick, and `NotYetThere` why SJF passed an entry by: the sum
  `k` is at least the work queued ahead of it (`WorkQueued`). `Ended` says why the loop
  was left. If it was left because the run queue is as long as the source list, nobody is
  missing (`FullQueue`, by counting).
* `OneStory`: `Spec => []PrintedAsPlayed`. `Told` gives the units of every row an
  interval of the timeline; that of the next row begins where the timeline ended, and no
  process has two rows (`Mates`). The lines that show nothing are counted by `LeftOutCount`:
  those of the run queue have different processes.

`KBestProofs` proves the four safety properties of the run of `fcyc`, for every width of the
counter's words, every timer and every `k` (`ClockAssumption`, `KBestAssumption`):

* `SamplerFit`: `Spec => []SamplerOK` (type, options, calibration),
* `MeasuresElapsed`: `Spec => []SamplesAreElapsed`: the double-precision subtraction of
  `get_counter` is the time that has passed modulo the width of the counter, with the borrow
  between its words,
* `KeepsKSmallest`: `Spec => []KSmallest`: no sample taken is left out for a greater one.
  The invariant is that of insertion: `values` is sorted and each of its places holds
  a sample of its own (an injection), so that a new sample displaces the greatest
  only,
* `EndsByTest`: `Spec => []EndsAsTested`: `fcyc` leaves the loop when the `k` smallest are
  close enough or the samples are used up.

`DiskSchedProofs` proves all that the run of `disksim` checks, for every input file, that is
for every list of requests whatever its length and every start:

* `AlwaysInStableOrder`: `Spec => []InStableOrder`. The argument is the one the code's
  author would give. The compare functions tell apart classes of entries that stand in a line
  (`AfterOrder`), so that merging two runs that are in order gives one, in which entries
  that compare equal stay as they were (`MergeSorts`); a pass does that to every pair of
  runs and the rest (`PassPermutes`), and thereby doubles the length of the runs that are
  in order (`Arranged`, `ArrangedPass`), until one is as long as the list (`ListSortOrders`).
  Each stage is a permutation of places, not of values: equal requests are told apart.
* `RowsAlwaysOK`: `Spec => []RowsOK`: type, and the count by which a row is printed.
* `AlwaysTotalsAreMovement`: `Spec => []TotalsAreMovement`, by comparing the partial sums
  of the program's legs with those of the head's moves; for every policy but CSCAN they
  are the same (`PathTotals`).
* `AlwaysSweepsAsNamed`: `Spec => []SweepsAsNamed`. In a sorted list the entries on the
  side of the direction drawn come first (`SideOrder`); hence one turn (`TurnsOnce`) or one
  jump (`JumpsOnce`). That LOOK serves what SCAN serves without the ends of the disk needs
  more: an order that is stable is the only one (`OneOrder`), and what remains of
  SCAN's when the two ends are taken out is a stable order of LOOK's list
  (`WithoutEnds`).

The inductive invariant `IInv` says that the requests come from `read_config`, that
`processes` is their number again after every tick, that each row is the one its policy,
its direction, the start and the requests determine, and that while the program runs it has
not yet written the row of the sixth policy. TLC checked it on the bounds of `disk_sched`
before it was proved. As in the other modules there is no induction over data to cite: that
`Merge`, `Pass`, `ListSort` and `Sum` are functions with the values their definitions say,
for every length, is shown from a least length without one (`MergingExists` and its like).

Out of the prover's reach, and left to TLC: every liveness property (`Terminates`,
`ScriptEnds`, `CallsEnd` and their like, which need fairness), and what rests on recursive
operators: `UtHash` and what extends it, `EnvTable`, `EnvVars` and `Xssh`.

## 5. What is abstracted, and what is not modelled

* Integer overflow: `FreeListMalloc` wraps sizes modulo `SizeMod` (65536 instead
  of 2^32, so that the addresses stay small); `BlockHeap` does not wrap.
* Reads of memory nobody has written give 0 in `FreeListMalloc`: `mem_init` gets
  its 20 MB in one piece, which the C library maps fresh from the kernel. In `UtHash`
  and `Xssh` they give `Junk`, which may crash the shell or mean nothing.
* Allocation failures of the driver's own `malloc`, failures of `pthread_create`,
  `open` and `mmap` for want of resources, option parsing and printing.
* Trace files are taken to be well formed (`WellFormed`); `read_trace` is not modelled.
* The shell's interactive prompt, its SIGINT handler, the output of `-x` and `-d`, the
  variable `result` that only chooses a message, and the file offset that a shell
  shares with its copies: each process of `Xssh` reads on from where it is.
* `config.h` as checked in selects `gettimeofday`: `fsecs` then divides the time of a
  loop by its length (`ftimer.c`), which is not modelled. `KBest` models the alternative
  the configuration offers, the cycle counter. `ovhd` and the printing of `mhz` are
  left out.
* `mm_seggregatedLists.c`: `coalesce` decides by two variables it has never
  written. Whatever they hold, on the first call, from `mm_init`, it or `insertBlock`
  writes through the `NULL` links of the first block, or `removeBlock` reads through
  those of its neighbours: the package crashes before it has served a request.
  A model of it would have an initial state and a crash.
* `proc_snapshot.c` keeps no state: one function walks the task list inside one
  read-side critical section and prints. What could be wrong there is a matter of the
  kernel's RCU and `seq_file`, which are not in the repository. `hello_kernel.c` logs.
* `mm_check` and `mm_checkBlock`, which nothing calls.
* `test.c`, which no target builds.

## 6. What is left to do

The modules follow the order of importance: the allocator with its driver, `mcgrep`,
the simulators, the bump allocator, the shell, timing. What could be added:
`read_trace` on files whose header and lines disagree. Of the
safety properties that the runs check, those of `EnvVars` and `Xssh` are not proved; their
walks along the links of a bucket would have to be written as recursive functions, as those
of `FreeListMalloc` and `list_sort` have been.
