# Interpreters of MIPS: a verification development

The program is a set of four interpreters for statically linked MIPS
executables, written to compare interpreter techniques: a `switch` in a loop,
computed goto, tail calls, and pre-decoded linked blocks. They share one set of
instruction bodies, the guest's memory, its system calls and a loader, and are
measured by a harness of scripts. This directory models them in TLA+, checks
the models with TLC, and proves with TLAPS that the other three interpreters
implement the switch and the paged memory a map of bytes, six laws of products,
unsigned division, comparisons, shifts and memory accesses in words of every
width, and the invariants of the interpreters, of the guest's address space
under system calls, and of the harness.

The question behind most of it: *do the four techniques run the same guest the
same way?*

## 1. The system

| part | source | state | operations |
| --- | --- | --- | --- |
| instruction semantics | `instructions.h`, `mips.h`, `common.h` | `struct mips`: registers, hi, lo, `branched`, `halted`, `status`, `tidptr`, `user_local_ptr` | one body per instruction |
| program counter window | `mips.h` `INCREMENT_PC`, `loader.c` `loader_load_pc` | PC, NPC, NNPC | shift by one instruction |
| switch interpreter | `switch.c` | none of its own | fetch, execute, shift |
| computed goto | `computed-goto.c` | `cir` | dispatch, one label per instruction |
| tail calls | `tail-call.c` | `cir` as an argument | handlers that call the next handler |
| blocked interpreter | `blocked.c` | blocks, hash table, links, the decoder's locals | look up, decode, link, run, follow |
| system calls | `syscalls.h` | through `struct mips` and memory | 16 calls, some to the host |
| guest memory | `memory.h`, `memory.c` | two-level page table, heap ends | allocate, read, write, copy |
| ELF loader | `loader.c` | fills memory, gp, sp, counters | once at the start |
| measurement harness | `measurements/*.py` | workers, cores, machine settings | run, collect, restore |
| pin tool | `pintool/InterpreterEfficiency.cpp` | counters | count between markers |

**Interaction.** `main` of an interpreter creates the memory, lets the loader
fill it, and calls the interpreter function. That one calls instruction bodies
(macros), which read and write `struct mips` and the memory, and may call a
system call. Control comes back by what the bodies leave in NNPC, `branched`
and `halted`. All of it is one thread; the harness starts one process per
measurement, from a pool of forked workers that an interrupt reaches too.

**What is hard.** Nothing runs concurrently in an interpreter; what is hard is
sequence: delayed branches, state cached from earlier execution (decoded
blocks, links), a program counter that is right only at some points, loops
unrolled past their test, and the order of *test halted*, *fetch* and *execute*
that each interpreter chooses. In the address space it is sums that wrap, ranges
that share pages or run into one another, and a host that does less than it was
asked. The harness is concurrent: workers end in any order, and Ctrl-C strikes
between any two statements of the main process and in every worker.
`PROJECT.json` lists the hazards line by line.

**What makes each part correct**

- instruction semantics: products, unsigned quotients, comparisons, shifts and
  accesses obey laws that do not repeat their code. Signed quotients do not:
  `div` divides its operands as unsigned numbers, but for a zero divisor and
  the one pair that overflows. `add`, `addi` and `sub` trap elsewhere than at
  signed overflow;
- program counters: one delay slot per jump;
- switch: exits with the guest's status and does nothing after the exit;
- computed goto and tail calls: what the switch does; the word executed is the
  word at PC. After an exit, tail calls need the next word to be code;
- blocked: no branch in a block but at its end, before its last slot, and no
  handler written beyond the array; links lead where branches lead;
  PC is right whenever it is read; the unrolled loop runs each handler once;
  and, on well-behaved guests, what the switch does;
- memory: what was written is read, pages are found, loops over pages end;
- system calls: the heaps are mapped up to their ends, and `mmap2` maps what
  it returns, except for a length whose rounding wraps to 0, for which it
  returns success and nothing; a call touches nothing outside its range; a count
  returned is what the host transferred. That `mmap2` keeps off the stack is
  *not* true of the code: its check compares with `USER_TOP`, the top of the
  stack;
- loader: segments and stack are mapped before they are used, the heap starts
  above all segments, the name on the stack is a string;
- harness: a table that is written was measured on a staged machine; an
  interrupt or completion restores the machine. Three *weaker* facts hold where
  one would wish for more: cores are shared only after a later task has overtaken
  an earlier one, a program that *fails* leaves the settings staged, and an
  interrupt that strikes after a setting is written and before its file is
  closed leaves that setting staged.

## 2. Modules

| module | models | with |
| --- | --- | --- |
| `Words` | `common.h` integers | `U32`, `S32`, `S16`; width is a constant |
| `Alu` | results of arithmetic instructions | `Writes`, `Value`, `MultDiv`, on the binary digits of words |
| `Datapath` | bytes, halves and words between registers and memory, `lwl`, `lwr` | `Loaded`, `Stored` |
| `AluLaws` | | independent definitions of the results of `Alu` and `Datapath` |
| `Cpu` | `struct mips`, word memory, all instruction bodies, system calls without buffers | `Execute(i, at)`, one disjunct per class; `Fault(i)` for aborts |
| `Stepping` | `INCREMENT_PC`, `loader_load_pc` | `IncrementPC`; the single delay slot, which every interpreter that shifts the counters shares |
| `SwitchInterpreter` | `switch.c` | `Step`, `CrashStep`, `Finish` |
| `ComputedGoto` | `computed-goto.c` | `Dispatch`, `Handle`, `Leave` and crashes |
| `TailCall` | `tail-call.c` | `Fetch`, `Handle`, `Leave` and crashes |
| `BlockedInterpreter` | `blocked.c` | `LookupHit/Miss`, `DecodeOp`, `Complete`, `Link`, `Enter`, `ExecuteOp`, `Leave`, `Finish` and crashes |
| `Paging` | `memory.h`, `memory.c` | `Allocate`, `CopyRead/CopyWrite/MemorySet` and their loops (`ReadChunk`, `WriteChunk`, `SetChunk`, `Return`), `Load`, `Store`, crashes, `Delete` |
| `MemoryBytes` | | what `Paging` promises: a map from addresses to bytes |
| `SystemCalls` | `loader.c` segments and stack; `syscalls.h` calls that grow the address space or move bytes | `SkipHeader`, `LoadSegment`, `LoadStack`; requests; `Read`, `Write`, `WritevRound`, `WritevReturn`, `Open`, `Ioctl`, `ClockGettime`, `Brk`, `Mmap2`, aborts and crashes |
| `Harness` | `measurements/performance.py`, `parallel.py` | one action per statement of setup and cleanup, writing a setting and closing its file apart; `Take`, `Finish`, `Collect`, `WriteTable`, `Publish`, `Exit`; `Interrupt`, `WorkerInterrupted`; exceptions |
| `BlockedProperties` | | properties of the blocked interpreter, its inductive invariant, its refinement mapping to the switch |
| `AluProofs`, `CpuProofs`, `SteppingProofs`, `TailProofs`, `BlockedProofs`, `PagingProofs`, `SystemCallsProofs`, `HarnessProofs` | | theorems |
| `Guests`, `MCSwitch`, `MCComputedGoto`, `MCTailCall`, `MCBlocked`, `MCPaging`, `MCSystemCalls`, `MCHarness` | | guest programs and instances for TLC |

`Cpu` says what an instruction body does to everything but the counters, as a
function of the address it sees in PC; `NNPCAfter` says what it leaves in NNPC.
Each interpreter EXTENDS it and adds how it finds the next instruction. So the
four share the instruction semantics in the models as they do in the code, and
what is compared is the technique.

How state corresponds:

- `r` is `mips->r[]` without the counters, which are `pc`, `npc`, `nnpc`.
- `Instr` is the decoding of a word by the field masks of `common.h` and the
  three tables of `mips.h`; a word no table has is `"illegal"`.
- `memory` maps the addresses that have a page; an access elsewhere is a crash.
- Addresses count words: `+ 4` in the code is `+ 1` here. `RegionCard` is the
  reach of `j` (2^26 words in the code).
- `proc` and `exitcode` are the interpreter process: running, exited with what
  `main` returned, or crashed (abort, segmentation fault).
- In `BlockedInterpreter`, `heap` is the sequence of blocks allocated, a pointer
  is an index into it (NULL is 0), and the hash table is the whole of it, since
  every block is added on creation and removed only at the end. An `op_t` is
  the word it came from. `dec` holds the locals of `decode_block`, `idx` the
  `ops` pointer, `lane` the case of the unrolled loop. Every `DARRAY_PUSH` grows
  the array as in the code, that of the terminator too, and a block keeps the
  capacity its array ended with.
- `OpAt` beyond the array yields the terminator; `DuffExact` shows that no run
  reads there.
- In `SystemCalls`, `bytes` is guest memory as `Paging` shows it: its domain is
  what is mapped. The three heap ends are those of `struct memory`. `call` is the
  call under way with its arguments, `round` the locals of `writev`'s loop,
  `moved` what the host gave or took. The guest's own stores are left out; a
  `read` writes anything anywhere in their place. What the host answers (counts
  from -1 up, contents, errors) is open, the file's bytes are ones.
- In `Harness`, `stage` is the statement the main process is at; `settings` is
  the machine, `saved` the two globals with original values, `handler` what
  SIGINT runs. `task` is each task's state, `on` what each worker runs, `pending`
  the workers that have still to handle a signal. Workers are forks: they
  inherit the handler and what was saved, so each runs `cleanup` itself, and the
  `exit(0)` at its end becomes the result of its task. `exit(-1)` in `profile`
  is raised again in the main process where `list` reaches that result, and
  nothing there calls `cleanup`. `tainted` is kept for the property: the tasks
  measured in part on a machine not staged. `buffer` is what the main process has
  written to a file that is still open: Python writes it out when the `with` block
  closes the file (`Close`), after an interrupt as the exit that `cleanup` raises
  unwinds the block, so after `cleanup` (`Exit`), or loses it when closing fails.
  `late` records, for the property, a setting written out that late. The original
  values that `cleanup` writes take one step each, since an interrupt between such
  a write and its close runs `cleanup` again, with the same values. One setting "governor" stands for
  the file the code writes, that of cpu0; the code pins measurements to cores
  0 and 2 and stages the governor of the first only.

Where the code has undefined or machine-dependent outcomes: a handler table
indexed by a word without a handler is taken as a crash, also where the index
lies beyond the table, which in a build may jump anywhere.

Operators whose comment begins "A mutated form" or "Mutated forms" are not part of any
specification: each is a plausible mistake in the definition after it, kept to
show that a property would notice it.

## 3. What is checked

| run | question | instance |
| --- | --- | --- |
| `alu_laws` | are the results those of independent definitions? products exact over hi and lo, division Euclidean, orders consistent under the sign bit, arithmetic shifts fill the sign; `lwl` and `lwr` make an unaligned word, narrow and wide accesses agree | every 8-bit word paired with 16 others |
| `switch_isa` | does the switch keep its values words, and give every jump one delay slot? | all pairs of instructions of a table with every opcode modelled, then an exit; 6-bit words |
| `computed_goto` | does it implement the switch, crashes and exit code included? | every program of 5 words over 8 instructions, 3-bit words |
| `tail_call` | the same up to the exit; after it nothing changes, and the word after the exit decides between the status and a crash | the same |
| `blocked` | blocks, links, PC, unrolled loop, array growth, uniqueness; does every block run to its end and every exit end the process? | every program of 4 words over the same 8 instructions |
| `blocked_refines` | does it implement the switch up to the exit on well-behaved guests? | every program of 5 words |
| `paging` | do two levels of tables and loops over pages implement a map from addresses to bytes? does every loop end? | 2 tables of 2 pages of 2 bytes, up to 3 bytes from addresses 1, 3, 4 and 7 |
| `system_calls` | is everything up to the ends of segments, stack and heaps mapped, and what `mmap2` returned? does a call stay in its range? what may a guest conclude from a count? | 32 addresses in pages of 4, two executables, any three calls |
| `harness` | who shares a core? what is in a table? is the machine restored? does the program end? | 3 cores, 4 tasks, 2 interrupts, any failure |
| `blocked_status` | violated: the exit status is lost | 4 words |
| `blocked_after_exit` | violated: the block's rest runs after the exit | 4 words |
| `sub_overflow` | violated: `sub` does not trap where its test expects it | 8-bit words |

**Refinement.** `Switch!Safety` is the specification of the switch without
fairness. `ComputedGoto` implements it with the identity mapping. `TailCall`
and `BlockedInterpreter` implement `Switch!UpToExit`, which leaves open what
happens once the guest has exited: the first may crash on the next word, the
second runs the rest of its block and returns 0. For the blocked interpreter
PC and NPC are computed from the block and the position in it (`AbsPC`,
`AbsNPC`). `WellBehaved` names what it takes for granted of its guests: no branch
in a delay slot, no store into decoded code, no decoding past the end of the
code. `WellBehavedSpec` follows only steps that keep to it; this is why that run
has no deadlock check. All other properties of the blocked interpreter
hold for every guest.

`Paging` implements `MemoryBytes`, which sees each call with its arguments
(`args`, kept for this beside the locals of the loop). A call takes
effect when it is made, so bytes that its loop has still to transfer show their
final value, and a call that will meet an unmapped page has already ended the
program. The abstract `Allocate` maps exactly the pages of its range and keeps
every byte. For an empty range or one that wraps it promises only the latter;
the code then maps nothing, one page, or (size 0 at address 0) all.
Loads and stores are exact within a page, so for every aligned address; one that
crosses a page boundary is exact in its first page only, because the code goes on
behind that page in the host's heap.

**Bounds.** Narrow words make every wrap and sign change happen. The 8
instructions of the small table are an addition that can become a link or exit
code, an increment, backward conditional branch, linking branch, register jump,
system call, store into the code itself, and jump; over all programs of 4 or 5
words this gives loops, calls with several return addresses, branches in delay
slots, rewritten code, and exits at every position of a block. `Unroll` and
`InitCap` are 2 where the code has 8 and 32, so that blocks go round the
unrolled loop, end at each of its entries, and grow their array twice. The full
table covers every instruction class, trapping and not. In `paging` ranges of
one to three bytes lie within a page, start and end at its edges, cross a page
and a table boundary, and wrap at the top of the address space. In
`system_calls` the executables have segments that share a page, in both orders;
buffers lie in the heap, across a page, into the stack and around the top; sizes
make `brk` ask, grow in its page and over the mmap heap and the stack, and make
`mmap2` ask for nothing, for more than there is, for a region over the stack, and
for lengths whose rounding or sum wraps; a `writev` has up to two buffers, so that
a short or failing write can come before a full one. Three calls suffice for a
region to be mapped, grown over and mapped again. In `harness` the first and last of four tasks are pinned to one of
three cores, and two tasks between them can overtake; two interrupts make the second strike in
the cleanup of the first, and either can strike between a write and its close.

**Fairness.** `WF_vars(Next)` on each interpreter: it is one thread that runs
unless its process ended. `Paging` has it on the loops
only: a guest may stop calling. `Harness` has `WF_vars(Main \/ Pool)`: the operating
system keeps running the main process and the workers, and every measured run
ends; interrupts are not fair. Nothing finer is assumed. Under it, decoded blocks
run to their end or crash, a guest's exit ends the process, and the measuring
program ends. A host call is taken to return.

### Findings

- `blocked.c:359` returns 0 instead of `mips.status`, which the other three
  return and which `syscalls.h:342` calls the exit status for the entire process.
- `blocked.c:299-310`: after an exit the rest of the block is still executed.
- `instructions.h:378-386`: `sub` zero-extends its operands, so that it does not
  trap on S32MIN - 1 as `tests/test_alu_reg.h:120` expects.

Divergences recorded as properties rather than runs:

- the tail-calling interpreter fetches the word after the exit before it tests
  `halted` (`tail-call.c:98-104`), so an exit in the last mapped word crashes;
  `ExitNeedsNextWord` says exactly when;
- `performance.py:39` says that `cleanup` unstages the environment; of a setting
  that setup has written (line 63 or 68) and not yet closed, the staged value is
  written out after `cleanup`. `SettingsRestored` names this one exception, and
  says that nothing was measured;
- `mmap2` (`syscalls.h:253`) rounds lengths within a page of 2^32 to 0 and
  returns an address for nothing; `MmapGives` names the case.

## 4. What is proved

Every theorem holds for every value of the constants that meets the named
assumptions: every word width, instruction table, memory map and guest program,
every page size, executable, number of cores and tasks.

### The four interpreters

`CpuProofs` has what every interpreter needs: instructions leave a well-typed
guest, only branches touch `branched`, and addresses advance modulo the word.

`SteppingProofs` has the switch and computed goto. Of the switch:
`TypeCorrect` and `JumpsWaitOnce`, for the properties `MachineTypeOK` and
`OneDelaySlot` of the run `switch_isa`. Between instructions NNPC is the address
after NPC (`WindowOK`), which with the types is inductive: it is what makes the
delay slot of a jump the only one.

Computed goto here, and `TailProofs`: `Refinement` in each, for
`ImplementsSwitch`. Both interpreters fetch in one step and execute in another,
so a step of the switch is their handler and the rest is invisible. What carries
it is the invariant `CirFresh`: between fetch and handler `cir` is the word at
PC, also when the handler before it stored there. `TailProofs` adds
`NextWordDecides` (`ExitNeedsNextWord`) and `QuietAfterwards` (`QuietAfterExit`).

`OneDelaySlot` speaks of the machine alone and not of who steps it, so the
refinements have a use: `GotoJumpsWaitOnce` gets it for computed goto from the
switch without looking at its actions again. `TailJumpsWaitOnce` states it for
tail calls, where the refinement promises it up to the exit only; after it
nothing moves.

`SwitchDeliversExit` and `GotoDeliversExit`: these two interpreters end the
process with the guest's status (`ExitStatusDelivered`) and change nothing after
the exit (`QuietAfterExit`). They test `halted` after every instruction, and
`exit` sets it together with the status. For the blocked interpreter both
statements are false, as the runs `blocked_status` and `blocked_after_exit` show;
the theorems say that the switch it replaces does keep them.

`BlockedProofs` proves `Spec => []IInv` (theorem `Invariance`), and from it
`TypeCorrect`, `BlocksStayWellFormed`, `LinksStayCoherent`, `EntersAtPC`,
`BranchSeesPC` and `FlagTellsTarget`, which are the properties `TypeOK`,
`BlocksWellFormed`, `LinksCoherent`, `EntryAtPC`, `PCAtBranch` and
`PCFollowsBranch` of the run `blocked`. Guests are arbitrary: self-modifying code
and branches in delay slots are included.

Coherent links are not inductive alone. A link is stored by the
outer loop, after the delay slot and possibly a whole decoding, under the value
`branched` then has. So the invariant follows that value: from the branch on,
NNPC (within the block) and then PC (after it) is the target of the branch under
`branched` (`PCFollowsBranch`). For this the branch must have computed its target
from its own address (`PCAtBranch`), which rests on the shape of blocks
(`BlocksWellFormed`: the last branch is at size - 3 counted from 0, only the delay
slot follows it, the slot is no branch, and before it there is no branch but in
an unbroken row of branches that stand in one another's slots), which rests on
what the decoder holds while it runs (`DecoderOK`). Following a link then lands at PC (`EntryAtPC`), which
is what the addition per block starts from.

It goes on with `LoopStopsAtTerminator`, `ArrayHasRoom` (of the array being
decoded and of every block's, the terminator included), `DecodesOnce`
and `LinksStay` for the properties `DuffExact`, `OpsFitCapacity`, `UniqueBlocks`
and `LinkSetOnce`, from a second inductive invariant, `LoopInv`, which extends
the first. In the unrolled loop the handlers left are those up to the
next test and a multiple of `Unroll` after it (`LoopOK`); `EntryLaneRounds` shows
that the entry (size - 1) % `Unroll` starts with that, for every factor, so the
test never misses the terminator. The block being decoded is not in the table
(`KeysOK`), hence keys stay unique. From the end of a block to the link, the
link of the block left is empty under the outcome its branch had (`EmptyLinkOK`),
because the inner loop would have followed it; `NotHaltedAtLink` excludes the one
other way out of that loop. Hence links are only ever filled.

Its `Refinement` is the result the others serve: `WellBehavedSpec =>
ImplementsSwitch`. Looking up, decoding, linking, entering and leaving are
invisible to the switch (`OutsideStutters`); a handler is one instruction of it
(`HandlerSteps`), by cases on its place. Before the branch PC is wrong, and no
instruction there reads it (`ExecuteAnywhere`). At the branch PC is right
(`PCAtBranch`). In the delay slot the counter after next is the target the
branch left in NNPC. That the handler at a position is the instruction the
switch fetches is `WellBehaved` (`HandlerIsCir`); that the position is one of the
block's is `LoopOK`.

What the blocks themselves are, for every guest, also one that writes into its
code, is said by four more theorems, over a third invariant, `TracksOK`: what
`decode_block` has pushed are the words from PC to where it stands, all in pages,
and a halted guest is in a block or on its way out.

- `BlocksStaySnapshots`: a new block is memory at its address, word by word,
  and neither its address nor its ops change afterwards. So a store into code
  already decoded is the only way in which a block and the code come apart, which
  is what `WellBehaved` excludes.
- `TableIsBounded`: there is at most one block per mapped word (its address is
  one, and `DecodesOnce` makes the addresses distinct), and a block reaches no
  further than the first word without a page, its terminator aside.
- `BlocksAdvance`: from the lookup to the end of the block each step goes to a
  later phase or brings a number down, in `decode_block` the distance to u, in
  the unrolled loop the handlers left. u is any word without a page, and the
  theorem supposes that there is one: nothing else stops `decode_block` in
  memory that holds no branch. The programs of the loader leave almost all of
  the address space without pages.
- `ExitIsNear`: after the guest's exit, each step that does not end the process
  brings down the number of steps left, which is what remains of the block and
  two. No link is followed and nothing is decoded any more.

The last two are the safety halves of `DecodedBlocksRun` and `ExitEndsProcess`:
with them, all that these liveness properties still need is that the interpreter
goes on taking steps.

Assumptions: `WordAssumption`, `CpuAssumption`, `AluAssumption` (arithmetic
yields words; `ResultsAreWords` of `AluProofs` proves it of the operators of
`Alu`, which the instances use) and `BlockedAssumption` (`Unroll` and `InitCap`
are positive).

### Arithmetic and accesses

`AluProofs` proves the six laws of the run `alu_laws` for every width of a
word: `ProductsExact` (`MultiplyExact`), `QuotientsExact` (`DivideExact`),
`OrdersAgree` (`OrderAgrees`), `ShiftsExact` (`ShiftsAgree`),
`PairsLoadUnaligned` (`UnalignedPair`) and `AccessesAgree` (`AccessesCompose`).
So 32 bits are covered, which no run reaches. `ResultsAreWords` adds that every
result is a word.

Powers of two and numbers made of digits are recursive functions. That the
recursions have solutions (`RecursionExists`) and what they compute is proved by
induction in the form of a set: a set that has 0 and is closed under successor
has every natural number (`Induction`, from the least element of its
complement). On this rest `DigitsOf` (the lowest n digits of x make up x modulo
their range), for binary digits `BitsOf`, and for bytes in memory `MemoryReads`.
The bitwise operators are then described where the code uses them, on words cut
at a digit: masks keep one part (`AndHigh`, `AndLow`), a union of parts that do
not overlap is a sum (`OrDisjoint`), flipping the sign bit moves the order
(`XorSign`). `lwr` and `lwl` each contribute one such part (`RightPart`,
`LeftPart`), and the parts meet at every offset because both cuts are at the
same multiple of a byte.

Assumptions: `AluWidth` (a word has 2^`WordBits` values) and
`DatapathAssumption` (a word has four bytes, of any number of bits).

### Guest memory

`PagingProofs`: `Refinement`, for `ImplementsBytes`, and `TypeCorrect`, for
`TypeOK`, with any number of tables, of entries in a table and of bytes in a
page. The invariant `IInv` is `TypeOK` and `CallOK`: there are arguments exactly
while a call is under way, and the buffer of a copy has room for what is left of
the range. Everything else the mapping needs is arithmetic of addresses: an
address is its page and its offset, and a page its table and its entry
(`PageAndOffset`, `Indices`); a chunk of a range that lies in one page has
consecutive offsets, and the addresses left after a round are those left before
without the chunk, also when the range wraps at the top of the address space. A round is then invisible: the bytes the chunk stores are
those the mapping already showed. `memory_allocate` fills an interval of entries
in each table of an interval of tables; these are the pages between the first
and the last address, since pages are ordered by table and then by entry.

`RoundsMove` is the part of `TransfersEnd` that is not about fairness: a step
taken while a call is under way returns, crashes, or leaves less to move.

`PagingAssumption`: sizes are positive, transfers start at addresses and are not
longer than the address space, a page holds a whole number of accesses of each
width, a byte can be 0, and `NULL` is none of the values it is told apart from.

### The address space

`SystemCallsProofs`: `RangesStayMapped`, `MmapStaysHonest`, `HeapStartsAbove`,
`NameIsString`, `EffectsStayConfined` and `TypeCorrect`, for the properties
`RangesMapped`, `MmapGives`, `HeapAboveSegments`, `NameEnds`, `EffectsConfined`
and `TypeOK`. The invariant is
`IInv` = `TypeOK`, `CallOK`, `SegmentsBelow`, `RangesMapped`, `NameEnds`.
`SegmentsBelow` (segments end at or below the start of the heap) is needed because
`HeapAbove` compares ends, while the property speaks of ranges; `CallOK` ties a
call to the counter, since `NameEnds` speaks only of the time before the first
call, and says that `writev` has its locals. The ranges stay mapped although
`brk` allocates from the middle of a page: the last page of the range before is
the first of the next or next to it. They stay mapped although `mmap2`'s sum can
wrap: the new end is then below the old one, and in any case the code clears the
region and so ends the program if some of it is not mapped. `MmapStaysHonest`
is about the region itself: as long as was asked for and mapped all along, unless
the length is one whose rounding wraps to 0. A sum that wraps can still come out
at or below `USER_TOP`; the call then returns only if `brk` had mapped every page
that clearing touches, and its region may cover the stack.

`TransfersStayExact` proves the action property `TransfersExact`: what a guest
may conclude from a count. For `writev` it needs the invariant `CountOK` (theorem
`CountStays`): the total is a number t, wrapped; t is at least minus the number
of rounds, at most the length of the buffers so far, and equal to it only if the
host took every byte of them in order. As t lies in a range shorter than the
address space, a total equal to the length asked for is not a wrapped one. This
needs that length and the number of buffers to be together below the number of
addresses; without it the claim is false, since the -1 of a failing write is
2^32 - 1 in 32 bits, and `TransfersExact` says so.

`MemoryOnlyGrows`: no step of the loader or of a call unmaps an address, or lowers
the start of the heap or the break; once the program runs the start stays where it
is, and memory and the heaps change only as a call returns. Loading may move
an empty heap only (`HeapStartsEmpty`): `HeapAbove` sets both ends, and would
otherwise take memory back. `CallsEnd`: the loader takes the headers one by one,
nothing but a new call happens while none is under way, and a call under way
returns, ends the process or, in `writev`, goes on to the next of its buffers.

`SystemCallsAssumption` is what the code's constants meet (page-aligned start of
the mmap heap, a stack that holds its data and lies below the top) and, of
executables, that no segment wraps and none is larger in the file than in memory.

### The harness

`HarnessProofs`: `MachineRestored`, `TablesSound`, `SharingNeedsOvertaking` and
`TypeCorrect`, for `SettingsRestored`, `PublishedSound`, `SharedOnlyAfterOvertaking`
and `TypeOK`. The invariant is `TypeOK` with four parts. `SettingsInv` says for
every statement which settings are staged, and that a setting is staged only
after its value was saved and the handler installed: this order is what lets an
interrupt anywhere find what to restore. `PoolInv`: a task has one worker, tasks
were taken in order, the results are those of the first tasks. `PhaseInv`: no
worker has a signal, and no task is tainted, before the main process has left
the measurements. `BufferInv`: a setting is in the buffer only before there is a
pool, and outside setup only after an interrupt; so what is written late is one
setting, already saved, of a program that measured nothing.

Sharing a core is a pigeonhole argument. Tasks i < j with one core are at least
`CoreCount` apart. If none between them had ended, all of i .. j would be
running (they were taken in order), at least one more task than there are
workers, and each has a worker of its own.

`NoDeadlock`: until the program has exited, the main process has a statement to
execute or a worker has something to do. The two guards it names are written out
(`MainCanMove`, `WorkerCanMove`), read off the actions, since ENABLED is outside
the prover's reach. It needs that no worker is lost while results are awaited
(`WorkersThere`), as workers take signals only once the main process has left
the measurements; then the task `list()` waits for has a worker, or is next and
some worker is idle. `OnlyForward` is the other half of what `Finishes` rests on
besides fairness: but for Ctrl-C, which strikes a bounded number of times, no
step takes anything back (statement, tasks, results, signals), and each gets
something done of which there is a bounded amount.

`HarnessAssumption`: at least one core and one task, any number of interrupts.

### Only model-checked

Liveness (`DecodedBlocksRun`, `ExitEndsProcess`, `TransfersEnd`, `Finishes`), which
with ENABLED is outside the prover's reach; proved of each is the measure that
its steps bring down (`BlocksAdvance`, `ExitIsNear`, `RoundsMove`, `OnlyForward`).
Every invariant, action property and refinement of a passing run is also proved.

The library's theorems for induction take an operator as a parameter, which the
installed provers cannot instantiate; the proofs use induction over a set
instead.

## 5. Not modelled

- The load-delay variants of the loads (`instructions.h`): no build defines the
  options that select and commit them.
- Signed quotients: `div` is modelled as the code has it, on unsigned operands
  but for two cases, and no property is about them.
- The host's stack under tail calls. The build that `README.md` gives sets no
  optimisation, and nothing in `tail-call.c` demands tail calls, so each handler's
  call may take a frame and a long run exhaust the stack; the model takes a call
  as a jump, which an optimising build can make of it.
- In `SystemCalls` the structures that `ioctl` and `clock_gettime64` fill have one
  address per field: a field that lies across a page boundary, which the code
  stores through the first page only, is not told apart.
- `swl` and `swr` are modelled as the code has them, as `sw`; the TODO above them
  says they are unfinished, and nothing is stated of them. The zero register
  can be written, as in the code.
- The pin tool: two flags and two counters, without an order of events beyond
  that of the markers.
- `efficiency.py` beyond the pool it shares with `performance.py`; it has no
  settings to restore. How either reads the text of its tools is left out:
  `performance.py` raises when a counter is missing (`ProcessRaises`),
  `efficiency.py` silently leaves the row out.
- Plots, tables and complexity scripts: files in, files out.
- Profiling and disassembly builds: counters and formatting around the same
  bodies.
- The search for the symbol of gp and the words of auxv, envp and argv: values
  the models leave open. The tests, samples and build files.
- `uthash.h`: vendored, used as a map. The host's own behaviour beyond results
  of calls, and allocation failure on the host.
