------------------------------- MODULE Paging -------------------------------
(***************************************************************************)
(* Guest memory (memory.c, memory.h): a page table of two levels, filled   *)
(* by memory_allocate, whose pages are blocks of the host's heap; loads    *)
(* and stores, which find one page; and memory_copy_read,                  *)
(* memory_copy_write and memory_set, loops over the pages of a range.      *)
(* One step per call of the first two, one per round of the loops.  A page *)
(* is its content: every entry owns the block calloc gave it.              *)
(***************************************************************************)
EXTENDS Integers, Sequences

CONSTANTS
    TableCard,      \* PT_COUNT, 2^10 in the code
    EntryCard,      \* PE_COUNT, 2^10 in the code
    PageSize,       \* 2^12 in the code
    Byte,           \* values of a byte
    Starts,         \* the addresses calls start at; all of them in the code
    MaxSize,        \* bound on the length of a transfer
    Widths,         \* sizes of a load or store; 1, 2 and 4 in the code
    NULL

AddressCard == TableCard * EntryCard * PageSize

Address == 0 .. AddressCard - 1
Wrap(a) == a % AddressCard      \* u32 arithmetic
Tables  == 0 .. TableCard - 1
Entries == 0 .. EntryCard - 1
Offsets == 0 .. PageSize - 1
Page    == [Offsets -> Byte]
Table   == [Entries -> Page \cup {NULL}]
Buffers(n) == [1 .. n -> Byte]

Operations == {"allocate", "read", "write", "set", "load", "store"}
Arguments  == [op : Operations, address : Address, size : 0 .. AddressCard,
               value : Byte]
Locals     == [address : Address, size : 0 .. MaxSize]

ASSUME PagingAssumption ==
    /\ {TableCard, EntryCard, PageSize} \subseteq Nat \ {0}
    /\ 0 \in Byte
    /\ Starts \subseteq Address
    /\ MaxSize \in 0 .. AddressCard
    /\ Widths \subseteq {w \in 1 .. PageSize : PageSize % w = 0}
    /\ NULL \notin Page /\ NULL \notin Table
    /\ NULL \notin Arguments /\ NULL \notin Locals

VARIABLES
    page_tables,    \* memory->page_tables
    args,           \* the call being run and its arguments, or NULL
    call,           \* its locals: where it is and what is left, or NULL
    buffer,         \* the host's side of a transfer
    proc            \* "running", "crashed" or "deleted"

vars == <<page_tables, args, call, buffer, proc>>

TypeOK ==
    /\ page_tables \in [Tables -> Table \cup {NULL}]
    /\ args \in Arguments \cup {NULL}
    /\ call \in Locals \cup {NULL}
    /\ buffer \in Seq(Byte)
    /\ proc \in {"running", "crashed", "deleted"}

Init ==
    /\ page_tables = [t \in Tables |-> NULL]
    /\ args = NULL /\ call = NULL
    /\ buffer = <<>>
    /\ proc = "running"

\* The guest, the loader or a system call calls op; left bytes are for its loop.
Call(op, a, n, v, left) ==
    /\ proc = "running" /\ call = NULL
    /\ args' = [op |-> op, address |-> a, size |-> n, value |-> v]
    /\ call' = [address |-> a, size |-> left]
    /\ UNCHANGED proc

------------------------------------------------------------------------------
\* memory_find_page

PtIdx(a)  == (a \div (PageSize * EntryCard)) % TableCard
PeIdx(a)  == (a \div PageSize) % EntryCard
Offset(a) == a % PageSize

Mapped(a) ==
    /\ page_tables[PtIdx(a)] # NULL
    /\ page_tables[PtIdx(a)][PeIdx(a)] # NULL

ByteAt(a) == page_tables[PtIdx(a)][PeIdx(a)][Offset(a)]

\* page_tables after values are put from a on, as far as its page goes.
StoreInPage(a, values) ==
    LET last == Offset(a) + Len(values) - 1
    IN  [page_tables EXCEPT ![PtIdx(a)][PeIdx(a)] =
            [o \in Offsets |-> IF o \in Offset(a) .. last
                               THEN values[o - Offset(a) + 1] ELSE @[o]]]

------------------------------------------------------------------------------
\* memory_allocate

\* The table t with the entries first .. last filled.
Filled(t, first, last) ==
    [e \in Entries |->
        IF page_tables[t] # NULL /\ page_tables[t][e] # NULL
        THEN page_tables[t][e]
        ELSE IF e \in first .. last THEN [o \in Offsets |-> 0] ELSE NULL]

\* A mutated form of Allocated: every table starts at the head's entry.
AllocatedFromHead(a, n) ==
    LET end == Wrap(a + n - 1)
    IN  [t \in Tables |->
            IF t \in PtIdx(a) .. PtIdx(end)
            THEN Filled(t, PeIdx(a),
                        IF t = PtIdx(end) THEN PeIdx(end) ELSE EntryCard - 1)
            ELSE page_tables[t]]

Allocated(a, n) ==
    LET end == Wrap(a + n - 1)
    IN  [t \in Tables |->
            IF t \in PtIdx(a) .. PtIdx(end)
            THEN Filled(t, IF t = PtIdx(a) THEN PeIdx(a) ELSE 0,
                        IF t = PtIdx(end) THEN PeIdx(end) ELSE EntryCard - 1)
            ELSE page_tables[t]]

Allocate ==
    /\ \E a \in Starts, n \in 0 .. AddressCard :
         /\ Call("allocate", a, n, 0, 0)
         /\ page_tables' = Allocated(a, n)
    /\ UNCHANGED buffer

------------------------------------------------------------------------------
\* The calls of the loops.  A buffer to read into holds whatever malloc left.

CopyRead ==
    /\ \E a \in Starts, n \in 0 .. MaxSize, junk \in Byte :
         Call("read", a, n, 0, n) /\ buffer' = [k \in 1 .. n |-> junk]
    /\ UNCHANGED page_tables

CopyWrite ==
    /\ \E a \in Starts, n \in 0 .. MaxSize :
         Call("write", a, n, 0, n) /\ buffer' \in Buffers(n)
    /\ UNCHANGED page_tables

MemorySet ==
    /\ \E a \in Starts, n \in 0 .. MaxSize, v \in Byte : Call("set", a, n, v, n)
    /\ UNCHANGED <<page_tables, buffer>>

\* Their loop: the part of the range that lies in one page.
\* A mutated form of Amount: the rest of the page is one byte short.
AmountShort ==
    LET rest == PageSize - 1 - Offset(call.address)
    IN  IF call.size < rest THEN call.size ELSE rest

Amount ==
    LET rest == PageSize - Offset(call.address)
    IN  IF call.size < rest THEN call.size ELSE rest

\* The bytes of the buffer passed so far.
Passed == Len(buffer) - call.size

\* A mutated form of Advance: addresses do not wrap.
AdvanceUnwrapped ==
    call' = [call EXCEPT !.address = @ + Amount, !.size = @ - Amount]

Advance ==
    call' = [call EXCEPT !.address = Wrap(@ + Amount), !.size = @ - Amount]

Loop(op) ==
    /\ proc = "running" /\ call # NULL
    /\ args.op = op
    /\ call.size > 0
    /\ Mapped(call.address)
    /\ Advance
    /\ UNCHANGED <<args, proc>>

ReadChunk ==
    /\ Loop("read")
    /\ buffer' = [k \in DOMAIN buffer |->
                     IF k \in Passed + 1 .. Passed + Amount
                     THEN page_tables[PtIdx(call.address)][PeIdx(call.address)]
                                     [Offset(call.address) + k - Passed - 1]
                     ELSE buffer[k]]
    /\ UNCHANGED page_tables

WriteChunk ==
    /\ Loop("write")
    /\ page_tables' = StoreInPage(call.address,
                          SubSeq(buffer, Passed + 1, Passed + Amount))
    /\ UNCHANGED buffer

SetChunk ==
    /\ Loop("set")
    /\ page_tables' = StoreInPage(call.address,
                          [k \in 1 .. Amount |-> args.value])
    /\ UNCHANGED buffer

\* The range is done, and the caller with its buffer.
Return ==
    /\ proc = "running" /\ call # NULL
    /\ call.size = 0
    /\ args' = NULL /\ call' = NULL
    /\ buffer' = <<>>
    /\ UNCHANGED <<page_tables, proc>>

------------------------------------------------------------------------------
\* memory_read_u8 .. memory_write_u32.  They take the bytes that follow in the
\* host's memory: beyond the end of the page, those of malloc's padding, which
\* holds anything and keeps nothing for the guest.

Load ==
    /\ \E a \in Starts, w \in Widths :
         /\ Mapped(a)
         /\ Call("load", a, w, 0, 0)
         /\ buffer' \in Buffers(w)
         /\ \A k \in 1 .. w :
              Offset(a) + k <= PageSize => buffer'[k] = ByteAt(a + k - 1)
    /\ UNCHANGED page_tables

Store ==
    \E a \in Starts, w \in Widths : \E values \in Buffers(w) :
        /\ Mapped(a)
        /\ Call("store", a, w, 0, 0)
        /\ buffer' = values
        /\ page_tables' = StoreInPage(a, values)

------------------------------------------------------------------------------
\* memory_find_page dereferences a table or a page that is not there.

Crash ==
    /\ proc = "running"
    /\ proc' = "crashed"
    /\ UNCHANGED <<page_tables, args, call, buffer>>

CrashInLoop == call # NULL /\ call.size > 0 /\ ~Mapped(call.address) /\ Crash

CrashInAccess == call = NULL /\ (\E a \in Address : ~Mapped(a)) /\ Crash

\* memory_delete, when the program is over.
Delete ==
    /\ proc = "running" /\ call = NULL
    /\ page_tables' = [t \in Tables |-> NULL]
    /\ proc' = "deleted"
    /\ UNCHANGED <<args, call, buffer>>

InLoop == ReadChunk \/ WriteChunk \/ SetChunk \/ CrashInLoop \/ Return

Next == \/ Allocate \/ CopyRead \/ CopyWrite \/ MemorySet
        \/ InLoop
        \/ Load \/ Store \/ CrashInAccess \/ Delete

Terminated == proc # "running" /\ UNCHANGED vars

Spec == Init /\ [][Next \/ Terminated]_vars /\ WF_vars(InLoop)

------------------------------------------------------------------------------
\* Refinement.  A call takes effect when it is made: what its loop has still to
\* transfer counts as transferred, unless the loop is going to crash.

Remaining == {Wrap(call.address + k) : k \in 0 .. call.size - 1}

Doomed == call # NULL /\ \E a \in Remaining : ~Mapped(a)

AbsState == IF proc # "running" \/ Doomed THEN "ended"
            ELSE IF call = NULL THEN "idle" ELSE "busy"

FinalByte(a) ==
    IF call # NULL /\ a \in Remaining /\ args.op = "write"
    THEN buffer[Passed + Wrap(a - call.address) + 1]
    ELSE IF call # NULL /\ a \in Remaining /\ args.op = "set"
    THEN args.value
    ELSE ByteAt(a)

AbsBytes ==
    IF AbsState = "ended" THEN <<>>
    ELSE [a \in {x \in Address : Mapped(x)} |-> FinalByte(a)]

AbsBuffer ==
    IF AbsState = "ended" THEN <<>>
    ELSE IF call # NULL /\ args.op = "read"
    THEN [k \in DOMAIN buffer |->
             IF k > Passed THEN ByteAt(Wrap(call.address + k - Passed - 1))
             ELSE buffer[k]]
    ELSE buffer

AbsRequest == IF AbsState = "busy" THEN args ELSE NULL

Bytes == INSTANCE MemoryBytes
             WITH bytes <- AbsBytes, request <- AbsRequest, buffer <- AbsBuffer,
                  state <- AbsState

(***************************************************************************)
(* Memory is a map from addresses to bytes: the tables hide pages, the     *)
(* loops of memory.c split ranges at page boundaries without losing,       *)
(* repeating or misplacing a byte, and memory_allocate maps the pages of   *)
(* its range and no others and keeps what is there.                        *)
(***************************************************************************)
ImplementsBytes == Bytes!Spec

(***************************************************************************)
(* Every transfer returns or crashes: each round of the loops of memory.c  *)
(* moves at least one byte.                                                *)
(***************************************************************************)
TransfersEnd == call # NULL ~> (call = NULL \/ proc = "crashed")
============================================================================
