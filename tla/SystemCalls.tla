----------------------------- MODULE SystemCalls -----------------------------
(***************************************************************************)
(* The life of the guest's address space: the loader maps and fills the    *)
(* program's segments and the stack (loader.c), and the system calls that  *)
(* grow it or move bytes between it and the host (syscalls.h) follow, each *)
(* with whatever the host answers.  Memory is the map from addresses to    *)
(* bytes that Paging implements; guest stores are left out, and read       *)
(* stands for them.  Allocation on the host succeeds.                      *)
(***************************************************************************)
EXTENDS Integers, Sequences, SequencesExt

CONSTANTS
    AddressCard,    \* addresses, 2^32 in the code
    PageSize,       \* 2^12 in the code
    UserTop,        \* USER_TOP, which is also STACK_TOP
    StackSize,      \* STACK_SIZE
    MmapStart,      \* where memory_create puts the mmap heap
    NameSize,       \* bytes of the program's name on the stack
    RandomSize,     \* bytes of AT_RANDOM above it
    VectorSize,     \* bytes of padding, auxv, envp, argv and argc below it
    FieldCount,     \* fields of a struct winsize or timespec; a field of a
                    \* structure, or a word of the guest's, is one address
    Byte,           \* values of a byte
    Executables,    \* program headers the loader can be given
    Buffers,        \* bounds the buffers passed to system calls
    Sizes,          \* bounds the arguments of brk and mmap2
    MaxCalls,       \* bound on the number of calls
    MaxIovs,        \* bound on the buffers of a writev
    NULL

Address == 0 .. AddressCard - 1
Wrap(a) == a % AddressCard      \* u32 arithmetic
PageOf(a) == a \div PageSize
Span(a, n) == {Wrap(a + k) : k \in 0 .. n - 1}

Header == [load : BOOLEAN, vaddr : Address, filesz : Address, memsz : Address]

ASSUME SystemCallsAssumption ==
    /\ {AddressCard, PageSize} \subseteq Nat \ {0}
    /\ AddressCard % PageSize = 0
    /\ UserTop \in Address /\ MmapStart \in Address /\ Sizes \subseteq Address
    /\ Buffers \subseteq [address : Address, length : Address]
    /\ MmapStart % PageSize = 0
    /\ {StackSize, NameSize, RandomSize, VectorSize} \subseteq Nat
    /\ FieldCount \in Address
    /\ NameSize + RandomSize + VectorSize <= StackSize /\ StackSize <= UserTop
    /\ MaxCalls \in Nat /\ MaxIovs \in Nat
    /\ {0, 1} \subseteq Byte
    /\ Executables \subseteq Seq(Header)
    /\ \A exe \in Executables : \A h \in DOMAIN exe :
         /\ exe[h].filesz <= exe[h].memsz
         /\ exe[h].vaddr + exe[h].memsz < AddressCard
    /\ NULL \notin [c : Nat, total : Address]

VARIABLES
    phdrs,          \* the program headers of the executable
    loaded,         \* how many of them the loader is through with
    bytes,          \* guest memory: the mapped addresses and their values
    brk_heap_start, brk_heap_end, mmap_heap_end,    \* of struct memory
    call,           \* the system call under way, or NULL
    round,          \* writev's locals, or NULL
    moved,          \* bytes the host gave or took in this call
    v0,             \* the register with the call's result
    calls,          \* calls so far
    proc            \* "loading", "running", "crashed" or "aborted"

heapVars == <<brk_heap_start, brk_heap_end, mmap_heap_end>>
elfVars  == <<phdrs, loaded>>
vars == <<elfVars, bytes, heapVars, call, round, moved, v0, calls, proc>>

Operation == {"read", "write", "writev", "open", "ioctl", "brk", "mmap2",
              "clock_gettime64"}

TypeOK ==
    /\ phdrs \in Executables /\ loaded \in 0 .. Len(phdrs)
    /\ DOMAIN bytes \subseteq Address
    /\ \A x \in DOMAIN bytes : bytes[x] \in Byte
    /\ {brk_heap_start, brk_heap_end, mmap_heap_end, v0} \subseteq Address
    /\ call \in [op : Operation, address : Address, size : Address,
                 iovs : Seq(Buffers)] \cup {NULL}
    /\ round \in [c : Nat, total : Address] \cup {NULL}
    /\ moved \in Seq(Byte)
    /\ calls \in 0 .. MaxCalls
    /\ proc \in {"loading", "running", "crashed", "aborted"}

------------------------------------------------------------------------------
\* memory.c, as Paging shows it.

\* A mutated form of PagesOf: the last page is counted from the first byte's.
PagesOfCount(a, n) ==
    {x \in Address : PageOf(x) \in PageOf(a) .. PageOf(a) + PageOf(n - 1)}

\* The pages memory_allocate maps: none if the range wraps.
PagesOf(a, n) ==
    {x \in Address : PageOf(x) \in PageOf(a) .. PageOf(Wrap(a + n - 1))}

Allocated(b, a, n) ==
    [x \in DOMAIN b \cup PagesOf(a, n) |-> IF x \in DOMAIN b THEN b[x] ELSE 0]

Reaches(b, a, n) == Span(a, n) \subseteq DOMAIN b

Copied(b, a, values) ==
    [x \in DOMAIN b |-> IF x \in Span(a, Len(values))
                        THEN values[Wrap(x - a) + 1] ELSE b[x]]

SetTo(b, a, n, v) == [x \in DOMAIN b |-> IF x \in Span(a, n) THEN v ELSE b[x]]

BytesFrom(a, n) == [k \in 1 .. n |-> bytes[Wrap(a + k - 1)]]

\* A string starts at a: a mapped zero comes before what is not mapped.
IsString(a) ==
    \E n \in Address : /\ Reaches(bytes, a, n + 1)
                       /\ bytes[Wrap(a + n)] = 0

------------------------------------------------------------------------------
\* The loader.  memory_create leaves an empty table and the mmap heap.

Init ==
    /\ phdrs \in Executables /\ loaded = 0
    /\ bytes = <<>>
    /\ brk_heap_start = 0 /\ brk_heap_end = 0 /\ mmap_heap_end = MmapStart
    /\ call = NULL /\ round = NULL /\ moved = <<>>
    /\ v0 = 0 /\ calls = 0
    /\ proc = "loading"

Loading == proc = "loading" /\ loaded < Len(phdrs) /\ loaded' = loaded + 1

SkipHeader ==
    /\ Loading /\ ~phdrs[loaded + 1].load
    /\ UNCHANGED <<phdrs, bytes, heapVars, call, round, moved, v0, calls, proc>>

\* A mutated form of HeapAbove: the heap starts behind the last segment.
HeapAboveLast(end) == brk_heap_start' = end /\ brk_heap_end' = end

\* The brk heap starts at the end of the highest segment.
HeapAbove(end) ==
    IF end > brk_heap_start
    THEN brk_heap_start' = end /\ brk_heap_end' = end
    ELSE UNCHANGED <<brk_heap_start, brk_heap_end>>

\* The file's bytes, which are 1, and zeros behind them.
LoadSegment ==
    /\ Loading
    /\ LET p == phdrs[loaded + 1]
           mapped == Allocated(bytes, p.vaddr, p.memsz)
       IN  /\ p.load
           /\ Reaches(mapped, p.vaddr, p.memsz)
           /\ bytes' = SetTo(SetTo(mapped, p.vaddr, p.memsz, 0),
                             p.vaddr, p.filesz, 1)
           /\ HeapAbove(Wrap(p.vaddr + p.memsz))
    /\ UNCHANGED <<phdrs, mmap_heap_end, call, round, moved, v0, calls, proc>>

\* A mutated form of StackLen: the byte at STACK_TOP is left out.
StackLenExact == StackSize

StackBottom == UserTop - StackSize
StackLen == StackSize + 1

NamePtr == UserTop - RandomSize - NameSize

\* Cleared memory, with data from the stack pointer to STACK_TOP.
LoadStack ==
    /\ proc = "loading" /\ loaded = Len(phdrs)
    /\ LET mapped == Allocated(bytes, StackBottom, StackLen)
       IN  /\ Reaches(mapped, StackBottom, StackLen)
           /\ \E vector \in [1 .. VectorSize -> Byte] :
                bytes' = Copied(SetTo(mapped, StackBottom, StackLen, 0),
                                NamePtr - VectorSize,
                                vector \o [k \in 1 .. NameSize + RandomSize |-> 1])
    /\ proc' = "running"
    /\ UNCHANGED <<elfVars, heapVars, call, round, moved, v0, calls>>

\* The file cannot be read, is not a MIPS executable, or has no gp.
LoaderAborts ==
    /\ proc = "loading" /\ proc' = "aborted"
    /\ UNCHANGED <<elfVars, bytes, heapVars, call, round, moved, v0, calls>>

------------------------------------------------------------------------------
\* A system call: the guest's request, and what serves it.

Request(op, a, n, iovs) ==
    /\ proc = "running" /\ call = NULL /\ calls < MaxCalls
    /\ call' = [op |-> op, address |-> a, size |-> n, iovs |-> iovs]
    /\ calls' = calls + 1
    /\ round' = IF op = "writev" THEN [c |-> 0, total |-> 0] ELSE NULL
    /\ moved' = <<>>
    /\ UNCHANGED <<elfVars, bytes, heapVars, v0, proc>>

\* The address of mmap2 is that of its two arguments on the guest's stack.
RequestSpace ==
    \E n \in Sizes :
        \/ Request("brk", n, 0, <<>>)
        \/ \E b \in Buffers : Request("mmap2", b.address, n, <<>>)

RequestTransfer ==
    \E op \in {"read", "write"}, b \in Buffers :
        Request(op, b.address, b.length, <<>>)

RequestStruct ==
    \E op \in {"open", "ioctl", "clock_gettime64"}, b \in Buffers :
        Request(op, b.address, 0, <<>>)

\* The pointer it passes to writev, and what it stored there.
RequestVector ==
    \E b \in Buffers, iovs \in BoundedSeq(Buffers, MaxIovs) :
        Request("writev", b.address, 0, iovs)

Serving(op) == proc = "running" /\ call # NULL /\ call.op = op

Return(value) ==
    /\ v0' = Wrap(value)
    /\ call' = NULL /\ round' = NULL
    /\ UNCHANGED <<elfVars, calls, proc>>

End(how) ==
    /\ proc' = how
    /\ UNCHANGED <<elfVars, bytes, heapVars, call, round, moved, v0, calls>>

\* The whole buffer is copied to the guest, filled or not.
Read ==
    /\ Serving("read")
    /\ Reaches(bytes, call.address, call.size)
    /\ \E buffer \in [1 .. call.size -> Byte], n \in -1 .. call.size :
         /\ bytes' = Copied(bytes, call.address, buffer)
         /\ moved' = SubSeq(buffer, 1, n)
         /\ Return(n)
    /\ UNCHANGED heapVars

Write ==
    /\ Serving("write")
    /\ Reaches(bytes, call.address, call.size)
    /\ \E n \in -1 .. call.size :
         /\ moved' = SubSeq(BytesFrom(call.address, call.size), 1, n)
         /\ Return(n)
    /\ UNCHANGED <<bytes, heapVars>>

\* A mutated form of Counted: the length is added, not the result.
CountedLength(iov, n) == round.total + iov.length

\* total += result, where an error adds -1.
Counted(iov, n) == round.total + n

\* The address and the length of the next iovec can be read.
IovMapped == Reaches(bytes, call.address + 2 * round.c, 2)

\* An iovec without a length makes no call to the host.
WritevRound ==
    /\ Serving("writev") /\ round.c < Len(call.iovs)
    /\ IovMapped
    /\ LET iov == call.iovs[round.c + 1]
       IN  /\ Reaches(bytes, iov.address, iov.length)
           /\ \E n \in -1 .. iov.length :
                /\ iov.length = 0 => n = 0
                /\ moved' = moved \o SubSeq(BytesFrom(iov.address, iov.length), 1, n)
                /\ round' = [c |-> round.c + 1, total |-> Wrap(Counted(iov, n))]
    /\ UNCHANGED <<elfVars, bytes, heapVars, call, v0, calls, proc>>

WritevReturn ==
    /\ Serving("writev") /\ round.c = Len(call.iovs)
    /\ Return(round.total)
    /\ UNCHANGED <<bytes, heapVars, moved>>

Open ==
    /\ Serving("open")
    /\ IsString(call.address)
    /\ \E n \in {-1, 3} : Return(n)
    /\ UNCHANGED <<bytes, heapVars, moved>>

\* The host fills a structure of FieldCount fields for the guest.
FillStruct ==
    /\ Reaches(bytes, call.address, FieldCount)
    /\ \E fields \in [1 .. FieldCount -> Byte] :
         bytes' = Copied(bytes, call.address, fields)
    /\ Return(0)
    /\ UNCHANGED <<heapVars, moved>>

\* A mutated form of HostRefuses: the error is not converted to a word.
HostRefusesSigned(e) ==
    /\ v0' = e /\ call' = NULL /\ round' = NULL
    /\ UNCHANGED <<elfVars, calls, proc, bytes, heapVars, moved>>

HostRefuses(e) == Return(e) /\ UNCHANGED <<bytes, heapVars, moved>>

\* TIOCGWINSZ, the one request that is served.
Ioctl == Serving("ioctl") /\ (FillStruct \/ HostRefuses(-25))

IoctlAborts == Serving("ioctl") /\ End("aborted")

ClockGettime == Serving("clock_gettime64") /\ (FillStruct \/ HostRefuses(22))

Brk ==
    /\ Serving("brk")
    /\ LET brk == call.address
       IN  IF brk > brk_heap_end
           THEN /\ bytes' = Allocated(bytes, brk_heap_end, brk - brk_heap_end)
                /\ brk_heap_end' = brk
                /\ Return(brk)
           ELSE Return(brk_heap_end) /\ UNCHANGED <<bytes, brk_heap_end>>
    /\ UNCHANGED <<brk_heap_start, mmap_heap_end, moved>>

\* A mutated form of PagesLen: the length is rounded down.
PagesLenDown(n) == n - (n % PageSize)

\* (len + 0xfff) & ~0xfff
PagesLen(n) == LET m == Wrap(n + PageSize - 1) IN m - (m % PageSize)

\* A mutated form of Cleared: the pages are taken to be fresh.
ClearedByCalloc(b, a, n) == b

Cleared(b, a, n) == SetTo(b, a, n, 0)

\* fd and pgoff can be read from the guest's stack.
StackArgsMapped == Reaches(bytes, call.address, 2)

Mmap2 ==
    /\ Serving("mmap2") /\ StackArgsMapped
    /\ LET len    == PagesLen(call.size)
           target == mmap_heap_end
           mapped == Allocated(bytes, target, len)
       IN  /\ Wrap(target + len) <= UserTop
           /\ Reaches(mapped, target, len)
           /\ bytes' = Cleared(mapped, target, len)
           /\ mmap_heap_end' = Wrap(target + len)
           /\ Return(target)
    /\ UNCHANGED <<brk_heap_start, brk_heap_end, moved>>

Mmap2Aborts ==
    /\ Serving("mmap2") /\ StackArgsMapped
    /\ Wrap(mmap_heap_end + PagesLen(call.size)) > UserTop
    /\ End("aborted")

\* The call touches an address that is not mapped.
Crash ==
    /\ \/ /\ \E op \in {"read", "write"} : Serving(op)
          /\ ~Reaches(bytes, call.address, call.size)
       \/ /\ Serving("writev") /\ round.c < Len(call.iovs)
          /\ LET iov == call.iovs[round.c + 1]
             IN  ~IovMapped \/ ~Reaches(bytes, iov.address, iov.length)
       \/ Serving("open") /\ ~IsString(call.address)
       \/ /\ \E op \in {"ioctl", "clock_gettime64"} : Serving(op)
          /\ ~Reaches(bytes, call.address, FieldCount)
       \/ /\ Serving("mmap2")
          /\ LET len == PagesLen(call.size)
             IN  \/ ~StackArgsMapped
                 \/ /\ Wrap(mmap_heap_end + len) <= UserTop
                    /\ ~Reaches(Allocated(bytes, mmap_heap_end, len),
                                mmap_heap_end, len)
    /\ End("crashed")

------------------------------------------------------------------------------
Loader == SkipHeader \/ LoadSegment \/ LoadStack \/ LoaderAborts

Guest == RequestSpace \/ RequestTransfer \/ RequestStruct \/ RequestVector

Serve == \/ Read \/ Write \/ WritevRound \/ WritevReturn \/ Open
         \/ Ioctl \/ IoctlAborts \/ ClockGettime \/ Brk \/ Mmap2 \/ Mmap2Aborts
         \/ Crash

Next == Loader \/ Guest \/ Serve

Terminated ==
    /\ \/ proc \in {"crashed", "aborted"}
       \/ calls = MaxCalls /\ call = NULL
    /\ UNCHANGED vars

Spec == Init /\ [][Next \/ Terminated]_vars

------------------------------------------------------------------------------
Between(first, end) == {x \in Address : first <= x /\ x < end}

SegmentRange(p) == Between(p.vaddr, p.vaddr + p.memsz)

(***************************************************************************)
(* Memory the program was given is there: the segments loaded so far, the  *)
(* stack and the byte above it, the heap up to the break, and the mmap     *)
(* heap up to its end (loader.c, mips_syscall_brk and mips_syscall_mmap2). *)
(* brk allocates from a break that lies inside a page, mmap2 from a sum    *)
(* that can wrap.  What a single call of mmap2 gives is MmapGives.         *)
(***************************************************************************)
RangesMapped ==
    /\ \A h \in 1 .. loaded :
         phdrs[h].load => SegmentRange(phdrs[h]) \subseteq DOMAIN bytes
    /\ proc = "running" => Between(StackBottom, StackBottom + StackLen)
                              \subseteq DOMAIN bytes
    /\ Between(brk_heap_start, brk_heap_end) \subseteq DOMAIN bytes
    /\ Between(MmapStart, mmap_heap_end) \subseteq DOMAIN bytes

(***************************************************************************)
(* No segment reaches into the heap: the break starts above all of them,   *)
(* in whatever order the headers come (loader_load_segments).              *)
(***************************************************************************)
HeapAboveSegments ==
    \A h \in 1 .. loaded :
        phdrs[h].load =>
            Between(brk_heap_start, AddressCard) \cap SegmentRange(phdrs[h]) = {}

(***************************************************************************)
(* The program's name is a string when the program starts, though it is    *)
(* copied without its terminator: the random bytes above it are not zero,  *)
(* and the first that is lies at STACK_TOP, mapped and cleared because     *)
(* the stack is allocated one byte larger (loader_load_sp).                *)
(***************************************************************************)
NameEnds == proc = "running" /\ calls = 0 => IsString(NamePtr)

Returns == call # NULL /\ call' = NULL

\* The addresses a call may write.
Target ==
    CASE call.op = "read"  -> Span(call.address, call.size)
      [] call.op = "mmap2" -> Span(mmap_heap_end, PagesLen(call.size))
      [] call.op \in {"ioctl", "clock_gettime64"} ->
             Span(call.address, FieldCount)
      [] OTHER -> {}

(***************************************************************************)
(* A call changes no byte outside the range it was given or gives, unmaps  *)
(* nothing, and a region from mmap2 is zero even where the heap had grown  *)
(* over it (syscalls.h).                                                   *)
(***************************************************************************)
EffectsConfined ==
    [][Returns =>
         /\ DOMAIN bytes \subseteq DOMAIN bytes'
         /\ \A x \in DOMAIN bytes \ Target : bytes'[x] = bytes[x]
         /\ call.op = "mmap2" => \A x \in Target : bytes'[x] = 0]_vars

(***************************************************************************)
(* A region that mmap2 returns is as long as was asked for, and mapped all *)
(* along: length and end are rounded and summed in 32 bits, and either can *)
(* wrap.  A length within a page of the number of addresses is the         *)
(* exception: it rounds to 0, and the call returns an address as if it had *)
(* succeeded, the same one that the next call will return                  *)
(* (mips_syscall_mmap2).                                                   *)
(***************************************************************************)
MmapGives ==
    [][Returns /\ call.op = "mmap2" =>
         IF call.size <= AddressCard - PageSize
         THEN Span(v0', call.size) \subseteq DOMAIN bytes'
         ELSE mmap_heap_end' = mmap_heap_end]_vars

\* The bytes of the first c buffers of a writev, in their order.
Gathered(c) == FlattenSeq([i \in 1 .. c |->
                   BytesFrom(call.iovs[i].address, call.iovs[i].length)])

(***************************************************************************)
(* What a guest may conclude from v0: after read, if it is no more than    *)
(* was asked for, that the host gave that many bytes and they are at the   *)
(* start of its buffer; after write and writev, if it is the length asked  *)
(* for, that the host has all bytes in their order, though writev goes on  *)
(* after a short write and adds errors into its total (mips_syscall_read,  *)
(* mips_syscall_write, mips_syscall_writev).  The -1 of an error wraps, so *)
(* lengths as near to the number of addresses as there are calls to the    *)
(* host are left out.                                                      *)
(***************************************************************************)
TransfersExact ==
    [][Returns =>
         /\ call.op = "read" /\ v0' <= call.size /\ call.size + 1 < AddressCard =>
              /\ Len(moved') = v0'
              /\ \A k \in 1 .. v0' :
                   bytes'[Wrap(call.address + k - 1)] = moved'[k]
         /\ call.op = "write" /\ v0' = call.size /\ call.size + 1 < AddressCard =>
              moved' = BytesFrom(call.address, call.size)
         /\ LET all == Gathered(Len(call.iovs))
            IN  /\ call.op = "writev" /\ v0' = Len(all)
                /\ Len(all) + Len(call.iovs) < AddressCard
                => moved' = all]_vars
============================================================================
