-------------------------- MODULE SystemCallsProofs --------------------------
(***************************************************************************)
(* What the loader and the system calls promised the guest stays mapped,   *)
(* for every size of the address space and its pages, every executable,    *)
(* every argument and every answer of the host.                            *)
(***************************************************************************)
EXTENDS SystemCalls, TLAPS, WellFoundedInduction

(***************************************************************************)
(* A higher address is on no lower page.                                   *)
(***************************************************************************)
LEMMA PageMonotone ==
  ASSUME NEW x \in Nat, NEW y \in Nat, x <= y
  PROVE  PageOf(x) \in Nat /\ PageOf(y) \in Nat /\ PageOf(x) <= PageOf(y)
<1>1. PageSize \in Nat /\ PageSize > 0
  BY SystemCallsAssumption
<1> DEFINE p == x \div PageSize
           q == y \div PageSize
<1>2. /\ p \in Int /\ PageSize * p <= x /\ x < PageSize * p + PageSize
      /\ q \in Int /\ PageSize * q <= y /\ y < PageSize * q + PageSize
  BY <1>1
<1>3. p >= 0 /\ q >= 0
  BY <1>1
<1>4. ASSUME p > q PROVE FALSE
  <2>1. p >= q + 1
    BY <1>2, <1>4
  <2>2. PageSize * p >= PageSize * (q + 1)
    BY <1>1, <1>2, <2>1
  <2>3. PageSize * (q + 1) = PageSize * q + PageSize
    BY <1>1, <1>2
  <2> QED
    BY <1>1, <1>2, <2>2, <2>3
<1> QED
  BY <1>2, <1>3, <1>4 DEF PageOf

(***************************************************************************)
(* Numbers below the number of addresses are addresses and do not wrap;    *)
(* every other one wraps to an address.                                    *)
(***************************************************************************)
LEMMA WrapFacts ==
  /\ AddressCard \in Nat /\ AddressCard > 0
  /\ \A x \in Int : Wrap(x) \in Address
  /\ \A x \in Address : Wrap(x) = x
  /\ \A x \in Address : x \in Nat
  /\ 0 \in Address
<1>1. AddressCard \in Nat /\ AddressCard > 0
  BY SystemCallsAssumption
<1>2. ASSUME NEW x \in Int PROVE Wrap(x) \in Address
  BY <1>1 DEF Wrap, Address
<1>3. ASSUME NEW x \in Address PROVE Wrap(x) = x /\ x \in Nat
  BY <1>1 DEF Wrap, Address
<1>4. 0 \in Address
  BY <1>1 DEF Address
<1> QED
  BY <1>1, <1>2, <1>3, <1>4

(***************************************************************************)
(* memory_allocate maps a range that does not wrap, and unmaps nothing.    *)
(***************************************************************************)
LEMMA AllocatedCovers ==
  ASSUME NEW b, NEW a \in Address, NEW n \in Nat, a + n <= AddressCard
  PROVE  /\ DOMAIN b \subseteq DOMAIN Allocated(b, a, n)
         /\ Between(a, a + n) \subseteq DOMAIN Allocated(b, a, n)
<1> SUFFICES ASSUME NEW x \in Between(a, a + n)
             PROVE  x \in PagesOf(a, n)
  BY DEF Allocated
<1>1. /\ x \in Address /\ a \in Nat /\ x \in Nat
      /\ a <= x /\ x <= a + n - 1
      /\ a + n - 1 \in Address /\ a + n - 1 \in Nat
  BY WrapFacts DEF Between, Address
<1>2. PageOf(a) <= PageOf(x) /\ PageOf(x) <= PageOf(a + n - 1)
  BY <1>1, PageMonotone
<1>3. PageOf(a) \in Nat /\ PageOf(x) \in Nat /\ PageOf(a + n - 1) \in Nat
  BY <1>1, PageMonotone
<1>4. Wrap(a + n - 1) = a + n - 1
  BY <1>1, WrapFacts
<1> QED
  BY <1>1, <1>2, <1>3, <1>4 DEF PagesOf

(***************************************************************************)
(* Allocating in the address space stays in it and adds zeros.             *)
(***************************************************************************)
LEMMA AllocatedTyped ==
  ASSUME NEW b, NEW a, NEW n,
         DOMAIN b \subseteq Address, \A x \in DOMAIN b : b[x] \in Byte
  PROVE  /\ DOMAIN b \subseteq DOMAIN Allocated(b, a, n)
         /\ DOMAIN Allocated(b, a, n) \subseteq Address
         /\ \A x \in DOMAIN Allocated(b, a, n) : Allocated(b, a, n)[x] \in Byte
         /\ \A x \in DOMAIN b : Allocated(b, a, n)[x] = b[x]
BY SystemCallsAssumption DEF Allocated, PagesOf

(***************************************************************************)
(* Copying and setting change no more than their range.                    *)
(***************************************************************************)
LEMMA SetToFacts ==
  ASSUME NEW b, NEW a, NEW n, NEW v
  PROVE  /\ DOMAIN SetTo(b, a, n, v) = DOMAIN b
         /\ \A x \in DOMAIN b :
              SetTo(b, a, n, v)[x] = IF x \in Span(a, n) THEN v ELSE b[x]
BY DEF SetTo

(***************************************************************************)
(* Copying a buffer maps and unmaps nothing and changes no more than its   *)
(* range.                                                                  *)
(***************************************************************************)
LEMMA CopiedFacts ==
  ASSUME NEW b, NEW a, NEW values
  PROVE  /\ DOMAIN Copied(b, a, values) = DOMAIN b
         /\ \A x \in DOMAIN b : x \notin Span(a, Len(values)) =>
              Copied(b, a, values)[x] = b[x]
BY DEF Copied

(***************************************************************************)
(* What is copied from a buffer of bytes is bytes: the position of an      *)
(* address of the range in the buffer is in the buffer.                    *)
(***************************************************************************)
LEMMA CopiedTyped ==
  ASSUME NEW b, NEW a \in Address, NEW n \in Address, NEW values \in [1 .. n -> Byte],
         \A x \in DOMAIN b : b[x] \in Byte
  PROVE  \A x \in DOMAIN b : Copied(b, a, values)[x] \in Byte
<1>1. Len(values) = n /\ n \in Nat /\ a \in Nat
  BY WrapFacts
<1>2. ASSUME NEW x \in Span(a, n)
      PROVE  Wrap(x - a) + 1 \in 1 .. n
  <2>1. PICK k \in 0 .. n - 1 : x = Wrap(a + k)
    BY <1>2 DEF Span
  <2>2. k \in Nat /\ k < AddressCard /\ a < AddressCard /\ AddressCard \in Nat
    BY <1>1, <2>1, WrapFacts DEF Address
  <2>3. CASE a + k < AddressCard
    <3>1. x = a + k
      BY <1>1, <2>1, <2>2, <2>3 DEF Wrap
    <3>2. Wrap(x - a) = k
      BY <1>1, <2>2, <3>1 DEF Wrap
    <3> QED
      BY <1>1, <2>1, <3>2
  <2>4. CASE a + k >= AddressCard
    <3>1. x = a + k - AddressCard
      BY <1>1, <2>1, <2>2, <2>4 DEF Wrap
    <3>2. Wrap(x - a) = k
      BY <1>1, <2>2, <3>1 DEF Wrap
    <3> QED
      BY <1>1, <2>1, <3>2
  <2> QED
    BY <1>1, <2>2, <2>3, <2>4
<1> QED
  BY <1>1, <1>2 DEF Copied

------------------------------------------------------------------------------
\* The segments loaded so far end where the heap starts, or below.
SegmentsBelow ==
    \A h \in 1 .. loaded :
        phdrs[h].load => phdrs[h].vaddr + phdrs[h].memsz <= brk_heap_start

\* A call is one of those counted, and writev has its locals.
CallOK ==
    call # NULL => /\ calls > 0
                   /\ call.op = "writev" => round # NULL

IInv == TypeOK /\ CallOK /\ SegmentsBelow /\ RangesMapped /\ NameEnds

(***************************************************************************)
(* The headers of an executable.                                           *)
(***************************************************************************)
LEMMA HeaderFacts ==
  ASSUME phdrs \in Executables, NEW h \in 1 .. Len(phdrs)
  PROVE  /\ phdrs[h].load \in BOOLEAN
         /\ phdrs[h].vaddr \in Address /\ phdrs[h].vaddr \in Nat
         /\ phdrs[h].filesz \in Address /\ phdrs[h].filesz \in Nat
         /\ phdrs[h].memsz \in Address /\ phdrs[h].memsz \in Nat
         /\ phdrs[h].vaddr + phdrs[h].memsz \in Address
         /\ Len(phdrs) \in Nat
<1>1. phdrs \in Seq(Header)
  BY SystemCallsAssumption
<1>2. phdrs[h] \in Header /\ h \in DOMAIN phdrs /\ Len(phdrs) \in Nat
  BY <1>1
<1>3. /\ phdrs[h].load \in BOOLEAN /\ phdrs[h].vaddr \in Address
      /\ phdrs[h].filesz \in Address /\ phdrs[h].memsz \in Address
  BY <1>2 DEF Header
<1>4. phdrs[h].vaddr + phdrs[h].memsz < AddressCard
  BY <1>2, SystemCallsAssumption
<1>5. phdrs[h].vaddr \in Nat /\ phdrs[h].memsz \in Nat /\ phdrs[h].filesz \in Nat
  BY <1>3, WrapFacts
<1>6. AddressCard \in Nat
  BY WrapFacts
<1>7. phdrs[h].vaddr + phdrs[h].memsz \in Address
  BY <1>4, <1>5, <1>6 DEF Address
<1> QED
  BY <1>2, <1>3, <1>5, <1>7

(***************************************************************************)
(* Before the loader has done anything.                                    *)
(***************************************************************************)
LEMMA InitInv == Init => IInv
<1> SUFFICES ASSUME Init PROVE IInv
  OBVIOUS
<1>1. MmapStart \in Address /\ 0 \in Address /\ MaxCalls \in Nat
  BY SystemCallsAssumption, WrapFacts
<1>2. Len(phdrs) \in Nat /\ loaded = 0
  BY SystemCallsAssumption DEF Init
<1>3. TypeOK
  BY <1>1, <1>2 DEF Init, TypeOK
<1>4. RangesMapped
  BY <1>1, WrapFacts DEF Init, RangesMapped, Between, Address
<1> QED
  BY <1>3, <1>4 DEF Init, IInv, CallOK, SegmentsBelow, NameEnds

(***************************************************************************)
(* Ranges stay mapped while nothing is unmapped and no range moves.        *)
(***************************************************************************)
LEMMA RangesKept ==
  ASSUME RangesMapped, DOMAIN bytes \subseteq DOMAIN bytes',
         UNCHANGED <<elfVars, heapVars>>,
         proc' = "running" => proc = "running"
  PROVE  RangesMapped'
BY DEF RangesMapped, elfVars, heapVars, SegmentRange, Between

(***************************************************************************)
(* A step that only ends the process.                                      *)
(***************************************************************************)
LEMMA EndInv ==
  ASSUME IInv, NEW how \in {"crashed", "aborted"}, End(how)
  PROVE  IInv'
<1>1. RangesMapped'
  BY RangesKept DEF IInv, End
<1> QED
  BY <1>1 DEF IInv, End, TypeOK, CallOK, SegmentsBelow, NameEnds, elfVars, heapVars

(***************************************************************************)
(* A request for a system call.                                            *)
(***************************************************************************)
LEMMA RequestInv ==
  ASSUME IInv, NEW op \in Operation, NEW a \in Address, NEW n \in Address,
         NEW iovs \in Seq(Buffers), Request(op, a, n, iovs)
  PROVE  IInv'
<1>1. RangesMapped'
  BY RangesKept DEF IInv, Request
<1>2. calls' \in 0 .. MaxCalls /\ calls' > 0
  BY SystemCallsAssumption DEF IInv, TypeOK, Request
<1>3. [c |-> 0, total |-> 0] # NULL /\ round' \in [c : Nat, total : Address] \cup {NULL}
  BY SystemCallsAssumption, WrapFacts DEF Request
<1>4. TypeOK'
  BY <1>2, <1>3 DEF IInv, Request, TypeOK, elfVars, heapVars
<1> QED
  BY <1>1, <1>2, <1>3, <1>4
  DEF IInv, Request, CallOK, SegmentsBelow, NameEnds, elfVars, heapVars

\* Bytes in the address space.
BytesOK(b) == DOMAIN b \subseteq Address /\ \A x \in DOMAIN b : b[x] \in Byte

(***************************************************************************)
(* A call that returns.  What it did to the heaps and to memory is given.  *)
(***************************************************************************)
LEMMA ReturnInv ==
  ASSUME IInv, call # NULL, NEW value \in Int, Return(value),
         BytesOK(bytes'), moved' \in Seq(Byte),
         {brk_heap_start, brk_heap_end, mmap_heap_end}' \subseteq Address,
         brk_heap_start' = brk_heap_start, RangesMapped'
  PROVE  IInv'
<1>1. v0' \in Address
  BY WrapFacts DEF Return
<1>2. calls > 0
  BY DEF IInv, CallOK
<1>3. TypeOK'
  BY <1>1 DEF IInv, TypeOK, Return, elfVars, BytesOK
<1> QED
  BY <1>2, <1>3 DEF IInv, Return, CallOK, SegmentsBelow, NameEnds, elfVars, BytesOK

(***************************************************************************)
(* ... and that leaves the heaps alone.                                    *)
(***************************************************************************)
LEMMA TransferInv ==
  ASSUME IInv, call # NULL, NEW value \in Int, Return(value), UNCHANGED heapVars,
         BytesOK(bytes'), moved' \in Seq(Byte), DOMAIN bytes \subseteq DOMAIN bytes'
  PROVE  IInv'
<1>1. RangesMapped'
  BY RangesKept DEF IInv, Return
<1> QED
  BY <1>1, ReturnInv DEF IInv, TypeOK, heapVars

(***************************************************************************)
(* A host that takes part of a buffer gets bytes.                          *)
(***************************************************************************)
LEMMA PrefixTyped ==
  ASSUME NEW m \in Nat, NEW s \in [1 .. m -> Byte], NEW n \in -1 .. m
  PROVE  SubSeq(s, 1, n) \in Seq(Byte)
<1>1. s \in Seq(Byte) /\ Len(s) = m
  OBVIOUS
<1>2. CASE n < 1
  <2>1. SubSeq(s, 1, n) = <<>>
    BY <1>1, <1>2
  <2> QED
    BY <2>1
<1>3. CASE n >= 1
  BY <1>1, <1>3
<1> QED
  BY <1>2, <1>3

(***************************************************************************)
(* The bytes of a mapped buffer.                                           *)
(***************************************************************************)
LEMMA BytesFromTyped ==
  ASSUME TypeOK, NEW a \in Address, NEW n \in Address, Reaches(bytes, a, n)
  PROVE  BytesFrom(a, n) \in [1 .. n -> Byte]
<1> SUFFICES ASSUME NEW k \in 1 .. n PROVE bytes[Wrap(a + k - 1)] \in Byte
  BY DEF BytesFrom
<1>1. a \in Nat /\ n \in Nat
  BY WrapFacts
<1>2. k - 1 \in 0 .. n - 1 /\ a + k - 1 = a + (k - 1)
  BY <1>1
<1>3. Wrap(a + k - 1) \in Span(a, n)
  BY <1>2 DEF Span
<1> QED
  BY <1>3 DEF TypeOK, Reaches

(***************************************************************************)
(* The arguments of the call being served.                                 *)
(***************************************************************************)
LEMMA Arguments ==
  ASSUME IInv, call # NULL
  PROVE  /\ call.op \in Operation
         /\ call.address \in Address /\ call.address \in Nat
         /\ call.size \in Address /\ call.size \in Nat
         /\ call.iovs \in Seq(Buffers)
BY WrapFacts DEF IInv, TypeOK

(***************************************************************************)
(* read: the whole buffer is written, filled or not.                       *)
(***************************************************************************)
LEMMA ReadInv == IInv /\ Read => IInv'
<1> SUFFICES ASSUME IInv, Read PROVE IInv'
  OBVIOUS
<1>1. call # NULL
  BY DEF Read, Serving
<1>2. PICK buffer \in [1 .. call.size -> Byte], n \in -1 .. call.size :
         /\ bytes' = Copied(bytes, call.address, buffer)
         /\ moved' = SubSeq(buffer, 1, n)
         /\ Return(n)
  BY DEF Read
<1>3. n \in Int /\ moved' \in Seq(Byte)
  <2>1. call.size \in Nat
    BY <1>1, Arguments
  <2>2. SubSeq(buffer, 1, n) \in Seq(Byte)
    BY <2>1, PrefixTyped
  <2> QED
    BY <1>2, <2>1, <2>2
<1>4. DOMAIN bytes' = DOMAIN bytes
  BY <1>2, CopiedFacts
<1>5. BytesOK(bytes')
  BY <1>1, <1>2, <1>4, Arguments, CopiedTyped DEF BytesOK, IInv, TypeOK
<1> QED
  BY <1>1, <1>2, <1>3, <1>4, <1>5, TransferInv DEF Read

(***************************************************************************)
(* write: the host takes a prefix of a mapped buffer, or nothing.          *)
(***************************************************************************)
LEMMA WriteInv == IInv /\ Write => IInv'
<1> SUFFICES ASSUME IInv, Write PROVE IInv'
  OBVIOUS
<1>1. call # NULL
  BY DEF Write, Serving
<1>2. PICK n \in -1 .. call.size :
         /\ moved' = SubSeq(BytesFrom(call.address, call.size), 1, n)
         /\ Return(n)
  BY DEF Write
<1>3. BytesFrom(call.address, call.size) \in [1 .. call.size -> Byte]
  BY <1>1, Arguments, BytesFromTyped DEF Write, IInv
<1>4. n \in Int /\ moved' \in Seq(Byte)
  <2>1. call.size \in Nat
    BY <1>1, Arguments
  <2>2. SubSeq(BytesFrom(call.address, call.size), 1, n) \in Seq(Byte)
    BY <1>3, <2>1, PrefixTyped
  <2> QED
    BY <1>2, <2>1, <2>2
<1> QED
  BY <1>1, <1>2, <1>4, TransferInv DEF Write, BytesOK, IInv, TypeOK

(***************************************************************************)
(* One round of writev, whose total wraps.                                 *)
(***************************************************************************)
LEMMA WritevRoundInv == IInv /\ WritevRound => IInv'
<1> SUFFICES ASSUME IInv, WritevRound PROVE IInv'
  OBVIOUS
<1> DEFINE iov == call.iovs[round.c + 1]
<1>1. call # NULL /\ call.op = "writev" /\ round # NULL
  BY DEF WritevRound, Serving, IInv, CallOK
<1>2. round \in [c : Nat, total : Address]
  BY <1>1 DEF IInv, TypeOK
<1>3. iov \in Buffers
  <2>1. call.iovs \in Seq(Buffers) /\ round.c \in Nat /\ round.c < Len(call.iovs)
    BY <1>1, <1>2, Arguments DEF WritevRound
  <2> QED
    BY <2>1
<1>4. iov.address \in Address /\ iov.length \in Address /\ iov.length \in Nat
  BY <1>3, SystemCallsAssumption, WrapFacts
<1>5. PICK n \in -1 .. iov.length :
         /\ moved' = moved \o SubSeq(BytesFrom(iov.address, iov.length), 1, n)
         /\ round' = [c |-> round.c + 1, total |-> Wrap(Counted(iov, n))]
  BY DEF WritevRound
<1>6. SubSeq(BytesFrom(iov.address, iov.length), 1, n) \in Seq(Byte)
  <2>1. TypeOK /\ Reaches(bytes, iov.address, iov.length)
    BY DEF WritevRound, IInv
  <2> HIDE DEF iov
  <2>2. BytesFrom(iov.address, iov.length) \in [1 .. iov.length -> Byte]
    BY <1>4, <2>1, BytesFromTyped
  <2> QED
    BY <1>4, <2>2, PrefixTyped
<1>7. moved' \in Seq(Byte)
  <2>1. moved \in Seq(Byte)
    BY DEF IInv, TypeOK
  <2>2. PICK part : part = SubSeq(BytesFrom(iov.address, iov.length), 1, n)
    OBVIOUS
  <2>3. moved' = moved \o part /\ part \in Seq(Byte)
    BY <1>5, <1>6, <2>2, Zenon
  <2> QED
    BY <2>1, <2>3
<1>8. Counted(iov, n) \in Int
  BY <1>2, <1>4, WrapFacts DEF Counted
<1>9. round' \in [c : Nat, total : Address]
  <2>1. round.c + 1 \in Nat
    BY <1>2
  <2>2. Wrap(Counted(iov, n)) \in Address
    BY <1>8, WrapFacts
  <2> QED
    BY <1>5, <2>1, <2>2, Zenon
<1>10. RangesMapped'
  <2>1. RangesMapped
    BY DEF IInv
  <2>2. UNCHANGED <<elfVars, heapVars, bytes, proc>>
    BY DEF WritevRound
  <2> QED
    BY <2>1, <2>2, RangesKept
<1>11. TypeOK'
  BY <1>7, <1>9 DEF WritevRound, IInv, TypeOK, elfVars, heapVars
<1>12. round' # NULL
  BY <1>9, SystemCallsAssumption
<1>13. UNCHANGED <<phdrs, loaded, bytes, brk_heap_start, brk_heap_end,
                   mmap_heap_end, call, calls, proc>>
  BY DEF WritevRound, elfVars, heapVars
<1> QED
  BY <1>1, <1>10, <1>11, <1>12, <1>13 DEF IInv, CallOK, SegmentsBelow, NameEnds

(***************************************************************************)
(* The calls that return without touching the heaps: writev at its end,    *)
(* open, and the two that fill a structure.                                *)
(***************************************************************************)
LEMMA QuietReturnInv ==
  ASSUME IInv, call # NULL, NEW value \in Int, Return(value),
         UNCHANGED <<bytes, heapVars, moved>>
  PROVE  IInv'
BY TransferInv DEF IInv, TypeOK, BytesOK

(***************************************************************************)
(* A structure filled by the host.                                         *)
(***************************************************************************)
LEMMA FillStructInv ==
  ASSUME IInv, call # NULL, FillStruct
  PROVE  IInv'
<1>1. PICK fields \in [1 .. FieldCount -> Byte] :
         bytes' = Copied(bytes, call.address, fields)
  BY DEF FillStruct
<1>2. FieldCount \in Address
  BY SystemCallsAssumption
<1>3. DOMAIN bytes' = DOMAIN bytes
  BY <1>1, CopiedFacts
<1>4. BytesOK(bytes')
  BY <1>1, <1>2, <1>3, Arguments, CopiedTyped DEF BytesOK, IInv, TypeOK
<1>5. moved' \in Seq(Byte)
  BY DEF FillStruct, IInv, TypeOK
<1> QED
  BY <1>3, <1>4, <1>5, TransferInv DEF FillStruct

(***************************************************************************)
(* The calls that end in one of these two ways.                            *)
(***************************************************************************)
LEMMA StructInv == IInv /\ (WritevReturn \/ Open \/ Ioctl \/ ClockGettime) => IInv'
<1>1. ASSUME IInv, WritevReturn PROVE IInv'
  <2>1. call # NULL /\ round.total \in Int
    BY <1>1, WrapFacts DEF WritevReturn, Serving, IInv, CallOK, TypeOK
  <2> QED
    BY <1>1, <2>1, QuietReturnInv DEF WritevReturn
<1>2. ASSUME IInv, Open PROVE IInv'
  BY <1>2, QuietReturnInv DEF Open, Serving
<1>3. ASSUME IInv, Ioctl PROVE IInv'
  BY <1>3, QuietReturnInv, FillStructInv DEF Ioctl, Serving, HostRefuses
<1>4. ASSUME IInv, ClockGettime PROVE IInv'
  BY <1>4, QuietReturnInv, FillStructInv DEF ClockGettime, Serving, HostRefuses
<1> QED
  BY <1>1, <1>2, <1>3, <1>4

(***************************************************************************)
(* brk maps from the old break to the new one, so nothing between the      *)
(* start of the heap and the new break is left out.                        *)
(***************************************************************************)
LEMMA BrkInv == IInv /\ Brk => IInv'
<1> SUFFICES ASSUME IInv, Brk PROVE IInv'
  OBVIOUS
<1> DEFINE brk == call.address
           old == brk_heap_end
<1>1. call # NULL /\ moved' = moved
      /\ brk_heap_start' = brk_heap_start /\ mmap_heap_end' = mmap_heap_end
  BY DEF Brk, Serving
<1>2. /\ brk \in Address /\ brk \in Nat /\ old \in Address /\ old \in Nat
      /\ brk_heap_start \in Nat /\ mmap_heap_end \in Address
  BY <1>1, Arguments, WrapFacts DEF IInv, TypeOK
<1>3. CASE brk > old
  <2>1. /\ bytes' = Allocated(bytes, old, brk - old) /\ brk_heap_end' = brk
        /\ Return(brk)
    BY <1>3 DEF Brk
  <2>2. brk - old \in Nat /\ old + (brk - old) = brk /\ brk <= AddressCard
    BY <1>2, <1>3, WrapFacts DEF Address
  <2>3. /\ DOMAIN bytes \subseteq DOMAIN bytes'
        /\ Between(old, brk) \subseteq DOMAIN bytes'
    BY <1>2, <2>1, <2>2, AllocatedCovers
  <2>4. BytesOK(bytes')
    BY <2>1, AllocatedTyped DEF IInv, TypeOK, BytesOK
  <2>5. ASSUME NEW x \in Between(brk_heap_start, brk) PROVE x \in DOMAIN bytes'
    <3>1. x \in Address /\ x \in Nat /\ brk_heap_start <= x /\ x < brk
      BY <2>5, WrapFacts DEF Between
    <3>2. CASE x < old
      BY <3>1, <3>2, <2>3 DEF Between, IInv, RangesMapped
    <3>3. CASE old <= x
      BY <3>1, <3>3, <2>3 DEF Between
    <3> QED
      BY <1>2, <3>1, <3>2, <3>3
  <2>6. RangesMapped'
    BY <1>1, <2>1, <2>3, <2>5 DEF IInv, RangesMapped, Return, elfVars, SegmentRange, Between
  <2>7. moved' \in Seq(Byte)
    BY <1>1 DEF IInv, TypeOK
  <2>8. {brk_heap_start, brk_heap_end, mmap_heap_end}' \subseteq Address
    BY <1>1, <1>2, <2>1 DEF IInv, TypeOK
  <2> QED
    BY <1>1, <1>2, <2>1, <2>4, <2>6, <2>7, <2>8, ReturnInv
<1>4. CASE ~ (brk > old)
  BY <1>1, <1>2, <1>4, QuietReturnInv DEF Brk, heapVars
<1> QED
  BY <1>3, <1>4

(***************************************************************************)
(* The rounded length of mmap2 is a length, and it can have wrapped to 0.  *)
(***************************************************************************)
LEMMA PagesLenTyped ==
  ASSUME NEW n \in Address
  PROVE  PagesLen(n) \in Address /\ PagesLen(n) \in Nat
<1> DEFINE m == Wrap(n + PageSize - 1)
<1>1. PageSize \in Nat /\ PageSize > 0 /\ n \in Nat
  BY SystemCallsAssumption, WrapFacts
<1>2. n + PageSize - 1 \in Int
  BY <1>1
<1>3. m \in Address /\ m \in Nat
  BY <1>2, WrapFacts
<1> HIDE DEF m
<1>4. m % PageSize \in Nat /\ m % PageSize <= m
  BY <1>1, <1>3
<1>5. m - (m % PageSize) \in Address
  BY <1>3, <1>4, WrapFacts DEF Address
<1> QED
  BY <1>5, WrapFacts DEF PagesLen, m

(***************************************************************************)
(* mmap2 maps what it gives out.  When the sum wraps and still passes the  *)
(* check, the end of the region moves down, and only what was mapped       *)
(* before lies below it.                                                   *)
(***************************************************************************)
LEMMA Mmap2Inv == IInv /\ Mmap2 => IInv'
<1> SUFFICES ASSUME IInv, Mmap2 PROVE IInv'
  OBVIOUS
<1> DEFINE len == PagesLen(call.size)
           target == mmap_heap_end
           mapped == Allocated(bytes, target, len)
<1>1. /\ call # NULL /\ moved' = moved
      /\ brk_heap_start' = brk_heap_start /\ brk_heap_end' = brk_heap_end
      /\ bytes' = Cleared(mapped, target, len)
      /\ mmap_heap_end' = Wrap(target + len) /\ Return(target)
  BY DEF Mmap2, Serving
<1>2. /\ len \in Address /\ len \in Nat /\ target \in Address /\ target \in Nat
      /\ MmapStart \in Nat
  BY <1>1, Arguments, WrapFacts, PagesLenTyped, SystemCallsAssumption DEF IInv, TypeOK
<1> HIDE DEF len
<1>3. DOMAIN bytes' = DOMAIN mapped
  BY <1>1, SetToFacts DEF Cleared
<1>4. BytesOK(mapped) /\ DOMAIN bytes \subseteq DOMAIN mapped
  BY AllocatedTyped DEF IInv, TypeOK, BytesOK
<1>5. BytesOK(bytes')
  BY <1>1, <1>3, <1>4, SetToFacts, SystemCallsAssumption DEF BytesOK, Cleared
<1>6. ASSUME NEW x \in Between(MmapStart, mmap_heap_end') PROVE x \in DOMAIN bytes'
  <2>1. x \in Address /\ x \in Nat /\ MmapStart <= x /\ x < Wrap(target + len)
    BY <1>1, <1>6, WrapFacts DEF Between
  <2>2. CASE x < target
    BY <1>3, <1>4, <2>1, <2>2 DEF IInv, RangesMapped, Between
  <2>3. CASE x >= target
    <3>1. target + len < AddressCard
      <4> SUFFICES ASSUME target + len >= AddressCard PROVE FALSE
        BY <1>2, WrapFacts
      <4>1. target < AddressCard /\ len < AddressCard /\ AddressCard \in Nat
        BY <1>2, WrapFacts DEF Address
      <4>2. Wrap(target + len) = target + len - AddressCard
        BY <1>2, <4>1 DEF Wrap
      <4> QED
        BY <1>2, <2>1, <2>3, <4>1, <4>2
    <3>2. Wrap(target + len) = target + len /\ target + len <= AddressCard
      BY <1>2, <3>1, WrapFacts DEF Address
    <3>3. Between(target, target + len) \subseteq DOMAIN mapped
      BY <1>2, <3>2, AllocatedCovers
    <3> QED
      BY <1>3, <2>1, <2>3, <3>2, <3>3 DEF Between
  <2> QED
    BY <1>2, <2>1, <2>2, <2>3
<1>7. RangesMapped'
  BY <1>1, <1>3, <1>4, <1>6 DEF IInv, RangesMapped, Return, elfVars, SegmentRange, Between
<1>8. {brk_heap_start, brk_heap_end, mmap_heap_end}' \subseteq Address
  BY <1>1, <1>2, WrapFacts DEF IInv, TypeOK
<1>9. moved' \in Seq(Byte)
  BY <1>1 DEF IInv, TypeOK
<1> QED
  BY <1>1, <1>2, <1>5, <1>7, <1>8, <1>9, ReturnInv

------------------------------------------------------------------------------
(***************************************************************************)
(* The loader.  A header that is skipped or a loader that gives up.        *)
(***************************************************************************)
LEMMA SkipHeaderInv == IInv /\ SkipHeader => IInv'
<1> SUFFICES ASSUME IInv, SkipHeader PROVE IInv'
  OBVIOUS
<1>1. loaded \in Nat /\ Len(phdrs) \in Nat /\ loaded < Len(phdrs)
      /\ loaded' = loaded + 1 /\ ~phdrs[loaded + 1].load
  BY SystemCallsAssumption DEF SkipHeader, Loading, IInv, TypeOK
<1>2. \A h \in 1 .. loaded' : h \in 1 .. loaded \/ h = loaded + 1
  BY <1>1
<1>3. TypeOK'
  BY <1>1 DEF SkipHeader, IInv, TypeOK, heapVars
<1>4. SegmentsBelow'
  BY <1>1, <1>2 DEF SkipHeader, IInv, SegmentsBelow, heapVars
<1>5. RangesMapped'
  BY <1>1, <1>2 DEF SkipHeader, Loading, IInv, RangesMapped, SegmentRange, Between, heapVars
<1> QED
  BY <1>3, <1>4, <1>5 DEF SkipHeader, Loading, IInv, CallOK, NameEnds

(***************************************************************************)
(* A segment is mapped whole, and the heap is empty and above it after.    *)
(***************************************************************************)
LEMMA LoadSegmentInv == IInv /\ LoadSegment => IInv'
<1> SUFFICES ASSUME IInv, LoadSegment PROVE IInv'
  OBVIOUS
<1> DEFINE p == phdrs[loaded + 1]
           end == p.vaddr + p.memsz
           mapped == Allocated(bytes, p.vaddr, p.memsz)
           zeroed == SetTo(mapped, p.vaddr, p.memsz, 0)
<1>1. loaded \in Nat /\ Len(phdrs) \in Nat /\ loaded < Len(phdrs)
      /\ loaded' = loaded + 1 /\ phdrs' = phdrs /\ proc' = proc /\ proc = "loading"
      /\ mmap_heap_end' = mmap_heap_end
  BY SystemCallsAssumption DEF LoadSegment, Loading, IInv, TypeOK
<1>2. loaded + 1 \in 1 .. Len(phdrs) /\ phdrs \in Executables
  BY <1>1 DEF IInv, TypeOK
<1>3. /\ p.vaddr \in Address /\ p.memsz \in Nat /\ end \in Address /\ end \in Nat
      /\ Wrap(end) = end /\ end <= AddressCard
  <2>1. /\ p.vaddr \in Address /\ p.memsz \in Nat /\ end \in Address
    BY <1>2, HeaderFacts
  <2> HIDE DEF p, end
  <2> QED
    BY <2>1, WrapFacts DEF Address
<1>4. bytes' = SetTo(zeroed, p.vaddr, p.filesz, 1) /\ HeapAbove(end)
  BY <1>3 DEF LoadSegment
<1>5. DOMAIN bytes' = DOMAIN mapped /\ DOMAIN zeroed = DOMAIN mapped
  BY <1>4, SetToFacts
<1>6. BytesOK(mapped) /\ DOMAIN bytes \subseteq DOMAIN mapped
  BY AllocatedTyped DEF IInv, TypeOK, BytesOK
<1>7. BytesOK(zeroed)
  BY <1>5, <1>6, SetToFacts, SystemCallsAssumption DEF BytesOK
<1>8. BytesOK(bytes')
  <2> HIDE DEF p, mapped, zeroed
  <2> QED
    BY <1>4, <1>5, <1>7, SetToFacts, SystemCallsAssumption DEF BytesOK
<1>9. Between(p.vaddr, end) \subseteq DOMAIN bytes'
  BY <1>3, <1>5, AllocatedCovers
<1>10. brk_heap_start \in Address /\ brk_heap_end \in Address /\ brk_heap_start \in Nat
  BY WrapFacts DEF IInv, TypeOK
<1>11. /\ {brk_heap_start, brk_heap_end}' \subseteq Address
       /\ brk_heap_start' >= brk_heap_start /\ brk_heap_start' >= end
       /\ \/ brk_heap_start' = brk_heap_start /\ brk_heap_end' = brk_heap_end
          \/ brk_heap_start' = end /\ brk_heap_end' = end
  BY <1>3, <1>4, <1>10 DEF HeapAbove
<1>12. \A h \in 1 .. loaded' : h \in 1 .. loaded \/ h = loaded + 1
  BY <1>1
<1>13. TypeOK'
  <2>1. UNCHANGED <<phdrs, mmap_heap_end, call, round, moved, v0, calls, proc>>
    BY DEF LoadSegment
  <2>2. loaded' \in 0 .. Len(phdrs)
    BY <1>1
  <2> HIDE DEF end
  <2> QED
    BY <1>8, <1>11, <2>1, <2>2 DEF IInv, TypeOK, BytesOK
<1>14. SegmentsBelow'
  <2> SUFFICES ASSUME NEW h \in 1 .. loaded', phdrs[h].load
               PROVE  phdrs[h].vaddr + phdrs[h].memsz <= brk_heap_start'
    BY <1>1 DEF SegmentsBelow
  <2>1. CASE h = loaded + 1
    BY <1>3, <1>10, <1>11, <2>1
  <2>2. CASE h \in 1 .. loaded
    <3>1. h \in 1 .. Len(phdrs)
      BY <1>1
    <3>2. phdrs[h].vaddr + phdrs[h].memsz \in Address
      BY <1>2, <3>1, HeaderFacts
    <3>3. phdrs[h].vaddr + phdrs[h].memsz <= brk_heap_start
      BY <2>2 DEF IInv, SegmentsBelow
    <3>4. phdrs[h].vaddr + phdrs[h].memsz \in Nat /\ brk_heap_start' \in Nat
      BY <1>11, <3>2, WrapFacts
    <3> QED
      BY <1>10, <1>11, <3>3, <3>4
  <2> QED
    BY <1>12, <2>1, <2>2
<1>15. \A h \in 1 .. loaded' :
         phdrs[h].load => SegmentRange(phdrs[h]) \subseteq DOMAIN bytes'
  BY <1>5, <1>6, <1>9, <1>12 DEF IInv, RangesMapped, SegmentRange
<1>16. Between(brk_heap_start', brk_heap_end') \subseteq DOMAIN bytes'
  <2>1. CASE brk_heap_start' = brk_heap_start /\ brk_heap_end' = brk_heap_end
    BY <1>5, <1>6, <2>1 DEF IInv, RangesMapped
  <2>2. CASE brk_heap_start' = end /\ brk_heap_end' = end
    BY <1>3, <2>2, WrapFacts DEF Between
  <2> QED
    BY <1>11, <2>1, <2>2
<1>17. RangesMapped'
  BY <1>1, <1>5, <1>6, <1>15, <1>16 DEF IInv, RangesMapped, SegmentRange, Between
<1> QED
  BY <1>1, <1>13, <1>14, <1>17 DEF LoadSegment, IInv, CallOK, NameEnds

(***************************************************************************)
(* Where the stack and the data on it lie.                                 *)
(***************************************************************************)
LEMMA StackFacts ==
  /\ UserTop \in Address /\ UserTop \in Nat
  /\ StackBottom \in Address /\ StackBottom \in Nat
  /\ StackLen \in Nat /\ StackBottom + StackLen = UserTop + 1
  /\ StackBottom + StackLen <= AddressCard
  /\ NamePtr \in Nat /\ StackBottom <= NamePtr
  /\ NamePtr - VectorSize \in Address
  /\ NamePtr + (NameSize + RandomSize) = UserTop
  /\ NameSize \in Nat /\ RandomSize \in Nat /\ VectorSize \in Nat /\ StackSize \in Nat
  /\ NameSize + RandomSize \in Address
  /\ VectorSize + (NameSize + RandomSize) \in Address
<1>1. /\ NameSize \in Nat /\ RandomSize \in Nat /\ VectorSize \in Nat /\ StackSize \in Nat
      /\ UserTop \in Address /\ StackSize <= UserTop
      /\ NameSize + RandomSize + VectorSize <= StackSize
  BY SystemCallsAssumption
<1>2. UserTop \in Nat /\ UserTop < AddressCard /\ AddressCard \in Nat
  BY <1>1, WrapFacts DEF Address
<1>3. \A x \in Int : 0 <= x /\ x <= UserTop => x \in Address
  BY <1>2 DEF Address
<1> QED
  BY <1>1, <1>2, <1>3 DEF StackBottom, StackLen, NamePtr

(***************************************************************************)
(* The stack is mapped with the byte above it, which stays zero because    *)
(* the data ends below it: so the name is a string.                        *)
(***************************************************************************)
LEMMA LoadStackInv == IInv /\ LoadStack => IInv'
<1> SUFFICES ASSUME IInv, LoadStack PROVE IInv'
  OBVIOUS
<1> DEFINE mapped == Allocated(bytes, StackBottom, StackLen)
           zeroed == SetTo(mapped, StackBottom, StackLen, 0)
           n == NameSize + RandomSize
           m == VectorSize + n
           sp == NamePtr - VectorSize
           ones == [k \in 1 .. n |-> 1]
<1>1. PICK vector \in [1 .. VectorSize -> Byte] :
         bytes' = Copied(zeroed, sp, vector \o ones)
  BY DEF LoadStack
<1>2. ones \in [1 .. n -> Byte]
  BY SystemCallsAssumption
<1>3. vector \in Seq(Byte) /\ Len(vector) = VectorSize
      /\ ones \in Seq(Byte) /\ Len(ones) = n /\ n \in Nat
  BY <1>1, <1>2, StackFacts
<1> DEFINE data == vector \o ones
<1>4. data \in Seq(Byte) /\ Len(data) = m
  BY <1>3
<1>5. data \in [1 .. m -> Byte]
  <2> HIDE DEF data
  <2>1. data \in [1 .. Len(data) -> Byte]
    BY <1>4
  <2> QED
    BY <1>4, <2>1
<1> HIDE DEF data
<1>6. DOMAIN zeroed = DOMAIN mapped /\ DOMAIN bytes' = DOMAIN mapped
  BY <1>1, SetToFacts, CopiedFacts
<1>7. BytesOK(mapped) /\ DOMAIN bytes \subseteq DOMAIN mapped
  BY AllocatedTyped DEF IInv, TypeOK, BytesOK
<1>8. BytesOK(zeroed)
  BY <1>6, <1>7, SetToFacts, SystemCallsAssumption DEF BytesOK
<1>9. m \in Address /\ sp \in Address /\ sp \in Nat
  BY StackFacts, WrapFacts
<1>10. bytes' = Copied(zeroed, sp, data)
  BY <1>1 DEF data
<1>11. \A x \in DOMAIN zeroed : bytes'[x] \in Byte
  BY <1>5, <1>8, <1>9, <1>10, CopiedTyped DEF BytesOK
<1>12. BytesOK(bytes')
  BY <1>6, <1>7, <1>11 DEF BytesOK
<1>13. Between(StackBottom, StackBottom + StackLen) \subseteq DOMAIN bytes'
  BY <1>6, StackFacts, AllocatedCovers
<1>14. UserTop \notin Span(sp, m)
  <2> SUFFICES ASSUME NEW k \in 0 .. m - 1 PROVE Wrap(sp + k) # UserTop
    BY DEF Span
  <2>1. sp + k \in Nat /\ sp + k < UserTop
    BY <1>9, StackFacts
  <2>2. sp + k \in Address
    BY <2>1, StackFacts, WrapFacts DEF Address
  <2> QED
    BY <2>1, <2>2, StackFacts, WrapFacts
<1>15. UserTop \in Span(StackBottom, StackLen)
  <2>1. StackSize \in 0 .. StackLen - 1 /\ StackBottom + StackSize = UserTop
    BY StackFacts DEF StackLen, StackBottom
  <2> QED
    BY <2>1, StackFacts, WrapFacts DEF Span
<1>16. UserTop \in DOMAIN bytes'
  BY <1>13, StackFacts DEF Between
<1>17. bytes'[UserTop] = 0
  <2>1. zeroed[UserTop] = 0
    BY <1>6, <1>15, <1>16, SetToFacts
  <2> QED
    BY <1>4, <1>6, <1>10, <1>14, <1>16, <2>1, CopiedFacts
<1>18. Reaches(bytes', NamePtr, n + 1)
  <2> SUFFICES ASSUME NEW k \in 0 .. n PROVE Wrap(NamePtr + k) \in DOMAIN bytes'
    BY <1>3 DEF Reaches, Span
  <2>1. /\ NamePtr + k \in Nat /\ StackBottom <= NamePtr + k
        /\ NamePtr + k <= UserTop
    BY <1>3, StackFacts
  <2>2. NamePtr + k \in Address
    BY <2>1, StackFacts, WrapFacts DEF Address
  <2> QED
    BY <1>13, <2>1, <2>2, StackFacts, WrapFacts DEF Between
<1>19. IsString(NamePtr)'
  BY <1>17, <1>18, StackFacts, WrapFacts DEF IsString
<1>20. NameEnds'
  BY <1>19 DEF NameEnds, IsString, NamePtr
<1>21. TypeOK'
  BY <1>12 DEF LoadStack, IInv, TypeOK, BytesOK, elfVars, heapVars
<1>22. RangesMapped'
  BY <1>6, <1>7, <1>13
  DEF LoadStack, IInv, RangesMapped, SegmentRange, Between, StackBottom, StackLen,
      elfVars, heapVars
<1> QED
  BY <1>20, <1>21, <1>22
  DEF LoadStack, IInv, CallOK, SegmentsBelow, elfVars, heapVars

(***************************************************************************)
(* The loader gives up.                                                    *)
(***************************************************************************)
LEMMA LoaderAbortsInv == IInv /\ LoaderAborts => IInv'
BY EndInv DEF LoaderAborts, End

------------------------------------------------------------------------------
(***************************************************************************)
(* What a guest can store for writev is a sequence of buffers.             *)
(***************************************************************************)
LEMMA VectorTyped ==
  ASSUME NEW iovs \in BoundedSeq(Buffers, MaxIovs)
  PROVE  iovs \in Seq(Buffers)
<1> MaxIovs \in Nat
  BY SystemCallsAssumption
<1>1. PICK i \in 0 .. MaxIovs : iovs \in [1 .. i -> Buffers]
  BY DEF BoundedSeq, SeqOf
<1> QED
  BY <1>1

(***************************************************************************)
(* The guest's requests carry buffers and sizes of the address space.      *)
(***************************************************************************)
LEMMA GuestInv == IInv /\ Guest => IInv'
<1> SUFFICES ASSUME IInv, Guest PROVE IInv'
  OBVIOUS
<1>1. \A b \in Buffers : b.address \in Address /\ b.length \in Address
  BY SystemCallsAssumption
<1>2. Sizes \subseteq Address /\ 0 \in Address /\ <<>> \in Seq(Buffers)
  BY SystemCallsAssumption, WrapFacts
<1>3. CASE RequestSpace
  <2>1. PICK n \in Sizes : \/ Request("brk", n, 0, <<>>)
                           \/ \E b \in Buffers : Request("mmap2", b.address, n, <<>>)
    BY <1>3 DEF RequestSpace
  <2>2. n \in Address
    BY <1>2
  <2>3. CASE Request("brk", n, 0, <<>>)
    BY <1>2, <2>2, <2>3, RequestInv DEF Operation
  <2>4. ASSUME NEW b \in Buffers, Request("mmap2", b.address, n, <<>>)
        PROVE  IInv'
    BY <1>1, <1>2, <2>2, <2>4, RequestInv DEF Operation
  <2> QED
    BY <2>1, <2>3, <2>4
<1>4. CASE RequestTransfer
  BY <1>1, <1>2, <1>4, RequestInv DEF RequestTransfer, Operation
<1>5. CASE RequestStruct
  BY <1>1, <1>2, <1>5, RequestInv DEF RequestStruct, Operation
<1>6. CASE RequestVector
  <2>1. PICK b \in Buffers, iovs \in BoundedSeq(Buffers, MaxIovs) :
            Request("writev", b.address, 0, iovs)
    BY <1>6 DEF RequestVector
  <2>2. iovs \in Seq(Buffers)
    BY <2>1, VectorTyped
  <2> QED
    BY <1>1, <1>2, <2>1, <2>2, RequestInv DEF Operation
<1> QED
  BY <1>3, <1>4, <1>5, <1>6 DEF Guest

(***************************************************************************)
(* Every step of the loader, the guest and the calls.                      *)
(***************************************************************************)
LEMMA NextInv == IInv /\ [Next \/ Terminated]_vars => IInv'
<1> SUFFICES ASSUME IInv, [Next \/ Terminated]_vars PROVE IInv'
  OBVIOUS
<1>1. CASE Loader
  BY <1>1, SkipHeaderInv, LoadSegmentInv, LoadStackInv, LoaderAbortsInv DEF Loader
<1>2. CASE Guest
  BY <1>2, GuestInv
<1>3. CASE IoctlAborts \/ Mmap2Aborts \/ Crash
  BY <1>3, EndInv DEF IoctlAborts, Mmap2Aborts, Crash
<1>4. CASE Serve /\ ~(IoctlAborts \/ Mmap2Aborts \/ Crash)
  BY <1>4, ReadInv, WriteInv, WritevRoundInv, StructInv, BrkInv, Mmap2Inv DEF Serve
<1>5. CASE UNCHANGED vars
  BY <1>5 DEF vars, elfVars, heapVars, IInv, TypeOK, CallOK, SegmentsBelow,
              RangesMapped, NameEnds, SegmentRange, Between, IsString, Reaches, Span
<1> QED
  BY <1>1, <1>2, <1>3, <1>4, <1>5 DEF Next, Terminated

(***************************************************************************)
(* The invariant holds in every state.                                     *)
(***************************************************************************)
THEOREM Invariance == Spec => []IInv
BY InitInv, NextInv, PTL DEF Spec

(***************************************************************************)
(* Every state is typed: bytes are bytes of the address space, heap ends   *)
(* and results are words, whatever the host answers (syscalls.h).          *)
(***************************************************************************)
THEOREM TypeCorrect == Spec => []TypeOK
<1>1. IInv => TypeOK
  BY DEF IInv
<1> QED
  BY <1>1, Invariance, PTL

(***************************************************************************)
(* Memory the program was given is there: segments, stack, the heap up to  *)
(* the break and the mmap heap up to its end, for any lengths and any      *)
(* order of calls (loader.c, mips_syscall_brk, mips_syscall_mmap2).        *)
(***************************************************************************)
THEOREM RangesStayMapped == Spec => []RangesMapped
<1>1. IInv => RangesMapped
  BY DEF IInv
<1> QED
  BY <1>1, Invariance, PTL

(***************************************************************************)
(* The break never starts inside a segment, in whatever order an           *)
(* executable lists them (loader_load_segments).                           *)
(***************************************************************************)
THEOREM HeapStartsAbove == Spec => []HeapAboveSegments
<1>1. IInv => HeapAboveSegments
  <2> SUFFICES ASSUME IInv, NEW h \in 1 .. loaded, phdrs[h].load,
                      NEW x \in Address, brk_heap_start <= x,
                      x < phdrs[h].vaddr + phdrs[h].memsz
               PROVE  FALSE
    BY DEF HeapAboveSegments, SegmentRange, Between
  <2>1. phdrs \in Executables /\ loaded \in 0 .. Len(phdrs) /\ Len(phdrs) \in Nat
    BY SystemCallsAssumption DEF IInv, TypeOK
  <2>2. h \in 1 .. Len(phdrs)
    BY <2>1
  <2>3. phdrs[h].vaddr \in Nat /\ phdrs[h].memsz \in Nat
    BY <2>1, <2>2, HeaderFacts
  <2>4. phdrs[h].vaddr + phdrs[h].memsz <= brk_heap_start
    BY DEF IInv, SegmentsBelow
  <2>5. x \in Nat /\ brk_heap_start \in Nat
    BY WrapFacts DEF IInv, TypeOK
  <2> QED
    BY <2>3, <2>4, <2>5
<1> QED
  BY <1>1, Invariance, PTL

(***************************************************************************)
(* The program's name is a string when the program starts, for every size  *)
(* of the stack and of what lies on it (loader_load_sp).                   *)
(***************************************************************************)
THEOREM NameIsString == Spec => []NameEnds
<1>1. IInv => NameEnds
  BY DEF IInv
<1> QED
  BY <1>1, Invariance, PTL

\* What EffectsConfined asks of a step that returns from a call.
Confined ==
    /\ DOMAIN bytes \subseteq DOMAIN bytes'
    /\ \A x \in DOMAIN bytes \ Target : bytes'[x] = bytes[x]
    /\ call.op = "mmap2" => \A x \in Target : bytes'[x] = 0

(***************************************************************************)
(* Only the calls' own steps return, and each stays in its range.          *)
(***************************************************************************)
LEMMA ReturnsConfined == IInv /\ [Next \/ Terminated]_vars /\ Returns => Confined
<1> SUFFICES ASSUME IInv, [Next \/ Terminated]_vars, Returns PROVE Confined
  OBVIOUS
<1>1. call # NULL /\ call' # call
  BY DEF Returns
<1>2. ~(UNCHANGED vars \/ Guest \/ Loader)
  BY <1>1 DEF vars, Guest, RequestSpace, RequestTransfer, RequestStruct, RequestVector,
              Request, Loader, SkipHeader, LoadSegment, LoadStack, LoaderAborts
<1>3. ~(WritevRound \/ IoctlAborts \/ Mmap2Aborts \/ Crash)
  BY <1>1 DEF WritevRound, IoctlAborts, Mmap2Aborts, Crash, End
<1>4. Read \/ Write \/ WritevReturn \/ Open \/ Ioctl \/ ClockGettime \/ Brk \/ Mmap2
  BY <1>2, <1>3 DEF Next, Terminated, Serve
<1>5. CASE Read
  <2>1. call.op = "read"
    BY <1>5 DEF Read, Serving
  <2>2. Target = Span(call.address, call.size)
    BY <2>1 DEF Target
  <2>3. PICK buffer \in [1 .. call.size -> Byte] :
           bytes' = Copied(bytes, call.address, buffer)
    BY <1>5 DEF Read
  <2>4. Len(buffer) = call.size
    BY <1>1, Arguments
  <2> QED
    BY <2>1, <2>2, <2>3, <2>4, CopiedFacts DEF Confined
<1>6. CASE Write \/ WritevReturn \/ Open
  BY <1>6 DEF Write, WritevReturn, Open, Serving, Confined
<1>7. CASE Ioctl \/ ClockGettime
  <2>1. call.op \in {"ioctl", "clock_gettime64"}
    BY <1>7 DEF Ioctl, ClockGettime, Serving
  <2>2. Target = Span(call.address, FieldCount)
    BY <2>1 DEF Target
  <2>3. CASE FillStruct
    <3>1. PICK fields \in [1 .. FieldCount -> Byte] :
             bytes' = Copied(bytes, call.address, fields)
      BY <2>3 DEF FillStruct
    <3>2. Len(fields) = FieldCount
      BY SystemCallsAssumption, WrapFacts
    <3> QED
      BY <2>1, <2>2, <3>1, <3>2, CopiedFacts DEF Confined
  <2>4. CASE bytes' = bytes
    BY <2>1, <2>4 DEF Confined
  <2> QED
    BY <1>7, <2>3, <2>4 DEF Ioctl, ClockGettime, HostRefuses
<1>8. CASE Brk
  <2>1. call.op = "brk"
    BY <1>8 DEF Brk, Serving
  <2>2. bytes' = bytes \/ bytes' = Allocated(bytes, brk_heap_end, call.address - brk_heap_end)
    BY <1>8 DEF Brk
  <2> QED
    BY <2>1, <2>2, AllocatedTyped DEF Confined, IInv, TypeOK
<1>9. CASE Mmap2
  <2> DEFINE len == PagesLen(call.size)
             target == mmap_heap_end
             mapped == Allocated(bytes, target, len)
  <2>1. call.op = "mmap2" /\ Reaches(mapped, target, len)
        /\ bytes' = SetTo(mapped, target, len, 0)
    BY <1>9 DEF Mmap2, Serving, Cleared
  <2>2. Target = Span(target, len)
    BY <2>1 DEF Target
  <2>3. DOMAIN bytes \subseteq DOMAIN mapped
        /\ \A x \in DOMAIN bytes : mapped[x] = bytes[x]
    BY AllocatedTyped DEF IInv, TypeOK
  <2>4. /\ DOMAIN bytes' = DOMAIN mapped
        /\ \A x \in DOMAIN mapped :
             bytes'[x] = IF x \in Span(target, len) THEN 0 ELSE mapped[x]
    BY <2>1, SetToFacts
  <2> QED
    BY <2>1, <2>2, <2>3, <2>4 DEF Confined, Reaches
<1> QED
  BY <1>4, <1>5, <1>6, <1>7, <1>8, <1>9

(***************************************************************************)
(* No call changes a byte outside its range or unmaps one, and mmap2's     *)
(* regions are zero even where the heap had grown over them (syscalls.h).  *)
(***************************************************************************)
THEOREM EffectsStayConfined == Spec => EffectsConfined
<1>1. IInv /\ [Next \/ Terminated]_vars => [Returns => Confined]_vars
  BY ReturnsConfined
<1>2. [][Returns => Confined]_vars => EffectsConfined
  BY PTL DEF EffectsConfined, Confined
<1> QED
  BY <1>1, <1>2, Invariance, PTL DEF Spec
(***************************************************************************)
(* Rounding up to pages gives at least the length, unless the sum wraps:   *)
(* then it gives nothing.                                                  *)
(***************************************************************************)
LEMMA PagesLenCovers ==
  ASSUME NEW n \in Address
  PROVE  IF n <= AddressCard - PageSize THEN n <= PagesLen(n) ELSE PagesLen(n) = 0
<1> DEFINE m == Wrap(n + PageSize - 1)
<1>1. /\ PageSize \in Nat /\ PageSize > 0 /\ n \in Nat
      /\ AddressCard \in Nat /\ n < AddressCard
  BY SystemCallsAssumption, WrapFacts DEF Address
<1>2. PageSize <= AddressCard
  <2> SUFFICES ASSUME PageSize > AddressCard PROVE FALSE
    BY <1>1
  <2>1. AddressCard % PageSize = AddressCard
    BY <1>1
  <2> QED
    BY <2>1, SystemCallsAssumption
<1>3. CASE n <= AddressCard - PageSize
  <2>1. n + PageSize - 1 \in 0 .. AddressCard - 1
    BY <1>1, <1>3
  <2>2. m = n + PageSize - 1
    BY <2>1, WrapFacts DEF Address
  <2>3. m \in Nat /\ m % PageSize <= PageSize - 1 /\ m % PageSize \in Nat
    BY <1>1, <2>1, <2>2
  <2>4. n <= m - (m % PageSize)
    BY <1>1, <2>2, <2>3
  <2> QED
    BY <1>3, <2>4 DEF PagesLen
<1>4. CASE ~(n <= AddressCard - PageSize)
  <2>1. /\ n + PageSize - 1 - AddressCard \in 0 .. PageSize - 1
        /\ n + PageSize - 1 - AddressCard < AddressCard
    BY <1>1, <1>2, <1>4
  <2>2. m = n + PageSize - 1 - AddressCard
    BY <1>1, <2>1 DEF Wrap
  <2>3. m % PageSize = m
    BY <1>1, <2>1, <2>2
  <2>4. m - (m % PageSize) = 0
    BY <1>1, <2>1, <2>2, <2>3
  <2> QED
    BY <1>4, <2>4 DEF PagesLen
<1> QED
  BY <1>3, <1>4

MmapDone ==
    IF call.size <= AddressCard - PageSize
    THEN Span(v0', call.size) \subseteq DOMAIN bytes'
    ELSE mmap_heap_end' = mmap_heap_end

(***************************************************************************)
(* What mmap2 returns is mapped as far as was asked; a length that rounds  *)
(* to 0 gets nothing, and the region's end stays where it was.             *)
(***************************************************************************)
LEMMA ReturnsMapped ==
  IInv /\ [Next \/ Terminated]_vars /\ Returns /\ call.op = "mmap2" => MmapDone
<1> SUFFICES ASSUME IInv, [Next \/ Terminated]_vars, Returns, call.op = "mmap2"
             PROVE  MmapDone
  OBVIOUS
<1> DEFINE len == PagesLen(call.size)
           target == mmap_heap_end
           mapped == Allocated(bytes, target, len)
<1>1. call # NULL /\ call' # call
  BY DEF Returns
<1>2. ~(UNCHANGED vars \/ Guest \/ Loader)
  BY <1>1 DEF vars, Guest, RequestSpace, RequestTransfer, RequestStruct, RequestVector,
              Request, Loader, SkipHeader, LoadSegment, LoadStack, LoaderAborts
<1>3. ~(WritevRound \/ IoctlAborts \/ Mmap2Aborts \/ Crash)
  BY <1>1 DEF WritevRound, IoctlAborts, Mmap2Aborts, Crash, End
<1>4. ~(Read \/ Write \/ WritevReturn \/ Open \/ Ioctl \/ ClockGettime \/ Brk)
  BY DEF Read, Write, WritevReturn, Open, Ioctl, ClockGettime, Brk, Serving
<1>5. Mmap2
  BY <1>2, <1>3, <1>4 DEF Next, Terminated, Serve
<1>6. /\ Reaches(mapped, target, len) /\ bytes' = SetTo(mapped, target, len, 0)
      /\ mmap_heap_end' = Wrap(target + len) /\ v0' = Wrap(target)
  BY <1>5 DEF Mmap2, Cleared, Return
<1>7. /\ target \in Address /\ target \in Nat
      /\ call.size \in Address /\ call.size \in Nat /\ len \in Nat
  BY <1>1, Arguments, WrapFacts, PagesLenTyped DEF IInv, TypeOK
<1>8. v0' = target
  BY <1>6, <1>7, WrapFacts
<1>9. CASE call.size <= AddressCard - PageSize
  <2>1. call.size <= len
    BY <1>7, <1>9, PagesLenCovers
  <2>2. Span(target, call.size) \subseteq Span(target, len)
    <3> HIDE DEF len, target
    <3>1. \A k \in 0 .. call.size - 1 : k \in 0 .. len - 1
      BY <1>7, <2>1
    <3> QED
      BY <3>1, Zenon DEF Span
  <2>3. Span(target, len) \subseteq DOMAIN bytes'
    BY <1>6, SetToFacts DEF Reaches
  <2> QED
    BY <1>8, <1>9, <2>2, <2>3 DEF MmapDone
<1>10. CASE ~(call.size <= AddressCard - PageSize)
  <2>1. len = 0
    BY <1>7, <1>10, PagesLenCovers
  <2>2. Wrap(target + len) = target
    BY <1>7, <2>1, WrapFacts
  <2> QED
    BY <1>6, <1>10, <2>2 DEF MmapDone
<1> QED
  BY <1>9, <1>10

(***************************************************************************)
(* mmap2 gives what was asked for, mapped all along, or its length was one *)
(* that rounds to 0, and then nothing (mips_syscall_mmap2).                *)
(***************************************************************************)
THEOREM MmapStaysHonest == Spec => MmapGives
<1>1. IInv /\ [Next \/ Terminated]_vars
        => [Returns /\ call.op = "mmap2" => MmapDone]_vars
  BY ReturnsMapped
<1>2. [][Returns /\ call.op = "mmap2" => MmapDone]_vars => MmapGives
  BY PTL DEF MmapGives, MmapDone
<1> QED
  BY <1>1, <1>2, Invariance, PTL DEF Spec

------------------------------------------------------------------------------
\* What a guest may conclude from a count.

(***************************************************************************)
(* Induction over the naturals.                                            *)
(***************************************************************************)
LEMMA Induction ==
  ASSUME NEW S, 0 \in S, \A n \in Nat : n \in S => n + 1 \in S
  PROVE  Nat \subseteq S
<1> DEFINE T == Nat \ S
           R == OpToRel(<, Nat)
<1>1. SUFFICES ASSUME T # {} PROVE FALSE
  OBVIOUS
<1>2. IsWellFoundedOn(R, Nat)
  BY NatLessThanWellFounded
<1> HIDE DEF R
<1>3. PICK x \in T : \A y \in T : ~(<<y, x>> \in R)
  BY <1>1, <1>2, WFMin
<1>4. x \in Nat /\ x # 0 /\ x - 1 \in Nat /\ (x - 1) + 1 = x
  OBVIOUS
<1>5. x - 1 \in T
  BY <1>4
<1>6. <<x - 1, x>> \in R
  BY <1>4 DEF R, OpToRel
<1> QED
  BY <1>3, <1>5, <1>6

\* f has the concatenations of the first sequences of s, up to n of them.
Concatenates(f, s, n) ==
    f = [i \in 1 .. n |-> IF i = 1 THEN s[i] ELSE f[i - 1] \o s[i]]

(***************************************************************************)
(* There is such a function.                                               *)
(***************************************************************************)
LEMMA ConcatenationExists ==
  ASSUME NEW s, NEW n \in Nat
  PROVE  \E f : Concatenates(f, s, n)
<1> DEFINE S == {m \in Nat : \E f : Concatenates(f, s, m)}
<1>1. 0 \in S
  <2>1. Concatenates([i \in 1 .. 0 |-> s[i]], s, 0)
    BY DEF Concatenates
  <2> QED
    BY <2>1
<1>2. ASSUME NEW m \in Nat, m \in S PROVE m + 1 \in S
  <2>1. PICK f : Concatenates(f, s, m)
    BY <1>2
  <2> DEFINE g == [i \in 1 .. m + 1 |->
                     IF i = m + 1 THEN (IF m = 0 THEN s[1] ELSE f[m] \o s[m + 1])
                     ELSE f[i]]
  <2>2. ASSUME NEW i \in 1 .. m + 1
        PROVE  g[i] = IF i = 1 THEN s[i] ELSE g[i - 1] \o s[i]
    <3>1. CASE i = m + 1 /\ m = 0
      BY <3>1
    <3>2. CASE i = m + 1 /\ m # 0
      <4>1. m \in 1 .. m + 1 /\ m # m + 1 /\ i - 1 = m /\ i # 1
        BY <3>2
      <4>2. g[m] = f[m] /\ g[m + 1] = f[m] \o s[m + 1]
        BY <3>2, <4>1
      <4> QED
        BY <3>2, <4>1, <4>2
    <3>3. CASE i # m + 1
      <4>1. i \in 1 .. m
        BY <3>3
      <4>2. f[i] = IF i = 1 THEN s[i] ELSE f[i - 1] \o s[i]
        BY <2>1, <4>1 DEF Concatenates
      <4>3. g[i] = f[i]
        BY <3>3
      <4>4. i # 1 => g[i - 1] = f[i - 1]
        BY <4>1
      <4> QED
        BY <4>2, <4>3, <4>4
    <3> QED
      BY <3>1, <3>2, <3>3
  <2>3. g = [i \in 1 .. m + 1 |-> g[i]]
    OBVIOUS
  <2> HIDE DEF g
  <2>4. Concatenates(g, s, m + 1)
    BY <2>2, <2>3 DEF Concatenates
  <2>5. m + 1 \in Nat
    OBVIOUS
  <2> QED
    BY <2>4, <2>5
<1>3. n \in S
  <2> HIDE DEF S
  <2> QED
    BY <1>1, <1>2, Induction
<1> QED
  BY <1>3

(***************************************************************************)
(* FlattenSeq of a sequence of n sequences is the last of them.            *)
(***************************************************************************)
LEMMA Flattening ==
  ASSUME NEW s, NEW n \in Nat, n > 0, NEW f, Concatenates(f, s, n)
  PROVE  FlattenSeq([i \in 1 .. n |-> s[i]]) = f[n]
<1> DEFINE seqs == [i \in 1 .. n |-> s[i]]
           P(g) == g = [i \in 1 .. Len(seqs) |->
                          IF i = 1 THEN seqs[i] ELSE g[i - 1] \o seqs[i]]
           flatten == CHOOSE g : P(g)
<1>1. Len(seqs) = n
  OBVIOUS
<1>2. FlattenSeq(seqs) = flatten[n]
  BY <1>1 DEF FlattenSeq
<1>3. P(f)
  <2>1. f = [i \in 1 .. n |-> IF i = 1 THEN s[i] ELSE f[i - 1] \o s[i]]
    BY Zenon DEF Concatenates
  <2>2. \A i \in 1 .. n : seqs[i] = s[i]
    OBVIOUS
  <2> HIDE DEF seqs
  <2>3. f = [i \in 1 .. n |-> IF i = 1 THEN seqs[i] ELSE f[i - 1] \o seqs[i]]
    BY <2>1, <2>2, Zenon
  <2> QED
    BY <1>1, <2>3, Zenon
<1>4. P(flatten)
  <2> HIDE DEF P
  <2> QED
    BY <1>3, Zenon
<1>5. \A i \in 1 .. n :
        flatten[i] = IF i = 1 THEN seqs[i] ELSE flatten[i - 1] \o seqs[i]
  <2> HIDE DEF seqs, flatten
  <2>1. flatten = [i \in 1 .. Len(seqs) |->
                     IF i = 1 THEN seqs[i] ELSE flatten[i - 1] \o seqs[i]]
    BY <1>4, Zenon
  <2> QED
    BY <1>1, <2>1, Zenon
<1> HIDE DEF flatten
<1>6. \A i \in 1 .. n :
        /\ flatten[i] = IF i = 1 THEN s[i] ELSE flatten[i - 1] \o s[i]
        /\ f[i] = IF i = 1 THEN s[i] ELSE f[i - 1] \o s[i]
  <2>1. \A i \in 1 .. n : seqs[i] = s[i]
    OBVIOUS
  <2>2. \A i \in 1 .. n : f[i] = IF i = 1 THEN s[i] ELSE f[i - 1] \o s[i]
    BY Zenon DEF Concatenates
  <2> HIDE DEF seqs
  <2> QED
    BY <1>5, <2>1, <2>2, Zenon
<1> DEFINE S == {i \in Nat : i \in 1 .. n => flatten[i] = f[i]}
<1>7. 0 \in S
  OBVIOUS
<1>8. ASSUME NEW i \in Nat, i \in S PROVE i + 1 \in S
  <2>1. SUFFICES ASSUME i + 1 \in 1 .. n PROVE flatten[i + 1] = f[i + 1]
    OBVIOUS
  <2>2. (i + 1) - 1 = i /\ (i + 1 # 1 => i \in 1 .. n)
    BY <2>1
  <2>3. i + 1 # 1 => flatten[i] = f[i]
    BY <1>8, <2>2
  <2> QED
    BY <1>6, <2>1, <2>2, <2>3
<1>9. n \in S
  <2> HIDE DEF S
  <2> QED
    BY <1>7, <1>8, Induction
<1> QED
  BY <1>2, <1>9

(***************************************************************************)
(* FlattenSeq appends the last sequence to the others.                     *)
(***************************************************************************)
LEMMA FlattenAppends ==
  ASSUME NEW s, NEW n \in Nat, \A i \in 1 .. n + 1 : s[i] \in Seq(Byte)
  PROVE  /\ FlattenSeq([i \in 1 .. 0 |-> s[i]]) = <<>>
         /\ FlattenSeq([i \in 1 .. n + 1 |-> s[i]])
              = FlattenSeq([i \in 1 .. n |-> s[i]]) \o s[n + 1]
<1>1. FlattenSeq([i \in 1 .. 0 |-> s[i]]) = <<>>
  <2>1. [i \in 1 .. 0 |-> s[i]] = <<>>
    OBVIOUS
  <2> QED
    BY <2>1 DEF FlattenSeq
<1>2. PICK f : Concatenates(f, s, n + 1)
  <2>1. n + 1 \in Nat
    OBVIOUS
  <2> QED
    BY <2>1, ConcatenationExists
<1>3. FlattenSeq([i \in 1 .. n + 1 |-> s[i]]) = f[n + 1]
  <2>1. n + 1 \in Nat /\ n + 1 > 0
    OBVIOUS
  <2> QED
    BY <1>2, <2>1, Flattening
<1>4. \A i \in 1 .. n + 1 : f[i] = IF i = 1 THEN s[i] ELSE f[i - 1] \o s[i]
  BY <1>2 DEF Concatenates
<1>5. CASE n = 0
  <2>1. f[n + 1] = s[1] /\ s[1] \in Seq(Byte)
    BY <1>4, <1>5
  <2>2. <<>> \o s[1] = s[1]
    BY <2>1
  <2> QED
    BY <1>1, <1>3, <1>5, <2>1, <2>2
<1>6. CASE n # 0
  <2> DEFINE g == [i \in 1 .. n |-> f[i]]
  <2>1. ASSUME NEW i \in 1 .. n
        PROVE  g[i] = IF i = 1 THEN s[i] ELSE g[i - 1] \o s[i]
    <3>1. i \in 1 .. n + 1 /\ (i # 1 => i - 1 \in 1 .. n)
      OBVIOUS
    <3> QED
      BY <1>4, <3>1
  <2>2. g = [i \in 1 .. n |-> g[i]]
    OBVIOUS
  <2>3. g[n] = f[n]
    BY <1>6
  <2> HIDE DEF g
  <2>4. Concatenates(g, s, n)
    BY <2>1, <2>2 DEF Concatenates
  <2>5. FlattenSeq([i \in 1 .. n |-> s[i]]) = f[n]
    BY <1>6, <2>3, <2>4, Flattening
  <2>6. f[n + 1] = f[n] \o s[n + 1]
    <3>1. n + 1 \in 1 .. n + 1 /\ n + 1 # 1 /\ (n + 1) - 1 = n
      BY <1>6
    <3> QED
      BY <1>4, <3>1
  <2> QED
    BY <1>1, <1>3, <2>5, <2>6
<1> QED
  BY <1>1, <1>5, <1>6
\* A call is served by a program that runs or has ended.  The bytes counted
\* in a writev so far are a number t, which wraps; it reaches the length of
\* the buffers so far only if the host took all of them.
CountOK ==
    call # NULL =>
      /\ proc # "loading"
      /\ call.op = "writev" =>
           /\ round.c <= Len(call.iovs)
           /\ \A i \in 1 .. round.c :
                Reaches(bytes, call.iovs[i].address, call.iovs[i].length)
           /\ \E t \in -round.c .. Len(Gathered(round.c)) :
                /\ round.total = Wrap(t)
                /\ t = Len(Gathered(round.c)) => moved = Gathered(round.c)

(***************************************************************************)
(* One more buffer is appended to the bytes gathered.                      *)
(***************************************************************************)
LEMMA GatheredGrows ==
  ASSUME IInv, call # NULL, NEW c \in Nat, c < Len(call.iovs),
         \A i \in 1 .. c + 1 :
           Reaches(bytes, call.iovs[i].address, call.iovs[i].length)
  PROVE  LET piece(i) == BytesFrom(call.iovs[i].address, call.iovs[i].length)
         IN  /\ Gathered(c + 1) = Gathered(c) \o piece(c + 1)
             /\ piece(c + 1) \in Seq(Byte)
             /\ Len(piece(c + 1)) = call.iovs[c + 1].length
<1> DEFINE piece(i) == BytesFrom(call.iovs[i].address, call.iovs[i].length)
           s == [i \in 1 .. c + 1 |-> piece(i)]
<1>1. ASSUME NEW i \in 1 .. c + 1
      PROVE  /\ piece(i) \in Seq(Byte) /\ Len(piece(i)) = call.iovs[i].length
             /\ s[i] = piece(i)
  <2>1. call.iovs \in Seq(Buffers) /\ i \in 1 .. Len(call.iovs)
    BY Arguments
  <2>2. call.iovs[i] \in Buffers
    BY <2>1
  <2>3. /\ call.iovs[i].address \in Address
        /\ call.iovs[i].length \in Address /\ call.iovs[i].length \in Nat
    BY <2>2, SystemCallsAssumption, WrapFacts
  <2>4. piece(i) \in [1 .. call.iovs[i].length -> Byte]
    BY <2>3, BytesFromTyped DEF IInv
  <2> HIDE DEF piece
  <2> QED
    BY <2>3, <2>4
<1>2. /\ Gathered(c) = FlattenSeq([i \in 1 .. c |-> s[i]])
      /\ Gathered(c + 1) = FlattenSeq([i \in 1 .. c + 1 |-> s[i]])
  <2>1. /\ [i \in 1 .. c |-> piece(i)] = [i \in 1 .. c |-> s[i]]
        /\ [i \in 1 .. c + 1 |-> piece(i)] = [i \in 1 .. c + 1 |-> s[i]]
    OBVIOUS
  <2> HIDE DEF s
  <2> QED
    BY <2>1 DEF Gathered
<1> HIDE DEF s, piece
<1>3. \A i \in 1 .. c + 1 : s[i] \in Seq(Byte)
  BY <1>1
<1>4. /\ FlattenSeq([i \in 1 .. c + 1 |-> s[i]])
           = FlattenSeq([i \in 1 .. c |-> s[i]]) \o s[c + 1]
  BY <1>3, FlattenAppends
<1>5. c + 1 \in 1 .. c + 1
  OBVIOUS
<1>6. /\ Gathered(c + 1) = Gathered(c) \o piece(c + 1)
      /\ piece(c + 1) \in Seq(Byte)
      /\ Len(piece(c + 1)) = call.iovs[c + 1].length
  BY <1>1, <1>2, <1>4, <1>5
<1> QED
  BY <1>6 DEF piece

(***************************************************************************)
(* What was gathered is bytes.                                             *)
(***************************************************************************)
LEMMA GatheredTyped ==
  ASSUME IInv, call # NULL, NEW c \in Nat, c <= Len(call.iovs),
         \A i \in 1 .. c :
           Reaches(bytes, call.iovs[i].address, call.iovs[i].length)
  PROVE  Gathered(0) = <<>> /\ Gathered(c) \in Seq(Byte)
<1> DEFINE S == {m \in Nat : m <= c => Gathered(m) \in Seq(Byte)}
<1>1. Gathered(0) = <<>>
  <2>1. [i \in 1 .. 0 |-> BytesFrom(call.iovs[i].address, call.iovs[i].length)]
          = <<>>
    OBVIOUS
  <2> QED
    BY <2>1 DEF Gathered, FlattenSeq
<1>2. 0 \in S
  <2>1. 0 \in Nat /\ <<>> \in Seq(Byte)
    OBVIOUS
  <2> QED
    BY <1>1, <2>1, Zenon
<1>3. ASSUME NEW m \in Nat, m \in S PROVE m + 1 \in S
  <2>1. SUFFICES ASSUME m + 1 <= c PROVE Gathered(m + 1) \in Seq(Byte)
    OBVIOUS
  <2> DEFINE p == BytesFrom(call.iovs[m + 1].address, call.iovs[m + 1].length)
  <2>2. Gathered(m) \in Seq(Byte)
    BY <1>3, <2>1
  <2>3. Len(call.iovs) \in Nat
    BY Arguments
  <2>4. m < Len(call.iovs) /\ \A i \in 1 .. m + 1 : i \in 1 .. c
    BY <2>1, <2>3
  <2>5. Gathered(m + 1) = Gathered(m) \o p /\ p \in Seq(Byte)
    BY <2>4, GatheredGrows
  <2> HIDE DEF p
  <2>6. \A x, y \in Seq(Byte) : x \o y \in Seq(Byte)
    OBVIOUS
  <2> QED
    BY <2>2, <2>5, <2>6, Zenon
<1>4. c \in S
  <2> HIDE DEF S
  <2> QED
    BY <1>2, <1>3, Induction
<1> QED
  BY <1>1, <1>4
(***************************************************************************)
(* The first buffers gathered are the same while memory and call are.      *)
(***************************************************************************)
LEMMA GatheredStays ==
  /\ Gathered(0)' = <<>>
  /\ UNCHANGED <<bytes, call>> => \A c : Gathered(c)' = Gathered(c)
<1>1. Gathered(0)' = <<>>
  <2>1. [i \in 1 .. 0 |-> BytesFrom(call.iovs[i].address, call.iovs[i].length)]'
          = <<>>
    OBVIOUS
  <2> QED
    BY <2>1 DEF Gathered, FlattenSeq
<1>2. ASSUME UNCHANGED <<bytes, call>>, NEW c PROVE Gathered(c)' = Gathered(c)
  BY <1>2 DEF Gathered, BytesFrom
<1> QED
  BY <1>1, <1>2

(***************************************************************************)
(* Wrapping a sum wraps each part.                                         *)
(***************************************************************************)
LEMMA WrapSum ==
  ASSUME NEW t \in Int, NEW n \in Int
  PROVE  Wrap(Wrap(t) + n) = Wrap(t + n)
<1>1. AddressCard \in Nat /\ AddressCard > 0
  BY WrapFacts
<1> DEFINE A == AddressCard
           r == t % A
           q == t \div A
           u == (r + n) % A
           v == (r + n) \div A
<1>2. r \in Int /\ q \in Int /\ t = A * q + r
  BY <1>1
<1>3. u \in 0 .. A - 1 /\ v \in Int /\ r + n = A * v + u
  BY <1>1, <1>2
<1> HIDE DEF r, q, u, v
<1>4. t + n = A * (q + v) + u
  <2>1. A * (q + v) = A * q + A * v
    BY <1>1, <1>2, <1>3
  <2> QED
    BY <1>1, <1>2, <1>3, <2>1
<1> DEFINE y == (t + n) % A
           z == (t + n) \div A
<1>5. y \in 0 .. A - 1 /\ z \in Int /\ t + n = A * z + y
  BY <1>1
<1> HIDE DEF y, z
<1>6. A * (z - (q + v)) = u - y
  <2>1. A * (z - (q + v)) = A * z - A * (q + v)
    BY <1>1, <1>2, <1>3, <1>5
  <2>2. A * z \in Int /\ A * (q + v) \in Int
    BY <1>1, <1>2, <1>3, <1>5
  <2> QED
    BY <1>3, <1>4, <1>5, <2>1, <2>2
<1>7. z - (q + v) = 0
  <2> DEFINE d == z - (q + v)
  <2>1. d \in Int
    BY <1>2, <1>3, <1>5
  <2> HIDE DEF d
  <2>2. A * d = u - y
    BY <1>6 DEF d
  <2>3. ~(d >= 1)
    <3>1. d >= 1 => A * d >= A
      BY <1>1, <2>1
    <3> QED
      BY <1>1, <1>3, <1>5, <2>2, <3>1
  <2>4. ~(d <= -1)
    <3>1. d <= -1 => A * d <= -A
      BY <1>1, <2>1
    <3> QED
      BY <1>1, <1>3, <1>5, <2>2, <3>1
  <2> QED
    BY <2>1, <2>3, <2>4 DEF d
<1>8. u = y
  BY <1>1, <1>3, <1>5, <1>6, <1>7
<1> QED
  BY <1>8 DEF Wrap, u, y, r

(***************************************************************************)
(* A request starts to count from zero.                                    *)
(***************************************************************************)
LEMMA RequestCounts ==
  ASSUME NEW op, NEW a, NEW n, NEW iovs \in Seq(Buffers), Request(op, a, n, iovs)
  PROVE  CountOK'
<1>1. /\ call' = [op |-> op, address |-> a, size |-> n, iovs |-> iovs]
      /\ proc' = "running" /\ moved' = <<>>
      /\ round' = IF op = "writev" THEN [c |-> 0, total |-> 0] ELSE NULL
  BY DEF Request
<1>2. CASE op # "writev"
  BY <1>1, <1>2 DEF CountOK
<1>3. CASE op = "writev"
  <2>1. /\ round'.c = 0 /\ round'.total = 0 /\ Len(call'.iovs) \in Nat
        /\ proc' # "loading"
    BY <1>1, <1>3
  <2>2. Len(<<>>) = 0 /\ 0 \in -0 .. 0
    OBVIOUS
  <2>3. Wrap(0) = 0
    BY WrapFacts
  <2>4. Gathered(round.c)' = <<>>
    <3>1. Gathered(round.c)' = Gathered(0)'
      BY <2>1 DEF Gathered
    <3> QED
      BY <3>1, GatheredStays
  <2>5. \E t \in -(round.c)' .. Len(Gathered(round.c)') :
           /\ round'.total = Wrap(t)
           /\ t = Len(Gathered(round.c)') => moved' = Gathered(round.c)'
    BY <1>1, <2>1, <2>2, <2>3, <2>4
  <2>6. round'.c <= Len(call'.iovs) /\ 1 .. round'.c = {}
    BY <2>1
  <2> QED
    BY <2>1, <2>5, <2>6 DEF CountOK
<1> QED
  BY <1>2, <1>3
(***************************************************************************)
(* A prefix of a buffer: the whole of it, or shorter.                      *)
(***************************************************************************)
LEMMA PrefixFacts ==
  ASSUME NEW s \in Seq(Byte), NEW n \in -1 .. Len(s)
  PROVE  /\ n = Len(s) => SubSeq(s, 1, n) = s
         /\ n >= 0 => Len(SubSeq(s, 1, n)) = n
         /\ \A k \in 1 .. n : SubSeq(s, 1, n)[k] = s[k]
OBVIOUS

(***************************************************************************)
(* One round of writev counts what the host took, or -1.                   *)
(***************************************************************************)
LEMMA RoundCounts == IInv /\ CountOK /\ WritevRound => CountOK'
<1> SUFFICES ASSUME IInv, CountOK, WritevRound PROVE CountOK'
  OBVIOUS
<1> DEFINE c == round.c
           iov == call.iovs[c + 1]
           p == BytesFrom(iov.address, iov.length)
           g == Gathered(c)
<1>1. /\ call # NULL /\ call.op = "writev" /\ round # NULL /\ proc # "loading"
      /\ UNCHANGED <<bytes, call, proc>>
  BY DEF WritevRound, Serving, IInv, CallOK, CountOK
<1>2. c \in Nat /\ c < Len(call.iovs) /\ round.total \in Address
      /\ Len(call.iovs) \in Nat
  <2>1. round \in [c : Nat, total : Address]
    BY <1>1 DEF IInv, TypeOK
  <2>2. call.iovs \in Seq(Buffers)
    BY <1>1, Arguments
  <2>3. round.c < Len(call.iovs)
    BY DEF WritevRound
  <2> QED
    BY <2>1, <2>2, <2>3
<1>3. \A i \in 1 .. c + 1 :
        Reaches(bytes, call.iovs[i].address, call.iovs[i].length)
  <2>1. \A i \in 1 .. c :
          Reaches(bytes, call.iovs[i].address, call.iovs[i].length)
    BY <1>1 DEF CountOK
  <2>2. Reaches(bytes, iov.address, iov.length)
    BY DEF WritevRound
  <2>3. \A i \in 1 .. c + 1 : i \in 1 .. c \/ i = c + 1
    BY <1>2
  <2> QED
    BY <2>1, <2>2, <2>3, Zenon
<1>4. Gathered(c + 1) = g \o p /\ p \in Seq(Byte) /\ Len(p) = iov.length
  BY <1>1, <1>2, <1>3, GatheredGrows
<1>5. g \in Seq(Byte) /\ moved \in Seq(Byte)
  <2>1. \A i \in 1 .. c : i \in 1 .. c + 1
    BY <1>2
  <2>2. c <= Len(call.iovs)
    BY <1>2
  <2>3. g \in Seq(Byte)
    BY <1>1, <1>2, <1>3, <2>1, <2>2, GatheredTyped
  <2> QED
    BY <2>3 DEF IInv, TypeOK
<1>6. PICK t \in -c .. Len(g) : /\ round.total = Wrap(t)
                                /\ t = Len(g) => moved = g
  BY <1>1 DEF CountOK
<1>7. PICK n \in -1 .. iov.length :
         /\ moved' = moved \o SubSeq(p, 1, n)
         /\ round' = [c |-> c + 1, total |-> Wrap(Counted(iov, n))]
  BY DEF WritevRound
<1>8. round'.c = c + 1 /\ round'.total = Wrap(Wrap(t) + n)
  BY <1>6, <1>7 DEF Counted
<1>9. Gathered(round.c)' = g \o p
  <2>1. Gathered(round.c)' = Gathered(c + 1)
    <3>1. Gathered(round.c)' = FlattenSeq([i \in 1 .. c + 1 |->
                 BytesFrom(call.iovs[i].address, call.iovs[i].length)])
      BY <1>1, <1>8 DEF Gathered, BytesFrom
    <3> QED
      BY <3>1 DEF Gathered
  <2> QED
    BY <1>4, <2>1
<1> HIDE DEF c, iov, p, g
<1>10. /\ Len(g) \in Nat /\ Len(p) \in Nat /\ Len(g \o p) = Len(g) + Len(p)
       /\ t \in Int /\ n \in Int /\ n <= Len(p) /\ n >= -1
  <2>1. Len(g) \in Nat /\ Len(p) \in Nat /\ Len(g \o p) = Len(g) + Len(p)
    BY <1>4, <1>5
  <2>2. t \in Int
    BY <1>2, <1>6, <2>1
  <2>3. n \in Int /\ n <= Len(p) /\ n >= -1
    <3>1. n \in -1 .. Len(p)
      BY <1>4, <1>7
    <3> QED
      BY <2>1, <3>1
  <2> QED
    BY <2>1, <2>2, <2>3
<1>11. t + n \in -(c + 1) .. Len(g \o p)
  BY <1>2, <1>6, <1>10
<1>12. round'.total = Wrap(t + n)
  BY <1>8, <1>10, WrapSum
<1>13. ASSUME t + n = Len(g \o p) PROVE moved' = g \o p
  <2>1. t = Len(g) /\ n = Len(p)
    BY <1>6, <1>10, <1>13
  <2>2. SubSeq(p, 1, n) = p
    BY <1>4, <1>7, <2>1, PrefixFacts
  <2> QED
    BY <1>6, <1>7, <2>1, <2>2
<1>14. c + 1 <= Len(call.iovs)
  BY <1>2
<1> QED
  BY <1>1, <1>3, <1>8, <1>9, <1>11, <1>12, <1>13, <1>14 DEF CountOK, Reaches

(***************************************************************************)
(* Every step keeps the count.                                             *)
(***************************************************************************)
LEMMA NextCounts == IInv /\ CountOK /\ [Next \/ Terminated]_vars => CountOK'
<1> SUFFICES ASSUME IInv, CountOK, [Next \/ Terminated]_vars PROVE CountOK'
  OBVIOUS
<1>1. ASSUME UNCHANGED <<bytes, call, round, moved>>,
             proc # "loading" => proc' # "loading"
      PROVE  CountOK'
  BY <1>1, GatheredStays DEF CountOK, Reaches, Gathered, BytesFrom
<1>2. CASE Loader
  <2>1. proc = "loading" /\ call' = call
    BY <1>2 DEF Loader, SkipHeader, LoadSegment, LoadStack, LoaderAborts, Loading
  <2> QED
    BY <2>1 DEF CountOK
<1>3. CASE Guest
  <2>1. <<>> \in Seq(Buffers)
    OBVIOUS
  <2>2. BoundedSeq(Buffers, MaxIovs) \subseteq Seq(Buffers)
    BY VectorTyped
  <2>3. CASE RequestSpace \/ RequestTransfer \/ RequestStruct
    <3>1. ASSUME NEW op, NEW a, NEW n, Request(op, a, n, <<>>)
          PROVE  CountOK'
      BY <2>1, <3>1, RequestCounts
    <3>2. CASE RequestSpace
      BY <3>1, <3>2, Zenon DEF RequestSpace
    <3>3. CASE RequestTransfer \/ RequestStruct
      BY <3>1, <3>3, Zenon DEF RequestTransfer, RequestStruct
    <3> QED
      BY <2>3, <3>2, <3>3
  <2>4. CASE RequestVector
    <3>1. PICK b \in Buffers, iovs \in BoundedSeq(Buffers, MaxIovs) :
              Request("writev", b.address, 0, iovs)
      BY <2>4 DEF RequestVector
    <3>2. iovs \in Seq(Buffers)
      BY <2>2, <3>1
    <3> QED
      BY <3>1, <3>2, RequestCounts
  <2> QED
    BY <1>3, <2>3, <2>4 DEF Guest
<1>4. CASE IoctlAborts \/ Mmap2Aborts \/ Crash
  BY <1>1, <1>4 DEF IoctlAborts, Mmap2Aborts, Crash, End
<1>5. CASE WritevRound
  BY <1>5, RoundCounts
<1>6. CASE Serve /\ ~(IoctlAborts \/ Mmap2Aborts \/ Crash \/ WritevRound)
  <2>1. call' = NULL
    BY <1>6 DEF Serve, Read, Write, WritevReturn, Open, Ioctl, ClockGettime, Brk,
                Mmap2, FillStruct, HostRefuses, Return
  <2> QED
    BY <2>1 DEF CountOK
<1>7. CASE UNCHANGED vars
  BY <1>1, <1>7 DEF vars
<1> QED
  BY <1>2, <1>3, <1>4, <1>5, <1>6, <1>7 DEF Next, Terminated

(***************************************************************************)
(* The count of writev is kept in every state (mips_syscall_writev).       *)
(***************************************************************************)
THEOREM CountStays == Spec => []CountOK
<1>1. Init => CountOK
  BY DEF Init, CountOK
<1> QED
  BY <1>1, Invariance, NextCounts, PTL DEF Spec
\* What TransfersExact asks of a step that returns from a call.
ReadExact ==
    /\ Len(moved') = v0'
    /\ \A k \in 1 .. v0' : bytes'[Wrap(call.address + k - 1)] = moved'[k]

Exact ==
    /\ call.op = "read" /\ v0' <= call.size /\ call.size + 1 < AddressCard =>
         ReadExact
    /\ call.op = "write" /\ v0' = call.size /\ call.size + 1 < AddressCard =>
         moved' = BytesFrom(call.address, call.size)
    /\ LET all == Gathered(Len(call.iovs))
       IN  /\ call.op = "writev" /\ v0' = Len(all)
           /\ Len(all) + Len(call.iovs) < AddressCard
           => moved' = all

(***************************************************************************)
(* A result that is no more than was asked for is no error.                *)
(***************************************************************************)
LEMMA ResultIsCount ==
  ASSUME NEW size \in Nat, NEW n \in -1 .. size, size + 1 < AddressCard,
         Wrap(n) <= size
  PROVE  n >= 0 /\ Wrap(n) = n
<1>1. AddressCard \in Nat /\ AddressCard > 0
  BY WrapFacts
<1>2. CASE n = -1
  <2>1. (-1) % AddressCard = AddressCard - 1
    <3> DEFINE q == (-1) \div AddressCard
               m == (-1) % AddressCard
    <3>1. q \in Int /\ m \in 0 .. AddressCard - 1 /\ -1 = AddressCard * q + m
      BY <1>1
    <3> HIDE DEF q, m
    <3>2. ~(q >= 0)
      <4>1. q >= 0 => AddressCard * q >= 0
        BY <1>1, <3>1
      <4> QED
        BY <1>1, <3>1, <4>1
    <3>3. ~(q <= -2)
      <4>1. q <= -2 => AddressCard * q <= AddressCard * (-2)
        BY <1>1, <3>1
      <4> QED
        BY <1>1, <3>1, <4>1
    <3>4. q = -1
      BY <3>1, <3>2, <3>3
    <3>5. m = AddressCard - 1
      BY <1>1, <3>1, <3>4
    <3> QED
      BY <3>5 DEF m
  <2> QED
    BY <1>1, <1>2, <2>1 DEF Wrap
<1>3. CASE n >= 0
  <2>1. n \in Address
    BY <1>1, <1>3 DEF Address
  <2> QED
    BY <1>3, <2>1, WrapFacts
<1> QED
  BY <1>2, <1>3

\* The bytes of a buffer are at their places in memory.
Placed(b, a, n, values) == \A k \in 1 .. n : b[Wrap(a + k - 1)] = values[k]

(***************************************************************************)
(* The bytes of a buffer are at their places after it was copied.          *)
(***************************************************************************)
LEMMA CopiedPlaces ==
  ASSUME NEW b, NEW a \in Address, NEW n \in Address, NEW values, Len(values) = n,
         Reaches(b, a, n)
  PROVE  Placed(Copied(b, a, values), a, n, values)
<1> SUFFICES ASSUME NEW k \in 1 .. n
             PROVE  Copied(b, a, values)[Wrap(a + k - 1)] = values[k]
  BY DEF Placed
<1>1. Len(values) = n /\ n \in Nat /\ a \in Nat /\ n < AddressCard
      /\ a < AddressCard /\ AddressCard \in Nat
  BY WrapFacts DEF Address
<1> DEFINE j == k - 1
           x == Wrap(a + k - 1)
<1>2. j \in 0 .. n - 1 /\ j \in Nat /\ j + 1 = k /\ a + k - 1 = a + j
  BY <1>1
<1>3. x \in Span(a, n)
  BY <1>2 DEF Span
<1> HIDE DEF j
<1>4. Wrap(x - a) = j
  <2>1. CASE a + j < AddressCard
    <3>1. x = a + j
      BY <1>1, <1>2, <2>1 DEF Wrap
    <3> QED
      BY <1>1, <1>2, <3>1 DEF Wrap
  <2>2. CASE a + j >= AddressCard
    <3>1. x = a + j - AddressCard
      BY <1>1, <1>2, <2>2 DEF Wrap
    <3> QED
      BY <1>1, <1>2, <3>1 DEF Wrap
  <2> QED
    BY <1>1, <1>2, <2>1, <2>2
<1>5. x \in DOMAIN b
  BY <1>3 DEF Reaches
<1> HIDE DEF x
<1>6. Copied(b, a, values)[x] = values[Wrap(x - a) + 1]
  BY <1>1, <1>3, <1>5 DEF Copied
<1> QED
  BY <1>2, <1>4, <1>6 DEF x

(***************************************************************************)
(* Only the calls' own steps return, and a count they return is exact.     *)
(***************************************************************************)
LEMMA ReturnsExact ==
  IInv /\ CountOK /\ [Next \/ Terminated]_vars /\ Returns => Exact
<1> SUFFICES ASSUME IInv, CountOK, [Next \/ Terminated]_vars, Returns PROVE Exact
  OBVIOUS
<1>1. call # NULL /\ call' # call
  BY DEF Returns
<1>2. ~(UNCHANGED vars \/ Guest \/ Loader)
  BY <1>1 DEF vars, Guest, RequestSpace, RequestTransfer, RequestStruct, RequestVector,
              Request, Loader, SkipHeader, LoadSegment, LoadStack, LoaderAborts
<1>3. ~(WritevRound \/ IoctlAborts \/ Mmap2Aborts \/ Crash)
  BY <1>1 DEF WritevRound, IoctlAborts, Mmap2Aborts, Crash, End
<1>4. Read \/ Write \/ WritevReturn \/ Open \/ Ioctl \/ ClockGettime \/ Brk \/ Mmap2
  BY <1>2, <1>3 DEF Next, Terminated, Serve
<1>5. CASE Read
  <2>1. call.op = "read" /\ Reaches(bytes, call.address, call.size)
    BY <1>5 DEF Read, Serving
  <2>2. PICK buffer \in [1 .. call.size -> Byte], n \in -1 .. call.size :
           /\ bytes' = Copied(bytes, call.address, buffer)
           /\ moved' = SubSeq(buffer, 1, n)
           /\ v0' = Wrap(n)
    BY <1>5 DEF Read, Return
  <2>3. call.size \in Nat /\ call.size \in Address /\ call.address \in Address
    BY <1>1, Arguments
  <2>4. buffer \in Seq(Byte) /\ Len(buffer) = call.size
    BY <2>3
  <2>5. ASSUME v0' <= call.size, call.size + 1 < AddressCard PROVE ReadExact
    <3>1. n >= 0 /\ v0' = n /\ n <= call.size /\ n \in Nat
      BY <2>2, <2>3, <2>5, ResultIsCount
    <3>2. Len(moved') = n /\ \A k \in 1 .. n : moved'[k] = buffer[k]
      BY <2>2, <2>4, <3>1, PrefixFacts
    <3>3. \A k \in 1 .. n : k \in 1 .. call.size
      BY <2>3, <3>1
    <3>4. \A k \in 1 .. n : bytes'[Wrap(call.address + k - 1)] = buffer[k]
      <4>1. PICK a, m : a = call.address /\ m = call.size
        OBVIOUS
      <4>2. /\ a \in Address /\ m \in Address
            /\ Len(buffer) = m /\ Reaches(bytes, a, m)
        BY <2>1, <2>3, <2>4, <4>1
      <4>3. Placed(Copied(bytes, a, buffer), a, m, buffer)
        BY <4>2, CopiedPlaces
      <4>4. Placed(bytes', call.address, call.size, buffer)
        BY <2>2, <4>1, <4>3, Zenon
      <4> QED
        BY <3>3, <4>4, Zenon DEF Placed
    <3> QED
      BY <3>1, <3>2, <3>4 DEF ReadExact
  <2> QED
    BY <2>1, <2>5 DEF Exact
<1>6. CASE Write
  <2>1. call.op = "write" /\ Reaches(bytes, call.address, call.size)
    BY <1>6 DEF Write, Serving
  <2> DEFINE p == BytesFrom(call.address, call.size)
  <2>2. PICK n \in -1 .. call.size : moved' = SubSeq(p, 1, n) /\ v0' = Wrap(n)
    BY <1>6 DEF Write, Return
  <2>3. call.size \in Nat /\ call.size \in Address /\ call.address \in Address
    BY <1>1, Arguments
  <2>4. p \in [1 .. call.size -> Byte]
    BY <2>1, <2>3, BytesFromTyped DEF IInv
  <2> HIDE DEF p
  <2>5. p \in Seq(Byte) /\ Len(p) = call.size
    BY <2>3, <2>4
  <2>6. ASSUME v0' = call.size, call.size + 1 < AddressCard PROVE moved' = p
    <3>1. Wrap(n) <= call.size
      BY <2>2, <2>3, <2>6
    <3>2. Wrap(n) = n
      BY <2>2, <2>3, <2>6, <3>1, ResultIsCount
    <3>3. n = Len(p)
      BY <2>2, <2>5, <2>6, <3>2
    <3> QED
      BY <2>2, <2>5, <3>3, PrefixFacts
  <2> QED
    BY <2>1, <2>6 DEF Exact, p
<1>7. CASE WritevReturn
  <2>1. /\ call.op = "writev" /\ round # NULL /\ round.c = Len(call.iovs)
        /\ v0' = Wrap(round.total) /\ moved' = moved
    BY <1>1, <1>7 DEF WritevReturn, Serving, Return, IInv, CallOK
  <2>2. round.c \in Nat /\ round.total \in Address
    BY <2>1 DEF IInv, TypeOK
  <2> DEFINE all == Gathered(Len(call.iovs))
             m == Len(call.iovs)
  <2>3. PICK t \in -m .. Len(all) : /\ round.total = Wrap(t)
                                    /\ t = Len(all) => moved = all
    BY <1>1, <2>1 DEF CountOK
  <2>4. all \in Seq(Byte)
    <3>1. \A i \in 1 .. round.c :
            Reaches(bytes, call.iovs[i].address, call.iovs[i].length)
      BY <1>1, <2>1 DEF CountOK
    <3>2. round.c <= Len(call.iovs)
      BY <2>1, <2>2
    <3> QED
      BY <1>1, <2>1, <2>2, <3>1, <3>2, GatheredTyped
  <2> HIDE DEF all, m
  <2>5. ASSUME v0' = Len(all), Len(all) + m < AddressCard PROVE moved' = all
    <3>1. Len(all) \in Nat /\ m \in Nat /\ t \in Int
      BY <2>1, <2>2, <2>3, <2>4 DEF m
    <3>2. AddressCard \in Nat /\ AddressCard > 0
      BY WrapFacts
    <3>3. Wrap(t) = Len(all)
      BY <2>1, <2>2, <2>3, <2>5, WrapFacts
    <3>4. t = Len(all)
      <4> DEFINE q == t \div AddressCard
      <4>1. q \in Int /\ t = AddressCard * q + Len(all)
        BY <3>1, <3>2, <3>3 DEF Wrap
      <4> HIDE DEF q
      <4>2. ~(q >= 1)
        <5>1. q >= 1 => AddressCard * q >= AddressCard
          BY <3>2, <4>1
        <5> QED
          BY <2>3, <3>1, <3>2, <4>1, <5>1
      <4>3. ~(q <= -1)
        <5>1. q <= -1 => AddressCard * q <= -AddressCard
          BY <3>2, <4>1
        <5> QED
          BY <2>3, <2>5, <3>1, <3>2, <4>1, <5>1
      <4>4. q = 0
        BY <4>1, <4>2, <4>3
      <4> QED
        BY <3>1, <3>2, <4>1, <4>4
    <3> QED
      BY <2>1, <2>3, <3>4
  <2> QED
    BY <2>1, <2>5 DEF Exact, all, m
<1>8. CASE Open \/ Ioctl \/ ClockGettime \/ Brk \/ Mmap2
  BY <1>8 DEF Open, Ioctl, ClockGettime, Brk, Mmap2, Serving, Exact
<1> QED
  BY <1>4, <1>5, <1>6, <1>7, <1>8

(***************************************************************************)
(* A guest that is told the length it asked for has had all of it moved,   *)
(* in order, and after read the bytes it was told of are in its buffer,    *)
(* whatever the host did (mips_syscall_read, mips_syscall_write,           *)
(* mips_syscall_writev).                                                   *)
(***************************************************************************)
THEOREM TransfersStayExact == Spec => TransfersExact
<1>1. IInv /\ CountOK /\ [Next \/ Terminated]_vars => [Returns => Exact]_vars
  BY ReturnsExact
<1>2. [][Returns => Exact]_vars => TransfersExact
  BY PTL DEF TransfersExact, Exact, ReadExact
<1> QED
  BY <1>1, <1>2, Invariance, CountStays, PTL DEF Spec

------------------------------------------------------------------------------
\* How the address space and a call evolve.

(***************************************************************************)
(* The guest never loses memory: no step of the loader or of a call unmaps *)
(* an address or lowers the break.  Once the program runs, the heap starts *)
(* where it starts, and memory and the heaps change only when a call       *)
(* returns.                                                                *)
(***************************************************************************)
MemoryGrows ==
    [][/\ DOMAIN bytes \subseteq DOMAIN bytes'
       /\ brk_heap_start' >= brk_heap_start /\ brk_heap_end' >= brk_heap_end
       /\ proc = "running" => brk_heap_start' = brk_heap_start
       /\ proc = "running" /\ ~Returns => UNCHANGED <<bytes, heapVars>>]_vars

\* What it asks of a step.
Grows ==
    /\ DOMAIN bytes \subseteq DOMAIN bytes'
    /\ brk_heap_start' >= brk_heap_start /\ brk_heap_end' >= brk_heap_end
    /\ proc = "running" => brk_heap_start' = brk_heap_start
    /\ proc = "running" /\ ~Returns => UNCHANGED <<bytes, heapVars>>

\* While the program is loaded nothing is allocated from the heap.
HeapEmpty == proc = "loading" => brk_heap_end = brk_heap_start

(***************************************************************************)
(* The heap is empty until the program asks for memory.                    *)
(***************************************************************************)
LEMMA HeapStartsEmpty == Spec => []HeapEmpty
<1>1. Init => HeapEmpty
  BY DEF Init, HeapEmpty
<1>2. HeapEmpty /\ [Next \/ Terminated]_vars => HeapEmpty'
  <2> SUFFICES ASSUME HeapEmpty, [Next \/ Terminated]_vars, proc' = "loading"
               PROVE  brk_heap_end' = brk_heap_start'
    BY DEF HeapEmpty
  <2>1. CASE SkipHeader
    BY <2>1 DEF SkipHeader, Loading, HeapEmpty, heapVars
  <2>2. CASE LoadSegment
    <3>1. brk_heap_end = brk_heap_start
      BY <2>2 DEF LoadSegment, Loading, HeapEmpty
    <3>2. PICK end : HeapAbove(end)
      BY <2>2 DEF LoadSegment
    <3> QED
      BY <3>1, <3>2 DEF HeapAbove
  <2>3. CASE LoadStack \/ LoaderAborts
    BY <2>3 DEF LoadStack, LoaderAborts
  <2>4. CASE Guest
    <3>1. proc = "running" /\ proc' = proc
      BY <2>4 DEF Guest, RequestSpace, RequestTransfer, RequestStruct,
         RequestVector, Request
    <3> QED
      BY <3>1
  <2>5. CASE Serve
    <3>1. proc = "running"
      BY <2>5 DEF Serve, Read, Write, WritevRound, WritevReturn, Open, Ioctl,
         IoctlAborts, ClockGettime, Brk, Mmap2, Mmap2Aborts, Crash, Serving
    <3>2. proc' \in {proc, "aborted", "crashed"}
      BY <2>5 DEF Serve, Read, Write, WritevRound, WritevReturn, Open, Ioctl,
         IoctlAborts, ClockGettime, Brk, Mmap2, Mmap2Aborts, Crash, FillStruct,
         HostRefuses, Return, End
    <3> QED
      BY <3>1, <3>2
  <2>6. CASE UNCHANGED vars
    BY <2>6 DEF vars, heapVars, HeapEmpty
  <2> QED
    BY <2>1, <2>2, <2>3, <2>4, <2>5, <2>6 DEF Next, Terminated, Loader
<1> QED
  BY <1>1, <1>2, PTL DEF Spec

(***************************************************************************)
(* The loader only adds pages, and moves the empty heap only upwards.      *)
(***************************************************************************)
LEMMA LoaderGrows == IInv /\ HeapEmpty /\ Loader => Grows
<1> SUFFICES ASSUME IInv, HeapEmpty, Loader PROVE Grows
  OBVIOUS
<1>1. brk_heap_start \in Nat /\ brk_heap_end \in Nat
  BY WrapFacts DEF IInv, TypeOK
<1>2. brk_heap_start >= brk_heap_start /\ brk_heap_end >= brk_heap_end
  BY <1>1
<1>3. proc = "loading" /\ brk_heap_end = brk_heap_start
  BY DEF Loader, SkipHeader, LoadSegment, LoadStack, LoaderAborts, Loading,
     HeapEmpty
<1>4. CASE SkipHeader \/ LoaderAborts
  BY <1>2, <1>3, <1>4 DEF SkipHeader, LoaderAborts, heapVars, Grows
<1>5. CASE LoadSegment
  <2> DEFINE p == phdrs[loaded + 1]
             mapped == Allocated(bytes, p.vaddr, p.memsz)
             zeroed == SetTo(mapped, p.vaddr, p.memsz, 0)
             end == Wrap(p.vaddr + p.memsz)
  <2>1. bytes' = SetTo(zeroed, p.vaddr, p.filesz, 1) /\ HeapAbove(end)
    BY <1>5 DEF LoadSegment
  <2>2. DOMAIN bytes' = DOMAIN zeroed /\ DOMAIN zeroed = DOMAIN mapped
    BY <2>1, SetToFacts
  <2>3. DOMAIN bytes \subseteq DOMAIN mapped
    BY AllocatedTyped DEF IInv, TypeOK
  <2>4. \/ /\ end > brk_heap_start
           /\ brk_heap_start' = end /\ brk_heap_end' = end
        \/ UNCHANGED <<brk_heap_start, brk_heap_end>>
    BY <2>1 DEF HeapAbove
  <2>5. end \in Int
    <3>1. p.vaddr \in Nat /\ p.memsz \in Nat
      <4>1. phdrs \in Executables /\ loaded + 1 \in 1 .. Len(phdrs)
        BY <1>5, SystemCallsAssumption DEF LoadSegment, Loading, IInv, TypeOK
      <4> QED
        BY <4>1, HeaderFacts
    <3> HIDE DEF p
    <3>2. p.vaddr + p.memsz \in Int /\ AddressCard \in Nat \ {0}
      BY <3>1, SystemCallsAssumption
    <3> QED
      BY <3>2 DEF Wrap
  <2> HIDE DEF p, mapped, zeroed, end
  <2>6. brk_heap_start' >= brk_heap_start /\ brk_heap_end' >= brk_heap_end
    BY <1>1, <1>3, <2>4, <2>5
  <2> QED
    BY <1>3, <2>2, <2>3, <2>6 DEF Grows
<1>6. CASE LoadStack
  <2> DEFINE mapped == Allocated(bytes, StackBottom, StackLen)
             cleared == SetTo(mapped, StackBottom, StackLen, 0)
  <2>1. PICK values : bytes' = Copied(cleared, NamePtr - VectorSize, values)
    BY <1>6 DEF LoadStack
  <2>2. DOMAIN bytes' = DOMAIN cleared /\ DOMAIN cleared = DOMAIN mapped
    BY <2>1, SetToFacts, CopiedFacts
  <2>3. DOMAIN bytes \subseteq DOMAIN mapped
    BY AllocatedTyped DEF IInv, TypeOK
  <2>4. UNCHANGED heapVars
    BY <1>6 DEF LoadStack
  <2> QED
    BY <1>2, <1>3, <2>2, <2>3, <2>4 DEF heapVars, Grows
<1> QED
  BY <1>4, <1>5, <1>6 DEF Loader

(***************************************************************************)
(* A call only adds pages, and brk only raises the break.                  *)
(***************************************************************************)
LEMMA ServeGrows == IInv /\ Serve => Grows
<1> SUFFICES ASSUME IInv, Serve PROVE Grows
  OBVIOUS
<1>1. /\ brk_heap_start >= brk_heap_start /\ brk_heap_end >= brk_heap_end
      /\ brk_heap_start \in Nat /\ brk_heap_end \in Nat
  BY WrapFacts DEF IInv, TypeOK
<1>2. CASE WritevRound \/ IoctlAborts \/ Mmap2Aborts \/ Crash
  <2>1. UNCHANGED <<bytes, heapVars>>
    BY <1>2 DEF WritevRound, IoctlAborts, Mmap2Aborts, Crash, End
  <2> QED
    BY <1>1, <2>1 DEF Grows, heapVars
<1>3. CASE \/ Read \/ Write \/ WritevReturn \/ Open \/ Ioctl \/ ClockGettime
           \/ Brk \/ Mmap2
  <2>1. Returns
    BY <1>3 DEF Read, Write, WritevReturn, Open, Ioctl, ClockGettime, Brk, Mmap2,
       FillStruct, HostRefuses, Return, Serving, Returns
  <2>2. DOMAIN bytes \subseteq DOMAIN bytes'
    BY <2>1, ReturnsConfined DEF Next, Confined
  <2>3. brk_heap_start' = brk_heap_start
    BY <1>3 DEF Read, Write, WritevReturn, Open, Ioctl, ClockGettime, Brk, Mmap2,
       FillStruct, HostRefuses, heapVars
  <2>4. brk_heap_end' >= brk_heap_end
    <3>1. CASE Brk
      <4>1. brk_heap_end' = brk_heap_end \/ brk_heap_end' > brk_heap_end
        BY <3>1 DEF Brk
      <4>2. call.address \in Nat /\ brk_heap_end' \in {brk_heap_end, call.address}
        <5>1. call.address \in Address
          BY <3>1, Arguments DEF Brk, Serving
        <5> QED
          BY <3>1, <5>1, WrapFacts DEF Brk
      <4> QED
        BY <1>1, <4>1, <4>2
    <3>2. CASE brk_heap_end' = brk_heap_end
      BY <1>1, <3>2
    <3> QED
      BY <1>3, <3>1, <3>2 DEF Read, Write, WritevReturn, Open, Ioctl, ClockGettime,
         Mmap2, FillStruct, HostRefuses, heapVars
  <2> QED
    BY <1>1, <2>1, <2>2, <2>3, <2>4 DEF Grows
<1> QED
  BY <1>2, <1>3 DEF Serve

(***************************************************************************)
(* No step takes memory from the guest (memory_allocate in memory.c,       *)
(* loader_load_segments, mips_syscall_brk, mips_syscall_mmap2).            *)
(***************************************************************************)
THEOREM MemoryOnlyGrows == Spec => MemoryGrows
<1>1. IInv /\ HeapEmpty /\ [Next \/ Terminated]_vars => [Grows]_vars
  <2> SUFFICES ASSUME IInv, HeapEmpty, Next PROVE Grows
    BY DEF Terminated
  <2>1. CASE Guest
    <3>1. UNCHANGED <<bytes, heapVars>>
      BY <2>1 DEF Guest, RequestSpace, RequestTransfer, RequestStruct,
         RequestVector, Request
    <3>2. brk_heap_start >= brk_heap_start /\ brk_heap_end >= brk_heap_end
      BY WrapFacts DEF IInv, TypeOK
    <3> QED
      BY <3>1, <3>2 DEF Grows, heapVars
  <2> QED
    BY <2>1, LoaderGrows, ServeGrows DEF Next
<1>2. [][Grows]_vars => MemoryGrows
  BY PTL DEF MemoryGrows, Grows
<1> QED
  BY <1>1, <1>2, Invariance, HeapStartsEmpty, PTL DEF Spec

(***************************************************************************)
(* Nothing goes on for ever below the guest: the loader goes through the   *)
(* headers one by one, and a call that is under way returns, ends the      *)
(* process or, in writev, goes on to the next buffer; no other call begins *)
(* before it has returned.                                                 *)
(***************************************************************************)
CallsServed ==
    [][/\ proc = "loading" => loaded' = loaded + 1 \/ proc' # "loading"
       /\ proc = "running" /\ call = NULL => calls' = calls + 1
       /\ call # NULL =>
            \/ call' = NULL
            \/ proc' # "running"
            \/ /\ call.op = "writev" /\ call' = call
               /\ round.c < Len(call.iovs) /\ round'.c = round.c + 1]_vars

(***************************************************************************)
(* Each step of the loader and of a call brings its end nearer             *)
(* (loader_load_segments, mips_syscall_writev).                            *)
(***************************************************************************)
THEOREM CallsEnd == Spec => CallsServed
<1> DEFINE Served ==
        /\ proc = "loading" => loaded' = loaded + 1 \/ proc' # "loading"
        /\ proc = "running" /\ call = NULL => calls' = calls + 1
        /\ call # NULL =>
             \/ call' = NULL
             \/ proc' # "running"
             \/ /\ call.op = "writev" /\ call' = call
                /\ round.c < Len(call.iovs) /\ round'.c = round.c + 1
<1>1. IInv /\ CountOK /\ [Next \/ Terminated]_vars => [Served]_vars
  <2> SUFFICES ASSUME IInv, CountOK, Next PROVE Served
    BY DEF Terminated
  <2>1. CASE Loader
    <3>1. /\ proc = "loading"
          /\ loaded' = loaded + 1 \/ proc' # "loading"
      BY <2>1 DEF Loader, SkipHeader, LoadSegment, LoadStack, LoaderAborts, Loading
    <3>2. call = NULL
      BY <3>1 DEF CountOK
    <3> QED
      BY <3>1, <3>2
  <2>2. CASE Guest
    <3>1. PICK op, a, n, iovs : Request(op, a, n, iovs)
      BY <2>2 DEF Guest, RequestSpace, RequestTransfer, RequestStruct, RequestVector
    <3>2. proc = "running" /\ call = NULL /\ calls' = calls + 1
      BY <3>1 DEF Request
    <3> QED
      BY <3>2
  <2>3. CASE Serve
    <3>1. proc = "running" /\ call # NULL
      BY <2>3 DEF Serve, Read, Write, WritevRound, WritevReturn, Open, Ioctl,
         IoctlAborts, ClockGettime, Brk, Mmap2, Mmap2Aborts, Crash, Serving
    <3>2. CASE WritevRound
      <4>1. /\ call.op = "writev" /\ call' = call /\ round.c < Len(call.iovs)
            /\ \E total : round' = [c |-> round.c + 1, total |-> total]
        BY <3>2 DEF WritevRound, Serving
      <4> QED
        BY <3>1, <4>1
    <3>3. CASE IoctlAborts \/ Mmap2Aborts \/ Crash
      BY <3>1, <3>3 DEF IoctlAborts, Mmap2Aborts, Crash, End
    <3>4. CASE \/ Read \/ Write \/ WritevReturn \/ Open \/ Ioctl \/ ClockGettime
               \/ Brk \/ Mmap2
      <4>1. call' = NULL
        BY <3>4 DEF Read, Write, WritevReturn, Open, Ioctl, ClockGettime, Brk,
           Mmap2, FillStruct, HostRefuses, Return
      <4> QED
        BY <3>1, <4>1
    <3> QED
      BY <2>3, <3>2, <3>3, <3>4 DEF Serve
  <2> QED
    BY <2>1, <2>2, <2>3 DEF Next
<1> QED
  BY <1>1, CountStays, Invariance, PTL DEF Spec, CallsServed
============================================================================
