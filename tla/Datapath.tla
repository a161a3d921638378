------------------------------ MODULE Datapath ------------------------------
(***************************************************************************)
(* What the load and store instructions move between a register and bytes  *)
(* of guest memory (instructions.h, the build without load delays), as     *)
(* operators of the instruction's name, the memory and the address.  The   *)
(* host is little endian, as the guest is.  mem holds every address the    *)
(* instruction touches; accesses at the end of a page are Paging's.        *)
(***************************************************************************)
EXTENDS Alu

ByteBits == WordBits \div 4
ByteCard == Pow2[ByteBits]
HalfCard == ByteCard * ByteCard

ASSUME DatapathAssumption == WordBits % 4 = 0

\* A mutated form of SignExtended: the cast to a signed type is missing.
ZeroExtended(x, card) == x

SignExtended(x, card) == U32(IF 2 * x < card THEN x ELSE x - card)

\* The n bytes of mem from a on, read through a pointer to an integer.
Little(mem, a, n) ==
    FromDigits([k \in 0 .. n - 1 |-> mem[a + k]], ByteBits, n)

\* address & ~3 and (address & 3) << 3
Aligned(a)   == a - (a % 4)
ShiftOf(a)   == (a % 4) * ByteBits
AlignedWord(mem, a) == Little(mem, Aligned(a), 4)

\* The bits of old outside mask, and new.
Merged(old, mask, new) == Or(And(old, Not(mask)), new)

\* A mutated form of LoadRight: the mask keeps nothing of the register.
LoadRightWhole(mem, a, old) == ShiftRight(AlignedWord(mem, a), ShiftOf(a))

LoadRight(mem, a, old) ==
    Merged(old, ShiftRight(WordCard - 1, ShiftOf(a)),
           ShiftRight(AlignedWord(mem, a), ShiftOf(a)))

LoadLeft(mem, a, old) ==
    LET sh == 3 * ByteBits - ShiftOf(a)
    IN  Merged(old, ShiftLeft(WordCard - 1, sh),
               ShiftLeft(AlignedWord(mem, a), sh))

\* rt after a load from a; old is what it held.
Loaded(op, mem, a, old) ==
    CASE op = "lb"  -> SignExtended(Little(mem, a, 1), ByteCard)
      [] op = "lbu" -> Little(mem, a, 1)
      [] op = "lh"  -> SignExtended(Little(mem, a, 2), HalfCard)
      [] op = "lhu" -> Little(mem, a, 2)
      [] op \in {"lw", "ll"} -> Little(mem, a, 4)
      [] op = "lwl" -> LoadLeft(mem, a, old)
      [] op = "lwr" -> LoadRight(mem, a, old)

\* swl and swr are sw in the code.
StoreWidth(op) ==
    CASE op = "sb" -> 1
      [] op = "sh" -> 2
      [] op \in {"sw", "swl", "swr", "sc"} -> 4

\* mem after a store of rt, which is v, at a.
Stored(op, mem, a, v) ==
    [x \in DOMAIN mem |-> IF x \in a .. a + StoreWidth(op) - 1
                          THEN (v \div Pow2[ByteBits * (x - a)]) % ByteCard
                          ELSE mem[x]]
============================================================================
