------------------------------ MODULE AluLaws ------------------------------
(***************************************************************************)
(* The arithmetic of Alu and the accesses of Datapath against independent  *)
(* definitions.  A state is one pair of words: two operands, or two words  *)
(* of memory.                                                              *)
(***************************************************************************)
EXTENDS Datapath

CONSTANT Samples    \* bounds the second word of a pair

ASSUME SamplesAssumption == Samples \subseteq Word

VARIABLES a, b

Init == a \in Word /\ b \in Samples
Next == UNCHANGED <<a, b>>
Spec == Init /\ [][Next]_<<a, b>>

MostNegative == WordCard \div 2

(***************************************************************************)
(* hi and lo together hold the exact product, of the signed readings for   *)
(* mult and of the words themselves for multu.                             *)
(***************************************************************************)
MultiplyExact ==
    LET signed   == MultDiv("mult", a, b)
        unsigned == MultDiv("multu", a, b)
    IN  /\ S32(signed.hi) * WordCard + signed.lo = S32(a) * S32(b)
        /\ unsigned.hi * WordCard + unsigned.lo = a * b

(***************************************************************************)
(* divu is Euclidean division, and total: by zero it leaves the dividend   *)
(* in hi and all ones in lo.                                               *)
(***************************************************************************)
DivideExact ==
    LET v == MultDiv("divu", a, b)
    IN  IF b = 0 THEN v = [lo |-> WordCard - 1, hi |-> a]
        ELSE a = v.lo * b + v.hi /\ v.hi \in 0 .. b - 1

(***************************************************************************)
(* slt and sltu are one order, seen from words whose sign bit is flipped;  *)
(* subtraction agrees with it wherever it does not overflow.               *)
(***************************************************************************)
OrderAgrees ==
    /\ Value("slt", a, b)
         = Value("sltu", Xor(a, MostNegative), Xor(b, MostNegative))
    /\ S32(a) - S32(b) \in S32Min .. MostNegative - 1 =>
         Value("slt", a, b) = Flag(S32(Value("subu", a, b)) < 0)

(***************************************************************************)
(* sra is srl with the vacated digits filled with the sign; a shift takes  *)
(* its amount modulo the word's width.                                     *)
(***************************************************************************)
ShiftsAgree ==
    LET filled == Not(Value("srlv", a, WordCard - 1))
    IN  /\ Value("srav", a, b) = Or(Value("srlv", a, b),
                                    IF S32(b) < 0 THEN filled ELSE 0)
        /\ Value("sllv", a, b) \div Pow2[a % WordBits]
             = b % Pow2[WordBits - (a % WordBits)]

\* Two words of memory: the bytes of a, then those of b.
Memory == [x \in 0 .. 7 |-> ((IF x < 4 THEN a ELSE b)
                                \div Pow2[ByteBits * (x % 4)]) % ByteCard]

(***************************************************************************)
(* lwr at an address and lwl at the address three above load the unaligned *)
(* word there, in either order and whatever the register held: the pair    *)
(* compilers emit for an unaligned word, with masks and shifts that have   *)
(* to meet without a gap.                                                  *)
(***************************************************************************)
UnalignedPair ==
    \A x \in 0 .. 4, old \in {0, WordCard - 1, b} :
        LET right == Loaded("lwr", Memory, x, old)
            left  == Loaded("lwl", Memory, x + 3, old)
        IN  /\ Loaded("lwl", Memory, x + 3, right) = Little(Memory, x, 4)
            /\ Loaded("lwr", Memory, x, left) = Little(Memory, x, 4)

(***************************************************************************)
(* Narrow and wide accesses agree: a half is its two bytes, a word its two *)
(* halves; lb and lh of the last bytes of a word are the word shifted      *)
(* right with its sign; and a stored byte or half is what the next load    *)
(* finds, with its neighbours as they were.                                *)
(***************************************************************************)
AccessesCompose ==
    LET L(op, mem, x) == Loaded(op, mem, x, 0)
    IN  \A x \in 0 .. 4 :
          /\ L("lb", Memory, x + 3)
               = Value("srav", 3 * ByteBits, L("lw", Memory, x))
          /\ L("lh", Memory, x + 2)
               = Value("srav", 2 * ByteBits, L("lw", Memory, x))
          /\ L("lw", Memory, x)
               = L("lhu", Memory, x + 2) * HalfCard + L("lhu", Memory, x)
          /\ L("lhu", Memory, x)
               = L("lbu", Memory, x + 1) * ByteCard + L("lbu", Memory, x)
          /\ L("lw", Stored("sh", Memory, x, b), x)
               = L("lhu", Memory, x + 2) * HalfCard + (b % HalfCard)
          /\ L("lhu", Stored("sb", Memory, x, b), x)
               = L("lbu", Memory, x + 1) * ByteCard + (b % ByteCard)
          /\ L("ll", Stored("sc", Memory, x, b), x) = b

(***************************************************************************)
(* The most negative word minus one overflows and leaves the destination   *)
(* as it was: test_sub_overflow in tests/test_alu_reg.h runs sub on these  *)
(* operands and expects the register to keep its zero.                     *)
(***************************************************************************)
SubTrapsOnOverflow == a = MostNegative /\ b = 1 => ~Writes("sub", a, b)
============================================================================
