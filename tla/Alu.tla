-------------------------------- MODULE Alu --------------------------------
(***************************************************************************)
(* What the arithmetic instructions compute (instructions.h), as operators *)
(* of the instruction's name and its two inputs: a is r[rs] (the shift     *)
(* amount for sll, srl and sra), b is r[rt] (the immediate for the ALU_IMM *)
(* and LUI classes).  Writes says whether the destination is written at    *)
(* all: the trapping instructions leave it alone, and do nothing else.     *)
(***************************************************************************)
EXTENDS Words

CONSTANTS WordBits    \* 32 in the code

\* Powers of two.
Pow2[n \in Nat] == IF n = 0 THEN 1 ELSE 2 * Pow2[n - 1]

ASSUME AluWidth == /\ WordBits \in Nat \ {0}
                   /\ WordCard = Pow2[WordBits]

Flag(p) == IF p THEN 1 ELSE 0

------------------------------------------------------------------------------
\* The host's bitwise operators, on the binary digits of a word.

Digit(x, k) == (x \div Pow2[k]) % 2

\* The number with n digits of w bits each, d[0] the lowest.
FromDigits(d, w, n) ==
    LET low[k \in 0 .. n] ==
            IF k = 0 THEN 0 ELSE low[k - 1] + d[k - 1] * Pow2[w * (k - 1)]
    IN  low[n]

OfBits(d) == FromDigits(d, 1, WordBits)

And(a, b) == OfBits([k \in 0 .. WordBits - 1 |-> Digit(a, k) * Digit(b, k)])
Or(a, b)  == OfBits([k \in 0 .. WordBits - 1 |->
                         Flag(Digit(a, k) + Digit(b, k) > 0)])
Xor(a, b) == OfBits([k \in 0 .. WordBits - 1 |->
                         (Digit(a, k) + Digit(b, k)) % 2])

Not(a) == WordCard - 1 - a

\* A shift amount has five bits: the sh field, or value_rs & 0x1f.
ShiftAmount(a) == a % WordBits

ShiftLeft(b, sh)       == U32(b * Pow2[sh])
ShiftRight(b, sh)      == b \div Pow2[sh]

\* A mutated form of ShiftRightArith: the cast to s32 is missing.
ShiftRightUncast(b, sh) == b \div Pow2[sh]

ShiftRightArith(b, sh) == U32(S32(b) \div Pow2[sh])

------------------------------------------------------------------------------
\* add and addi compare a sum formed in 64 bits with U32MAX, sub a difference
\* of zero-extended operands with S32MIN.
S32Min == -(WordCard \div 2)

Writes(op, a, b) ==
    CASE op = "add"  -> a + b <= WordCard - 1
      [] op = "addi" -> a + S16(b) <= WordCard - 1
      [] op = "sub"  -> a - b >= S32Min
      [] OTHER       -> TRUE

Value(op, a, b) ==
    CASE op \in {"sll", "sllv"} -> ShiftLeft(b, ShiftAmount(a))
      [] op \in {"srl", "srlv"} -> ShiftRight(b, ShiftAmount(a))
      [] op \in {"sra", "srav"} -> ShiftRightArith(b, ShiftAmount(a))
      [] op \in {"add", "addu"} -> U32(a + b)
      [] op \in {"sub", "subu"} -> U32(a - b)
      [] op = "slt"  -> Flag(S32(a) < S32(b))
      [] op = "sltu" -> Flag(a < b)
      [] op = "and"  -> And(a, b)
      [] op = "or"   -> Or(a, b)
      [] op = "xor"  -> Xor(a, b)
      [] op = "nor"  -> Not(Or(a, b))
      [] op \in {"addi", "addiu"} -> U32(a + S16(b))
      [] op = "slti"  -> Flag(S32(a) < S16(b))
      [] op = "sltiu" -> Flag(a < U32(S16(b)))
      [] op = "andi"  -> And(a, b)
      [] op = "ori"   -> Or(a, b)
      [] op = "xori"  -> Xor(a, b)
      [] op = "lui"   -> U32(b * ImmCard)

------------------------------------------------------------------------------
\* hi and lo after the four multiply and divide instructions.

\* A mutated form of Product: the casts to s32 are missing.
ProductUncast(op, a, b) == a * b

Product(op, a, b) == IF op = "mult" THEN S32(a) * S32(b) ELSE a * b

\* A mutated form of Divided: quotient and remainder swapped.
DividedSwapped(a, b) == [lo |-> a % b, hi |-> a \div b]

\* div takes it of the unsigned operands too, as the code does.
Divided(a, b) == [lo |-> a \div b, hi |-> a % b]

MultDiv(op, a, b) ==
    CASE op \in {"mult", "multu"} ->
             [lo |-> U32(Product(op, a, b)),
              hi |-> U32(Product(op, a, b) \div WordCard)]
      [] op = "div" /\ b = 0 ->
             [lo |-> IF S32(a) > 0 THEN WordCard - 1 ELSE 1, hi |-> a]
      [] op = "div" /\ b # 0 /\ S32(b) = -1 /\ S32(a) = S32Min ->
             [lo |-> U32(S32Min), hi |-> 0]
      [] op = "div" /\ b # 0 /\ ~(S32(b) = -1 /\ S32(a) = S32Min) ->
             Divided(a, b)
      [] op = "divu" /\ b = 0 -> [lo |-> WordCard - 1, hi |-> a]
      [] op = "divu" /\ b # 0 -> Divided(a, b)
============================================================================
