------------------------------- MODULE Words -------------------------------
(***************************************************************************)
(* The machine integers of the interpreters (common.h): u32 words, which   *)
(* wrap, their signed reading s32, and 16-bit immediates read through s16. *)
(* The code fixes WordCard = 2^32 and ImmCard = 2^16; the runs use narrow  *)
(* words, so that every wrap and every sign change happens.                *)
(***************************************************************************)
EXTENDS Integers

CONSTANTS WordCard,   \* number of values of a u32
          ImmCard     \* number of values of a u16 immediate

ASSUME WordAssumption == /\ WordCard \in Nat \ {0}
                         /\ ImmCard \in 1 .. WordCard

Word == 0 .. WordCard - 1
Imm  == 0 .. ImmCard - 1

\* A C conversion to u32.
U32(x) == x % WordCard

\* A mutated form of S32: the sign boundary is off by one.
S32OffByOne(x) == IF 2 * x <= WordCard THEN x ELSE x - WordCard

\* The value of a word read as s32, and of an immediate read as s16.
S32(x) == IF 2 * x < WordCard THEN x ELSE x - WordCard
S16(x) == IF 2 * x < ImmCard THEN x ELSE x - ImmCard
============================================================================
