----------------------------- MODULE CpuProofs -----------------------------
(***************************************************************************)
(* What every interpreter needs to know of one instruction: the state it   *)
(* leaves is well typed, and an instruction that is not a branch leaves    *)
(* the branched flag alone.                                                *)
(***************************************************************************)
EXTENDS Cpu, TLAPS

(***************************************************************************)
(* Words are integers, and what they decode to is an instruction.          *)
(***************************************************************************)
LEMMA WordFacts ==
  /\ 0 \in Word /\ Mapped \subseteq Word
  /\ \A w \in Word : w \in Int /\ Instr[w] \in Instruction
BY WordAssumption, CpuAssumption DEF Word

(***************************************************************************)
(* A conversion to u32 yields a word, for negative numbers too.            *)
(***************************************************************************)
LEMMA U32Word ==
  ASSUME NEW x \in Int
  PROVE  U32(x) \in Word
BY WordAssumption DEF U32, Word

(***************************************************************************)
(* A remainder is the only one below the divisor.                          *)
(***************************************************************************)
LEMMA RemainderUnique ==
  ASSUME NEW w \in Nat, w > 0, NEW q \in Int, NEW k \in 0 .. w - 1
  PROVE  (w * q + k) % w = k
<1> DEFINE y == w * q + k
           p == y \div w
           m == y % w
<1>1. y \in Int
  OBVIOUS
<1> HIDE DEF y
<1>2. p \in Int /\ m \in 0 .. w - 1 /\ y = w * p + m
  BY <1>1
<1>3. y = w * q + k
  BY DEF y
<1> HIDE DEF p, m
<1>4. w * p - w * q = k - m
  BY <1>2, <1>3
<1>5. w * p - w * q = w * (p - q)
  BY <1>2
<1>6. CASE p = q
  BY <1>2, <1>4, <1>6 DEF m, y
<1>7. CASE p - q >= 1
  <2>1. w * (p - q) >= w
    BY <1>2, <1>7
  <2> QED
    BY <1>2, <1>4, <1>5, <2>1
<1>8. CASE q - p >= 1
  <2>1. w * (q - p) >= w
    BY <1>2, <1>8
  <2>2. w * (q - p) = m - k
    BY <1>2, <1>4
  <2> QED
    BY <1>2, <2>1, <2>2
<1> QED
  BY <1>2, <1>6, <1>7, <1>8

(***************************************************************************)
(* Stepping on from a sum that wrapped is stepping on from the sum.        *)
(***************************************************************************)
LEMMA U32Succ ==
  ASSUME NEW x \in Int
  PROVE  U32(U32(x) + 1) = U32(x + 1)
<1>1. WordCard \in Nat /\ WordCard > 0
  BY WordAssumption
<1> DEFINE q == x \div WordCard
           m == x % WordCard
<1>2. q \in Int /\ m \in 0 .. WordCard - 1 /\ x = WordCard * q + m
  BY <1>1
<1> HIDE DEF q
<1>3. CASE m + 1 < WordCard
  <2>1. x + 1 = WordCard * q + (m + 1) /\ m + 1 \in 0 .. WordCard - 1
    BY <1>1, <1>2, <1>3
  <2>2. (x + 1) % WordCard = m + 1
    BY <1>1, <1>2, <2>1, RemainderUnique
  <2>3. (m + 1) % WordCard = m + 1
    BY <1>1, <1>2, <1>3
  <2> QED
    BY <2>2, <2>3 DEF U32
<1>4. CASE m + 1 = WordCard
  <2>1. x + 1 = WordCard * (q + 1) + 0 /\ 0 \in 0 .. WordCard - 1 /\ q + 1 \in Int
    BY <1>1, <1>2, <1>4
  <2>2. (x + 1) % WordCard = 0
    BY <1>1, <2>1, RemainderUnique
  <2>3. (m + 1) % WordCard = 0
    BY <1>1, <1>4
  <2> QED
    BY <2>2, <2>3 DEF U32
<1> QED
  BY <1>1, <1>2, <1>3, <1>4

(***************************************************************************)
(* The signed readings of words and immediates are integers.               *)
(***************************************************************************)
LEMMA SignedInt ==
  ASSUME NEW x \in Word
  PROVE  S32(x) \in Int /\ S16(x) \in Int
BY WordAssumption DEF S32, S16, Word

(***************************************************************************)
(* The addresses an instruction computes are words.                        *)
(***************************************************************************)
LEMMA TargetsWord ==
  ASSUME CpuTypeOK, NEW i \in Instruction, NEW at \in Word,
         NEW taken \in BOOLEAN
  PROVE  /\ FallThrough(at) \in Word
         /\ DirectTarget(i, at, taken) \in Word
         /\ Address(i) \in Word
<1>1. at \in Int /\ i.imm \in Word /\ i.imm \in Int /\ i.rs \in Reg
  BY WordAssumption DEF Word, Instruction, Reg
<1>2. S16(i.imm) \in Int
  BY <1>1, SignedInt
<1>3. r[i.rs] \in Int
  BY <1>1, WordAssumption DEF CpuTypeOK, Word
<1>4. at % RegionCard \in Int
  BY <1>1, CpuAssumption
<1>5. FallThrough(at) \in Word
  BY <1>1, U32Word DEF FallThrough
<1>6. BranchTarget(i, at) \in Word
  BY <1>1, <1>2, U32Word DEF BranchTarget
<1>7. JumpTarget(i, at) \in Word
  BY <1>1, <1>4, U32Word DEF JumpTarget
<1>8. Address(i) \in Word
  BY <1>2, <1>3, U32Word DEF Address
<1> QED
  BY <1>5, <1>6, <1>7, <1>8 DEF DirectTarget

(***************************************************************************)
(* A branch is taken or not.                                               *)
(***************************************************************************)
LEMMA TakenBoolean ==
  ASSUME NEW i
  PROVE  Taken(i) \in BOOLEAN
BY DEF Taken

(***************************************************************************)
(* NNPC stays a word.                                                      *)
(***************************************************************************)
LEMMA NNPCWord ==
  ASSUME CpuTypeOK, NEW i \in Instruction, NEW at \in Word, NEW nn \in Word
  PROVE  NNPCAfter(i, at, nn) \in Word
<1>1. CASE i.op \in IndirectOps
  BY <1>1 DEF NNPCAfter, CpuTypeOK, Instruction, Reg
<1>2. CASE i.op \notin IndirectOps /\ i.op \in BranchOps
  BY <1>2, TakenBoolean, TargetsWord DEF NNPCAfter
<1>3. CASE i.op \notin BranchOps
  BY <1>3 DEF NNPCAfter, BranchOps
<1> QED
  BY <1>1, <1>2, <1>3

(***************************************************************************)
(* Assigning a word to a register keeps the register file typed.           *)
(***************************************************************************)
LEMMA AssignWord ==
  ASSUME CpuTypeOK, NEW x \in Reg, NEW v \in Word, Assign(x, v)
  PROVE  r' \in [Reg -> Word]
BY DEF CpuTypeOK, Assign

(***************************************************************************)
(* Only branches touch the branched flag, and a branch sets it to whether  *)
(* it was taken.                                                           *)
(***************************************************************************)
LEMMA BranchedAfter ==
  ASSUME NEW i, NEW at, Execute(i, at)
  PROVE  branched' = IF i.op \in BranchOps THEN Taken(i) ELSE branched
BY Zenon DEF Execute, AluReg, ShiftImm, AluImm, Compute, MultDivide, Move, Branch,
       Load, Store, ReadHardware, Special, SystemCall, Exit, SetThread,
       Protect, HostCall, AluRegOps, ShiftImmOps, AluImmOps, MultDivOps,
       LoadOps, StoreOps, BranchOps, CondBranchOps, JumpOps, IndirectOps,
       cpuVars

GuestTypeOK ==
    /\ r \in [Reg -> Word]
    /\ branched \in BOOLEAN
    /\ halted \in BOOLEAN
    /\ status \in Word
    /\ thread \in [tidptr : Word, user_local_ptr : Word]
    /\ memory \in [Mapped -> Word]

(***************************************************************************)
(* A system call leaves a well-typed guest.                                *)
(***************************************************************************)
LEMMA SystemCallTyped ==
  ASSUME CpuTypeOK, NEW i \in Instruction, SystemCall(i)
  PROVE  GuestTypeOK'
<1> DEFINE name == SyscallOf[r["v0"]]
<1>1. /\ {"v0", "a0", "a3"} \subseteq Reg
      /\ {0, 1} \subseteq Word
      /\ r["a0"] \in Word
  BY CpuAssumption DEF CpuTypeOK, Reg
<1>2. CASE Exit(name)
  BY <1>1, <1>2 DEF Exit, CpuTypeOK, GuestTypeOK
<1>3. CASE SetThread(name)
  <2>1. r' \in [Reg -> Word]
    BY <1>1, <1>3, AssignWord DEF SetThread
  <2>2. thread' \in [tidptr : Word, user_local_ptr : Word]
    BY <1>1, <1>3 DEF SetThread, CpuTypeOK
  <2> QED
    BY <1>3, <2>1, <2>2 DEF SetThread, CpuTypeOK, GuestTypeOK
<1>4. CASE Protect(name)
  BY <1>1, <1>4 DEF Protect, CpuTypeOK, GuestTypeOK
<1>5. CASE HostCall(name)
  <2>1. PICK v \in HostResult : Assign("v0", v)
    BY <1>5 DEF HostCall
  <2>2. r' \in [Reg -> Word]
    BY <1>1, <2>1, AssignWord, CpuAssumption
  <2> QED
    BY <1>5, <2>2 DEF HostCall, CpuTypeOK, GuestTypeOK
<1> QED
  BY <1>2, <1>3, <1>4, <1>5 DEF SystemCall

(***************************************************************************)
(* Every instruction leaves a well-typed guest.                            *)
(***************************************************************************)
LEMMA ExecuteTyped ==
  ASSUME CpuTypeOK, NEW i \in Instruction, NEW at \in Word, Execute(i, at)
  PROVE  GuestTypeOK'
<1>1. /\ {i.rs, i.rt, i.rd, "hi", "lo", "ra"} \subseteq Reg
      /\ i.imm \in Word
      /\ r[i.rs] \in Word /\ r[i.rt] \in Word
      /\ r["hi"] \in Word /\ r["lo"] \in Word
      /\ {0, 1} \subseteq Word
  BY CpuAssumption DEF CpuTypeOK, Instruction, Reg
<1>2. ASSUME NEW x \in Reg, NEW a \in Word, NEW b \in Word,
             i.op \in AluRegOps \cup ShiftImmOps \cup AluImmOps,
             Compute(x, i.op, a, b)
      PROVE  GuestTypeOK'
  <2>1. AluValue(i.op, a, b) \in Word
    BY <1>2, AluAssumption
  <2>2. r' \in [Reg -> Word]
    BY <1>2, <2>1, AssignWord DEF Compute, CpuTypeOK
  <2> QED
    BY <1>2, <2>2 DEF Compute, CpuTypeOK, GuestTypeOK
<1>3. CASE AluReg(i) \/ ShiftImm(i) \/ AluImm(i)
  BY <1>1, <1>2, <1>3 DEF AluReg, ShiftImm, AluImm
<1>4. CASE MultDivide(i)
  <2>1. MultDivValue(i.op, r[i.rs], r[i.rt]) \in [hi : Word, lo : Word]
    BY <1>1, <1>4, AluAssumption DEF MultDivide
  <2> QED
    BY <1>1, <1>4, <2>1 DEF MultDivide, CpuTypeOK, GuestTypeOK
<1>5. CASE Move(i)
  <2>1. r' \in [Reg -> Word]
    BY <1>1, <1>5, AssignWord DEF Move
  <2> QED
    BY <1>5, <2>1 DEF Move, CpuTypeOK, GuestTypeOK
<1>6. CASE Branch(i, at)
  <2>1. r' \in [Reg -> Word]
    BY <1>1, <1>6, AssignWord, TargetsWord DEF Branch, CpuTypeOK
  <2> QED
    BY <1>6, <2>1, TakenBoolean DEF Branch, CpuTypeOK, GuestTypeOK
<1>7. CASE Load(i)
  <2>1. r' \in [Reg -> Word]
    BY <1>1, <1>7, AssignWord DEF Load, CpuTypeOK
  <2> QED
    BY <1>7, <2>1 DEF Load, CpuTypeOK, GuestTypeOK
<1>8. CASE Store(i)
  <2>1. r' \in [Reg -> Word]
    BY <1>1, <1>8, AssignWord DEF Store, CpuTypeOK
  <2>2. memory' \in [Mapped -> Word]
    BY <1>1, <1>8 DEF Store, CpuTypeOK
  <2> QED
    BY <1>8, <2>1, <2>2 DEF Store, CpuTypeOK, GuestTypeOK
<1>9. CASE ReadHardware(i)
  <2>1. r' \in [Reg -> Word]
    BY <1>1, <1>9, AssignWord DEF ReadHardware, CpuTypeOK
  <2> QED
    BY <1>9, <2>1 DEF ReadHardware, CpuTypeOK, GuestTypeOK
<1>10. CASE Special(i)
  BY <1>10 DEF Special, cpuVars, CpuTypeOK, GuestTypeOK
<1>11. CASE SystemCall(i)
  BY <1>11, SystemCallTyped
<1> QED
  BY <1>3, <1>4, <1>5, <1>6, <1>7, <1>8, <1>9, <1>10, <1>11 DEF Execute
============================================================================
