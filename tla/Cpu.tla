-------------------------------- MODULE Cpu --------------------------------
(***************************************************************************)
(* The guest machine every interpreter shares: struct mips (mips.h), the   *)
(* guest memory (memory.h) and the effect of one instruction on them       *)
(* (instructions.h, syscalls.h).  The interpreters differ in how they find *)
(* the next instruction, so the program counters are theirs; an action of  *)
(* this module says what one handler body does to the rest of the state.   *)
(*                                                                         *)
(* Addresses count words: what the code writes PC + 4 is at + 1 here, and  *)
(* the shift of a branch offset by two disappears.  Byte and half-word     *)
(* accesses and the system calls that touch guest memory are not modelled  *)
(* here.                                                                   *)
(***************************************************************************)
EXTENDS Words

CONSTANTS
    GPR,            \* the general registers, named as in mips.h
    Instr,          \* decoding of an instruction word into its fields
    RegionCard,     \* words in the region a j or jal can reach (2^26)
    SyscallOf,      \* meaning of the number in v0 (syscall.h)
    HostResult,     \* results a host call can return
    Mapped,         \* addresses of the words that have a page
    Programs,       \* memory images the loader can leave
    InitialRegs,    \* the registers the loader leaves: gp and sp set, rest 0
    Entry,          \* e_entry of the executable
    AluWrites(_, _, _), AluValue(_, _, _), MultDivValue(_, _, _)

Reg == GPR \cup {"hi", "lo"}

\* The instruction classes, by the operand macro (ITP_TYPE_*) they share.
AluRegOps     == {"sllv", "srlv", "srav", "add", "addu", "sub", "subu",
                  "slt", "sltu", "and", "or", "xor", "nor"}
ShiftImmOps   == {"sll", "srl", "sra"}
AluImmOps     == {"addi", "addiu", "slti", "sltiu", "andi", "ori", "xori",
                  "lui"}
MultDivOps    == {"mult", "multu", "div", "divu"}
MoveOps       == {"mfhi", "mflo", "mthi", "mtlo"}
LoadOps       == {"lw", "ll"}
StoreOps      == {"sw", "swl", "swr", "sc"}
CondBranchOps == {"beq", "bne", "blez", "bgtz", "bltz", "bgez", "bltzal",
                  "bgezal"}
JumpOps       == {"j", "jal"}
IndirectOps   == {"jr", "jalr"}
LinkingOps    == {"bltzal", "bgezal", "jal"}
BranchOps     == CondBranchOps \cup JumpOps \cup IndirectOps
OtherOps      == {"syscall", "special", "rdhwr", "brk", "illegal"}
Op == AluRegOps \cup ShiftImmOps \cup AluImmOps \cup MultDivOps \cup MoveOps
      \cup LoadOps \cup StoreOps \cup BranchOps \cup OtherOps

Instruction == [op : Op, rs : GPR, rt : GPR, rd : GPR, imm : Word]

Syscall == {"exit", "exit_group", "set_thread_area", "set_tid_address",
            "mprotect", "munmap", "host", "unhandled"}

ASSUME CpuAssumption ==
    /\ {"zero", "v0", "a0", "a3", "ra"} \subseteq GPR
    /\ {"hi", "lo"} \cap GPR = {}
    /\ Instr \in [Word -> Instruction]
    /\ RegionCard \in Nat \ {0}
    /\ SyscallOf \in [Word -> Syscall]
    /\ HostResult \subseteq Word /\ HostResult # {}
    /\ Mapped \subseteq Word
    /\ Programs \subseteq [Mapped -> Word]
    /\ InitialRegs \in [Reg -> Word]
    /\ Entry \in Word
    /\ {0, 1} \subseteq Word

ASSUME AluAssumption ==
    \A a, b \in Word :
        /\ \A op \in AluRegOps \cup ShiftImmOps \cup AluImmOps :
               /\ AluWrites(op, a, b) \in BOOLEAN
               /\ AluValue(op, a, b) \in Word
        /\ \A op \in MultDivOps : MultDivValue(op, a, b) \in [hi : Word, lo : Word]

VARIABLES
    r,          \* the general registers, hi and lo
    branched,   \* set by a taken branch, cleared by one not taken
    halted,     \* set by exit and exit_group
    status,     \* the guest's exit status
    thread,     \* tidptr and user_local_ptr
    memory,     \* the mapped words
    proc,       \* the interpreter process: "running", "exited" or "crashed"
    exitcode    \* what main returned

cpuVars  == <<r, branched, halted, status, thread, memory>>
procVars == <<proc, exitcode>>

CpuTypeOK ==
    /\ r \in [Reg -> Word]
    /\ branched \in BOOLEAN
    /\ halted \in BOOLEAN
    /\ status \in Word
    /\ thread \in [tidptr : Word, user_local_ptr : Word]
    /\ memory \in [Mapped -> Word]
    /\ proc \in {"running", "exited", "crashed"}
    /\ exitcode \in Word

CpuInit ==
    /\ r = InitialRegs
    /\ branched = FALSE
    /\ halted = FALSE
    /\ status = 0
    /\ thread = [tidptr |-> 0, user_local_ptr |-> 0]
    /\ memory \in Programs
    /\ proc = "running"
    /\ exitcode = 0

------------------------------------------------------------------------------
\* Control transfers, for an instruction that sees the program counter at.

Taken(i) ==
    \/ i.op = "beq" /\ r[i.rs] = r[i.rt]
    \/ i.op = "bne" /\ r[i.rs] # r[i.rt]
    \/ i.op = "blez" /\ S32(r[i.rs]) <= 0
    \/ i.op = "bgtz" /\ S32(r[i.rs]) > 0
    \/ i.op \in {"bltz", "bltzal"} /\ S32(r[i.rs]) < 0
    \/ i.op \in {"bgez", "bgezal"} /\ S32(r[i.rs]) >= 0
    \/ i.op \in JumpOps \cup IndirectOps

\* A mutated form of BranchTarget: the sum does not wrap.
BranchTargetUnwrapped(i, at) == at + S16(i.imm) + 1

BranchTarget(i, at) == U32(at + S16(i.imm) + 1)
FallThrough(at)     == U32(at + 2)
JumpTarget(i, at)   == U32((at - (at % RegionCard)) + i.imm)

\* Where a direct branch leads when it leaves the branched flag at taken.
DirectTarget(i, at, taken) ==
    IF i.op \in JumpOps THEN JumpTarget(i, at)
    ELSE IF taken THEN BranchTarget(i, at) ELSE FallThrough(at)

\* What an instruction leaves in NNPC, which held nnpc.
NNPCAfter(i, at, nnpc) ==
    IF i.op \in IndirectOps THEN r[i.rs]
    ELSE IF i.op \in BranchOps THEN DirectTarget(i, at, Taken(i))
    ELSE nnpc

------------------------------------------------------------------------------
\* The handler bodies, one action per class.

Assign(x, v) == r' = [r EXCEPT ![x] = v]

Compute(x, op, a, b) ==
    /\ IF AluWrites(op, a, b) THEN Assign(x, AluValue(op, a, b))
                              ELSE UNCHANGED r
    /\ UNCHANGED <<branched, halted, status, thread, memory>>

AluReg(i)   == i.op \in AluRegOps   /\ Compute(i.rd, i.op, r[i.rs], r[i.rt])
ShiftImm(i) == i.op \in ShiftImmOps /\ Compute(i.rd, i.op, i.imm, r[i.rt])
AluImm(i)   == i.op \in AluImmOps   /\ Compute(i.rt, i.op, r[i.rs], i.imm)

MultDivide(i) ==
    /\ i.op \in MultDivOps
    /\ LET v == MultDivValue(i.op, r[i.rs], r[i.rt])
       IN  r' = [r EXCEPT !["lo"] = v.lo, !["hi"] = v.hi]
    /\ UNCHANGED <<branched, halted, status, thread, memory>>

Move(i) ==
    /\ \/ i.op = "mfhi" /\ Assign(i.rd, r["hi"])
       \/ i.op = "mflo" /\ Assign(i.rd, r["lo"])
       \/ i.op = "mthi" /\ Assign("hi", r[i.rs])
       \/ i.op = "mtlo" /\ Assign("lo", r[i.rs])
    /\ UNCHANGED <<branched, halted, status, thread, memory>>

\* A mutated form of Branch: a branch that is not taken leaves the flag.
BranchSticky(i, at) ==
    /\ i.op \in BranchOps
    /\ branched' = (branched \/ Taken(i))
    /\ \/ i.op \in LinkingOps /\ Assign("ra", FallThrough(at))
       \/ i.op = "jalr" /\ Assign(i.rd, FallThrough(at))
       \/ i.op \notin LinkingOps \cup {"jalr"} /\ UNCHANGED r
    /\ UNCHANGED <<halted, status, thread, memory>>

\* The linking branches write ra whether or not they are taken; jalr writes
\* rd.  The operands were read before.
Branch(i, at) ==
    /\ i.op \in BranchOps
    /\ branched' = Taken(i)
    /\ \/ i.op \in LinkingOps /\ Assign("ra", FallThrough(at))
       \/ i.op = "jalr" /\ Assign(i.rd, FallThrough(at))
       \/ i.op \notin LinkingOps \cup {"jalr"} /\ UNCHANGED r
    /\ UNCHANGED <<halted, status, thread, memory>>

Address(i) == U32(r[i.rs] + S16(i.imm))

Load(i) ==
    /\ i.op \in LoadOps
    /\ Address(i) \in Mapped
    /\ Assign(i.rt, memory[Address(i)])
    /\ UNCHANGED <<branched, halted, status, thread, memory>>

\* swl and swr store the whole word; sc always succeeds.
Store(i) ==
    /\ i.op \in StoreOps
    /\ Address(i) \in Mapped
    /\ memory' = [memory EXCEPT ![Address(i)] = r[i.rt]]
    /\ IF i.op = "sc" THEN Assign(i.rt, 1) ELSE UNCHANGED r
    /\ UNCHANGED <<branched, halted, status, thread>>

\* The rd field numbers a hardware register: 29 (sp among the general ones) is
\* the thread pointer, 3 (v1) the counter resolution.
ReadHardware(i) ==
    /\ i.op = "rdhwr"
    /\ Assign(i.rt, CASE i.rd = "sp" -> thread.user_local_ptr
                      [] i.rd = "v1" -> 1
                      [] OTHER       -> 0)
    /\ UNCHANGED <<branched, halted, status, thread, memory>>

Special(i) == i.op = "special" /\ UNCHANGED cpuVars

------------------------------------------------------------------------------
\* System calls: the number is in v0, the first argument in a0.

Exit(name) ==
    /\ name \in {"exit", "exit_group"}
    /\ status' = r["a0"]
    /\ halted' = TRUE
    /\ UNCHANGED <<r, branched, thread, memory>>

SetThread(name) ==
    /\ \/ /\ name = "set_thread_area"
          /\ thread' = [thread EXCEPT !.user_local_ptr = r["a0"]]
          /\ Assign("v0", 0)
       \/ /\ name = "set_tid_address"
          /\ thread' = [thread EXCEPT !.tidptr = r["a0"]]
          /\ Assign("v0", 1)
    /\ UNCHANGED <<branched, halted, status, memory>>

Protect(name) ==
    /\ \/ name = "mprotect" /\ r' = [r EXCEPT !["v0"] = 0, !["a3"] = 0]
       \/ name = "munmap"   /\ r' = [r EXCEPT !["v0"] = 0, !["a0"] = 0]
    /\ UNCHANGED <<branched, halted, status, thread, memory>>

\* close and lseek give the guest the host's result.
HostCall(name) ==
    /\ name = "host"
    /\ \E v \in HostResult : Assign("v0", v)
    /\ UNCHANGED <<branched, halted, status, thread, memory>>

SystemCall(i) ==
    /\ i.op = "syscall"
    /\ LET name == SyscallOf[r["v0"]]
       IN  Exit(name) \/ SetThread(name) \/ Protect(name) \/ HostCall(name)

------------------------------------------------------------------------------
\* One handler body, run for instruction i that sees the program counter at.
Execute(i, at) ==
    \/ AluReg(i)
    \/ ShiftImm(i)
    \/ AluImm(i)
    \/ MultDivide(i)
    \/ Move(i)
    \/ Branch(i, at)
    \/ Load(i)
    \/ Store(i)
    \/ ReadHardware(i)
    \/ Special(i)
    \/ SystemCall(i)

\* The instructions whose handler ends the process: abort, or an access to an
\* address without a page.
Fault(i) ==
    \/ i.op \in {"illegal", "brk"}
    \/ i.op \in LoadOps \cup StoreOps /\ Address(i) \notin Mapped
    \/ i.op = "syscall" /\ SyscallOf[r["v0"]] = "unhandled"

Crash == proc' = "crashed" /\ UNCHANGED exitcode

Return(code) == proc' = "exited" /\ exitcode' = code

------------------------------------------------------------------------------
(***************************************************************************)
(* A guest that has called exit_group and whose interpreter process has    *)
(* ended gave its status to the parent process: the handler documents a0   *)
(* as "the exit status for the entire process".                            *)
(***************************************************************************)
ExitStatusDelivered ==
    halted /\ proc # "running" => proc = "exited" /\ exitcode = status

(***************************************************************************)
(* exit_group terminates the guest: nothing a guest instruction changes    *)
(* may change after it.                                                    *)
(***************************************************************************)
QuietAfterExit == [][halted => UNCHANGED cpuVars]_cpuVars

(***************************************************************************)
(* An exit the guest asked for ends the interpreter process.               *)
(***************************************************************************)
ExitEndsProcess == halted ~> proc # "running"
============================================================================
