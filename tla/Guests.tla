------------------------------- MODULE Guests -------------------------------
(***************************************************************************)
(* Guest programs for model checking: narrow words, and a table that gives *)
(* each word value the instruction it encodes.                             *)
(***************************************************************************)
EXTENDS Alu, Sequences, TLC

Ins(op, rs, rt, rd, imm) ==
    [op |-> op, rs |-> rs, rt |-> rt, rd |-> rd, imm |-> imm]

Table(instructions) ==
    [w \in Word |-> IF w < Len(instructions) THEN instructions[w + 1]
                    ELSE Ins("illegal", "zero", "zero", "zero", 0)]

------------------------------------------------------------------------------
\* Every program over a small table: loops, calls, register jumps, host calls,
\* exits, and stores into the program itself.

SmallGPR == {"zero", "v0", "a0", "a3", "ra", "sp"}

SmallRegs == [x \in SmallGPR \cup {"hi", "lo"} |->
                 CASE x = "sp" -> 1 [] OTHER -> 0]

SmallInstr == Table(<<
    Ins("addu", "v0", "sp", "a0", 0),           \* 0: a0 = v0 + 1
    Ins("addiu", "v0", "v0", "zero", 1),        \* 1: v0 = v0 + 1
    Ins("bne", "v0", "sp", "zero", 6),          \* 2: unless v0 = 1, back by one
    Ins("bltzal", "v0", "zero", "zero", 0),     \* 3: call or link
    Ins("jr", "ra", "zero", "zero", 0),         \* 4: return
    Ins("syscall", "zero", "zero", "zero", 0),  \* 5
    Ins("sw", "sp", "v0", "zero", 1),           \* 6: word 2 = v0
    Ins("j", "zero", "zero", "zero", 1) >>)     \* 7: to word 1

SmallSyscalls ==
    [w \in Word |-> CASE w = 0 -> "host"
                      [] w = 1 -> "exit_group"
                      [] w = 2 -> "munmap"
                      [] OTHER -> "unhandled"]

SmallMapped   == 0 .. 4
SmallPrograms == [SmallMapped -> Word]

\* The same with one word less, for the liveness runs.
TinyMapped   == 0 .. 3
TinyPrograms == [TinyMapped -> Word]

------------------------------------------------------------------------------
\* The instruction set: any two instructions, then an exit.  The code lies in
\* the upper region of j and jal, sp points to data, gp holds a negative word.

IsaGPR == SmallGPR \cup {"v1", "gp"}

IsaRegs == [x \in IsaGPR \cup {"hi", "lo"} |->
               CASE x = "sp" -> 20 [] x = "gp" -> 61 [] OTHER -> 0]

IsaInstr == Table(<<
    Ins("sll", "zero", "gp", "v0", 1),      Ins("srl", "zero", "gp", "v0", 1),
    Ins("sra", "zero", "gp", "v0", 1),      Ins("sllv", "sp", "gp", "v1", 0),
    Ins("srlv", "sp", "gp", "v1", 0),       Ins("srav", "sp", "gp", "v1", 0),
    Ins("add", "gp", "gp", "a0", 0),        Ins("addu", "gp", "gp", "a0", 0),
    Ins("sub", "zero", "gp", "a0", 0),      Ins("subu", "zero", "gp", "a0", 0),
    Ins("slt", "gp", "sp", "v0", 0),        Ins("sltu", "gp", "sp", "v0", 0),
    Ins("and", "gp", "sp", "v1", 0),        Ins("or", "gp", "sp", "v1", 0),
    Ins("xor", "gp", "sp", "v1", 0),        Ins("nor", "gp", "sp", "v1", 0),
    Ins("addi", "gp", "v1", "zero", 3),     Ins("addiu", "sp", "a0", "zero", 3),
    Ins("slti", "gp", "v0", "zero", 2),     Ins("sltiu", "gp", "v0", "zero", 6),
    Ins("andi", "gp", "v1", "zero", 7),     Ins("ori", "gp", "v1", "zero", 3),
    Ins("xori", "gp", "v1", "zero", 5),     Ins("lui", "zero", "v0", "zero", 1),
    Ins("mult", "gp", "sp", "zero", 0),     Ins("multu", "gp", "sp", "zero", 0),
    Ins("div", "gp", "sp", "zero", 0),      Ins("divu", "gp", "zero", "zero", 0),
    Ins("mfhi", "zero", "zero", "a0", 0),   Ins("mflo", "zero", "zero", "v0", 0),
    Ins("mthi", "sp", "zero", "zero", 0),   Ins("mtlo", "gp", "zero", "zero", 0),
    Ins("lw", "sp", "v0", "zero", 0),       Ins("ll", "gp", "v0", "zero", 0),
    Ins("sw", "sp", "gp", "zero", 0),       Ins("swl", "sp", "v0", "zero", 0),
    Ins("swr", "gp", "gp", "zero", 0),      Ins("sc", "sp", "gp", "zero", 0),
    Ins("beq", "v0", "zero", "zero", 1),    Ins("bne", "v0", "zero", "zero", 1),
    Ins("blez", "gp", "zero", "zero", 0),   Ins("bgtz", "sp", "zero", "zero", 7),
    Ins("bltz", "gp", "zero", "zero", 2),   Ins("bgez", "gp", "zero", "zero", 1),
    Ins("bltzal", "v0", "zero", "zero", 1), Ins("bgezal", "v0", "zero", "zero", 1),
    Ins("j", "zero", "zero", "zero", 27),   Ins("jal", "zero", "zero", "zero", 28),
    Ins("jr", "ra", "zero", "zero", 0),     Ins("jalr", "gp", "zero", "ra", 0),
    Ins("syscall", "zero", "zero", "zero", 0),
    Ins("special", "zero", "zero", "zero", 0),
    Ins("rdhwr", "zero", "a0", "sp", 0),    Ins("rdhwr", "zero", "v0", "v1", 0),
    Ins("brk", "zero", "zero", "zero", 0),
    Ins("addiu", "zero", "v0", "zero", 3) >>)   \* 55: v0 = exit_group

IsaSyscalls ==
    [w \in Word |-> CASE w = 0  -> "mprotect"
                      [] w = 1  -> "set_thread_area"
                      [] w = 3  -> "exit_group"
                      [] w = 7  -> "exit"
                      [] w = 8  -> "set_tid_address"
                      [] w = 30 -> "host"
                      [] w = 58 -> "munmap"
                      [] OTHER  -> "unhandled"]

IsaMapped   == {20} \cup 56 .. 62
IsaPrograms ==
    {(20 :> 7) @@ (56 :> first) @@ (57 :> second) @@ (58 :> third) @@ (59 :> 51)
         @@ (60 :> 50) @@ (61 :> 55) @@ (62 :> 50) :
        first, second \in 0 .. 54, third \in {50, 51}}
============================================================================
