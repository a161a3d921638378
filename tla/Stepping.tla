------------------------------ MODULE Stepping -----------------------------
(***************************************************************************)
(* The window of three program counters that the three interpreters which  *)
(* execute one instruction at a time keep in r[] (mips.h INCREMENT_PC).    *)
(* It delays a control transfer by one instruction: a branch writes NNPC,  *)
(* the instruction after it (its delay slot) is already in NPC.            *)
(***************************************************************************)
EXTENDS Cpu

VARIABLES pc, npc, nnpc     \* r[MIPS_R_PC], r[MIPS_R_NPC], r[MIPS_R_NNPC]

counters == <<pc, npc, nnpc>>

CountersTypeOK == pc \in Word /\ npc \in Word /\ nnpc \in Word

\* loader_load_pc
CountersInit ==
    /\ pc = Entry
    /\ npc = U32(Entry + 1)
    /\ nnpc = U32(Entry + 2)

\* Mutated forms of IncrementPC: NNPC does not wrap; NNPC follows the old NNPC.
IncrementPCUnwrapped(i) ==
    /\ pc' = npc
    /\ npc' = NNPCAfter(i, pc, nnpc)
    /\ nnpc' = npc' + 1

IncrementPCStale(i) ==
    /\ pc' = npc
    /\ npc' = NNPCAfter(i, pc, nnpc)
    /\ nnpc' = U32(nnpc + 1)

\* INCREMENT_PC after instruction i, which saw pc and may have written NNPC.
IncrementPC(i) ==
    /\ pc' = npc
    /\ npc' = NNPCAfter(i, pc, nnpc)
    /\ nnpc' = U32(npc' + 1)

------------------------------------------------------------------------------
\* The types of everything these interpreters share.
MachineTypeOK == CpuTypeOK /\ CountersTypeOK

(***************************************************************************)
(* NNPC is the word after NPC at every instruction boundary.  INCREMENT_PC *)
(* leaves it so; it is here because OneDelaySlot does not follow from the  *)
(* types alone.                                                            *)
(***************************************************************************)
WindowOK == nnpc = U32(npc + 1)

(***************************************************************************)
(* A control transfer waits for exactly one instruction: a step that       *)
(* changes the guest executes a word that has a page and goes on to the    *)
(* instruction NPC named, and NPC departs from the following word only     *)
(* when the instruction just executed was a branch, so that no two         *)
(* instructions are executed in the delay slot of one jump.                *)
(***************************************************************************)
OneDelaySlot ==
    [][/\ pc \in Mapped
       /\ pc' = npc
       /\ npc' # U32(pc' + 1) => Instr[memory[pc]].op \in BranchOps
      ]_<<cpuVars, counters>>
============================================================================
