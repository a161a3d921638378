------------------------------ MODULE TailCall ------------------------------
(***************************************************************************)
(* interpreter_tail_call (tail-call.c): each handler executes its          *)
(* instruction, fetches the next word and tail-calls that word's handler   *)
(* through the tables; the handler called returns at once when the guest   *)
(* has exited.  So the word after the exit is fetched, and its handler     *)
(* looked up and called, before anything tests halted.                     *)
(***************************************************************************)
EXTENDS Stepping

VARIABLES
    phase,      \* "fetch" or, once called, "handler"
    cir         \* the argument of the handler called

vars == <<cpuVars, procVars, counters, phase, cir>>

TypeOK ==
    /\ MachineTypeOK
    /\ phase \in {"fetch", "handler"}
    /\ cir \in Word

Init ==
    /\ CpuInit
    /\ CountersInit
    /\ phase = "fetch"
    /\ cir = 0

HasHandler(word) == Instr[word].op # "illegal"

\* memory_read_u32 and the call through primary, secondary or branch.
Fetch ==
    /\ proc = "running" /\ phase = "fetch"
    /\ pc \in Mapped /\ HasHandler(memory[pc])
    /\ cir' = memory[pc]
    /\ phase' = "handler"
    /\ UNCHANGED <<cpuVars, procVars, counters>>

\* No page at pc, or a call through an empty slot of a table.
FetchCrash ==
    /\ proc = "running" /\ phase = "fetch"
    /\ pc \in Mapped => ~HasHandler(memory[pc])
    /\ Crash
    /\ UNCHANGED <<cpuVars, counters, phase, cir>>

\* Mutated forms of Handle: INCREMENT_PC comes before the handler body; the
\* handler called after the exit does not test halted.
HandleIncrementFirst ==
    /\ proc = "running" /\ phase = "handler"
    /\ ~halted
    /\ Execute(Instr[cir], npc)
    /\ IncrementPC(Instr[cir])
    /\ phase' = "fetch"
    /\ UNCHANGED <<procVars, cir>>

HandleAfterExit ==
    /\ proc = "running" /\ phase = "handler"
    /\ Execute(Instr[cir], pc)
    /\ IncrementPC(Instr[cir])
    /\ phase' = "fetch"
    /\ UNCHANGED <<procVars, cir>>

Handle ==
    /\ proc = "running" /\ phase = "handler"
    /\ ~halted
    /\ Execute(Instr[cir], pc)
    /\ IncrementPC(Instr[cir])
    /\ phase' = "fetch"
    /\ UNCHANGED <<procVars, cir>>

HandleCrash ==
    /\ proc = "running" /\ phase = "handler"
    /\ ~halted
    /\ Fault(Instr[cir])
    /\ Crash
    /\ UNCHANGED <<cpuVars, counters, phase, cir>>

\* A mutated form of Leave: main returns 0.
LeaveZero ==
    /\ proc = "running" /\ phase = "handler"
    /\ halted
    /\ Return(0)
    /\ UNCHANGED <<cpuVars, counters, phase, cir>>

\* The handler returns through the chain of tail calls to main.
Leave ==
    /\ proc = "running" /\ phase = "handler"
    /\ halted
    /\ Return(status)
    /\ UNCHANGED <<cpuVars, counters, phase, cir>>

Next == Fetch \/ FetchCrash \/ Handle \/ HandleCrash \/ Leave

Terminated == proc # "running" /\ UNCHANGED vars

Spec == Init /\ [][Next \/ Terminated]_vars /\ WF_vars(Next)

------------------------------------------------------------------------------
(***************************************************************************)
(* The argument a handler was called with is the word at pc: no store can  *)
(* come between the fetch and the handler.                                 *)
(***************************************************************************)
CirFresh ==
    phase = "handler" => pc \in Mapped /\ cir = memory[pc] /\ HasHandler(cir)

(***************************************************************************)
(* What becomes of a guest's exit is decided by the word that follows it,  *)
(* which the guest never asked to run: the process returns the status if   *)
(* that word has a page and a handler, and crashes if not.  Nothing else   *)
(* ends the process of a guest that has exited, and nothing returns from   *)
(* it before.                                                              *)
(***************************************************************************)
ExitNeedsNextWord ==
    /\ proc = "exited" => halted
    /\ halted /\ proc # "running"
         => IF pc \in Mapped /\ HasHandler(memory[pc])
              THEN proc = "exited" /\ exitcode = status
              ELSE proc = "crashed"

Switch == INSTANCE SwitchInterpreter

(***************************************************************************)
(* Up to the guest's exit the tail-calling interpreter does what the       *)
(* switch does; after it, it may still crash on the word that follows.     *)
(***************************************************************************)
ImplementsSwitch == Switch!UpToExit
============================================================================
