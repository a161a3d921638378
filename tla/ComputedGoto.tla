---------------------------- MODULE ComputedGoto ----------------------------
(***************************************************************************)
(* interpreter_computed_goto (computed-goto.c): every handler ends in its  *)
(* own DISPATCH, which returns when the guest has exited, and otherwise    *)
(* fetches the next word into cir and jumps through the label tables.  A   *)
(* word without a label jumps to a null address.                           *)
(***************************************************************************)
EXTENDS Stepping

VARIABLES
    phase,      \* "dispatch" or, at a label, "handler"
    cir         \* the word the handler decodes

vars == <<cpuVars, procVars, counters, phase, cir>>

TypeOK ==
    /\ MachineTypeOK
    /\ phase \in {"dispatch", "handler"}
    /\ cir \in Word

Init ==
    /\ CpuInit
    /\ CountersInit
    /\ phase = "dispatch"
    /\ cir = 0

Labelled(word) == Instr[word].op # "illegal"

Dispatch ==
    /\ proc = "running" /\ phase = "dispatch"
    /\ ~halted
    /\ pc \in Mapped /\ Labelled(memory[pc])
    /\ cir' = memory[pc]
    /\ phase' = "handler"
    /\ UNCHANGED <<cpuVars, procVars, counters>>

DispatchCrash ==
    /\ proc = "running" /\ phase = "dispatch"
    /\ ~halted
    /\ pc \in Mapped => ~Labelled(memory[pc])
    /\ Crash
    /\ UNCHANGED <<cpuVars, counters, phase, cir>>

\* DISPATCH returns to main, which returns mips.status.
Leave ==
    /\ proc = "running" /\ phase = "dispatch"
    /\ halted
    /\ Return(status)
    /\ UNCHANGED <<cpuVars, counters, phase, cir>>

\* A mutated form of Handle: INCREMENT_PC comes before the handler body.
HandleIncrementFirst ==
    /\ proc = "running" /\ phase = "handler"
    /\ Execute(Instr[cir], npc)
    /\ IncrementPC(Instr[cir])
    /\ phase' = "dispatch"
    /\ UNCHANGED <<procVars, cir>>

Handle ==
    /\ proc = "running" /\ phase = "handler"
    /\ Execute(Instr[cir], pc)
    /\ IncrementPC(Instr[cir])
    /\ phase' = "dispatch"
    /\ UNCHANGED <<procVars, cir>>

HandleCrash ==
    /\ proc = "running" /\ phase = "handler"
    /\ Fault(Instr[cir])
    /\ Crash
    /\ UNCHANGED <<cpuVars, counters, phase, cir>>

Next == Dispatch \/ DispatchCrash \/ Leave \/ Handle \/ HandleCrash

Terminated == proc # "running" /\ UNCHANGED vars

Spec == Init /\ [][Next \/ Terminated]_vars /\ WF_vars(Next)

------------------------------------------------------------------------------
(***************************************************************************)
(* The handler works on cir, fetched before it: nothing between the fetch  *)
(* and the handler may make it differ from the word at pc, and a handler   *)
(* is never entered once the guest has exited.                             *)
(***************************************************************************)
CirFresh ==
    phase = "handler" => pc \in Mapped /\ cir = memory[pc] /\ ~halted

Switch == INSTANCE SwitchInterpreter

(***************************************************************************)
(* The threaded interpreter does to the guest exactly what the switch      *)
(* does, in the same order, with the same crashes and the same exit code.  *)
(***************************************************************************)
ImplementsSwitch == Switch!Safety
============================================================================
