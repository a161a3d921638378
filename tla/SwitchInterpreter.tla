------------------------- MODULE SwitchInterpreter -------------------------
(***************************************************************************)
(* interpreter_switch (switch.c): fetch at PC, one switch over the opcode, *)
(* INCREMENT_PC, until the guest has exited.  It is the plainest of the    *)
(* four interpreters and serves as the specification of the others: one    *)
(* step is one guest instruction.                                          *)
(***************************************************************************)
EXTENDS Stepping

vars == <<cpuVars, procVars, counters>>

Init == CpuInit /\ CountersInit

Running == proc = "running" /\ ~halted

Cir == Instr[memory[pc]]

Step ==
    /\ Running
    /\ pc \in Mapped
    /\ Execute(Cir, pc)
    /\ IncrementPC(Cir)
    /\ UNCHANGED procVars

\* The fetch finds no page, the switch has no case, or the handler aborts.
CrashStep ==
    /\ Running
    /\ pc \in Mapped => Fault(Cir)
    /\ Crash
    /\ UNCHANGED <<cpuVars, counters>>

\* The loop ends and main returns mips.status.
Finish ==
    /\ proc = "running"
    /\ halted
    /\ Return(status)
    /\ UNCHANGED <<cpuVars, counters>>

Next == Step \/ CrashStep \/ Finish

\* A process that has ended stays ended.
Terminated == proc # "running" /\ UNCHANGED vars

Spec == Init /\ [][Next \/ Terminated]_vars /\ WF_vars(Next)

------------------------------------------------------------------------------
\* What the other interpreters implement.  Safety is this specification
\* without fairness.  UpToExit leaves open what happens once the guest has
\* exited, where two of them differ from the switch.
Safety    == Init /\ [][Next]_vars
AfterExit == halted /\ halted'
UpToExit  == Init /\ [][Next \/ AfterExit]_vars
============================================================================
