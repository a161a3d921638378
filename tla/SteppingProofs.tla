--------------------------- MODULE SteppingProofs ---------------------------
(***************************************************************************)
(* The switch keeps its types and its one delay slot, and the              *)
(* computed-goto interpreter implements the switch and so keeps them too:  *)
(* for every word size, instruction encoding, memory map and guest         *)
(* program, ones that rewrite their own code included.                     *)
(* Switch is the switch interpreter on the same machine and counters.      *)
(***************************************************************************)
EXTENDS ComputedGoto, CpuProofs

SwitchInv == MachineTypeOK /\ WindowOK

(***************************************************************************)
(* Stepping twice by one wraps as stepping once by two does.               *)
(***************************************************************************)
LEMMA TwoSteps ==
  ASSUME NEW x \in Word
  PROVE  U32(U32(x + 1) + 1) = U32(x + 2)
<1>1. x + 1 \in Int /\ (x + 1) + 1 = x + 2
  BY WordFacts
<1> QED
  BY <1>1, U32Succ

(***************************************************************************)
(* The loader leaves a window at the entry point.                          *)
(***************************************************************************)
LEMMA LoaderInv == CpuInit /\ CountersInit => SwitchInv
<1> SUFFICES ASSUME CpuInit, CountersInit PROVE SwitchInv
  OBVIOUS
<1>1. Entry \in Word /\ Entry \in Int
  BY CpuAssumption, WordFacts
<1>2. CpuTypeOK
  BY CpuAssumption, WordFacts DEF CpuInit, CpuTypeOK
<1>3. CountersTypeOK
  BY <1>1, U32Word DEF CountersInit, CountersTypeOK
<1>4. WindowOK
  BY <1>1, TwoSteps DEF CountersInit, WindowOK
<1> QED
  BY <1>2, <1>3, <1>4 DEF SwitchInv, MachineTypeOK

(***************************************************************************)
(* INCREMENT_PC leaves a window, whatever the instruction did to NNPC.     *)
(***************************************************************************)
LEMMA IncrementPCWindow ==
  ASSUME MachineTypeOK, NEW i \in Instruction, IncrementPC(i)
  PROVE  CountersTypeOK' /\ WindowOK'
<1>1. npc' \in Word
  BY NNPCWord DEF MachineTypeOK, CountersTypeOK, IncrementPC
<1>2. npc' \in Int
  BY <1>1, WordFacts
<1>3. nnpc' \in Word
  BY <1>2, U32Word DEF IncrementPC
<1> QED
  BY <1>1, <1>3 DEF MachineTypeOK, CountersTypeOK, IncrementPC, WindowOK

(***************************************************************************)
(* The instructions of the switch are these instructions.                  *)
(***************************************************************************)
LEMMA SameInstructions ==
  ASSUME NEW i, NEW at
  PROVE  /\ Execute(i, at) <=> Switch!Execute(i, at)
         /\ IncrementPC(i) <=> Switch!IncrementPC(i)
         /\ Fault(i) <=> Switch!Fault(i)
<1>1. /\ AluRegOps = Switch!AluRegOps /\ ShiftImmOps = Switch!ShiftImmOps
      /\ AluImmOps = Switch!AluImmOps /\ MultDivOps = Switch!MultDivOps
      /\ LoadOps = Switch!LoadOps /\ StoreOps = Switch!StoreOps
      /\ JumpOps = Switch!JumpOps /\ IndirectOps = Switch!IndirectOps
      /\ LinkingOps = Switch!LinkingOps /\ CondBranchOps = Switch!CondBranchOps
  BY DEF AluRegOps, Switch!AluRegOps, ShiftImmOps, Switch!ShiftImmOps,
         AluImmOps, Switch!AluImmOps, MultDivOps, Switch!MultDivOps,
         LoadOps, Switch!LoadOps, StoreOps, Switch!StoreOps,
         JumpOps, Switch!JumpOps, IndirectOps, Switch!IndirectOps,
         LinkingOps, Switch!LinkingOps, CondBranchOps, Switch!CondBranchOps
<1>2. BranchOps = Switch!BranchOps
  BY <1>1 DEF BranchOps, Switch!BranchOps
<1>3. \A x : /\ U32(x) = Switch!U32(x)
             /\ S32(x) = Switch!S32(x)
             /\ S16(x) = Switch!S16(x)
  BY DEF U32, S32, S16, Switch!U32, Switch!S32, Switch!S16
<1>4. Taken(i) <=> Switch!Taken(i)
  BY <1>1, <1>3 DEF Taken, Switch!Taken
<1>5. \A x : FallThrough(x) = Switch!FallThrough(x)
  BY <1>3 DEF FallThrough, Switch!FallThrough
<1>6. NNPCAfter(i, pc, nnpc) = Switch!NNPCAfter(i, pc, nnpc)
  <2>1. JumpTarget(i, pc) = Switch!JumpTarget(i, pc)
    BY <1>3 DEF JumpTarget, Switch!JumpTarget
  <2>2. BranchTarget(i, pc) = Switch!BranchTarget(i, pc)
    BY <1>3 DEF BranchTarget, Switch!BranchTarget
  <2>3. DirectTarget(i, pc, Taken(i)) = Switch!DirectTarget(i, pc, Switch!Taken(i))
    BY <1>1, <1>4, <1>5, <2>1, <2>2 DEF DirectTarget, Switch!DirectTarget
  <2> QED
    BY <1>1, <1>2, <2>3 DEF NNPCAfter, Switch!NNPCAfter
<1>7. IncrementPC(i) <=> Switch!IncrementPC(i)
  BY <1>3, <1>6 DEF IncrementPC, Switch!IncrementPC
<1>8. \A x, v : Assign(x, v) <=> Switch!Assign(x, v)
  BY DEF Assign, Switch!Assign
<1>9. \A x, op, a, b : Compute(x, op, a, b) <=> Switch!Compute(x, op, a, b)
  BY <1>8 DEF Compute, Switch!Compute
<1>10. Address(i) = Switch!Address(i)
  BY <1>3 DEF Address, Switch!Address
<1>11. /\ AluReg(i) <=> Switch!AluReg(i)
       /\ ShiftImm(i) <=> Switch!ShiftImm(i)
       /\ AluImm(i) <=> Switch!AluImm(i)
  BY <1>1, <1>9 DEF AluReg, Switch!AluReg, ShiftImm, Switch!ShiftImm,
                    AluImm, Switch!AluImm
<1>12. MultDivide(i) <=> Switch!MultDivide(i)
  BY <1>1 DEF MultDivide, Switch!MultDivide
<1>13. Move(i) <=> Switch!Move(i)
  BY <1>8 DEF Move, Switch!Move
<1>14. Branch(i, at) <=> Switch!Branch(i, at)
  <2>1. Taken(i) = Switch!Taken(i)
    BY <1>4 DEF Taken, Switch!Taken
  <2>2. branched' = Taken(i) <=> branched' = Switch!Taken(i)
    BY <2>1
  <2> QED
    BY <1>1, <1>2, <1>5, <1>8, <2>2, Zenon DEF Branch, Switch!Branch
<1>15. Load(i) <=> Switch!Load(i)
  BY <1>1, <1>8, <1>10 DEF Load, Switch!Load
<1>16. Store(i) <=> Switch!Store(i)
  BY <1>1, <1>8, <1>10 DEF Store, Switch!Store
<1>17. /\ ReadHardware(i) <=> Switch!ReadHardware(i)
       /\ Special(i) <=> Switch!Special(i)
  BY <1>8 DEF ReadHardware, Switch!ReadHardware, Special, Switch!Special,
              cpuVars, Switch!cpuVars
<1>18. SystemCall(i) <=> Switch!SystemCall(i)
  <2>1. \A name : Exit(name) <=> Switch!Exit(name)
    BY DEF Exit, Switch!Exit
  <2>2. \A name : SetThread(name) <=> Switch!SetThread(name)
    BY <1>8 DEF SetThread, Switch!SetThread
  <2>3. \A name : Protect(name) <=> Switch!Protect(name)
    BY DEF Protect, Switch!Protect
  <2>4. \A name : HostCall(name) <=> Switch!HostCall(name)
    BY <1>8 DEF HostCall, Switch!HostCall
  <2> QED
    BY <2>1, <2>2, <2>3, <2>4 DEF SystemCall, Switch!SystemCall
<1>19. Execute(i, at) <=> Switch!Execute(i, at)
  BY <1>11, <1>12, <1>13, <1>14, <1>15, <1>16, <1>17, <1>18
  DEF Execute, Switch!Execute
<1>20. Fault(i) <=> Switch!Fault(i)
  BY <1>1, <1>10 DEF Fault, Switch!Fault
<1> QED
  BY <1>7, <1>19, <1>20

(***************************************************************************)
(* Every step of the switch keeps the types and the window.                *)
(***************************************************************************)
LEMMA SwitchStepInv == SwitchInv /\ [Switch!Next]_(Switch!vars) => SwitchInv'
<1> SUFFICES ASSUME SwitchInv, [Switch!Next]_(Switch!vars) PROVE SwitchInv'
  OBVIOUS
<1> USE DEF SwitchInv
<1>1. CASE Switch!Step
  <2> DEFINE i == Instr[memory[pc]]
  <2>1. i \in Instruction /\ pc \in Word
    BY <1>1, WordFacts DEF Switch!Step, MachineTypeOK, CpuTypeOK, CountersTypeOK
  <2>2. Execute(i, pc) /\ IncrementPC(i)
    BY <1>1, SameInstructions DEF Switch!Step, Switch!Cir
  <2>3. GuestTypeOK'
    BY <2>1, <2>2, ExecuteTyped DEF MachineTypeOK
  <2>4. CountersTypeOK' /\ WindowOK'
    BY <2>1, <2>2, IncrementPCWindow
  <2> QED
    BY <1>1, <2>3, <2>4 DEF Switch!Step, MachineTypeOK, CpuTypeOK, GuestTypeOK,
                            Switch!procVars
<1>2. CASE Switch!CrashStep
  BY <1>2 DEF Switch!CrashStep, Switch!Crash, MachineTypeOK, CpuTypeOK,
              CountersTypeOK, WindowOK, Switch!cpuVars, Switch!counters
<1>3. CASE Switch!Finish
  BY <1>3 DEF Switch!Finish, Switch!Return, MachineTypeOK, CpuTypeOK,
              CountersTypeOK, WindowOK, Switch!cpuVars, Switch!counters
<1>4. CASE UNCHANGED Switch!vars
  BY <1>4 DEF Switch!vars, MachineTypeOK, CpuTypeOK, CountersTypeOK, WindowOK,
              Switch!cpuVars, Switch!procVars, Switch!counters
<1> QED
  BY <1>1, <1>2, <1>3, <1>4 DEF Switch!Next

(***************************************************************************)
(* A step of the switch that changes the guest executes one instruction,   *)
(* and only a branch makes a jump.                                         *)
(***************************************************************************)
LEMMA SwitchStepWaits ==
  SwitchInv /\ [Switch!Next]_(Switch!vars)
    => [/\ pc \in Mapped
        /\ pc' = npc
        /\ npc' # U32(pc' + 1) => Instr[memory[pc]].op \in BranchOps
       ]_<<cpuVars, counters>>
<1> SUFFICES ASSUME SwitchInv, [Switch!Next]_(Switch!vars)
             PROVE  [/\ pc \in Mapped
                     /\ pc' = npc
                     /\ npc' # U32(pc' + 1) => Instr[memory[pc]].op \in BranchOps
                    ]_<<cpuVars, counters>>
  OBVIOUS
<1>1. CASE Switch!Step
  <2>1. IncrementPC(Instr[memory[pc]]) /\ pc \in Mapped
    BY <1>1, SameInstructions DEF Switch!Step, Switch!Cir
  <2> QED
    BY <2>1 DEF SwitchInv, WindowOK, IncrementPC, NNPCAfter, BranchOps
<1>2. CASE Switch!CrashStep \/ Switch!Finish \/ UNCHANGED Switch!vars
  BY <1>2 DEF Switch!CrashStep, Switch!Finish, Switch!vars, cpuVars, counters,
              Switch!cpuVars, Switch!counters
<1> QED
  BY <1>1, <1>2 DEF Switch!Next

(***************************************************************************)
(* Every state of the switch is typed and has NNPC after NPC (switch.c     *)
(* with INCREMENT_PC), and so has every state of what implements it.       *)
(***************************************************************************)
THEOREM SwitchInvariance == Switch!Safety => []SwitchInv
<1>1. Switch!Init => SwitchInv
  <2>1. Switch!Init => CpuInit /\ CountersInit
    BY DEF CpuInit, CountersInit, U32, Switch!Init, Switch!CpuInit,
           Switch!CountersInit, Switch!U32
  <2> QED
    BY <2>1, LoaderInv
<1> QED
  BY <1>1, SwitchStepInv, PTL DEF Switch!Safety

(***************************************************************************)
(* Ending and staying ended is no further step of the switch.              *)
(***************************************************************************)
LEMMA SwitchIsSafe == Switch!Spec => Switch!Safety
<1>1. [Switch!Next \/ Switch!Terminated]_(Switch!vars) => [Switch!Next]_(Switch!vars)
  BY DEF Switch!Terminated
<1> QED
  BY <1>1, PTL DEF Switch!Spec, Switch!Safety

(***************************************************************************)
(* struct mips, the counters and the process keep their types.             *)
(***************************************************************************)
THEOREM TypeCorrect == Switch!Spec => []MachineTypeOK
BY SwitchIsSafe, SwitchInvariance, PTL DEF SwitchInv

(***************************************************************************)
(* In the switch a jump waits for one instruction, and only a branch makes *)
(* a jump.                                                                 *)
(***************************************************************************)
THEOREM JumpsWaitOnce == Switch!Spec => OneDelaySlot
BY SwitchIsSafe, SwitchInvariance, SwitchStepWaits, PTL
DEF Switch!Safety, OneDelaySlot

------------------------------------------------------------------------------
\* The computed-goto interpreter.

Inv == TypeOK /\ CirFresh

(***************************************************************************)
(* The loader's state; no handler has been entered.                        *)
(***************************************************************************)
LEMMA InitInv == Init => Inv
<1> SUFFICES ASSUME Init PROVE Inv
  OBVIOUS
<1>1. Entry \in Word /\ Entry \in Int
  BY CpuAssumption, WordFacts
<1>2. CpuTypeOK
  BY CpuAssumption, WordFacts DEF Init, CpuInit, CpuTypeOK
<1>3. CountersTypeOK
  BY <1>1, U32Word DEF Init, CountersInit, CountersTypeOK
<1> QED
  BY <1>2, <1>3, WordFacts DEF Inv, Init, TypeOK, MachineTypeOK, CirFresh

(***************************************************************************)
(* Each step keeps the types and the word in cir.                          *)
(***************************************************************************)
LEMMA NextInv == Inv /\ [Next \/ Terminated]_vars => Inv'
<1> SUFFICES ASSUME Inv, [Next \/ Terminated]_vars PROVE Inv'
  OBVIOUS
<1> USE DEF Inv
<1>1. CASE Dispatch
  <2>1. memory[pc] \in Word
    BY <1>1 DEF Dispatch, TypeOK, MachineTypeOK, CpuTypeOK
  <2> QED
    BY <1>1, <2>1 DEF Dispatch, TypeOK, MachineTypeOK, CpuTypeOK, CountersTypeOK, CirFresh,
                      cpuVars, procVars, counters
<1>2. CASE DispatchCrash \/ Leave \/ HandleCrash
  BY <1>2 DEF DispatchCrash, Leave, HandleCrash, Crash, Return, TypeOK,
              MachineTypeOK, CpuTypeOK, CountersTypeOK, CirFresh, cpuVars, counters
<1>3. CASE Handle
  <2> DEFINE i == Instr[cir]
  <2>1. i \in Instruction /\ pc \in Word /\ nnpc \in Word
    BY <1>3, WordFacts DEF TypeOK, MachineTypeOK, CountersTypeOK
  <2>2. GuestTypeOK'
    BY <1>3, <2>1, ExecuteTyped DEF Handle, TypeOK, MachineTypeOK
  <2>3. npc' \in Word
    BY <1>3, <2>1, NNPCWord DEF Handle, IncrementPC, TypeOK, MachineTypeOK
  <2>4. nnpc' \in Word
    BY <1>3, <2>3, U32Word, WordFacts DEF Handle, IncrementPC
  <2> QED
    BY <1>3, <2>2, <2>3, <2>4 DEF Handle, IncrementPC, TypeOK, MachineTypeOK, CpuTypeOK,
       GuestTypeOK, CountersTypeOK, CirFresh, procVars
<1>4. CASE UNCHANGED vars
  BY <1>4 DEF vars, TypeOK, MachineTypeOK, CpuTypeOK, CountersTypeOK, CirFresh, cpuVars,
              procVars, counters
<1> QED
  BY <1>1, <1>2, <1>3, <1>4 DEF Next, Terminated

(***************************************************************************)
(* Every state is typed, and the word in cir is the one at PC whenever a   *)
(* label is reached (computed-goto.c).                                     *)
(***************************************************************************)
THEOREM Invariance == Spec => []Inv
BY InitInv, NextInv, PTL DEF Spec

(***************************************************************************)
(* The handler works on the word at PC and is entered only before the      *)
(* guest's exit.                                                           *)
(***************************************************************************)
THEOREM CirStaysFresh == Spec => []CirFresh
BY Invariance, PTL DEF Inv

(***************************************************************************)
(* A handler's body with INCREMENT_PC is one step of the switch, DISPATCH  *)
(* a step it does not see.                                                 *)
(***************************************************************************)
LEMMA StepSimulation ==
  Inv /\ [Next \/ Terminated]_vars => [Switch!Next]_(Switch!vars)
<1> SUFFICES ASSUME Inv, [Next \/ Terminated]_vars
             PROVE  [Switch!Next]_(Switch!vars)
  OBVIOUS
<1>1. CASE Dispatch \/ UNCHANGED vars
  BY <1>1 DEF Dispatch, vars, Switch!vars, cpuVars, procVars, counters,
              Switch!cpuVars, Switch!procVars, Switch!counters
<1>2. CASE DispatchCrash
  <2>1. pc \in Mapped => Switch!Fault(Switch!Cir)
    <3> SUFFICES ASSUME pc \in Mapped PROVE Switch!Fault(Switch!Cir)
      OBVIOUS
    <3> QED
      BY <1>2 DEF DispatchCrash, Labelled, Switch!Fault, Switch!Cir
  <2>2. Switch!CrashStep
    BY <1>2, <2>1 DEF DispatchCrash, Crash, Switch!CrashStep, Switch!Running,
       Switch!Crash, cpuVars, counters, Switch!cpuVars, Switch!counters
  <2> QED
    BY <2>2 DEF Switch!Next
<1>3. CASE Leave
  <2>1. Switch!Finish
    BY <1>3 DEF Leave, Return, Switch!Finish, Switch!Return, cpuVars, counters,
       Switch!cpuVars, Switch!counters
  <2> QED
    BY <2>1 DEF Switch!Next
<1>4. CASE Handle
  <2>1. /\ ~halted /\ pc \in Mapped
        /\ Switch!Cir = Instr[cir]
    BY <1>4 DEF Handle, Inv, CirFresh, Switch!Cir
  <2>2. Switch!Execute(Switch!Cir, pc) /\ Switch!IncrementPC(Switch!Cir)
    BY <1>4, <2>1, SameInstructions DEF Handle
  <2>3. Switch!Step
    BY <1>4, <2>1, <2>2 DEF Handle, Switch!Step, Switch!Running, procVars,
       Switch!procVars
  <2> QED
    BY <2>3 DEF Switch!Next
<1>5. CASE HandleCrash
  <2>1. /\ ~halted /\ pc \in Mapped
        /\ Switch!Cir = Instr[cir]
    BY <1>5 DEF HandleCrash, Inv, CirFresh, Switch!Cir
  <2>2. Switch!Fault(Switch!Cir)
    BY <1>5, <2>1, SameInstructions DEF HandleCrash
  <2>3. Switch!CrashStep
    BY <1>5, <2>1, <2>2 DEF HandleCrash, Crash, Switch!CrashStep,
       Switch!Running, Switch!Crash, cpuVars, counters, Switch!cpuVars,
       Switch!counters
  <2> QED
    BY <2>3 DEF Switch!Next
<1> QED
  BY <1>1, <1>2, <1>3, <1>4, <1>5 DEF Next, Terminated

(***************************************************************************)
(* The threaded interpreter does to every guest what the switch does, with *)
(* the same crashes and the same exit code.                                *)
(***************************************************************************)
THEOREM Refinement == Spec => ImplementsSwitch
<1>1. Init => Switch!Init
  BY DEF Init, CpuInit, CountersInit, U32, Switch!Init, Switch!CpuInit,
         Switch!CountersInit, Switch!U32
<1> QED
  BY <1>1, StepSimulation, Invariance, PTL
  DEF Spec, ImplementsSwitch, Switch!Safety

(***************************************************************************)
(* The one delay slot of the switch is the threaded interpreter's, which   *)
(* implements it (computed-goto.c).                                        *)
(***************************************************************************)
THEOREM GotoJumpsWaitOnce == Spec => OneDelaySlot
BY Refinement, SwitchInvariance, SwitchStepWaits, PTL
DEF SwitchInv, ImplementsSwitch, Switch!Safety, OneDelaySlot

------------------------------------------------------------------------------
\* How the guest's exit ends the process, for the switch and what implements
\* it.  The tail-call interpreter may crash after the exit, and the blocked one
\* runs on to the end of its block and returns 0.

(***************************************************************************)
(* A step of the switch ends the process with the guest's status once the  *)
(* guest has exited, and then changes nothing of the guest.                *)
(***************************************************************************)
LEMMA SwitchStepExits ==
  /\ ExitStatusDelivered /\ [Switch!Next]_(Switch!vars) => ExitStatusDelivered'
  /\ [Switch!Next]_(Switch!vars) => [halted => UNCHANGED cpuVars]_cpuVars
<1> SUFFICES ASSUME [Switch!Next]_(Switch!vars)
             PROVE  /\ ExitStatusDelivered => ExitStatusDelivered'
                    /\ [halted => UNCHANGED cpuVars]_cpuVars
  OBVIOUS
<1>1. CASE Switch!Step
  <2>1. ~halted /\ proc = "running" /\ proc' = "running"
    BY <1>1 DEF Switch!Step, Switch!Running, Switch!procVars
  <2> QED
    BY <2>1 DEF ExitStatusDelivered
<1>2. CASE Switch!CrashStep
  <2>1. ~halted /\ UNCHANGED cpuVars
    BY <1>2 DEF Switch!CrashStep, Switch!Running, Switch!cpuVars, cpuVars
  <2> QED
    BY <2>1 DEF ExitStatusDelivered, cpuVars
<1>3. CASE Switch!Finish
  <2>1. proc' = "exited" /\ exitcode' = status /\ UNCHANGED cpuVars
    BY <1>3 DEF Switch!Finish, Switch!Return, Switch!cpuVars, cpuVars
  <2> QED
    BY <2>1 DEF ExitStatusDelivered, cpuVars
<1>4. CASE UNCHANGED Switch!vars
  <2>1. UNCHANGED <<cpuVars, procVars>>
    BY <1>4 DEF Switch!vars, Switch!cpuVars, Switch!procVars, cpuVars, procVars
  <2> QED
    BY <2>1 DEF ExitStatusDelivered, cpuVars, procVars
<1> QED
  BY <1>1, <1>2, <1>3, <1>4 DEF Switch!Next

(***************************************************************************)
(* The loop of switch.c delivers the exit: the process of a guest that has *)
(* exited returns its status, never crashes, and runs no further           *)
(* instruction of it.                                                      *)
(***************************************************************************)
THEOREM SwitchDeliversExit == Switch!Safety => []ExitStatusDelivered /\ QuietAfterExit
<1>1. Switch!Init => ExitStatusDelivered
  BY DEF Switch!Init, Switch!CpuInit, ExitStatusDelivered
<1> QED
  BY <1>1, SwitchStepExits, PTL DEF Switch!Safety, QuietAfterExit

(***************************************************************************)
(* So does the threaded interpreter, whose DISPATCH tests halted after     *)
(* every handler.                                                          *)
(***************************************************************************)
THEOREM GotoDeliversExit == Spec => []ExitStatusDelivered /\ QuietAfterExit
BY Refinement, SwitchDeliversExit, PTL DEF ImplementsSwitch
============================================================================
