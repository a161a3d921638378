----------------------------- MODULE TailProofs -----------------------------
(***************************************************************************)
(* The tail-calling interpreter implements the switch up to the guest's    *)
(* exit, is quiet after it, and returns the status or crashes as the word  *)
(* after the exit has it, for every word size, instruction encoding,       *)
(* memory map and guest program.                                           *)
(***************************************************************************)
EXTENDS TailCall, CpuProofs

Inv == TypeOK /\ CirFresh /\ ExitNeedsNextWord

(***************************************************************************)
(* The loader's state; no handler has been entered.                        *)
(***************************************************************************)
LEMMA InitInv == Init => Inv
<1> SUFFICES ASSUME Init PROVE Inv
  OBVIOUS
<1>1. Entry \in Word /\ Entry \in Int
  BY CpuAssumption, WordFacts
<1>2. CpuTypeOK
  BY CpuAssumption, WordFacts DEF Init, CpuInit, CpuTypeOK
<1>3. CountersTypeOK
  BY <1>1, U32Word DEF Init, CountersInit, CountersTypeOK
<1> QED
  BY <1>2, <1>3, WordFacts DEF Inv, Init, CpuInit, TypeOK, MachineTypeOK, CirFresh,
                             ExitNeedsNextWord

(***************************************************************************)
(* Each step keeps the types, the word in cir and the way the process      *)
(* ends.                                                                   *)
(***************************************************************************)
LEMMA NextInv == Inv /\ [Next \/ Terminated]_vars => Inv'
<1> SUFFICES ASSUME Inv, [Next \/ Terminated]_vars PROVE Inv'
  OBVIOUS
<1> USE DEF Inv
<1>1. CASE Fetch
  <2>1. memory[pc] \in Word
    BY <1>1 DEF Fetch, TypeOK, MachineTypeOK, CpuTypeOK
  <2> QED
    BY <1>1, <2>1 DEF Fetch, TypeOK, MachineTypeOK, CpuTypeOK, CountersTypeOK, CirFresh,
                      ExitNeedsNextWord, cpuVars, procVars, counters
<1>2. CASE FetchCrash \/ Leave \/ HandleCrash
  BY <1>2 DEF FetchCrash, Leave, HandleCrash, Crash, Return, TypeOK,
              MachineTypeOK, CpuTypeOK, CountersTypeOK, CirFresh, ExitNeedsNextWord, cpuVars,
              counters
<1>3. CASE Handle
  <2> DEFINE i == Instr[cir]
  <2>1. i \in Instruction /\ pc \in Word /\ nnpc \in Word
    BY <1>3, WordFacts DEF TypeOK, MachineTypeOK, CountersTypeOK
  <2>2. GuestTypeOK'
    BY <1>3, <2>1, ExecuteTyped DEF Handle, TypeOK, MachineTypeOK
  <2>3. npc' \in Word
    BY <1>3, <2>1, NNPCWord DEF Handle, IncrementPC, TypeOK, MachineTypeOK
  <2>4. nnpc' \in Word
    BY <1>3, <2>3, U32Word, WordFacts DEF Handle, IncrementPC
  <2> QED
    BY <1>3, <2>2, <2>3, <2>4 DEF Handle, IncrementPC, TypeOK, MachineTypeOK, CpuTypeOK,
       GuestTypeOK, CountersTypeOK, CirFresh, ExitNeedsNextWord, procVars
<1>4. CASE UNCHANGED vars
  BY <1>4 DEF vars, TypeOK, MachineTypeOK, CpuTypeOK, CountersTypeOK, CirFresh,
              ExitNeedsNextWord, cpuVars, procVars, counters
<1> QED
  BY <1>1, <1>2, <1>3, <1>4 DEF Next, Terminated

(***************************************************************************)
(* Every state is typed, a handler runs on the word at PC, and a process   *)
(* whose guest has exited ended as the next word has it (tail-call.c).     *)
(***************************************************************************)
THEOREM Invariance == Spec => []Inv
BY InitInv, NextInv, PTL DEF Spec

(***************************************************************************)
(* The handler of the word after the exit returns the guest's status; if   *)
(* that word has no page or no handler the status is lost in a crash       *)
(* (tail-call.c).                                                          *)
(***************************************************************************)
THEOREM NextWordDecides == Spec => []ExitNeedsNextWord
BY Invariance, PTL DEF Inv

(***************************************************************************)
(* The handler called after the exit returns before it changes anything.   *)
(***************************************************************************)
THEOREM QuietAfterwards == Spec => QuietAfterExit
<1>1. [Next \/ Terminated]_vars => [halted => UNCHANGED cpuVars]_cpuVars
  BY DEF Next, Terminated, Fetch, FetchCrash, Handle, HandleCrash, Leave, vars
<1> QED
  BY <1>1, PTL DEF Spec, QuietAfterExit

(***************************************************************************)
(* The instructions of the switch are these instructions.                  *)
(***************************************************************************)
LEMMA SameInstructions ==
  ASSUME NEW i, NEW at
  PROVE  /\ Execute(i, at) <=> Switch!Execute(i, at)
         /\ IncrementPC(i) <=> Switch!IncrementPC(i)
         /\ Fault(i) <=> Switch!Fault(i)
<1>1. /\ AluRegOps = Switch!AluRegOps /\ ShiftImmOps = Switch!ShiftImmOps
      /\ AluImmOps = Switch!AluImmOps /\ MultDivOps = Switch!MultDivOps
      /\ LoadOps = Switch!LoadOps /\ StoreOps = Switch!StoreOps
      /\ JumpOps = Switch!JumpOps /\ IndirectOps = Switch!IndirectOps
      /\ LinkingOps = Switch!LinkingOps /\ CondBranchOps = Switch!CondBranchOps
  BY DEF AluRegOps, Switch!AluRegOps, ShiftImmOps, Switch!ShiftImmOps,
         AluImmOps, Switch!AluImmOps, MultDivOps, Switch!MultDivOps,
         LoadOps, Switch!LoadOps, StoreOps, Switch!StoreOps,
         JumpOps, Switch!JumpOps, IndirectOps, Switch!IndirectOps,
         LinkingOps, Switch!LinkingOps, CondBranchOps, Switch!CondBranchOps
<1>2. BranchOps = Switch!BranchOps
  BY <1>1 DEF BranchOps, Switch!BranchOps
<1>3. \A x : /\ U32(x) = Switch!U32(x)
             /\ S32(x) = Switch!S32(x)
             /\ S16(x) = Switch!S16(x)
  BY DEF U32, S32, S16, Switch!U32, Switch!S32, Switch!S16
<1>4. Taken(i) <=> Switch!Taken(i)
  BY <1>1, <1>3 DEF Taken, Switch!Taken
<1>5. \A x : FallThrough(x) = Switch!FallThrough(x)
  BY <1>3 DEF FallThrough, Switch!FallThrough
<1>6. NNPCAfter(i, pc, nnpc) = Switch!NNPCAfter(i, pc, nnpc)
  <2>1. JumpTarget(i, pc) = Switch!JumpTarget(i, pc)
    BY <1>3 DEF JumpTarget, Switch!JumpTarget
  <2>2. BranchTarget(i, pc) = Switch!BranchTarget(i, pc)
    BY <1>3 DEF BranchTarget, Switch!BranchTarget
  <2>3. DirectTarget(i, pc, Taken(i)) = Switch!DirectTarget(i, pc, Switch!Taken(i))
    BY <1>1, <1>4, <1>5, <2>1, <2>2 DEF DirectTarget, Switch!DirectTarget
  <2> QED
    BY <1>1, <1>2, <2>3 DEF NNPCAfter, Switch!NNPCAfter
<1>7. IncrementPC(i) <=> Switch!IncrementPC(i)
  BY <1>3, <1>6 DEF IncrementPC, Switch!IncrementPC
<1>8. \A x, v : Assign(x, v) <=> Switch!Assign(x, v)
  BY DEF Assign, Switch!Assign
<1>9. \A x, op, a, b : Compute(x, op, a, b) <=> Switch!Compute(x, op, a, b)
  BY <1>8 DEF Compute, Switch!Compute
<1>10. Address(i) = Switch!Address(i)
  BY <1>3 DEF Address, Switch!Address
<1>11. /\ AluReg(i) <=> Switch!AluReg(i)
       /\ ShiftImm(i) <=> Switch!ShiftImm(i)
       /\ AluImm(i) <=> Switch!AluImm(i)
  BY <1>1, <1>9 DEF AluReg, Switch!AluReg, ShiftImm, Switch!ShiftImm,
                    AluImm, Switch!AluImm
<1>12. MultDivide(i) <=> Switch!MultDivide(i)
  BY <1>1 DEF MultDivide, Switch!MultDivide
<1>13. Move(i) <=> Switch!Move(i)
  BY <1>8 DEF Move, Switch!Move
<1>14. Branch(i, at) <=> Switch!Branch(i, at)
  <2>1. Taken(i) = Switch!Taken(i)
    BY <1>4 DEF Taken, Switch!Taken
  <2>2. branched' = Taken(i) <=> branched' = Switch!Taken(i)
    BY <2>1
  <2> QED
    BY <1>1, <1>2, <1>5, <1>8, <2>2, Zenon DEF Branch, Switch!Branch
<1>15. Load(i) <=> Switch!Load(i)
  BY <1>1, <1>8, <1>10 DEF Load, Switch!Load
<1>16. Store(i) <=> Switch!Store(i)
  BY <1>1, <1>8, <1>10 DEF Store, Switch!Store
<1>17. /\ ReadHardware(i) <=> Switch!ReadHardware(i)
       /\ Special(i) <=> Switch!Special(i)
  BY <1>8 DEF ReadHardware, Switch!ReadHardware, Special, Switch!Special,
              cpuVars, Switch!cpuVars
<1>18. SystemCall(i) <=> Switch!SystemCall(i)
  <2>1. \A name : Exit(name) <=> Switch!Exit(name)
    BY DEF Exit, Switch!Exit
  <2>2. \A name : SetThread(name) <=> Switch!SetThread(name)
    BY <1>8 DEF SetThread, Switch!SetThread
  <2>3. \A name : Protect(name) <=> Switch!Protect(name)
    BY DEF Protect, Switch!Protect
  <2>4. \A name : HostCall(name) <=> Switch!HostCall(name)
    BY <1>8 DEF HostCall, Switch!HostCall
  <2> QED
    BY <2>1, <2>2, <2>3, <2>4 DEF SystemCall, Switch!SystemCall
<1>19. Execute(i, at) <=> Switch!Execute(i, at)
  BY <1>11, <1>12, <1>13, <1>14, <1>15, <1>16, <1>17, <1>18
  DEF Execute, Switch!Execute
<1>20. Fault(i) <=> Switch!Fault(i)
  BY <1>1, <1>10 DEF Fault, Switch!Fault
<1> QED
  BY <1>7, <1>19, <1>20

(***************************************************************************)
(* A handler's body with INCREMENT_PC is one step of the switch, and the   *)
(* fetch a step it does not see.  A crash after the exit is the one step   *)
(* the switch does not take.                                               *)
(***************************************************************************)
LEMMA StepSimulation ==
  Inv /\ [Next \/ Terminated]_vars
    => [Switch!Next \/ Switch!AfterExit]_(Switch!vars)
<1> SUFFICES ASSUME Inv, [Next \/ Terminated]_vars
             PROVE  [Switch!Next \/ Switch!AfterExit]_(Switch!vars)
  OBVIOUS
<1>1. CASE Fetch \/ UNCHANGED vars
  BY <1>1 DEF Fetch, vars, Switch!vars, cpuVars, procVars, counters,
              Switch!cpuVars, Switch!procVars, Switch!counters
<1>2. CASE FetchCrash /\ halted
  <2>1. Switch!AfterExit
    BY <1>2 DEF FetchCrash, Switch!AfterExit, cpuVars
  <2> QED
    BY <2>1
<1>3. CASE FetchCrash /\ ~halted
  <2>1. pc \in Mapped => Switch!Fault(Switch!Cir)
    <3> SUFFICES ASSUME pc \in Mapped PROVE Switch!Fault(Switch!Cir)
      OBVIOUS
    <3> QED
      BY <1>3 DEF FetchCrash, HasHandler, Switch!Fault, Switch!Cir
  <2>2. Switch!CrashStep
    BY <1>3, <2>1 DEF FetchCrash, Crash, Switch!CrashStep, Switch!Running,
       Switch!Crash, cpuVars, counters, Switch!cpuVars, Switch!counters
  <2> QED
    BY <2>2 DEF Switch!Next
<1>4. CASE Leave
  <2>1. Switch!Finish
    BY <1>4 DEF Leave, Return, Switch!Finish, Switch!Return, cpuVars, counters,
       Switch!cpuVars, Switch!counters
  <2> QED
    BY <2>1 DEF Switch!Next
<1>5. CASE Handle
  <2>1. /\ ~halted /\ pc \in Mapped
        /\ Switch!Cir = Instr[cir]
    BY <1>5 DEF Handle, Inv, CirFresh, Switch!Cir
  <2>2. Switch!Execute(Switch!Cir, pc) /\ Switch!IncrementPC(Switch!Cir)
    BY <1>5, <2>1, SameInstructions DEF Handle
  <2>3. Switch!Step
    BY <1>5, <2>1, <2>2 DEF Handle, Switch!Step, Switch!Running, procVars,
       Switch!procVars
  <2> QED
    BY <2>3 DEF Switch!Next
<1>6. CASE HandleCrash
  <2>1. /\ ~halted /\ pc \in Mapped
        /\ Switch!Cir = Instr[cir]
    BY <1>6 DEF HandleCrash, Inv, CirFresh, Switch!Cir
  <2>2. Switch!Fault(Switch!Cir)
    BY <1>6, <2>1, SameInstructions DEF HandleCrash
  <2>3. Switch!CrashStep
    BY <1>6, <2>1, <2>2 DEF HandleCrash, Crash, Switch!CrashStep,
       Switch!Running, Switch!Crash, cpuVars, counters, Switch!cpuVars,
       Switch!counters
  <2> QED
    BY <2>3 DEF Switch!Next
<1> QED
  BY <1>1, <1>2, <1>3, <1>4, <1>5, <1>6 DEF Next, Terminated

(***************************************************************************)
(* Up to the exit, every guest runs as under the switch.                   *)
(***************************************************************************)
THEOREM Refinement == Spec => ImplementsSwitch
<1>1. Init => Switch!Init
  BY DEF Init, CpuInit, CountersInit, U32, Switch!Init, Switch!CpuInit,
         Switch!CountersInit, Switch!U32
<1> QED
  BY <1>1, StepSimulation, Invariance, PTL
  DEF Spec, ImplementsSwitch, Switch!UpToExit

(***************************************************************************)
(* At every step, after the exit too, a jump waits for one instruction     *)
(* (tail-call.c): what the refinement leaves open once the guest has       *)
(* exited.                                                                 *)
(***************************************************************************)
THEOREM TailJumpsWaitOnce == Spec => OneDelaySlot
<1>1. Init => WindowOK
  <2>1. Entry \in Word
    BY CpuAssumption
  <2>2. Entry + 1 \in Int /\ (Entry + 1) + 1 = Entry + 2
    BY <2>1, WordFacts
  <2> QED
    BY <2>2, U32Succ DEF Init, CountersInit, WindowOK
<1>2. WindowOK /\ [Next \/ Terminated]_vars => WindowOK'
  BY DEF Next, Terminated, Fetch, FetchCrash, Handle, HandleCrash, Leave,
         IncrementPC, WindowOK, vars, counters
<1>3. Inv /\ WindowOK /\ [Next \/ Terminated]_vars
        => [/\ pc \in Mapped
            /\ pc' = npc
            /\ npc' # U32(pc' + 1) => Instr[memory[pc]].op \in BranchOps
           ]_<<cpuVars, counters>>
  <2> SUFFICES ASSUME Inv, WindowOK, [Next \/ Terminated]_vars
               PROVE  [/\ pc \in Mapped
                       /\ pc' = npc
                       /\ npc' # U32(pc' + 1) => Instr[memory[pc]].op \in BranchOps
                      ]_<<cpuVars, counters>>
    OBVIOUS
  <2>1. CASE Handle
    BY <2>1 DEF Handle, Inv, CirFresh, WindowOK, IncrementPC, NNPCAfter, BranchOps
  <2>2. CASE Fetch \/ FetchCrash \/ HandleCrash \/ Leave \/ UNCHANGED vars
    BY <2>2 DEF Fetch, FetchCrash, HandleCrash, Leave, vars
  <2> QED
    BY <2>1, <2>2 DEF Next, Terminated
<1> QED
  BY <1>1, <1>2, <1>3, Invariance, PTL DEF Spec, OneDelaySlot
============================================================================
