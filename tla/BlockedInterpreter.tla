------------------------- MODULE BlockedInterpreter -------------------------
(***************************************************************************)
(* interpreter_blocked (blocked.c): guest code is decoded once into blocks *)
(* that end with the delay slot of their branch.  Blocks are found by      *)
(* address in a hash table, and a block ending in a direct branch keeps    *)
(* links to the blocks its two outcomes led to, so that hot paths skip the *)
(* table.  PC is moved once per block, to the address of its branch; the   *)
(* handlers of a block run in an unrolled loop that tests for the null     *)
(* terminator only once in Unroll handlers (a Duff device).                *)
(*                                                                         *)
(* A block_t pointer is an index in heap, NULL is 0.  Every block is in    *)
(* the hash table from its creation to the end of the run, so heap is also *)
(* the table.  An op_t is the word it was decoded from.                    *)
(***************************************************************************)
EXTENDS Cpu, Sequences

CONSTANTS
    Unroll,     \* UNROLL_SIZE, 8 in the code
    InitCap     \* initial capacity of ops, 32 in the code

ASSUME BlockedAssumption == Unroll \in Nat \ {0} /\ InitCap \in Nat \ {0}

VARIABLES
    pc, nnpc,   \* r[MIPS_R_PC] and r[MIPS_R_NNPC]; r[MIPS_R_NPC] is not used
    phase,      \* where interpreter_blocked is
    heap,       \* the blocks allocated so far
    current,    \* pointer to the block being run
    previous,   \* pointer to the block run before it
    dec,        \* the locals of decode_block
    idx,        \* position of the ops pointer in the block being run
    lane        \* handlers left before the unrolled loop tests its condition

localVars == <<phase, heap, current, previous, dec, idx, lane>>
vars      == <<cpuVars, procVars, pc, nnpc, localVars>>

NULL   == 0
NullOp == -1    \* the terminator: an op_t whose handler is NULL

Phases == {"lookup", "decode", "complete", "link", "enter", "execute",
           "leave", "return"}

\* capacity is the room decode_block allocated for ops and leaves to the block.
Block == [address : Word, ops : Seq(Word \cup {NullOp}), capacity : Nat,
          indirect : BOOLEAN, next : [BOOLEAN -> Nat]]

Size(b) == Len(b.ops)

\* decode_block's locals before it pushes anything.
NewDecoder(start) ==
    [pc |-> start, ops |-> <<>>, capacity |-> InitCap,
     branched |-> FALSE, indirect |-> FALSE]
NoDecoder == NewDecoder(0)

TypeOK ==
    /\ CpuTypeOK
    /\ pc \in Word /\ nnpc \in Word
    /\ phase \in Phases
    /\ heap \in Seq(Block)
    /\ current \in 0 .. Len(heap)
    /\ previous \in 0 .. Len(heap)
    /\ dec \in [pc : Word, ops : Seq(Word \cup {NullOp}), capacity : Nat,
                branched : BOOLEAN, indirect : BOOLEAN]
    /\ idx \in Nat
    /\ lane \in 0 .. Unroll

Init ==
    /\ CpuInit
    /\ pc = Entry
    /\ nnpc = U32(Entry + 2)
    /\ phase = "lookup"
    /\ heap = <<>>
    /\ current = NULL
    /\ previous = NULL
    /\ dec = NoDecoder
    /\ idx = 0
    /\ lane = 0

------------------------------------------------------------------------------
\* The outer loop: HASH_FIND by PC.

At(p) == proc = "running" /\ phase = p

Found(b) == heap[b].address = pc

LookupHit ==
    /\ At("lookup") /\ ~halted
    /\ \E b \in DOMAIN heap : Found(b) /\ current' = b
    /\ phase' = "link"
    /\ UNCHANGED <<cpuVars, procVars, pc, nnpc, heap, previous, dec, idx, lane>>

LookupMiss ==
    /\ At("lookup") /\ ~halted
    /\ \A b \in DOMAIN heap : ~Found(b)
    /\ dec' = NewDecoder(pc)
    /\ phase' = "decode"
    /\ UNCHANGED <<cpuVars, procVars, pc, nnpc, heap, current, previous, idx,
                   lane>>

------------------------------------------------------------------------------
\* decode_block: one DISPATCH and the label it reaches.

\* DARRAY_PUSH
Push(d, op) ==
    [d EXCEPT !.capacity = IF Len(d.ops) = d.capacity THEN 2 * @ ELSE @,
              !.ops = Append(@, op)]

\* LABEL, LABEL_BRANCH and LABEL_BRANCH_INDIRECT
Decoded(d, word) ==
    [Push(d, word) EXCEPT
        !.pc = U32(@ + 1),
        !.branched = @ \/ Instr[word].op \in BranchOps,
        !.indirect = @ \/ Instr[word].op \in IndirectOps]

\* A mutated form of DecodeOp: a block that would be no more than a branch and
\* its slot is extended to the next branch and slot.
DecodeOpPastSlot ==
    /\ At("decode")
    /\ dec.pc \in Mapped
    /\ LET word == memory[dec.pc]
       IN  /\ Instr[word].op # "illegal"
           /\ dec' = Decoded(dec, word)
           /\ phase' = IF /\ Instr[word].op \notin BranchOps
                          /\ Len(dec.ops) > 1
                          /\ Instr[dec.ops[Len(dec.ops)]].op \in BranchOps
                       THEN "complete" ELSE "decode"
    /\ UNCHANGED <<cpuVars, procVars, pc, nnpc, heap, current, previous, idx,
                   lane>>

DecodeOp ==
    /\ At("decode")
    /\ dec.pc \in Mapped
    /\ LET word == memory[dec.pc]
       IN  /\ Instr[word].op # "illegal"
           /\ dec' = Decoded(dec, word)
           /\ phase' = IF Instr[word].op \notin BranchOps
                           /\ (dec.branched \/ halted)
                       THEN "complete" ELSE "decode"
    /\ UNCHANGED <<cpuVars, procVars, pc, nnpc, heap, current, previous, idx,
                   lane>>

\* The decoder runs into an address without a page or a word without a label.
DecodeCrash ==
    /\ At("decode")
    /\ dec.pc \in Mapped => Instr[memory[dec.pc]].op = "illegal"
    /\ Crash
    /\ UNCHANGED <<cpuVars, pc, nnpc, localVars>>

\* Mutated forms of Complete: the key is the address the decoder stopped at; the
\* terminator is written without a look at the capacity.
CompleteAtEnd ==
    /\ At("complete")
    /\ LET done == Push(dec, NullOp)
       IN  heap' = Append(heap, [address  |-> dec.pc,
                                 ops      |-> done.ops,
                                 capacity |-> done.capacity,
                                 indirect |-> dec.indirect,
                                 next     |-> [t \in BOOLEAN |-> NULL]])
    /\ current' = Len(heap) + 1
    /\ dec' = NoDecoder
    /\ phase' = "link"
    /\ UNCHANGED <<cpuVars, procVars, pc, nnpc, previous, idx, lane>>

CompleteUngrown ==
    /\ At("complete")
    /\ heap' = Append(heap, [address  |-> pc,
                             ops      |-> Append(dec.ops, NullOp),
                             capacity |-> dec.capacity,
                             indirect |-> dec.indirect,
                             next     |-> [t \in BOOLEAN |-> NULL]])
    /\ current' = Len(heap) + 1
    /\ dec' = NoDecoder
    /\ phase' = "link"
    /\ UNCHANGED <<cpuVars, procVars, pc, nnpc, previous, idx, lane>>

\* Terminate the ops, build the block, and HASH_ADD it in the caller.
Complete ==
    /\ At("complete")
    /\ LET done == Push(dec, NullOp)
       IN  heap' = Append(heap, [address  |-> pc,
                                 ops      |-> done.ops,
                                 capacity |-> done.capacity,
                                 indirect |-> dec.indirect,
                                 next     |-> [t \in BOOLEAN |-> NULL]])
    /\ current' = Len(heap) + 1
    /\ dec' = NoDecoder
    /\ phase' = "link"
    /\ UNCHANGED <<cpuVars, procVars, pc, nnpc, previous, idx, lane>>

\* A mutated form of Link: the link is always stored under the taken outcome.
LinkTaken ==
    /\ At("link")
    /\ heap' = IF previous # NULL /\ ~heap[previous].indirect
               THEN [heap EXCEPT ![previous].next[TRUE] = current]
               ELSE heap
    /\ phase' = "enter"
    /\ UNCHANGED <<cpuVars, procVars, pc, nnpc, current, previous, dec, idx,
                   lane>>

\* The block that led here by a direct branch remembers this one, under the
\* outcome its branch left in the branched flag.
Link ==
    /\ At("link")
    /\ heap' = IF previous # NULL /\ ~heap[previous].indirect
               THEN [heap EXCEPT ![previous].next[branched] = current]
               ELSE heap
    /\ phase' = "enter"
    /\ UNCHANGED <<cpuVars, procVars, pc, nnpc, current, previous, dec, idx,
                   lane>>

------------------------------------------------------------------------------
\* The inner loop: run current, then follow its link.

\* A mutated form of EntryLane: the terminator is counted as a handler.
EntryLaneOfSize(b) ==
    LET remainder == Size(b) % Unroll
    IN  IF remainder = 0 THEN Unroll ELSE remainder

\* Where switch ((size - 1) % UNROLL_SIZE) enters the unrolled loop, as the
\* number of handlers it runs before the first test.
EntryLane(b) ==
    LET remainder == (Size(b) - 1) % Unroll
    IN  IF remainder = 0 THEN Unroll ELSE remainder

\* A mutated form of Enter: PC is moved to the delay slot.
EnterAtDelaySlot ==
    /\ At("enter")
    /\ pc' = U32(pc + (Size(heap[current]) - 2))
    /\ idx' = 1
    /\ lane' = EntryLane(heap[current])
    /\ phase' = "execute"
    /\ UNCHANGED <<cpuVars, procVars, nnpc, heap, current, previous, dec>>

Enter ==
    /\ At("enter")
    /\ pc' = U32(pc + (Size(heap[current]) - 3))
    /\ idx' = 1
    /\ lane' = EntryLane(heap[current])
    /\ phase' = "execute"
    /\ UNCHANGED <<cpuVars, procVars, nnpc, heap, current, previous, dec>>

\* ops[k], taken as the terminator beyond the end of the array, which no run
\* reads (DuffExact).
OpAt(b, k) == IF k \in DOMAIN b.ops THEN b.ops[k] ELSE NullOp

\* A mutated form of ExecuteOp: the ops pointer is not advanced.
ExecuteOpAgain ==
    /\ At("execute")
    /\ LET op == OpAt(heap[current], idx)
       IN  /\ op # NullOp
           /\ Execute(Instr[op], pc)
           /\ nnpc' = NNPCAfter(Instr[op], pc, nnpc)
    /\ UNCHANGED <<procVars, pc, phase, heap, current, previous, dec, idx, lane>>

ExecuteOp ==
    /\ At("execute")
    /\ LET op == OpAt(heap[current], idx)
       IN  /\ op # NullOp
           /\ Execute(Instr[op], pc)
           /\ nnpc' = NNPCAfter(Instr[op], pc, nnpc)
    /\ idx' = idx + 1
    /\ \/ /\ lane > 1
          /\ lane' = lane - 1
          /\ UNCHANGED phase
       \/ /\ lane = 1
          /\ OpAt(heap[current], idx + 1) # NullOp
          /\ lane' = Unroll
          /\ UNCHANGED phase
       \/ /\ lane = 1
          /\ OpAt(heap[current], idx + 1) = NullOp
          /\ lane' = 0
          /\ phase' = "leave"
    /\ UNCHANGED <<procVars, pc, heap, current, previous, dec>>

\* The handler aborts, or the terminator is called.
ExecuteCrash ==
    /\ At("execute")
    /\ LET op == OpAt(heap[current], idx)
       IN  op # NullOp => Fault(Instr[op])
    /\ Crash
    /\ UNCHANGED <<cpuVars, pc, nnpc, localVars>>

\* Mutated forms of Leave: the link of a taken branch is followed in any case;
\* links are followed after the exit; previous is only set once.
LeaveTaken ==
    /\ At("leave")
    /\ pc' = nnpc
    /\ previous' = current
    /\ LET linked == heap[current].next[TRUE]
       IN  IF linked # NULL /\ ~heap[current].indirect /\ ~halted
           THEN current' = linked /\ phase' = "enter"
           ELSE current' = NULL /\ phase' = "lookup"
    /\ idx' = 0
    /\ UNCHANGED <<cpuVars, procVars, nnpc, heap, dec, lane>>

LeaveHalted ==
    /\ At("leave")
    /\ pc' = nnpc
    /\ previous' = current
    /\ LET linked == heap[current].next[branched]
       IN  IF linked # NULL /\ ~heap[current].indirect
           THEN current' = linked /\ phase' = "enter"
           ELSE current' = NULL /\ phase' = "lookup"
    /\ idx' = 0
    /\ UNCHANGED <<cpuVars, procVars, nnpc, heap, dec, lane>>

LeaveFirst ==
    /\ At("leave")
    /\ pc' = nnpc
    /\ previous' = IF previous = NULL THEN current ELSE previous
    /\ LET linked == heap[current].next[branched]
       IN  IF linked # NULL /\ ~heap[current].indirect /\ ~halted
           THEN current' = linked /\ phase' = "enter"
           ELSE current' = NULL /\ phase' = "lookup"
    /\ idx' = 0
    /\ UNCHANGED <<cpuVars, procVars, nnpc, heap, dec, lane>>

\* The end of the inner loop's body and its condition.
Leave ==
    /\ At("leave")
    /\ pc' = nnpc
    /\ previous' = current
    /\ LET linked == heap[current].next[branched]
       IN  IF linked # NULL /\ ~heap[current].indirect /\ ~halted
           THEN current' = linked /\ phase' = "enter"
           ELSE current' = NULL /\ phase' = "lookup"
    /\ idx' = 0
    /\ UNCHANGED <<cpuVars, procVars, nnpc, heap, dec, lane>>

\* The outer loop ends: the blocks are freed, and main returns 0.
Finish ==
    /\ At("lookup") /\ halted
    /\ heap' = <<>>
    /\ previous' = NULL
    /\ phase' = "return"
    /\ Return(0)
    /\ UNCHANGED <<cpuVars, pc, nnpc, current, dec, idx, lane>>

Next ==
    \/ LookupHit \/ LookupMiss
    \/ DecodeOp \/ DecodeCrash \/ Complete
    \/ Link \/ Enter \/ ExecuteOp \/ ExecuteCrash \/ Leave
    \/ Finish

Terminated == proc # "running" /\ UNCHANGED vars

Spec == Init /\ [][Next \/ Terminated]_vars /\ WF_vars(Next)
============================================================================
