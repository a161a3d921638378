--------------------------- MODULE BlockedProofs ---------------------------
(***************************************************************************)
(* The inductive invariant of interpreter_blocked, for every word size,    *)
(* instruction encoding, memory map, guest program, unrolling factor and   *)
(* initial capacity; what it does not say: the unrolled loop, the growing  *)
(* array, the keys of the hash table, and that links are never redirected; *)
(* and, resting on all of it, that the interpreter implements the switch   *)
(* on well-behaved guests.                                                 *)
(***************************************************************************)
EXTENDS BlockedProperties, CpuProofs, FiniteSetTheorems, FunctionTheorems

(***************************************************************************)
(* Facts about the types used throughout.                                  *)
(***************************************************************************)
LEMMA Types ==
  /\ 0 \in Word /\ NullOp \notin Word
  /\ \A w \in Word : w \in Int /\ Instr[w] \in Instruction
  /\ Mapped \subseteq Word
<1>1. 0 \in Word /\ NullOp \notin Word /\ \A w \in Word : w \in Int
  BY WordAssumption DEF Word, NullOp
<1>2. \A w \in Word : Instr[w] \in Instruction
  BY CpuAssumption
<1> QED
  BY <1>1, <1>2, CpuAssumption

(***************************************************************************)
(* The program and the loader start in a state that satisfies it.          *)
(***************************************************************************)
LEMMA InitInv == Init => IInv
<1> SUFFICES ASSUME Init PROVE IInv
  OBVIOUS
<1>1. CpuTypeOK
  BY CpuAssumption, Types DEF Init, CpuInit, CpuTypeOK
<1>2. Entry + 2 \in Int /\ Entry \in Word
  BY CpuAssumption, Types
<1>3. TypeOK
  BY <1>1, <1>2, U32Word, BlockedAssumption, Types
  DEF Init, TypeOK, Phases, NoDecoder, NewDecoder, NULL
<1> QED
  BY <1>3 DEF Init, IInv, NoBlockAtLookup, BlocksWellFormed, DecoderOK, EntryAtPC, PCAtBranch,
     PCFollowsBranch, LinksCoherent, NULL

(***************************************************************************)
(* What is said of the blocks alone survives any step that leaves them.    *)
(***************************************************************************)
LEMMA HeapFrame ==
  ASSUME IInv, UNCHANGED heap
  PROVE  BlocksWellFormed' /\ LinksCoherent'
BY DEF IInv, BlocksWellFormed, LinksCoherent

(***************************************************************************)
(* Looking up a block that exists.                                         *)
(***************************************************************************)
LEMMA LookupHitInv == IInv /\ LookupHit => IInv'
<1> SUFFICES ASSUME IInv, LookupHit PROVE IInv'
  OBVIOUS
<1> USE DEF IInv, LookupHit, At
<1>1. PICK b \in DOMAIN heap : Found(b) /\ current' = b
  OBVIOUS
<1>2. TypeOK'
  BY <1>1 DEF TypeOK, CpuTypeOK, cpuVars, procVars, Phases
<1>3. BlocksWellFormed' /\ LinksCoherent'
  BY HeapFrame
<1>4. EntryAtPC'
  BY <1>1 DEF EntryAtPC, Found
<1> QED
  BY <1>2, <1>3, <1>4 DEF NoBlockAtLookup, DecoderOK, PCAtBranch, PCFollowsBranch, BlockTarget,
     BlockBranch, BranchPos, Size, BranchAt, OpAddress, cpuVars

(***************************************************************************)
(* Starting to decode a block: the decoder holds nothing yet.              *)
(***************************************************************************)
LEMMA LookupMissInv == IInv /\ LookupMiss => IInv'
<1> SUFFICES ASSUME IInv, LookupMiss PROVE IInv'
  OBVIOUS
<1> USE DEF IInv, LookupMiss, At
<1>1. TypeOK'
  BY BlockedAssumption DEF TypeOK, CpuTypeOK, cpuVars, procVars, Phases, NewDecoder
<1>2. BlocksWellFormed' /\ LinksCoherent'
  BY HeapFrame
<1>3. DecoderOK'
  <2>1. /\ phase' = "decode" /\ ~halted'
        /\ dec'.ops = <<>> /\ ~dec'.branched /\ ~dec'.indirect
    BY DEF NewDecoder, cpuVars
  <2>2. Len(dec'.ops) = 0 /\ DOMAIN dec'.ops = {} /\ 1 .. 0 = {} /\ 1 .. 0 - 1 = {}
    BY <2>1
  <2>3. BranchesLast(dec'.ops, Len(dec'.ops)) /\ ~JumpsIndirectly(dec'.ops, Len(dec'.ops))
    BY <2>2, Zenon DEF BranchesLast, JumpsIndirectly
  <2> QED
    BY <2>1, <2>2, <2>3 DEF DecoderOK
<1> QED
  BY <1>1, <1>2, <1>3 DEF NoBlockAtLookup, EntryAtPC, PCAtBranch, PCFollowsBranch, BlockTarget,
     BlockBranch, BranchPos, Size, BranchAt, OpAddress, cpuVars

(***************************************************************************)
(* Decoding one instruction: it is pushed, and the block is complete when  *)
(* it is the delay slot of a branch.                                       *)
(***************************************************************************)
LEMMA DecodeOpInv == IInv /\ DecodeOp => IInv'
<1> SUFFICES ASSUME IInv, DecodeOp PROVE IInv'
  OBVIOUS
<1> USE DEF IInv, DecodeOp, At
<1> DEFINE word == memory[dec.pc]
           old  == dec.ops
<1>1. /\ word \in Word
      /\ old \in Seq(Word \cup {NullOp})
      /\ dec.capacity \in Nat
      /\ dec.pc \in Int
      /\ dec.branched \in BOOLEAN /\ dec.indirect \in BOOLEAN
  BY Types DEF TypeOK, CpuTypeOK
<1>2. dec' = [pc |-> U32(dec.pc + 1), ops |-> Append(old, word),
              capacity |-> IF Len(old) = dec.capacity THEN 2 * dec.capacity
                                                      ELSE dec.capacity,
              branched |-> dec.branched \/ IsBranch(word),
              indirect |-> dec.indirect \/ Instr[word].op \in IndirectOps]
  BY DEF TypeOK, Decoded, Push, IsBranch
<1>3. TypeOK'
  <2>1. U32(dec.pc + 1) \in Word
    BY <1>1, U32Word
  <2>2. Append(old, word) \in Seq(Word \cup {NullOp})
    BY <1>1
  <2>3. dec' \in [pc : Word, ops : Seq(Word \cup {NullOp}), capacity : Nat,
                  branched : BOOLEAN, indirect : BOOLEAN]
    BY <1>1, <1>2, <2>1, <2>2 DEF TypeOK, IsBranch
  <2> QED
    BY <2>3 DEF TypeOK, CpuTypeOK, cpuVars, procVars, Phases
<1>4. BlocksWellFormed' /\ LinksCoherent'
  BY HeapFrame
<1>5. DecoderOK'
  <2>0. /\ dec'.indirect <=> (dec.indirect \/ Instr[word].op \in IndirectOps)
        /\ dec'.branched <=> (dec.branched \/ IsBranch(word))
    <3>1. /\ dec'.indirect = (dec.indirect \/ Instr[word].op \in IndirectOps)
          /\ dec'.branched = (dec.branched \/ IsBranch(word))
      BY <1>2
    <3> QED
      BY <3>1, Zenon
  <2>1. /\ Len(dec'.ops) = Len(old) + 1
        /\ dec'.ops[Len(old) + 1] = word
        /\ \A k \in 1 .. Len(old) : dec'.ops[k] = old[k]
        /\ DOMAIN old = 1 .. Len(old) /\ DOMAIN dec'.ops = 1 .. Len(old) + 1
        /\ Len(old) \in Nat
    BY <1>1, <1>2
  <2>2. /\ ~halted'
        /\ \A k \in DOMAIN dec'.ops : dec'.ops[k] \in Word
        /\ dec'.indirect <=> JumpsIndirectly(dec'.ops, Len(dec'.ops))
    <3>1. /\ ~halted'
          /\ \A k \in 1 .. Len(old) : old[k] \in Word
          /\ dec.indirect <=> JumpsIndirectly(old, Len(old))
      BY <2>1 DEF DecoderOK, cpuVars
    <3>2. \A k : k \in 1 .. Len(old) + 1 <=> k \in 1 .. Len(old) \/ k = Len(old) + 1
      BY <2>1
    <3>3. \A k \in DOMAIN dec'.ops : dec'.ops[k] \in Word
      BY <1>1, <2>1, <3>1, <3>2, Zenon
    <3>4. JumpsIndirectly(dec'.ops, Len(dec'.ops))
            <=> JumpsIndirectly(old, Len(old)) \/ Instr[word].op \in IndirectOps
      BY <2>1, <3>2, Zenon DEF JumpsIndirectly
    <3> QED
      BY <2>0, <3>1, <3>3, <3>4
  <2>6. BranchesLast(old, Len(old))
    BY DEF DecoderOK
  <2>3. CASE IsBranch(word)
    <3>1. phase' = "decode" /\ dec'.branched /\ EndsInBranch(dec'.ops)
      BY <1>2, <2>0, <2>1, <2>3 DEF IsBranch, EndsInBranch
    <3>2. BranchesLast(dec'.ops, Len(dec'.ops))
      <4> SUFFICES ASSUME NEW k \in 1 .. Len(old), IsBranch(dec'.ops[k])
                   PROVE  IsBranch(dec'.ops[k + 1])
        BY <2>1 DEF BranchesLast
      <4>1. CASE k = Len(old)
        BY <2>1, <2>3, <4>1
      <4>2. CASE k # Len(old)
        <5>1. k \in 1 .. Len(old) - 1 /\ k + 1 \in 1 .. Len(old)
          BY <2>1, <4>2
        <5> QED
          BY <2>1, <2>6, <5>1 DEF BranchesLast
      <4> QED
        BY <4>1, <4>2
    <3> QED
      BY <2>2, <3>1, <3>2 DEF DecoderOK
  <2>4. CASE ~IsBranch(word) /\ dec.branched
    <3>1. EndsInBranch(old)
      BY <2>4 DEF DecoderOK
    <3>2. phase' = "complete"
      BY <2>4 DEF IsBranch
    <3>3. Len(dec'.ops) >= 2 /\ dec'.ops[Len(dec'.ops) - 1] = old[Len(old)]
      BY <2>1, <3>1 DEF EndsInBranch
    <3>4. BranchesLast(dec'.ops, Len(dec'.ops) - 1)
      <4>1. \A k \in 1 .. Len(old) - 1 : k \in 1 .. Len(old) /\ k + 1 \in 1 .. Len(old)
        BY <2>1
      <4>2. Len(dec'.ops) - 1 = Len(old)
        BY <2>1
      <4> QED
        BY <2>1, <2>6, <4>1, <4>2 DEF BranchesLast
    <3> QED
      BY <2>1, <2>2, <2>4, <3>1, <3>2, <3>3, <3>4 DEF DecoderOK, EndsInBranch
  <2>5. CASE ~IsBranch(word) /\ ~dec.branched
    <3>1. ~dec'.branched /\ phase' = "decode"
      BY <2>0, <2>2, <2>5, Zenon DEF DecoderOK, IsBranch
    <3>2. \A k \in DOMAIN dec'.ops : ~IsBranch(dec'.ops[k])
      <4>1. \A k \in 1 .. Len(old) : ~IsBranch(old[k])
        BY <2>1, <2>5 DEF DecoderOK
      <4>2. \A k \in 1 .. Len(old) + 1 : k \in 1 .. Len(old) \/ k = Len(old) + 1
        BY <2>1
      <4> QED
        BY <2>1, <2>5, <4>1, <4>2, Zenon
    <3>3. BranchesLast(dec'.ops, Len(dec'.ops))
      <4>1. \A k \in 1 .. Len(dec'.ops) - 1 : k \in DOMAIN dec'.ops
        BY <2>1
      <4> QED
        BY <3>2, <4>1, Zenon DEF BranchesLast
    <3> QED
      BY <2>2, <3>1, <3>2, <3>3 DEF DecoderOK
  <2> QED
    BY <2>3, <2>4, <2>5
<1> QED
  BY <1>3, <1>4, <1>5 DEF NoBlockAtLookup, EntryAtPC, PCAtBranch, PCFollowsBranch, BlockTarget,
     BlockBranch, BranchPos, Size, BranchAt, OpAddress, cpuVars

(***************************************************************************)
(* Completing a block: the terminated ops make a well-formed block without *)
(* links, decoded at PC.                                                   *)
(***************************************************************************)
LEMMA CompleteInv == IInv /\ Complete => IInv'
<1> SUFFICES ASSUME IInv, Complete PROVE IInv'
  OBVIOUS
<1> USE DEF IInv, Complete, At
<1> DEFINE n   == Len(heap)
           old == dec.ops
           new == [address  |-> pc, ops |-> Append(old, NullOp),
                   capacity |-> Push(dec, NullOp).capacity,
                   indirect |-> dec.indirect,
                   next     |-> [t \in BOOLEAN |-> NULL]]
<1>1. /\ n \in Nat /\ heap \in Seq(Block) /\ DOMAIN heap = 1 .. n
      /\ old \in Seq(Word \cup {NullOp})
      /\ Len(old) \in Nat /\ DOMAIN old = 1 .. Len(old)
      /\ pc \in Word /\ dec.indirect \in BOOLEAN
  BY DEF TypeOK
<1>2. heap' = Append(heap, new)
  BY DEF Push, TypeOK
<1>3. new \in Block
  <2>1. Push(dec, NullOp).capacity \in Nat
    BY DEF Push, TypeOK
  <2> QED
    BY <1>1, <2>1 DEF Block, NULL
<1>4. /\ heap' \in Seq(Block) /\ Len(heap') = n + 1
      /\ DOMAIN heap' = 1 .. n + 1
      /\ heap'[n + 1] = new
      /\ \A p \in 1 .. n : heap'[p] = heap[p]
  BY <1>1, <1>2, <1>3
<1>5. TypeOK'
  <2>1. current' \in Nat /\ phase' \in Phases
    BY <1>1 DEF Phases
  <2>2. dec' = NoDecoder
    OBVIOUS
  <2> QED
    BY <1>1, <1>4, <2>1, <2>2, BlockedAssumption, Types
    DEF TypeOK, CpuTypeOK, cpuVars, procVars, NoDecoder, NewDecoder
<1>6. BlocksWellFormed'
  <2>1. /\ Size(new) = Len(old) + 1 /\ Len(old) >= 2
        /\ new.ops[Len(old) + 1] = NullOp
        /\ \A k \in 1 .. Len(old) : new.ops[k] = old[k] /\ old[k] \in Word
    BY <1>1 DEF Size, DecoderOK
  <2>2. /\ IsBranch(old[Len(old) - 1]) /\ ~IsBranch(old[Len(old)])
        /\ BranchesLast(old, Len(old) - 1)
        /\ dec.indirect <=> JumpsIndirectly(old, Len(old))
    BY DEF DecoderOK
  <2>4. /\ Size(new) >= 3
        /\ new.ops[Size(new)] = NullOp
        /\ \A k \in 1 .. Size(new) - 1 : new.ops[k] \in Word
    <3> HIDE DEF new
    <3>1. Size(new) >= 3 /\ Size(new) - 1 = Len(old)
      BY <1>1, <2>1
    <3> QED
      BY <2>1, <3>1, Zenon
  <2>5. /\ BranchPos(new) = Len(old) - 1
        /\ new.ops[BranchPos(new)] = old[Len(old) - 1]
        /\ new.ops[Size(new) - 1] = old[Len(old)]
    <3>1. BranchPos(new) = Len(old) - 1
      BY <1>1, <2>1 DEF BranchPos
    <3>2. Len(old) - 1 \in 1 .. Len(old) /\ Len(old) \in 1 .. Len(old)
          /\ Size(new) - 1 = Len(old)
      BY <1>1, <2>1
    <3> HIDE DEF new
    <3> QED
      BY <2>1, <3>1, <3>2
  <2>6. /\ IsBranch(new.ops[BranchPos(new)])
        /\ ~IsBranch(new.ops[Size(new) - 1])
    <3> HIDE DEF new
    <3> QED
      BY <2>2, <2>5, Zenon
  <2>3. /\ BranchesLast(new.ops, BranchPos(new))
        /\ new.indirect <=> JumpsIndirectly(new.ops, Size(new) - 1)
    <3>1. new.indirect = dec.indirect
      OBVIOUS
    <3> HIDE DEF new
    <3>2. \A k \in 1 .. Len(old) - 1 - 1 : k \in 1 .. Len(old) /\ k + 1 \in 1 .. Len(old)
      BY <1>1
    <3>3. BranchesLast(new.ops, BranchPos(new))
      BY <2>1, <2>2, <2>5, <3>2, Zenon DEF BranchesLast
    <3>4. Size(new) - 1 = Len(old)
      BY <1>1, <2>1
    <3>5. JumpsIndirectly(new.ops, Size(new) - 1) <=> JumpsIndirectly(old, Len(old))
      BY <2>1, <3>4, Zenon DEF JumpsIndirectly
    <3> QED
      BY <2>2, <3>1, <3>3, <3>5
  <2> HIDE DEF new
  <2>7. ASSUME NEW p \in 1 .. n + 1
        PROVE  BlockOK(heap'[p])
    <3>1. CASE p = n + 1
      BY <1>4, <2>3, <2>4, <2>6, <3>1, Zenon DEF BlockOK
    <3>2. CASE p # n + 1
      <4>1. p \in DOMAIN heap /\ heap'[p] = heap[p]
        BY <1>1, <1>4, <3>2
      <4> QED
        BY <4>1, Zenon DEF BlocksWellFormed
    <3> QED
      BY <3>1, <3>2
  <2> QED
    BY <1>4, <2>7, Zenon
    DEF BlocksWellFormed, BlockOK, BranchesLast, JumpsIndirectly, BranchPos, Size, IsBranch
<1>7. LinksCoherent'
  <2>1. \A t \in BOOLEAN : new.next[t] = NULL
    OBVIOUS
  <2> QED
    BY <1>1, <1>4, <2>1 DEF LinksCoherent
<1>8. EntryAtPC'
  BY <1>1, <1>4 DEF EntryAtPC
<1>9. PCFollowsBranch'
  BY <1>1, <1>4 DEF PCFollowsBranch, TypeOK, NULL, cpuVars
<1> QED
  BY <1>5, <1>6, <1>7, <1>8, <1>9 DEF NoBlockAtLookup, DecoderOK, PCAtBranch

(***************************************************************************)
(* A block's shape and targets depend on its address and its ops alone.    *)
(***************************************************************************)
LEMMA SameCode ==
  ASSUME NEW b, NEW c, b.address = c.address, b.ops = c.ops
  PROVE  /\ Size(b) = Size(c)
         /\ BranchPos(b) = BranchPos(c)
         /\ BlockBranch(b) = BlockBranch(c)
         /\ BranchAt(b) = BranchAt(c)
         /\ \A taken \in BOOLEAN : BlockTarget(b, taken) = BlockTarget(c, taken)
         /\ b.indirect = c.indirect /\ BlockOK(c) => BlockOK(b)
<1>1. Size(b) = Size(c)
  BY DEF Size
<1>2. BranchPos(b) = BranchPos(c)
  BY <1>1 DEF BranchPos
<1>3. BlockBranch(b) = BlockBranch(c)
  BY <1>2 DEF BlockBranch
<1>4. BranchAt(b) = BranchAt(c)
  BY <1>2 DEF BranchAt, OpAddress
<1>5. b.indirect = c.indirect /\ BlockOK(c) => BlockOK(b)
  BY <1>1, <1>2, Zenon DEF BlockOK
<1> QED
  BY <1>1, <1>2, <1>3, <1>4, <1>5 DEF BlockTarget

(***************************************************************************)
(* What ops and the flag indirect say of a block's last branch.            *)
(***************************************************************************)
LEMMA BranchOfBlock ==
  ASSUME NEW b, BlockOK(b), Size(b) \in Nat
  PROVE  /\ IsBranch(b.ops[BranchPos(b)]) /\ ~IsBranch(b.ops[Size(b) - 1])
         /\ ~b.indirect => BlockBranch(b).op \notin IndirectOps
<1>1. BranchPos(b) \in 1 .. Size(b) - 1
  BY DEF BlockOK, BranchPos
<1> QED
  BY <1>1, Zenon DEF BlockOK, JumpsIndirectly, BlockBranch

(***************************************************************************)
(* Storing a link changes one link of one block and no block's code.       *)
(***************************************************************************)
LEMMA LinkHeap ==
  ASSUME IInv, Link
  PROVE  /\ heap' \in Seq(Block) /\ Len(heap') = Len(heap)
         /\ DOMAIN heap' = DOMAIN heap
         /\ \A p \in DOMAIN heap :
               /\ heap'[p].address = heap[p].address
               /\ heap'[p].ops = heap[p].ops
               /\ heap'[p].indirect = heap[p].indirect
               /\ heap'[p].capacity = heap[p].capacity
               /\ \A t \in BOOLEAN :
                     \/ heap'[p].next[t] = heap[p].next[t]
                     \/ /\ p = previous /\ t = branched
                        /\ previous # NULL /\ ~heap[previous].indirect
                        /\ heap'[p].next[t] = current
<1>1. /\ heap \in Seq(Block) /\ branched \in BOOLEAN
      /\ Len(heap) \in Nat /\ DOMAIN heap = 1 .. Len(heap)
      /\ current \in Nat /\ previous \in 0 .. Len(heap)
  BY DEF IInv, TypeOK, CpuTypeOK
<1>2. CASE previous # NULL /\ ~heap[previous].indirect
  <2> DEFINE old == heap[previous]
             new == [old EXCEPT !.next[branched] = current]
  <2>1. previous \in DOMAIN heap /\ old \in Block
    BY <1>1, <1>2 DEF NULL
  <2>2. heap' = [heap EXCEPT ![previous] = new]
    BY <1>2 DEF Link
  <2>3. old.next \in [BOOLEAN -> Nat]
    BY <2>1 DEF Block
  <2>4. /\ new.address = old.address
        /\ new.ops = old.ops
        /\ new.indirect = old.indirect
        /\ new.capacity = old.capacity
        /\ new.next = [old.next EXCEPT ![branched] = current]
    BY <2>1 DEF Block
  <2>5. new \in Block
    <3>1. [old.next EXCEPT ![branched] = current] \in [BOOLEAN -> Nat]
      BY <1>1, <2>3
    <3> QED
      BY <2>1, <3>1 DEF Block
  <2>6. \A t \in BOOLEAN :
            new.next[t] = IF t = branched THEN current ELSE old.next[t]
    <3> DEFINE f == old.next
    <3>1. \A t \in BOOLEAN : [f EXCEPT ![branched] = current][t]
                                = IF t = branched THEN current ELSE f[t]
      <4>1. DOMAIN f = BOOLEAN
        BY <2>3
      <4> HIDE DEF f
      <4> QED
        BY <1>1, <4>1
    <3> HIDE DEF new
    <3> QED
      BY <2>4, <3>1, Zenon
  <2> HIDE DEF new
  <2>7. heap' \in Seq(Block) /\ Len(heap') = Len(heap)
    BY <1>1, <2>1, <2>2, <2>5
  <2>8. \A p \in DOMAIN heap : heap'[p] = IF p = previous THEN new ELSE heap[p]
    BY <1>1, <2>1, <2>2
  <2>9. ASSUME NEW p \in DOMAIN heap
        PROVE  /\ heap'[p].address = heap[p].address
               /\ heap'[p].ops = heap[p].ops
               /\ heap'[p].indirect = heap[p].indirect
               /\ heap'[p].capacity = heap[p].capacity
               /\ \A t \in BOOLEAN :
                     \/ heap'[p].next[t] = heap[p].next[t]
                     \/ /\ p = previous /\ t = branched
                        /\ previous # NULL /\ ~heap[previous].indirect
                        /\ heap'[p].next[t] = current
    <3>1. CASE p = previous
      <4>1. heap'[p] = new
        BY <2>8, <3>1
      <4> QED
        BY <1>2, <2>4, <2>6, <3>1, <4>1, Zenon
    <3>2. CASE p # previous
      BY <2>8, <3>2
    <3> QED
      BY <3>1, <3>2
  <2>10. DOMAIN heap' = DOMAIN heap
    BY <1>1, <2>7
  <2> QED
    BY <2>7, <2>9, <2>10
<1>3. CASE ~(previous # NULL /\ ~heap[previous].indirect)
  BY <1>1, <1>3 DEF Link
<1> QED
  BY <1>2, <1>3

(***************************************************************************)
(* The link stored is coherent: PC is where the previous block's branch    *)
(* leads under the branched flag, and current was decoded at PC.           *)
(***************************************************************************)
LEMMA LinkInv == IInv /\ Link => IInv'
<1> SUFFICES ASSUME IInv, Link PROVE IInv'
  OBVIOUS
<1>1. /\ At("link") /\ phase' = "enter"
      /\ UNCHANGED <<cpuVars, procVars, pc, nnpc, current, previous, dec, idx,
                     lane>>
      /\ TypeOK /\ branched \in BOOLEAN
  BY DEF Link, IInv, TypeOK, CpuTypeOK
<1>2. TypeOK'
  BY <1>1, LinkHeap DEF TypeOK, CpuTypeOK, cpuVars, procVars, Phases
<1>3. current \in DOMAIN heap /\ heap[current].address = pc
  BY <1>1 DEF IInv, EntryAtPC, At
<1>4. ASSUME NEW p \in DOMAIN heap
      PROVE  /\ Size(heap'[p]) = Size(heap[p])
             /\ BranchPos(heap'[p]) = BranchPos(heap[p])
             /\ BlockBranch(heap'[p]) = BlockBranch(heap[p])
             /\ \A t \in BOOLEAN : BlockTarget(heap'[p], t) = BlockTarget(heap[p], t)
  BY LinkHeap, SameCode
<1>5. BlocksWellFormed'
  <2>1. ASSUME NEW p \in DOMAIN heap
        PROVE  BlockOK(heap'[p])
    BY LinkHeap, SameCode, Zenon DEF IInv, BlocksWellFormed
  <2> QED
    BY LinkHeap, <2>1, Zenon
    DEF BlocksWellFormed, BlockOK, BranchesLast, JumpsIndirectly, BranchPos, Size, IsBranch
<1>6. LinksCoherent'
  <2> SUFFICES ASSUME NEW p \in DOMAIN heap, NEW t \in BOOLEAN,
                      heap'[p].next[t] # NULL
               PROVE  /\ heap'[p].next[t] \in DOMAIN heap
                      /\ ~heap'[p].indirect
                      /\ heap'[heap'[p].next[t]].address = BlockTarget(heap[p], t)
    <3>1. ASSUME NEW p \in DOMAIN heap', NEW t \in BOOLEAN, heap'[p].next[t] # NULL
          PROVE  /\ heap'[p].next[t] \in DOMAIN heap'
                 /\ ~heap'[p].indirect
                 /\ heap'[heap'[p].next[t]].address = BlockTarget(heap'[p], t)
      <4>1. p \in DOMAIN heap /\ DOMAIN heap' = DOMAIN heap
        BY <3>1, LinkHeap, Zenon
      <4>2. BlockTarget(heap'[p], t) = BlockTarget(heap[p], t)
        BY <1>4, <4>1, Zenon
      <4>3. /\ heap'[p].next[t] \in DOMAIN heap
            /\ ~heap'[p].indirect
            /\ heap'[heap'[p].next[t]].address = BlockTarget(heap[p], t)
        BY <3>1, <4>1, Zenon
      <4> QED
        BY <4>1, <4>2, <4>3, Zenon
    <3> QED
      BY <3>1, Zenon DEF LinksCoherent
  <2>1. CASE heap'[p].next[t] = heap[p].next[t]
    <3>1. /\ heap[p].next[t] \in DOMAIN heap
          /\ ~heap[p].indirect
          /\ heap[heap[p].next[t]].address = BlockTarget(heap[p], t)
      BY <2>1, Zenon DEF IInv, LinksCoherent
    <3> QED
      BY <2>1, <3>1, LinkHeap, Zenon
  <2>2. CASE /\ p = previous /\ t = branched
             /\ previous # NULL /\ ~heap[previous].indirect
             /\ heap'[p].next[t] = current
    <3>1. pc = BlockTarget(heap[p], t)
      BY <1>1, <2>2 DEF IInv, PCFollowsBranch, At
    <3> QED
      BY <1>3, <2>2, <3>1, LinkHeap, Zenon
  <2> QED
    BY <2>1, <2>2, LinkHeap, Zenon
<1>7. EntryAtPC'
  BY <1>1, <1>3, LinkHeap DEF EntryAtPC
<1> QED
  BY <1>1, <1>2, <1>5, <1>6, <1>7 DEF IInv, NoBlockAtLookup, DecoderOK, PCAtBranch, PCFollowsBranch

(***************************************************************************)
(* Entering a block moves PC from its first instruction to its branch.     *)
(***************************************************************************)
LEMMA EnterInv == IInv /\ Enter => IInv'
<1> SUFFICES ASSUME IInv, Enter PROVE IInv'
  OBVIOUS
<1> USE DEF IInv, Enter, At
<1> DEFINE b == heap[current]
<1>1. /\ current \in DOMAIN heap /\ b.address = pc /\ b \in Block
      /\ Size(b) \in Nat /\ Size(b) >= 3 /\ pc \in Int
  <2>1. current \in DOMAIN heap /\ b.address = pc /\ pc \in Int
    BY Types DEF EntryAtPC, TypeOK
  <2>2. b \in Block
    BY <2>1 DEF TypeOK
  <2>3. b.ops \in Seq(Word \cup {NullOp})
    BY <2>2 DEF Block
  <2>4. Size(b) \in Nat
    BY <2>3 DEF Size
  <2> QED
    BY <2>1, <2>2, <2>4 DEF BlocksWellFormed, BlockOK
<1>2. EntryLane(b) \in 0 .. Unroll
  <2> HIDE DEF b
  <2>1. (Size(b) - 1) % Unroll \in 0 .. Unroll
    BY <1>1, BlockedAssumption
  <2> QED
    BY <2>1, BlockedAssumption DEF EntryLane
<1>3. pc + (Size(b) - 3) \in Int /\ pc + (Size(b) - 3) = pc + (BranchPos(b) - 1)
  BY <1>1 DEF BranchPos, Size
<1>4. TypeOK'
  BY <1>2, <1>3, U32Word DEF TypeOK, CpuTypeOK, cpuVars, procVars, Phases
<1>5. BlocksWellFormed' /\ LinksCoherent'
  BY HeapFrame
<1>6. PCAtBranch'
  <2>1. pc' = BranchAt(b)
    BY <1>1, <1>3 DEF BranchAt, OpAddress
  <2> QED
    BY <1>1, <2>1 DEF PCAtBranch, BranchAt, OpAddress, BranchPos, Size
<1>7. PCFollowsBranch'
  <2>1. ~(idx' > BranchPos(b))
    BY <1>1 DEF BranchPos, Size
  <2> QED
    BY <2>1 DEF PCFollowsBranch, BranchPos, Size
<1> QED
  BY <1>4, <1>5, <1>6, <1>7 DEF NoBlockAtLookup, DecoderOK, EntryAtPC

(***************************************************************************)
(* Which op runs where: what runs is an instruction of the block, the one  *)
(* before the terminator is no branch, and the loop is left only in front  *)
(* of the terminator.                                                      *)
(***************************************************************************)
LEMMA OpsOfBlock ==
  ASSUME BlocksWellFormed, heap \in Seq(Block), NEW p \in DOMAIN heap,
         NEW k \in Nat
  PROVE  LET b == heap[p]
         IN  /\ Size(b) \in Nat /\ Size(b) >= 3
             /\ OpAt(b, k) # NullOp =>
                   k \in 1 .. Size(b) - 1 /\ OpAt(b, k) = b.ops[k]
                   /\ OpAt(b, k) \in Word
             /\ k \in 1 .. Size(b) - 1 => OpAt(b, k) # NullOp
<1> DEFINE b == heap[p]
<1>1. /\ b.ops \in Seq(Word \cup {NullOp})
      /\ Size(b) \in Nat /\ DOMAIN b.ops = 1 .. Size(b)
  <2>1. b \in Block
    OBVIOUS
  <2>2. b.ops \in Seq(Word \cup {NullOp})
    BY <2>1 DEF Block
  <2> QED
    BY <2>2 DEF Size
<1>2. /\ Size(b) >= 3
      /\ b.ops[Size(b)] = NullOp
      /\ \A j \in 1 .. Size(b) - 1 : b.ops[j] \in Word
  BY DEF BlocksWellFormed, BlockOK
<1> HIDE DEF b
<1>3. ASSUME OpAt(b, k) # NullOp
      PROVE  k \in 1 .. Size(b) - 1 /\ OpAt(b, k) = b.ops[k]
             /\ OpAt(b, k) \in Word
  <2>1. k \in DOMAIN b.ops /\ OpAt(b, k) = b.ops[k]
    BY <1>3 DEF OpAt
  <2>2. k \in 1 .. Size(b) - 1
    BY <1>1, <1>2, <1>3, <2>1
  <2> QED
    BY <1>2, <2>1, <2>2
<1>4. ASSUME k \in 1 .. Size(b) - 1
      PROVE  OpAt(b, k) # NullOp
  <2>1. k \in DOMAIN b.ops
    BY <1>1, <1>4
  <2> QED
    BY <1>2, <1>4, <2>1, Types DEF OpAt
<1> QED
  BY <1>1, <1>2, <1>3, <1>4 DEF b

(***************************************************************************)
(* Running one op: the branch leaves NNPC and the branched flag in         *)
(* agreement, and the delay slot disturbs neither.                         *)
(***************************************************************************)
LEMMA ExecuteOpInv == IInv /\ ExecuteOp => IInv'
<1> SUFFICES ASSUME IInv, ExecuteOp PROVE IInv'
  OBVIOUS
<1> DEFINE b  == heap[current]
           op == OpAt(b, idx)
           i  == Instr[op]
<1>1. /\ phase = "execute" /\ op # NullOp
      /\ Execute(i, pc) /\ nnpc' = NNPCAfter(i, pc, nnpc)
      /\ idx' = idx + 1
      /\ UNCHANGED <<procVars, pc, heap, current, previous, dec>>
  BY DEF ExecuteOp, At
<1>2. /\ TypeOK /\ BlocksWellFormed /\ CpuTypeOK
      /\ heap \in Seq(Block) /\ idx \in Nat /\ pc \in Word /\ nnpc \in Word
      /\ current \in DOMAIN heap /\ pc = BranchAt(b)
  BY <1>1 DEF IInv, TypeOK, PCAtBranch
<1>3. /\ idx \in 1 .. Size(b) - 1 /\ op = b.ops[idx] /\ op \in Word
      /\ Size(b) \in Nat /\ Size(b) >= 3
      /\ idx + 1 \in 1 .. Size(b) - 1 => OpAt(b, idx + 1) # NullOp
  BY <1>1, <1>2, OpsOfBlock
<1>4. i \in Instruction
  BY <1>3, Types
<1>5. /\ phase' \in {"execute", "leave"}
      /\ lane' \in 0 .. Unroll
      /\ phase' = "leave" => OpAt(b, idx + 1) = NullOp
  BY <1>1, <1>2, BlockedAssumption DEF ExecuteOp, TypeOK
<1>6. TypeOK'
  <2>1. GuestTypeOK' /\ nnpc' \in Word
    BY <1>1, <1>2, <1>4, ExecuteTyped, NNPCWord
  <2>2. CpuTypeOK'
    BY <1>1, <1>2, <2>1 DEF GuestTypeOK, CpuTypeOK, procVars
  <2> QED
    BY <1>1, <1>2, <1>5, <2>1, <2>2 DEF TypeOK, Phases
<1>7. BlocksWellFormed' /\ LinksCoherent'
  BY <1>1, HeapFrame
<1>8. PCAtBranch'
  BY <1>1, <1>2 DEF PCAtBranch, BranchAt, OpAddress, BranchPos, Size
<1>9. ASSUME ~b.indirect, phase' = "leave" \/ idx' > BranchPos(b)
      PROVE  nnpc' = BlockTarget(b, branched')
  <2> HIDE DEF b
  <2>1. /\ IsBranch(b.ops[BranchPos(b)]) /\ ~IsBranch(b.ops[Size(b) - 1])
        /\ BlockBranch(b).op \notin IndirectOps
    BY <1>2, <1>3, <1>9, BranchOfBlock DEF BlocksWellFormed, b
  <2>2. BranchPos(b) = Size(b) - 2 /\ idx >= BranchPos(b)
    BY <1>1, <1>2, <1>3, <1>5, <1>9 DEF BranchPos
  <2>3. branched' = IF i.op \in BranchOps THEN Taken(i) ELSE branched
    BY <1>1, BranchedAfter
  <2>4. CASE idx = BranchPos(b)
    <3>1. i = BlockBranch(b) /\ i.op \in BranchOps /\ i.op \notin IndirectOps
      BY <1>3, <2>1, <2>4 DEF BlockBranch, IsBranch
    <3>2. nnpc' = DirectTarget(i, pc, Taken(i))
      BY <1>1, <3>1 DEF NNPCAfter
    <3>3. branched' = Taken(i)
      BY <2>3, <3>1
    <3> QED
      BY <1>2, <3>1, <3>2, <3>3 DEF BlockTarget, b
  <2>5. CASE idx # BranchPos(b)
    <3>1. idx = Size(b) - 1 /\ idx > BranchPos(b)
      BY <1>2, <1>3, <2>2, <2>5
    <3>2. i.op \notin BranchOps
      BY <1>3, <2>1, <3>1 DEF IsBranch
    <3>3. nnpc' = nnpc /\ branched' = branched
      BY <1>1, <2>3, <3>2 DEF NNPCAfter, BranchOps
    <3>4. nnpc = BlockTarget(b, branched)
      BY <1>1, <1>9, <3>1 DEF IInv, PCFollowsBranch, b
    <3> QED
      BY <3>3, <3>4
  <2> QED
    BY <2>4, <2>5
<1>10. PCFollowsBranch'
  <2>1. heap'[current'] = b
    BY <1>1
  <2>2. phase' \notin {"lookup", "decode", "complete", "link"}
    BY <1>5
  <2> HIDE DEF b
  <2>3. ASSUME phase' = "leave" \/ (phase' = "execute" /\ idx' > BranchPos(b)),
               ~b.indirect
        PROVE  nnpc' = BlockTarget(b, branched')
    BY <1>9, <2>3
  <2> QED
    BY <2>1, <2>2, <2>3
    DEF PCFollowsBranch, BlockTarget, BlockBranch, BranchAt, OpAddress,
        BranchPos, Size
<1> QED
  BY <1>1, <1>5, <1>6, <1>7, <1>8, <1>10
  DEF IInv, NoBlockAtLookup, DecoderOK, EntryAtPC

(***************************************************************************)
(* Leaving a block: PC goes where its branch leads, and a link followed    *)
(* leads to the block decoded there.                                       *)
(***************************************************************************)
LEMMA LeaveInv == IInv /\ Leave => IInv'
<1> SUFFICES ASSUME IInv, Leave PROVE IInv'
  OBVIOUS
<1> DEFINE b      == heap[current]
           linked == b.next[branched]
<1>1. /\ phase = "leave" /\ pc' = nnpc /\ previous' = current /\ idx' = 0
      /\ UNCHANGED <<cpuVars, procVars, nnpc, heap, dec, lane>>
      /\ \/ /\ linked # NULL /\ ~b.indirect
            /\ current' = linked /\ phase' = "enter"
         \/ current' = NULL /\ phase' = "lookup"
  BY DEF Leave, At
<1>2. /\ TypeOK /\ current \in DOMAIN heap /\ branched \in BOOLEAN
      /\ branched' = branched
      /\ heap \in Seq(Block) /\ DOMAIN heap = 1 .. Len(heap) /\ Len(heap) \in Nat
  BY <1>1 DEF IInv, TypeOK, CpuTypeOK, PCAtBranch, cpuVars
<1>3. ~b.indirect => nnpc = BlockTarget(b, branched)
  BY <1>1 DEF IInv, PCFollowsBranch
<1>4. linked # NULL => /\ linked \in DOMAIN heap
                       /\ heap[linked].address = BlockTarget(b, branched)
  BY <1>2 DEF IInv, LinksCoherent
<1>5. TypeOK'
  <2>1. current' \in 0 .. Len(heap) /\ previous' \in 0 .. Len(heap)
    BY <1>1, <1>2, <1>4 DEF NULL
  <2> QED
    BY <1>1, <1>2, <2>1 DEF TypeOK, CpuTypeOK, cpuVars, procVars, Phases
<1>6. BlocksWellFormed' /\ LinksCoherent'
  BY <1>1, HeapFrame
<1>7. EntryAtPC'
  BY <1>1, <1>3, <1>4 DEF EntryAtPC
<1>8. PCFollowsBranch'
  <2>1. heap'[previous'] = b /\ phase' \in {"enter", "lookup"}
    BY <1>1
  <2> HIDE DEF b
  <2>2. ~b.indirect => pc' = BlockTarget(b, branched')
    BY <1>1, <1>2, <1>3
  <2> QED
    BY <2>1, <2>2
    DEF PCFollowsBranch, BlockTarget, BlockBranch, BranchAt, OpAddress,
        BranchPos, Size
<1> QED
  BY <1>1, <1>5, <1>6, <1>7, <1>8
  DEF IInv, NoBlockAtLookup, DecoderOK, PCAtBranch

(***************************************************************************)
(* The process ending, and nothing happening after it.                     *)
(***************************************************************************)
LEMMA FrameInv ==
  ASSUME IInv, UNCHANGED <<cpuVars, pc, nnpc, localVars>>,
         proc' \in {"running", "exited", "crashed"}, exitcode' = exitcode
  PROVE  IInv'
<1> USE DEF cpuVars, localVars
<1>1. TypeOK'
  BY DEF IInv, TypeOK, CpuTypeOK
<1>2. BlocksWellFormed' /\ LinksCoherent'
  BY HeapFrame
<1> QED
  BY <1>1, <1>2
  DEF IInv, NoBlockAtLookup, DecoderOK, EntryAtPC, PCAtBranch, PCFollowsBranch,
      EndsInBranch, BlockTarget, BlockBranch, BranchAt, OpAddress, BranchPos,
      Size

(***************************************************************************)
(* The process ends: main returns what the loop left.                      *)
(***************************************************************************)
LEMMA FinishInv == IInv /\ Finish => IInv'
<1> SUFFICES ASSUME IInv, Finish PROVE IInv'
  OBVIOUS
<1>1. /\ heap' = <<>> /\ previous' = 0 /\ phase' = "return" /\ current' = 0
  BY DEF IInv, Finish, At, NoBlockAtLookup, NULL
<1>2. TypeOK'
  BY <1>1, Types
  DEF IInv, TypeOK, CpuTypeOK, Finish, Return, cpuVars, Phases
<1> QED
  BY <1>1, <1>2
  DEF IInv, NoBlockAtLookup, BlocksWellFormed, DecoderOK, EntryAtPC, PCAtBranch,
      PCFollowsBranch, LinksCoherent

(***************************************************************************)
(* The invariant holds in every state of every run of interpreter_blocked. *)
(***************************************************************************)
LEMMA StepInv == IInv /\ [Next \/ Terminated]_vars => IInv'
<1> SUFFICES ASSUME IInv, [Next \/ Terminated]_vars PROVE IInv'
  OBVIOUS
<1>1. CASE UNCHANGED vars
  <2>1. proc' \in {"running", "exited", "crashed"} /\ exitcode' = exitcode
    BY <1>1 DEF vars, procVars, IInv, TypeOK, CpuTypeOK
  <2> QED
    BY <1>1, <2>1, FrameInv DEF vars
<1>2. CASE DecodeCrash \/ ExecuteCrash
  BY <1>2, FrameInv DEF DecodeCrash, ExecuteCrash, Crash
<1> QED
  BY <1>1, <1>2, LookupHitInv, LookupMissInv, DecodeOpInv, CompleteInv, LinkInv,
     EnterInv, ExecuteOpInv, LeaveInv, FinishInv DEF Next, Terminated

(***************************************************************************)
(* The inductive invariant holds in every state of the blocked             *)
(* interpreter: decoded blocks, links, the moved PC and the branched flag  *)
(* (blocked.c).                                                            *)
(***************************************************************************)
THEOREM Invariance == Spec => []IInv
BY InitInv, StepInv, PTL DEF Spec

(***************************************************************************)
(* The interpreter's state keeps its types: words stay words through every *)
(* handler, and the block pointers stay within the blocks allocated.       *)
(***************************************************************************)
THEOREM TypeCorrect == Spec => []TypeOK
<1>1. IInv => TypeOK
  BY DEF IInv
<1> QED
  BY <1>1, Invariance, PTL

(***************************************************************************)
(* Whatever the guest, decode_block builds blocks of code without          *)
(* branches, one branch or several in a row, the last at size - 3, its     *)
(* delay slot, and the terminator (blocked.c).                             *)
(***************************************************************************)
THEOREM BlocksStayWellFormed == Spec => []BlocksWellFormed
<1>1. IInv => BlocksWellFormed
  BY DEF IInv
<1> QED
  BY <1>1, Invariance, PTL

(***************************************************************************)
(* Whatever the guest, also one that rewrites its code, a cached link leads to*)
(* the block decoded where the branch leads.                               *)
(***************************************************************************)
THEOREM LinksStayCoherent == Spec => []LinksCoherent
<1>1. IInv => LinksCoherent
  BY DEF IInv
<1> QED
  BY <1>1, Invariance, PTL

(***************************************************************************)
(* The inner loop never runs a block other than the one at PC, although it *)
(* follows links without looking at addresses.                             *)
(***************************************************************************)
THEOREM EntersAtPC == Spec => []EntryAtPC
<1>1. IInv => EntryAtPC
  BY DEF IInv
<1> QED
  BY <1>1, Invariance, PTL

(***************************************************************************)
(* The one addition per block leaves PC at the block's branch, so that branch*)
(* targets and return addresses are computed from the right place.         *)
(***************************************************************************)
THEOREM BranchSeesPC == Spec => []PCAtBranch
<1>1. IInv => PCAtBranch
  BY DEF IInv
<1> QED
  BY <1>1, Invariance, PTL

(***************************************************************************)
(* The branched flag under which the outer loop stores a link is the outcome*)
(* the program counter followed.                                           *)
(***************************************************************************)
THEOREM FlagTellsTarget == Spec => []PCFollowsBranch
<1>1. IInv => PCFollowsBranch
  BY DEF IInv
<1> QED
  BY <1>1, Invariance, PTL

------------------------------------------------------------------------------
\* The unrolled loop, the array, the hash table's keys and the links.

(***************************************************************************)
(* One round of the unrolled loop more or less.                            *)
(***************************************************************************)
LEMMA Rounds ==
  ASSUME NEW n \in Nat, NEW u \in Nat \ {0}
  PROVE  n <= n * u /\ n * u \in Nat /\ 0 * u = 0 /\ (n - 1) * u = n * u - u
OBVIOUS

(***************************************************************************)
(* The lane the switch enters at: the rest is whole rounds.                *)
(***************************************************************************)
LEMMA EntryLaneRounds ==
  ASSUME NEW n \in Nat, n > 0, NEW u \in Nat \ {0}
  PROVE  LET lanes == IF n % u = 0 THEN u ELSE n % u
         IN  /\ lanes \in 1 .. u
             /\ \E rounds \in 0 .. n : n - lanes = rounds * u
<1> DEFINE q == n \div u
           m == n % u
<1>1. /\ n = q * u + m /\ q \in Int /\ m \in 0 .. u - 1
  OBVIOUS
<1>2. q \in Nat
  <2> HIDE DEF q, m
  <2>1. SUFFICES ASSUME q <= -1 PROVE FALSE
    BY <1>1
  <2>2. q * u <= -u
    BY <1>1, <2>1
  <2> QED
    BY <1>1, <2>2
<1> HIDE DEF q, m
<1>3. CASE m = 0
  <2>1. q # 0
    BY <1>1, <1>3, Rounds
  <2>2. q - 1 \in Nat /\ n - u = (q - 1) * u
    BY <1>1, <1>2, <1>3, <2>1, Rounds
  <2>3. q - 1 <= n
    BY <1>1, <1>2, <1>3, Rounds
  <2> QED
    BY <1>3, <2>2, <2>3 DEF m
<1>4. CASE m # 0
  <2>1. n - m = q * u /\ q <= n /\ m \in 1 .. u
    BY <1>1, <1>2, <1>4, Rounds
  <2> QED
    BY <1>2, <1>4, <2>1 DEF m
<1> QED
  BY <1>3, <1>4

(***************************************************************************)
(* The unrolled loop: entering it and each handler in it.                  *)
(***************************************************************************)
LEMMA LoopStep == IInv /\ LoopOK /\ Next => LoopOK'
<1> SUFFICES ASSUME IInv, LoopOK, Next PROVE LoopOK'
  OBVIOUS
<1>1. CASE Enter
  <2> DEFINE b == heap[current]
  <2>1. /\ heap' = heap /\ current' = current /\ phase' = "execute" /\ idx' = 1
        /\ lane' = EntryLane(b) /\ current \in DOMAIN heap
        /\ BlocksWellFormed /\ heap \in Seq(Block)
    BY <1>1 DEF Enter, At, IInv, TypeOK, EntryAtPC
  <2>2. Size(b) \in Nat /\ Size(b) >= 3
    BY <2>1, OpsOfBlock
  <2> HIDE DEF b
  <2>3. /\ EntryLane(b) \in 1 .. Unroll
        /\ \E rounds \in 0 .. Size(b) - 1 :
               Size(b) - 1 - EntryLane(b) = rounds * Unroll
    <3> DEFINE n == Size(b) - 1
    <3>1. n \in Nat /\ n > 0 /\ Unroll \in Nat \ {0}
      BY <2>2, BlockedAssumption
    <3>2. EntryLane(b) = IF n % Unroll = 0 THEN Unroll ELSE n % Unroll
      BY DEF EntryLane
    <3> HIDE DEF n
    <3>3. LET lanes == IF n % Unroll = 0 THEN Unroll ELSE n % Unroll
          IN  /\ lanes \in 1 .. Unroll
              /\ \E rounds \in 0 .. n : n - lanes = rounds * Unroll
      BY <3>1, EntryLaneRounds
    <3>4. /\ EntryLane(b) \in 1 .. Unroll
          /\ \E rounds \in 0 .. n : n - EntryLane(b) = rounds * Unroll
      BY <3>2, <3>3
    <3> QED
      BY <3>4 DEF n
  <2>4. /\ 1 \in 1 .. Size(b) - 1 /\ EntryLane(b) > 0
        /\ \E rounds \in 0 .. Size(b) :
               Size(b) - 1 - EntryLane(b) = rounds * Unroll
    BY <2>2, <2>3, BlockedAssumption
  <2>5. Size(heap'[current']) = Size(b)
    BY <2>1 DEF b
  <2> QED
    BY <2>1, <2>4, <2>5 DEF LoopOK
<1>2. CASE ExecuteOp
  <2> DEFINE b == heap[current]
             z == Size(b)
  <2>1. /\ phase = "execute" /\ idx' = idx + 1
        /\ heap' = heap /\ current' = current
        /\ \/ lane > 1 /\ lane' = lane - 1 /\ phase' = phase
           \/ /\ lane = 1 /\ lane' = Unroll /\ phase' = phase
              /\ OpAt(b, idx + 1) # NullOp
           \/ lane = 1 /\ phase' = "leave" /\ OpAt(b, idx + 1) = NullOp
    BY <1>2 DEF ExecuteOp, At
  <2>2. /\ current \in DOMAIN heap /\ BlocksWellFormed /\ heap \in Seq(Block)
        /\ idx \in Nat /\ lane \in Int
    BY <2>1 DEF IInv, TypeOK, PCAtBranch
  <2>3. /\ z \in Nat
        /\ OpAt(b, idx + 1) # NullOp => idx + 1 \in 1 .. z - 1
        /\ idx + 1 \in 1 .. z - 1 => OpAt(b, idx + 1) # NullOp
    BY <2>2, OpsOfBlock
  <2>4. Size(heap'[current']) = z
    BY <2>1
  <2> HIDE DEF b, z
  <2>5. /\ idx \in 1 .. z - 1 /\ lane > 0
        /\ \E rounds \in 0 .. z : z - idx - lane = rounds * Unroll
    BY <2>1 DEF LoopOK, b, z
  <2>6. PICK rounds \in 0 .. z : z - idx - lane = rounds * Unroll
    BY <2>5
  <2>7. /\ rounds * Unroll \in Nat /\ rounds \in Nat /\ 0 * Unroll = 0
        /\ (rounds - 1) * Unroll = rounds * Unroll - Unroll
    BY <2>6, Rounds, BlockedAssumption
  <2>8. CASE lane > 1 /\ lane' = lane - 1 /\ phase' = phase
    <3>1. /\ idx' \in 1 .. z - 1 /\ lane' > 0
          /\ z - idx' - lane' = rounds * Unroll
      BY <2>1, <2>2, <2>3, <2>5, <2>6, <2>7, <2>8
    <3> QED
      BY <2>1, <2>4, <2>6, <2>8, <3>1 DEF LoopOK
  <2>9. CASE /\ lane = 1 /\ lane' = Unroll /\ phase' = phase
             /\ OpAt(b, idx + 1) # NullOp
    <3>1. idx' \in 1 .. z - 1 /\ lane' > 0
      BY <2>1, <2>3, <2>9, BlockedAssumption
    <3>2. z - idx - 1 > 0 /\ z - idx - 1 = rounds * Unroll
      BY <2>1, <2>2, <2>3, <2>6, <2>9, <3>1
    <3>3. rounds # 0
      BY <2>7, <3>2
    <3>4. rounds - 1 \in 0 .. z
      BY <2>3, <2>6, <3>3
    <3>5. z - idx' - lane' = (rounds - 1) * Unroll
      BY <2>1, <2>2, <2>3, <2>7, <2>9, <3>2, BlockedAssumption
    <3> QED
      BY <2>1, <2>4, <2>9, <3>1, <3>4, <3>5 DEF LoopOK
  <2>10. CASE lane = 1 /\ phase' = "leave" /\ OpAt(b, idx + 1) = NullOp
    <3>1. idx' = z
      BY <2>1, <2>2, <2>3, <2>5, <2>10
    <3> QED
      BY <2>4, <2>10, <3>1 DEF LoopOK
  <2> QED
    BY <2>1, <2>8, <2>9, <2>10
<1>3. CASE ExecuteCrash \/ DecodeCrash
  BY <1>3 DEF ExecuteCrash, DecodeCrash, localVars, LoopOK
<1>4. CASE LookupHit \/ LookupMiss \/ DecodeOp \/ Complete \/ Link \/ Leave \/ Finish
  <2>1. phase' \notin {"execute", "leave"}
    BY <1>4 DEF LookupHit, LookupMiss, DecodeOp, Complete, Link, Leave, Finish
  <2> QED
    BY <2>1 DEF LoopOK
<1> QED
  BY <1>1, <1>2, <1>3, <1>4 DEF Next

(***************************************************************************)
(* What completing a block does to the heap.                               *)
(***************************************************************************)
LEMMA CompleteHeap ==
  ASSUME IInv, Complete
  PROVE  /\ DOMAIN heap = 1 .. Len(heap) /\ Len(heap) \in Nat
         /\ DOMAIN heap' = 1 .. Len(heap) + 1
         /\ \A p \in DOMAIN heap : heap'[p] = heap[p]
         /\ heap'[Len(heap) + 1].address = pc
<1> DEFINE new == [address  |-> pc, ops |-> Push(dec, NullOp).ops,
                   capacity |-> Push(dec, NullOp).capacity,
                   indirect |-> dec.indirect,
                   next     |-> [t \in BOOLEAN |-> NULL]]
<1>1. heap \in Seq(Block) /\ heap' = Append(heap, new)
  BY DEF IInv, TypeOK, Complete
<1>2. new.address = pc
  OBVIOUS
<1> HIDE DEF new
<1> QED
  BY <1>1, <1>2

(***************************************************************************)
(* The block completed has room for its terminator.                        *)
(***************************************************************************)
LEMMA CompletedFits ==
  ASSUME IInv, ArrayOK, Complete
  PROVE  Size(heap'[Len(heap) + 1]) <= heap'[Len(heap) + 1].capacity
<1> DEFINE old  == dec.ops
           done == Push(dec, NullOp)
           new  == [address  |-> pc, ops |-> done.ops, capacity |-> done.capacity,
                    indirect |-> dec.indirect,
                    next     |-> [t \in BOOLEAN |-> NULL]]
<1>1. /\ heap \in Seq(Block) /\ heap' = Append(heap, new)
      /\ old \in Seq(Word \cup {NullOp})
      /\ dec.capacity \in Nat /\ dec.capacity > 0 /\ Len(old) <= dec.capacity
  BY DEF IInv, TypeOK, Complete, ArrayOK, OpsFitCapacity
<1>2. /\ done.ops = Append(old, NullOp)
      /\ done.capacity = IF Len(old) = dec.capacity THEN 2 * dec.capacity
                                                    ELSE dec.capacity
  BY DEF Push, IInv, TypeOK
<1>3. Len(old) \in Nat /\ Len(Append(old, NullOp)) = Len(old) + 1
  BY <1>1
<1>4. Len(done.ops) <= done.capacity
  BY <1>1, <1>2, <1>3
<1>5. new.ops = done.ops /\ new.capacity = done.capacity
  OBVIOUS
<1> HIDE DEF new
<1>6. heap'[Len(heap) + 1] = new
  BY <1>1
<1> QED
  BY <1>4, <1>5, <1>6 DEF Size

(***************************************************************************)
(* The array of ops.                                                       *)
(***************************************************************************)
LEMMA ArrayStep == IInv /\ ArrayOK /\ Next => ArrayOK'
<1> SUFFICES ASSUME IInv, ArrayOK, Next PROVE ArrayOK'
  OBVIOUS
<1>1. CASE DecodeOp
  <2> DEFINE old == dec.ops
  <2>1. /\ dec' = Decoded(dec, memory[dec.pc]) /\ old \in Seq(Word \cup {NullOp})
        /\ dec.capacity \in Nat /\ dec.capacity > 0 /\ Len(old) <= dec.capacity
        /\ memory[dec.pc] \in Word
    BY <1>1 DEF DecodeOp, IInv, TypeOK, CpuTypeOK, ArrayOK, OpsFitCapacity
  <2>4. heap' = heap
    BY <1>1 DEF DecodeOp
  <2>2. /\ dec'.ops = Append(old, memory[dec.pc])
        /\ dec'.capacity = IF Len(old) = dec.capacity THEN 2 * dec.capacity
                                                      ELSE dec.capacity
    BY <2>1 DEF Decoded, Push, IInv, TypeOK
  <2>3. Len(old) \in Nat /\ Len(dec'.ops) = Len(old) + 1
    BY <2>1, <2>2
  <2> QED
    BY <2>1, <2>2, <2>3, <2>4 DEF ArrayOK, OpsFitCapacity, Size
<1>2. CASE LookupMiss
  BY <1>2, BlockedAssumption
  DEF LookupMiss, NewDecoder, ArrayOK, OpsFitCapacity, Size
<1>3. CASE Complete
  <2>1. dec'.capacity > 0 /\ Len(dec'.ops) <= dec'.capacity
    BY <1>3, BlockedAssumption DEF Complete, NoDecoder, NewDecoder
  <2>2. \A p \in DOMAIN heap' : Size(heap'[p]) <= heap'[p].capacity
    BY <1>3, CompletedFits, CompleteHeap DEF ArrayOK, OpsFitCapacity
  <2> QED
    BY <2>1, <2>2 DEF ArrayOK, OpsFitCapacity, Size
<1>4. CASE Link
  <2>1. \A p \in DOMAIN heap : heap'[p].capacity = heap[p].capacity
    BY <1>4, LinkHeap
  <2>2. \A p \in DOMAIN heap' : Size(heap'[p]) <= heap'[p].capacity
    BY <1>4, <2>1, LinkHeap DEF ArrayOK, OpsFitCapacity, Size
  <2> QED
    BY <1>4, <2>2 DEF Link, ArrayOK, OpsFitCapacity, Size
<1>5. CASE Finish
  BY <1>5 DEF Finish, ArrayOK, OpsFitCapacity, Size
<1>6. CASE UNCHANGED <<dec, heap>>
  BY <1>6 DEF ArrayOK, OpsFitCapacity, Size
<1> QED
  BY <1>1, <1>2, <1>3, <1>4, <1>5, <1>6
  DEF Next, LookupHit, DecodeCrash, ExecuteCrash, localVars, Enter, ExecuteOp, Leave

(***************************************************************************)
(* The keys of the hash table: a block is decoded only when its address is *)
(* not there, and PC does not move while it is.                            *)
(***************************************************************************)
LEMMA KeysStep == IInv /\ KeysOK /\ Next => KeysOK'
<1> SUFFICES ASSUME IInv, KeysOK, Next PROVE KeysOK'
  OBVIOUS
<1>1. CASE LookupMiss
  BY <1>1 DEF LookupMiss, Found, KeysOK, UniqueBlocks
<1>2. CASE DecodeOp
  BY <1>2 DEF DecodeOp, At, KeysOK, UniqueBlocks
<1>3. CASE Complete
  <2>1. phase = "complete" /\ phase' = "link"
    BY <1>3 DEF Complete, At
  <2>2. \A p \in DOMAIN heap : heap[p].address # pc
    BY <2>1 DEF KeysOK
  <2>3. ASSUME NEW p \in DOMAIN heap', NEW q \in DOMAIN heap',
               heap'[p].address = heap'[q].address
        PROVE  p = q
    BY <1>3, <2>2, <2>3, CompleteHeap DEF KeysOK, UniqueBlocks
  <2> QED
    BY <2>1, <2>3 DEF KeysOK, UniqueBlocks
<1>4. CASE Link
  <2>1. phase' = "enter"
    BY <1>4 DEF Link
  <2> QED
    BY <1>4, <2>1, LinkHeap DEF KeysOK, UniqueBlocks
<1>5. CASE Finish
  BY <1>5 DEF Finish, KeysOK, UniqueBlocks
<1>6. CASE LookupHit \/ Enter \/ ExecuteOp \/ Leave
  BY <1>6 DEF LookupHit, Enter, ExecuteOp, Leave, KeysOK, UniqueBlocks
<1>7. CASE DecodeCrash \/ ExecuteCrash
  BY <1>7 DEF DecodeCrash, ExecuteCrash, localVars, KeysOK, UniqueBlocks
<1> QED
  BY <1>1, <1>2, <1>3, <1>4, <1>5, <1>6, <1>7 DEF Next

(***************************************************************************)
(* The inner loop gives up only on an empty link, which stays empty until  *)
(* the outer loop fills it.                                                *)
(***************************************************************************)
LEMMA EmptyLinkStep ==
  ASSUME IInv, EmptyLinkOK, NotHaltedAtLink, Next
  PROVE  EmptyLinkOK' /\ NotHaltedAtLink'
<1>1. CASE LookupHit \/ LookupMiss \/ DecodeOp
  <2>1. /\ phase \in {"lookup", "decode", "complete", "link"}
        /\ UNCHANGED <<heap, previous, cpuVars>> /\ ~halted
    BY <1>1 DEF LookupHit, LookupMiss, DecodeOp, At, IInv, DecoderOK
  <2> QED
    BY <2>1 DEF EmptyLinkOK, NotHaltedAtLink, cpuVars
<1>2. CASE Complete
  <2>1. /\ phase = "complete" /\ UNCHANGED <<previous, cpuVars>> /\ ~halted
        /\ previous \in 0 .. Len(heap)
    BY <1>2 DEF Complete, At, IInv, DecoderOK, TypeOK
  <2>2. previous # NULL => heap'[previous] = heap[previous]
    BY <1>2, <2>1, CompleteHeap DEF NULL
  <2> QED
    BY <2>1, <2>2 DEF EmptyLinkOK, NotHaltedAtLink, cpuVars
<1>3. CASE Leave
  <2>1. /\ phase' = "enter" \/ phase' = "lookup"
        /\ previous' = current /\ heap' = heap /\ UNCHANGED cpuVars
        /\ phase' = "lookup" =>
             \/ heap[current].next[branched] = NULL
             \/ heap[current].indirect
             \/ halted
    BY <1>3 DEF Leave
  <2> QED
    BY <2>1 DEF EmptyLinkOK, NotHaltedAtLink, cpuVars
<1>4. CASE Link \/ Enter \/ ExecuteOp \/ Finish
  <2>1. phase' \notin {"lookup", "decode", "complete", "link"}
    BY <1>4 DEF Link, Enter, ExecuteOp, Finish, At
  <2> QED
    BY <2>1 DEF EmptyLinkOK, NotHaltedAtLink
<1>5. CASE DecodeCrash \/ ExecuteCrash
  BY <1>5 DEF DecodeCrash, ExecuteCrash, localVars, cpuVars, EmptyLinkOK,
     NotHaltedAtLink
<1> QED
  BY <1>1, <1>2, <1>3, <1>4, <1>5 DEF Next

(***************************************************************************)
(* The stronger invariant holds before anything is decoded ...             *)
(***************************************************************************)
LEMMA LoopInit == Init => LoopInv
<1> SUFFICES ASSUME Init PROVE LoopInv
  OBVIOUS
<1>1. phase = "lookup" /\ heap = <<>> /\ previous = NULL /\ dec = NoDecoder
  BY DEF Init
<1> QED
  BY <1>1, InitInv, BlockedAssumption
  DEF LoopInv, LoopOK, ArrayOK, OpsFitCapacity, KeysOK, UniqueBlocks,
      EmptyLinkOK, NotHaltedAtLink, NoDecoder, NewDecoder

(***************************************************************************)
(* ... and after every step.                                               *)
(***************************************************************************)
LEMMA LoopNext == LoopInv /\ [Next \/ Terminated]_vars => LoopInv'
<1> SUFFICES ASSUME LoopInv, [Next \/ Terminated]_vars PROVE LoopInv'
  OBVIOUS
<1>1. IInv'
  BY StepInv DEF LoopInv
<1>2. CASE Next
  BY <1>1, <1>2, LoopStep, ArrayStep, KeysStep, EmptyLinkStep DEF LoopInv
<1>3. CASE UNCHANGED vars
  BY <1>1, <1>3
  DEF LoopInv, LoopOK, ArrayOK, OpsFitCapacity, KeysOK, UniqueBlocks,
      EmptyLinkOK, NotHaltedAtLink, vars, localVars, cpuVars
<1> QED
  BY <1>2, <1>3 DEF Terminated

(***************************************************************************)
(* The stronger invariant holds in every state of every run of the loop    *)
(* over blocks (blocked.c).                                                *)
(***************************************************************************)
THEOREM LoopInvariance == Spec => []LoopInv
BY LoopInit, LoopNext, PTL DEF Spec

(***************************************************************************)
(* The unrolled loop, entered in its middle and tested once a round, calls *)
(* every handler of the block once and stops on the terminator.            *)
(***************************************************************************)
THEOREM LoopStopsAtTerminator == Spec => []DuffExact
<1>1. LoopInv => DuffExact
  BY DEF LoopInv, LoopOK, DuffExact
<1> QED
  BY <1>1, LoopInvariance, PTL

(***************************************************************************)
(* DARRAY_PUSH never writes an op beyond the array it allocated.           *)
(***************************************************************************)
THEOREM ArrayHasRoom == Spec => []OpsFitCapacity
<1>1. LoopInv => OpsFitCapacity
  BY DEF LoopInv, ArrayOK
<1> QED
  BY <1>1, LoopInvariance, PTL

(***************************************************************************)
(* HASH_ADD is never called with an address that has a block.              *)
(***************************************************************************)
THEOREM DecodesOnce == Spec => []UniqueBlocks
<1>1. LoopInv => UniqueBlocks
  BY DEF LoopInv, KeysOK
<1> QED
  BY <1>1, LoopInvariance, PTL

(***************************************************************************)
(* The assignment to a link in the outer loop never replaces another link. *)
(***************************************************************************)
THEOREM LinksStay == Spec => LinkSetOnce
<1> DEFINE Kept ==
        proc' = "running" =>
          \A p \in DOMAIN heap : \A taken \in BOOLEAN :
              heap[p].next[taken] # NULL =>
                  heap'[p].next[taken] = heap[p].next[taken]
<1>1. LoopInv /\ [Next \/ Terminated]_vars => [Kept]_vars
  <2> SUFFICES ASSUME LoopInv, Next, proc' = "running",
                      NEW p \in DOMAIN heap, NEW taken \in BOOLEAN,
                      heap[p].next[taken] # NULL
               PROVE  heap'[p].next[taken] = heap[p].next[taken]
    BY DEF Terminated
  <2>1. CASE Complete
    BY <2>1, CompleteHeap DEF LoopInv
  <2>2. CASE Link
    <3>1. IInv /\ phase = "link" /\ ~halted
      BY <2>2 DEF Link, At, LoopInv, NotHaltedAtLink
    <3>2. ~(/\ p = previous /\ taken = branched
            /\ previous # NULL /\ ~heap[previous].indirect)
      BY <3>1 DEF LoopInv, EmptyLinkOK
    <3> QED
      BY <2>2, <3>1, <3>2, LinkHeap
  <2>3. CASE Finish
    BY <2>3 DEF Finish, Return
  <2>4. CASE heap' = heap
    BY <2>4
  <2> QED
    BY <2>1, <2>2, <2>3, <2>4
    DEF Next, LookupHit, LookupMiss, DecodeOp, DecodeCrash, ExecuteCrash,
        localVars, Enter, ExecuteOp, Leave
<1> QED
  BY <1>1, LoopInvariance, PTL DEF Spec, LinkSetOnce

------------------------------------------------------------------------------
(***************************************************************************)
(* The instructions of the switch are these instructions.                  *)
(***************************************************************************)
LEMMA SameInstructions ==
  ASSUME NEW i, NEW at
  PROVE  /\ Execute(i, at) <=> Switch!Execute(i, at)
         /\ \A n : NNPCAfter(i, at, n) = Switch!NNPCAfter(i, at, n)
         /\ Fault(i) <=> Switch!Fault(i)
<1>1. /\ AluRegOps = Switch!AluRegOps /\ ShiftImmOps = Switch!ShiftImmOps
      /\ AluImmOps = Switch!AluImmOps /\ MultDivOps = Switch!MultDivOps
      /\ LoadOps = Switch!LoadOps /\ StoreOps = Switch!StoreOps
      /\ JumpOps = Switch!JumpOps /\ IndirectOps = Switch!IndirectOps
      /\ LinkingOps = Switch!LinkingOps /\ CondBranchOps = Switch!CondBranchOps
  BY DEF AluRegOps, Switch!AluRegOps, ShiftImmOps, Switch!ShiftImmOps,
         AluImmOps, Switch!AluImmOps, MultDivOps, Switch!MultDivOps,
         LoadOps, Switch!LoadOps, StoreOps, Switch!StoreOps,
         JumpOps, Switch!JumpOps, IndirectOps, Switch!IndirectOps,
         LinkingOps, Switch!LinkingOps, CondBranchOps, Switch!CondBranchOps
<1>2. BranchOps = Switch!BranchOps
  BY <1>1 DEF BranchOps, Switch!BranchOps
<1>3. \A x : /\ U32(x) = Switch!U32(x)
             /\ S32(x) = Switch!S32(x)
             /\ S16(x) = Switch!S16(x)
  BY DEF U32, S32, S16, Switch!U32, Switch!S32, Switch!S16
<1>4. Taken(i) <=> Switch!Taken(i)
  BY <1>1, <1>3 DEF Taken, Switch!Taken
<1>5. \A x : FallThrough(x) = Switch!FallThrough(x)
  BY <1>3 DEF FallThrough, Switch!FallThrough
<1>6. \A n : NNPCAfter(i, at, n) = Switch!NNPCAfter(i, at, n)
  <2>1. JumpTarget(i, at) = Switch!JumpTarget(i, at)
    BY <1>3 DEF JumpTarget, Switch!JumpTarget
  <2>2. BranchTarget(i, at) = Switch!BranchTarget(i, at)
    BY <1>3 DEF BranchTarget, Switch!BranchTarget
  <2>3. DirectTarget(i, at, Taken(i)) = Switch!DirectTarget(i, at, Switch!Taken(i))
    BY <1>1, <1>4, <1>5, <2>1, <2>2 DEF DirectTarget, Switch!DirectTarget
  <2> QED
    BY <1>1, <1>2, <2>3 DEF NNPCAfter, Switch!NNPCAfter
<1>8. \A x, v : Assign(x, v) <=> Switch!Assign(x, v)
  BY DEF Assign, Switch!Assign
<1>9. \A x, op, a, b : Compute(x, op, a, b) <=> Switch!Compute(x, op, a, b)
  BY <1>8 DEF Compute, Switch!Compute
<1>10. Address(i) = Switch!Address(i)
  BY <1>3 DEF Address, Switch!Address
<1>11. /\ AluReg(i) <=> Switch!AluReg(i)
       /\ ShiftImm(i) <=> Switch!ShiftImm(i)
       /\ AluImm(i) <=> Switch!AluImm(i)
  BY <1>1, <1>9 DEF AluReg, Switch!AluReg, ShiftImm, Switch!ShiftImm,
                    AluImm, Switch!AluImm
<1>12. MultDivide(i) <=> Switch!MultDivide(i)
  BY <1>1 DEF MultDivide, Switch!MultDivide
<1>13. Move(i) <=> Switch!Move(i)
  BY <1>8 DEF Move, Switch!Move
<1>14. Branch(i, at) <=> Switch!Branch(i, at)
  <2>1. Taken(i) = Switch!Taken(i)
    BY <1>4 DEF Taken, Switch!Taken
  <2>2. branched' = Taken(i) <=> branched' = Switch!Taken(i)
    BY <2>1
  <2> QED
    BY <1>1, <1>2, <1>5, <1>8, <2>2, Zenon DEF Branch, Switch!Branch
<1>15. Load(i) <=> Switch!Load(i)
  BY <1>1, <1>8, <1>10 DEF Load, Switch!Load
<1>16. Store(i) <=> Switch!Store(i)
  BY <1>1, <1>8, <1>10 DEF Store, Switch!Store
<1>17. /\ ReadHardware(i) <=> Switch!ReadHardware(i)
       /\ Special(i) <=> Switch!Special(i)
  BY <1>8 DEF ReadHardware, Switch!ReadHardware, Special, Switch!Special,
              cpuVars, Switch!cpuVars
<1>18. SystemCall(i) <=> Switch!SystemCall(i)
  <2>1. \A name : Exit(name) <=> Switch!Exit(name)
    BY DEF Exit, Switch!Exit
  <2>2. \A name : SetThread(name) <=> Switch!SetThread(name)
    BY <1>8 DEF SetThread, Switch!SetThread
  <2>3. \A name : Protect(name) <=> Switch!Protect(name)
    BY DEF Protect, Switch!Protect
  <2>4. \A name : HostCall(name) <=> Switch!HostCall(name)
    BY <1>8 DEF HostCall, Switch!HostCall
  <2> QED
    BY <2>1, <2>2, <2>3, <2>4 DEF SystemCall, Switch!SystemCall
<1>19. Execute(i, at) <=> Switch!Execute(i, at)
  BY <1>11, <1>12, <1>13, <1>14, <1>15, <1>16, <1>17, <1>18
  DEF Execute, Switch!Execute
<1>20. Fault(i) <=> Switch!Fault(i)
  BY <1>1, <1>10 DEF Fault, Switch!Fault
<1> QED
  BY <1>6, <1>19, <1>20

(***************************************************************************)
(* Only branches look at PC, and the exit is for good.                     *)
(***************************************************************************)
LEMMA ExecuteAnywhere ==
  ASSUME NEW i, NEW at, NEW elsewhere, Execute(i, at)
  PROVE  /\ i.op \notin BranchOps => Execute(i, elsewhere)
         /\ halted => halted'
<1>1. i.op \notin BranchOps => Execute(i, elsewhere)
  BY DEF Execute, Branch
<1>2. halted => halted'
  BY Zenon DEF Execute, AluReg, ShiftImm, AluImm, Compute, MultDivide, Move, Branch,
     Load, Store, ReadHardware, Special, SystemCall, Exit, SetThread, Protect,
     HostCall, cpuVars
<1> QED
  BY <1>1, <1>2

(***************************************************************************)
(* Positions of a block are consecutive addresses from the block's on.     *)
(***************************************************************************)
LEMMA NextAddress ==
  ASSUME NEW b, b.address \in Word, NEW k \in Nat
  PROVE  /\ OpAddress(b, 1) = b.address
         /\ U32(OpAddress(b, k) + 1) = OpAddress(b, k + 1)
<1>1. b.address \in Int /\ WordCard \in Nat /\ WordCard > 0
      /\ b.address \in 0 .. WordCard - 1
  BY Types, WordAssumption DEF Word
<1>2. OpAddress(b, 1) = b.address
  BY <1>1 DEF OpAddress, U32
<1>3. b.address + (k - 1) \in Int
      /\ (b.address + (k - 1)) + 1 = b.address + ((k + 1) - 1)
  BY <1>1
<1> QED
  BY <1>2, <1>3, U32Succ DEF OpAddress

\* The counters of the switch, as the mapping computes them.
AbsNNPC == U32(AbsNPC + 1)

(***************************************************************************)
(* The handler at a position of a block is that of the word the switch     *)
(* fetches, as long as the guest keeps to its part.                        *)
(***************************************************************************)
LEMMA HandlerIsCir ==
  ASSUME LoopInv, WellBehaved, phase = "execute", ~halted
  PROVE  LET b == heap[current]
         IN  /\ current \in DOMAIN heap /\ b.address \in Word
             /\ Size(b) \in Nat /\ Size(b) >= 3
             /\ idx \in Nat /\ idx \in 1 .. Size(b) - 1
             /\ OpAt(b, idx) # NullOp /\ OpAt(b, idx) \in Word
             /\ AbsPC = OpAddress(b, idx)
             /\ AbsPC \in Mapped /\ memory[AbsPC] = OpAt(b, idx)
             /\ IsBranch(OpAt(b, idx)) <=> idx = BranchPos(b)
             /\ pc = OpAddress(b, BranchPos(b))
<1> DEFINE b == heap[current]
<1>1. /\ IInv /\ current \in DOMAIN heap /\ BlocksWellFormed /\ heap \in Seq(Block)
      /\ idx \in 1 .. Size(b) - 1 /\ pc = BranchAt(b) /\ idx \in Nat
  BY DEF LoopInv, IInv, LoopOK, TypeOK, PCAtBranch
<1>2. /\ Size(b) \in Nat /\ Size(b) >= 3
      /\ OpAt(b, idx) # NullOp /\ OpAt(b, idx) = b.ops[idx] /\ OpAt(b, idx) \in Word
  BY <1>1, OpsOfBlock
<1>3. b \in Block
  BY <1>1
<1>4. b.address \in Word
  BY <1>3 DEF Block
<1>5. /\ IsBranch(b.ops[idx]) <=> idx = BranchPos(b)
      /\ OpAddress(b, idx) \in Mapped
      /\ memory[OpAddress(b, idx)] = b.ops[idx]
  BY <1>1 DEF WellBehaved
<1>6. AbsPC = OpAddress(b, idx)
  BY DEF AbsPC
<1> QED
  BY <1>1, <1>2, <1>4, <1>5, <1>6 DEF BranchAt

(***************************************************************************)
(* A handler is one instruction of the switch: before the branch, at the   *)
(* branch and in its delay slot.                                           *)
(***************************************************************************)
LEMMA HandlerSteps ==
  ASSUME LoopInv, WellBehaved, ~halted, ExecuteOp, LoopInv'
  PROVE  Switch!Step
<1> DEFINE b  == heap[current]
           z  == Size(b)
           i  == Instr[OpAt(b, idx)]
<1>1. /\ proc = "running" /\ phase = "execute" /\ Execute(i, pc)
      /\ nnpc' = NNPCAfter(i, pc, nnpc) /\ idx' = idx + 1
      /\ heap' = heap /\ current' = current /\ UNCHANGED procVars
      /\ phase' \in {"execute", "leave"}
  BY DEF ExecuteOp, At
<1>2. /\ current \in DOMAIN heap /\ b.address \in Word
      /\ z \in Nat /\ z >= 3 /\ idx \in Nat /\ idx \in 1 .. z - 1
      /\ AbsPC = OpAddress(b, idx) /\ AbsPC \in Mapped
      /\ memory[AbsPC] = OpAt(b, idx)
      /\ i.op \in BranchOps <=> idx = z - 2
      /\ pc = OpAddress(b, z - 2)
  BY <1>1, HandlerIsCir DEF IsBranch, BranchPos
<1>3. /\ phase' = "execute" => idx + 1 \in 1 .. z - 1
      /\ phase' = "leave" => idx + 1 = z
  BY <1>1 DEF LoopInv, LoopOK
<1>4. Switch!Cir = i
  BY <1>2 DEF Switch!Cir
<1>5. Execute(i, AbsPC)
  BY <1>1, <1>2, ExecuteAnywhere
<1>6. AbsPC' = AbsNPC /\ AbsNPC' = NNPCAfter(i, AbsPC, AbsNNPC)
  <2>1. U32(AbsPC + 1) = OpAddress(b, idx + 1)
        /\ U32(OpAddress(b, idx + 1) + 1) = OpAddress(b, (idx + 1) + 1)
    BY <1>2, NextAddress
  <2>2. CASE idx < z - 2
    <3>1. phase' = "execute" /\ i.op \notin BranchOps
      BY <1>1, <1>2, <1>3, <2>2
    <3>2. AbsPC' = OpAddress(b, idx + 1)
      BY <1>1, <3>1 DEF AbsPC, OpAddress
    <3>3. AbsNPC = U32(AbsPC + 1)
      BY <1>1, <1>2, <2>2 DEF AbsNPC
    <3>4. AbsNPC' = U32(AbsPC' + 1)
      BY <1>1, <1>2, <2>2 DEF AbsNPC
    <3> QED
      BY <2>1, <3>1, <3>2, <3>3, <3>4 DEF NNPCAfter, AbsNNPC, BranchOps
  <2>3. CASE idx = z - 2
    <3>1. phase' = "execute" /\ i.op \in BranchOps /\ AbsPC = pc
      BY <1>1, <1>2, <1>3, <2>3
    <3>2. AbsPC' = OpAddress(b, idx + 1)
      BY <1>1, <3>1 DEF AbsPC, OpAddress
    <3>3. AbsNPC = U32(AbsPC + 1)
      BY <1>1, <1>2, <2>3 DEF AbsNPC
    <3>4. AbsNPC' = nnpc'
      BY <1>1, <1>2, <2>3, <3>1 DEF AbsNPC
    <3>5. NNPCAfter(i, pc, nnpc) = NNPCAfter(i, AbsPC, AbsNNPC)
      BY <3>1 DEF NNPCAfter
    <3> QED
      BY <1>1, <2>1, <3>2, <3>3, <3>4, <3>5
  <2>4. CASE idx = z - 1
    <3>1. phase' = "leave" /\ i.op \notin BranchOps
      BY <1>1, <1>2, <1>3, <2>4
    <3>2. nnpc' = nnpc
      BY <1>1, <3>1 DEF NNPCAfter, BranchOps
    <3>3. AbsNPC = nnpc
      BY <1>1, <2>4 DEF AbsNPC
    <3>4. AbsPC' = nnpc' /\ AbsNPC' = U32(AbsPC' + 1)
      BY <3>1 DEF AbsPC, AbsNPC
    <3> QED
      BY <3>1, <3>2, <3>3, <3>4 DEF NNPCAfter, AbsNNPC, BranchOps
  <2> QED
    BY <1>2, <2>2, <2>3, <2>4
<1>7. Switch!IncrementPC(i)
  BY <1>6, SameInstructions DEF Switch!IncrementPC, AbsNNPC, U32, Switch!U32
<1>8. Switch!Execute(i, AbsPC)
  BY <1>5, SameInstructions
<1> QED
  BY <1>1, <1>2, <1>4, <1>7, <1>8
  DEF Switch!Step, Switch!Running, procVars, Switch!procVars

(***************************************************************************)
(* The counters of the switch stand still between blocks.                  *)
(***************************************************************************)
LEMMA OutsideStutters ==
  ASSUME UNCHANGED <<cpuVars, procVars>>,
         AbsPC' = AbsPC, AbsNPC = U32(AbsPC + 1), AbsNPC' = U32(AbsPC' + 1)
  PROVE  UNCHANGED Switch!vars
BY DEF Switch!vars, Switch!cpuVars, Switch!procVars, Switch!counters,
       cpuVars, procVars, U32

(***************************************************************************)
(* Every step of interpreter_blocked on a guest that keeps to its part is  *)
(* an instruction of the switch, invisible to it, or after the exit.       *)
(***************************************************************************)
LEMMA StepSimulation ==
  ASSUME LoopInv, LoopInv', WellBehaved, [Next /\ WellBehaved']_vars
  PROVE  [Switch!Next \/ Switch!AfterExit]_(Switch!vars)
<1>1. CASE UNCHANGED vars
  BY <1>1 DEF vars, localVars, cpuVars, procVars, Switch!vars, Switch!cpuVars,
              Switch!procVars, Switch!counters, AbsPC, AbsNPC, U32, OpAddress,
              Size
<1>2. CASE LookupHit \/ LookupMiss \/ DecodeOp \/ Complete \/ Link
  <2>1. /\ UNCHANGED <<cpuVars, procVars>> /\ pc' = pc
        /\ phase \notin {"execute", "leave"} /\ phase' \notin {"execute", "leave"}
    BY <1>2 DEF LookupHit, LookupMiss, DecodeOp, Complete, Link, At
  <2>2. AbsPC = pc /\ AbsPC' = pc
    BY <2>1 DEF AbsPC
  <2>3. AbsNPC = U32(AbsPC + 1) /\ AbsNPC' = U32(AbsPC' + 1)
    BY <2>1 DEF AbsNPC
  <2> QED
    BY <2>1, <2>2, <2>3, OutsideStutters
<1>3. ~(DecodeCrash /\ WellBehaved')
  BY DEF DecodeCrash, At, Crash, localVars, WellBehaved
<1>4. CASE Enter
  <2>1. /\ UNCHANGED <<cpuVars, procVars>> /\ heap' = heap /\ current' = current
        /\ phase = "enter" /\ phase' = "execute" /\ idx' = 1
    BY <1>4 DEF Enter, At
  <2>2. /\ current \in DOMAIN heap /\ heap[current].address = pc
        /\ BlocksWellFormed /\ heap \in Seq(Block) /\ pc \in Word
    BY <2>1 DEF LoopInv, IInv, EntryAtPC, TypeOK
  <2>3. Size(heap[current]) \in Nat /\ Size(heap[current]) >= 3
    BY <2>2, OpsOfBlock
  <2>4. AbsPC = pc /\ AbsPC' = OpAddress(heap[current], 1)
    BY <2>1 DEF AbsPC, OpAddress
  <2>5. AbsPC' = AbsPC
    BY <2>2, <2>4, NextAddress
  <2>6. Size(heap[current])' = Size(heap[current])
    BY <2>1 DEF Size
  <2>7. idx' # Size(heap[current])' - 1
    BY <2>1, <2>3, <2>6
  <2>8. AbsNPC = U32(AbsPC + 1) /\ AbsNPC' = U32(AbsPC' + 1)
    BY <2>1, <2>7 DEF AbsNPC, U32
  <2> QED
    BY <2>1, <2>5, <2>8, OutsideStutters
<1>5. CASE ExecuteOp
  <2>1. CASE halted
    <3>1. halted'
      BY <1>5, <2>1, ExecuteAnywhere DEF ExecuteOp
    <3> QED
      BY <2>1, <3>1 DEF Switch!AfterExit
  <2>2. CASE ~halted
    BY <1>5, <2>2, HandlerSteps DEF Switch!Next
  <2> QED
    BY <2>1, <2>2
<1>6. CASE ExecuteCrash
  <2>1. /\ proc = "running" /\ phase = "execute" /\ Crash
        /\ UNCHANGED <<cpuVars, pc, nnpc, localVars>>
        /\ OpAt(heap[current], idx) # NullOp =>
             Fault(Instr[OpAt(heap[current], idx)])
    BY <1>6 DEF ExecuteCrash, At
  <2>2. CASE halted
    BY <2>1, <2>2 DEF Switch!AfterExit, cpuVars
  <2>3. CASE ~halted
    <3>1. /\ OpAt(heap[current], idx) # NullOp /\ AbsPC \in Mapped
          /\ memory[AbsPC] = OpAt(heap[current], idx)
      BY <2>1, <2>3, HandlerIsCir
    <3>2. Fault(Switch!Cir)
      BY <2>1, <3>1 DEF Switch!Cir
    <3>3. Switch!Fault(Switch!Cir)
      BY <3>2, SameInstructions
    <3>4. UNCHANGED <<AbsPC, AbsNPC>>
      BY <2>1 DEF AbsPC, AbsNPC, localVars, OpAddress, Size, U32
    <3>5. UNCHANGED <<Switch!cpuVars, Switch!counters>>
      BY <2>1, <3>4 DEF cpuVars, Switch!cpuVars, Switch!counters, U32
    <3>6. Switch!Running /\ Switch!Crash
      BY <2>1, <2>3 DEF Switch!Running, Switch!Crash, Crash
    <3> QED
      BY <3>3, <3>5, <3>6 DEF Switch!CrashStep, Switch!Next
  <2> QED
    BY <2>2, <2>3
<1>7. CASE Leave
  <2>1. /\ UNCHANGED <<cpuVars, procVars>> /\ pc' = nnpc
        /\ phase = "leave" /\ phase' \notin {"execute", "leave"}
    BY <1>7 DEF Leave, At
  <2>2. AbsPC = nnpc /\ AbsPC' = nnpc
    BY <2>1 DEF AbsPC
  <2>3. AbsNPC = U32(AbsPC + 1) /\ AbsNPC' = U32(AbsPC' + 1)
    BY <2>1 DEF AbsNPC
  <2> QED
    BY <2>1, <2>2, <2>3, OutsideStutters
<1>8. CASE Finish
  BY <1>8 DEF Finish, cpuVars, Switch!AfterExit
<1> QED
  BY <1>1, <1>2, <1>3, <1>4, <1>5, <1>6, <1>7, <1>8 DEF Next

(***************************************************************************)
(* On guests that keep to what blocked.c takes for granted, its blocks,    *)
(* links, single move of PC and unrolled loop are the switch, instruction  *)
(* by instruction up to the exit: every behaviour of the one maps to a     *)
(* behaviour of the other.                                                 *)
(***************************************************************************)
THEOREM Refinement == WellBehavedSpec => ImplementsSwitch
<1>1. Init => Switch!Init
  <2> SUFFICES ASSUME Init PROVE Switch!Init
    OBVIOUS
  <2>1. AbsPC = Entry /\ AbsNPC = U32(Entry + 1)
    BY DEF Init, AbsPC, AbsNPC
  <2>2. Entry + 1 \in Int /\ (Entry + 1) + 1 = Entry + 2
    BY Types, CpuAssumption
  <2>3. U32(AbsNPC + 1) = U32(Entry + 2)
    BY <2>1, <2>2, U32Succ
  <2>4. Switch!CpuInit
    BY DEF Init, CpuInit, Switch!CpuInit
  <2>5. Switch!CountersInit
    BY <2>1, <2>3 DEF Switch!CountersInit, U32, Switch!U32
  <2> QED
    BY <2>4, <2>5 DEF Switch!Init
<1>2. Init => WellBehaved
  BY DEF Init, CpuInit, WellBehaved
<1>3. WellBehaved /\ [Next /\ WellBehaved']_vars => WellBehaved'
  <2>1. WellBehaved /\ UNCHANGED vars => WellBehaved'
    BY DEF WellBehaved, vars, localVars, cpuVars, procVars, Size, IsBranch,
           OpAddress, BranchPos, U32
  <2> QED
    BY <2>1
<1>4. LoopInv /\ [Next /\ WellBehaved']_vars => LoopInv'
  BY LoopNext
<1> QED
  BY <1>1, <1>2, <1>3, <1>4, LoopInit, StepSimulation, PTL
  DEF WellBehavedSpec, ImplementsSwitch, Switch!UpToExit

------------------------------------------------------------------------------
\* What a block is made of, how many there are, and how long they get.

\* How many words lie between x and u, going up and wrapping.
Distance(u, x) == IF x <= u THEN u - x ELSE WordCard - x + u

\* What decode_block has pushed are the words from PC to where it stands, all
\* of them in pages; it has come that much nearer to any word without a page.
DecoderTracks ==
    phase \in {"decode", "complete"} =>
        /\ dec.pc = U32(pc + Len(dec.ops))
        /\ \A k \in DOMAIN dec.ops :
               /\ U32(pc + (k - 1)) \in Mapped
               /\ dec.ops[k] = memory[U32(pc + (k - 1))]
        /\ \A u \in Word \ Mapped :
               Len(dec.ops) + Distance(u, dec.pc) = Distance(u, pc)

\* The words a block was decoded from are in pages, and the block ends at or
\* before the first word that is not, the terminator aside.
BlocksMapped ==
    \A p \in DOMAIN heap :
        /\ \A k \in 1 .. Size(heap[p]) - 1 : OpAddress(heap[p], k) \in Mapped
        /\ \A u \in Word \ Mapped :
               Size(heap[p]) <= Distance(u, heap[p].address) + 1

\* After the guest's exit the interpreter is in a block or on its way out.
HaltedPhase ==
    halted /\ proc = "running" => phase \in {"execute", "leave", "lookup"}

TracksOK == DecoderTracks /\ BlocksMapped /\ HaltedPhase

(***************************************************************************)
(* Going up by one word comes one word nearer to any other word.           *)
(***************************************************************************)
LEMMA DistanceFacts ==
  ASSUME NEW u \in Word, NEW x \in Word
  PROVE  /\ Distance(u, x) \in Nat /\ Distance(u, x) < WordCard
         /\ x # u => Distance(u, U32(x + 1)) = Distance(u, x) - 1
<1>1. WordCard \in Nat \ {0} /\ u \in 0 .. WordCard - 1 /\ x \in 0 .. WordCard - 1
  BY WordAssumption DEF Word
<1>2. U32(x + 1) = IF x + 1 = WordCard THEN 0 ELSE x + 1
  <2>1. CASE x + 1 = WordCard
    <3>1. x + 1 = WordCard * 1 + 0 /\ 0 \in 0 .. WordCard - 1
      BY <1>1, <2>1
    <3>2. (WordCard * 1 + 0) % WordCard = 0
      BY <1>1, <3>1, RemainderUnique
    <3> QED
      BY <2>1, <3>1, <3>2 DEF U32
  <2>2. CASE x + 1 # WordCard
    <3>1. x + 1 = WordCard * 0 + (x + 1) /\ x + 1 \in 0 .. WordCard - 1
      BY <1>1, <2>2
    <3>2. (WordCard * 0 + (x + 1)) % WordCard = x + 1
      BY <1>1, <3>1, RemainderUnique
    <3> QED
      BY <2>2, <3>1, <3>2 DEF U32
  <2> QED
    BY <2>1, <2>2
<1>3. Distance(u, x) \in Nat /\ Distance(u, x) < WordCard
  BY <1>1 DEF Distance
<1>4. x # u => Distance(u, U32(x + 1)) = Distance(u, x) - 1
  BY <1>1, <1>2 DEF Distance
<1> QED
  BY <1>3, <1>4

(***************************************************************************)
(* What one DISPATCH of the decoder does to its locals.                    *)
(***************************************************************************)
LEMMA DecodedFields ==
  ASSUME IInv, DecodeOp
  PROVE  /\ dec.pc \in Mapped /\ dec.pc \in Word /\ pc \in Word /\ pc' = pc
         /\ dec.ops \in Seq(Word \cup {NullOp})
         /\ dec'.pc = U32(dec.pc + 1)
         /\ dec'.ops = Append(dec.ops, memory[dec.pc])
         /\ Len(dec.ops) \in Nat /\ Len(dec'.ops) = Len(dec.ops) + 1
         /\ DOMAIN dec.ops = 1 .. Len(dec.ops)
         /\ DOMAIN dec'.ops = 1 .. Len(dec.ops) + 1
         /\ \A k \in 1 .. Len(dec.ops) : dec'.ops[k] = dec.ops[k]
         /\ dec'.ops[Len(dec.ops) + 1] = memory[dec.pc]
         /\ memory' = memory /\ heap' = heap /\ halted' = halted /\ ~halted
         /\ phase = "decode" /\ phase' \in {"decode", "complete"}
<1>1. /\ dec.pc \in Mapped /\ dec.pc \in Word /\ pc \in Word /\ pc' = pc
      /\ dec.ops \in Seq(Word \cup {NullOp}) /\ memory[dec.pc] \in Word
      /\ memory' = memory /\ heap' = heap /\ halted' = halted
      /\ phase = "decode" /\ phase' \in {"decode", "complete"}
  BY DEF IInv, TypeOK, CpuTypeOK, DecodeOp, At, cpuVars
<1>2. ~halted
  BY <1>1 DEF IInv, DecoderOK
<1>3. /\ dec'.pc = U32(dec.pc + 1)
      /\ dec'.ops = Append(dec.ops, memory[dec.pc])
  BY DEF IInv, TypeOK, DecodeOp, Decoded, Push
<1> DEFINE old == dec.ops
           new == dec'.ops
           w   == memory[dec.pc]
<1>4. old \in Seq(Word \cup {NullOp}) /\ new = Append(old, w) /\ w \in Word
  BY <1>1, <1>3
<1> HIDE DEF old, new, w
<1>5. /\ Len(old) \in Nat /\ Len(new) = Len(old) + 1
      /\ DOMAIN old = 1 .. Len(old) /\ DOMAIN new = 1 .. Len(old) + 1
      /\ \A k \in 1 .. Len(old) : new[k] = old[k]
      /\ new[Len(old) + 1] = w
  BY <1>4
<1> QED
  BY <1>1, <1>2, <1>3, <1>5 DEF old, new, w

(***************************************************************************)
(* Decoding one instruction.                                               *)
(***************************************************************************)
LEMMA DecodeOpTracks ==
  ASSUME IInv, DecoderTracks, DecodeOp
  PROVE  DecoderTracks'
<1> DEFINE n == Len(dec.ops)
<1>1. /\ n \in Nat /\ pc \in Int /\ dec.pc \in Mapped /\ dec.pc \in Word
      /\ dec.pc \in Int
  BY DecodedFields, Types
<1>2. /\ dec.pc = U32(pc + n)
      /\ \A k \in 1 .. n :
            /\ U32(pc + (k - 1)) \in Mapped
            /\ dec.ops[k] = memory[U32(pc + (k - 1))]
      /\ \A u \in Word \ Mapped : n + Distance(u, dec.pc) = Distance(u, pc)
  BY DecodedFields DEF DecoderTracks
<1> HIDE DEF n
<1>3. dec'.pc = U32(pc + (n + 1))
  <2>1. pc + n \in Int /\ (pc + n) + 1 = pc + (n + 1)
    BY <1>1
  <2>2. U32(U32(pc + n) + 1) = U32(pc + (n + 1))
    BY <2>1, U32Succ
  <2> QED
    BY <1>2, <2>2, DecodedFields
<1>4. ASSUME NEW k \in 1 .. n + 1
      PROVE  /\ U32(pc + (k - 1)) \in Mapped
             /\ dec'.ops[k] = memory[U32(pc + (k - 1))]
  <2>1. CASE k \in 1 .. n
    BY <1>2, <2>1, DecodedFields DEF n
  <2>2. CASE k = n + 1
    <3>1. k - 1 = n
      BY <1>1, <2>2
    <3>2. dec'.ops[k] = memory[dec.pc]
      BY <2>2, DecodedFields DEF n
    <3> QED
      BY <1>1, <1>2, <3>1, <3>2
  <2> QED
    BY <1>1, <2>1, <2>2
<1>5. ASSUME NEW u \in Word \ Mapped
      PROVE  (n + 1) + Distance(u, dec'.pc) = Distance(u, pc)
  <2>1. Distance(u, U32(dec.pc + 1)) = Distance(u, dec.pc) - 1
    BY <1>1, DistanceFacts
  <2>2. Distance(u, dec.pc) \in Nat
    BY <1>1, DistanceFacts
  <2>3. dec'.pc = U32(dec.pc + 1)
    BY DecodedFields
  <2> QED
    BY <1>1, <1>2, <2>1, <2>2, <2>3
<1>6. /\ pc' = pc /\ memory' = memory /\ Len(dec'.ops) = n + 1
      /\ DOMAIN dec'.ops = 1 .. n + 1
  BY DecodedFields DEF n
<1> QED
  BY <1>3, <1>4, <1>5, <1>6 DEF DecoderTracks

(***************************************************************************)
(* The block that Complete builds: what was decoded, and the terminator.   *)
(***************************************************************************)
LEMMA CompletedBlock ==
  ASSUME IInv, Complete, NEW b, b = heap'[Len(heap) + 1]
  PROVE  /\ b.address = pc /\ Len(dec.ops) \in Nat
         /\ DOMAIN dec.ops = 1 .. Len(dec.ops)
         /\ Size(b) = Len(dec.ops) + 1
         /\ \A k \in 1 .. Len(dec.ops) : b.ops[k] = dec.ops[k]
<1> DEFINE new == [address  |-> pc, ops |-> Push(dec, NullOp).ops,
                   capacity |-> Push(dec, NullOp).capacity,
                   indirect |-> dec.indirect,
                   next     |-> [t \in BOOLEAN |-> NULL]]
           old == dec.ops
<1>1. heap \in Seq(Block) /\ heap' = Append(heap, new)
  BY DEF IInv, TypeOK, Complete
<1>2. old \in Seq(Word \cup {NullOp}) /\ Push(dec, NullOp).ops = Append(old, NullOp)
  BY DEF IInv, TypeOK, Push
<1>3. new.address = pc /\ new.ops = Append(old, NullOp)
  BY <1>2
<1> HIDE DEF new
<1>4. b = new
  BY <1>1
<1> HIDE DEF old
<1>5. /\ Len(old) \in Nat /\ DOMAIN old = 1 .. Len(old)
      /\ Len(Append(old, NullOp)) = Len(old) + 1
      /\ \A k \in 1 .. Len(old) : Append(old, NullOp)[k] = old[k]
  BY <1>2
<1> QED
  BY <1>3, <1>4, <1>5 DEF Size, old

(***************************************************************************)
(* It holds the words that are in memory at its address when it is built,  *)
(* all of them in pages.                                                   *)
(***************************************************************************)
LEMMA CompletedSnapshot ==
  ASSUME IInv, DecoderTracks, Complete, NEW b, b = heap'[Len(heap) + 1]
  PROVE  /\ \A k \in 1 .. Size(b) - 1 :
               OpAddress(b, k) \in Mapped /\ b.ops[k] = memory[OpAddress(b, k)]
         /\ \A u \in Word \ Mapped : Size(b) <= Distance(u, b.address) + 1
<1> DEFINE n == Len(dec.ops)
<1>1. /\ b.address = pc /\ n \in Nat /\ DOMAIN dec.ops = 1 .. n
      /\ Size(b) = n + 1 /\ \A k \in 1 .. n : b.ops[k] = dec.ops[k]
  BY CompletedBlock
<1>2. phase = "complete" /\ dec.pc \in Word /\ pc \in Word
  BY DEF Complete, At, IInv, TypeOK
<1>3. /\ \A k \in DOMAIN dec.ops :
            /\ U32(pc + (k - 1)) \in Mapped
            /\ dec.ops[k] = memory[U32(pc + (k - 1))]
      /\ \A u \in Word \ Mapped : n + Distance(u, dec.pc) = Distance(u, pc)
  BY <1>2 DEF DecoderTracks
<1> HIDE DEF n
<1>4. Size(b) - 1 = n
  BY <1>1
<1>5. \A k \in 1 .. n :
        OpAddress(b, k) \in Mapped /\ b.ops[k] = memory[OpAddress(b, k)]
  BY <1>1, <1>3 DEF OpAddress
<1>6. ASSUME NEW u \in Word \ Mapped
      PROVE  Size(b) <= Distance(u, b.address) + 1
  <2>1. Distance(u, dec.pc) \in Nat /\ Distance(u, pc) \in Nat
    BY <1>2, DistanceFacts
  <2>2. n + Distance(u, dec.pc) = Distance(u, pc)
    BY <1>3
  <2> QED
    BY <1>1, <2>1, <2>2
<1> QED
  BY <1>4, <1>5, <1>6

(***************************************************************************)
(* Where and how long the blocks are, after each step.                     *)
(***************************************************************************)
LEMMA BlocksMappedStep ==
  ASSUME IInv, DecoderTracks, BlocksMapped, Next
  PROVE  BlocksMapped'
<1>1. CASE Complete
  <2> SUFFICES ASSUME NEW p \in DOMAIN heap'
               PROVE  /\ \A k \in 1 .. Size(heap'[p]) - 1 :
                            OpAddress(heap'[p], k) \in Mapped
                      /\ \A u \in Word \ Mapped :
                            Size(heap'[p]) <= Distance(u, heap'[p].address) + 1
    BY DEF BlocksMapped
  <2>1. CASE p = Len(heap) + 1
    BY <1>1, <2>1, CompletedSnapshot
  <2>2. CASE p \in DOMAIN heap
    <3>1. heap'[p] = heap[p]
      BY <1>1, <2>2, CompleteHeap
    <3> QED
      BY <2>2, <3>1 DEF BlocksMapped
  <2>3. p = Len(heap) + 1 \/ p \in DOMAIN heap
    BY <1>1, CompleteHeap
  <2> QED
    BY <2>1, <2>2, <2>3
<1>2. CASE Link
  <2> SUFFICES ASSUME NEW p \in DOMAIN heap'
               PROVE  /\ \A k \in 1 .. Size(heap'[p]) - 1 :
                            OpAddress(heap'[p], k) \in Mapped
                      /\ \A u \in Word \ Mapped :
                            Size(heap'[p]) <= Distance(u, heap'[p].address) + 1
    BY DEF BlocksMapped
  <2>1. /\ p \in DOMAIN heap /\ heap'[p].address = heap[p].address
        /\ heap'[p].ops = heap[p].ops
    BY <1>2, LinkHeap
  <2>2. /\ Size(heap'[p]) = Size(heap[p])
        /\ \A k : OpAddress(heap'[p], k) = OpAddress(heap[p], k)
    BY <2>1 DEF Size, OpAddress
  <2> QED
    BY <2>1, <2>2 DEF BlocksMapped
<1>3. CASE Finish
  BY <1>3 DEF Finish, BlocksMapped
<1>4. CASE heap' = heap
  BY <1>4 DEF BlocksMapped
<1> QED
  BY <1>1, <1>2, <1>3, <1>4
  DEF Next, LookupHit, LookupMiss, DecodeOp, DecodeCrash, ExecuteCrash,
      localVars, Enter, ExecuteOp, Leave

(***************************************************************************)
(* The decoder's place, after each step.                                   *)
(***************************************************************************)
LEMMA DecoderTracksStep ==
  ASSUME IInv, DecoderTracks, Next
  PROVE  DecoderTracks'
<1>1. CASE LookupMiss
  <2>1. dec' = NewDecoder(pc) /\ pc' = pc /\ pc \in Word
    BY <1>1 DEF LookupMiss, IInv, TypeOK
  <2>2. dec'.pc = pc /\ dec'.ops = <<>>
    BY <2>1 DEF NewDecoder
  <2>3. U32(pc + 0) = pc
    BY <2>1, WordAssumption DEF U32, Word
  <2>4. \A u \in Word \ Mapped : 0 + Distance(u, pc) = Distance(u, pc)
    BY <2>1, DistanceFacts
  <2>5. Len(dec'.ops) = 0 /\ DOMAIN dec'.ops = {}
    BY <2>2
  <2> QED
    BY <2>1, <2>2, <2>3, <2>4, <2>5 DEF DecoderTracks
<1>2. CASE DecodeOp
  BY <1>2, DecodeOpTracks
<1>3. CASE DecodeCrash \/ ExecuteCrash
  BY <1>3 DEF DecodeCrash, ExecuteCrash, localVars, cpuVars, DecoderTracks
<1>4. CASE LookupHit \/ Complete \/ Link \/ Enter \/ ExecuteOp \/ Leave \/ Finish
  <2>1. phase' \notin {"decode", "complete"}
    BY <1>4 DEF LookupHit, Complete, Link, Enter, ExecuteOp, Leave, Finish, At
  <2> QED
    BY <2>1 DEF DecoderTracks
<1> QED
  BY <1>1, <1>2, <1>3, <1>4 DEF Next

(***************************************************************************)
(* Where the interpreter is once the guest has exited.                     *)
(***************************************************************************)
LEMMA HaltedPhaseStep ==
  ASSUME LoopInv, HaltedPhase, Next
  PROVE  HaltedPhase'
<1>1. CASE LookupHit \/ LookupMiss \/ DecodeOp \/ Complete \/ Link
  <2>1. ~halted /\ halted' = halted
    BY <1>1 DEF LookupHit, LookupMiss, DecodeOp, Complete, Link, At, cpuVars,
       LoopInv, IInv, DecoderOK, NotHaltedAtLink
  <2> QED
    BY <2>1 DEF HaltedPhase
<1>2. CASE Enter \/ ExecuteOp
  BY <1>2 DEF Enter, ExecuteOp, At, HaltedPhase
<1>3. CASE Leave
  BY <1>3 DEF Leave, cpuVars, HaltedPhase
<1>4. CASE DecodeCrash \/ ExecuteCrash \/ Finish
  BY <1>4 DEF DecodeCrash, ExecuteCrash, Finish, Crash, Return, HaltedPhase
<1> QED
  BY <1>1, <1>2, <1>3, <1>4 DEF Next

(***************************************************************************)
(* All of it, in every state of every run of blocked.c.                    *)
(***************************************************************************)
LEMMA Tracks == Spec => [](LoopInv /\ TracksOK)
<1>1. Init => TracksOK
  BY DEF Init, CpuInit, TracksOK, DecoderTracks, BlocksMapped, HaltedPhase
<1>2. LoopInv /\ TracksOK /\ [Next \/ Terminated]_vars => TracksOK'
  <2> SUFFICES ASSUME LoopInv, TracksOK, [Next \/ Terminated]_vars
               PROVE  TracksOK'
    OBVIOUS
  <2>1. CASE Next
    BY <2>1, DecoderTracksStep, BlocksMappedStep, HaltedPhaseStep
    DEF TracksOK, LoopInv
  <2>2. CASE UNCHANGED vars
    BY <2>2 DEF TracksOK, DecoderTracks, BlocksMapped, HaltedPhase, vars,
       localVars, cpuVars, procVars
  <2> QED
    BY <2>1, <2>2 DEF Terminated
<1> QED
  BY <1>1, <1>2, LoopInvariance, PTL DEF Spec

(***************************************************************************)
(* A block is what memory held at its address when decode_block ran, word  *)
(* by word and within pages, and neither its address nor its ops change    *)
(* until the table is freed: a guest that writes into code it has already  *)
(* run is not noticed, and nothing else can make a block differ from the   *)
(* code.                                                                   *)
(***************************************************************************)
BlocksAreSnapshots ==
    [][proc' = "running" =>
         /\ \A p \in DOMAIN heap :
               /\ p \in DOMAIN heap'
               /\ heap'[p].address = heap[p].address
               /\ heap'[p].ops = heap[p].ops
         /\ \A p \in DOMAIN heap' \ DOMAIN heap :
               \A k \in 1 .. Size(heap'[p]) - 1 :
                  /\ OpAddress(heap'[p], k) \in Mapped
                  /\ heap'[p].ops[k] = memory[OpAddress(heap'[p], k)]]_vars

(***************************************************************************)
(* Only Complete adds a block, from what decode_block has just read, and   *)
(* only Link touches one afterwards, its links.                            *)
(***************************************************************************)
THEOREM BlocksStaySnapshots == Spec => BlocksAreSnapshots
<1> DEFINE Old(p) == /\ p \in DOMAIN heap'
                     /\ heap'[p].address = heap[p].address
                     /\ heap'[p].ops = heap[p].ops
           New(p) == \A k \in 1 .. Size(heap'[p]) - 1 :
                        /\ OpAddress(heap'[p], k) \in Mapped
                        /\ heap'[p].ops[k] = memory[OpAddress(heap'[p], k)]
           Snap   == proc' = "running" =>
                       /\ \A p \in DOMAIN heap : Old(p)
                       /\ \A p \in DOMAIN heap' \ DOMAIN heap : New(p)
<1>1. LoopInv /\ TracksOK /\ [Next \/ Terminated]_vars => [Snap]_vars
  <2> SUFFICES ASSUME IInv, DecoderTracks, Next, proc' = "running"
               PROVE  /\ \A p \in DOMAIN heap : Old(p)
                      /\ \A p \in DOMAIN heap' \ DOMAIN heap : New(p)
    BY DEF Terminated, LoopInv, TracksOK
  <2>1. CASE Complete
    <3>1. /\ DOMAIN heap = 1 .. Len(heap) /\ Len(heap) \in Nat
          /\ DOMAIN heap' = 1 .. Len(heap) + 1
          /\ \A p \in DOMAIN heap : heap'[p] = heap[p]
      BY <2>1, CompleteHeap
    <3>2. \A p \in DOMAIN heap : p \in DOMAIN heap'
      BY <3>1
    <3>3. \A p \in DOMAIN heap' \ DOMAIN heap : p = Len(heap) + 1
      BY <3>1
    <3>4. New(Len(heap) + 1)
      BY <2>1, CompletedSnapshot
    <3> QED
      BY <3>1, <3>2, <3>3, <3>4
  <2>2. CASE Link
    BY <2>2, LinkHeap
  <2>3. CASE Finish
    BY <2>3 DEF Finish, Return
  <2>4. CASE heap' = heap
    BY <2>4
  <2> QED
    BY <2>1, <2>2, <2>3, <2>4
    DEF Next, LookupHit, LookupMiss, DecodeOp, DecodeCrash, ExecuteCrash,
        localVars, Enter, ExecuteOp, Leave
<1> QED
  BY <1>1, Tracks, PTL DEF Spec, BlocksAreSnapshots

(***************************************************************************)
(* The hash table cannot grow for ever: a guest has at most one block per  *)
(* mapped word, because a block starts in a page and no two start at the   *)
(* same word; and while some word has no page, no block is longer than the *)
(* words up to it and the terminator.                                      *)
(***************************************************************************)
BlocksBounded ==
    /\ Len(heap) <= Cardinality(Mapped)
    /\ \A p \in DOMAIN heap : \A u \in Word \ Mapped :
           Size(heap[p]) <= Distance(u, heap[p].address) + 1

(***************************************************************************)
(* The keys of the hash table are distinct mapped words (HASH_ADD is       *)
(* reached only on a miss), and decode_block stops at a word without a     *)
(* page.                                                                   *)
(***************************************************************************)
THEOREM TableIsBounded == Spec => []BlocksBounded
<1>1. LoopInv /\ BlocksMapped => BlocksBounded
  <2> SUFFICES ASSUME LoopInv, BlocksMapped PROVE BlocksBounded
    OBVIOUS
  <2> DEFINE key == [p \in 1 .. Len(heap) |-> heap[p].address]
  <2>1. heap \in Seq(Block) /\ DOMAIN heap = 1 .. Len(heap) /\ Len(heap) \in Nat
    BY DEF LoopInv, IInv, TypeOK
  <2>2. ASSUME NEW p \in 1 .. Len(heap)
        PROVE  heap[p].address \in Mapped
    <3> DEFINE b == heap[p]
    <3>1. b \in Block /\ p \in DOMAIN heap
      BY <2>1
    <3>2. b.address \in Word /\ Size(b) \in Nat
      <4> HIDE DEF b
      <4>1. b.address \in Word /\ b.ops \in Seq(Word \cup {NullOp})
        BY <3>1 DEF Block
      <4> QED
        BY <4>1 DEF Size
    <3>3. Size(b) >= 3
      BY <3>1 DEF LoopInv, IInv, BlocksWellFormed, BlockOK
    <3>4. OpAddress(b, 1) \in Mapped
      <4>1. 1 \in 1 .. Size(b) - 1
        BY <3>2, <3>3
      <4> QED
        BY <3>1, <4>1 DEF BlocksMapped
    <3>5. OpAddress(b, 1) = b.address
      <4> HIDE DEF b
      <4>1. U32(b.address + (1 - 1)) = b.address
        BY <3>2, WordAssumption DEF U32, Word
      <4> QED
        BY <4>1 DEF OpAddress
    <3> QED
      BY <3>4, <3>5
  <2>3. key \in [1 .. Len(heap) -> Mapped]
    BY <2>2
  <2>4. \A p, q \in 1 .. Len(heap) : key[p] = key[q] => p = q
    BY <2>1 DEF LoopInv, KeysOK, UniqueBlocks
  <2> HIDE DEF key
  <2>5. key \in Injection(1 .. Len(heap), Mapped)
    BY <2>3, <2>4, Fun_IsInj, Zenon
  <2>6. IsFiniteSet(Mapped)
    <3>1. IsFiniteSet(0 .. WordCard - 1)
      BY WordAssumption, FS_Interval
    <3>2. Mapped \in SUBSET (0 .. WordCard - 1)
      BY CpuAssumption DEF Word
    <3> QED
      BY <3>1, <3>2, FS_Subset
  <2>7. Cardinality(1 .. Len(heap)) <= Cardinality(Mapped)
    BY <2>5, <2>6, FS_Injection, Zenon
  <2>8. Cardinality(1 .. Len(heap)) = Len(heap)
    <3>1. 1 \in Int /\ Len(heap) \in Int
      BY <2>1
    <3>2. Cardinality(1 .. Len(heap)) = IF 1 > Len(heap) THEN 0 ELSE Len(heap) - 1 + 1
      BY <3>1, FS_Interval
    <3> QED
      BY <2>1, <3>2
  <2>9. Len(heap) <= Cardinality(Mapped)
    BY <2>7, <2>8
  <2> QED
    BY <2>9 DEF BlocksMapped, BlocksBounded
<1> QED
  BY <1>1, Tracks, PTL DEF TracksOK

------------------------------------------------------------------------------
\* What liveness rests on: the measures that every step of the interpreter
\* brings down.  With the fairness of Spec they give DecodedBlocksRun and
\* ExitEndsProcess, which TLC checks.

\* From a lookup that missed to the end of the block: the phases in their
\* order, and within a phase the words up to u, or the handlers left.
Rank == [decode |-> 5, complete |-> 4, link |-> 3, enter |-> 2, execute |-> 1,
         leave |-> 0]

Left(u) ==
    CASE phase = "decode"  -> Distance(u, dec.pc)
      [] phase = "execute" -> Size(heap[current]) - idx
      [] OTHER             -> 0

(***************************************************************************)
(* While a block is decoded and run, every step that does not end the      *)
(* process goes on to a later phase or, within decode_block and within the *)
(* unrolled loop, brings a natural number down.  The one in decode_block   *)
(* counts the words up to u, any word without a page: a guest whose pages  *)
(* left no such word could keep the decoder going round for ever.          *)
(***************************************************************************)
BlockAdvances(u) ==
    /\ [](Left(u) \in Nat)
    /\ [][proc' = "running" /\ phase \in DOMAIN Rank \ {"leave"} =>
            /\ phase' \in DOMAIN Rank
            /\ \/ Rank[phase'] < Rank[phase]
               \/ (phase' = phase /\ Left(u)' < Left(u))]_vars

(***************************************************************************)
(* A block has a size, and the ops pointer is in the block that runs.      *)
(***************************************************************************)
LEMMA InBlock ==
  ASSUME LoopInv, phase = "execute"
  PROVE  Size(heap[current]) \in Nat /\ idx \in 1 .. Size(heap[current]) - 1
<1>1. idx \in 1 .. Size(heap[current]) - 1
  BY DEF LoopInv, LoopOK
<1>2. current \in DOMAIN heap /\ heap \in Seq(Block)
  BY DEF LoopInv, IInv, PCAtBranch, TypeOK
<1> DEFINE b == heap[current]
<1>3. b \in Block
  BY <1>2
<1> HIDE DEF b
<1>4. b.ops \in Seq(Word \cup {NullOp})
  BY <1>3 DEF Block
<1>5. Size(b) \in Nat
  BY <1>4 DEF Size
<1> QED
  BY <1>1, <1>5 DEF b

(***************************************************************************)
(* The handlers left are a natural number, and so are the words up to u.   *)
(***************************************************************************)
LEMMA LeftNat ==
  ASSUME LoopInv, NEW u \in Word \ Mapped
  PROVE  Left(u) \in Nat
<1>1. CASE phase = "decode"
  <2>1. dec.pc \in Word
    BY DEF LoopInv, IInv, TypeOK
  <2>2. Distance(u, dec.pc) \in Nat
    BY <2>1, DistanceFacts
  <2> QED
    BY <1>1, <2>2 DEF Left
<1>2. CASE phase = "execute"
  <2>1. Left(u) = Size(heap[current]) - idx
    BY <1>2 DEF Left
  <2> QED
    BY <1>2, <2>1, InBlock
<1>3. CASE phase \notin {"decode", "execute"}
  BY <1>3 DEF Left
<1> QED
  BY <1>1, <1>2, <1>3

(***************************************************************************)
(* A handler of a block advances the ops pointer by one.                   *)
(***************************************************************************)
LEMMA HandlerAdvances ==
  ASSUME LoopInv, ExecuteOp
  PROVE  /\ phase = "execute" /\ phase' \in {"execute", "leave"}
         /\ heap' = heap /\ current' = current
         /\ Size(heap[current]) \in Nat /\ idx \in 1 .. Size(heap[current]) - 1
         /\ idx' = idx + 1
<1>1. /\ phase = "execute" /\ phase' \in {"execute", "leave"}
      /\ heap' = heap /\ current' = current /\ idx' = idx + 1
  BY DEF ExecuteOp, At
<1> QED
  BY <1>1, InBlock

(***************************************************************************)
(* decode_block and the unrolled loop of interpreter_blocked advance with  *)
(* every step (the safety half of DecodedBlocksRun).                       *)
(***************************************************************************)
THEOREM BlocksAdvance ==
  ASSUME NEW u \in Word \ Mapped
  PROVE  Spec => BlockAdvances(u)
<1> DEFINE Down == proc' = "running" /\ phase \in DOMAIN Rank \ {"leave"} =>
                     /\ phase' \in DOMAIN Rank
                     /\ \/ Rank[phase'] < Rank[phase]
                        \/ phase' = phase /\ Left(u)' < Left(u)
<1>1. LoopInv => Left(u) \in Nat
  BY LeftNat
<1>2. LoopInv /\ [Next \/ Terminated]_vars => [Down]_vars
  <2> SUFFICES ASSUME LoopInv, Next, proc' = "running",
                      phase \in DOMAIN Rank \ {"leave"}
               PROVE  /\ phase' \in DOMAIN Rank
                      /\ \/ Rank[phase'] < Rank[phase]
                         \/ phase' = phase /\ Left(u)' < Left(u)
    BY DEF Terminated
  <2>1. CASE DecodeOp
    <3>1. /\ dec.pc \in Word /\ dec.pc \in Mapped /\ dec'.pc = U32(dec.pc + 1)
          /\ phase = "decode" /\ phase' \in {"decode", "complete"}
      BY <2>1, DecodedFields DEF LoopInv
    <3>2. CASE phase' = "decode"
      <4>1. /\ Distance(u, dec'.pc) = Distance(u, dec.pc) - 1
            /\ Distance(u, dec.pc) \in Nat
        BY <3>1, DistanceFacts
      <4>2. Left(u) = Distance(u, dec.pc) /\ Left(u)' = Distance(u, dec'.pc)
        BY <3>1, <3>2 DEF Left
      <4>3. Left(u)' < Left(u)
        BY <4>1, <4>2
      <4> QED
        BY <3>1, <3>2, <4>3 DEF Rank
    <3>3. CASE phase' = "complete"
      BY <3>1, <3>3 DEF Rank
    <3> QED
      BY <3>1, <3>2, <3>3
  <2>2. CASE ExecuteOp
    <3>1. CASE phase' = "execute"
      <4>1. /\ Left(u) = Size(heap[current]) - idx
            /\ Left(u)' = Size(heap'[current']) - idx'
        BY <2>2, <3>1, HandlerAdvances DEF Left
      <4>2. heap'[current'] = heap[current]
        BY <2>2, HandlerAdvances
      <4>3. Left(u)' < Left(u)
        BY <2>2, <4>1, <4>2, HandlerAdvances
      <4> QED
        BY <2>2, <3>1, <4>3, HandlerAdvances DEF Rank
    <3>2. CASE phase' = "leave"
      BY <2>2, <3>2, HandlerAdvances DEF Rank
    <3> QED
      BY <2>2, <3>1, <3>2, HandlerAdvances
  <2>3. CASE Complete \/ Link \/ Enter
    BY <2>3 DEF Complete, Link, Enter, At, Rank
  <2>4. CASE DecodeCrash \/ ExecuteCrash \/ Finish
    BY <2>4 DEF DecodeCrash, ExecuteCrash, Finish, Crash, Return
  <2>5. CASE LookupHit \/ LookupMiss \/ Leave
    BY <2>5 DEF LookupHit, LookupMiss, Leave, At, Rank
  <2> QED
    BY <2>1, <2>2, <2>3, <2>4, <2>5 DEF Next
<1> QED
  BY <1>1, <1>2, LoopInvariance, PTL DEF Spec, BlockAdvances

\* The steps left to an interpreter whose guest has exited.
ToEnd ==
    CASE phase = "execute" -> Size(heap[current]) - idx + 2
      [] phase = "leave"   -> 2
      [] phase = "lookup"  -> 1
      [] OTHER             -> 0

(***************************************************************************)
(* Once the guest has exited, every step that does not end the process     *)
(* brings the steps left down: what blocked.c still runs is the rest of    *)
(* the block, and it follows no link and decodes nothing any more.         *)
(***************************************************************************)
ExitAdvances ==
    /\ [](ToEnd \in Nat)
    /\ [](halted /\ proc = "running" => ToEnd > 0)
    /\ [][halted /\ proc' = "running" => ToEnd' < ToEnd]_vars

(***************************************************************************)
(* The block in which the guest exited is the last one run (the safety     *)
(* half of ExitEndsProcess).                                               *)
(***************************************************************************)
THEOREM ExitIsNear == Spec => ExitAdvances
<1> DEFINE Down == halted /\ proc' = "running" => ToEnd' < ToEnd
<1>1. LoopInv /\ TracksOK => ToEnd \in Nat /\ (halted /\ proc = "running" => ToEnd > 0)
  <2> SUFFICES ASSUME LoopInv, TracksOK
               PROVE  ToEnd \in Nat /\ (halted /\ proc = "running" => ToEnd > 0)
    OBVIOUS
  <2>1. CASE phase = "execute"
    <3>1. ToEnd = Size(heap[current]) - idx + 2
      BY <2>1 DEF ToEnd
    <3> QED
      BY <2>1, <3>1, InBlock
  <2>2. CASE phase \in {"leave", "lookup"}
    BY <2>2 DEF ToEnd
  <2>3. CASE phase \notin {"execute", "leave", "lookup"}
    BY <2>3 DEF ToEnd, TracksOK, HaltedPhase
  <2> QED
    BY <2>1, <2>2, <2>3
<1>2. LoopInv /\ TracksOK /\ [Next \/ Terminated]_vars => [Down]_vars
  <2> SUFFICES ASSUME LoopInv, TracksOK, Next, proc' = "running", halted
               PROVE  ToEnd' < ToEnd
    BY DEF Terminated
  <2>1. CASE ExecuteOp
    <3>1. ToEnd = Size(heap[current]) - idx + 2
      BY <2>1, HandlerAdvances DEF ToEnd
    <3>2. CASE phase' = "execute"
      <4>1. ToEnd' = Size(heap'[current']) - idx' + 2
        BY <3>2 DEF ToEnd
      <4>2. heap'[current'] = heap[current]
        BY <2>1, HandlerAdvances
      <4> QED
        BY <2>1, <3>1, <4>1, <4>2, HandlerAdvances
    <3>3. CASE phase' = "leave"
      <4>1. ToEnd' = 2
        BY <3>3 DEF ToEnd
      <4> QED
        BY <2>1, <3>1, <4>1, HandlerAdvances
    <3> QED
      BY <2>1, <3>2, <3>3, HandlerAdvances
  <2>2. CASE Leave
    <3>1. phase = "leave" /\ phase' = "lookup"
      BY <2>2 DEF Leave, At
    <3> QED
      BY <3>1 DEF ToEnd
  <2>3. CASE DecodeCrash \/ ExecuteCrash \/ Finish
    BY <2>3 DEF DecodeCrash, ExecuteCrash, Finish, Crash, Return
  <2>4. CASE LookupHit \/ LookupMiss
    BY <2>4 DEF LookupHit, LookupMiss
  <2>5. CASE DecodeOp \/ Complete \/ Link \/ Enter
    BY <2>5 DEF DecodeOp, Complete, Link, Enter, At, TracksOK, HaltedPhase
  <2> QED
    BY <2>1, <2>2, <2>3, <2>4, <2>5 DEF Next
<1> QED
  BY <1>1, <1>2, Tracks, PTL DEF Spec, ExitAdvances
============================================================================
