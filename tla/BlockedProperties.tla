-------------------------- MODULE BlockedProperties -------------------------
(***************************************************************************)
(* What makes interpreter_blocked correct: the shape of its blocks, the    *)
(* coherence of its links and of the moved PC, the exactness of its        *)
(* unrolled loop, and its agreement with the switch.                       *)
(***************************************************************************)
EXTENDS BlockedInterpreter

------------------------------------------------------------------------------
\* What a block is.

\* Its last branch, the address it was decoded at, and where the branch leads.
BranchPos(b)   == Size(b) - 2
OpAddress(b, k) == U32(b.address + (k - 1))
BranchAt(b)    == OpAddress(b, BranchPos(b))
BlockBranch(b) == Instr[b.ops[BranchPos(b)]]
BlockTarget(b, taken) == DirectTarget(BlockBranch(b), BranchAt(b), taken)

IsBranch(word) == Instr[word].op \in BranchOps

\* Among the first n of ops, no instruction but a branch follows a branch.
BranchesLast(ops, n) ==
    \A k \in 1 .. n - 1 : IsBranch(ops[k]) => IsBranch(ops[k + 1])

\* One of the first n of ops jumps through a register.
JumpsIndirectly(ops, n) == \E k \in 1 .. n : Instr[ops[k]].op \in IndirectOps

BlockOK(b) ==
    /\ Size(b) >= 3
    /\ b.ops[Size(b)] = NullOp
    /\ \A k \in 1 .. Size(b) - 1 : b.ops[k] \in Word
    /\ IsBranch(b.ops[BranchPos(b)])
    /\ ~IsBranch(b.ops[Size(b) - 1])
    /\ BranchesLast(b.ops, BranchPos(b))
    /\ b.indirect <=> JumpsIndirectly(b.ops, Size(b) - 1)

(***************************************************************************)
(* decode_block's shape: a block is code without branches, then a branch,  *)
(* or several when branches stand in delay slots, then one instruction     *)
(* that is none, and the terminator; the decoder never goes on past the    *)
(* first delay slot that holds no branch.  indirect says whether one of    *)
(* the branches jumps through a register.  The code relies on it: size - 3 *)
(* is the index of the last branch, and a block that is not indirect has   *)
(* only targets that its words fix.                                        *)
(***************************************************************************)
BlocksWellFormed == \A p \in DOMAIN heap : BlockOK(heap[p])

(***************************************************************************)
(* The link cache is coherent: a link under an outcome of a block's branch *)
(* points to a block decoded at the address that outcome leads to, so that *)
(* following it without a lookup continues where the guest goes.  Blocks   *)
(* that end in a register jump have no links at all.                       *)
(***************************************************************************)
LinksCoherent ==
    \A p \in DOMAIN heap : \A taken \in BOOLEAN :
        heap[p].next[taken] # NULL =>
            /\ heap[p].next[taken] \in DOMAIN heap
            /\ ~heap[p].indirect
            /\ heap[heap[p].next[taken]].address = BlockTarget(heap[p], taken)

(***************************************************************************)
(* The block about to be run is the block at PC, however it was reached:   *)
(* by the hash table, by decoding, or by a link.                           *)
(***************************************************************************)
EntryAtPC ==
    phase \in {"link", "enter"} =>
        current \in DOMAIN heap /\ heap[current].address = pc

(***************************************************************************)
(* While a block runs, PC is the address of its branch, so that the branch *)
(* computes its target and its return address from where it stands.        *)
(***************************************************************************)
PCAtBranch ==
    phase \in {"execute", "leave"} =>
        current \in DOMAIN heap /\ pc = BranchAt(heap[current])

(***************************************************************************)
(* The branched flag tells where the guest went: from the branch of a      *)
(* direct block until the next block is linked, the address to go on at    *)
(* (NNPC, then PC) is the one the branch has under the outcome the flag    *)
(* holds.  The delay slot and the decoder, which run in between, must not  *)
(* disturb either; the link is stored under that flag.                     *)
(***************************************************************************)
PCFollowsBranch ==
    /\ phase \in {"lookup", "decode", "complete", "link"} =>
         (previous # NULL /\ ~heap[previous].indirect =>
              pc = BlockTarget(heap[previous], branched))
    /\ (phase = "leave" \/ (phase = "execute" /\ idx > BranchPos(heap[current])))
         => (~heap[current].indirect =>
                 nnpc = BlockTarget(heap[current], branched))

(***************************************************************************)
(* The Duff device tests for the terminator only where it can be: the loop *)
(* never steps over it, and stops with the ops pointer exactly on it, so   *)
(* that every handler of the block ran exactly once.                       *)
(***************************************************************************)
DuffExact ==
    /\ phase = "execute" => idx \in 1 .. Size(heap[current]) - 1
    /\ phase = "leave" => idx = Size(heap[current])

(***************************************************************************)
(* DARRAY_PUSH grows the array before a write beyond it: the ops pushed    *)
(* while decoding, and the ops and terminator of every block, have the     *)
(* room that was allocated for them.                                       *)
(***************************************************************************)
OpsFitCapacity ==
    /\ Len(dec.ops) <= dec.capacity
    /\ \A p \in DOMAIN heap : Size(heap[p]) <= heap[p].capacity

(***************************************************************************)
(* No address is decoded twice: blocks reached by links are found again by *)
(* the hash table, and HASH_ADD never adds a key that is there.            *)
(***************************************************************************)
UniqueBlocks ==
    \A p, q \in DOMAIN heap : heap[p].address = heap[q].address => p = q

(***************************************************************************)
(* A link, once set, is never redirected while the program runs: the outer *)
(* loop only fills links the inner loop found empty.                       *)
(***************************************************************************)
LinkSetOnce ==
    [][proc' = "running" =>
         \A p \in DOMAIN heap : \A taken \in BOOLEAN :
             heap[p].next[taken] # NULL =>
                 heap'[p].next[taken] = heap[p].next[taken]]_vars

(***************************************************************************)
(* Decoding ends and the block decoded is run to its end, unless the       *)
(* process crashes: no guest keeps the interpreter in the decoder or in    *)
(* the unrolled loop for ever.                                             *)
(***************************************************************************)
DecodedBlocksRun ==
    phase = "decode" ~> (phase = "leave" \/ proc = "crashed")

------------------------------------------------------------------------------
\* The inductive invariant behind these.

\* What decode_block has pushed so far: at the branch it last saw nothing but
\* the delay slot is missing, and then the block is complete.
EndsInBranch(ops) == Len(ops) > 0 /\ IsBranch(ops[Len(ops)])

DecoderOK ==
    /\ phase \in {"decode", "complete"} =>
         /\ ~halted
         /\ \A k \in DOMAIN dec.ops : dec.ops[k] \in Word
         /\ dec.indirect <=> JumpsIndirectly(dec.ops, Len(dec.ops))
    /\ phase = "decode" =>
         /\ BranchesLast(dec.ops, Len(dec.ops))
         /\ IF dec.branched
              THEN EndsInBranch(dec.ops)
              ELSE \A k \in DOMAIN dec.ops : ~IsBranch(dec.ops[k])
    /\ phase = "complete" =>
         /\ Len(dec.ops) >= 2
         /\ BranchesLast(dec.ops, Len(dec.ops) - 1)
         /\ IsBranch(dec.ops[Len(dec.ops) - 1])
         /\ ~IsBranch(dec.ops[Len(dec.ops)])

\* The outer loop looks a block up when it has none.
NoBlockAtLookup == phase = "lookup" => current = NULL

IInv ==
    /\ TypeOK
    /\ NoBlockAtLookup
    /\ BlocksWellFormed
    /\ DecoderOK
    /\ EntryAtPC
    /\ PCAtBranch
    /\ PCFollowsBranch
    /\ LinksCoherent

\* Beside it: the handlers left are those up to the loop's next test and whole
\* rounds after it; the array has room; the block being decoded is not there
\* yet; and the outer loop runs on only from a link that is empty.
LoopOK ==
    /\ phase = "execute" =>
         /\ idx \in 1 .. Size(heap[current]) - 1
         /\ lane > 0
         /\ \E rounds \in 0 .. Size(heap[current]) :
                Size(heap[current]) - idx - lane = rounds * Unroll
    /\ phase = "leave" => idx = Size(heap[current])

ArrayOK == dec.capacity > 0 /\ OpsFitCapacity

KeysOK ==
    /\ UniqueBlocks
    /\ phase \in {"decode", "complete"} =>
         \A p \in DOMAIN heap : heap[p].address # pc

EmptyLinkOK ==
    phase \in {"lookup", "decode", "complete", "link"} =>
        (previous # NULL /\ ~heap[previous].indirect /\ ~halted =>
             heap[previous].next[branched] = NULL)

NotHaltedAtLink == phase = "link" => ~halted

LoopInv == IInv /\ LoopOK /\ ArrayOK /\ KeysOK /\ EmptyLinkOK /\ NotHaltedAtLink

------------------------------------------------------------------------------
\* Refinement of the switch.

\* The program counters of the switch.  Within a block they are those of the
\* next handler; only in the delay slot may the word after next be elsewhere.
AbsPC ==
    CASE phase = "execute" -> OpAddress(heap[current], idx)
      [] phase = "leave"   -> nnpc
      [] OTHER             -> pc

AbsNPC ==
    IF phase = "execute" /\ idx = Size(heap[current]) - 1
    THEN nnpc ELSE U32(AbsPC + 1)

Switch == INSTANCE SwitchInterpreter
              WITH pc <- AbsPC, npc <- AbsNPC, nnpc <- U32(AbsNPC + 1)

\* What blocked.c takes for granted of its guest, as compilers produce it: no
\* branch in a delay slot, no store into code that was decoded, and code laid
\* out so that the decoder, which runs ahead to the next branch, does not
\* leave it.
WellBehaved ==
    /\ \A p \in DOMAIN heap :
           LET b == heap[p]
           IN  \A k \in 1 .. Size(b) - 1 :
                   /\ IsBranch(b.ops[k]) <=> k = BranchPos(b)
                   /\ OpAddress(b, k) \in Mapped
                   /\ halted \/ memory[OpAddress(b, k)] = b.ops[k]
    /\ ~(phase = "decode" /\ proc = "crashed")

\* The interpreter on guests that keep to it.
WellBehavedSpec == Init /\ [][Next /\ WellBehaved']_vars

(***************************************************************************)
(* On such guests, decoding once, linking blocks, moving PC per block and  *)
(* unrolling change nothing: until the guest exits, the registers, the     *)
(* memory and the crashes are those of the switch, instruction by          *)
(* instruction.                                                            *)
(***************************************************************************)
ImplementsSwitch == Switch!UpToExit
============================================================================
