--------------------------- MODULE MCSystemCalls ---------------------------
(***************************************************************************)
(* SystemCalls with 32 addresses in pages of four: the mmap heap in pages  *)
(* 3 and 4, the stack in page 5, the user's top at the start of page 6.    *)
(***************************************************************************)
EXTENDS SystemCalls

Segment(a, f, m) == [load |-> TRUE, vaddr |-> a, filesz |-> f, memsz |-> m]
Note == [load |-> FALSE, vaddr |-> 9, filesz |-> 3, memsz |-> 3]

\* Segments that share a page, the later one above or below the other.
MCExecutables ==
    {<<Segment(2, 3, 3), Note, Segment(6, 1, 4)>>,
     <<Segment(6, 1, 2), Segment(4, 1, 2)>>}

\* In a segment or the heap, across the start of a page of the mmap heap,
\* into the stack, and around the top.
MCBuffers ==
    {[address |-> 7, length |-> 2], [address |-> 15, length |-> 2],
     [address |-> 23, length |-> 0], [address |-> 31, length |-> 2]}
============================================================================
