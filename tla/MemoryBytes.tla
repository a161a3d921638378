---------------------------- MODULE MemoryBytes ----------------------------
(***************************************************************************)
(* What guest memory promises: a map from addresses to bytes.  Allocating  *)
(* maps the pages of a range and changes no byte that is there; copying    *)
(* and setting take effect at once on a range of addresses that may cross  *)
(* pages and wraps at the top; touching an address that is not mapped ends *)
(* the program.                                                            *)
(***************************************************************************)
EXTENDS Integers, Sequences

CONSTANTS
    AddressCard,    \* addresses
    PageSize,       \* bytes of a page
    Byte,           \* values of a byte
    MaxSize,        \* bound on the length of a transfer
    Widths,         \* sizes of a load or store
    NULL

VARIABLES
    bytes,          \* from the mapped addresses to their values
    request,        \* the call being served, or NULL
    buffer,         \* the host's side of the transfer being made
    state           \* "idle", "busy" or "ended"

vars == <<bytes, request, buffer, state>>

Address  == 0 .. AddressCard - 1
Wrap(a)  == a % AddressCard
PageOf(a) == a \div PageSize
Span(a, n) == {Wrap(a + k) : k \in 0 .. n - 1}
Buffers(n) == [1 .. n -> Byte]

Init ==
    /\ bytes = <<>>
    /\ request = NULL
    /\ buffer = <<>>
    /\ state = "idle"

\* A call of op.  It takes effect at once.
Serve(op, sizes) ==
    /\ state = "idle"
    /\ state' = "busy"
    /\ request' \in [op : {op}, address : Address, size : sizes, value : Byte]

Reaches(r) == Span(r.address, r.size) \subseteq DOMAIN bytes

MapPages(P) ==
    bytes' = [x \in DOMAIN bytes \cup {y \in Address : PageOf(y) \in P} |->
                 IF x \in DOMAIN bytes THEN bytes[x] ELSE 0]

\* An empty or a wrapping range promises only that no byte is changed.
Allocate ==
    /\ Serve("allocate", 0 .. AddressCard)
    /\ LET a == request'.address
           n == request'.size
       IN  IF n > 0 /\ a + n <= AddressCard
           THEN MapPages({PageOf(x) : x \in Span(a, n)})
           ELSE \E P \in SUBSET {PageOf(x) : x \in Address} : MapPages(P)
    /\ UNCHANGED buffer

Read ==
    /\ Serve("read", 0 .. MaxSize)
    /\ Reaches(request')
    /\ buffer' = [k \in 1 .. request'.size |->
                     bytes[Wrap(request'.address + k - 1)]]
    /\ UNCHANGED bytes

\* The first m values are put from a on.
Put(a, values, m) ==
    bytes' = [x \in DOMAIN bytes |->
                 IF x \in Span(a, m) THEN values[Wrap(x - a) + 1] ELSE bytes[x]]

Write ==
    /\ Serve("write", 0 .. MaxSize)
    /\ Reaches(request')
    /\ buffer' \in Buffers(request'.size)
    /\ Put(request'.address, buffer', request'.size)

Set ==
    /\ Serve("set", 0 .. MaxSize)
    /\ Reaches(request')
    /\ Put(request'.address, [k \in 1 .. request'.size |-> request'.value],
           request'.size)
    /\ UNCHANGED buffer

\* Loads and stores are exact when aligned, or within one page.  Across a page
\* boundary only the part in the first page is.
Exact(r) ==
    LET rest == PageSize - (r.address % PageSize)
    IN  IF r.size > rest THEN rest ELSE r.size

Load ==
    /\ Serve("load", Widths)
    /\ request'.address \in DOMAIN bytes
    /\ buffer' \in Buffers(request'.size)
    /\ \A k \in 1 .. Exact(request') :
         buffer'[k] = bytes[request'.address + k - 1]
    /\ UNCHANGED bytes

Store ==
    /\ Serve("store", Widths)
    /\ request'.address \in DOMAIN bytes
    /\ buffer' \in Buffers(request'.size)
    /\ Put(request'.address, buffer', Exact(request'))

Done ==
    /\ state = "busy"
    /\ request' = NULL
    /\ buffer' = <<>>
    /\ state' = "idle"
    /\ UNCHANGED bytes

End ==
    /\ bytes' = <<>>
    /\ request' = NULL
    /\ buffer' = <<>>
    /\ state' = "ended"

\* An address is not mapped, or the program is over.
Fault  == state = "idle" /\ DOMAIN bytes # Address /\ End
Delete == state = "idle" /\ End

Next == Allocate \/ Read \/ Write \/ Set \/ Load \/ Store \/ Done
            \/ Fault \/ Delete

Spec == Init /\ [][Next]_vars
============================================================================
