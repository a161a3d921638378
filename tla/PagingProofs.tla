---------------------------- MODULE PagingProofs ----------------------------
(***************************************************************************)
(* The two-level page table and the loops over pages of memory.c implement *)
(* a map from addresses to bytes, for every size of the tables and pages.  *)
(***************************************************************************)
EXTENDS Paging, TLAPS

(***************************************************************************)
(* Quotient and remainder are the only ones.                               *)
(***************************************************************************)
LEMMA DivisionUnique ==
  ASSUME NEW w \in Nat, w > 0, NEW q \in Int, NEW k \in 0 .. w - 1, NEW y,
         y = w * q + k
  PROVE  y \in Int /\ y \div w = q /\ y % w = k
<1> DEFINE p == y \div w
           m == y % w
<1>1. y \in Int
  OBVIOUS
<1>2. p \in Int /\ m \in 0 .. w - 1 /\ y = w * p + m
  BY <1>1
<1> HIDE DEF p, m
<1>3. w * p - w * q = k - m /\ w * p - w * q = w * (p - q)
      /\ w * (q - p) = m - k
  BY <1>2
<1>4. CASE p - q >= 1
  <2>1. w * (p - q) >= w
    BY <1>2, <1>4
  <2> QED
    BY <1>2, <1>3, <2>1
<1>5. CASE q - p >= 1
  <2>1. w * (q - p) >= w
    BY <1>2, <1>5
  <2> QED
    BY <1>2, <1>3, <2>1
<1>6. CASE p = q
  <2>1. m = k
    BY <1>2, <1>6
  <2> QED
    BY <1>1, <1>6, <2>1 DEF p, m
<1> QED
  BY <1>2, <1>4, <1>5, <1>6

(***************************************************************************)
(* A product grows with its factor, strictly by at least the other one.    *)
(***************************************************************************)
LEMMA ProductGrows ==
  ASSUME NEW w \in Nat, w > 0, NEW p \in Int, NEW q \in Int
  PROVE  /\ w * p \in Int
         /\ p < q => w * p + w <= w * q
         /\ p <= q => w * p <= w * q
         /\ p >= 0 => w * p >= 0
<1>1. ASSUME p < q PROVE w * p + w <= w * q
  <2>1. w * (q - p) >= w
    BY <1>1
  <2>2. w * (q - p) = w * q - w * p
    OBVIOUS
  <2> QED
    BY <2>1, <2>2
<1> QED
  BY <1>1

Pages == TableCard * EntryCard
PageOf(a) == a \div PageSize

(***************************************************************************)
(* The sizes: the pages of all tables make up the address space.           *)
(***************************************************************************)
LEMMA Sizes ==
  /\ TableCard \in Nat /\ TableCard > 0
  /\ EntryCard \in Nat /\ EntryCard > 0
  /\ PageSize \in Nat /\ PageSize > 0
  /\ Pages \in Nat /\ Pages > 0
  /\ AddressCard = PageSize * Pages
  /\ AddressCard \in Nat /\ AddressCard > 0
<1>1. /\ TableCard \in Nat /\ TableCard > 0
      /\ EntryCard \in Nat /\ EntryCard > 0
      /\ PageSize \in Nat /\ PageSize > 0
  BY PagingAssumption
<1>2. Pages \in Nat /\ Pages > 0
  BY <1>1 DEF Pages
<1>3. AddressCard = PageSize * Pages
  BY <1>1 DEF Pages, AddressCard
<1> HIDE DEF Pages
<1>4. AddressCard \in Nat /\ AddressCard > 0
  BY <1>1, <1>2, <1>3
<1> QED
  BY <1>1, <1>2, <1>3, <1>4

(***************************************************************************)
(* An address is the number of a page and an offset in it.                 *)
(***************************************************************************)
LEMMA PageAndOffset ==
  ASSUME NEW a \in Address
  PROVE  /\ a \in Nat /\ a < AddressCard
         /\ PageOf(a) \in Nat /\ PageOf(a) < Pages
         /\ Offset(a) \in Offsets /\ Offset(a) \in Nat
         /\ a = PageSize * PageOf(a) + Offset(a)
<1>1. a \in Nat /\ a < AddressCard
  BY Sizes DEF Address
<1> DEFINE p == a \div PageSize
           m == a % PageSize
<1>2. p \in Int /\ m \in 0 .. PageSize - 1 /\ a = PageSize * p + m /\ p >= 0
  BY <1>1, Sizes
<1> HIDE DEF p, m
<1>3. p < Pages
  <2>1. SUFFICES ASSUME Pages <= p PROVE FALSE
    BY <1>2, Sizes
  <2>2. PageSize * Pages <= PageSize * p
    BY <1>2, <2>1, ProductGrows, Sizes
  <2> QED
    BY <1>1, <1>2, <2>2, Sizes
<1> QED
  BY <1>1, <1>2, <1>3, Sizes DEF PageOf, Offset, Offsets, p, m

(***************************************************************************)
(* The indices of the two tables are the digits of the page's number.      *)
(***************************************************************************)
LEMMA Indices ==
  ASSUME NEW a \in Address
  PROVE  /\ PtIdx(a) \in Tables /\ PeIdx(a) \in Entries
         /\ PtIdx(a) \in Nat /\ PeIdx(a) \in Nat
         /\ PageOf(a) = EntryCard * PtIdx(a) + PeIdx(a)
<1> DEFINE pg == PageOf(a)
           t  == pg \div EntryCard
           e  == pg % EntryCard
           o  == Offset(a)
<1>1. /\ a \in Nat /\ pg \in Nat /\ pg < Pages /\ o \in 0 .. PageSize - 1
      /\ a = PageSize * pg + o
  BY PageAndOffset DEF Offsets
<1>2. PeIdx(a) = e
  BY DEF PeIdx, PageOf
<1> HIDE DEF pg, o
<1>3. t \in Int /\ t >= 0 /\ e \in 0 .. EntryCard - 1 /\ pg = EntryCard * t + e
  BY <1>1, Sizes
<1> HIDE DEF t, e
<1>4. t < TableCard
  <2>1. SUFFICES ASSUME TableCard <= t PROVE FALSE
    BY <1>3, Sizes
  <2>2. EntryCard * TableCard <= EntryCard * t
    BY <1>3, <2>1, ProductGrows, Sizes
  <2>3. EntryCard * TableCard = Pages
    BY Sizes DEF Pages
  <2> QED
    BY <1>1, <1>3, <2>2, <2>3, Sizes
<1>5. a \div (PageSize * EntryCard) = t
  <2> DEFINE w == PageSize * EntryCard
             k == PageSize * e + o
  <2>1. w \in Nat /\ w > 0
    BY Sizes
  <2>2. k \in Int /\ k >= 0
    BY <1>1, <1>3, ProductGrows, Sizes
  <2>3. k < w
    <3>1. PageSize * e + PageSize <= PageSize * EntryCard
      BY <1>3, ProductGrows, Sizes
    <3> QED
      BY <1>1, <1>3, <3>1, Sizes
  <2>4. a = w * t + k
    <3>1. PageSize * (EntryCard * t + e) = (PageSize * EntryCard) * t + PageSize * e
      BY <1>3, Sizes
    <3> QED
      BY <1>1, <1>3, <3>1, Sizes
  <2> HIDE DEF w, k
  <2>5. k \in 0 .. w - 1
    BY <2>1, <2>2, <2>3
  <2>6. a \div w = t
    BY <1>3, <2>1, <2>4, <2>5, DivisionUnique
  <2> QED
    BY <2>6 DEF w
<1>6. t % TableCard = t
  BY <1>3, <1>4, Sizes
<1>7. PtIdx(a) = t
  BY <1>5, <1>6 DEF PtIdx
<1> QED
  BY <1>2, <1>3, <1>4, <1>7, Sizes DEF Tables, Entries, pg

(***************************************************************************)
(* Two addresses have the same entry if they are on the same page.         *)
(***************************************************************************)
LEMMA SameEntry ==
  ASSUME NEW a \in Address, NEW b \in Address
  PROVE  /\ (PtIdx(a) = PtIdx(b) /\ PeIdx(a) = PeIdx(b)) <=> PageOf(a) = PageOf(b)
         /\ PageOf(a) = PageOf(b) /\ Offset(a) = Offset(b) => a = b
<1>1. /\ PtIdx(a) \in Nat /\ PeIdx(a) \in 0 .. EntryCard - 1
      /\ PageOf(a) = EntryCard * PtIdx(a) + PeIdx(a)
      /\ PtIdx(b) \in Nat /\ PeIdx(b) \in 0 .. EntryCard - 1
      /\ PageOf(b) = EntryCard * PtIdx(b) + PeIdx(b)
  BY Indices DEF Entries
<1>2. ASSUME PageOf(a) = PageOf(b)
      PROVE  PtIdx(a) = PtIdx(b) /\ PeIdx(a) = PeIdx(b)
  BY <1>1, <1>2, DivisionUnique, Sizes
<1>3. ASSUME PageOf(a) = PageOf(b), Offset(a) = Offset(b) PROVE a = b
  BY <1>3, PageAndOffset
<1> QED
  BY <1>1, <1>2, <1>3

(***************************************************************************)
(* Within a page, addresses and offsets advance together.                  *)
(***************************************************************************)
LEMMA WithinPage ==
  ASSUME NEW a \in Address, NEW j \in Nat, Offset(a) + j < PageSize
  PROVE  /\ a + j \in Address /\ Wrap(a + j) = a + j
         /\ PtIdx(a + j) = PtIdx(a) /\ PeIdx(a + j) = PeIdx(a)
         /\ Offset(a + j) = Offset(a) + j
<1> DEFINE pg == PageOf(a)
           o  == Offset(a)
           x  == a + j
<1>1. /\ a \in Nat /\ pg \in Nat /\ pg < Pages /\ o \in Nat
      /\ a = PageSize * pg + o /\ x = a + j /\ o + j < PageSize
  BY PageAndOffset
<1> HIDE DEF pg, o, x
<1>2. PageSize * pg \in Nat /\ PageSize * pg + PageSize <= PageSize * Pages
  BY <1>1, ProductGrows, Sizes
<1>3. x \in Nat /\ x < AddressCard
  BY <1>1, <1>2, Sizes
<1>4. x = PageSize * pg + (o + j) /\ o + j \in 0 .. PageSize - 1
  BY <1>1, <1>2, Sizes
<1>5. x \div PageSize = pg /\ x % PageSize = o + j
  <2> DEFINE k == o + j
  <2>1. /\ k \in 0 .. PageSize - 1 /\ x = PageSize * pg + k
        /\ pg \in Int /\ PageSize \in Nat /\ PageSize > 0
    BY <1>1, <1>4, Sizes
  <2> HIDE DEF k
  <2>2. x \div PageSize = pg /\ x % PageSize = k
    BY <2>1, DivisionUnique
  <2> QED
    BY <2>2 DEF k
<1>6. x \in Address /\ Wrap(x) = x
  BY <1>3, Sizes DEF Address, Wrap
<1>7. PageOf(x) = PageOf(a) /\ Offset(x) = Offset(a) + j
  BY <1>5 DEF PageOf, Offset, pg, o
<1> QED
  BY <1>6, <1>7, SameEntry DEF x

(***************************************************************************)
(* Addresses wrap at most once in a transfer.                              *)
(***************************************************************************)
LEMMA WrapOnce ==
  ASSUME NEW x \in Int
  PROVE  /\ Wrap(x) \in Address
         /\ x \in Address => Wrap(x) = x
         /\ AddressCard <= x /\ x < 2 * AddressCard => Wrap(x) = x - AddressCard
         /\ x < 0 /\ -AddressCard <= x => Wrap(x) = x + AddressCard
<1>1. AddressCard \in Nat /\ AddressCard > 0
  BY Sizes
<1>2. Wrap(x) \in Address /\ (x \in Address => Wrap(x) = x)
  BY <1>1 DEF Wrap, Address
<1>3. ASSUME AddressCard <= x, x < 2 * AddressCard PROVE Wrap(x) = x - AddressCard
  BY <1>1, <1>3 DEF Wrap
<1>4. ASSUME x < 0, -AddressCard <= x PROVE Wrap(x) = x + AddressCard
  BY <1>1, <1>4 DEF Wrap
<1> QED
  BY <1>2, <1>3, <1>4

------------------------------------------------------------------------------
(***************************************************************************)
(* A page that is found is a page.                                         *)
(***************************************************************************)
LEMMA MappedPage ==
  ASSUME page_tables \in [Tables -> Table \cup {NULL}], NEW a \in Address
  PROVE  Mapped(a) <=> /\ page_tables[PtIdx(a)] \in Table
                       /\ page_tables[PtIdx(a)][PeIdx(a)] \in Page
<1>1. PtIdx(a) \in Tables /\ PeIdx(a) \in Entries
  BY Indices
<1>2. NULL \notin Page /\ NULL \notin Table
  BY PagingAssumption
<1>3. page_tables[PtIdx(a)] \in Table \cup {NULL}
  BY <1>1
<1>4. ASSUME page_tables[PtIdx(a)] \in Table
      PROVE  page_tables[PtIdx(a)][PeIdx(a)] \in Page \cup {NULL}
  BY <1>1, <1>4 DEF Table
<1> QED
  BY <1>2, <1>3, <1>4 DEF Mapped

(***************************************************************************)
(* Storing in a page leaves tables as they are but for bytes of the page.  *)
(***************************************************************************)
LEMMA StoreEffect ==
  ASSUME page_tables \in [Tables -> Table \cup {NULL}],
         NEW a \in Address, Mapped(a), NEW values \in Seq(Byte),
         page_tables' = StoreInPage(a, values)
  PROVE  /\ page_tables' \in [Tables -> Table \cup {NULL}]
         /\ \A b \in Address :
              /\ Mapped(b)' <=> Mapped(b)
              /\ Mapped(b) =>
                   ByteAt(b)' =
                     IF /\ PageOf(b) = PageOf(a)
                        /\ Offset(b) \in Offset(a) .. Offset(a) + Len(values) - 1
                     THEN values[Offset(b) - Offset(a) + 1] ELSE ByteAt(b)
<1> DEFINE t == PtIdx(a)
           e == PeIdx(a)
           last == Offset(a) + Len(values) - 1
           new == [o \in Offsets |-> IF o \in Offset(a) .. last
                                     THEN values[o - Offset(a) + 1]
                                     ELSE page_tables[t][e][o]]
<1>1. /\ t \in Tables /\ e \in Entries
      /\ page_tables[t] \in Table /\ page_tables[t][e] \in Page
  BY Indices, MappedPage
<1>2. page_tables' = [page_tables EXCEPT ![t] = [page_tables[t] EXCEPT ![e] = new]]
  BY DEF StoreInPage
<1>3. new \in Page
  <2>1. Offset(a) \in Nat /\ Len(values) \in Nat
    BY PageAndOffset
  <2>2. ASSUME NEW o \in Offsets
        PROVE  (IF o \in Offset(a) .. last THEN values[o - Offset(a) + 1]
                                           ELSE page_tables[t][e][o]) \in Byte
    <3>1. CASE o \in Offset(a) .. last
      BY <2>1, <3>1
    <3>2. CASE o \notin Offset(a) .. last
      BY <1>1, <3>2 DEF Page
    <3> QED
      BY <3>1, <3>2
  <2> QED
    BY <2>2 DEF Page
<1>4. \A o \in Offsets : new[o] = IF o \in Offset(a) .. last
                                   THEN values[o - Offset(a) + 1]
                                   ELSE page_tables[t][e][o]
  OBVIOUS
<1> HIDE DEF new
<1>5. [page_tables[t] EXCEPT ![e] = new] \in Table
  BY <1>1, <1>3 DEF Table
<1>6. page_tables' \in [Tables -> Table \cup {NULL}]
  BY <1>1, <1>2, <1>5
<1>7. ASSUME NEW b \in Address
      PROVE  /\ Mapped(b)' <=> Mapped(b)
             /\ Mapped(b) =>
                  ByteAt(b)' =
                    IF /\ PageOf(b) = PageOf(a)
                       /\ Offset(b) \in Offset(a) .. last
                    THEN values[Offset(b) - Offset(a) + 1] ELSE ByteAt(b)
  <2>1. PtIdx(b) \in Tables /\ PeIdx(b) \in Entries /\ Offset(b) \in Offsets
    BY Indices, PageAndOffset
  <2>2. NULL \notin Page /\ NULL \notin Table
    BY PagingAssumption
  <2>3. CASE PageOf(b) = PageOf(a)
    <3>1. PtIdx(b) = t /\ PeIdx(b) = e
      BY <2>3, SameEntry
    <3>2. page_tables'[t] \in Table /\ page_tables'[t][e] = new
      BY <1>1, <1>2, <1>5 DEF Table
    <3>3. Mapped(b) /\ Mapped(b)'
      BY <1>1, <1>3, <2>2, <3>1, <3>2 DEF Mapped
    <3>4. ByteAt(b)' = new[Offset(b)] /\ ByteAt(b) = page_tables[t][e][Offset(b)]
      BY <3>1, <3>2 DEF ByteAt
    <3> QED
      BY <1>4, <2>1, <2>3, <3>3, <3>4
  <2>4. CASE PageOf(b) # PageOf(a)
    <3>1. PtIdx(b) # t \/ PeIdx(b) # e
      BY <2>4, SameEntry
    <3>2. page_tables'[PtIdx(b)] # NULL <=> page_tables[PtIdx(b)] # NULL
      BY <1>1, <1>2, <1>5, <2>1, <2>2
    <3>3. page_tables'[PtIdx(b)][PeIdx(b)] = page_tables[PtIdx(b)][PeIdx(b)]
      BY <1>1, <1>2, <2>1, <3>1 DEF Table
    <3> QED
      BY <2>4, <3>2, <3>3 DEF Mapped, ByteAt
  <2> QED
    BY <2>3, <2>4
<1> QED
  BY <1>6, <1>7

------------------------------------------------------------------------------
\* The pages memory_allocate fills.

LastByte(a, n) == Wrap(a + n - 1)

\* b's page is one that memory_allocate fills for n bytes at a.
Filling(a, n, b) ==
    LET end == LastByte(a, n)
    IN  /\ PtIdx(b) \in PtIdx(a) .. PtIdx(end)
        /\ PeIdx(b) \in (IF PtIdx(b) = PtIdx(a) THEN PeIdx(a) ELSE 0) ..
                        (IF PtIdx(b) = PtIdx(end) THEN PeIdx(end)
                                                  ELSE EntryCard - 1)

(***************************************************************************)
(* The order of two pages is that of their indices.                        *)
(***************************************************************************)
LEMMA PageOrder ==
  ASSUME NEW a \in Address, NEW b \in Address
  PROVE  PageOf(a) <= PageOf(b) <=>
           \/ PtIdx(a) < PtIdx(b)
           \/ PtIdx(a) = PtIdx(b) /\ PeIdx(a) <= PeIdx(b)
<1> DEFINE t == PtIdx(a)
           u == PtIdx(b)
           e == PeIdx(a)
           f == PeIdx(b)
           x == EntryCard * t
           y == EntryCard * u
<1>1. /\ t \in Nat /\ u \in Nat
      /\ e \in 0 .. EntryCard - 1 /\ f \in 0 .. EntryCard - 1
      /\ PageOf(a) = x + e /\ PageOf(b) = y + f
  BY Indices DEF Entries
<1>2. x \in Int /\ y \in Int /\ EntryCard \in Nat
  BY <1>1, ProductGrows, Sizes
<1>3. t < u => x + EntryCard <= y
  BY <1>1, ProductGrows, Sizes
<1>4. u < t => y + EntryCard <= x
  BY <1>1, ProductGrows, Sizes
<1>5. t = u => x = y
  OBVIOUS
<1>6. \/ t < u \/ u < t \/ t = u
  BY <1>1
<1> HIDE DEF t, u, e, f, x, y
<1>7. x + e <= y + f <=> t < u \/ (t = u /\ e <= f)
  BY <1>1, <1>2, <1>3, <1>4, <1>5, <1>6
<1> QED
  BY <1>1, <1>7 DEF t, u, e, f

(***************************************************************************)
(* The two-level loops of memory_allocate fill the pages from the first    *)
(* byte's to the last one's.                                               *)
(***************************************************************************)
LEMMA FillingRange ==
  ASSUME NEW a \in Address, NEW n \in Nat, NEW b \in Address
  PROVE  /\ LastByte(a, n) \in Address
         /\ Filling(a, n, b) <=> /\ PageOf(a) <= PageOf(b)
                                 /\ PageOf(b) <= PageOf(LastByte(a, n))
<1> DEFINE end == LastByte(a, n)
<1>1. end \in Address
  <2>1. a + n - 1 \in Int
    BY PageAndOffset
  <2> QED
    BY <2>1, WrapOnce DEF LastByte
<1>2. Filling(a, n, b) <=>
        /\ PtIdx(b) \in PtIdx(a) .. PtIdx(end)
        /\ PeIdx(b) \in (IF PtIdx(b) = PtIdx(a) THEN PeIdx(a) ELSE 0) ..
                        (IF PtIdx(b) = PtIdx(end) THEN PeIdx(end)
                                                  ELSE EntryCard - 1)
  BY DEF Filling
<1> HIDE DEF end
<1>3. /\ PtIdx(a) \in Nat /\ PtIdx(b) \in Nat /\ PtIdx(end) \in Nat
      /\ PeIdx(a) \in Nat /\ PeIdx(b) \in 0 .. EntryCard - 1 /\ PeIdx(end) \in Nat
      /\ EntryCard \in Nat
  BY <1>1, Indices, Sizes DEF Entries
<1>4. PageOf(a) <= PageOf(b) <=>
           \/ PtIdx(a) < PtIdx(b)
           \/ PtIdx(a) = PtIdx(b) /\ PeIdx(a) <= PeIdx(b)
  BY PageOrder
<1>5. PageOf(b) <= PageOf(end) <=>
           \/ PtIdx(b) < PtIdx(end)
           \/ PtIdx(b) = PtIdx(end) /\ PeIdx(b) <= PeIdx(end)
  BY <1>1, PageOrder
<1>6. Filling(a, n, b) <=> PageOf(a) <= PageOf(b) /\ PageOf(b) <= PageOf(end)
  BY <1>2, <1>3, <1>4, <1>5
<1> QED
  BY <1>1, <1>6 DEF end

(***************************************************************************)
(* A range that does not wrap touches the pages from its first byte's to   *)
(* its last one's.                                                         *)
(***************************************************************************)
LEMMA PagesOfRange ==
  ASSUME NEW a \in Address, NEW end \in Address, a <= end, NEW y \in Address
  PROVE  (\E x \in a .. end : PageOf(x) = PageOf(y)) <=>
           PageOf(a) <= PageOf(y) /\ PageOf(y) <= PageOf(end)
<1> DEFINE p == PageOf(a)
           q == PageOf(y)
           r == PageOf(end)
           first == PageSize * q
<1>1. /\ a \in Nat /\ end \in Nat /\ end < AddressCard
      /\ p \in Nat /\ q \in Nat /\ r \in Nat
      /\ Offset(a) \in 0 .. PageSize - 1 /\ Offset(end) \in 0 .. PageSize - 1
      /\ a = PageSize * p + Offset(a) /\ end = PageSize * r + Offset(end)
  BY PageAndOffset DEF Offsets
<1>2. ASSUME NEW x \in Address, NEW z \in Address, x <= z
      PROVE  PageOf(x) <= PageOf(z)
  <2>1. /\ x \in Nat /\ z \in Nat /\ PageOf(x) \in Nat /\ PageOf(z) \in Nat
        /\ Offset(x) \in 0 .. PageSize - 1 /\ Offset(z) \in 0 .. PageSize - 1
        /\ x = PageSize * PageOf(x) + Offset(x)
        /\ z = PageSize * PageOf(z) + Offset(z)
    BY PageAndOffset DEF Offsets
  <2>2. SUFFICES ASSUME PageOf(z) < PageOf(x) PROVE FALSE
    BY <2>1
  <2>3. PageSize * PageOf(z) + PageSize <= PageSize * PageOf(x)
    BY <2>1, <2>2, ProductGrows, Sizes
  <2>4. PageSize * PageOf(z) \in Int /\ PageSize * PageOf(x) \in Int
    BY <2>1, ProductGrows, Sizes
  <2> QED
    BY <1>2, <2>1, <2>3, <2>4, Sizes
<1>3. ASSUME NEW x \in a .. end PROVE x \in Address
  BY <1>1, <1>3, Sizes DEF Address
<1>4. ASSUME NEW x \in a .. end, PageOf(x) = q PROVE p <= q /\ q <= r
  BY <1>1, <1>2, <1>3, <1>4
<1>5. ASSUME p <= q, q <= r PROVE \E x \in a .. end : PageOf(x) = q
  <2>1. CASE p = q
    BY <1>1, <2>1
  <2>2. CASE p < q
    <3>1. /\ PageSize * p + PageSize <= first
          /\ first <= PageSize * r
          /\ PageSize * p \in Int /\ first \in Int /\ PageSize * r \in Int
      BY <1>1, <1>5, <2>2, ProductGrows, Sizes
    <3>2. first \in a .. end
      BY <1>1, <3>1, Sizes
    <3>3. first \div PageSize = q
      <4>1. first = PageSize * q + 0 /\ 0 \in 0 .. PageSize - 1
        BY <1>1, <3>1, Sizes
      <4> QED
        BY <1>1, <4>1, DivisionUnique, Sizes
    <3> QED
      BY <3>2, <3>3 DEF PageOf
  <2> QED
    BY <1>1, <1>5, <2>1, <2>2
<1> QED
  BY <1>4, <1>5

(***************************************************************************)
(* memory_allocate keeps the pages that are there and puts pages of zeros  *)
(* where it fills.                                                         *)
(***************************************************************************)
LEMMA AllocateEffect ==
  ASSUME page_tables \in [Tables -> Table \cup {NULL}],
         NEW a \in Address, NEW n \in Nat, page_tables' = Allocated(a, n)
  PROVE  /\ page_tables' \in [Tables -> Table \cup {NULL}]
         /\ \A b \in Address :
              /\ Mapped(b)' <=> Mapped(b) \/ Filling(a, n, b)
              /\ Mapped(b)' => ByteAt(b)' = IF Mapped(b) THEN ByteAt(b) ELSE 0
<1> DEFINE zeros == [o \in Offsets |-> 0]
           first(t) == IF t = PtIdx(a) THEN PeIdx(a) ELSE 0
           last(t) == IF t = PtIdx(LastByte(a, n)) THEN PeIdx(LastByte(a, n))
                                                   ELSE EntryCard - 1
           touched == PtIdx(a) .. PtIdx(LastByte(a, n))
           new(t) == Filled(t, first(t), last(t))
<1>1. zeros \in Page /\ \A o \in Offsets : zeros[o] = 0
  BY PagingAssumption DEF Page
<1>2. page_tables' = [t \in Tables |-> IF t \in touched THEN new(t)
                                                        ELSE page_tables[t]]
  BY DEF Allocated, LastByte
<1>3. NULL \notin Page /\ NULL \notin Table
  BY PagingAssumption
<1> HIDE DEF zeros
<1>4. ASSUME NEW t \in Tables, NEW e \in Entries
      PROVE  new(t)[e] = IF page_tables[t] # NULL /\ page_tables[t][e] # NULL
                         THEN page_tables[t][e]
                         ELSE IF e \in first(t) .. last(t) THEN zeros ELSE NULL
  BY DEF Filled, zeros
<1>5. ASSUME NEW t \in Tables PROVE new(t) \in Table
  <2>1. page_tables[t] # NULL => page_tables[t] \in Table
    OBVIOUS
  <2>2. ASSUME NEW e \in Entries PROVE new(t)[e] \in Page \cup {NULL}
    BY <1>1, <1>4, <2>1 DEF Table
  <2>3. new(t) = [e \in Entries |-> new(t)[e]]
    BY DEF Filled
  <2> HIDE DEF new
  <2> QED
    BY <2>2, <2>3 DEF Table
<1>6. page_tables' \in [Tables -> Table \cup {NULL}]
  BY <1>2, <1>5
<1>7. ASSUME NEW b \in Address
      PROVE  /\ Mapped(b)' <=> Mapped(b) \/ Filling(a, n, b)
             /\ Mapped(b)' => ByteAt(b)' = IF Mapped(b) THEN ByteAt(b) ELSE 0
  <2> DEFINE t == PtIdx(b)
             e == PeIdx(b)
  <2>1. t \in Tables /\ e \in Entries /\ Offset(b) \in Offsets
    BY Indices, PageAndOffset
  <2>2. Filling(a, n, b) <=> t \in touched /\ e \in first(t) .. last(t)
    BY DEF Filling
  <2>3. Mapped(b) <=> page_tables[t] # NULL /\ page_tables[t][e] # NULL
    BY DEF Mapped
  <2>4. Mapped(b)' <=> page_tables'[t] # NULL /\ page_tables'[t][e] # NULL
    BY DEF Mapped
  <2>5. /\ ByteAt(b) = page_tables[t][e][Offset(b)]
        /\ ByteAt(b)' = page_tables'[t][e][Offset(b)]
    BY DEF ByteAt
  <2> HIDE DEF t, e
  <2>6. CASE t \in touched
    <3>1. page_tables'[t] = new(t) /\ page_tables'[t] # NULL
      BY <1>2, <1>3, <1>5, <2>1, <2>6
    <3>2. CASE Mapped(b)
      BY <1>4, <2>1, <2>3, <2>4, <2>5, <3>1, <3>2
    <3>3. CASE ~Mapped(b) /\ e \in first(t) .. last(t)
      <4>1. page_tables'[t][e] = zeros
        BY <1>4, <2>1, <2>3, <3>1, <3>3
      <4> QED
        BY <1>1, <1>3, <2>1, <2>2, <2>4, <2>5, <2>6, <3>1, <3>3, <4>1
    <3>4. CASE ~Mapped(b) /\ ~(e \in first(t) .. last(t))
      <4>1. page_tables'[t][e] = NULL
        BY <1>4, <2>1, <2>3, <3>1, <3>4
      <4> QED
        BY <2>2, <2>4, <3>4, <4>1
    <3> QED
      BY <3>2, <3>3, <3>4
  <2>7. CASE t \notin touched
    <3>1. page_tables'[t] = page_tables[t]
      BY <1>2, <2>1, <2>7
    <3> QED
      BY <2>2, <2>3, <2>4, <2>5, <2>7, <3>1
  <2> QED
    BY <2>6, <2>7
<1> QED
  BY <1>6, <1>7

------------------------------------------------------------------------------
\* The inductive invariant.  A call has its arguments, and a transfer has no
\* more bytes left than its buffer holds.

CallOK ==
    /\ call = NULL <=> args = NULL
    /\ call # NULL /\ args.op \in {"read", "write"} => call.size <= Len(buffer)

IInv == TypeOK /\ CallOK

(***************************************************************************)
(* What a call leaves: arguments and locals of their types, neither NULL.  *)
(***************************************************************************)
LEMMA CallEffect ==
  ASSUME NEW op \in Operations, NEW a \in Address, NEW n \in 0 .. AddressCard,
         NEW v \in Byte, NEW left \in 0 .. MaxSize, Call(op, a, n, v, left)
  PROVE  /\ proc = "running" /\ proc' = proc /\ call = NULL
         /\ args' \in Arguments /\ args' # NULL
         /\ args' = [op |-> op, address |-> a, size |-> n, value |-> v]
         /\ args'.op = op /\ args'.address = a /\ args'.size = n
         /\ args'.value = v
         /\ call' \in Locals /\ call' # NULL
         /\ call'.address = a /\ call'.size = left
<1>1. /\ args' = [op |-> op, address |-> a, size |-> n, value |-> v]
      /\ call' = [address |-> a, size |-> left]
      /\ proc = "running" /\ proc' = proc /\ call = NULL
  BY DEF Call
<1>2. args' \in Arguments /\ call' \in Locals
  BY <1>1 DEF Arguments, Locals
<1> QED
  BY <1>1, <1>2, PagingAssumption

(***************************************************************************)
(* A round of a loop moves between one byte and the rest of the page.      *)
(***************************************************************************)
LEMMA AmountRange ==
  ASSUME call \in Locals, call.size > 0
  PROVE  /\ call.address \in Address /\ call.size \in Nat
         /\ call.size <= AddressCard
         /\ Amount \in Nat /\ Amount > 0 /\ Amount <= call.size
         /\ Offset(call.address) + Amount <= PageSize
<1>1. call.address \in Address /\ call.size \in 0 .. MaxSize
  BY DEF Locals
<1>2. MaxSize \in Nat /\ MaxSize <= AddressCard /\ AddressCard \in Nat
  BY PagingAssumption, Sizes
<1>3. Offset(call.address) \in 0 .. PageSize - 1
  BY <1>1, PageAndOffset DEF Offsets
<1> QED
  BY <1>1, <1>2, <1>3, Sizes DEF Amount

(***************************************************************************)
(* Types of a round of a loop.                                             *)
(***************************************************************************)
LEMMA AdvanceEffect ==
  ASSUME call \in Locals, call.size > 0, Advance
  PROVE  /\ call' \in Locals /\ call' # NULL
         /\ call'.address = Wrap(call.address + Amount)
         /\ call'.size = call.size - Amount
<1>1. /\ call.address \in Address /\ call.size \in 0 .. MaxSize
      /\ Amount \in Nat /\ Amount <= call.size /\ MaxSize \in Nat
      /\ call.address \in Nat
  BY AmountRange, PageAndOffset, PagingAssumption, Sizes DEF Locals
<1> DEFINE c == Wrap(call.address + Amount)
           s == call.size - Amount
<1>2. call' = [call EXCEPT !.address = c, !.size = s]
  BY DEF Advance
<1>3. c \in Address /\ s \in 0 .. MaxSize
  BY <1>1, WrapOnce
<1> HIDE DEF c, s
<1>4. call' \in Locals /\ call'.address = c /\ call'.size = s
  BY <1>2, <1>3 DEF Locals
<1> QED
  BY <1>4, PagingAssumption DEF c, s

(***************************************************************************)
(* The invariant holds at the start.                                       *)
(***************************************************************************)
LEMMA InitIInv == Init => IInv
<1> SUFFICES ASSUME Init PROVE IInv
  OBVIOUS
<1>1. TypeOK
  BY DEF Init, TypeOK
<1>2. CallOK
  BY DEF Init, CallOK
<1> QED
  BY <1>1, <1>2 DEF IInv

(***************************************************************************)
(* Every step keeps the invariant.                                         *)
(***************************************************************************)
LEMMA StepIInv == IInv /\ [Next \/ Terminated]_vars => IInv'
<1> SUFFICES ASSUME IInv, [Next \/ Terminated]_vars PROVE IInv'
  OBVIOUS
<1>0. /\ page_tables \in [Tables -> Table \cup {NULL}]
      /\ args \in Arguments \cup {NULL} /\ call \in Locals \cup {NULL}
      /\ buffer \in Seq(Byte) /\ proc \in {"running", "crashed", "deleted"}
      /\ CallOK
  BY DEF IInv, TypeOK
<1>a. /\ MaxSize \in Nat /\ MaxSize <= AddressCard /\ AddressCard \in Nat
      /\ 0 \in Byte /\ 0 \in 0 .. MaxSize /\ 0 .. MaxSize \subseteq 0 .. AddressCard
      /\ Starts \subseteq Address /\ Widths \subseteq 0 .. AddressCard
      /\ Widths \subseteq Nat
  <2>1. /\ MaxSize \in Nat /\ MaxSize <= AddressCard /\ AddressCard \in Nat
        /\ 0 \in Byte /\ Starts \subseteq Address /\ Widths \subseteq 1 .. PageSize
    BY PagingAssumption, Sizes
  <2>2. PageSize <= AddressCard
    <3>1. PageSize * 1 <= PageSize * Pages
      BY Sizes, ProductGrows
    <3> QED
      BY <3>1, Sizes
  <2> QED
    BY <2>1, <2>2, Sizes
<1>1. CASE Allocate
  <2>1. PICK a \in Starts, n \in 0 .. AddressCard :
          Call("allocate", a, n, 0, 0) /\ page_tables' = Allocated(a, n)
    BY <1>1 DEF Allocate
  <2>2. /\ args' \in Arguments /\ args' # NULL /\ args'.op = "allocate"
        /\ call' \in Locals /\ call' # NULL /\ proc' = proc
    BY <1>a, <2>1, CallEffect DEF Operations
  <2>3. page_tables' \in [Tables -> Table \cup {NULL}]
    BY <1>0, <1>a, <2>1, AllocateEffect
  <2>4. buffer' = buffer
    BY <1>1 DEF Allocate
  <2> QED
    BY <1>0, <2>2, <2>3, <2>4 DEF IInv, TypeOK, CallOK
<1>2. CASE CopyRead
  <2>1. PICK a \in Starts, n \in 0 .. MaxSize, junk \in Byte :
          Call("read", a, n, 0, n) /\ buffer' = [k \in 1 .. n |-> junk]
    BY <1>2 DEF CopyRead
  <2>2. /\ args' \in Arguments /\ args' # NULL
        /\ call' \in Locals /\ call' # NULL /\ proc' = proc /\ call'.size = n
    BY <1>a, <2>1, CallEffect DEF Operations
  <2>3. buffer' \in Seq(Byte) /\ Len(buffer') = n
    BY <2>1, <1>a
  <2>4. page_tables' = page_tables
    BY <1>2 DEF CopyRead
  <2>5. call'.size <= Len(buffer')
    BY <1>a, <2>2, <2>3
  <2> QED
    BY <1>0, <2>2, <2>3, <2>4, <2>5 DEF IInv, TypeOK, CallOK
<1>3. CASE CopyWrite
  <2>1. PICK a \in Starts, n \in 0 .. MaxSize :
          Call("write", a, n, 0, n) /\ buffer' \in Buffers(n)
    BY <1>3 DEF CopyWrite
  <2>2. /\ args' \in Arguments /\ args' # NULL
        /\ call' \in Locals /\ call' # NULL /\ proc' = proc /\ call'.size = n
    BY <1>a, <2>1, CallEffect DEF Operations
  <2>3. buffer' \in Seq(Byte) /\ Len(buffer') = n
    BY <2>1, <1>a DEF Buffers
  <2>4. page_tables' = page_tables
    BY <1>3 DEF CopyWrite
  <2>5. call'.size <= Len(buffer')
    BY <1>a, <2>2, <2>3
  <2> QED
    BY <1>0, <2>2, <2>3, <2>4, <2>5 DEF IInv, TypeOK, CallOK
<1>4. CASE MemorySet
  <2>1. PICK a \in Starts, n \in 0 .. MaxSize, v \in Byte : Call("set", a, n, v, n)
    BY <1>4 DEF MemorySet
  <2>2. /\ args' \in Arguments /\ args' # NULL /\ args'.op = "set"
        /\ call' \in Locals /\ call' # NULL /\ proc' = proc
    BY <1>a, <2>1, CallEffect DEF Operations
  <2>3. page_tables' = page_tables /\ buffer' = buffer
    BY <1>4 DEF MemorySet
  <2> QED
    BY <1>0, <2>2, <2>3 DEF IInv, TypeOK, CallOK
<1>5. ASSUME NEW op, Loop(op), page_tables' \in [Tables -> Table \cup {NULL}],
             buffer' \in Seq(Byte), Len(buffer') = Len(buffer)
      PROVE  IInv'
  <2>1. /\ call # NULL /\ args # NULL /\ call \in Locals /\ call.size > 0 /\ Advance
        /\ args' = args /\ proc' = proc
    BY <1>0, <1>5 DEF Loop, CallOK
  <2>2. /\ call' \in Locals /\ call' # NULL
        /\ call'.size = call.size - Amount
    BY <2>1, AdvanceEffect
  <2>3. call'.size <= call.size /\ call.size \in Nat /\ call'.size \in Int
    BY <2>1, <2>2, AmountRange
  <2>4. Len(buffer) \in Nat
    BY <1>0
  <2>5. call.size <= Len(buffer) => call'.size <= Len(buffer')
    BY <1>5, <2>3, <2>4
  <2> QED
    BY <1>0, <1>5, <2>1, <2>2, <2>5 DEF IInv, TypeOK, CallOK
<1>6. CASE ReadChunk
  <2> DEFINE c == call.address
             page == page_tables[PtIdx(c)][PeIdx(c)]
  <2>1. /\ Loop("read") /\ page_tables' = page_tables
        /\ buffer' = [k \in DOMAIN buffer |->
                        IF k \in Passed + 1 .. Passed + Amount
                        THEN page[Offset(c) + k - Passed - 1] ELSE buffer[k]]
    BY <1>6 DEF ReadChunk
  <2>2. call \in Locals /\ call.size > 0 /\ Mapped(c)
    BY <1>0, <2>1 DEF Loop
  <2>3. /\ c \in Address /\ Amount \in Nat /\ Offset(c) + Amount <= PageSize
        /\ Offset(c) \in Nat /\ PageSize \in Nat
    BY <2>2, AmountRange, PageAndOffset, Sizes
  <2>4. page \in [0 .. PageSize - 1 -> Byte]
    BY <1>0, <2>2, <2>3, MappedPage DEF Page, Offsets
  <2>5. Passed \in Int /\ Len(buffer) \in Nat
    BY <1>0, <2>2 DEF Passed, Locals
  <2> HIDE DEF c, page
  <2>6. ASSUME NEW k \in 1 .. Len(buffer)
        PROVE  (IF k \in Passed + 1 .. Passed + Amount
                THEN page[Offset(c) + k - Passed - 1] ELSE buffer[k]) \in Byte
    <3>1. CASE k \in Passed + 1 .. Passed + Amount
      <4>1. Offset(c) + k - Passed - 1 \in 0 .. PageSize - 1
        BY <2>3, <2>5, <3>1
      <4> QED
        BY <2>4, <3>1, <4>1
    <3>2. CASE k \notin Passed + 1 .. Passed + Amount
      BY <1>0, <3>2
    <3> QED
      BY <3>1, <3>2
  <2>7. buffer' \in [1 .. Len(buffer) -> Byte]
    BY <1>0, <2>1, <2>6
  <2>8. buffer' \in Seq(Byte) /\ Len(buffer') = Len(buffer)
    BY <2>5, <2>7
  <2> QED
    BY <1>0, <1>5, <2>1, <2>8
<1>7. CASE WriteChunk
  <2> DEFINE chunk == SubSeq(buffer, Passed + 1, Passed + Amount)
  <2>1. /\ Loop("write") /\ page_tables' = StoreInPage(call.address, chunk)
        /\ buffer' = buffer
    BY <1>7 DEF WriteChunk
  <2>2. call # NULL /\ call \in Locals /\ call.size > 0 /\ Mapped(call.address)
    BY <1>0, <2>1 DEF Loop
  <2>3. chunk \in Seq(Byte)
    <3>1. /\ Amount \in Nat /\ Amount <= call.size /\ call.size \in Nat
          /\ call.size <= Len(buffer) /\ Len(buffer) \in Nat
      BY <1>0, <2>1, <2>2, AmountRange DEF CallOK, Loop
    <3>2. Passed + 1 \in 1 .. Len(buffer) + 1 /\ Passed + Amount \in 0 .. Len(buffer)
      BY <3>1 DEF Passed
    <3> QED
      BY <1>0, <3>1, <3>2
  <2> HIDE DEF chunk
  <2>4. page_tables' \in [Tables -> Table \cup {NULL}]
    BY <1>0, <2>1, <2>2, <2>3, AmountRange, StoreEffect
  <2> QED
    BY <1>0, <1>5, <2>1, <2>4
<1>8. CASE SetChunk
  <2> DEFINE chunk == [k \in 1 .. Amount |-> args.value]
  <2>1. /\ Loop("set") /\ page_tables' = StoreInPage(call.address, chunk)
        /\ buffer' = buffer
    BY <1>8 DEF SetChunk
  <2>2. /\ call # NULL /\ call \in Locals /\ call.size > 0 /\ Mapped(call.address)
        /\ args \in Arguments
    BY <1>0, <2>1 DEF Loop, CallOK
  <2>3. chunk \in Seq(Byte)
    BY <2>2, AmountRange DEF Arguments
  <2> HIDE DEF chunk
  <2>4. page_tables' \in [Tables -> Table \cup {NULL}]
    BY <1>0, <2>1, <2>2, <2>3, AmountRange, StoreEffect
  <2> QED
    BY <1>0, <1>5, <2>1, <2>4
<1>9. CASE Return
  BY <1>0, <1>9 DEF Return, IInv, TypeOK, CallOK
<1>10. CASE Load
  <2>1. PICK a \in Starts, w \in Widths :
          Call("load", a, w, 0, 0) /\ buffer' \in Buffers(w)
    BY <1>10 DEF Load
  <2>2. /\ args' \in Arguments /\ args' # NULL /\ args'.op = "load"
        /\ call' \in Locals /\ call' # NULL /\ proc' = proc
    BY <1>a, <2>1, CallEffect DEF Operations
  <2>3. buffer' \in Seq(Byte)
    BY <1>a, <2>1 DEF Buffers
  <2>4. page_tables' = page_tables
    BY <1>10 DEF Load
  <2> QED
    BY <1>0, <2>2, <2>3, <2>4 DEF IInv, TypeOK, CallOK
<1>11. CASE Store
  <2>1. PICK a \in Starts, w \in Widths : \E values \in Buffers(w) :
          /\ Mapped(a) /\ Call("store", a, w, 0, 0)
          /\ buffer' = values /\ page_tables' = StoreInPage(a, values)
    BY <1>11 DEF Store
  <2>2. /\ args' \in Arguments /\ args' # NULL /\ args'.op = "store"
        /\ call' \in Locals /\ call' # NULL /\ proc' = proc
    BY <1>a, <2>1, CallEffect DEF Operations
  <2>3. buffer' \in Seq(Byte)
    BY <1>a, <2>1 DEF Buffers
  <2>4. page_tables' \in [Tables -> Table \cup {NULL}]
    BY <1>0, <1>a, <2>1, <2>3, StoreEffect
  <2> QED
    BY <1>0, <2>2, <2>3, <2>4 DEF IInv, TypeOK, CallOK
<1>12. CASE CrashInLoop \/ CrashInAccess
  BY <1>0, <1>12 DEF CrashInLoop, CrashInAccess, Crash, IInv, TypeOK, CallOK
<1>13. CASE Delete
  BY <1>0, <1>13 DEF Delete, IInv, TypeOK, CallOK
<1>14. CASE UNCHANGED vars
  BY <1>0, <1>14 DEF vars, IInv, TypeOK, CallOK
<1> QED
  BY <1>1, <1>2, <1>3, <1>4, <1>6, <1>7, <1>8, <1>9, <1>10, <1>11, <1>12, <1>13,
     <1>14 DEF Next, InLoop, Terminated

(***************************************************************************)
(* The inductive invariant of the page table and the loops of memory.c.    *)
(***************************************************************************)
THEOREM Invariance == Spec => []IInv
<1> QED
  BY InitIInv, StepIInv, PTL DEF Spec

(***************************************************************************)
(* The page table, the call in progress and its buffer keep their types.   *)
(***************************************************************************)
THEOREM TypeCorrect == Spec => []TypeOK
<1>1. IInv => TypeOK
  BY DEF IInv
<1> QED
  BY <1>1, Invariance, PTL

\* While a call is under way a step returns, crashes, or has less to move.
Shrinks ==
    [][proc = "running" /\ call # NULL =>
         \/ call' = NULL
         \/ proc' = "crashed"
         \/ call' # NULL /\ call'.size < call.size]_vars

(***************************************************************************)
(* Each round of the loops of memory.c moves at least one byte: no call    *)
(* can go round for ever, whatever its range and the size of a page.       *)
(***************************************************************************)
THEOREM RoundsMove == Spec => Shrinks
<1> DEFINE Moves == proc = "running" /\ call # NULL =>
                      \/ call' = NULL
                      \/ proc' = "crashed"
                      \/ call' # NULL /\ call'.size < call.size
<1>1. IInv /\ [Next \/ Terminated]_vars => [Moves]_vars
  <2> SUFFICES ASSUME IInv, Next \/ Terminated, proc = "running", call # NULL
               PROVE  Moves
    OBVIOUS
  <2>1. InLoop
    BY DEF Next, Terminated, Allocate, CopyRead, CopyWrite, MemorySet, Call, Load,
           Store, CrashInAccess, Delete
  <2>2. CASE Return \/ CrashInLoop
    BY <2>2 DEF Return, CrashInLoop, Crash
  <2>3. CASE ReadChunk \/ WriteChunk \/ SetChunk
    <3>1. call \in Locals /\ call.size > 0 /\ Advance
      BY <2>3 DEF ReadChunk, WriteChunk, SetChunk, Loop, IInv, TypeOK
    <3>2. /\ call' \in Locals /\ call'.size = call.size - Amount
          /\ Amount \in Nat /\ Amount > 0 /\ call.size \in Nat
      BY <3>1, AdvanceEffect, AmountRange, PagingAssumption DEF Locals
    <3>3. call' # NULL
      BY <3>2, PagingAssumption
    <3> QED
      BY <3>2, <3>3
  <2> QED
    BY <2>1, <2>2, <2>3 DEF InLoop
<1>2. [][Moves]_vars => Shrinks
  BY PTL DEF Shrinks
<1> QED
  BY <1>1, <1>2, Invariance, PTL DEF Spec

------------------------------------------------------------------------------
\* Refinement.

Map == {x \in Address : Mapped(x)}
MapNext == {x \in Address : Mapped(x)'}

(***************************************************************************)
(* Between calls the abstract memory is the bytes of the pages.            *)
(***************************************************************************)
LEMMA IdleView ==
  ASSUME proc = "running", call = NULL
  PROVE  /\ AbsState = "idle" /\ AbsRequest = NULL /\ AbsBuffer = buffer
         /\ AbsBytes = [a \in Map |-> ByteAt(a)]
<1>1. ~Doomed /\ AbsState = "idle"
  BY DEF Doomed, AbsState
<1>2. AbsBytes = [a \in Map |-> FinalByte(a)]
  BY <1>1 DEF AbsBytes, Map
<1>3. \A a : FinalByte(a) = ByteAt(a)
  BY DEF FinalByte
<1> QED
  BY <1>1, <1>2, <1>3 DEF AbsRequest, AbsBuffer

(***************************************************************************)
(* Once a call is doomed, or the program over, nothing is left to see.     *)
(***************************************************************************)
LEMMA EndedView ==
  /\ proc # "running" \/ Doomed =>
       /\ AbsState = "ended" /\ AbsRequest = NULL
       /\ AbsBuffer = <<>> /\ AbsBytes = <<>>
  /\ (proc # "running" \/ Doomed)' =>
       /\ AbsState' = "ended" /\ AbsRequest' = NULL
       /\ AbsBuffer' = <<>> /\ AbsBytes' = <<>>
BY DEF AbsState, AbsRequest, AbsBuffer, AbsBytes

(***************************************************************************)
(* While a call runs, and will not crash, what it has left is done.        *)
(***************************************************************************)
LEMMA BusyView ==
  /\ proc = "running" /\ call # NULL /\ ~Doomed =>
       /\ AbsState = "busy" /\ AbsRequest = args
       /\ AbsBytes = [a \in Map |-> FinalByte(a)]
  /\ proc' = "running" /\ call' # NULL /\ ~Doomed' =>
       /\ AbsState' = "busy" /\ AbsRequest' = args'
       /\ AbsBytes' = [a \in MapNext |-> FinalByte(a)']
BY DEF AbsState, AbsRequest, AbsBytes, Map, MapNext

(***************************************************************************)
(* The offset of an address in a range that may wrap.                      *)
(***************************************************************************)
LEMMA OffsetInRange ==
  ASSUME NEW a \in Address, NEW k \in 0 .. AddressCard - 1
  PROVE  Wrap(a + k) \in Address /\ Wrap(Wrap(a + k) - a) = k
<1>1. AddressCard \in Nat /\ a \in Nat /\ a < AddressCard
  BY Sizes, PageAndOffset
<1>2. CASE a + k < AddressCard
  <2>1. Wrap(a + k) = a + k
    BY <1>1, <1>2, WrapOnce DEF Address
  <2>2. (a + k) - a = k /\ k \in Address
    BY <1>1 DEF Address
  <2> QED
    BY <1>1, <2>1, <2>2, WrapOnce
<1>3. CASE AddressCard <= a + k
  <2>1. Wrap(a + k) = a + k - AddressCard
    BY <1>1, <1>3, WrapOnce
  <2> DEFINE d == (a + k - AddressCard) - a
  <2>2. d \in Int /\ d < 0 /\ -AddressCard <= d /\ d + AddressCard = k
    BY <1>1
  <2> HIDE DEF d
  <2>3. Wrap(d) = k
    BY <2>2, WrapOnce
  <2> QED
    BY <1>1, <2>1, <2>3, WrapOnce DEF d
<1> QED
  BY <1>1, <1>2, <1>3

(***************************************************************************)
(* What is left of a call that starts is its whole range.                  *)
(***************************************************************************)
LEMMA StartRange ==
  ASSUME NEW a \in Address, NEW n \in 0 .. MaxSize,
         call'.address = a, call'.size = n
  PROVE  /\ Remaining' = Bytes!Span(a, n) /\ Remaining' \subseteq Address
         /\ \A x \in Remaining' : Wrap(x - a) \in 0 .. n - 1
<1>1. Remaining' = {Wrap(a + k) : k \in 0 .. n - 1}
  BY DEF Remaining
<1>2. Bytes!Span(a, n) = {Wrap(a + k) : k \in 0 .. n - 1}
  BY DEF Bytes!Span, Bytes!Wrap, Wrap
<1>3. MaxSize \in Nat /\ MaxSize <= AddressCard /\ AddressCard \in Nat
  BY PagingAssumption, Sizes
<1>4. ASSUME NEW k \in 0 .. n - 1
      PROVE  Wrap(a + k) \in Address /\ Wrap(Wrap(a + k) - a) = k
  BY <1>3, OffsetInRange
<1> QED
  BY <1>1, <1>2, <1>4

(***************************************************************************)
(* Bytes's operators of addresses are those of this module.                *)
(***************************************************************************)
LEMMA BytesAddresses ==
  /\ Bytes!Address = Address
  /\ \A a : Bytes!Wrap(a) = Wrap(a) /\ Bytes!PageOf(a) = PageOf(a)
BY DEF Bytes!Address, Address, Bytes!Wrap, Wrap, Bytes!PageOf, PageOf

(***************************************************************************)
(* A call that will touch an address that is not mapped is a fault.        *)
(***************************************************************************)
LEMMA DoomedCall ==
  ASSUME proc = "running", call = NULL, call' # NULL, page_tables' = page_tables,
         Remaining' \subseteq Address, Doomed'
  PROVE  Bytes!Fault
<1>1. PICK x \in Remaining' : ~Mapped(x)'
  BY DEF Doomed
<1>2. x \in Address /\ ~Mapped(x)
  BY <1>1 DEF Mapped
<1>3. DOMAIN AbsBytes = Map /\ AbsState = "idle"
  BY IdleView
<1>4. Map # Address
  BY <1>2 DEF Map
<1> QED
  BY <1>3, <1>4, EndedView, BytesAddresses DEF Bytes!Fault, Bytes!End

(***************************************************************************)
(* A call that will not crash is served.                                   *)
(***************************************************************************)
LEMMA Served ==
  ASSUME NEW op \in Operations, NEW a \in Address, NEW n \in 0 .. AddressCard,
         NEW v \in Byte, NEW left \in 0 .. MaxSize, Call(op, a, n, v, left),
         ~Doomed', NEW sizes, n \in sizes
  PROVE  /\ Bytes!Serve(op, sizes) /\ AbsRequest' = args'
         /\ AbsBytes' = [x \in MapNext |-> FinalByte(x)']
<1>1. /\ proc = "running" /\ call = NULL /\ proc' = proc /\ call' # NULL
      /\ args' = [op |-> op, address |-> a, size |-> n, value |-> v]
  BY CallEffect
<1>2. AbsState = "idle"
  BY <1>1, IdleView
<1>3. /\ AbsState' = "busy" /\ AbsRequest' = args'
      /\ AbsBytes' = [x \in MapNext |-> FinalByte(x)']
  BY <1>1, BusyView
<1>4. args' \in [op : {op}, address : Address, size : sizes, value : Byte]
  BY <1>1
<1> QED
  BY <1>2, <1>3, <1>4, BytesAddresses DEF Bytes!Serve

(***************************************************************************)
(* A call without a loop leaves nothing to do.                             *)
(***************************************************************************)
LEMMA NothingLeft ==
  ASSUME call'.size = 0
  PROVE  /\ Remaining' = {} /\ ~Doomed' /\ \A x : FinalByte(x)' = ByteAt(x)'
<1>1. Remaining' = {}
  BY DEF Remaining
<1> QED
  BY <1>1 DEF Doomed, FinalByte

(***************************************************************************)
(* A buffer is what it is unless a read is in progress.                    *)
(***************************************************************************)
LEMMA BufferView ==
  /\ proc = "running" /\ call # NULL /\ ~Doomed /\ args.op # "read" =>
       AbsBuffer = buffer
  /\ proc' = "running" /\ call' # NULL /\ ~Doomed' /\ args'.op # "read" =>
       AbsBuffer' = buffer'
BY BusyView DEF AbsBuffer

(***************************************************************************)
(* memory_allocate maps the pages of its range, with zeros, and no others. *)
(***************************************************************************)
LEMMA AllocateRefines == IInv /\ Allocate => Bytes!Allocate
<1> SUFFICES ASSUME IInv, Allocate PROVE Bytes!Allocate
  OBVIOUS
<1>1. PICK a \in Starts, n \in 0 .. AddressCard :
        Call("allocate", a, n, 0, 0) /\ page_tables' = Allocated(a, n)
  BY DEF Allocate
<1>2. /\ page_tables \in [Tables -> Table \cup {NULL}]
      /\ a \in Address /\ n \in Nat /\ 0 \in Byte /\ 0 \in 0 .. MaxSize
      /\ AddressCard \in Nat /\ n <= AddressCard
  BY PagingAssumption, Sizes DEF IInv, TypeOK
<1>3. /\ proc = "running" /\ call = NULL /\ proc' = proc /\ call' # NULL
      /\ args'.address = a /\ args'.size = n /\ args'.op = "allocate"
      /\ call'.size = 0
  BY <1>1, <1>2, CallEffect DEF Operations
<1>4. ~Doomed' /\ \A x : FinalByte(x)' = ByteAt(x)'
  BY <1>3, NothingLeft
<1>5. /\ Bytes!Serve("allocate", 0 .. AddressCard) /\ AbsRequest' = args'
      /\ AbsBytes' = [x \in MapNext |-> FinalByte(x)']
  BY <1>1, <1>2, <1>4, Served DEF Operations
<1>6. AbsBytes' = [x \in MapNext |-> ByteAt(x)']
  BY <1>4, <1>5
<1>7. AbsBytes = [x \in Map |-> ByteAt(x)] /\ AbsBuffer = buffer
  BY <1>3, IdleView
<1>8. AbsBuffer' = AbsBuffer
  BY <1>3, <1>4, <1>7, BufferView DEF Allocate
<1>9. \A b \in Address :
         /\ Mapped(b)' <=> Mapped(b) \/ Filling(a, n, b)
         /\ Mapped(b)' => ByteAt(b)' = IF Mapped(b) THEN ByteAt(b) ELSE 0
  BY <1>1, <1>2, AllocateEffect
<1>10. ASSUME NEW P, \A b \in Address : PageOf(b) \in P <=> Filling(a, n, b)
       PROVE  Bytes!MapPages(P)
  <2> DEFINE D == Map \cup {y \in Address : PageOf(y) \in P}
  <2>1. MapNext = D
    BY <1>9, <1>10 DEF Map, MapNext
  <2>2. \A x \in D : ByteAt(x)' = IF x \in Map THEN AbsBytes[x] ELSE 0
    BY <1>7, <1>9, <2>1 DEF Map, MapNext
  <2>3. DOMAIN AbsBytes = Map
    BY <1>7
  <2>4. AbsBytes' = [x \in D |-> IF x \in Map THEN AbsBytes[x] ELSE 0]
    BY <1>6, <2>1, <2>2
  <2> QED
    BY <2>3, <2>4, BytesAddresses DEF Bytes!MapPages
<1> DEFINE end == LastByte(a, n)
<1>11. \A b \in Address :
          Filling(a, n, b) <=> PageOf(a) <= PageOf(b) /\ PageOf(b) <= PageOf(end)
  BY <1>2, FillingRange
<1>12. CASE n > 0 /\ a + n <= AddressCard
  <2>1. a \in Nat /\ a + n - 1 \in Address
    BY <1>2, <1>12, PageAndOffset DEF Address
  <2>2. end = a + n - 1 /\ end \in Address /\ a <= end
    BY <1>2, <1>12, <2>1, WrapOnce DEF LastByte
  <2> HIDE DEF end
  <2>3. Bytes!Span(a, n) = a .. end
    <3>1. \A k \in 0 .. n - 1 : Wrap(a + k) = a + k
      <4> SUFFICES ASSUME NEW k \in 0 .. n - 1 PROVE Wrap(a + k) = a + k
        OBVIOUS
      <4>1. a + k \in Address
        BY <1>2, <1>12, <2>1 DEF Address
      <4> QED
        BY <2>1, <4>1, WrapOnce
    <3>2. Bytes!Span(a, n) = {a + k : k \in 0 .. n - 1}
      BY <3>1, BytesAddresses DEF Bytes!Span
    <3>3. \A x \in a .. end : x - a \in 0 .. n - 1 /\ x = a + (x - a)
      BY <1>2, <2>1, <2>2
    <3>4. \A k \in 0 .. n - 1 : a + k \in a .. end
      BY <1>2, <2>1, <2>2
    <3> QED
      BY <3>2, <3>3, <3>4
  <2> DEFINE P == {Bytes!PageOf(x) : x \in Bytes!Span(a, n)}
  <2>4. P = {PageOf(x) : x \in a .. end}
    BY <2>3, BytesAddresses
  <2>5. ASSUME NEW b \in Address PROVE PageOf(b) \in P <=> Filling(a, n, b)
    <3>1. PageOf(b) \in P <=> \E x \in a .. end : PageOf(x) = PageOf(b)
      BY <2>4
    <3> HIDE DEF P
    <3> QED
      BY <1>2, <1>11, <2>2, <3>1, PagesOfRange
  <2> HIDE DEF P
  <2>6. Bytes!MapPages(P)
    BY <1>10, <2>5
  <2> QED
    BY <1>3, <1>5, <1>8, <1>12, <2>6 DEF Bytes!Allocate, P
<1>13. CASE ~(n > 0 /\ a + n <= AddressCard)
  <2> DEFINE P == {PageOf(x) : x \in {y \in Address : Filling(a, n, y)}}
  <2>1. ASSUME NEW b \in Address PROVE PageOf(b) \in P <=> Filling(a, n, b)
    <3>1. ASSUME NEW y \in Address, Filling(a, n, y), PageOf(y) = PageOf(b)
          PROVE  Filling(a, n, b)
      BY <1>11, <3>1
    <3> QED
      BY <3>1
  <2>2. P \in SUBSET {Bytes!PageOf(x) : x \in Bytes!Address}
    BY BytesAddresses
  <2> HIDE DEF P
  <2>3. Bytes!MapPages(P)
    BY <1>10, <2>1
  <2> QED
    BY <1>3, <1>5, <1>8, <1>13, <2>2, <2>3 DEF Bytes!Allocate
<1> QED
  BY <1>12, <1>13

(***************************************************************************)
(* memory_copy_read gives the bytes of its range, or faults.               *)
(***************************************************************************)
LEMMA CopyReadRefines == IInv /\ CopyRead => Bytes!Read \/ Bytes!Fault
<1> SUFFICES ASSUME IInv, CopyRead PROVE Bytes!Read \/ Bytes!Fault
  OBVIOUS
<1>1. PICK a \in Starts, n \in 0 .. MaxSize, junk \in Byte :
        Call("read", a, n, 0, n) /\ buffer' = [k \in 1 .. n |-> junk]
  BY DEF CopyRead
<1>2. page_tables' = page_tables
  BY DEF CopyRead
<1>3. /\ a \in Address /\ n \in Nat /\ n \in 0 .. AddressCard /\ 0 \in Byte
  BY PagingAssumption, Sizes
<1>4. /\ proc = "running" /\ call = NULL /\ proc' = proc /\ call' # NULL
      /\ args'.address = a /\ args'.size = n /\ args'.op = "read"
      /\ call'.address = a /\ call'.size = n
  BY <1>1, <1>3, CallEffect DEF Operations
<1>5. Remaining' = Bytes!Span(a, n) /\ Remaining' \subseteq Address
  BY <1>3, <1>4, StartRange
<1>6. CASE Doomed'
  BY <1>2, <1>4, <1>5, <1>6, DoomedCall
<1>7. CASE ~Doomed'
  <2>1. /\ Bytes!Serve("read", 0 .. MaxSize) /\ AbsRequest' = args'
        /\ AbsBytes' = [x \in MapNext |-> FinalByte(x)']
    BY <1>1, <1>3, <1>7, Served DEF Operations
  <2>2. AbsBytes = [x \in Map |-> ByteAt(x)] /\ DOMAIN AbsBytes = Map
    BY <1>4, IdleView
  <2>3. \A x \in Address : (Mapped(x)' <=> Mapped(x)) /\ ByteAt(x)' = ByteAt(x)
    BY <1>2 DEF Mapped, ByteAt
  <2>4. \A x : FinalByte(x)' = ByteAt(x)'
    BY <1>4 DEF FinalByte
  <2>5. MapNext = Map
    BY <2>3 DEF Map, MapNext
  <2>6. AbsBytes' = AbsBytes
    <3>1. \A x \in Map : FinalByte(x)' = ByteAt(x)
      BY <2>3, <2>4 DEF Map
    <3> QED
      BY <2>1, <2>2, <2>5, <3>1
  <2>7. Remaining' \subseteq Map
    BY <1>4, <1>5, <1>7, <2>3 DEF Doomed, Map
  <2>8. Bytes!Reaches(AbsRequest')
    BY <1>4, <1>5, <2>1, <2>2, <2>7 DEF Bytes!Reaches
  <2>9. AbsBuffer' = [k \in 1 .. n |-> AbsBytes[Wrap(a + k - 1)]]
    <3>1. Len(buffer') = n /\ DOMAIN buffer' = 1 .. n /\ Passed' = 0
      <4>1. buffer' \in Seq(Byte) /\ Len(buffer') = n /\ DOMAIN buffer' = 1 .. n
        BY <1>1, <1>3
      <4> QED
        BY <1>3, <1>4, <4>1 DEF Passed
    <3>2. AbsBuffer' = [k \in DOMAIN buffer' |->
               IF k > Passed' THEN ByteAt(Wrap(call.address + k - Passed - 1))'
               ELSE buffer'[k]]
      BY <1>4, <1>7, BusyView DEF AbsBuffer
    <3>3. ASSUME NEW k \in 1 .. n
          PROVE  /\ k > Passed'
                 /\ call'.address + k - Passed' - 1 = a + k - 1
                 /\ Wrap(a + k - 1) \in Map
      <4>1. a \in Nat /\ k - 1 \in 0 .. n - 1 /\ a + k - 1 = a + (k - 1)
        BY <1>3, PageAndOffset
      <4>2. Wrap(a + (k - 1)) \in Bytes!Span(a, n)
        BY <4>1, BytesAddresses DEF Bytes!Span
      <4> QED
        BY <1>3, <1>4, <1>5, <2>7, <3>1, <4>1, <4>2
    <3>4. ASSUME NEW k \in 1 .. n
          PROVE  (IF k > Passed' THEN ByteAt(Wrap(call.address + k - Passed - 1))'
                  ELSE buffer'[k]) = AbsBytes[Wrap(a + k - 1)]
      <4>1. ByteAt(Wrap(a + k - 1))' = AbsBytes[Wrap(a + k - 1)]
        BY <2>2, <2>3, <3>3 DEF Map
      <4>2. ByteAt(Wrap(call.address + k - Passed - 1))' = ByteAt(Wrap(a + k - 1))'
        BY <3>3 DEF ByteAt, Wrap
      <4> QED
        BY <3>3, <4>1, <4>2
    <3> QED
      BY <3>1, <3>2, <3>4
  <2> QED
    BY <1>4, <2>1, <2>6, <2>8, <2>9, BytesAddresses DEF Bytes!Read
<1> QED
  BY <1>6, <1>7

(***************************************************************************)
(* Tables that do not change map the same addresses to the same bytes.     *)
(***************************************************************************)
LEMMA SameTables ==
  ASSUME page_tables' = page_tables
  PROVE  /\ MapNext = Map
         /\ \A x : (Mapped(x)' <=> Mapped(x)) /\ ByteAt(x)' = ByteAt(x)
BY DEF Mapped, ByteAt, Map, MapNext

(***************************************************************************)
(* memory_copy_write puts its bytes, or faults.                            *)
(***************************************************************************)
LEMMA CopyWriteRefines == IInv /\ CopyWrite => Bytes!Write \/ Bytes!Fault
<1> SUFFICES ASSUME IInv, CopyWrite PROVE Bytes!Write \/ Bytes!Fault
  OBVIOUS
<1>1. PICK a \in Starts, n \in 0 .. MaxSize :
        Call("write", a, n, 0, n) /\ buffer' \in Buffers(n)
  BY DEF CopyWrite
<1>2. page_tables' = page_tables
  BY DEF CopyWrite
<1>3. /\ a \in Address /\ n \in Nat /\ n \in 0 .. AddressCard /\ 0 \in Byte
  BY PagingAssumption, Sizes
<1>4. /\ proc = "running" /\ call = NULL /\ proc' = proc /\ call' # NULL
      /\ args'.address = a /\ args'.size = n /\ args'.op = "write"
      /\ call'.address = a /\ call'.size = n
  BY <1>1, <1>3, CallEffect DEF Operations
<1>5. /\ Remaining' = Bytes!Span(a, n) /\ Remaining' \subseteq Address
      /\ \A x \in Remaining' : Wrap(x - a) \in 0 .. n - 1
  BY <1>3, <1>4, StartRange
<1>6. CASE Doomed'
  BY <1>2, <1>4, <1>5, <1>6, DoomedCall
<1>7. CASE ~Doomed'
  <2>1. /\ Bytes!Serve("write", 0 .. MaxSize) /\ AbsRequest' = args'
        /\ AbsBytes' = [x \in MapNext |-> FinalByte(x)']
    BY <1>1, <1>3, <1>7, Served DEF Operations
  <2>2. AbsBytes = [x \in Map |-> ByteAt(x)] /\ DOMAIN AbsBytes = Map
    BY <1>4, IdleView
  <2>3. MapNext = Map /\ \A x : ByteAt(x)' = ByteAt(x)
    BY <1>2, SameTables
  <2>4. Remaining' \subseteq Map
    BY <1>2, <1>4, <1>5, <1>7, SameTables DEF Doomed, Map
  <2>5. Bytes!Reaches(AbsRequest')
    BY <1>4, <1>5, <2>1, <2>2, <2>4 DEF Bytes!Reaches
  <2>6. AbsBuffer' = buffer' /\ AbsBuffer' \in Bytes!Buffers(n)
    BY <1>1, <1>4, <1>7, BufferView DEF Bytes!Buffers, Buffers
  <2>7. Passed' = 0
    <3>1. Len(buffer') = n
      BY <1>1, <1>3 DEF Buffers
    <3> QED
      BY <1>3, <1>4, <3>1 DEF Passed
  <2>8. ASSUME NEW x \in Map
        PROVE  FinalByte(x)' = IF x \in Bytes!Span(a, n)
                               THEN AbsBuffer'[Wrap(x - a) + 1] ELSE AbsBytes[x]
    <3>1. CASE x \in Remaining'
      <4>1. FinalByte(x)' = buffer'[Passed' + Wrap(x - call'.address) + 1]
        BY <1>4, <3>1 DEF FinalByte, Wrap
      <4>2. Passed' + Wrap(x - call'.address) = Wrap(x - a)
        BY <1>3, <1>4, <1>5, <2>7, <3>1
      <4> QED
        BY <1>5, <2>6, <3>1, <4>1, <4>2
    <3>2. CASE x \notin Remaining'
      <4>1. FinalByte(x)' = ByteAt(x)'
        BY <3>2 DEF FinalByte
      <4> QED
        BY <1>5, <2>2, <2>3, <3>2, <4>1
    <3> QED
      BY <3>1, <3>2
  <2>9. Bytes!Put(a, AbsBuffer', n)
    <3>1. AbsBytes' = [x \in Map |-> IF x \in Bytes!Span(a, n)
                             THEN AbsBuffer'[Wrap(x - a) + 1] ELSE AbsBytes[x]]
      BY <2>1, <2>3, <2>8
    <3> QED
      BY <2>2, <3>1, BytesAddresses DEF Bytes!Put
  <2> QED
    BY <1>4, <2>1, <2>5, <2>6, <2>9 DEF Bytes!Write
<1> QED
  BY <1>6, <1>7

(***************************************************************************)
(* memory_set puts its value all over its range, or faults.                *)
(***************************************************************************)
LEMMA MemorySetRefines == IInv /\ MemorySet => Bytes!Set \/ Bytes!Fault
<1> SUFFICES ASSUME IInv, MemorySet PROVE Bytes!Set \/ Bytes!Fault
  OBVIOUS
<1>1. PICK a \in Starts, n \in 0 .. MaxSize, v \in Byte : Call("set", a, n, v, n)
  BY DEF MemorySet
<1>2. page_tables' = page_tables /\ buffer' = buffer
  BY DEF MemorySet
<1>3. /\ a \in Address /\ n \in Nat /\ n \in 0 .. AddressCard
  BY PagingAssumption, Sizes
<1>4. /\ proc = "running" /\ call = NULL /\ proc' = proc /\ call' # NULL
      /\ args'.address = a /\ args'.size = n /\ args'.op = "set" /\ args'.value = v
      /\ call'.address = a /\ call'.size = n
  BY <1>1, <1>3, CallEffect DEF Operations
<1>5. /\ Remaining' = Bytes!Span(a, n) /\ Remaining' \subseteq Address
      /\ \A x \in Remaining' : Wrap(x - a) \in 0 .. n - 1
  BY <1>3, <1>4, StartRange
<1>6. CASE Doomed'
  BY <1>2, <1>4, <1>5, <1>6, DoomedCall
<1>7. CASE ~Doomed'
  <2> DEFINE values == [k \in 1 .. n |-> v]
  <2>1. /\ Bytes!Serve("set", 0 .. MaxSize) /\ AbsRequest' = args'
        /\ AbsBytes' = [x \in MapNext |-> FinalByte(x)']
    BY <1>1, <1>3, <1>7, Served DEF Operations
  <2>2. /\ AbsBytes = [x \in Map |-> ByteAt(x)] /\ DOMAIN AbsBytes = Map
        /\ AbsBuffer = buffer
    BY <1>4, IdleView
  <2>3. MapNext = Map /\ \A x : ByteAt(x)' = ByteAt(x)
    BY <1>2, SameTables
  <2>4. Remaining' \subseteq Map
    BY <1>2, <1>4, <1>5, <1>7, SameTables DEF Doomed, Map
  <2>5. Bytes!Reaches(AbsRequest')
    BY <1>4, <1>5, <2>1, <2>2, <2>4 DEF Bytes!Reaches
  <2>6. AbsBuffer' = AbsBuffer
    BY <1>2, <1>4, <1>7, <2>2, BufferView
  <2>7. ASSUME NEW x \in Map
        PROVE  FinalByte(x)' = IF x \in Bytes!Span(a, n)
                               THEN values[Wrap(x - a) + 1] ELSE AbsBytes[x]
    <3>1. CASE x \in Remaining'
      <4>1. FinalByte(x)' = v
        BY <1>4, <3>1 DEF FinalByte
      <4>2. Wrap(x - a) + 1 \in 1 .. n
        BY <1>3, <1>5, <3>1
      <4> QED
        BY <1>5, <3>1, <4>1, <4>2
    <3>2. CASE x \notin Remaining'
      <4>1. FinalByte(x)' = ByteAt(x)'
        BY <3>2 DEF FinalByte
      <4> QED
        BY <1>5, <2>2, <2>3, <3>2, <4>1
    <3> QED
      BY <3>1, <3>2
  <2>8. Bytes!Put(a, values, n)
    <3>1. AbsBytes' = [x \in Map |-> IF x \in Bytes!Span(a, n)
                             THEN values[Wrap(x - a) + 1] ELSE AbsBytes[x]]
      BY <2>1, <2>3, <2>7
    <3> QED
      BY <2>2, <3>1, BytesAddresses DEF Bytes!Put
  <2> QED
    BY <1>4, <2>1, <2>5, <2>6, <2>8 DEF Bytes!Set
<1> QED
  BY <1>6, <1>7

(***************************************************************************)
(* The end of a call, and of the program.                                  *)
(***************************************************************************)
LEMMA ReturnRefines == IInv /\ Return => Bytes!Done
<1> SUFFICES ASSUME IInv, Return PROVE Bytes!Done
  OBVIOUS
<1>1. /\ proc = "running" /\ proc' = "running" /\ call # NULL /\ call.size = 0
      /\ call' = NULL /\ buffer' = <<>> /\ page_tables' = page_tables
  BY DEF Return
<1>2. Remaining = {}
  BY <1>1 DEF Remaining
<1>3. ~Doomed /\ \A x : FinalByte(x) = ByteAt(x)
  BY <1>2 DEF Doomed, FinalByte
<1>4. AbsState = "busy" /\ AbsBytes = [x \in Map |-> ByteAt(x)]
  BY <1>1, <1>3, BusyView
<1>5. AbsState' = "idle" /\ AbsRequest' = NULL /\ AbsBuffer' = <<>>
  BY <1>1 DEF AbsState, Doomed, AbsRequest, AbsBuffer
<1>6. AbsBytes' = [x \in MapNext |-> ByteAt(x)']
  BY <1>1, <1>5 DEF AbsBytes, FinalByte, MapNext
<1>7. AbsBytes' = AbsBytes
  BY <1>1, <1>4, <1>6, SameTables
<1> QED
  BY <1>4, <1>5, <1>7 DEF Bytes!Done

(***************************************************************************)
(* A crash outside the loops touches an address that is not mapped.        *)
(***************************************************************************)
LEMMA CrashInAccessRefines == CrashInAccess => Bytes!Fault
<1> SUFFICES ASSUME CrashInAccess PROVE Bytes!Fault
  OBVIOUS
<1>1. /\ proc = "running" /\ call = NULL /\ proc' = "crashed"
      /\ \E a \in Address : ~Mapped(a)
  BY DEF CrashInAccess, Crash
<1>2. AbsState = "idle" /\ DOMAIN AbsBytes = Map /\ Map # Address
  BY <1>1, IdleView DEF Map
<1> QED
  BY <1>1, <1>2, EndedView, BytesAddresses DEF Bytes!Fault, Bytes!End

(***************************************************************************)
(* memory_delete ends the program.                                         *)
(***************************************************************************)
LEMMA DeleteRefines == Delete => Bytes!Delete
<1> SUFFICES ASSUME Delete PROVE Bytes!Delete
  OBVIOUS
<1>1. proc = "running" /\ call = NULL /\ proc' = "deleted"
  BY DEF Delete
<1> QED
  BY <1>1, IdleView, EndedView DEF Bytes!Delete, Bytes!End

(***************************************************************************)
(* A loop that crashes was bound to.                                       *)
(***************************************************************************)
LEMMA CrashInLoopRefines == IInv /\ CrashInLoop => UNCHANGED Bytes!vars
<1> SUFFICES ASSUME IInv, CrashInLoop PROVE UNCHANGED Bytes!vars
  OBVIOUS
<1>1. /\ call # NULL /\ call \in Locals /\ call.size > 0
      /\ ~Mapped(call.address) /\ proc' = "crashed"
  BY DEF CrashInLoop, Crash, IInv, TypeOK
<1>2. call.address \in Address /\ call.address \in Nat /\ call.size \in Nat
  BY <1>1, AmountRange, PageAndOffset
<1>3. call.address \in Remaining
  <2>1. 0 \in 0 .. call.size - 1 /\ Wrap(call.address + 0) = call.address
    BY <1>1, <1>2, WrapOnce
  <2> QED
    BY <2>1 DEF Remaining
<1>4. Doomed
  BY <1>1, <1>3 DEF Doomed
<1> QED
  BY <1>1, <1>4, EndedView DEF Bytes!vars

(***************************************************************************)
(* The addresses of a range that stays in one page.                        *)
(***************************************************************************)
LEMMA InPage ==
  ASSUME NEW a \in Address, NEW m \in Nat, Offset(a) + m <= PageSize
  PROVE  /\ \A k \in 0 .. m - 1 : Wrap(a + k) = a + k
         /\ a .. a + m - 1 \subseteq Address
         /\ \A b \in a .. a + m - 1 : /\ Wrap(b - a) = b - a
                                      /\ b - a = Offset(b) - Offset(a)
                                      /\ Mapped(b) <=> Mapped(a)
         /\ \A b \in Address :
              b \in a .. a + m - 1 <=>
                /\ PageOf(b) = PageOf(a)
                /\ Offset(b) \in Offset(a) .. Offset(a) + m - 1
<1>1. /\ a \in Nat /\ a < AddressCard /\ Offset(a) \in Nat /\ PageOf(a) \in Nat
      /\ PageSize \in Nat /\ AddressCard \in Nat
      /\ a = PageSize * PageOf(a) + Offset(a)
      /\ PageSize * PageOf(a) \in Int
  BY PageAndOffset, ProductGrows, Sizes
<1>2. ASSUME NEW k \in 0 .. m - 1
      PROVE  /\ a + k \in Address /\ Wrap(a + k) = a + k
             /\ PtIdx(a + k) = PtIdx(a) /\ PeIdx(a + k) = PeIdx(a)
             /\ Offset(a + k) = Offset(a) + k
  <2>1. k \in Nat /\ Offset(a) + k < PageSize
    BY <1>1
  <2> QED
    BY <2>1, WithinPage
<1>3. ASSUME NEW b \in a .. a + m - 1
      PROVE  /\ b \in Address /\ Wrap(b - a) = b - a /\ PageOf(b) = PageOf(a)
             /\ b - a = Offset(b) - Offset(a) /\ Offset(b) = Offset(a) + (b - a)
             /\ Mapped(b) <=> Mapped(a)
  <2> DEFINE k == b - a
  <2>1. k \in 0 .. m - 1 /\ b = a + k
    BY <1>1
  <2> HIDE DEF k
  <2>2. /\ b \in Address /\ PtIdx(b) = PtIdx(a) /\ PeIdx(b) = PeIdx(a)
        /\ Offset(b) = Offset(a) + k
    BY <1>2, <2>1
  <2>3. k \in Address /\ k \in Int
    BY <1>1, <2>1, <2>2 DEF Address
  <2>4. Wrap(k) = k
    BY <2>3, WrapOnce
  <2>5. Offset(b) - Offset(a) = k
    BY <1>1, <2>2, <2>3
  <2>6. PageOf(b) = PageOf(a)
    BY <2>2, SameEntry
  <2> QED
    BY <2>2, <2>4, <2>5, <2>6 DEF Mapped, k
<1>4. ASSUME NEW b \in Address
      PROVE  b \in a .. a + m - 1 <=>
                /\ PageOf(b) = PageOf(a)
                /\ Offset(b) \in Offset(a) .. Offset(a) + m - 1
  <2>1. /\ b \in Nat /\ Offset(b) \in Nat
        /\ b = PageSize * PageOf(b) + Offset(b)
    BY PageAndOffset
  <2>2. ASSUME b \in a .. a + m - 1
        PROVE  /\ PageOf(b) = PageOf(a)
               /\ Offset(b) \in Offset(a) .. Offset(a) + m - 1
    BY <1>1, <1>3, <2>1, <2>2
  <2>3. ASSUME PageOf(b) = PageOf(a), Offset(b) \in Offset(a) .. Offset(a) + m - 1
        PROVE  b \in a .. a + m - 1
    BY <1>1, <2>1, <2>3
  <2> QED
    BY <2>2, <2>3
<1> QED
  BY <1>2, <1>3, <1>4

(***************************************************************************)
(* The part of a load or store that lies in the page of its first byte.    *)
(***************************************************************************)
LEMMA ExactPart ==
  ASSUME NEW r, r.address \in Address, r.size \in Widths
  PROVE  /\ Bytes!Exact(r) \in Nat /\ r.size \in Nat
         /\ Bytes!Exact(r) <= r.size
         /\ Offset(r.address) + Bytes!Exact(r) <= PageSize
         /\ \A j \in Nat : j < r.size /\ Offset(r.address) + j < PageSize
                            => j < Bytes!Exact(r)
<1> DEFINE o == Offset(r.address)
<1>1. o \in 0 .. PageSize - 1 /\ PageSize \in Nat
  BY PageAndOffset, Sizes DEF Offsets
<1>2. r.size \in Nat
  <2>1. Widths \subseteq 1 .. PageSize
    BY PagingAssumption
  <2>2. 1 .. PageSize \subseteq Nat
    BY <1>1
  <2> QED
    BY <2>1, <2>2
<1>3. Bytes!Exact(r) = IF r.size > PageSize - o THEN PageSize - o ELSE r.size
  BY DEF Bytes!Exact, Offset
<1> HIDE DEF o
<1>4. /\ Bytes!Exact(r) \in Nat /\ Bytes!Exact(r) <= r.size
      /\ o + Bytes!Exact(r) <= PageSize
      /\ \A j \in Nat : j < r.size /\ o + j < PageSize => j < Bytes!Exact(r)
  BY <1>1, <1>2, <1>3
<1> QED
  BY <1>2, <1>4 DEF o

(***************************************************************************)
(* The range of such a part.                                               *)
(***************************************************************************)
LEMMA SpanInPage ==
  ASSUME NEW a \in Address, NEW m \in Nat, Offset(a) + m <= PageSize
  PROVE  Bytes!Span(a, m) = a .. a + m - 1
<1>1. \A k \in 0 .. m - 1 : Bytes!Wrap(a + k) = a + k
  BY InPage, BytesAddresses
<1>2. Bytes!Span(a, m) = {a + k : k \in 0 .. m - 1}
  BY <1>1 DEF Bytes!Span
<1>3. a \in Nat
  BY PageAndOffset
<1>4. \A x \in a .. a + m - 1 : x - a \in 0 .. m - 1 /\ x = a + (x - a)
  BY <1>3
<1>5. \A k \in 0 .. m - 1 : a + k \in a .. a + m - 1
  BY <1>3
<1> QED
  BY <1>2, <1>4, <1>5

(***************************************************************************)
(* A load gives the bytes of its first page.                               *)
(***************************************************************************)
LEMMA LoadRefines == IInv /\ Load => Bytes!Load
<1> SUFFICES ASSUME IInv, Load PROVE Bytes!Load
  OBVIOUS
<1>1. PICK a \in Starts, w \in Widths :
        /\ Mapped(a) /\ Call("load", a, w, 0, 0) /\ buffer' \in Buffers(w)
        /\ \A k \in 1 .. w :
              Offset(a) + k <= PageSize => buffer'[k] = ByteAt(a + k - 1)
  BY DEF Load
<1>2. page_tables' = page_tables
  BY DEF Load
<1>3. /\ a \in Address /\ w \in Nat /\ w \in 0 .. AddressCard /\ 0 \in Byte
      /\ 0 \in 0 .. MaxSize
  <2>1. /\ a \in Address /\ w \in 1 .. PageSize /\ 0 \in Byte /\ MaxSize \in Nat
    BY PagingAssumption, Sizes
  <2>2. PageSize * 1 <= PageSize * Pages
    BY Sizes, ProductGrows
  <2> QED
    BY <2>1, <2>2, Sizes
<1>4. /\ proc = "running" /\ call = NULL /\ proc' = proc /\ call' # NULL
      /\ args'.address = a /\ args'.size = w /\ args'.op = "load"
      /\ call'.size = 0
  BY <1>1, <1>3, CallEffect DEF Operations
<1>5. ~Doomed' /\ \A x : FinalByte(x)' = ByteAt(x)'
  BY <1>4, NothingLeft
<1>6. /\ Bytes!Serve("load", Widths) /\ AbsRequest' = args'
      /\ AbsBytes' = [x \in MapNext |-> FinalByte(x)']
  BY <1>1, <1>3, <1>5, Served DEF Operations
<1>7. AbsBytes = [x \in Map |-> ByteAt(x)] /\ DOMAIN AbsBytes = Map
  BY <1>4, IdleView
<1>8. AbsBytes' = AbsBytes
  BY <1>2, <1>5, <1>6, <1>7, SameTables
<1>9. AbsBuffer' = buffer' /\ AbsBuffer' \in Bytes!Buffers(w)
  BY <1>1, <1>4, <1>5, BufferView DEF Bytes!Buffers, Buffers
<1>10. ASSUME NEW k \in 1 .. Bytes!Exact(args')
       PROVE  AbsBuffer'[k] = AbsBytes[a + k - 1]
  <2> DEFINE m == Bytes!Exact(args')
  <2>1. m \in Nat /\ m <= w /\ Offset(a) + m <= PageSize
    BY <1>3, <1>4, ExactPart
  <2>2. Offset(a) \in Nat /\ PageSize \in Nat /\ a \in Nat
    BY <1>3, PageAndOffset, Sizes
  <2> HIDE DEF m
  <2>3. k \in 1 .. m
    BY DEF m
  <2>4. k \in 1 .. w /\ Offset(a) + k <= PageSize /\ a + k - 1 \in a .. a + m - 1
    BY <1>3, <2>1, <2>2, <2>3
  <2>5. a + k - 1 \in Map
    BY <1>1, <1>3, <2>1, <2>4, InPage DEF Map
  <2> QED
    BY <1>1, <1>7, <1>9, <2>4, <2>5
<1> QED
  BY <1>1, <1>3, <1>4, <1>6, <1>7, <1>8, <1>9, <1>10 DEF Bytes!Load, Map

(***************************************************************************)
(* A store puts its bytes as far as its first page goes.                   *)
(***************************************************************************)
LEMMA StoreRefines == IInv /\ Store => Bytes!Store
<1> SUFFICES ASSUME IInv, Store PROVE Bytes!Store
  OBVIOUS
<1>1. PICK a \in Starts, w \in Widths : \E values \in Buffers(w) :
        /\ Mapped(a) /\ Call("store", a, w, 0, 0)
        /\ buffer' = values /\ page_tables' = StoreInPage(a, values)
  BY DEF Store
<1>2. /\ Mapped(a) /\ Call("store", a, w, 0, 0) /\ buffer' \in Buffers(w)
      /\ page_tables' = StoreInPage(a, buffer')
  BY <1>1
<1>3. /\ a \in Address /\ w \in Nat /\ w \in 0 .. AddressCard /\ 0 \in Byte
      /\ 0 \in 0 .. MaxSize
  <2>1. /\ a \in Address /\ w \in 1 .. PageSize /\ 0 \in Byte /\ MaxSize \in Nat
    BY PagingAssumption, Sizes
  <2>2. PageSize * 1 <= PageSize * Pages
    BY Sizes, ProductGrows
  <2> QED
    BY <2>1, <2>2, Sizes
<1>4. /\ proc = "running" /\ call = NULL /\ proc' = proc /\ call' # NULL
      /\ args'.address = a /\ args'.size = w /\ args'.op = "store"
      /\ call'.size = 0
  BY <1>2, <1>3, CallEffect DEF Operations
<1>5. ~Doomed' /\ \A x : FinalByte(x)' = ByteAt(x)'
  BY <1>4, NothingLeft
<1>6. /\ Bytes!Serve("store", Widths) /\ AbsRequest' = args'
      /\ AbsBytes' = [x \in MapNext |-> FinalByte(x)']
  BY <1>2, <1>3, <1>5, Served DEF Operations
<1>7. AbsBytes = [x \in Map |-> ByteAt(x)] /\ DOMAIN AbsBytes = Map
  BY <1>4, IdleView
<1>8. AbsBuffer' = buffer' /\ AbsBuffer' \in Bytes!Buffers(w)
  BY <1>2, <1>4, <1>5, BufferView DEF Bytes!Buffers, Buffers
<1>9. buffer' \in Seq(Byte) /\ Len(buffer') = w
  BY <1>2, <1>3 DEF Buffers
<1>10. \A b \in Address :
         /\ Mapped(b)' <=> Mapped(b)
         /\ Mapped(b) =>
              ByteAt(b)' =
                IF /\ PageOf(b) = PageOf(a)
                   /\ Offset(b) \in Offset(a) .. Offset(a) + w - 1
                THEN buffer'[Offset(b) - Offset(a) + 1] ELSE ByteAt(b)
  <2>1. page_tables \in [Tables -> Table \cup {NULL}]
    BY DEF IInv, TypeOK
  <2> DEFINE values == buffer'
  <2>2. values \in Seq(Byte) /\ Len(values) = w /\ page_tables' = StoreInPage(a, values)
    BY <1>2, <1>9
  <2> HIDE DEF values
  <2>3. \A b \in Address :
         /\ Mapped(b)' <=> Mapped(b)
         /\ Mapped(b) =>
              ByteAt(b)' =
                IF /\ PageOf(b) = PageOf(a)
                   /\ Offset(b) \in Offset(a) .. Offset(a) + Len(values) - 1
                THEN values[Offset(b) - Offset(a) + 1] ELSE ByteAt(b)
    BY <1>2, <1>3, <2>1, <2>2, StoreEffect
  <2> QED
    BY <2>2, <2>3 DEF values
<1>11. MapNext = Map
  BY <1>10 DEF Map, MapNext
<1>12. PICK m \in Nat :
       /\ m = Bytes!Exact(args') /\ m <= w
       /\ Offset(a) + m <= PageSize
       /\ \A j \in Nat : j < w /\ Offset(a) + j < PageSize => j < m
  BY <1>3, <1>4, ExactPart
<1>13. ASSUME NEW b \in Map
       PROVE  ByteAt(b)' = IF b \in Bytes!Span(a, m)
                           THEN buffer'[Wrap(b - a) + 1] ELSE AbsBytes[b]
  <2>1. b \in Address /\ Mapped(b) /\ AbsBytes[b] = ByteAt(b)
    BY <1>7 DEF Map
  <2>2. /\ Offset(a) \in Nat /\ Offset(b) \in Nat /\ Offset(b) < PageSize
        /\ PageSize \in Nat
    BY <1>3, <2>1, PageAndOffset, Sizes DEF Offsets
  <2>3. Offset(b) \in Offset(a) .. Offset(a) + w - 1 <=>
          Offset(b) \in Offset(a) .. Offset(a) + m - 1
    <3> DEFINE j == Offset(b) - Offset(a)
    <3>1. CASE Offset(b) \in Offset(a) .. Offset(a) + w - 1
      <4>1. j \in Nat /\ j < w /\ Offset(a) + j < PageSize
        BY <1>3, <2>2, <3>1
      <4>2. j < m
        BY <1>12, <4>1
      <4> QED
        BY <1>12, <2>2, <3>1, <4>1, <4>2
    <3>2. CASE Offset(b) \in Offset(a) .. Offset(a) + m - 1
      BY <1>3, <1>12, <2>2, <3>2
    <3> QED
      BY <3>1, <3>2
  <2>4. Bytes!Span(a, m) = a .. a + m - 1
    BY <1>3, <1>12, SpanInPage
  <2>5. b \in a .. a + m - 1 <=>
          PageOf(b) = PageOf(a) /\ Offset(b) \in Offset(a) .. Offset(a) + m - 1
    BY <1>3, <1>12, <2>1, InPage
  <2>6. b \in a .. a + m - 1 => Wrap(b - a) = Offset(b) - Offset(a)
    BY <1>3, <1>12, InPage
  <2> QED
    BY <1>10, <2>1, <2>3, <2>4, <2>5, <2>6
<1>14. Bytes!Put(a, AbsBuffer', m)
  <2>1. AbsBytes' = [b \in Map |-> IF b \in Bytes!Span(a, m)
                             THEN AbsBuffer'[Wrap(b - a) + 1] ELSE AbsBytes[b]]
    BY <1>5, <1>6, <1>8, <1>11, <1>13
  <2> QED
    BY <1>7, <2>1, BytesAddresses DEF Bytes!Put
<1> QED
  BY <1>2, <1>3, <1>4, <1>6, <1>7, <1>8, <1>12, <1>14 DEF Bytes!Store, Map

(***************************************************************************)
(* A round of a loop takes its chunk off what is left, at the front.       *)
(***************************************************************************)
LEMMA Split ==
  ASSUME call \in Locals, call.size > 0, Advance,
         NEW c, NEW s, NEW m, NEW d,
         c = call.address, s = call.size, m = Amount, d = call'.address
  PROVE  /\ Remaining = (c .. c + m - 1) \cup Remaining'
         /\ \A x \in Remaining' : /\ x \in Address /\ x \notin c .. c + m - 1
                                  /\ Wrap(x - d) = Wrap(x - c) - m
         /\ \A k \in m .. s - 1 : Wrap(d + k - m) = Wrap(c + k)
<1>1. /\ c \in Address /\ s \in Nat /\ s <= AddressCard
      /\ m \in Nat /\ m > 0 /\ m <= s /\ Offset(c) + m <= PageSize
      /\ c \in Nat /\ c < AddressCard /\ AddressCard \in Nat
  BY AmountRange, PageAndOffset, Sizes
<1>2. d = Wrap(c + m) /\ call'.size = s - m /\ d \in Address
  <2>1. d = Wrap(c + m) /\ call'.size = s - m
    BY AdvanceEffect
  <2> QED
    BY <1>1, <2>1, WrapOnce
<1>3. c + m <= AddressCard
  <2>1. c + m - 1 \in c .. c + m - 1
    BY <1>1
  <2>2. c + m - 1 \in Address
    BY <1>1, <2>1, InPage
  <2> QED
    BY <1>1, <2>2 DEF Address
<1>4. ASSUME NEW j \in 0 .. s - m - 1
      PROVE  /\ Wrap(d + j) = Wrap(c + (j + m)) /\ Wrap(d + j) \in Address
             /\ Wrap(Wrap(d + j) - d) = j /\ Wrap(Wrap(d + j) - c) = j + m
  <2>1. /\ j \in Nat /\ j \in 0 .. AddressCard - 1 /\ j + m \in 0 .. AddressCard - 1
        /\ d \in Nat
    BY <1>1, <1>2, PageAndOffset
  <2>2. Wrap(d + j) = Wrap(c + (j + m))
    <3>1. CASE c + m < AddressCard
      <4>1. d = c + m
        BY <1>1, <1>2, <3>1, WrapOnce DEF Address
      <4>2. d + j = c + (j + m)
        BY <1>1, <2>1, <4>1
      <4> QED
        BY <4>2
    <3>2. CASE c + m = AddressCard
      <4>1. d = 0
        BY <1>1, <1>2, <3>2, WrapOnce
      <4>2. Wrap(0 + j) = j
        BY <1>1, <2>1, WrapOnce DEF Address
      <4> DEFINE y == c + (j + m)
      <4>3. y \in Int /\ AddressCard <= y /\ y < 2 * AddressCard /\ y - AddressCard = j
        BY <1>1, <2>1, <3>2
      <4> HIDE DEF y
      <4>4. Wrap(y) = j
        BY <4>3, WrapOnce
      <4> QED
        BY <4>1, <4>2, <4>4 DEF y
    <3> QED
      BY <1>1, <1>3, <3>1, <3>2
  <2>3. Wrap(d + j) \in Address /\ Wrap(Wrap(d + j) - d) = j
    BY <1>2, <2>1, OffsetInRange
  <2> DEFINE i == j + m
  <2>4. i \in 0 .. AddressCard - 1
    BY <2>1
  <2> HIDE DEF i
  <2>5. Wrap(Wrap(c + i) - c) = i
    BY <1>1, <2>4, OffsetInRange
  <2> QED
    BY <2>2, <2>3, <2>5 DEF i
<1>5. Remaining' = {Wrap(d + j) : j \in 0 .. s - m - 1}
  BY <1>2 DEF Remaining
<1>6. ASSUME NEW x \in Remaining'
      PROVE  /\ x \in Address /\ x \notin c .. c + m - 1
             /\ Wrap(x - d) = Wrap(x - c) - m
  <2>1. PICK j \in 0 .. s - m - 1 : x = Wrap(d + j)
    BY <1>5
  <2>2. j \in Nat /\ x \in Address /\ Wrap(x - d) = j /\ Wrap(x - c) = j + m
    BY <1>1, <1>4, <2>1
  <2>3. x \in c .. c + m - 1 => Wrap(x - c) = x - c
    BY <1>1, InPage
  <2> QED
    BY <1>1, <2>2, <2>3
<1>7. Remaining = (c .. c + m - 1) \cup Remaining'
  <2>1. Remaining = {Wrap(c + k) : k \in 0 .. s - 1}
    BY DEF Remaining
  <2>2. ASSUME NEW k \in 0 .. s - 1
        PROVE  Wrap(c + k) \in (c .. c + m - 1) \cup Remaining'
    <3>1. CASE k < m
      <4>1. Wrap(c + k) = c + k
        BY <1>1, <3>1, InPage
      <4> QED
        BY <1>1, <3>1, <4>1
    <3>2. CASE k >= m
      <4> DEFINE j == k - m
      <4>1. j \in 0 .. s - m - 1 /\ k = j + m
        BY <1>1, <3>2
      <4> HIDE DEF j
      <4> QED
        BY <1>4, <1>5, <4>1
    <3> QED
      BY <1>1, <3>1, <3>2
  <2>3. ASSUME NEW x \in c .. c + m - 1 PROVE x \in Remaining
    <3> DEFINE k == x - c
    <3>1. k \in 0 .. m - 1 /\ k \in 0 .. s - 1 /\ x = c + k
      BY <1>1
    <3> HIDE DEF k
    <3>2. Wrap(c + k) = c + k
      BY <1>1, <3>1, InPage
    <3> QED
      BY <2>1, <3>1, <3>2
  <2>4. ASSUME NEW x \in Remaining' PROVE x \in Remaining
    <3>1. PICK j \in 0 .. s - m - 1 : x = Wrap(d + j)
      BY <1>5
    <3>2. j + m \in 0 .. s - 1
      BY <1>1
    <3> QED
      BY <1>4, <2>1, <3>1, <3>2
  <2> QED
    BY <2>1, <2>2, <2>3, <2>4
<1>8. ASSUME NEW k \in m .. s - 1 PROVE Wrap(d + k - m) = Wrap(c + k)
  <2> DEFINE j == k - m
  <2>1. j \in 0 .. s - m - 1 /\ j + m = k /\ d + k - m = d + j
    BY <1>1, <1>2, PageAndOffset
  <2> HIDE DEF j
  <2> QED
    BY <1>4, <2>1
<1> QED
  BY <1>6, <1>7, <1>8

(***************************************************************************)
(* A round of a loop changes neither what is mapped nor the fate of the    *)
(* call, so nothing abstract if the call is doomed.                        *)
(***************************************************************************)
LEMMA LoopView ==
  ASSUME IInv, NEW op, Loop(op),
         \A b \in Address : Mapped(b)' <=> Mapped(b)
  PROVE  /\ Doomed' <=> Doomed
         /\ Doomed => UNCHANGED Bytes!vars
         /\ ~Doomed =>
              /\ AbsState' = AbsState /\ AbsRequest' = AbsRequest
              /\ AbsState = "busy"
              /\ AbsBytes = [x \in Map |-> FinalByte(x)]
              /\ AbsBytes' = [x \in Map |-> FinalByte(x)']
<1>1. /\ proc = "running" /\ proc' = proc /\ args' = args /\ call # NULL
      /\ call \in Locals /\ call.size > 0 /\ Mapped(call.address) /\ Advance
  BY DEF Loop, IInv, TypeOK
<1>2. call' # NULL
  BY <1>1, AdvanceEffect
<1>3. PICK c, m : c = call.address /\ m = Amount
  OBVIOUS
<1>4. /\ Remaining = (c .. c + m - 1) \cup Remaining'
      /\ Remaining' \subseteq Address
  <2>1. PICK s, d : s = call.size /\ d = call'.address
    OBVIOUS
  <2> QED
    BY <1>1, <1>3, <2>1, Split
<1>5. \A x \in c .. c + m - 1 : x \in Address /\ Mapped(x)
  <2>1. /\ c \in Address /\ m \in Nat /\ Offset(c) + m <= PageSize /\ Mapped(c)
    BY <1>1, <1>3, AmountRange
  <2> QED
    BY <2>1, InPage
<1>6. Doomed' <=> Doomed
  <2>1. Doomed <=> \E x \in Remaining : ~Mapped(x)
    BY <1>1 DEF Doomed
  <2>2. Doomed' <=> \E x \in Remaining' : ~Mapped(x)'
    BY <1>2 DEF Doomed
  <2> QED
    BY <1>4, <1>5, <2>1, <2>2
<1>7. MapNext = Map
  BY DEF Map, MapNext
<1>8. Doomed => UNCHANGED Bytes!vars
  BY <1>6, EndedView DEF Bytes!vars
<1>9. ASSUME ~Doomed
      PROVE  /\ AbsState' = AbsState /\ AbsRequest' = AbsRequest
             /\ AbsState = "busy"
             /\ AbsBytes = [x \in Map |-> FinalByte(x)]
             /\ AbsBytes' = [x \in Map |-> FinalByte(x)']
  BY <1>1, <1>2, <1>6, <1>7, <1>9, BusyView
<1> QED
  BY <1>6, <1>8, <1>9

(***************************************************************************)
(* A round of memory_copy_read leaves the buffer it will end with.         *)
(***************************************************************************)
LEMMA ReadChunkRefines == IInv /\ ReadChunk => UNCHANGED Bytes!vars
<1> SUFFICES ASSUME IInv, ReadChunk PROVE UNCHANGED Bytes!vars
  OBVIOUS
<1>1. /\ Loop("read") /\ page_tables' = page_tables
      /\ buffer' = [k \in DOMAIN buffer |->
                     IF k \in Passed + 1 .. Passed + Amount
                     THEN page_tables[PtIdx(call.address)][PeIdx(call.address)]
                                     [Offset(call.address) + k - Passed - 1]
                     ELSE buffer[k]]
  BY DEF ReadChunk
<1>2. /\ call # NULL /\ call \in Locals /\ call.size > 0 /\ Advance
      /\ args.op = "read" /\ args' = args /\ call.size <= Len(buffer)
      /\ buffer \in Seq(Byte) /\ proc = "running" /\ proc' = proc
  BY <1>1 DEF Loop, IInv, TypeOK, CallOK
<1>3. PICK c, s, m, d, p : /\ c = call.address /\ s = call.size /\ m = Amount
                           /\ d = call'.address /\ p = Passed
  OBVIOUS
<1>4. /\ c \in Address /\ s \in Nat /\ m \in Nat /\ m > 0 /\ m <= s /\ c \in Nat
      /\ Offset(c) + m <= PageSize /\ Len(buffer) \in Nat /\ p + s = Len(buffer)
      /\ p \in Nat /\ DOMAIN buffer = 1 .. p + s /\ Offset(c) \in Nat
      /\ PageSize \in Nat
  <2>1. /\ c \in Address /\ s \in Nat /\ m \in Nat /\ m > 0 /\ m <= s
        /\ Offset(c) + m <= PageSize
    BY <1>2, <1>3, AmountRange
  <2>2. Len(buffer) \in Nat /\ DOMAIN buffer = 1 .. Len(buffer)
    BY <1>2
  <2>3. p \in Nat /\ p + s = Len(buffer)
    BY <1>2, <1>3, <2>1, <2>2 DEF Passed
  <2> QED
    BY <2>1, <2>2, <2>3, PageAndOffset, Sizes
<1>5. /\ call' # NULL /\ call'.address = d /\ call'.size = s - m /\ d \in Address
      /\ d \in Nat
  <2>1. call' \in Locals /\ call' # NULL /\ call'.size = s - m
    BY <1>2, <1>3, AdvanceEffect
  <2>2. d \in Address
    BY <1>3, <2>1 DEF Locals
  <2> QED
    BY <1>3, <2>1, <2>2, PageAndOffset
<1>6. /\ Doomed' <=> Doomed
      /\ Doomed => UNCHANGED Bytes!vars
      /\ ~Doomed => /\ AbsState' = AbsState /\ AbsRequest' = AbsRequest
                    /\ AbsState = "busy"
                    /\ AbsBytes = [x \in Map |-> FinalByte(x)]
                    /\ AbsBytes' = [x \in Map |-> FinalByte(x)']
  BY <1>1, SameTables, LoopView
<1>7. \A x : FinalByte(x) = ByteAt(x) /\ FinalByte(x)' = ByteAt(x)
  <2>1. \A x : FinalByte(x) = ByteAt(x)
    BY <1>2 DEF FinalByte
  <2>2. \A x : FinalByte(x)' = ByteAt(x)'
    BY <1>2 DEF FinalByte
  <2> QED
    BY <1>1, <2>1, <2>2, SameTables
<1>8. ASSUME ~Doomed PROVE AbsBuffer' = AbsBuffer
  <2>1. DOMAIN buffer' = 1 .. p + s /\ Len(buffer') = p + s /\ Passed' = p + m
    <3>1. DOMAIN buffer' = 1 .. p + s
      BY <1>1, <1>4
    <3>2. IInv'
      BY <1>1, StepIInv DEF Next, InLoop
    <3>3. buffer' \in Seq(Byte)
      BY <3>2 DEF IInv, TypeOK
    <3>4. Len(buffer') = p + s
      <4> DEFINE b == buffer'
      <4>1. b \in Seq(Byte) /\ DOMAIN b = 1 .. p + s
        BY <3>1, <3>3
      <4> HIDE DEF b
      <4>2. Len(b) \in Nat /\ DOMAIN b = 1 .. Len(b)
        BY <4>1
      <4>3. Len(b) = p + s
        BY <1>4, <4>1, <4>2
      <4> QED
        BY <4>3 DEF b
    <3> QED
      BY <1>4, <1>5, <3>1, <3>4 DEF Passed
  <2> DEFINE old(k) == IF k > p THEN ByteAt(Wrap(c + k - p - 1)) ELSE buffer[k]
             new(k) == IF k > p + m THEN ByteAt(Wrap(d + k - (p + m) - 1))
                                    ELSE buffer'[k]
  <2>2. AbsBuffer = [k \in 1 .. p + s |-> old(k)]
    BY <1>2, <1>3, <1>4, <1>6, <1>8 DEF AbsBuffer
  <2>3. AbsBuffer' = [k \in 1 .. p + s |-> new(k)]
    <3>1. AbsBuffer' = [k \in DOMAIN buffer' |->
               IF k > Passed' THEN ByteAt(Wrap(call.address + k - Passed - 1))'
               ELSE buffer'[k]]
      BY <1>2, <1>5, <1>6, <1>8 DEF AbsBuffer
    <3>2. ASSUME NEW k
          PROVE  ByteAt(Wrap(call.address + k - Passed - 1))'
                   = ByteAt(Wrap(d + k - (p + m) - 1))
      BY <1>1, <1>5, <2>1 DEF ByteAt, Wrap
    <3> QED
      BY <2>1, <3>1, <3>2
  <2>4. ASSUME NEW k \in 1 .. p + s PROVE new(k) = old(k)
    <3>1. CASE k <= p
      <4>1. buffer'[k] = buffer[k]
        BY <1>1, <1>3, <1>4, <3>1
      <4> QED
        BY <1>4, <3>1, <4>1
    <3>2. CASE k \in p + 1 .. p + m
      <4> DEFINE j == k - p - 1
      <4>1. /\ j \in 0 .. m - 1 /\ c + k - p - 1 = c + j
            /\ Offset(c) + k - p - 1 = Offset(c) + j
            /\ j \in Nat /\ Offset(c) + j < PageSize
            /\ k \in 1 .. p + s /\ k > p /\ ~(k > p + m)
        BY <1>4, <3>2
      <4>2. buffer'[k] = page_tables[PtIdx(c)][PeIdx(c)][Offset(c) + k - p - 1]
        BY <1>1, <1>3, <1>4, <3>2
      <4> HIDE DEF j
      <4>3. ByteAt(c + j) = page_tables[PtIdx(c)][PeIdx(c)][Offset(c) + j]
            /\ Wrap(c + j) = c + j
        BY <1>4, <4>1, WithinPage DEF ByteAt
      <4> QED
        BY <4>1, <4>2, <4>3
    <3>3. CASE k > p + m
      <4> DEFINE i == k - p - 1
      <4>1. /\ i \in m .. s - 1 /\ c + k - p - 1 = c + i
            /\ d + k - (p + m) - 1 = d + i - m /\ k > p
        BY <1>4, <1>5, <3>3
      <4> HIDE DEF i
      <4>2. Wrap(d + i - m) = Wrap(c + i)
        BY <1>2, <1>3, <4>1, Split
      <4> QED
        BY <3>3, <4>1, <4>2
    <3> QED
      BY <1>4, <3>1, <3>2, <3>3
  <2> HIDE DEF old, new
  <2> QED
    BY <2>2, <2>3, <2>4
<1>9. ~Doomed => AbsBytes' = AbsBytes
  BY <1>6, <1>7
<1> QED
  BY <1>6, <1>8, <1>9 DEF Bytes!vars

(***************************************************************************)
(* A round of memory_copy_write or memory_set stores the bytes that are    *)
(* due at its chunk's addresses.                                           *)
(***************************************************************************)
LEMMA PutChunk ==
  ASSUME IInv, NEW op \in {"write", "set"}, Loop(op), NEW values \in Seq(Byte),
         Len(values) = Amount, page_tables' = StoreInPage(call.address, values),
         buffer' = buffer,
         \A j \in 1 .. Amount : values[j] = IF op = "write" THEN buffer[Passed + j]
                                            ELSE args.value
  PROVE  UNCHANGED Bytes!vars
<1>1. /\ call # NULL /\ call \in Locals /\ call.size > 0 /\ Advance
      /\ args.op = op /\ args' = args /\ Mapped(call.address)
      /\ buffer \in Seq(Byte) /\ proc = "running" /\ proc' = proc
      /\ page_tables \in [Tables -> Table \cup {NULL}]
  BY DEF Loop, IInv, TypeOK
<1>2. PICK c, s, m, d, p : /\ c = call.address /\ s = call.size /\ m = Amount
                           /\ d = call'.address /\ p = Passed
  OBVIOUS
<1>3. /\ c \in Address /\ s \in Nat /\ m \in Nat /\ m > 0 /\ m <= s /\ c \in Nat
      /\ Offset(c) + m <= PageSize /\ p \in Int
  <2>1. /\ c \in Address /\ s \in Nat /\ m \in Nat /\ m > 0 /\ m <= s
        /\ Offset(c) + m <= PageSize
    BY <1>1, <1>2, AmountRange
  <2>2. p \in Int
    BY <1>1, <1>2, <2>1 DEF Passed
  <2> QED
    BY <2>1, <2>2, PageAndOffset
<1>4. call' # NULL /\ call'.address = d /\ call'.size = s - m /\ Passed' = p + m
  <2>1. call' # NULL /\ call'.size = s - m
    BY <1>1, <1>2, AdvanceEffect
  <2>2. Passed' = Len(buffer) - (s - m) /\ p = Len(buffer) - s /\ Len(buffer) \in Nat
    BY <1>1, <1>2, <2>1 DEF Passed
  <2> QED
    BY <1>2, <1>3, <2>1, <2>2
<1>5. \A b \in Address :
         /\ Mapped(b)' <=> Mapped(b)
         /\ Mapped(b) =>
              ByteAt(b)' =
                IF /\ PageOf(b) = PageOf(c)
                   /\ Offset(b) \in Offset(c) .. Offset(c) + m - 1
                THEN values[Offset(b) - Offset(c) + 1] ELSE ByteAt(b)
  BY <1>1, <1>2, <1>3, StoreEffect
<1>6. /\ Doomed' <=> Doomed
      /\ Doomed => UNCHANGED Bytes!vars
      /\ ~Doomed => /\ AbsState' = AbsState /\ AbsRequest' = AbsRequest
                    /\ AbsState = "busy"
                    /\ AbsBytes = [x \in Map |-> FinalByte(x)]
                    /\ AbsBytes' = [x \in Map |-> FinalByte(x)']
  BY <1>5, LoopView
<1>7. /\ Remaining = (c .. c + m - 1) \cup Remaining'
      /\ \A x \in Remaining' : /\ x \in Address /\ x \notin c .. c + m - 1
                               /\ Wrap(x - d) = Wrap(x - c) - m
  BY <1>1, <1>2, Split
<1> DEFINE due(x) == IF op = "write" THEN buffer[p + Wrap(x - c) + 1] ELSE args.value
<1>8. \A x : FinalByte(x) = IF x \in Remaining THEN due(x) ELSE ByteAt(x)
  BY <1>1, <1>2 DEF FinalByte
<1>9. ASSUME NEW x \in Remaining' PROVE FinalByte(x)' = due(x)
  <2>1. CASE op = "write"
    <3>1. FinalByte(x)' = buffer'[Passed' + Wrap(x - call'.address) + 1]
      BY <1>1, <1>4, <1>9, <2>1 DEF FinalByte, Wrap
    <3>2. Wrap(x - c) \in Int
      <4>1. x - c \in Int
        <5>1. x \in Address
          BY <1>7
        <5>2. x \in Nat
          BY <5>1, PageAndOffset
        <5> QED
          BY <1>3, <5>2
      <4>2. Wrap(x - c) \in Address
        BY <4>1, WrapOnce
      <4>3. Address \subseteq Int
        BY Sizes DEF Address
      <4> QED
        BY <4>2, <4>3
    <3>3. Passed' + Wrap(x - call'.address) = p + Wrap(x - c)
      BY <1>3, <1>4, <1>7, <3>2
    <3> QED
      BY <2>1, <3>1, <3>3
  <2>2. CASE op = "set"
    BY <1>1, <1>4, <1>9, <2>2 DEF FinalByte
  <2> QED
    BY <2>1, <2>2
<1>10. \A x : x \notin Remaining' => FinalByte(x)' = ByteAt(x)'
  BY DEF FinalByte
<1>11. ASSUME NEW x \in c .. c + m - 1, Mapped(x) PROVE ByteAt(x)' = due(x)
  <2>1. /\ x \in Address /\ Wrap(x - c) = x - c /\ x - c = Offset(x) - Offset(c)
        /\ PageOf(x) = PageOf(c) /\ Offset(x) \in Offset(c) .. Offset(c) + m - 1
    BY <1>3, InPage
  <2>2. ByteAt(x)' = values[(x - c) + 1]
    BY <1>5, <1>11, <2>1
  <2> DEFINE j == (x - c) + 1
  <2>3. j \in 1 .. m /\ p + j = p + (x - c) + 1
    BY <1>3
  <2> HIDE DEF j
  <2>4. values[j] = IF op = "write" THEN buffer[p + j] ELSE args.value
    BY <1>2, <2>3
  <2>5. ByteAt(x)' = values[j]
    BY <2>2 DEF j
  <2> QED
    BY <2>1, <2>3, <2>4, <2>5
<1>12. ASSUME NEW x \in Address, Mapped(x), x \notin c .. c + m - 1
       PROVE  ByteAt(x)' = ByteAt(x)
  <2>1. ~(/\ PageOf(x) = PageOf(c)
          /\ Offset(x) \in Offset(c) .. Offset(c) + m - 1)
    BY <1>3, <1>12, InPage
  <2> QED
    BY <1>5, <1>12, <2>1
<1> HIDE DEF due
<1>13. ASSUME NEW x \in Map PROVE FinalByte(x)' = FinalByte(x)
  <2>1. x \in Address /\ Mapped(x)
    BY DEF Map
  <2>2. CASE x \in Remaining'
    BY <1>7, <1>8, <1>9, <2>2
  <2>3. CASE x \in c .. c + m - 1
    <3>1. x \notin Remaining' /\ x \in Remaining
      BY <1>7, <2>3
    <3> QED
      BY <1>8, <1>10, <1>11, <2>1, <2>3, <3>1
  <2>4. CASE x \notin Remaining' /\ x \notin c .. c + m - 1
    <3>1. x \notin Remaining
      BY <1>7, <2>4
    <3> QED
      BY <1>8, <1>10, <1>12, <2>1, <2>4, <3>1
  <2> QED
    BY <2>2, <2>3, <2>4
<1>14. ASSUME ~Doomed PROVE UNCHANGED Bytes!vars
  <2>1. AbsBytes' = AbsBytes
    BY <1>6, <1>13, <1>14
  <2>2. AbsBuffer' = AbsBuffer
    BY <1>1, <1>4, <1>6, <1>14, BufferView
  <2> QED
    BY <1>6, <1>14, <2>1, <2>2 DEF Bytes!vars
<1> QED
  BY <1>6, <1>14

(***************************************************************************)
(* A round of memory_copy_write changes no abstract byte.                  *)
(***************************************************************************)
LEMMA WriteChunkRefines == IInv /\ WriteChunk => UNCHANGED Bytes!vars
<1> SUFFICES ASSUME IInv, WriteChunk PROVE UNCHANGED Bytes!vars
  OBVIOUS
<1>1. /\ Loop("write") /\ buffer' = buffer
      /\ page_tables' = StoreInPage(call.address,
                            SubSeq(buffer, Passed + 1, Passed + Amount))
  BY DEF WriteChunk
<1>2. PICK m, p : m = Amount /\ p = Passed
  OBVIOUS
<1>3. /\ buffer \in Seq(Byte) /\ Len(buffer) \in Nat /\ m \in Nat /\ p \in Nat
      /\ p + m <= Len(buffer)
  <2>1. /\ call \in Locals /\ call.size > 0 /\ call.size <= Len(buffer)
        /\ buffer \in Seq(Byte)
    BY <1>1 DEF Loop, IInv, TypeOK, CallOK
  <2>2. m \in Nat /\ m <= call.size /\ call.size \in Nat
    BY <1>2, <2>1, AmountRange
  <2>3. Len(buffer) \in Nat
    BY <2>1
  <2>4. p = Len(buffer) - call.size
    BY <1>2 DEF Passed
  <2> QED
    BY <2>1, <2>2, <2>3, <2>4
<1>4. PICK values : values = SubSeq(buffer, p + 1, p + m)
  OBVIOUS
<1>5. /\ values \in Seq(Byte) /\ Len(values) = m
      /\ \A j \in 1 .. m : values[j] = buffer[p + j]
  BY <1>3, <1>4
<1> QED
  BY <1>1, <1>2, <1>4, <1>5, PutChunk

(***************************************************************************)
(* A round of memory_set changes no abstract byte.                         *)
(***************************************************************************)
LEMMA SetChunkRefines == IInv /\ SetChunk => UNCHANGED Bytes!vars
<1> SUFFICES ASSUME IInv, SetChunk PROVE UNCHANGED Bytes!vars
  OBVIOUS
<1>1. /\ Loop("set") /\ buffer' = buffer
      /\ page_tables' = StoreInPage(call.address, [k \in 1 .. Amount |-> args.value])
  BY DEF SetChunk
<1>2. PICK m : m = Amount
  OBVIOUS
<1>3. m \in Nat /\ args.value \in Byte
  <2>1. call \in Locals /\ call.size > 0 /\ args \in Arguments
    BY <1>1 DEF Loop, IInv, TypeOK, CallOK
  <2> QED
    BY <1>2, <2>1, AmountRange DEF Arguments
<1>4. PICK values : values = [k \in 1 .. m |-> args.value]
  OBVIOUS
<1>5. /\ values \in Seq(Byte) /\ Len(values) = m
      /\ \A j \in 1 .. m : values[j] = args.value
  BY <1>3, <1>4
<1> QED
  BY <1>1, <1>2, <1>4, <1>5, PutChunk

(***************************************************************************)
(* The abstract memory starts empty and idle.                              *)
(***************************************************************************)
LEMMA InitRefines == Init => Bytes!Init
<1> SUFFICES ASSUME Init PROVE Bytes!Init
  OBVIOUS
<1>1. proc = "running" /\ call = NULL /\ buffer = <<>>
  BY DEF Init
<1>2. Map = {}
  <2>1. ASSUME NEW x \in Address PROVE ~Mapped(x)
    BY Indices DEF Init, Mapped
  <2> QED
    BY <2>1 DEF Map
<1>3. AbsBytes = <<>>
  BY <1>1, <1>2, IdleView
<1> QED
  BY <1>1, <1>3, IdleView DEF Bytes!Init

(***************************************************************************)
(* Every step of the paged memory is one of the map, or none.              *)
(***************************************************************************)
LEMMA StepRefines == IInv /\ [Next \/ Terminated]_vars => [Bytes!Next]_Bytes!vars
<1> SUFFICES ASSUME IInv, [Next \/ Terminated]_vars PROVE [Bytes!Next]_Bytes!vars
  OBVIOUS
<1>1. CASE Allocate
  BY <1>1, AllocateRefines DEF Bytes!Next
<1>2. CASE CopyRead \/ CopyWrite \/ MemorySet
  BY <1>2, CopyReadRefines, CopyWriteRefines, MemorySetRefines DEF Bytes!Next
<1>3. CASE ReadChunk \/ WriteChunk \/ SetChunk \/ CrashInLoop
  BY <1>3, ReadChunkRefines, WriteChunkRefines, SetChunkRefines,
     CrashInLoopRefines
<1>4. CASE Return
  BY <1>4, ReturnRefines DEF Bytes!Next
<1>5. CASE Load \/ Store
  BY <1>5, LoadRefines, StoreRefines DEF Bytes!Next
<1>6. CASE CrashInAccess \/ Delete
  BY <1>6, CrashInAccessRefines, DeleteRefines DEF Bytes!Next
<1>7. CASE UNCHANGED vars
  <2>1. /\ AbsState' = AbsState /\ AbsRequest' = AbsRequest
        /\ AbsBuffer' = AbsBuffer /\ AbsBytes' = AbsBytes
    BY <1>7 DEF vars, AbsState, AbsRequest, AbsBuffer, AbsBytes, FinalByte, ByteAt,
                Doomed, Mapped, Remaining, Passed
  <2> QED
    BY <2>1 DEF Bytes!vars
<1> QED
  BY <1>1, <1>2, <1>3, <1>4, <1>5, <1>6, <1>7 DEF Next, InLoop, Terminated

(***************************************************************************)
(* Guest memory is a map from addresses to bytes: the two-level table      *)
(* hides pages, and the loops of memory.c split ranges at page boundaries  *)
(* and at the top of memory without losing, repeating or misplacing a      *)
(* byte, whatever the sizes of tables, pages and transfers.                *)
(***************************************************************************)
THEOREM Refinement == Spec => ImplementsBytes
<1> QED
  BY Invariance, InitRefines, StepRefines, PTL DEF Spec, ImplementsBytes, Bytes!Spec
============================================================================
