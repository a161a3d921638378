----------------------------- MODULE AluProofs -----------------------------
(***************************************************************************)
(* The laws of AluLaws for words of every width.  Powers of two and the    *)
(* number with given digits are recursive functions; what they compute is  *)
(* proved by induction, in the form of a set that holds 0 and is closed    *)
(* under successor.                                                        *)
(***************************************************************************)
EXTENDS AluLaws, TLAPS, WellFoundedInduction

(***************************************************************************)
(* A set of naturals that is not empty has a least element.                *)
(***************************************************************************)
LEMMA Least ==
  ASSUME NEW T, T \subseteq Nat, T # {}
  PROVE  \E x \in T : \A y \in T : x <= y
<1> DEFINE R == OpToRel(<, Nat)
<1>1. IsWellFoundedOn(R, Nat)
  BY NatLessThanWellFounded
<1> HIDE DEF R
<1>2. PICK x \in T : \A y \in T : ~(<<y, x>> \in R)
  BY <1>1, WFMin
<1>3. ASSUME NEW y \in T PROVE x <= y
  <2>1. ~(<<y, x>> \in OpToRel(<, Nat))
    BY <1>2 DEF R
  <2>2. ~(y < x)
    BY <2>1 DEF OpToRel
  <2> QED
    BY <2>2
<1> QED
  BY <1>3

(***************************************************************************)
(* Induction over the naturals.                                            *)
(***************************************************************************)
LEMMA Induction ==
  ASSUME NEW S, 0 \in S, \A n \in Nat : n \in S => n + 1 \in S
  PROVE  Nat \subseteq S
<1> DEFINE T == Nat \ S
<1>1. SUFFICES ASSUME T # {} PROVE FALSE
  OBVIOUS
<1>2. PICK x \in T : \A y \in T : x <= y
  BY <1>1, Least
<1>3. x # 0 /\ x \in Nat
  BY <1>2
<1>4. x - 1 \in Nat /\ x - 1 \notin T
  BY <1>2, <1>3
<1>5. (x - 1) + 1 \in S
  BY <1>4
<1> QED
  BY <1>2, <1>5

(***************************************************************************)
(* A recursive function of the naturals exists.                            *)
(***************************************************************************)
LEMMA RecursionExists ==
  ASSUME NEW start \in Int, NEW h \in [Nat -> [Int -> Int]]
  PROVE  \E f \in [Nat -> Int] :
           /\ f[0] = start
           /\ \A n \in Nat : n > 0 => f[n] = h[n][f[n - 1]]
<1> DEFINE Good(g, n) == /\ g \in [0 .. n -> Int] /\ g[0] = start
                         /\ \A k \in 1 .. n : g[k] = h[k][g[k - 1]]
           T == {n \in Nat : \E g : Good(g, n)}
<1>1. 0 \in T
  <2>1. Good([k \in 0 .. 0 |-> start], 0)
    OBVIOUS
  <2> QED
    BY <2>1
<1>2. ASSUME NEW n \in Nat, n \in T PROVE n + 1 \in T
  <2>1. PICK g : Good(g, n)
    BY <1>2
  <2> DEFINE new == [k \in 0 .. n + 1 |-> IF k = n + 1 THEN h[n + 1][g[n]]
                                                       ELSE g[k]]
  <2>2. g[n] \in Int /\ h[n + 1][g[n]] \in Int
    BY <2>1
  <2>3. new \in [0 .. n + 1 -> Int] /\ new[0] = start
    BY <2>1, <2>2
  <2>4. ASSUME NEW k \in 1 .. n + 1 PROVE new[k] = h[k][new[k - 1]]
    <3>1. CASE k = n + 1
      <4>1. n \in 0 .. n + 1 /\ n # n + 1 /\ k - 1 = n /\ n + 1 \in 0 .. n + 1
        BY <3>1
      <4>2. new[n] = g[n] /\ new[n + 1] = h[n + 1][g[n]]
        BY <4>1
      <4> QED
        BY <3>1, <4>1, <4>2
    <3>2. CASE k \in 1 .. n
      <4>1. k \in 0 .. n + 1 /\ k # n + 1 /\ k - 1 \in 0 .. n + 1 /\ k - 1 # n + 1
        BY <3>2
      <4> QED
        BY <2>1, <3>2, <4>1
    <3> QED
      BY <3>1, <3>2
  <2> HIDE DEF new
  <2>5. Good(new, n + 1)
    BY <2>3, <2>4
  <2>6. n + 1 \in Nat
    OBVIOUS
  <2> HIDE DEF Good
  <2> QED
    BY <2>5, <2>6
<1>3. Nat \subseteq T
  <2> HIDE DEF T
  <2> QED
    BY <1>1, <1>2, Induction
<1> DEFINE pick(n) == CHOOSE g : Good(g, n)
<1>4. ASSUME NEW n \in Nat PROVE Good(pick(n), n)
  BY <1>3
<1> HIDE DEF pick, T
<1>5. ASSUME NEW n \in Nat
      PROVE  pick(n + 1)[n] = pick(n)[n]
  <2> DEFINE p == pick(n + 1)
             q == pick(n)
             S == {k \in Nat : k <= n => p[k] = q[k]}
  <2>1. Good(p, n + 1) /\ Good(q, n)
    BY <1>4
  <2> HIDE DEF p, q
  <2>2. 0 \in S
    BY <2>1
  <2>3. ASSUME NEW k \in Nat, k \in S PROVE k + 1 \in S
    <3>1. SUFFICES ASSUME k + 1 <= n PROVE p[k + 1] = q[k + 1]
      OBVIOUS
    <3>2. p[k] = q[k] /\ k + 1 \in 1 .. n + 1 /\ k + 1 \in 1 .. n /\ (k + 1) - 1 = k
      BY <2>3, <3>1
    <3> QED
      BY <2>1, <3>2
  <2>4. n \in S
    <3> HIDE DEF S
    <3> QED
      BY <2>2, <2>3, Induction
  <2> QED
    BY <2>4 DEF p, q
<1> DEFINE f == [n \in Nat |-> pick(n)[n]]
<1>6. f \in [Nat -> Int] /\ f[0] = start
  BY <1>4
<1>7. ASSUME NEW n \in Nat, n > 0 PROVE f[n] = h[n][f[n - 1]]
  <2>1. n - 1 \in Nat /\ (n - 1) + 1 = n /\ n \in 1 .. n
    BY <1>7
  <2>2. pick(n)[n] = h[n][pick(n)[n - 1]]
    BY <1>4, <2>1
  <2>3. pick(n)[n - 1] = pick(n - 1)[n - 1]
    BY <1>5, <2>1
  <2> QED
    BY <2>1, <2>2, <2>3
<1> QED
  BY <1>6, <1>7

------------------------------------------------------------------------------
\* Powers of two.

(***************************************************************************)
(* The recursion of Pow2 has a solution, and Pow2 is one.                  *)
(***************************************************************************)
LEMMA Pow2Recursion ==
  /\ Pow2 \in [Nat -> Int]
  /\ Pow2[0] = 1
  /\ \A n \in Nat : Pow2[n + 1] = 2 * Pow2[n]
<1> DEFINE h == [n \in Nat |-> [v \in Int |-> 2 * v]]
           P(f) == f = [n \in Nat |-> IF n = 0 THEN 1 ELSE 2 * f[n - 1]]
<1>1. h \in [Nat -> [Int -> Int]] /\ \A n \in Nat, v \in Int : h[n][v] = 2 * v
  OBVIOUS
<1> HIDE DEF h
<1>2. PICK f \in [Nat -> Int] :
        /\ f[0] = 1
        /\ \A n \in Nat : n > 0 => f[n] = h[n][f[n - 1]]
  <2>1. 1 \in Int
    OBVIOUS
  <2> QED
    BY <1>1, <2>1, RecursionExists, Zenon
<1>3. \A n \in Nat : f[n] = IF n = 0 THEN 1 ELSE 2 * f[n - 1]
  BY <1>1, <1>2
<1>4. P(f)
  BY <1>2, <1>3
<1>5. Pow2 = CHOOSE g : P(g)
  BY DEF Pow2
<1>6. P(Pow2)
  BY <1>4, <1>5
<1>7. \A n \in Nat : Pow2[n] = IF n = 0 THEN 1 ELSE 2 * Pow2[n - 1]
  BY <1>6
<1>8. Pow2[0] = 1 /\ \A n \in Nat : Pow2[n + 1] = 2 * Pow2[n]
  BY <1>7
<1> DEFINE S == {n \in Nat : Pow2[n] \in Int}
<1>9. Nat \subseteq S
  <2>1. 0 \in S
    BY <1>8
  <2>2. \A n \in Nat : n \in S => n + 1 \in S
    BY <1>8
  <2> HIDE DEF S
  <2> QED
    BY <2>1, <2>2, Induction
<1>10. Pow2 = [n \in Nat |-> Pow2[n]]
  BY <1>6
<1> QED
  BY <1>8, <1>9, <1>10

(***************************************************************************)
(* Powers of two are positive.                                             *)
(***************************************************************************)
LEMMA Pow2Positive ==
  ASSUME NEW n \in Nat
  PROVE  Pow2[n] \in Nat /\ Pow2[n] > 0
<1> DEFINE S == {k \in Nat : Pow2[k] \in Nat /\ Pow2[k] > 0}
<1>1. 0 \in S
  BY Pow2Recursion
<1>2. \A k \in Nat : k \in S => k + 1 \in S
  BY Pow2Recursion
<1> HIDE DEF S
<1>3. n \in S
  BY <1>1, <1>2, Induction
<1> QED
  BY <1>3 DEF S

(***************************************************************************)
(* The power of a sum is the product of the powers.                        *)
(***************************************************************************)
LEMMA Pow2Sum ==
  ASSUME NEW m \in Nat, NEW n \in Nat
  PROVE  Pow2[m + n] = Pow2[m] * Pow2[n]
<1> DEFINE S == {k \in Nat : Pow2[m + k] = Pow2[m] * Pow2[k]}
<1>1. 0 \in S
  BY Pow2Recursion
<1>2. ASSUME NEW k \in Nat, k \in S PROVE k + 1 \in S
  <2>1. Pow2[m + k] = Pow2[m] * Pow2[k]
    BY <1>2
  <2>2. m + (k + 1) = (m + k) + 1 /\ m + k \in Nat
    OBVIOUS
  <2>3. Pow2[(m + k) + 1] = 2 * Pow2[m + k] /\ Pow2[k + 1] = 2 * Pow2[k]
    BY <2>2, Pow2Recursion
  <2>4. Pow2[m] \in Int /\ Pow2[k] \in Int
    BY Pow2Recursion
  <2>5. 2 * (Pow2[m] * Pow2[k]) = Pow2[m] * (2 * Pow2[k])
    BY <2>4
  <2> QED
    BY <2>1, <2>2, <2>3, <2>5
<1> HIDE DEF S
<1>3. n \in S
  BY <1>1, <1>2, Induction
<1> QED
  BY <1>3 DEF S

(***************************************************************************)
(* Quotient and remainder are the only ones.                               *)
(***************************************************************************)
LEMMA DivisionUnique ==
  ASSUME NEW w \in Nat, w > 0, NEW q \in Int, NEW k \in 0 .. w - 1, NEW y,
         y = w * q + k
  PROVE  y \in Int /\ y \div w = q /\ y % w = k
<1> DEFINE p == y \div w
           m == y % w
<1>1. y \in Int
  OBVIOUS
<1>2. p \in Int /\ m \in 0 .. w - 1 /\ y = w * p + m
  BY <1>1
<1> HIDE DEF p, m
<1>3. /\ w * p - w * q = k - m /\ w * p - w * q = w * (p - q)
      /\ w * (q - p) = m - k
  BY <1>2
<1>4. CASE p - q >= 1
  <2>1. w * (p - q) >= w
    BY <1>2, <1>4
  <2> QED
    BY <1>2, <1>3, <2>1
<1>5. CASE q - p >= 1
  <2>1. w * (q - p) >= w
    BY <1>2, <1>5
  <2> QED
    BY <1>2, <1>3, <2>1
<1>6. CASE p = q
  <2>1. m = k
    BY <1>2, <1>6
  <2> QED
    BY <1>1, <1>6, <2>1 DEF p, m
<1> QED
  BY <1>2, <1>4, <1>5, <1>6

(***************************************************************************)
(* Quotient and remainder, with their ranges.                              *)
(***************************************************************************)
LEMMA Division ==
  ASSUME NEW x \in Int, NEW w \in Nat, w > 0
  PROVE  /\ x \div w \in Int /\ x % w \in 0 .. w - 1 /\ x % w \in Nat
         /\ x = w * (x \div w) + (x % w)
         /\ x >= 0 => x \div w >= 0 /\ x \div w \in Nat
OBVIOUS

(***************************************************************************)
(* A product grows with its factor, strictly by at least the other one.    *)
(***************************************************************************)
LEMMA ProductGrows ==
  ASSUME NEW w \in Nat, w > 0, NEW p \in Int, NEW q \in Int
  PROVE  /\ w * p \in Int
         /\ p < q => w * p + w <= w * q
         /\ p <= q => w * p <= w * q
         /\ p >= 0 => w * p >= 0
<1>1. ASSUME p < q PROVE w * p + w <= w * q
  <2>1. w * (q - p) >= w
    BY <1>1
  <2>2. w * (q - p) = w * q - w * p
    OBVIOUS
  <2> QED
    BY <2>1, <2>2
<1> QED
  BY <1>1

(***************************************************************************)
(* Dividing in two steps.                                                  *)
(***************************************************************************)
LEMMA DivideTwice ==
  ASSUME NEW x \in Int, NEW p \in Nat, p > 0, NEW q \in Nat, q > 0
  PROVE  /\ p * q \in Nat /\ p * q > 0
         /\ x \div (p * q) = (x \div p) \div q
         /\ x % (p * q) = (x % p) + p * ((x \div p) % q)
<1> DEFINE u == x \div p
           r == x % p
           v == u \div q
           t == u % q
           w == p * q
           k == r + p * t
<1>1. u \in Int /\ r \in 0 .. p - 1 /\ x = p * u + r
  BY Division
<1> HIDE DEF u, r
<1>2. v \in Int /\ t \in 0 .. q - 1 /\ u = q * v + t
  BY <1>1, Division
<1> HIDE DEF v, t
<1>3. w \in Nat /\ w > 0
  <2>1. p * q >= p * 1
    BY ProductGrows
  <2> QED
    BY <2>1
<1>4. p * t \in Int /\ p * t >= 0 /\ p * t + p <= w
  BY <1>2, ProductGrows
<1>5. k \in 0 .. w - 1
  BY <1>1, <1>3, <1>4
<1>6. x = w * v + k
  <2>1. p * (q * v + t) = (p * q) * v + p * t
    BY <1>2
  <2>2. w * v \in Int
    BY <1>2, <1>3
  <2> QED
    BY <1>1, <1>2, <1>4, <2>1, <2>2
<1> HIDE DEF w, k
<1>7. x \div w = v /\ x % w = k
  BY <1>2, <1>3, <1>5, <1>6, DivisionUnique
<1> QED
  BY <1>3, <1>7 DEF u, r, v, t, w, k

------------------------------------------------------------------------------
\* Numbers from digits.

(***************************************************************************)
(* FromDigits adds one digit at a time.                                    *)
(***************************************************************************)
LEMMA DigitByDigit ==
  ASSUME NEW d, NEW w \in Nat, NEW n \in Nat, \A k \in 0 .. n - 1 : d[k] \in Nat
  PROVE  /\ FromDigits(d, w, 0) = 0
         /\ \A m \in 0 .. n : FromDigits(d, w, m) \in Int
         /\ \A m \in 0 .. n - 1 :
              FromDigits(d, w, m + 1) = FromDigits(d, w, m) + d[m] * Pow2[w * m]
<1> DEFINE term(k) == IF k \in 1 .. n THEN d[k - 1] * Pow2[w * (k - 1)] ELSE 0
           h == [k \in Nat |-> [v \in Int |-> v + term(k)]]
<1>1. ASSUME NEW k \in Nat PROVE term(k) \in Int
  <2>1. CASE k \in 1 .. n
    <3>1. k - 1 \in 0 .. n - 1 /\ k - 1 \in Nat
      BY <2>1
    <3>2. w * (k - 1) \in Nat
      BY <3>1
    <3>3. Pow2[w * (k - 1)] \in Int /\ d[k - 1] \in Int
      BY <3>1, <3>2, Pow2Recursion
    <3> QED
      BY <2>1, <3>3
  <2>2. CASE k \notin 1 .. n
    BY <2>2
  <2> QED
    BY <2>1, <2>2
<1> HIDE DEF term
<1>2. /\ h \in [Nat -> [Int -> Int]]
      /\ \A k \in Nat, v \in Int : h[k][v] = v + term(k)
  BY <1>1
<1> HIDE DEF h
<1>3. PICK f \in [Nat -> Int] :
        /\ f[0] = 0
        /\ \A k \in Nat : k > 0 => f[k] = h[k][f[k - 1]]
  <2>1. 0 \in Int
    OBVIOUS
  <2> QED
    BY <1>2, <2>1, RecursionExists, Zenon
<1>4. \A k \in Nat : k > 0 => f[k] = f[k - 1] + term(k)
  BY <1>2, <1>3
<1>5. ASSUME NEW m \in 0 .. n PROVE FromDigits(d, w, m) = f[m]
  <2> DEFINE P(g) == g = [k \in 0 .. m |->
               IF k = 0 THEN 0 ELSE g[k - 1] + d[k - 1] * Pow2[w * (k - 1)]]
             low == CHOOSE g : P(g)
             e == [k \in 0 .. m |-> f[k]]
  <2>1. FromDigits(d, w, m) = low[m]
    BY DEF FromDigits
  <2>2. ASSUME NEW k \in 0 .. m, k # 0
        PROVE  e[k] = e[k - 1] + d[k - 1] * Pow2[w * (k - 1)]
    <3>1. k \in Nat /\ k > 0 /\ k \in 1 .. n /\ k - 1 \in 0 .. m
      BY <2>2
    <3>2. f[k] = f[k - 1] + d[k - 1] * Pow2[w * (k - 1)]
      BY <1>4, <3>1 DEF term
    <3> QED
      BY <3>1, <3>2
  <2>3. e[0] = 0
    BY <1>3
  <2>4. e = [k \in 0 .. m |-> e[k]]
    OBVIOUS
  <2> HIDE DEF e
  <2>5. P(e)
    BY <2>2, <2>3, <2>4
  <2>6. P(low)
    BY <2>5
  <2> HIDE DEF low
  <2>7. /\ low[0] = 0
        /\ \A k \in 0 .. m : k # 0 =>
              low[k] = low[k - 1] + d[k - 1] * Pow2[w * (k - 1)]
    BY <2>6
  <2> DEFINE S == {k \in Nat : k <= m => low[k] = e[k]}
  <2>8. 0 \in S
    BY <2>3, <2>7
  <2>9. ASSUME NEW k \in Nat, k \in S PROVE k + 1 \in S
    <3>1. SUFFICES ASSUME k + 1 <= m PROVE low[k + 1] = e[k + 1]
      OBVIOUS
    <3>2. k + 1 \in 0 .. m /\ k + 1 # 0 /\ (k + 1) - 1 = k /\ low[k] = e[k]
      BY <2>9, <3>1
    <3> QED
      BY <2>2, <2>7, <3>2
  <2>10. m \in S
    <3> HIDE DEF S
    <3> QED
      BY <2>8, <2>9, Induction
  <2>11. low[m] = e[m] /\ e[m] = f[m]
    BY <2>10 DEF e
  <2> QED
    BY <2>1, <2>11
<1>6. ASSUME NEW m \in 0 .. n - 1
      PROVE  FromDigits(d, w, m + 1) = FromDigits(d, w, m) + d[m] * Pow2[w * m]
  <2>1. /\ m \in 0 .. n /\ m + 1 \in 0 .. n /\ m + 1 \in 1 .. n /\ m + 1 \in Nat
        /\ m + 1 > 0 /\ (m + 1) - 1 = m
    OBVIOUS
  <2>2. term(m + 1) = d[m] * Pow2[w * m]
    BY <2>1 DEF term
  <2>3. f[m + 1] = f[m] + term(m + 1)
    BY <1>4, <2>1
  <2> QED
    BY <1>5, <2>1, <2>2, <2>3
<1> QED
  BY <1>3, <1>5, <1>6

\* d holds the n lowest digits of x, of w bits each.
AreDigits(d, w, n, x) ==
    \A k \in 0 .. n - 1 : d[k] = (x \div Pow2[w * k]) % Pow2[w]

(***************************************************************************)
(* The lowest n digits of x, of w bits each, make up x modulo their range. *)
(***************************************************************************)
LEMMA DigitsOf ==
  ASSUME NEW d, NEW w \in Nat, NEW n \in Nat, NEW x \in Nat,
         AreDigits(d, w, n, x)
  PROVE  FromDigits(d, w, n) = x % Pow2[w * n]
<1>a. \A k \in 0 .. n - 1 : d[k] = (x \div Pow2[w * k]) % Pow2[w]
  BY DEF AreDigits
<1>1. ASSUME NEW k \in Nat
      PROVE  /\ w * k \in Nat /\ Pow2[w * k] \in Nat /\ Pow2[w * k] > 0
             /\ Pow2[w] \in Nat /\ Pow2[w] > 0
             /\ (x \div Pow2[w * k]) % Pow2[w] \in Nat
  <2>1. w * k \in Nat
    OBVIOUS
  <2>2. Pow2[w * k] \in Nat /\ Pow2[w * k] > 0 /\ Pow2[w] \in Nat /\ Pow2[w] > 0
    BY <2>1, Pow2Positive
  <2>3. x \div Pow2[w * k] \in Int
    BY <2>2, Division
  <2> QED
    BY <2>1, <2>2, <2>3, Division
<1>2. \A k \in 0 .. n - 1 : d[k] \in Nat
  BY <1>1, <1>a
<1>3. /\ FromDigits(d, w, 0) = 0
      /\ \A m \in 0 .. n - 1 :
           FromDigits(d, w, m + 1) = FromDigits(d, w, m) + d[m] * Pow2[w * m]
  BY <1>2, DigitByDigit
<1> DEFINE S == {m \in Nat : m <= n => FromDigits(d, w, m) = x % Pow2[w * m]}
<1>4. 0 \in S
  <2>1. w * 0 = 0 /\ Pow2[0] = 1 /\ x % 1 = 0
    BY Pow2Recursion
  <2> QED
    BY <1>3, <2>1
<1>5. ASSUME NEW m \in Nat, m \in S PROVE m + 1 \in S
  <2>1. SUFFICES ASSUME m + 1 <= n
                 PROVE  FromDigits(d, w, m + 1) = x % Pow2[w * (m + 1)]
    OBVIOUS
  <2>2. m \in 0 .. n - 1 /\ m <= n /\ FromDigits(d, w, m) = x % Pow2[w * m]
    BY <1>5, <2>1
  <2> DEFINE p == Pow2[w * m]
             q == Pow2[w]
  <2>3. p \in Nat /\ p > 0 /\ q \in Nat /\ q > 0 /\ w * m \in Nat
    BY <1>1
  <2>4. Pow2[w * (m + 1)] = p * q
    <3>1. w * (m + 1) = w * m + w
      OBVIOUS
    <3> QED
      BY <2>3, <3>1, Pow2Sum
  <2>5. d[m] = (x \div p) % q
    BY <1>a, <2>2
  <2>6. FromDigits(d, w, m + 1) = (x % p) + d[m] * p
    BY <1>3, <2>2
  <2> HIDE DEF p, q
  <2>7. x % (p * q) = (x % p) + p * ((x \div p) % q)
    BY <2>3, DivideTwice
  <2>8. d[m] \in Int
    BY <1>2, <2>2
  <2>9. d[m] * p = p * d[m]
    BY <2>3, <2>8
  <2> QED
    BY <2>4, <2>5, <2>6, <2>7, <2>9
<1>6. n \in S
  <2> HIDE DEF S
  <2> QED
    BY <1>4, <1>5, Induction
<1> QED
  BY <1>6

(***************************************************************************)
(* The width of a word: half of its values have the sign bit.              *)
(***************************************************************************)
LEMMA Width ==
  /\ WordBits \in Nat /\ WordBits > 0 /\ WordBits - 1 \in Nat
  /\ WordCard = Pow2[WordBits] /\ WordCard \in Nat /\ WordCard > 0
  /\ MostNegative = Pow2[WordBits - 1]
  /\ MostNegative \in Nat /\ MostNegative > 0
  /\ WordCard = 2 * MostNegative /\ S32Min = -MostNegative
<1> DEFINE h == Pow2[WordBits - 1]
<1>1. /\ WordBits \in Nat /\ WordBits > 0 /\ WordBits - 1 \in Nat
      /\ (WordBits - 1) + 1 = WordBits /\ WordCard = Pow2[WordBits]
  BY AluWidth
<1>2. h \in Nat /\ h > 0 /\ WordCard = 2 * h
  <2>1. h \in Nat /\ h > 0
    BY <1>1, Pow2Positive
  <2>2. Pow2[(WordBits - 1) + 1] = 2 * h
    BY <1>1, Pow2Recursion
  <2> QED
    BY <1>1, <2>1, <2>2
<1> HIDE DEF h
<1>3. WordCard \div 2 = h
  BY <1>2
<1> QED
  BY <1>1, <1>2, <1>3 DEF MostNegative, S32Min, h

(***************************************************************************)
(* A word read as s32.                                                     *)
(***************************************************************************)
LEMMA Signed ==
  ASSUME NEW x \in Word
  PROVE  /\ x \in Nat /\ x < WordCard
         /\ S32(x) \in Int /\ -MostNegative <= S32(x) /\ S32(x) < MostNegative
         /\ x < MostNegative => S32(x) = x
         /\ x >= MostNegative => S32(x) = x - WordCard
         /\ S32(x) < 0 <=> x >= MostNegative
BY Width DEF Word, S32

(***************************************************************************)
(* Digits of a number made of a high part and m low digits.                *)
(***************************************************************************)
LEMMA DigitSplit ==
  ASSUME NEW m \in Nat, NEW c \in Nat, NEW r \in 0 .. Pow2[m] - 1, NEW k \in Nat
  PROVE  /\ k < m => Digit(Pow2[m] * c + r, k) = Digit(r, k)
         /\ k >= m => Digit(Pow2[m] * c + r, k) = Digit(c, k - m)
<1> DEFINE M == Pow2[m]
           z == M * c + r
           p == Pow2[k]
<1>1. M \in Nat /\ M > 0 /\ p \in Nat /\ p > 0 /\ r \in Nat /\ r < M
  BY Pow2Positive
<1>2. M * c \in Int /\ M * c >= 0 /\ z \in Int
  BY <1>1, ProductGrows
<1>3. ASSUME k < m PROVE Digit(z, k) = Digit(r, k)
  <2> DEFINE e == Pow2[m - k - 1]
             u == r \div p
             s == r % p
             i == u \div 2
             t == u % 2
  <2>1. M = p * (2 * e) /\ e \in Nat
    <3>1. m - k - 1 \in Nat /\ m - k \in Nat /\ (m - k - 1) + 1 = m - k /\ k + (m - k) = m
      BY <1>3
    <3>2. Pow2[m - k] = 2 * e /\ e \in Nat
      BY <3>1, Pow2Recursion, Pow2Positive
    <3>3. Pow2[k + (m - k)] = p * Pow2[m - k]
      BY <3>1, Pow2Sum
    <3> QED
      BY <3>1, <3>2, <3>3
  <2>2. u \in Int /\ s \in 0 .. p - 1 /\ r = p * u + s
    <3>1. p \in Nat /\ p > 0 /\ r \in Int
      BY <1>1
    <3> HIDE DEF p
    <3> QED
      BY <3>1, Division
  <2> HIDE DEF e, u, s
  <2>3. i \in Int /\ t \in 0 .. 1 /\ u = 2 * i + t
    BY <2>2
  <2> HIDE DEF i, t
  <2> DEFINE g == e * c
  <2>4. g \in Int
    BY <2>1
  <2>5. M * c = p * (2 * g)
    BY <1>1, <2>1
  <2> HIDE DEF g, M
  <2>6. z = p * (2 * g + u) + s
    <3>1. p * (2 * g + u) = p * (2 * g) + p * u
      BY <1>1, <2>2, <2>4
    <3>2. p * (2 * g) \in Int /\ p * u \in Int
      BY <1>1, <2>2, <2>4
    <3> QED
      BY <2>2, <2>5, <3>1, <3>2
  <2> DEFINE v == 2 * g + u
  <2>7. v \in Int /\ v = 2 * (g + i) + t
    BY <2>2, <2>3, <2>4
  <2> HIDE DEF v, z
  <2>8. z = p * v + s
    BY <2>6 DEF v
  <2> HIDE DEF p
  <2>9. z \div p = v
    BY <1>1, <2>2, <2>7, <2>8, DivisionUnique
  <2>10. v % 2 = t
    BY <2>3, <2>4, <2>7
  <2>11. u % 2 = t
    BY DEF t
  <2> QED
    BY <2>9, <2>10, <2>11 DEF Digit, u, p
<1>4. ASSUME k >= m PROVE Digit(z, k) = Digit(c, k - m)
  <2> DEFINE q == Pow2[k - m]
  <2>1. k - m \in Nat /\ m + (k - m) = k
    BY <1>4
  <2>2. p = M * q /\ q \in Nat /\ q > 0
    <3>1. Pow2[m + (k - m)] = Pow2[m] * Pow2[k - m]
      BY <2>1, Pow2Sum
    <3>2. q \in Nat /\ q > 0
      BY <2>1, Pow2Positive
    <3> QED
      BY <2>1, <3>1, <3>2
  <2>3. z \div M = c
    <3>1. r \in 0 .. M - 1 /\ c \in Int
      BY <1>1
    <3> QED
      BY <1>1, <3>1, DivisionUnique
  <2> HIDE DEF p, q, M, z
  <2>4. z \div p = (z \div M) \div q
    BY <1>1, <1>2, <2>2, DivideTwice
  <2> QED
    BY <2>3, <2>4 DEF Digit, p, q
<1> QED
  BY <1>3, <1>4

(***************************************************************************)
(* Digits are zeros and ones; those beyond a number are zeros.             *)
(***************************************************************************)
LEMMA DigitRange ==
  ASSUME NEW x \in Nat, NEW k \in Nat
  PROVE  /\ Digit(x, k) \in {0, 1}
         /\ x < Pow2[k] => Digit(x, k) = 0
<1>1. Pow2[k] \in Nat /\ Pow2[k] > 0
  BY Pow2Positive
<1>2. x \div Pow2[k] \in Int
  BY <1>1, Division
<1>3. Digit(x, k) \in {0, 1}
  BY <1>2 DEF Digit
<1>4. ASSUME x < Pow2[k] PROVE Digit(x, k) = 0
  <2> DEFINE p == Pow2[k]
  <2>1. p \in Nat /\ p > 0 /\ x \in 0 .. p - 1
    BY <1>1, <1>4
  <2> HIDE DEF p
  <2>2. x = p * 0 + x
    BY <2>1
  <2>3. x \div p = 0
    BY <2>1, <2>2, DivisionUnique
  <2> QED
    BY <2>3 DEF Digit, p
<1> QED
  BY <1>3, <1>4

(***************************************************************************)
(* The digits of 2^j - 1 are ones.                                         *)
(***************************************************************************)
LEMMA AllOnes ==
  ASSUME NEW j \in Nat, NEW k \in Nat, k < j
  PROVE  Pow2[j] - 1 \in Nat /\ Digit(Pow2[j] - 1, k) = 1
<1> DEFINE p == Pow2[k]
           e == Pow2[j - k - 1]
<1>1. j - k - 1 \in Nat /\ j - k \in Nat /\ (j - k - 1) + 1 = j - k /\ k + (j - k) = j
  OBVIOUS
<1>2. p \in Nat /\ p > 0 /\ e \in Nat /\ e > 0 /\ Pow2[j] \in Nat /\ Pow2[j] > 0
  BY <1>1, Pow2Positive
<1>3. Pow2[j] = p * (2 * e)
  <2>1. Pow2[j - k] = 2 * e
    BY <1>1, Pow2Recursion
  <2>2. Pow2[k + (j - k)] = p * Pow2[j - k]
    BY <1>1, Pow2Sum
  <2> QED
    BY <1>1, <2>1, <2>2
<1> DEFINE z == Pow2[j] - 1
           v == 2 * e - 1
           s == p - 1
<1>4. v \in Int /\ s \in 0 .. p - 1 /\ v % 2 = 1
  BY <1>2
<1>5. z = p * v + s
  <2>1. p * (2 * e - 1) = p * (2 * e) - p
    BY <1>2
  <2> QED
    BY <1>2, <1>3, <2>1
<1> HIDE DEF z, v, s, p
<1>6. z \div p = v
  BY <1>2, <1>4, <1>5, DivisionUnique
<1> QED
  BY <1>2, <1>4, <1>6 DEF Digit, z, p

(***************************************************************************)
(* A word is the number with its binary digits.                            *)
(***************************************************************************)
LEMMA BitsOf ==
  ASSUME NEW d, NEW z \in Word, \A k \in 0 .. WordBits - 1 : d[k] = Digit(z, k)
  PROVE  OfBits(d) = z
<1>1. z \in Nat /\ z < WordCard /\ WordBits \in Nat
  BY Signed, Width
<1>2. Pow2[1] = 2
  <2>1. 0 + 1 = 1
    OBVIOUS
  <2> QED
    BY <2>1, Pow2Recursion
<1>3. AreDigits(d, 1, WordBits, z)
  <2>1. \A k \in 0 .. WordBits - 1 : 1 * k = k
    BY <1>1
  <2> QED
    BY <1>2, <2>1 DEF Digit, AreDigits
<1>4. FromDigits(d, 1, WordBits) = z % Pow2[1 * WordBits]
  <2>1. 1 \in Nat
    OBVIOUS
  <2> QED
    BY <1>1, <1>3, <2>1, DigitsOf
<1>5. 1 * WordBits = WordBits
  BY <1>1
<1>6. z % WordCard = z
  BY <1>1, Width
<1> QED
  BY <1>4, <1>5, <1>6, Width DEF OfBits

------------------------------------------------------------------------------
\* The bitwise operators on words cut at digit m.

(***************************************************************************)
(* A word cut at digit m: the values of its two parts.                     *)
(***************************************************************************)
LEMMA Cut ==
  ASSUME NEW m \in 0 .. WordBits
  PROVE  /\ m \in Nat /\ WordBits - m \in Nat
         /\ Pow2[m] \in Nat /\ Pow2[m] > 0
         /\ Pow2[WordBits - m] \in Nat /\ Pow2[WordBits - m] > 0
         /\ WordCard = Pow2[m] * Pow2[WordBits - m]
         /\ \A x \in Word : /\ x \div Pow2[m] \in 0 .. Pow2[WordBits - m] - 1
                            /\ x % Pow2[m] \in 0 .. Pow2[m] - 1
                            /\ x = Pow2[m] * (x \div Pow2[m]) + (x % Pow2[m])
         /\ \A c \in 0 .. Pow2[WordBits - m] - 1, r \in 0 .. Pow2[m] - 1 :
              Pow2[m] * c + r \in Word
<1> DEFINE M == Pow2[m]
           Q == Pow2[WordBits - m]
<1>1. m \in Nat /\ WordBits - m \in Nat /\ m + (WordBits - m) = WordBits
  BY Width
<1>2. M \in Nat /\ M > 0 /\ Q \in Nat /\ Q > 0
  BY <1>1, Pow2Positive
<1>3. WordCard = M * Q
  <2>1. Pow2[m + (WordBits - m)] = M * Q
    BY <1>1, Pow2Sum
  <2> QED
    BY <1>1, <2>1, Width
<1> HIDE DEF M, Q
<1>4. ASSUME NEW x \in Word
      PROVE  /\ x \div M \in 0 .. Q - 1 /\ x % M \in 0 .. M - 1
             /\ x = M * (x \div M) + (x % M)
  <2> DEFINE c == x \div M
             r == x % M
  <2>1. x \in Nat /\ x < WordCard
    BY Signed
  <2>2. c \in Int /\ c >= 0 /\ r \in 0 .. M - 1 /\ x = M * c + r
    BY <1>2, <2>1, Division
  <2> HIDE DEF c, r
  <2>3. c < Q
    <3>1. SUFFICES ASSUME Q <= c PROVE FALSE
      BY <1>2, <2>2
    <3>2. M * Q <= M * c /\ M * c \in Int
      BY <1>2, <2>2, <3>1, ProductGrows
    <3> QED
      BY <1>2, <1>3, <2>1, <2>2, <3>2, Width
  <2> QED
    BY <1>2, <2>2, <2>3 DEF c, r
<1>5. ASSUME NEW c \in 0 .. Q - 1, NEW r \in 0 .. M - 1 PROVE M * c + r \in Word
  <2>1. M * c \in Int /\ M * c >= 0 /\ M * c + M <= M * Q
    BY <1>2, ProductGrows
  <2> QED
    BY <1>2, <1>3, <2>1, Width DEF Word
<1> QED
  BY <1>1, <1>2, <1>3, <1>4, <1>5 DEF M, Q

(***************************************************************************)
(* Or of a word below digit m and one from it on is their sum.             *)
(***************************************************************************)
LEMMA OrDisjoint ==
  ASSUME NEW m \in 0 .. WordBits, NEW c \in 0 .. Pow2[WordBits - m] - 1,
         NEW r \in 0 .. Pow2[m] - 1
  PROVE  /\ Or(r, Pow2[m] * c) = Pow2[m] * c + r
         /\ Or(Pow2[m] * c, r) = Pow2[m] * c + r
<1> DEFINE M == Pow2[m]
           y == M * c
           z == M * c + r
<1>1. /\ m \in Nat /\ M \in Nat /\ M > 0 /\ c \in Nat /\ r \in Nat /\ z \in Word
      /\ 0 \in 0 .. M - 1
  BY Cut
<1>2. y = M * c + 0 /\ r = M * 0 + r
  BY <1>1
<1>3. ASSUME NEW k \in 0 .. WordBits - 1
      PROVE  /\ Flag(Digit(r, k) + Digit(y, k) > 0) = Digit(z, k)
             /\ Flag(Digit(y, k) + Digit(r, k) > 0) = Digit(z, k)
  <2>1. k \in Nat
    OBVIOUS
  <2>2. CASE k < m
    <3>1. Digit(z, k) = Digit(r, k) /\ Digit(y, k) = Digit(0, k)
      BY <1>1, <1>2, <2>1, <2>2, DigitSplit
    <3>2. Digit(0, k) = 0 /\ Digit(r, k) \in {0, 1}
      <4>1. 0 < Pow2[k]
        BY <2>1, Pow2Positive
      <4> QED
        BY <1>1, <2>1, <4>1, DigitRange
    <3> QED
      BY <3>1, <3>2 DEF Flag
  <2>3. CASE k >= m
    <3>1. k - m \in Nat
      BY <1>1, <2>1, <2>3
    <3>2. /\ Digit(z, k) = Digit(c, k - m) /\ Digit(y, k) = Digit(c, k - m)
      BY <1>1, <1>2, <2>1, <2>3, DigitSplit
    <3>3. Digit(r, k) = Digit(0, k - m)
      <4>1. 0 \in Nat /\ r \in 0 .. Pow2[m] - 1
        OBVIOUS
      <4>2. Digit(M * 0 + r, k) = Digit(0, k - m)
        BY <1>1, <2>1, <2>3, <4>1, DigitSplit
      <4> QED
        BY <1>2, <4>2
    <3>4. Digit(0, k - m) = 0 /\ Digit(c, k - m) \in {0, 1}
      <4>1. 0 < Pow2[k - m]
        BY <3>1, Pow2Positive
      <4> QED
        BY <1>1, <3>1, <4>1, DigitRange
    <3> QED
      BY <3>2, <3>3, <3>4 DEF Flag
  <2> QED
    BY <1>1, <2>1, <2>2, <2>3
<1> HIDE DEF y, z
<1>4. Or(r, y) = z /\ Or(y, r) = z
  BY <1>1, <1>3, BitsOf DEF Or
<1> QED
  BY <1>4 DEF y, z

(***************************************************************************)
(* And with the complement of m ones clears the m lowest digits.           *)
(***************************************************************************)
LEMMA AndHigh ==
  ASSUME NEW m \in 0 .. WordBits, NEW x \in Word
  PROVE  And(x, Not(Pow2[m] - 1)) = Pow2[m] * (x \div Pow2[m])
<1> DEFINE M == Pow2[m]
           Q == Pow2[WordBits - m]
           c == x \div M
           r == x % M
           y == Not(M - 1)
           z == M * c
<1>1. /\ m \in Nat /\ M \in Nat /\ M > 0 /\ Q \in Nat /\ Q > 0
      /\ c \in 0 .. Q - 1 /\ r \in 0 .. M - 1 /\ x = M * c + r
      /\ WordCard = M * Q /\ WordBits - m \in Nat
  BY Cut
<1>2. z \in Word /\ z = M * c + 0 /\ c \in Nat /\ 0 \in 0 .. M - 1
  <2>1. c \in Nat /\ 0 \in 0 .. M - 1
    BY <1>1
  <2>2. M * c + 0 \in Word
    BY <1>1, <2>1, Cut
  <2>3. M * c = M * c + 0
    BY <1>1, <2>1
  <2> QED
    BY <2>1, <2>2, <2>3
<1>3. y = M * (Q - 1) + 0 /\ Q - 1 \in Nat
  <2>1. M * (Q - 1) = M * Q - M
    BY <1>1
  <2> QED
    BY <1>1, <2>1 DEF Not
<1>4. ASSUME NEW k \in 0 .. WordBits - 1
      PROVE  Digit(x, k) * Digit(y, k) = Digit(z, k)
  <2>1. k \in Nat
    OBVIOUS
  <2> HIDE DEF y, z, c, r, Q
  <2>2. CASE k < m
    <3>1. /\ Digit(x, k) = Digit(r, k) /\ Digit(y, k) = Digit(0, k)
          /\ Digit(z, k) = Digit(0, k)
      BY <1>1, <1>2, <1>3, <2>1, <2>2, DigitSplit
    <3>2. Digit(0, k) = 0 /\ Digit(r, k) \in {0, 1}
      <4>1. 0 < Pow2[k] /\ r \in Nat
        BY <1>1, <2>1, Pow2Positive
      <4> QED
        BY <2>1, <4>1, DigitRange
    <3> QED
      BY <3>1, <3>2
  <2>3. CASE k >= m
    <3>1. k - m \in Nat /\ k - m < WordBits - m
      BY <1>1, <2>1, <2>3, Width
    <3>2. /\ Digit(x, k) = Digit(c, k - m) /\ Digit(y, k) = Digit(Q - 1, k - m)
          /\ Digit(z, k) = Digit(c, k - m)
      BY <1>1, <1>2, <1>3, <2>1, <2>3, DigitSplit
    <3>3. Digit(Q - 1, k - m) = 1
      BY <1>1, <3>1, AllOnes DEF Q
    <3>4. Digit(c, k - m) \in {0, 1}
      BY <1>2, <3>1, DigitRange
    <3> QED
      BY <3>2, <3>3, <3>4
  <2> QED
    BY <1>1, <2>1, <2>2, <2>3
<1> HIDE DEF y, z
<1>5. And(x, y) = z
  BY <1>2, <1>4, BitsOf DEF And
<1> QED
  BY <1>5 DEF y, z

(***************************************************************************)
(* And with m ones keeps the m lowest digits.                              *)
(***************************************************************************)
LEMMA AndLow ==
  ASSUME NEW m \in 0 .. WordBits, NEW x \in Word
  PROVE  And(x, Pow2[m] - 1) = x % Pow2[m]
<1> DEFINE M == Pow2[m]
           Q == Pow2[WordBits - m]
           c == x \div M
           r == x % M
           y == M - 1
<1>1. /\ m \in Nat /\ M \in Nat /\ M > 0 /\ Q \in Nat /\ Q > 0
      /\ c \in 0 .. Q - 1 /\ r \in 0 .. M - 1 /\ x = M * c + r
  BY Cut
<1>2. /\ r = M * 0 + r /\ c \in Nat /\ 0 \in 0 .. Q - 1
      /\ y = M * 0 + y /\ y \in 0 .. M - 1
  BY <1>1
<1>3. r \in Word
  BY <1>1, <1>2, Cut
<1>4. ASSUME NEW k \in 0 .. WordBits - 1
      PROVE  Digit(x, k) * Digit(y, k) = Digit(r, k)
  <2>1. k \in Nat /\ r \in Nat /\ y \in Nat
    BY <1>1
  <2> HIDE DEF c, r, Q
  <2>2. CASE k < m
    <3>1. Digit(x, k) = Digit(r, k)
      BY <1>1, <1>2, <2>1, <2>2, DigitSplit
    <3>2. Digit(y, k) = 1 /\ Digit(r, k) \in {0, 1}
      BY <1>1, <2>1, <2>2, AllOnes, DigitRange
    <3> QED
      BY <3>1, <3>2
  <2> HIDE DEF y
  <2>3. CASE k >= m
    <3>1. k - m \in Nat
      BY <1>1, <2>1, <2>3
    <3>2. 0 \in Nat
      OBVIOUS
    <3>3. Digit(M * 0 + r, k) = Digit(0, k - m) /\ Digit(M * 0 + y, k) = Digit(0, k - m)
      BY <1>1, <1>2, <2>1, <2>3, <3>2, DigitSplit
    <3>4. Digit(0, k - m) = 0
      <4>1. 0 < Pow2[k - m]
        BY <3>1, Pow2Positive
      <4> QED
        BY <3>1, <3>2, <4>1, DigitRange
    <3>5. Digit(x, k) \in {0, 1}
      BY <2>1, DigitRange, Signed
    <3>6. Digit(r, k) = 0 /\ Digit(y, k) = 0
      BY <1>2, <3>3, <3>4
    <3> QED
      BY <3>5, <3>6
  <2> QED
    BY <1>1, <2>1, <2>2, <2>3
<1> HIDE DEF y, r
<1>5. And(x, y) = r
  BY <1>3, <1>4, BitsOf DEF And
<1> QED
  BY <1>5 DEF y, r

(***************************************************************************)
(* Xor with the most negative word flips the sign bit.                     *)
(***************************************************************************)
LEMMA XorSign ==
  ASSUME NEW x \in Word
  PROVE  Xor(x, MostNegative) = IF x < MostNegative THEN x + MostNegative
                                                    ELSE x - MostNegative
<1>1. PICK m \in Nat : m = WordBits - 1
  BY Width
<1> DEFINE M == Pow2[m]
<1>2. Pow2[1] = 2 /\ Pow2[0] = 1 /\ WordBits - m = 1 /\ m \in 0 .. WordBits
      /\ M = MostNegative
  <2>1. 0 + 1 = 1
    OBVIOUS
  <2> QED
    BY <1>1, <2>1, Pow2Recursion, Width
<1>3. PICK c \in 0 .. 1, r \in 0 .. M - 1 : x = M * c + r
  <2>1. /\ x \div M \in 0 .. Pow2[WordBits - m] - 1 /\ x % M \in 0 .. M - 1
        /\ x = M * (x \div M) + (x % M)
    BY <1>2, Cut
  <2>2. Pow2[WordBits - m] - 1 = 1
    BY <1>2
  <2> QED
    BY <2>1, <2>2
<1>a. M \in Nat /\ M > 0
  BY Pow2Positive
<1> DEFINE z == M * (1 - c) + r
<1>4. z \in Word
  <2>1. 1 - c \in 0 .. Pow2[WordBits - m] - 1
    BY <1>2
  <2> QED
    BY <1>2, <2>1, Cut
<1>5. z = IF x < M THEN x + M ELSE x - M
  <2> HIDE DEF M
  <2>1. CASE c = 0
    BY <1>3, <1>a, <2>1
  <2>2. CASE c = 1
    BY <1>3, <1>a, <2>2
  <2> QED
    BY <1>3, <2>1, <2>2
<1>6. M = M * 1 + 0 /\ 0 \in 0 .. M - 1 /\ 1 \in Nat /\ c \in Nat /\ 1 - c \in Nat
  <2> HIDE DEF M
  <2> QED
    BY <1>a
<1>7. ASSUME NEW k \in 0 .. WordBits - 1
      PROVE  (Digit(x, k) + Digit(M, k)) % 2 = Digit(z, k)
  <2>1. k \in Nat
    OBVIOUS
  <2>2. k < m \/ k = m
    BY <1>1, <2>1, Width
  <2>3. CASE k < m
    <3>1. Digit(x, k) = Digit(r, k) /\ Digit(z, k) = Digit(r, k)
      BY <1>3, <1>6, <2>1, <2>3, DigitSplit
    <3>2. Digit(M * 1 + 0, k) = Digit(0, k)
      BY <1>3, <1>6, <2>1, <2>3, DigitSplit
    <3>3. Digit(0, k) = 0 /\ Digit(r, k) \in {0, 1}
      <4>1. 0 < Pow2[k] /\ r \in Nat /\ 0 \in Nat
        BY <1>3, <2>1, Pow2Positive
      <4> QED
        BY <2>1, <4>1, DigitRange
    <3>4. Digit(M, k) = 0
      BY <1>6, <3>2, <3>3
    <3> QED
      BY <3>1, <3>3, <3>4
  <2>4. CASE k = m
    <3>1. k - m = 0 /\ k >= m
      BY <1>3, <2>4
    <3>2. Digit(x, k) = Digit(c, 0) /\ Digit(z, k) = Digit(1 - c, 0)
      BY <1>3, <1>6, <2>1, <3>1, DigitSplit
    <3>3. Digit(M * 1 + 0, k) = Digit(1, 0)
      BY <1>3, <1>6, <2>1, <3>1, DigitSplit
    <3>4. Digit(M, k) = Digit(1, 0)
      BY <1>6, <3>3
    <3>5. Digit(0, 0) = 0 /\ Digit(1, 0) = 1
      BY <1>2 DEF Digit
    <3>6. CASE c = 0
      BY <3>2, <3>4, <3>5, <3>6
    <3>7. CASE c = 1
      BY <3>2, <3>4, <3>5, <3>7
    <3> QED
      BY <1>3, <3>6, <3>7
  <2> QED
    BY <2>2, <2>3, <2>4
<1> HIDE DEF z, M
<1>8. Xor(x, M) = z
  BY <1>4, <1>7, BitsOf DEF Xor
<1> QED
  BY <1>2, <1>5, <1>8

(***************************************************************************)
(* The three shifts, as products and quotients of powers of two, and the   *)
(* masks made by shifting all ones.                                        *)
(***************************************************************************)
LEMMA Shifted ==
  ASSUME NEW s \in 0 .. WordBits, NEW x \in Word,
         NEW p, p = Pow2[s], NEW q, q = Pow2[WordBits - s]
  PROVE  /\ p \in Nat /\ p > 0 /\ q \in Nat /\ q > 0 /\ WordCard = p * q
         /\ ShiftRight(x, s) = x \div p /\ x \div p \in 0 .. q - 1
         /\ ShiftLeft(x, s) = p * (x % q) /\ x % q \in 0 .. q - 1
         /\ ShiftRight(WordCard - 1, s) = q - 1
         /\ Not(q - 1) = q * (p - 1)
         /\ Not(ShiftLeft(WordCard - 1, s)) = p - 1
         /\ ShiftRightArith(x, s) = IF x < MostNegative THEN x \div p
                                    ELSE q * (p - 1) + (x \div p)
<1>1. p \in Nat /\ p > 0 /\ q \in Nat /\ q > 0
  BY Cut
<1>a. WordCard = p * q
  BY Cut
<1>b. /\ x \div p \in 0 .. q - 1
      /\ x % p \in 0 .. p - 1 /\ x = p * (x \div p) + (x % p)
  BY Cut
<1>2. PICK W : W = p * q
  OBVIOUS
<1>3. /\ WordCard = W /\ W \in Nat /\ W > 0 /\ x \in Nat /\ x < W
      /\ W - 1 \in Word
  <2>1. WordCard \in Nat /\ WordCard > 0 /\ x \in Nat /\ x < WordCard
    BY Width, Signed
  <2>2. WordCard = W
    BY <1>2, <1>a
  <2> QED
    BY <2>1, <2>2 DEF Word
<1>4. ShiftRight(x, s) = x \div p
  BY DEF ShiftRight
<1>5. ASSUME NEW y \in Nat
      PROVE  ShiftLeft(y, s) = p * (y % q) /\ y % q \in 0 .. q - 1
  <2>1. PICK c \in Int, r \in 0 .. q - 1 : y = q * c + r /\ y % q = r
    <3>1. y \div q \in Int /\ y % q \in 0 .. q - 1 /\ y = q * (y \div q) + (y % q)
      BY <1>1, Division
    <3> QED
      BY <3>1, Zenon
  <2>2. y * p = W * c + p * r
    <3>1. (q * c + r) * p = (p * q) * c + p * r
      BY <1>1
    <3> QED
      BY <1>2, <2>1, <3>1
  <2>3. p * r \in 0 .. W - 1
    <3>1. p * r \in Int /\ p * r + p <= p * q /\ p * r >= 0
      BY <1>1, <2>1, ProductGrows
    <3> QED
      BY <1>1, <1>2, <1>3, <3>1
  <2>4. PICK z, k : z = y * p /\ k = p * r
    OBVIOUS
  <2>5. z % W = k
    <3>1. W \in Nat /\ W > 0 /\ c \in Int /\ k \in 0 .. W - 1 /\ z = W * c + k
      BY <1>3, <2>1, <2>2, <2>3, <2>4
    <3> QED
      BY <3>1, DivisionUnique, Zenon
  <2> QED
    BY <1>3, <2>1, <2>4, <2>5 DEF ShiftLeft, U32
<1>6. ShiftRight(WordCard - 1, s) = q - 1
  <2>1. W - 1 = p * (q - 1) + (p - 1)
    BY <1>1, <1>2
  <2>2. (W - 1) \div p = q - 1
    <3>1. q - 1 \in Int /\ p - 1 \in 0 .. p - 1
      BY <1>1
    <3>2. PICK z, k, l : z = W - 1 /\ k = q - 1 /\ l = p - 1
      OBVIOUS
    <3>3. z = p * k + l /\ k \in Int /\ l \in 0 .. p - 1
      BY <2>1, <3>1, <3>2
    <3>4. z \div p = k
      BY <1>1, <3>3, DivisionUnique
    <3> QED
      BY <3>2, <3>4
  <2> QED
    BY <1>3, <2>2 DEF ShiftRight
<1>7. Not(q - 1) = q * (p - 1)
  <2>1. (p * q) - 1 - (q - 1) = q * (p - 1)
    BY <1>1
  <2> QED
    BY <1>a, <2>1 DEF Not
<1>8. Not(ShiftLeft(WordCard - 1, s)) = p - 1
  <2>1. (W - 1) % q = q - 1
    <3>1. W - 1 = q * (p - 1) + (q - 1)
      BY <1>1, <1>2
    <3>2. p - 1 \in Int /\ q - 1 \in 0 .. q - 1
      BY <1>1
    <3>3. PICK z, k, l : z = W - 1 /\ k = q - 1 /\ l = p - 1
      OBVIOUS
    <3>4. z = q * l + k /\ l \in Int /\ k \in 0 .. q - 1
      BY <3>1, <3>2, <3>3
    <3>5. z % q = k
      BY <1>1, <3>4, DivisionUnique
    <3> QED
      BY <3>3, <3>5
  <2>2. W - 1 \in Nat
    BY <1>3
  <2>3. ShiftLeft(W - 1, s) = p * (q - 1)
    BY <1>5, <2>1, <2>2
  <2> QED
    <3>1. (p * q) - 1 - (p * (q - 1)) = p - 1
      BY <1>1
    <3> QED
      BY <1>2, <1>3, <2>3, <3>1 DEF Not
<1>9. ShiftRightArith(x, s) = IF x < MostNegative THEN x \div p
                             ELSE q * (p - 1) + (x \div p)
  <2>1. PICK d, r : d = x \div p /\ r = x % p
    OBVIOUS
  <2>2. d \in 0 .. q - 1 /\ r \in 0 .. p - 1 /\ x = p * d + r
    BY <1>b, <2>1
  <2>3. CASE x < MostNegative
    <3>1. S32(x) = x
      BY <2>3, Signed
    <3>2. q <= W
      <4>1. q * 1 <= q * p /\ q * p = p * q
        BY <1>1, ProductGrows
      <4> QED
        BY <1>1, <1>2, <4>1
    <3>3. d % W = d
      BY <1>1, <1>3, <2>2, <3>2
    <3> QED
      BY <1>3, <2>1, <2>3, <3>1, <3>3 DEF ShiftRightArith, U32
  <2>4. CASE ~(x < MostNegative)
    <3>1. S32(x) = x - W /\ x - W \in Int
      BY <1>3, <2>4, Signed, Width
    <3>2. x - W = p * (d - q) + r /\ d - q \in Int
      <4>1. p * (d - q) = p * d - p * q /\ p * d \in Int
        BY <1>1, <2>2
      <4> QED
        BY <1>1, <1>2, <1>3, <2>2, <4>1
    <3>3. PICK z, e : z = x - W /\ e = d - q
      OBVIOUS
    <3>4. z \div p = e
      <4>1. /\ p \in Nat /\ p > 0 /\ e \in Int /\ r \in 0 .. p - 1
            /\ z = p * e + r
        BY <1>1, <2>2, <3>2, <3>3
      <4> QED
        BY <4>1, DivisionUnique, Zenon
    <3>5. e \in Int /\ e < 0 /\ e + W = q * (p - 1) + d
      <4>1. q * (p - 1) = W - q
        BY <1>1, <1>2
      <4> QED
        BY <1>1, <1>3, <2>2, <3>3, <4>1
    <3>6. e + W >= 0
      <4>1. q * 1 <= q * p /\ q * p = p * q
        BY <1>1, ProductGrows
      <4> QED
        BY <1>1, <1>2, <1>3, <2>2, <3>3, <4>1
    <3>7. e % W = e + W
      <4>1. e = W * (-1) + (e + W) /\ -1 \in Int /\ e + W \in 0 .. W - 1
        BY <1>3, <3>5, <3>6
      <4>2. PICK k, l : k = e + W /\ l = -1
        OBVIOUS
      <4>3. e = W * l + k /\ l \in Int /\ k \in 0 .. W - 1
        BY <4>1, <4>2
      <4>4. e % W = k
        BY <1>3, <4>3, DivisionUnique
      <4> QED
        BY <4>2, <4>4
    <3> QED
      BY <1>3, <2>1, <2>4, <3>1, <3>3, <3>4, <3>5, <3>7 DEF ShiftRightArith, U32
  <2> QED
    BY <2>3, <2>4
<1>10. x \in Nat
  BY <1>3
<1> QED
  BY <1>1, <1>a, <1>b, <1>4, <1>5, <1>6, <1>7, <1>8, <1>9, <1>10

------------------------------------------------------------------------------
\* Bytes of a number, and of memory.

\* The range of n bytes, and byte k of a number.
Span(n) == Pow2[ByteBits * n]
Byte(x, k) == (x \div Span(k)) % ByteCard

\* The field of q values from p on, and a number with g above that field.
Field(z, p, q) == (z \div p) % q
Above(g, p, q, r) == p * (q * g) + r

(***************************************************************************)
(* A field of a number, q values from p on, does not see what lies above   *)
(* it.                                                                     *)
(***************************************************************************)
LEMMA FieldBelow ==
  ASSUME NEW p \in Nat, p > 0, NEW q \in Nat, q > 0, NEW g \in Int,
         NEW r \in Int
  PROVE  Field(Above(g, p, q, r), p, q) = Field(r, p, q)
<1>a. PICK z : z = Above(g, p, q, r)
  OBVIOUS
<1>b. z = p * (q * g) + r
  BY <1>a DEF Above
<1>1. PICK u, s : u = r \div p /\ s = r % p
  OBVIOUS
<1>2. u \in Int /\ s \in 0 .. p - 1 /\ r = p * u + s
  BY <1>1, Division
<1>3. PICK i, t : i = u \div q /\ t = u % q
  OBVIOUS
<1>4. i \in Int /\ t \in 0 .. q - 1 /\ u = q * i + t
  BY <1>2, <1>3, Division
<1>5. PICK v : v = q * g + u
  OBVIOUS
<1>6. v \in Int /\ v = q * (g + i) + t /\ g + i \in Int
  BY <1>2, <1>4, <1>5
<1>7. z = p * v + s
  <2>1. p * (q * g + u) = p * (q * g) + p * u
    BY <1>2
  <2>2. p * (q * g) \in Int /\ p * u \in Int
    BY <1>2
  <2> QED
    BY <1>2, <1>5, <1>b, <2>1, <2>2
<1>8. z \div p = v
  <2>1. v \in Int
    BY <1>6
  <2>2. s \in 0 .. p - 1
    BY <1>2
  <2> QED
    BY <1>7, <2>1, <2>2, DivisionUnique
<1>9. v % q = t
  <2>1. PICK f : f = g + i
    OBVIOUS
  <2>2. f \in Int /\ v = q * f + t
    BY <1>6, <2>1
  <2> QED
    BY <1>4, <2>2, DivisionUnique
<1> QED
  BY <1>1, <1>3, <1>8, <1>9, <1>a DEF Field

(***************************************************************************)
(* The bytes' width divides the word's.                                    *)
(***************************************************************************)
LEMMA Bytes ==
  /\ ByteBits \in Nat /\ ByteBits > 0 /\ WordBits = 4 * ByteBits
  /\ ByteCard = Pow2[ByteBits] /\ ByteCard \in Nat /\ ByteCard > 0
  /\ HalfCard = Pow2[2 * ByteBits]
<1>1. ByteBits \in Nat /\ ByteBits > 0 /\ WordBits = 4 * ByteBits
  BY Width, DatapathAssumption DEF ByteBits
<1>2. ByteCard = Pow2[ByteBits] /\ ByteCard \in Nat /\ ByteCard > 0
  BY <1>1, Pow2Positive DEF ByteCard
<1>3. HalfCard = Pow2[2 * ByteBits]
  <2>1. 2 * ByteBits = ByteBits + ByteBits
    BY <1>1
  <2> QED
    BY <1>1, <1>2, <2>1, Pow2Sum DEF HalfCard
<1> QED
  BY <1>1, <1>2, <1>3

(***************************************************************************)
(* The byte above p of a number does not change when a multiple of the    *)
(* place above it is added.                                                *)
(***************************************************************************)
LEMMA ByteBelow ==
  \A p \in Nat, g, r \in Int :
     p > 0 => Field(Above(g, p, ByteCard, r), p, ByteCard) = Field(r, p, ByteCard)
<1>1. PICK B : B = ByteCard
  OBVIOUS
<1>2. B \in Nat /\ B > 0
  BY <1>1, Bytes
<1> QED
  BY <1>1, <1>2, FieldBelow, Zenon

(***************************************************************************)
(* Powers of two at byte boundaries.                                       *)
(***************************************************************************)
LEMMA ByteRange ==
  /\ \A m \in Nat : Span(m) \in Nat /\ Span(m) > 0
  /\ \A m, n \in Nat : Span(m + n) = Span(m) * Span(n)
  /\ Span(0) = 1 /\ Span(1) = ByteCard /\ Span(2) = HalfCard
  /\ Span(4) = WordCard
<1>1. ASSUME NEW m \in Nat PROVE ByteBits * m \in Nat
  BY Bytes
<1>2. ASSUME NEW m \in Nat PROVE Span(m) \in Nat /\ Span(m) > 0
  BY <1>1, Pow2Positive DEF Span
<1>3. ASSUME NEW m \in Nat, NEW n \in Nat PROVE Span(m + n) = Span(m) * Span(n)
  <2>1. ByteBits * (m + n) = ByteBits * m + ByteBits * n
    BY Bytes
  <2>2. PICK i \in Nat, j \in Nat : i = ByteBits * m /\ j = ByteBits * n
    BY <1>1
  <2>3. Pow2[i + j] = Pow2[i] * Pow2[j]
    BY Pow2Sum
  <2> QED
    BY <2>1, <2>2, <2>3 DEF Span
<1>4. /\ ByteBits * 0 = 0 /\ ByteBits * 1 = ByteBits
      /\ ByteBits * 2 = 2 * ByteBits /\ ByteBits * 4 = WordBits
  BY Bytes
<1>5. Span(0) = 1 /\ Span(1) = ByteCard /\ Span(2) = HalfCard /\ Span(4) = WordCard
  BY <1>4, Bytes, Pow2Recursion, Width DEF Span
<1> QED
  BY <1>2, <1>3, <1>5

(***************************************************************************)
(* Bytes of a number made of a high part and m low bytes.                  *)
(***************************************************************************)
LEMMA ByteSplit ==
  ASSUME NEW m \in Nat, NEW c \in Nat, NEW k \in Nat,
         NEW r \in 0 .. Span(m) - 1,
         NEW z, z = Span(m) * c + r
  PROVE  /\ z \in Nat
         /\ k < m => Byte(z, k) = Byte(r, k)
         /\ k >= m => Byte(z, k) = Byte(c, k - m)
<1>1. PICK M, p : M = Span(m) /\ p = Span(k)
  OBVIOUS
<1>2. M \in Nat /\ M > 0 /\ p \in Nat /\ p > 0
  BY <1>1, ByteRange
<1>3. z = M * c + r /\ r \in 0 .. M - 1 /\ r \in Int
  BY <1>1
<1>4. z \in Nat
  <2>1. M * c \in Int /\ M * c >= 0
    BY <1>2, ProductGrows
  <2> QED
    BY <1>2, <1>3, <2>1
<1>5. ASSUME k < m PROVE Byte(z, k) = Byte(r, k)
  <2>1. PICK e : e = Span(m - k - 1)
    OBVIOUS
  <2>2. m - k - 1 \in Nat /\ 1 + (m - k - 1) = m - k /\ k + (m - k) = m /\ m - k \in Nat
    BY <1>5
  <2>3. Span(m - k) = ByteCard * e /\ e \in Nat
    <3>1. Span(1 + (m - k - 1)) = Span(1) * Span(m - k - 1)
      BY <2>2, ByteRange
    <3> QED
      BY <2>1, <2>2, <3>1, ByteRange
  <2>4. M = p * (ByteCard * e)
    <3>1. Span(k + (m - k)) = Span(k) * Span(m - k)
      BY <2>2, ByteRange
    <3> QED
      BY <1>1, <2>2, <2>3, <3>1
  <2>5. PICK g : g = e * c
    OBVIOUS
  <2>6. g \in Int /\ z = p * (ByteCard * g) + r
    <3>1. (p * (ByteCard * e)) * c = p * (ByteCard * (e * c))
      BY <1>2, <2>3, Bytes
    <3>2. e * c \in Int
      BY <2>3
    <3> QED
      BY <1>3, <2>4, <2>5, <3>1, <3>2
  <2>7. (z \div p) % ByteCard = (r \div p) % ByteCard
    <3>1. p \in Nat /\ p > 0 /\ r \in Int /\ g \in Int
      BY <1>2, <1>3, <2>6
    <3>2. z = Above(g, p, ByteCard, r)
      BY <2>6 DEF Above
    <3>3. Field(Above(g, p, ByteCard, r), p, ByteCard) = Field(r, p, ByteCard)
      BY <3>1, ByteBelow
    <3> QED
      BY <3>2, <3>3 DEF Field
  <2> QED
    BY <1>1, <2>7 DEF Byte
<1>6. ASSUME k >= m PROVE Byte(z, k) = Byte(c, k - m)
  <2>1. PICK q : q = Span(k - m)
    OBVIOUS
  <2>2. k - m \in Nat /\ m + (k - m) = k
    BY <1>6
  <2>3. p = M * q /\ q \in Nat /\ q > 0
    <3>1. Span(m + (k - m)) = Span(m) * Span(k - m)
      BY <2>2, ByteRange
    <3> QED
      BY <1>1, <2>1, <2>2, <3>1, ByteRange
  <2>4. z \div M = c
    <3>1. c \in Int
      OBVIOUS
    <3> QED
      BY <1>2, <1>3, <3>1, DivisionUnique, Zenon
  <2>5. z \div p = c \div q
    BY <1>2, <1>4, <2>3, <2>4, DivideTwice
  <2> QED
    BY <1>1, <2>1, <2>5 DEF Byte
<1> QED
  BY <1>4, <1>5, <1>6

(***************************************************************************)
(* Bytes of the m lowest bytes, and of what is above them.                 *)
(***************************************************************************)
LEMMA ByteParts ==
  ASSUME NEW y \in Nat, NEW m \in Nat, NEW k \in Nat
  PROVE  /\ k < m => Byte(y % Span(m), k) = Byte(y, k)
         /\ Byte(y \div Span(m), k) = Byte(y, m + k)
<1>1. PICK M, c, r : /\ M = Span(m)
                     /\ c = y \div M /\ r = y % M
  OBVIOUS
<1>2. M \in Nat /\ M > 0
  BY <1>1, ByteRange
<1>3. c \in Nat /\ r \in 0 .. M - 1 /\ y = M * c + r
  <2>1. y \in Int /\ y >= 0
    OBVIOUS
  <2> QED
    BY <1>1, <1>2, <2>1, Division, Zenon
<1>4. k < m => Byte(y, k) = Byte(r, k)
  BY <1>1, <1>3, ByteSplit
<1>5. m + k \in Nat /\ m + k >= m /\ (m + k) - m = k
  OBVIOUS
<1>6. Byte(y, m + k) = Byte(c, k)
  <2>1. PICK i : i = m + k
    OBVIOUS
  <2>2. Byte(y, i) = Byte(c, i - m)
    BY <1>1, <1>3, <1>5, <2>1, ByteSplit
  <2> QED
    BY <1>5, <2>1, <2>2
<1> QED
  BY <1>1, <1>4, <1>6

\* n bytes of mem from x on are the lowest ones of v.
Holds(mem, x, n, v) == \A k \in 0 .. n - 1 : mem[x + k] = Byte(v, k)

(***************************************************************************)
(* Reading n bytes of v gives v modulo their range.                        *)
(***************************************************************************)
LEMMA Reads ==
  ASSUME NEW mem, NEW x \in Nat, NEW n \in Nat, NEW v \in Nat,
         Holds(mem, x, n, v)
  PROVE  Little(mem, x, n) = v % Span(n)
<1>1. PICK d : d = [k \in 0 .. n - 1 |-> mem[x + k]]
  OBVIOUS
<1>2. AreDigits(d, ByteBits, n, v)
  BY <1>1, Bytes DEF Holds, Byte, Span, AreDigits
<1>3. FromDigits(d, ByteBits, n) = v % Span(n)
  <2>1. ByteBits \in Nat
    BY Bytes
  <2>2. FromDigits(d, ByteBits, n) = v % Pow2[ByteBits * n]
    BY <1>2, <2>1, DigitsOf
  <2> QED
    BY <2>2 DEF Span
<1> QED
  BY <1>1, <1>3 DEF Little

(***************************************************************************)
(* Memory holds the bytes of a, then of b.                                 *)
(***************************************************************************)
LEMMA MemoryBytes ==
  ASSUME a \in Word, b \in Word
  PROVE  /\ WordCard * b + a \in Nat
         /\ DOMAIN Memory = 0 .. 7
         /\ \A x \in 0 .. 7 : Memory[x] = Byte(WordCard * b + a, x)
<1>1. PICK V : V = WordCard * b + a
  OBVIOUS
<1>2. a \in Nat /\ b \in Nat /\ a \in 0 .. Span(4) - 1
      /\ V = Span(4) * b + a /\ 4 \in Nat
  BY <1>1, Signed, ByteRange DEF Word
<1>3. ASSUME NEW k \in Nat
      PROVE  /\ V \in Nat
             /\ k < 4 => Byte(V, k) = Byte(a, k)
             /\ k >= 4 => Byte(V, k) = Byte(b, k - 4)
  BY <1>2, ByteSplit
<1>4. V \in Nat
  <2>1. 0 \in Nat
    OBVIOUS
  <2> QED
    BY <1>3, <2>1
<1>5. ASSUME NEW x \in 0 .. 7 PROVE Memory[x] = Byte(V, x)
  <2>1. CASE x < 4
    <3>1. x % 4 = x /\ x \in Nat
      BY <2>1
    <3>2. Memory[x] = Byte(a, x)
      BY <2>1, <3>1 DEF Memory, Byte, Span
    <3> QED
      BY <1>3, <2>1, <3>1, <3>2
  <2>2. CASE x >= 4
    <3>1. x % 4 = x - 4 /\ x \in Nat /\ ~(x < 4)
      BY <2>2
    <3>2. Memory[x] = Byte(b, x - 4)
      BY <3>1 DEF Memory, Byte, Span
    <3> QED
      BY <1>3, <2>2, <3>1, <3>2
  <2> QED
    BY <2>1, <2>2
<1>6. DOMAIN Memory = 0 .. 7
  BY DEF Memory
<1> QED
  BY <1>1, <1>4, <1>5, <1>6

(***************************************************************************)
(* What a load finds in Memory.                                            *)
(***************************************************************************)
LEMMA MemoryReads ==
  ASSUME a \in Word, b \in Word, NEW x \in Nat, NEW n \in Nat, x + n <= 8,
         NEW u, u = (WordCard * b + a) \div Span(x)
  PROVE  /\ u \in Nat
         /\ Holds(Memory, x, n, u)
         /\ Little(Memory, x, n) = u % Span(n)
<1>1. PICK V : V = WordCard * b + a
  OBVIOUS
<1>2. V \in Nat /\ \A y \in 0 .. 7 : Memory[y] = Byte(V, y)
  BY <1>1, MemoryBytes
<1>3. u \in Nat
  <2>1. PICK S : S = Span(x)
    OBVIOUS
  <2>2. S \in Nat /\ S > 0 /\ V \in Int /\ V >= 0
    BY <1>2, <2>1, ByteRange
  <2>3. V \div S \in Nat
    BY <2>2, Division, Zenon
  <2> QED
    BY <1>1, <2>1, <2>3
<1>4. ASSUME NEW k \in 0 .. n - 1 PROVE Memory[x + k] = Byte(u, k)
  <2>1. x + k \in 0 .. 7 /\ k \in Nat
    OBVIOUS
  <2>2. Byte(u, k) = Byte(V, x + k)
    BY <1>1, <1>2, <2>1, ByteParts
  <2> QED
    BY <1>2, <2>1, <2>2
<1>5. Holds(Memory, x, n, u)
  BY <1>4 DEF Holds
<1>6. Little(Memory, x, n) = u % Span(n)
  BY <1>3, <1>5, Reads
<1> QED
  BY <1>3, <1>5, <1>6

(***************************************************************************)
(* The two words in Memory, and a word that begins in one and ends in the  *)
(* other.                                                                  *)
(***************************************************************************)
LEMMA MemoryWords ==
  ASSUME a \in Word, b \in Word
  PROVE  /\ Little(Memory, 0, 4) = a /\ Little(Memory, 4, 4) = b
         /\ \A x \in 0 .. 3 : Little(Memory, x, 4)
                = Span(4 - x) * (b % Span(x)) + (a \div Span(x))
<1>1. PICK W, V : W = WordCard /\ V = W * b + a
  OBVIOUS
<1>2. /\ W \in Nat /\ W > 0 /\ a \in 0 .. W - 1 /\ b \in 0 .. W - 1
      /\ a \in Nat /\ b \in Nat
  BY <1>1, Width DEF Word
<1>3. Span(0) = 1 /\ Span(4) = W
  BY <1>1, ByteRange
<1>4. V \in Int /\ V \div W = b /\ V % W = a
  <2>1. PICK q \in Int, k \in 0 .. W - 1 : q = b /\ k = a
    BY <1>2
  <2>2. V = W * q + k
    BY <1>1, <2>1
  <2>3. V \in Int /\ V \div W = q /\ V % W = k
    BY <1>2, <2>2, DivisionUnique
  <2> QED
    BY <2>1, <2>3
<1>5. Little(Memory, 4, 4) = b
  <2>1. Little(Memory, 4, 4) = b % W
    <3>1. 4 \in Nat /\ 4 + 4 <= 8
      OBVIOUS
    <3>2. b = (WordCard * b + a) \div Span(4)
      BY <1>1, <1>3, <1>4
    <3> QED
      BY <1>3, <3>1, <3>2, MemoryReads
  <2>2. b % W = b
    BY <1>2
  <2> QED
    BY <2>1, <2>2
<1>6. ASSUME NEW x \in 0 .. 3
      PROVE  Little(Memory, x, 4) = Span(4 - x) * (b % Span(x)) + (a \div Span(x))
  <2>1. PICK p, q, u : p = Span(x) /\ q = Span(4 - x) /\ u = V \div p
    OBVIOUS
  <2>2. x \in Nat /\ 4 - x \in Nat /\ x + (4 - x) = 4 /\ x + 4 <= 8 /\ 4 \in Nat
    OBVIOUS
  <2>3. p \in Nat /\ p > 0 /\ q \in Nat /\ q > 0 /\ W = p * q
    <3>1. Span(x + (4 - x)) = Span(x) * Span(4 - x)
      BY <2>2, ByteRange
    <3> QED
      BY <1>3, <2>1, <2>2, <3>1, ByteRange
  <2>4. Little(Memory, x, 4) = u % W
    <3>1. u = (WordCard * b + a) \div Span(x)
      BY <1>1, <2>1
    <3> QED
      BY <1>3, <2>2, <3>1, MemoryReads
  <2>5. PICK c, r, d, e : c = a \div p /\ r = a % p /\ d = b \div p /\ e = b % p
    OBVIOUS
  <2>6. c \in Int /\ r \in 0 .. p - 1 /\ a = p * c + r
    BY <1>2, <2>3, <2>5, Division
  <2>7. d \in Int /\ e \in 0 .. p - 1 /\ b = p * d + e
    BY <1>2, <2>3, <2>5, Division
  <2>8. u = q * b + c
    <3>1. V = p * (q * b + c) + r
      <4>1. (p * q) * b + (p * c + r) = p * (q * b + c) + r
        BY <1>2, <2>3, <2>6
      <4> QED
        BY <1>1, <2>3, <2>6, <4>1
    <3>2. PICK v : v = q * b + c
      OBVIOUS
    <3>3. v \in Int
      BY <1>2, <2>3, <2>6, <3>2
    <3>4. V = p * v + r
      BY <3>1, <3>2
    <3>5. V \div p = v
      <4>1. r \in 0 .. p - 1
        BY <2>6
      <4>2. p \in Nat /\ p > 0
        BY <2>3
      <4> QED
        BY <3>3, <3>4, <4>1, <4>2, DivisionUnique
    <3> QED
      BY <2>1, <3>2, <3>5
  <2>9. u = W * d + (q * e + c)
    <3>1. q * (p * d + e) + c = (p * q) * d + (q * e + c)
      BY <2>3, <2>6, <2>7
    <3> QED
      BY <2>3, <2>7, <2>8, <3>1
  <2>10. c \in 0 .. q - 1
    <3>1. x * ByteBits \in Nat /\ ByteBits * x = x * ByteBits
          /\ WordBits - x * ByteBits = ByteBits * (4 - x)
          /\ x * ByteBits <= WordBits /\ WordBits \in Nat
      BY Bytes
    <3>2. PICK m : m = x * ByteBits
      OBVIOUS
    <3>3. m \in 0 .. WordBits /\ p = Pow2[m] /\ q = Pow2[WordBits - m]
      BY <2>1, <3>1, <3>2 DEF Span
    <3> QED
      BY <2>5, <3>3, Cut
  <2>11. q * e + c \in 0 .. W - 1
    <3>1. q * e \in Int /\ q * e >= 0 /\ q * e + q <= q * p /\ q * p = p * q
      BY <2>3, <2>7, ProductGrows
    <3> QED
      BY <1>2, <2>3, <2>10, <3>1
  <2>12. PICK k : k = q * e + c
    OBVIOUS
  <2>13. u % W = k
    <3>1. u = W * d + k /\ k \in 0 .. W - 1
      BY <2>9, <2>11, <2>12
    <3>2. d \in Int
      BY <2>7
    <3> QED
      BY <1>2, <3>1, <3>2, DivisionUnique
  <2> QED
    BY <2>1, <2>4, <2>5, <2>12, <2>13
<1>7. Little(Memory, 0, 4) = a
  <2>1. PICK u : u = V
    OBVIOUS
  <2>2. u = (WordCard * b + a) \div Span(0)
    <3>1. V \div 1 = V
      BY <1>4
    <3> QED
      BY <1>1, <1>3, <2>1, <3>1
  <2>3. 0 \in Nat /\ 4 \in Nat /\ 0 + 4 <= 8
    OBVIOUS
  <2>4. Little(Memory, 0, 4) = u % Span(4)
    BY <2>2, <2>3, MemoryReads
  <2> QED
    BY <1>3, <1>4, <2>1, <2>4
<1> QED
  BY <1>5, <1>6, <1>7

(***************************************************************************)
(* lwr keeps the high digits of the register, and takes the low ones from  *)
(* the top of the aligned word.                                            *)
(***************************************************************************)
LEMMA RightPart ==
  ASSUME NEW mem, NEW x, NEW old \in Word, NEW A \in Word,
         A = AlignedWord(mem, x), ShiftOf(x) \in 0 .. WordBits,
         NEW p, p = Pow2[ShiftOf(x)], NEW q, q = Pow2[WordBits - ShiftOf(x)]
  PROVE  /\ Loaded("lwr", mem, x, old) = q * (old \div q) + (A \div p)
         /\ A \div p \in 0 .. q - 1 /\ old \div q \in 0 .. p - 1
         /\ Loaded("lwr", mem, x, old) \in Word
<1>1. PICK s, m : s = ShiftOf(x) /\ m = WordBits - s
  OBVIOUS
<1>2. /\ s \in 0 .. WordBits /\ m \in 0 .. WordBits /\ WordBits - m = s
      /\ p = Pow2[s] /\ q = Pow2[m]
  BY <1>1, Width
<1>3. /\ p \in Nat /\ p > 0 /\ q \in Nat /\ q > 0
      /\ ShiftRight(A, s) = A \div p /\ A \div p \in 0 .. q - 1
      /\ ShiftRight(WordCard - 1, s) = q - 1
  BY <1>1, <1>2, Shifted
<1>4. And(old, Not(q - 1)) = q * (old \div q) /\ old \div q \in 0 .. p - 1
  BY <1>2, AndHigh, Cut
<1>5. PICK c, r : c = old \div q /\ r = A \div p
  OBVIOUS
<1>6. c \in 0 .. Pow2[WordBits - m] - 1 /\ r \in 0 .. Pow2[m] - 1
  BY <1>2, <1>3, <1>4, <1>5
<1>7. Or(Pow2[m] * c, r) = Pow2[m] * c + r /\ Pow2[m] * c + r \in Word
  BY <1>2, <1>6, OrDisjoint, Cut
<1>8. Loaded("lwr", mem, x, old) = LoadRight(mem, x, old)
  BY DEF Loaded
<1>9. LoadRight(mem, x, old) = Or(And(old, Not(q - 1)), A \div p)
  BY <1>1, <1>3 DEF LoadRight, Merged
<1> QED
  BY <1>2, <1>3, <1>4, <1>5, <1>7, <1>8, <1>9

\* How far lwl shifts the aligned word to the left.
LeftShift(x) == 3 * ByteBits - ShiftOf(x)

(***************************************************************************)
(* lwl keeps the low digits of the register, and takes the high ones from  *)
(* the bottom of the aligned word.                                         *)
(***************************************************************************)
LEMMA LeftPart ==
  ASSUME NEW mem, NEW x, NEW old \in Word, NEW A \in Word,
         A = AlignedWord(mem, x), LeftShift(x) \in 0 .. WordBits,
         NEW p, p = Pow2[LeftShift(x)], NEW q, q = Pow2[WordBits - LeftShift(x)]
  PROVE  /\ Loaded("lwl", mem, x, old) = p * (A % q) + (old % p)
         /\ A % q \in 0 .. q - 1 /\ old % p \in 0 .. p - 1
         /\ Loaded("lwl", mem, x, old) \in Word
<1>a. PICK s \in 0 .. WordBits : s = LeftShift(x)
  OBVIOUS
<1>1. /\ p \in Nat /\ p > 0 /\ q \in Nat /\ q > 0
      /\ ShiftLeft(A, s) = p * (A % q) /\ A % q \in 0 .. q - 1
      /\ Not(ShiftLeft(WordCard - 1, s)) = p - 1
  BY <1>a, Shifted
<1>2. And(old, p - 1) = old % p /\ old % p \in 0 .. p - 1
  BY <1>a, AndLow, Cut
<1>3. PICK c, r : c = A % q /\ r = old % p
  OBVIOUS
<1>4. c \in 0 .. Pow2[WordBits - s] - 1 /\ r \in 0 .. Pow2[s] - 1
  BY <1>1, <1>2, <1>3, <1>a
<1>5. Or(r, Pow2[s] * c) = Pow2[s] * c + r /\ Pow2[s] * c + r \in Word
  BY <1>4, OrDisjoint, Cut
<1>6. Loaded("lwl", mem, x, old) = LoadLeft(mem, x, old)
  BY DEF Loaded
<1>7. LoadLeft(mem, x, old) = Or(And(old, p - 1), p * (A % q))
  BY <1>1, <1>a DEF LoadLeft, Merged, LeftShift
<1> QED
  BY <1>1, <1>2, <1>3, <1>5, <1>6, <1>7, <1>a

(***************************************************************************)
(* An arithmetic shift right is the sign extension of what is left.        *)
(***************************************************************************)
LEMMA SignFill ==
  ASSUME NEW s \in 0 .. WordBits - 1, NEW w \in Word,
         NEW p, p = Pow2[s], NEW q, q = Pow2[WordBits - s]
  PROVE  ShiftRightArith(w, s) = SignExtended(w \div p, q)
<1>1. PICK W, h, t, r : W = WordCard /\ h = MostNegative /\ t = w \div p /\ r = w % p
  OBVIOUS
<1>2. s \in 0 .. WordBits /\ s \in Nat /\ WordBits \in Nat
  BY Width
<1>3. p \in Nat /\ p > 0 /\ q \in Nat /\ q > 0
  BY <1>2, Cut
<1>4. W = p * q
  BY <1>1, <1>2, Cut
<1>5. t \in 0 .. q - 1 /\ r \in 0 .. p - 1 /\ w = p * t + r
  BY <1>1, <1>2, Cut
<1>6. ShiftRightArith(w, s) = IF w < h THEN t ELSE q * (p - 1) + t
  BY <1>1, <1>2, Shifted
<1>7. PICK e \in Nat : q = 2 * e
  <2>1. WordBits - s - 1 \in Nat /\ (WordBits - s - 1) + 1 = WordBits - s
    BY <1>2
  <2> QED
    BY <2>1, Pow2Recursion, Pow2Positive
<1>8. h = p * e /\ W \in Nat /\ W > 0 /\ W = 2 * h
  <2>1. W = 2 * h /\ h \in Nat /\ W \in Nat /\ W > 0
    BY <1>1, Width
  <2>2. p * (2 * e) = 2 * (p * e)
    BY <1>3
  <2> QED
    BY <1>3, <1>4, <1>7, <2>1, <2>2
<1>9. q <= W
  <2>1. q * 1 <= q * p /\ q * p = p * q
    BY <1>3, ProductGrows
  <2> QED
    BY <1>3, <1>4, <2>1
<1>10. w < h <=> t < e
  <2>1. CASE t < e
    <3>1. p * t + p <= p * e /\ p * t \in Int /\ p * e \in Int
      BY <1>3, <1>5, <2>1, ProductGrows
    <3> QED
      BY <1>3, <1>5, <1>8, <2>1, <3>1
  <2>2. CASE e <= t
    <3>1. p * e <= p * t /\ p * t \in Int /\ p * e \in Int
      BY <1>3, <1>5, <2>2, ProductGrows
    <3>2. e \in Int /\ t \in Int
      BY <1>5
    <3> QED
      BY <1>3, <1>5, <1>8, <2>2, <3>1, <3>2
  <2> QED
    BY <1>5, <2>1, <2>2
<1>11. CASE t < e
  <2>1. 2 * t < q /\ t \in Nat /\ t < W
    BY <1>3, <1>5, <1>7, <1>8, <1>9, <1>11
  <2>a. W \in Nat
    BY <1>8
  <2>2. t % W = t
    BY <2>1, <2>a
  <2> QED
    BY <1>1, <1>6, <1>10, <1>11, <2>1, <2>2 DEF SignExtended, U32
<1>12. CASE ~(t < e)
  <2>1. ~(2 * t < q) /\ t - q \in Int /\ t - q < 0 /\ t - q >= -W
    BY <1>3, <1>5, <1>7, <1>8, <1>9, <1>12
  <2>2. (t - q) % W = (t - q) + W
    <3>1. PICK f, k : f = t - q /\ k = f + W
      OBVIOUS
    <3>2. W \in Nat /\ W > 0
      BY <1>8
    <3>3. k \in 0 .. W - 1 /\ f = W * (-1) + k /\ -1 \in Int
      BY <2>1, <3>1, <3>2
    <3>4. f % W = k
      BY <3>2, <3>3, DivisionUnique
    <3> QED
      BY <3>1, <3>4
  <2>3. (t - q) + W = q * (p - 1) + t
    <3>1. q * (p - 1) = p * q - q
      BY <1>3
    <3>2. p * q \in Int
      BY <1>3
    <3> QED
      BY <1>3, <1>4, <1>5, <3>1, <3>2
  <2> QED
    BY <1>1, <1>6, <1>10, <1>12, <2>1, <2>2, <2>3 DEF SignExtended, U32
<1> QED
  BY <1>11, <1>12

(***************************************************************************)
(* A load of j + n bytes is its j low and its n high ones.                 *)
(***************************************************************************)
LEMMA LoadsSplit ==
  ASSUME a \in Word, b \in Word, NEW x \in 0 .. 4, NEW j \in Nat, NEW n \in Nat,
         j + n <= 4
  PROVE  /\ Little(Memory, x, j) \in 0 .. Span(j) - 1
         /\ Little(Memory, x + j, n) \in 0 .. Span(n) - 1
         /\ Little(Memory, x, j + n)
              = Span(j) * Little(Memory, x + j, n) + Little(Memory, x, j)
         /\ Little(Memory, x, j + n) \div Span(j) = Little(Memory, x + j, n)
<1>0. PICK low, high : /\ low = Little(Memory, x, j)
                       /\ high = Little(Memory, x + j, n)
  OBVIOUS
<1>1. PICK V, P, p, q : /\ V = WordCard * b + a /\ P = Span(x)
                        /\ p = Span(j) /\ q = Span(n)
  OBVIOUS
<1>2. V \in Nat
  BY <1>1, MemoryBytes
<1>3. /\ x \in Nat /\ x + j \in Nat /\ j + n \in Nat
      /\ x + j <= 8 /\ (x + j) + n <= 8 /\ x + (j + n) <= 8
  OBVIOUS
<1>4. P \in Nat /\ P > 0 /\ p \in Nat /\ p > 0 /\ q \in Nat /\ q > 0
  BY <1>1, <1>3, ByteRange
<1>5. Span(x + j) = P * p /\ Span(j + n) = p * q
  BY <1>1, <1>3, ByteRange
<1>6. PICK u, v : u = V \div P /\ v = u \div p
  OBVIOUS
<1>7. u \in Nat /\ low = u % p /\ Little(Memory, x, j + n) = u % (p * q)
  <2>1. u = (WordCard * b + a) \div Span(x)
    BY <1>1, <1>6
  <2>2. u \in Nat /\ Little(Memory, x, j) = u % Span(j)
    BY <1>3, <2>1, MemoryReads
  <2>3. PICK i : i = j + n
    OBVIOUS
  <2>4. Little(Memory, x, i) = u % Span(i)
    BY <1>3, <2>1, <2>3, MemoryReads
  <2> QED
    BY <1>0, <1>1, <1>5, <2>2, <2>3, <2>4
<1>8. v \in Nat /\ high = v % q
  <2>1. v = V \div (P * p)
    BY <1>2, <1>4, <1>6, DivideTwice
  <2>2. PICK y : y = x + j
    OBVIOUS
  <2>3. v = (WordCard * b + a) \div Span(y) /\ y \in Nat /\ y + n <= 8
    BY <1>1, <1>3, <1>5, <2>1, <2>2
  <2>4. v \in Nat /\ Little(Memory, y, n) = v % Span(n)
    BY <2>3, MemoryReads
  <2> QED
    BY <1>0, <1>1, <2>2, <2>4
<1>9. u % (p * q) = (u % p) + p * ((u \div p) % q)
  BY <1>4, <1>7, DivideTwice
<1>10. low \in 0 .. p - 1 /\ high \in 0 .. q - 1
  BY <1>4, <1>7, <1>8, Division
<1>11. Little(Memory, x, j + n) = p * high + low
  <2>1. Little(Memory, x, j + n) = low + p * high
    BY <1>6, <1>7, <1>8, <1>9
  <2>2. p * high \in Int
    BY <1>4, <1>10
  <2> QED
    BY <1>10, <2>1, <2>2
<1>12. Little(Memory, x, j + n) \div p = high
  <2>1. high \in Int
    BY <1>10
  <2>2. PICK z : z = Little(Memory, x, j + n)
    OBVIOUS
  <2>3. z = p * high + low /\ low \in 0 .. p - 1
    BY <1>10, <1>11, <2>2
  <2>4. z \div p = high
    BY <1>4, <2>1, <2>3, DivisionUnique
  <2> QED
    BY <2>2, <2>4
<1>13. /\ low \in 0 .. Span(j) - 1 /\ high \in 0 .. Span(n) - 1
       /\ Little(Memory, x, j + n) = Span(j) * high + low
       /\ Little(Memory, x, j + n) \div Span(j) = high
  BY <1>1, <1>10, <1>11, <1>12
<1> QED
  BY <1>0, <1>13, Zenon

(***************************************************************************)
(* The same, with the two loads named.                                     *)
(***************************************************************************)
LEMMA LoadsJoin ==
  ASSUME a \in Word, b \in Word, NEW x \in 0 .. 4, NEW j \in Nat, NEW n \in Nat,
         j + n <= 4, NEW low, low = Little(Memory, x, j),
         NEW high, high = Little(Memory, x + j, n)
  PROVE  /\ low \in 0 .. Span(j) - 1 /\ high \in 0 .. Span(n) - 1
         /\ Little(Memory, x, j + n) = Span(j) * high + low
         /\ Little(Memory, x, j + n) \div Span(j) = high
<1>1. /\ Little(Memory, x, j) \in 0 .. Span(j) - 1
      /\ Little(Memory, x + j, n) \in 0 .. Span(n) - 1
      /\ Little(Memory, x, j + n)
           = Span(j) * Little(Memory, x + j, n) + Little(Memory, x, j)
      /\ Little(Memory, x, j + n) \div Span(j) = Little(Memory, x + j, n)
  BY LoadsSplit, Zenon
<1> QED
  BY <1>1, Zenon

(***************************************************************************)
(* A load of s + n bytes after a store of s of them: the stored bytes, and *)
(* above them those that were in memory.                                   *)
(***************************************************************************)
LEMMA StoreThenLoad ==
  ASSUME a \in Word, b \in Word, NEW x \in 0 .. 4, NEW op,
         NEW s \in 1 .. 4, StoreWidth(op) = s, NEW n \in Nat, s + n <= 4
  PROVE  Little(Stored(op, Memory, x, b), x, s + n)
           = Span(s) * Little(Memory, x + s, n) + (b % Span(s))
<1>1. PICK mem, p, q, y, u, high, r, z :
        /\ mem = Stored(op, Memory, x, b) /\ p = Span(s) /\ q = Span(n)
        /\ y = x + s /\ u = (WordCard * b + a) \div Span(y)
        /\ high = Little(Memory, y, n)
        /\ r = b % p /\ z = p * high + r
  OBVIOUS
<1>2. s \in Nat /\ x \in Nat /\ y \in Nat /\ y + n <= 8 /\ b \in Nat
  BY <1>1, Signed
<1>3. p \in Nat /\ p > 0 /\ q \in Nat /\ q > 0
  BY <1>1, <1>2, ByteRange
<1>4. u \in Nat /\ Holds(Memory, y, n, u) /\ high = u % q
  BY <1>1, <1>2, MemoryReads
<1>5. high \in 0 .. q - 1 /\ high \in Nat
  BY <1>3, <1>4, Division
<1>6. r \in 0 .. p - 1 /\ r \in Nat
  BY <1>1, <1>2, <1>3, Division
<1>7. ASSUME NEW k \in Nat
      PROVE  /\ z \in Nat
             /\ k < s => Byte(z, k) = Byte(r, k)
             /\ k >= s => Byte(z, k) = Byte(high, k - s)
  <2>1. r \in 0 .. Span(s) - 1 /\ z = Span(s) * high + r
    BY <1>1, <1>6
  <2>2. s \in Nat /\ high \in Nat
    BY <1>2, <1>5
  <2> QED
    BY <2>1, <2>2, ByteSplit
<1>8. z \in Nat
  <2>1. 0 \in Nat
    OBVIOUS
  <2> QED
    BY <1>7, <2>1
<1>9. ASSUME NEW k \in 0 .. (s + n) - 1 PROVE mem[x + k] = Byte(z, k)
  <2>1. x + k \in 0 .. 7 /\ k \in Nat /\ (x + k) - x = k
    OBVIOUS
  <2>2. mem[x + k] = IF k < s THEN Byte(b, k) ELSE Memory[x + k]
    <3>1. DOMAIN Memory = 0 .. 7
      BY MemoryBytes
    <3>2. x + k \in x .. x + StoreWidth(op) - 1 <=> k < s
      BY <2>1
    <3> QED
      BY <1>1, <2>1, <3>1, <3>2 DEF Stored, Byte, Span
  <2>3. CASE k < s
    <3>1. Byte(r, k) = Byte(b, k)
      <4>1. r = b % Span(s)
        BY <1>1
      <4> QED
        BY <1>2, <2>1, <2>3, <4>1, ByteParts
    <3> QED
      BY <1>7, <2>1, <2>2, <2>3, <3>1
  <2>4. CASE ~(k < s)
    <3>1. PICK i : i = k - s
      OBVIOUS
    <3>2. i \in 0 .. n - 1 /\ i \in Nat /\ i < n /\ y + i = x + k /\ k >= s
      BY <1>1, <2>1, <2>4, <3>1
    <3>3. Memory[y + i] = Byte(u, i)
      BY <1>4, <3>2 DEF Holds
    <3>4. Byte(high, i) = Byte(u, i)
      <4>1. high = u % Span(n)
        BY <1>1, <1>4
      <4> QED
        BY <1>4, <3>2, <4>1, ByteParts
    <3>5. Byte(z, k) = Byte(high, i)
      BY <1>7, <2>1, <3>1, <3>2
    <3> QED
      BY <2>2, <2>4, <3>2, <3>3, <3>4, <3>5
  <2> QED
    BY <2>3, <2>4
<1>10. PICK m : m = s + n
  OBVIOUS
<1>11. Holds(mem, x, m, z) /\ m \in Nat
  BY <1>9, <1>10 DEF Holds
<1>12. Little(mem, x, m) = z % Span(m)
  BY <1>2, <1>8, <1>11, Reads
<1>13. z % Span(m) = z
  <2>1. Span(m) = p * q
    BY <1>1, <1>2, <1>10, ByteRange
  <2>2. p * high \in Int /\ p * high + p <= p * q /\ p * high >= 0 /\ p * q \in Int
    BY <1>3, <1>5, ProductGrows
  <2>3. PICK S : S = p * q
    OBVIOUS
  <2>4. z < S /\ S \in Nat
    BY <1>1, <1>3, <1>6, <2>2, <2>3
  <2>5. z % S = z
    BY <1>8, <2>4
  <2> QED
    BY <2>1, <2>3, <2>5
<1> QED
  BY <1>1, <1>10, <1>12, <1>13

------------------------------------------------------------------------------
\* The laws.

Operands == a \in Word /\ b \in Word

(***************************************************************************)
(* The operands stay words.                                                *)
(***************************************************************************)
LEMMA OperandsStay == Spec => []Operands
<1>1. Init => Operands
  BY SamplesAssumption DEF Init, Operands
<1>2. Operands /\ [Next]_<<a, b>> => Operands'
  BY DEF Operands, Next
<1> QED
  BY <1>1, <1>2, PTL DEF Spec

(***************************************************************************)
(* The values of the instructions the laws speak of.                       *)
(***************************************************************************)
LEMMA Values ==
  ASSUME NEW x, NEW y
  PROVE  /\ Value("sllv", x, y) = ShiftLeft(y, ShiftAmount(x))
         /\ Value("srlv", x, y) = ShiftRight(y, ShiftAmount(x))
         /\ Value("srav", x, y) = ShiftRightArith(y, ShiftAmount(x))
         /\ Value("subu", x, y) = U32(x - y)
         /\ Value("slt", x, y) = Flag(S32(x) < S32(y))
         /\ Value("sltu", x, y) = Flag(x < y)
BY DEF Value

(***************************************************************************)
(* hi and lo of the multiply and divide instructions.                      *)
(***************************************************************************)
LEMMA HiLo ==
  ASSUME NEW x, NEW y
  PROVE  /\ MultDiv("mult", x, y) = [lo |-> U32(S32(x) * S32(y)),
                                     hi |-> U32((S32(x) * S32(y)) \div WordCard)]
         /\ MultDiv("multu", x, y) = [lo |-> U32(x * y),
                                      hi |-> U32((x * y) \div WordCard)]
         /\ y = 0 => MultDiv("divu", x, y) = [lo |-> WordCard - 1, hi |-> x]
         /\ y # 0 => MultDiv("divu", x, y) = [lo |-> x \div y, hi |-> x % y]
BY DEF MultDiv, Product, Divided

(***************************************************************************)
(* hi and lo hold the exact product, for words of every width.             *)
(***************************************************************************)
THEOREM ProductsExact == Spec => []MultiplyExact
<1>1. ASSUME Operands PROVE MultiplyExact
  <2> DEFINE W == WordCard
             h == MostNegative
             x == S32(a)
             y == S32(b)
             P == x * y
             U == a * b
  <2>1. /\ a \in Nat /\ b \in Nat /\ a < W /\ b < W /\ x \in Int /\ y \in Int
        /\ -h <= x /\ x < h /\ -h <= y /\ y < h
    BY <1>1, Signed DEF Operands
  <2>2. W \in Nat /\ W > 0 /\ h \in Nat /\ h > 0 /\ W = 2 * h
    BY Width
  <2> HIDE DEF W, h, x, y
  <2>3. P \in Int /\ U \in Int
    BY <2>1
  <2>4. U >= 0 /\ U < W * W
    <3>1. CASE a = 0
      BY <2>1, <2>2, <3>1
    <3>2. CASE a > 0
      <4>1. a * b >= 0 /\ a * b + a <= a * W
        BY <2>1, <2>2, <3>2, ProductGrows
      <4>2. W * a + W <= W * W /\ a * W = W * a /\ W * a \in Int /\ W * W \in Int
        BY <2>1, <2>2, ProductGrows
      <4> QED
        BY <2>1, <2>2, <3>2, <4>1, <4>2
    <3> QED
      BY <2>1, <3>1, <3>2
  <2>5. -(h * h) <= P /\ P <= h * h /\ h * h \in Int /\ h * h > 0
    <3>1. h * h \in Int /\ h * h > 0
      BY <2>2
    <3>2. CASE x >= 0
      <4>1. /\ x * y <= x * h /\ x * (-h) <= x * y
            /\ x * h <= h * h /\ x * (-h) = -(x * h) /\ x * h \in Int
        BY <2>1, <2>2, <3>2
      <4> QED
        BY <2>3, <3>1, <4>1
    <3>3. CASE x < 0
      <4> DEFINE i == -x
      <4>1. i \in Nat /\ i <= h /\ P = -(i * y)
        BY <2>1, <2>2, <3>3
      <4> HIDE DEF i
      <4>2. /\ i * y <= i * h /\ i * (-h) <= i * y
            /\ i * h <= h * h /\ i * (-h) = -(i * h) /\ i * h \in Int /\ i * y \in Int
        BY <2>1, <2>2, <4>1
      <4> HIDE DEF P
      <4> QED
        BY <2>3, <3>1, <4>1, <4>2
    <3> QED
      BY <2>1, <3>2, <3>3
  <2> HIDE DEF P, U
  <2>6. ASSUME NEW X \in Int
        PROVE  /\ X \div W \in Int /\ X % W \in 0 .. W - 1
               /\ X = W * (X \div W) + (X % W)
    BY <2>2, Division
  <2>7. U \div W \in 0 .. W - 1
    <3> DEFINE q == U \div W
               m == U % W
    <3>1. q \in Int /\ m \in 0 .. W - 1 /\ U = W * q + m
      BY <2>3, <2>6
    <3> HIDE DEF q, m
    <3>2. q < W
      <4>1. SUFFICES ASSUME W <= q PROVE FALSE
        BY <2>2, <3>1
      <4>2. W * W <= W * q /\ W * q \in Int /\ W * W \in Int
        BY <2>2, <3>1, <4>1, ProductGrows
      <4> QED
        BY <2>2, <2>4, <3>1, <4>2
    <3>3. q >= 0
      <4>1. SUFFICES ASSUME q < 0 PROVE FALSE
        BY <3>1
      <4>2. W * q + W <= W * 0 /\ W * q \in Int
        BY <2>2, <3>1, <4>1, ProductGrows
      <4> QED
        BY <2>2, <2>4, <3>1, <4>2
    <3> QED
      BY <2>2, <3>1, <3>2, <3>3 DEF q
  <2>8. P \div W \in Int /\ -h <= P \div W /\ P \div W < h
    <3> DEFINE q == P \div W
               m == P % W
    <3>1. q \in Int /\ m \in 0 .. W - 1 /\ P = W * q + m
      BY <2>3, <2>6
    <3> HIDE DEF q, m
    <3>2. W * h = 2 * (h * h) /\ W * (-h) = -(2 * (h * h))
      BY <2>2
    <3>3. q < h
      <4>1. SUFFICES ASSUME h <= q PROVE FALSE
        BY <2>2, <3>1
      <4>2. W * h <= W * q /\ W * q \in Int
        BY <2>2, <3>1, <4>1, ProductGrows
      <4> QED
        BY <2>2, <2>5, <3>1, <3>2, <4>2
    <3>4. -h <= q
      <4>1. SUFFICES ASSUME q < -h PROVE FALSE
        BY <2>2, <3>1
      <4>2. W * q + W <= W * (-h) /\ W * q \in Int
        BY <2>2, <3>1, <4>1, ProductGrows
      <4> QED
        BY <2>2, <2>5, <3>1, <3>2, <4>2
    <3> QED
      BY <3>1, <3>3, <3>4 DEF q
  <2>9. U32(U \div W) = U \div W
    BY <2>2, <2>7 DEF U32, W
  <2>10. S32(U32(P \div W)) = P \div W
    <3> DEFINE q == P \div W
    <3>1. q \in Int /\ -h <= q /\ q < h
      BY <2>8
    <3> HIDE DEF q
    <3>2. CASE q >= 0
      <4>1. q % W = q
        BY <2>2, <3>1, <3>2
      <4> QED
        BY <2>2, <3>1, <3>2, <4>1 DEF U32, S32, W, q
    <3>3. CASE q < 0
      <4>1. q % W = q + W
        BY <2>2, <3>1, <3>3
      <4>2. ~(2 * (q + W) < W) /\ (q + W) - W = q
        BY <2>2, <3>1, <3>3
      <4> QED
        BY <4>1, <4>2 DEF U32, S32, W, q
    <3> QED
      BY <3>1, <3>2, <3>3
  <2>11. /\ MultDiv("mult", a, b) = [lo |-> P % W, hi |-> U32(P \div W)]
         /\ MultDiv("multu", a, b) = [lo |-> U % W, hi |-> U32(U \div W)]
    BY HiLo DEF P, U, x, y, W, U32
  <2>12. /\ (P \div W) * W + (P % W) = P
         /\ (U \div W) * W + (U % W) = U
    BY <2>2, <2>3, <2>6
  <2> QED
    BY <2>9, <2>10, <2>11, <2>12 DEF MultiplyExact, P, U, x, y, W
<1> QED
  BY <1>1, OperandsStay, PTL

(***************************************************************************)
(* divu is Euclidean division, and total, for words of every width.        *)
(***************************************************************************)
THEOREM QuotientsExact == Spec => []DivideExact
<1>1. ASSUME Operands PROVE DivideExact
  <2>1. a \in Nat /\ b \in Nat
    BY <1>1, Signed DEF Operands
  <2>2. CASE b = 0
    BY <2>2, HiLo DEF DivideExact
  <2>3. CASE b # 0
    <3>1. MultDiv("divu", a, b) = [lo |-> a \div b, hi |-> a % b]
      BY <2>3, HiLo
    <3>2. /\ a \div b \in Int /\ a % b \in 0 .. b - 1
          /\ a = b * (a \div b) + (a % b) /\ b * (a \div b) = (a \div b) * b
      BY <2>1, <2>3, Division
    <3> QED
      BY <2>3, <3>1, <3>2 DEF DivideExact
  <2> QED
    BY <2>2, <2>3
<1> QED
  BY <1>1, OperandsStay, PTL

(***************************************************************************)
(* slt and sltu are one order with the sign bit flipped, and subtraction   *)
(* agrees with it, for words of every width.                               *)
(***************************************************************************)
THEOREM OrdersAgree == Spec => []OrderAgrees
<1>1. ASSUME Operands PROVE OrderAgrees
  <2> DEFINE h == MostNegative
             W == WordCard
             D == S32(a) - S32(b)
  <2>1. /\ a \in Word /\ b \in Word /\ a \in Nat /\ b \in Nat /\ a < W /\ b < W
        /\ a < h => S32(a) = a
        /\ a >= h => S32(a) = a - W
        /\ b < h => S32(b) = b
        /\ b >= h => S32(b) = b - W
        /\ S32(a) \in Int /\ S32(b) \in Int
    BY <1>1, Signed DEF Operands
  <2>2. W \in Nat /\ W > 0 /\ h \in Nat /\ h > 0 /\ W = 2 * h /\ S32Min = -h
    BY Width
  <2>3. /\ Xor(a, h) = IF a < h THEN a + h ELSE a - h
        /\ Xor(b, h) = IF b < h THEN b + h ELSE b - h
    BY <2>1, XorSign
  <2> HIDE DEF h, W
  <2>4. S32(a) < S32(b) <=> Xor(a, h) < Xor(b, h)
    BY <2>1, <2>2, <2>3
  <2>5. ASSUME D \in S32Min .. h - 1
        PROVE  S32(a) < S32(b) <=> S32(U32(a - b)) < 0
    <3>1. D \in Int /\ -h <= D /\ D < h
      BY <2>1, <2>2, <2>5
    <3>2. a - b = D \/ a - b = D + W \/ a - b = D - W
      BY <2>1, <2>2
    <3>3. S32(a) < S32(b) <=> D < 0
      BY <2>1
    <3> HIDE DEF D
    <3>4. (a - b) % W = IF D < 0 THEN D + W ELSE D
      <4> DEFINE k == IF D < 0 THEN D + W ELSE D
                 e == a - b
      <4>1. k \in 0 .. W - 1 /\ e \in Int
        BY <2>1, <2>2, <3>1
      <4>2. \E q \in Int : e = W * q + k
        <5>1. e = k \/ e = k - W \/ e = k + W \/ e = k - 2 * W
          BY <2>1, <2>2, <3>1, <3>2
        <5>2. /\ k = W * 0 + k /\ k - W = W * (-1) + k
              /\ k + W = W * 1 + k /\ k - 2 * W = W * (-2) + k
          BY <2>2, <4>1
        <5> HIDE DEF e, k
        <5>3. 0 \in Int /\ 1 \in Int /\ -1 \in Int /\ -2 \in Int
          OBVIOUS
        <5> QED
          BY <5>1, <5>2, <5>3
      <4> HIDE DEF e, k
      <4>3. e % W = k
        BY <2>2, <4>1, <4>2, DivisionUnique
      <4> QED
        BY <4>3 DEF e, k
    <3>5. CASE D < 0
      <4>1. U32(a - b) = D + W /\ ~(2 * (D + W) < W) /\ (D + W) - W = D
        BY <2>2, <3>1, <3>4, <3>5 DEF U32, W
      <4>2. S32(U32(a - b)) = D
        BY <4>1 DEF S32, W
      <4> QED
        BY <3>3, <3>5, <4>2
    <3>6. CASE D >= 0
      <4>1. U32(a - b) = D /\ 2 * D < W
        BY <2>2, <3>1, <3>4, <3>6 DEF U32, W
      <4>2. S32(U32(a - b)) = D
        BY <4>1 DEF S32, W
      <4> QED
        BY <3>3, <3>6, <4>2
    <3> QED
      BY <3>1, <3>5, <3>6
  <2> QED
    BY <2>4, <2>5, Values DEF OrderAgrees, h, Flag
<1> QED
  BY <1>1, OperandsStay, PTL

(***************************************************************************)
(* sra is srl with the vacated digits filled with the sign, and a shift    *)
(* left keeps the low digits, for words of every width.                    *)
(***************************************************************************)
THEOREM ShiftsExact == Spec => []ShiftsAgree
<1>1. ASSUME Operands PROVE ShiftsAgree
  <2>1. PICK s, p, q : /\ s = a % WordBits /\ p = Pow2[s]
                       /\ q = Pow2[WordBits - s]
    OBVIOUS
  <2>2. /\ a \in Word /\ b \in Word /\ a \in Nat
        /\ S32(b) < 0 <=> ~(b < MostNegative)
    BY <1>1, Signed, Width DEF Operands
  <2>3. s \in 0 .. WordBits /\ WordBits - s \in 0 .. WordBits
        /\ WordBits - (WordBits - s) = s
    <3>1. s \in 0 .. WordBits - 1
      BY <2>1, <2>2, Width, Division
    <3> QED
      BY <3>1, Width
  <2>4. /\ p \in Nat /\ p > 0 /\ q \in Nat /\ q > 0
        /\ ShiftRight(b, s) = b \div p /\ b \div p \in 0 .. q - 1
        /\ ShiftLeft(b, s) = p * (b % q) /\ b % q \in 0 .. q - 1
        /\ ShiftRight(WordCard - 1, s) = q - 1
        /\ Not(q - 1) = q * (p - 1)
        /\ ShiftRightArith(b, s) = IF b < MostNegative THEN b \div p
                                   ELSE q * (p - 1) + (b \div p)
    BY <2>1, <2>2, <2>3, Shifted
  <2>5. PICK d, e : d = b \div p /\ e = b % q
    OBVIOUS
  <2>6. Or(d, q * (p - 1)) = q * (p - 1) + d /\ Or(d, q * 0) = q * 0 + d
    <3>1. PICK m : m = WordBits - s
      OBVIOUS
    <3>2. /\ m \in 0 .. WordBits /\ Pow2[m] = q /\ Pow2[WordBits - m] = p
          /\ d \in 0 .. Pow2[m] - 1
      BY <2>1, <2>3, <2>4, <2>5, <3>1
    <3>3. p - 1 \in 0 .. p - 1 /\ 0 \in 0 .. p - 1
      BY <2>4
    <3>4. \A c \in 0 .. Pow2[WordBits - m] - 1 :
             Or(d, Pow2[m] * c) = Pow2[m] * c + d
      BY <3>2, OrDisjoint
    <3> QED
      BY <3>2, <3>3, <3>4
  <2>7. q * 0 = 0 /\ 0 + d = d
    BY <2>4, <2>5
  <2>8. ShiftRightArith(b, s)
          = Or(ShiftRight(b, s),
               IF S32(b) < 0 THEN Not(ShiftRight(WordCard - 1, s)) ELSE 0)
    <3>1. CASE b < MostNegative
      BY <2>2, <2>4, <2>5, <2>6, <2>7, <3>1
    <3>2. CASE ~(b < MostNegative)
      BY <2>2, <2>4, <2>5, <2>6, <3>2
    <3> QED
      BY <3>1, <3>2
  <2>9. ShiftLeft(b, s) \div p = b % q
    <3>1. p * e = p * e + 0 /\ 0 \in 0 .. p - 1 /\ e \in Int
      BY <2>4, <2>5
    <3>2. PICK z : z = p * e
      OBVIOUS
    <3>3. z \div p = e
      BY <2>4, <3>1, <3>2, DivisionUnique
    <3> QED
      BY <2>4, <2>5, <3>2, <3>3
  <2>10. ShiftAmount(a) = s
    BY <2>1 DEF ShiftAmount
  <2>11. Value("srav", a, b)
           = Or(Value("srlv", a, b),
                IF S32(b) < 0 THEN Not(Value("srlv", a, WordCard - 1)) ELSE 0)
    BY <2>8, <2>10, Values
  <2>12. Value("sllv", a, b) \div Pow2[a % WordBits]
           = b % Pow2[WordBits - (a % WordBits)]
    BY <2>1, <2>9, <2>10, Values
  <2> QED
    BY <2>11, <2>12 DEF ShiftsAgree
<1> QED
  BY <1>1, OperandsStay, PTL

(***************************************************************************)
(* The pair lwr, lwl loads the unaligned word, in either order and         *)
(* whatever the register held, for words of every width.                   *)
(***************************************************************************)
THEOREM PairsLoadUnaligned == Spec => []UnalignedPair
<1>1. ASSUME Operands PROVE UnalignedPair
  <2>1. a \in Word /\ b \in Word
    BY <1>1 DEF Operands
  <2>2. SUFFICES ASSUME NEW x \in 0 .. 4, NEW old \in Word
                 PROVE  /\ Loaded("lwl", Memory, x + 3,
                                  Loaded("lwr", Memory, x, old))
                             = Little(Memory, x, 4)
                        /\ Loaded("lwr", Memory, x,
                                  Loaded("lwl", Memory, x + 3, old))
                             = Little(Memory, x, 4)
    <3>1. 0 \in Word /\ WordCard - 1 \in Word
      BY Width DEF Word
    <3> QED
      BY <2>1, <3>1 DEF UnalignedPair
  <2>3. PICK right, left :
          /\ right = Loaded("lwr", Memory, x, old)
          /\ left = Loaded("lwl", Memory, x + 3, old)
    OBVIOUS
  <2>4. Little(Memory, 0, 4) = a /\ Little(Memory, 4, 4) = b
    BY <2>1, MemoryWords
  <2>5. CASE x \in {0, 4}
    <3>1. PICK A : A = Little(Memory, x, 4)
      OBVIOUS
    <3>2. A \in Word
      BY <2>1, <2>4, <2>5, <3>1
    <3>3. /\ Aligned(x) = x /\ Aligned(x + 3) = x
          /\ ShiftOf(x) = 0 /\ LeftShift(x + 3) = 0
          /\ ShiftOf(x) \in 0 .. WordBits /\ 0 \in 0 .. WordBits
          /\ WordBits - 0 = WordBits
      BY <2>5, Bytes DEF Aligned, ShiftOf, LeftShift
    <3>4. A = AlignedWord(Memory, x) /\ A = AlignedWord(Memory, x + 3)
      BY <3>1, <3>3 DEF AlignedWord
    <3>5. 1 = Pow2[0] /\ WordCard = Pow2[WordBits]
      BY Width, Pow2Recursion
    <3>6. ASSUME NEW o \in Word
          PROVE  /\ Loaded("lwr", Memory, x, o) = A
                 /\ Loaded("lwl", Memory, x + 3, o) = A
      <4>1. Loaded("lwr", Memory, x, o) = WordCard * (o \div WordCard) + (A \div 1)
        <5>1. /\ ShiftOf(x) \in 0 .. WordBits /\ 1 = Pow2[ShiftOf(x)]
              /\ WordCard = Pow2[WordBits - ShiftOf(x)] /\ A = AlignedWord(Memory, x)
          BY <3>3, <3>4, <3>5
        <5> QED
          BY <3>2, <5>1, RightPart
      <4>2. PICK y : y = x + 3
        OBVIOUS
      <4>3. /\ LeftShift(y) \in 0 .. WordBits /\ 1 = Pow2[LeftShift(y)]
            /\ WordCard = Pow2[WordBits - LeftShift(y)]
            /\ A = AlignedWord(Memory, y)
        BY <3>3, <3>4, <3>5, <4>2
      <4>4. Loaded("lwl", Memory, x + 3, o) = 1 * (A % WordCard) + (o % 1)
        BY <3>2, <4>2, <4>3, LeftPart
      <4>5. /\ o \in Nat /\ o < WordCard /\ A \in Nat /\ A < WordCard
            /\ WordCard \in Nat
        BY <3>2, Signed, Width
      <4>6. o \div WordCard = 0 /\ A % WordCard = A /\ o % 1 = 0 /\ A \div 1 = A
        BY <4>5
      <4>7. WordCard * 0 + A = A /\ 1 * A + 0 = A
        BY <4>5
      <4> QED
        BY <4>1, <4>4, <4>6, <4>7
    <3>7. right \in Word /\ left \in Word
      BY <2>3, <3>2, <3>6
    <3> QED
      BY <2>3, <3>1, <3>6, <3>7
  <2>6. CASE x \in 1 .. 3
    <3>1. PICK s, m, p, q : /\ s = ByteBits * x /\ m = ByteBits * (4 - x)
                            /\ p = Pow2[s] /\ q = Pow2[m]
      OBVIOUS
    <3>2. /\ Aligned(x) = 0 /\ Aligned(x + 3) = 4
          /\ ShiftOf(x) = s /\ LeftShift(x + 3) = m
          /\ s \in 0 .. WordBits /\ m \in 0 .. WordBits
          /\ WordBits - s = m /\ WordBits - m = s
      <4>1. x = 1 \/ x = 2 \/ x = 3
        BY <2>6
      <4>2. x % 4 = x /\ (x + 3) % 4 = x - 1 /\ x \in Nat
        BY <4>1
      <4>3. ByteBits \in Nat /\ WordBits = 4 * ByteBits
        BY Bytes
      <4>4. CASE x = 1
        BY <3>1, <4>2, <4>3, <4>4 DEF Aligned, ShiftOf, LeftShift
      <4>5. CASE x = 2
        BY <3>1, <4>2, <4>3, <4>5 DEF Aligned, ShiftOf, LeftShift
      <4>6. CASE x = 3
        BY <3>1, <4>2, <4>3, <4>6 DEF Aligned, ShiftOf, LeftShift
      <4> QED
        BY <4>1, <4>4, <4>5, <4>6
    <3>3. a = AlignedWord(Memory, x) /\ b = AlignedWord(Memory, x + 3)
      BY <2>4, <3>2 DEF AlignedWord
    <3>4. p \in Nat /\ p > 0 /\ q \in Nat /\ q > 0
      BY <3>1, <3>2, Cut
    <3>5. ASSUME NEW o \in Word
          PROVE  /\ Loaded("lwr", Memory, x, o) = q * (o \div q) + (a \div p)
                 /\ a \div p \in 0 .. q - 1 /\ o \div q \in 0 .. p - 1
                 /\ Loaded("lwr", Memory, x, o) \in Word
      BY <2>1, <3>1, <3>2, <3>3, RightPart
    <3>6. ASSUME NEW o \in Word
          PROVE  /\ Loaded("lwl", Memory, x + 3, o) = q * (b % p) + (o % q)
                 /\ b % p \in 0 .. p - 1 /\ o % q \in 0 .. q - 1
                 /\ Loaded("lwl", Memory, x + 3, o) \in Word
      <4>1. PICK y : y = x + 3
        OBVIOUS
      <4>2. /\ LeftShift(y) \in 0 .. WordBits /\ q = Pow2[LeftShift(y)]
            /\ p = Pow2[WordBits - LeftShift(y)] /\ b = AlignedWord(Memory, y)
        BY <3>1, <3>2, <3>3, <4>1
      <4>3. /\ Loaded("lwl", Memory, y, o) = q * (b % p) + (o % q)
            /\ b % p \in 0 .. p - 1 /\ o % q \in 0 .. q - 1
            /\ Loaded("lwl", Memory, y, o) \in Word
        BY <2>1, <4>2, LeftPart
      <4> QED
        BY <4>1, <4>3
    <3>7. PICK c, d, e, f : /\ c = a \div p /\ d = b % p
                            /\ e = old \div q /\ f = old % q
      OBVIOUS
    <3>8. /\ right = q * e + c /\ left = q * d + f
          /\ c \in 0 .. q - 1 /\ d \in 0 .. p - 1
          /\ e \in 0 .. p - 1 /\ f \in 0 .. q - 1
          /\ right \in Word /\ left \in Word
      BY <2>3, <3>5, <3>6, <3>7
    <3>9. right % q = c
      <4>1. right = q * e + c /\ e \in Int /\ c \in 0 .. q - 1
        BY <3>8
      <4>2. q \in Nat /\ q > 0
        BY <3>4
      <4> QED
        BY <4>1, <4>2, DivisionUnique
    <3>10. left \div q = d
      <4>1. left = q * d + f /\ d \in Int /\ f \in 0 .. q - 1
        BY <3>8
      <4>2. q \in Nat /\ q > 0
        BY <3>4
      <4> QED
        BY <4>1, <4>2, DivisionUnique
    <3>11. /\ Loaded("lwl", Memory, x + 3, right) = q * d + c
           /\ Loaded("lwr", Memory, x, left) = q * d + c
      BY <3>5, <3>6, <3>7, <3>8, <3>9, <3>10
    <3>12. Little(Memory, x, 4) = q * d + c
      <4>1. x \in 0 .. 3 /\ q = Span(4 - x) /\ p = Span(x)
        BY <2>6, <3>1 DEF Span
      <4> QED
        BY <2>1, <3>7, <4>1, MemoryWords
    <3> QED
      BY <2>3, <3>11, <3>12
  <2>7. x \in {0, 4} \/ x \in 1 .. 3
    OBVIOUS
  <2> QED
    BY <2>5, <2>6, <2>7
<1> QED
  BY <1>1, OperandsStay, PTL

(***************************************************************************)
(* Narrow and wide accesses agree, and a load finds what a store left, for *)
(* words of every width.                                                   *)
(***************************************************************************)
THEOREM AccessesAgree == Spec => []AccessesCompose
<1>1. ASSUME Operands PROVE AccessesCompose
  <2>1. a \in Word /\ b \in Word /\ b \in Nat /\ b < WordCard
    BY <1>1, Signed DEF Operands
  <2>2. ASSUME NEW mem, NEW x
        PROVE  /\ Loaded("lb", mem, x, 0) = SignExtended(Little(mem, x, 1), ByteCard)
               /\ Loaded("lbu", mem, x, 0) = Little(mem, x, 1)
               /\ Loaded("lh", mem, x, 0) = SignExtended(Little(mem, x, 2), HalfCard)
               /\ Loaded("lhu", mem, x, 0) = Little(mem, x, 2)
               /\ Loaded("lw", mem, x, 0) = Little(mem, x, 4)
               /\ Loaded("ll", mem, x, 0) = Little(mem, x, 4)
    BY DEF Loaded
  <2>3. StoreWidth("sb") = 1 /\ StoreWidth("sh") = 2 /\ StoreWidth("sc") = 4
    BY DEF StoreWidth
  <2>4. /\ Span(0) = 1 /\ Span(1) = ByteCard /\ Span(2) = HalfCard
        /\ Span(4) = WordCard
    BY ByteRange
  <2>5. ByteCard \in Nat /\ ByteCard > 0 /\ HalfCard \in Nat /\ HalfCard > 0
        /\ Span(3) \in Nat /\ Span(3) > 0 /\ WordCard \in Nat /\ WordCard > 0
    <3>1. 1 \in Nat /\ 2 \in Nat /\ 3 \in Nat
      OBVIOUS
    <3> QED
      BY <2>4, <3>1, ByteRange, Width
  <2>6. ASSUME NEW x \in 0 .. 4
        PROVE  /\ Little(Memory, x, 4) = Span(3) * Little(Memory, x + 3, 1)
                                           + Little(Memory, x, 3)
               /\ Little(Memory, x, 4) \div Span(3) = Little(Memory, x + 3, 1)
               /\ Little(Memory, x, 4) = HalfCard * Little(Memory, x + 2, 2)
                                           + Little(Memory, x, 2)
               /\ Little(Memory, x, 4) \div HalfCard = Little(Memory, x + 2, 2)
               /\ Little(Memory, x, 2) = ByteCard * Little(Memory, x + 1, 1)
                                           + Little(Memory, x, 1)
    <3>1. /\ 1 \in Nat /\ 2 \in Nat /\ 3 \in Nat
          /\ 3 + 1 = 4 /\ 2 + 2 = 4 /\ 1 + 1 = 2 /\ 4 <= 4 /\ 2 <= 4
      OBVIOUS
    <3>2. ASSUME NEW j \in Nat, NEW n \in Nat, NEW i, i = j + n, i <= 4
          PROVE  /\ Little(Memory, x, i) = Span(j) * Little(Memory, x + j, n)
                                              + Little(Memory, x, j)
                 /\ Little(Memory, x, i) \div Span(j) = Little(Memory, x + j, n)
      <4>1. PICK low, high : /\ low = Little(Memory, x, j)
                             /\ high = Little(Memory, x + j, n)
        OBVIOUS
      <4>2. /\ Little(Memory, x, j + n) = Span(j) * high + low
            /\ Little(Memory, x, j + n) \div Span(j) = high
        <5>1. a \in Word /\ b \in Word /\ j + n <= 4
          BY <2>1, <3>2
        <5>2. /\ Little(Memory, x, j + n)
                   = Span(j) * Little(Memory, x + j, n) + Little(Memory, x, j)
              /\ Little(Memory, x, j + n) \div Span(j) = Little(Memory, x + j, n)
          BY <3>2, <5>1, LoadsSplit, Zenon
        <5> QED
          BY <4>1, <5>2, Zenon
      <4> QED
        BY <3>2, <4>1, <4>2
    <3>3. /\ Little(Memory, x, 4) = Span(3) * Little(Memory, x + 3, 1)
                                      + Little(Memory, x, 3)
          /\ Little(Memory, x, 4) \div Span(3) = Little(Memory, x + 3, 1)
      BY <3>1, <3>2
    <3>4. /\ Little(Memory, x, 4) = Span(2) * Little(Memory, x + 2, 2)
                                      + Little(Memory, x, 2)
          /\ Little(Memory, x, 4) \div Span(2) = Little(Memory, x + 2, 2)
      BY <3>1, <3>2
    <3>5. Little(Memory, x, 2) = Span(1) * Little(Memory, x + 1, 1)
                                   + Little(Memory, x, 1)
      BY <3>1, <3>2
    <3> QED
      BY <2>4, <3>3, <3>4, <3>5
  <2>7. ASSUME NEW x \in 0 .. 4
        PROVE  /\ Little(Memory, x, 4) \in Word
               /\ Little(Memory, x + 1, 1) \in Nat /\ Little(Memory, x, 1) \in Nat
               /\ Little(Memory, x + 2, 2) \in Nat /\ Little(Memory, x, 2) \in Nat
    <3>1. /\ 0 \in Nat /\ 1 \in Nat /\ 2 \in Nat /\ 4 \in Nat /\ 4 + 0 <= 4
          /\ 1 + 1 <= 4 /\ 2 + 2 <= 4
      OBVIOUS
    <3>2. Little(Memory, x, 4) \in 0 .. Span(4) - 1
      BY <2>1, <3>1, LoadsJoin
    <3>3. /\ Little(Memory, x, 1) \in 0 .. Span(1) - 1
          /\ Little(Memory, x + 1, 1) \in 0 .. Span(1) - 1
      BY <2>1, <3>1, LoadsJoin
    <3>4. /\ Little(Memory, x, 2) \in 0 .. Span(2) - 1
          /\ Little(Memory, x + 2, 2) \in 0 .. Span(2) - 1
      BY <2>1, <3>1, LoadsJoin
    <3> QED
      BY <2>4, <2>5, <3>2, <3>3, <3>4 DEF Word
  <2>8. /\ ShiftAmount(3 * ByteBits) = 3 * ByteBits
        /\ ShiftAmount(2 * ByteBits) = 2 * ByteBits
        /\ 3 * ByteBits \in 0 .. WordBits - 1 /\ 2 * ByteBits \in 0 .. WordBits - 1
        /\ WordBits - 3 * ByteBits = ByteBits /\ WordBits - 2 * ByteBits = 2 * ByteBits
    BY Bytes DEF ShiftAmount
  <2>9. ASSUME NEW x \in 0 .. 4
        PROVE  SignExtended(Little(Memory, x + 3, 1), ByteCard)
                 = Value("srav", 3 * ByteBits, Little(Memory, x, 4))
    <3>1. PICK s, w : s = 3 * ByteBits /\ w = Little(Memory, x, 4)
      OBVIOUS
    <3>2. /\ s \in 0 .. WordBits - 1 /\ w \in Word /\ Span(3) = Pow2[s]
          /\ ByteCard = Pow2[WordBits - s]
      <4>1. ByteBits * 3 = 3 * ByteBits
        BY Bytes
      <4> QED
        BY <2>7, <2>8, <3>1, <4>1, Bytes DEF Span
    <3>3. ShiftRightArith(w, s) = SignExtended(w \div Span(3), ByteCard)
      BY <3>2, SignFill
    <3> QED
      BY <2>6, <2>8, <3>1, <3>3, Values
  <2>10. ASSUME NEW x \in 0 .. 4
         PROVE  SignExtended(Little(Memory, x + 2, 2), HalfCard)
                  = Value("srav", 2 * ByteBits, Little(Memory, x, 4))
    <3>1. PICK s, w : s = 2 * ByteBits /\ w = Little(Memory, x, 4)
      OBVIOUS
    <3>2. /\ s \in 0 .. WordBits - 1 /\ w \in Word /\ HalfCard = Pow2[s]
          /\ HalfCard = Pow2[WordBits - s]
      BY <2>7, <2>8, <3>1, Bytes
    <3>3. ShiftRightArith(w, s) = SignExtended(w \div HalfCard, HalfCard)
      <4>1. PICK p, q : p = HalfCard /\ q = HalfCard
        OBVIOUS
      <4>2. p = Pow2[s] /\ q = Pow2[WordBits - s]
        BY <3>2, <4>1
      <4>3. s \in 0 .. WordBits - 1 /\ w \in Word
        BY <3>2
      <4>4. ShiftRightArith(w, s) = SignExtended(w \div p, q)
        BY <4>2, <4>3, SignFill
      <4> QED
        BY <4>1, <4>4, Zenon
    <3> QED
      BY <2>6, <2>8, <3>1, <3>3, Values
  <2>11. ASSUME NEW x \in 0 .. 4
         PROVE  /\ Little(Stored("sh", Memory, x, b), x, 4)
                     = HalfCard * Little(Memory, x + 2, 2) + (b % HalfCard)
                /\ Little(Stored("sb", Memory, x, b), x, 2)
                     = ByteCard * Little(Memory, x + 1, 1) + (b % ByteCard)
                /\ Little(Stored("sc", Memory, x, b), x, 4) = b
    <3>1. /\ 0 \in Nat /\ 1 \in Nat /\ 2 \in Nat
          /\ 1 \in 1 .. 4 /\ 2 \in 1 .. 4 /\ 4 \in 1 .. 4
          /\ 2 + 2 = 4 /\ 1 + 1 = 2 /\ 4 + 0 = 4 /\ 4 <= 4 /\ 2 <= 4
      OBVIOUS
    <3>2. Little(Stored("sh", Memory, x, b), x, 2 + 2)
            = Span(2) * Little(Memory, x + 2, 2) + (b % Span(2))
      BY <2>1, <2>3, <3>1, StoreThenLoad
    <3>3. Little(Stored("sb", Memory, x, b), x, 1 + 1)
            = Span(1) * Little(Memory, x + 1, 1) + (b % Span(1))
      BY <2>1, <2>3, <3>1, StoreThenLoad
    <3>4. Little(Stored("sc", Memory, x, b), x, 4 + 0)
            = Span(4) * Little(Memory, x + 4, 0) + (b % Span(4))
      BY <2>1, <2>3, <3>1, StoreThenLoad
    <3>5. Little(Memory, x + 4, 0) = 0
      <4>1. 0 \in Nat /\ 4 \in Nat /\ 4 + 0 <= 4
        OBVIOUS
      <4>2. Little(Memory, x + 4, 0) \in 0 .. Span(0) - 1
        BY <2>1, <4>1, LoadsJoin
      <4> QED
        BY <2>4, <4>2
    <3>6. b % WordCard = b /\ WordCard * 0 + b = b
      BY <2>1, <2>5
    <3> QED
      BY <2>4, <3>1, <3>2, <3>3, <3>4, <3>5, <3>6
  <2>12. ASSUME NEW x \in 0 .. 4
         PROVE  /\ HalfCard * Little(Memory, x + 2, 2)
                     = Little(Memory, x + 2, 2) * HalfCard
                /\ ByteCard * Little(Memory, x + 1, 1)
                     = Little(Memory, x + 1, 1) * ByteCard
    BY <2>5, <2>7
  <2>13. ASSUME NEW x \in 0 .. 4
         PROVE  /\ Loaded("lb", Memory, x + 3, 0)
                     = Value("srav", 3 * ByteBits, Loaded("lw", Memory, x, 0))
                /\ Loaded("lh", Memory, x + 2, 0)
                     = Value("srav", 2 * ByteBits, Loaded("lw", Memory, x, 0))
    BY <2>2, <2>9, <2>10
  <2>14. ASSUME NEW x \in 0 .. 4
         PROVE  /\ Loaded("lw", Memory, x, 0)
                     = Loaded("lhu", Memory, x + 2, 0) * HalfCard
                         + Loaded("lhu", Memory, x, 0)
                /\ Loaded("lhu", Memory, x, 0)
                     = Loaded("lbu", Memory, x + 1, 0) * ByteCard
                         + Loaded("lbu", Memory, x, 0)
    BY <2>2, <2>6, <2>12
  <2>15. ASSUME NEW x \in 0 .. 4
         PROVE  /\ Loaded("lw", Stored("sh", Memory, x, b), x, 0)
                     = Loaded("lhu", Memory, x + 2, 0) * HalfCard + (b % HalfCard)
                /\ Loaded("lhu", Stored("sb", Memory, x, b), x, 0)
                     = Loaded("lbu", Memory, x + 1, 0) * ByteCard + (b % ByteCard)
                /\ Loaded("ll", Stored("sc", Memory, x, b), x, 0) = b
    BY <2>2, <2>11, <2>12
  <2> QED
    BY <2>13, <2>14, <2>15 DEF AccessesCompose
<1> QED
  BY <1>1, OperandsStay, PTL
------------------------------------------------------------------------------
\* What Cpu takes for granted of its arithmetic.

\* The instructions of Cpu's AluRegOps, ShiftImmOps and AluImmOps.
ComputingOps == {"sllv", "srlv", "srav", "add", "addu", "sub", "subu", "slt",
                 "sltu", "and", "or", "xor", "nor", "sll", "srl", "sra", "addi",
                 "addiu", "slti", "sltiu", "andi", "ori", "xori", "lui"}

(***************************************************************************)
(* Binary digits make up a word.                                           *)
(***************************************************************************)
LEMMA BitsMakeWord ==
  ASSUME NEW d, \A k \in 0 .. WordBits - 1 : d[k] \in {0, 1}
  PROVE  OfBits(d) \in Word
<1>1. WordBits \in Nat /\ WordCard = Pow2[WordBits]
  BY Width
<1>2. \A k \in 0 .. WordBits - 1 : d[k] \in Nat
  OBVIOUS
<1>3. /\ FromDigits(d, 1, 0) = 0
      /\ \A m \in 0 .. WordBits - 1 :
           FromDigits(d, 1, m + 1) = FromDigits(d, 1, m) + d[m] * Pow2[1 * m]
  <2>1. 1 \in Nat
    OBVIOUS
  <2> QED
    BY <1>1, <1>2, <2>1, DigitByDigit
<1> DEFINE S == {m \in Nat : m <= WordBits =>
                               FromDigits(d, 1, m) \in 0 .. Pow2[m] - 1}
<1>4. 0 \in S
  BY <1>1, <1>3, Pow2Recursion
<1>5. ASSUME NEW m \in Nat, m \in S PROVE m + 1 \in S
  <2>1. SUFFICES ASSUME m + 1 <= WordBits
                 PROVE  FromDigits(d, 1, m + 1) \in 0 .. Pow2[m + 1] - 1
    OBVIOUS
  <2>2. m \in 0 .. WordBits - 1 /\ FromDigits(d, 1, m) \in 0 .. Pow2[m] - 1
    BY <1>1, <1>5, <2>1
  <2> DEFINE p == Pow2[m]
             f == FromDigits(d, 1, m)
  <2>3. p \in Nat /\ p > 0 /\ Pow2[m + 1] = 2 * p
    BY Pow2Positive, Pow2Recursion
  <2>4. FromDigits(d, 1, m + 1) = f + d[m] * p
    <3>1. 1 * m = m
      OBVIOUS
    <3> QED
      BY <1>3, <2>2, <3>1
  <2>5. d[m] * p = 0 \/ d[m] * p = p
    BY <2>2, <2>3
  <2>6. f \in 0 .. p - 1
    BY <2>2
  <2> HIDE DEF p, f
  <2> QED
    BY <2>3, <2>4, <2>5, <2>6
<1>6. WordBits \in S
  <2> HIDE DEF S
  <2> QED
    BY <1>1, <1>4, <1>5, Induction
<1> QED
  BY <1>1, <1>6 DEF OfBits, Word

(***************************************************************************)
(* The bitwise operators yield words.                                      *)
(***************************************************************************)
LEMMA BitwiseWords ==
  ASSUME NEW x \in Word, NEW y \in Word
  PROVE  /\ And(x, y) \in Word /\ Or(x, y) \in Word /\ Xor(x, y) \in Word
         /\ Not(Or(x, y)) \in Word
<1>1. \A k \in 0 .. WordBits - 1 : Digit(x, k) \in {0, 1} /\ Digit(y, k) \in {0, 1}
  BY Signed, Width, DigitRange
<1> DEFINE I == 0 .. WordBits - 1
           d == [k \in I |-> Digit(x, k) * Digit(y, k)]
           e == [k \in I |-> Flag(Digit(x, k) + Digit(y, k) > 0)]
           f == [k \in I |-> (Digit(x, k) + Digit(y, k)) % 2]
<1>2. \A k \in I : d[k] \in {0, 1}
  <2> SUFFICES ASSUME NEW k \in I PROVE d[k] \in {0, 1}
    OBVIOUS
  <2>1. Digit(x, k) \in {0, 1} /\ Digit(y, k) \in {0, 1}
    BY <1>1
  <2> QED
    BY <2>1
<1>3. \A k \in I : e[k] \in {0, 1}
  BY DEF Flag
<1>4. \A k \in I : f[k] \in {0, 1}
  <2> SUFFICES ASSUME NEW k \in I PROVE f[k] \in {0, 1}
    OBVIOUS
  <2>1. Digit(x, k) \in {0, 1} /\ Digit(y, k) \in {0, 1}
    BY <1>1
  <2> QED
    BY <2>1
<1> HIDE DEF d, e, f
<1>5. OfBits(d) \in Word /\ OfBits(e) \in Word /\ OfBits(f) \in Word
  BY <1>2, <1>3, <1>4, BitsMakeWord
<1>6. And(x, y) \in Word /\ Or(x, y) \in Word /\ Xor(x, y) \in Word
  BY <1>5 DEF And, Or, Xor, d, e, f
<1>7. ASSUME NEW z \in Word PROVE Not(z) \in Word
  BY Width DEF Not, Word
<1> QED
  BY <1>6, <1>7

(***************************************************************************)
(* A conversion to u32 yields a word, and so does a comparison.            *)
(***************************************************************************)
LEMMA ConversionWord ==
  /\ \A x \in Int : U32(x) \in Word
  /\ \A p : Flag(p) \in Word
<1>1. WordCard \in Nat /\ WordCard > 1
  BY Width
<1> QED
  BY <1>1 DEF U32, Flag, Word

(***************************************************************************)
(* Shifts yield words.                                                     *)
(***************************************************************************)
LEMMA ShiftWords ==
  ASSUME NEW x \in Word, NEW y \in Word
  PROVE  /\ ShiftLeft(y, ShiftAmount(x)) \in Word
         /\ ShiftRight(y, ShiftAmount(x)) \in Word
         /\ ShiftRightArith(y, ShiftAmount(x)) \in Word
<1>1. y \in Nat /\ y < WordCard /\ S32(y) \in Int /\ x \in Nat
  BY Signed
<1>2. PICK p : p = Pow2[ShiftAmount(x)]
  OBVIOUS
<1>3. p \in Nat /\ p > 0
  <2>1. ShiftAmount(x) \in Nat
    BY <1>1, Width, Division DEF ShiftAmount
  <2> QED
    BY <1>2, <2>1, Pow2Positive
<1>4. y * p \in Int /\ S32(y) \div p \in Int
  BY <1>1, <1>3, Division
<1>5. y \div p \in 0 .. y
  BY <1>1, <1>3
<1>6. y \div p \in Word
  BY <1>1, <1>5, Width DEF Word
<1> QED
  BY <1>2, <1>4, <1>6, ConversionWord DEF ShiftLeft, ShiftRight, ShiftRightArith

(***************************************************************************)
(* The immediate read as s16 is an integer.                                *)
(***************************************************************************)
LEMMA ImmediateInt ==
  ASSUME NEW y \in Int
  PROVE  S16(y) \in Int /\ y * ImmCard \in Int
BY WordAssumption DEF S16

(***************************************************************************)
(* Whether an arithmetic instruction writes its destination is determined, *)
(* and every result is a word, hi and lo included: what the interpreters'  *)
(* proofs assume of arithmetic (AluAssumption of Cpu) holds of the         *)
(* operators of Alu, for words of every width.                             *)
(***************************************************************************)
THEOREM ResultsAreWords ==
  ASSUME NEW x \in Word, NEW y \in Word
  PROVE  /\ \A op \in ComputingOps : /\ Writes(op, x, y) \in BOOLEAN
                                     /\ Value(op, x, y) \in Word
         /\ \A op \in {"mult", "multu", "div", "divu"} :
              MultDiv(op, x, y) \in [hi : Word, lo : Word]
<1>1. /\ x \in Nat /\ y \in Nat /\ x < WordCard /\ y < WordCard
      /\ S32(x) \in Int /\ S32(y) \in Int /\ WordCard \in Nat /\ WordCard > 1
  BY Signed, Width
<1>2. S16(y) \in Int /\ y * ImmCard \in Int
  BY <1>1, ImmediateInt
<1>3. ASSUME NEW op \in ComputingOps PROVE Writes(op, x, y) \in BOOLEAN
  <2>1. /\ op = "add"  => Writes(op, x, y) = (x + y <= WordCard - 1)
        /\ op = "addi" => Writes(op, x, y) = (x + S16(y) <= WordCard - 1)
        /\ op = "sub"  => Writes(op, x, y) = (x - y >= S32Min)
        /\ op \notin {"add", "addi", "sub"} => Writes(op, x, y) = TRUE
    BY DEF Writes
  <2>2. /\ (x + y <= WordCard - 1) \in BOOLEAN
        /\ (x + S16(y) <= WordCard - 1) \in BOOLEAN
        /\ (x - y >= S32Min) \in BOOLEAN
    OBVIOUS
  <2> QED
    BY <2>1, <2>2, Zenon
<1>4. ASSUME NEW op \in ComputingOps PROVE Value(op, x, y) \in Word
  <2>1. CASE op \in {"sllv", "srlv", "srav", "sll", "srl", "sra"}
    BY <2>1, ShiftWords DEF Value
  <2>2. CASE op \in {"add", "addu", "sub", "subu", "addi", "addiu", "lui"}
    <3>1. /\ U32(x + y) \in Word /\ U32(x - y) \in Word
          /\ U32(x + S16(y)) \in Word /\ U32(y * ImmCard) \in Word
      BY <1>1, <1>2, ConversionWord
    <3> QED
      BY <2>2, <3>1 DEF Value
  <2>3. CASE op \in {"slt", "sltu", "slti", "sltiu"}
    BY <2>3, ConversionWord DEF Value
  <2>4. CASE op \in {"and", "or", "xor", "nor", "andi", "ori", "xori"}
    BY <2>4, BitwiseWords DEF Value
  <2> QED
    BY <2>1, <2>2, <2>3, <2>4 DEF ComputingOps
<1>5. MultDiv("mult", x, y) \in [hi : Word, lo : Word]
  <2> DEFINE p == S32(x) * S32(y)
  <2>1. p \in Int /\ p \div WordCard \in Int
    BY <1>1, Division
  <2> HIDE DEF p
  <2>2. U32(p) \in Word /\ U32(p \div WordCard) \in Word
    BY <2>1, ConversionWord
  <2> QED
    BY <2>2, HiLo DEF p
<1>6. MultDiv("multu", x, y) \in [hi : Word, lo : Word]
  <2> DEFINE p == x * y
  <2>1. p \in Int /\ p \div WordCard \in Int
    BY <1>1, Division
  <2> HIDE DEF p
  <2>2. U32(p) \in Word /\ U32(p \div WordCard) \in Word
    BY <2>1, ConversionWord
  <2> QED
    BY <2>2, HiLo DEF p
<1>7. y # 0 => Divided(x, y) \in [hi : Word, lo : Word]
  <2> SUFFICES ASSUME y # 0 PROVE x \div y \in Word /\ x % y \in Word
    BY DEF Divided
  <2>1. y > 0
    BY <1>1
  <2>2. x \div y \in 0 .. x /\ x % y \in 0 .. y - 1
    BY <1>1, <2>1
  <2> QED
    BY <1>1, <2>2 DEF Word
<1>8. MultDiv("divu", x, y) \in [hi : Word, lo : Word]
  <2>1. WordCard - 1 \in Word
    BY <1>1 DEF Word
  <2> QED
    BY <1>7, <2>1, HiLo DEF Divided
<1>9. MultDiv("div", x, y) \in [hi : Word, lo : Word]
  <2>1. /\ WordCard - 1 \in Word /\ 0 \in Word /\ 1 \in Word
        /\ U32(S32Min) \in Word
    <3>1. S32Min \in Int
      BY Width
    <3> QED
      BY <1>1, <3>1, ConversionWord DEF Word
  <2>2. /\ y = 0 => MultDiv("div", x, y)
                      = [lo |-> IF S32(x) > 0 THEN WordCard - 1 ELSE 1, hi |-> x]
        /\ y # 0 /\ S32(y) = -1 /\ S32(x) = S32Min
             => MultDiv("div", x, y) = [lo |-> U32(S32Min), hi |-> 0]
        /\ y # 0 /\ ~(S32(y) = -1 /\ S32(x) = S32Min)
             => MultDiv("div", x, y) = Divided(x, y)
    BY DEF MultDiv
  <2> QED
    BY <1>7, <2>1, <2>2
<1> QED
  BY <1>3, <1>4, <1>5, <1>6, <1>8, <1>9
============================================================================
