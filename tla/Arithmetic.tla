------------------------------ MODULE Arithmetic ----------------------------
(***************************************************************************)
(* Quotients and remainders by a number that is not fixed, from the        *)
(* definition of \div and %: what chunks of elements and a countdown that  *)
(* starts over are made of; and the least element of a set of naturals,    *)
(* which is how these proofs argue by induction: the least counterexample  *)
(* to a claim would follow from smaller instances of it.  Such an argument *)
(* also shows that what a function is iterated to exists.                  *)
(***************************************************************************)
EXTENDS Integers, WellFoundedInduction, TLAPS

(* A set of natural numbers that is not empty has a least element. *)
LEMMA Least ==
    ASSUME NEW T, T \subseteq Nat, T # {}
    PROVE  \E x \in T : \A y \in T : x <= y
<1> DEFINE R == {p \in Nat \X Nat : p[1] < p[2]}
<1>1. IsWellFoundedOn(R, Nat)
  BY NatLessThanWellFounded DEF OpToRel
<1>2. \A x, y \in Nat : y < x => <<y, x>> \in R
  OBVIOUS
<1> HIDE DEF R
<1>3. PICK x \in T : \A y \in T : <<y, x>> \notin R
  BY <1>1, WFMin
<1>4. \A y \in T : ~(y < x)
  BY <1>2, <1>3
<1>5. \A y \in T : x <= y
  BY <1>4
<1> QED BY <1>5

(* Iterating a function up to some number of times. *)
IsIteration(h, n, first, step) ==
    /\ h[0] = first
    /\ \A k \in 0 .. n - 1 : h[k + 1] = step[h[k]]

LEMMA IterationsAgree ==
    ASSUME NEW first, NEW step, NEW g, NEW h, NEW n \in Nat, NEW m \in Nat,
           IsIteration(g, n, first, step), IsIteration(h, m, first, step)
    PROVE  \A k \in Nat : k <= n /\ k <= m => g[k] = h[k]
<1> DEFINE T == {k \in Nat : k <= n /\ k <= m /\ g[k] # h[k]}
<1> SUFFICES T = {}
  OBVIOUS
<1> SUFFICES ASSUME T # {} PROVE FALSE
  OBVIOUS
<1>1. PICK k \in T : \A j \in T : k <= j
  <2>1. T \subseteq Nat
    OBVIOUS
  <2> HIDE DEF T
  <2> QED BY <2>1, Least
<1>2. k \in Nat /\ k <= n /\ k <= m /\ g[k] # h[k]
  OBVIOUS
<1>3. k # 0
  BY <1>2 DEF IsIteration
<1>4. k - 1 \in 0 .. n - 1 /\ k - 1 \in 0 .. m - 1 /\ k - 1 \in Nat /\ (k - 1) + 1 = k
  BY <1>2, <1>3
<1>5. g[k] = step[g[k - 1]] /\ h[k] = step[h[k - 1]]
  BY <1>4 DEF IsIteration
<1>6. k - 1 \notin T
  BY <1>1, <1>2, <1>4
<1>7. g[k - 1] = h[k - 1]
  BY <1>2, <1>4, <1>6
<1> QED BY <1>2, <1>5, <1>7

LEMMA IterationsExist ==
    ASSUME NEW S, NEW first \in S, NEW step \in [S -> S], NEW n \in Nat
    PROVE  \E h \in [0 .. n -> S] : IsIteration(h, n, first, step)
<1> DEFINE T == {m \in Nat : ~ \E h \in [0 .. m -> S] : IsIteration(h, m, first, step)}
<1> SUFFICES ASSUME T # {} PROVE FALSE
  OBVIOUS
<1>1. PICK m \in T : \A j \in T : m <= j
  <2>1. T \subseteq Nat
    OBVIOUS
  <2> HIDE DEF T
  <2> QED BY <2>1, Least
<1>2. m # 0
  <2>1. [k \in 0 .. 0 |-> first] \in [0 .. 0 -> S]
    OBVIOUS
  <2>2. IsIteration([k \in 0 .. 0 |-> first], 0, first, step)
    BY DEF IsIteration
  <2> QED BY <2>1, <2>2
<1>3. m \in Nat /\ m - 1 \in Nat /\ m - 1 \notin T
  BY <1>1, <1>2
<1>4. PICK h \in [0 .. m - 1 -> S] : IsIteration(h, m - 1, first, step)
  BY <1>3
<1> DEFINE g == [k \in 0 .. m |-> IF k = m THEN step[h[m - 1]] ELSE h[k]]
<1>5. \A k \in 0 .. m : g[k] \in S
  <2>1. h[m - 1] \in S /\ \A k \in 0 .. m : k # m => k \in 0 .. m - 1
    BY <1>3
  <2> QED BY <2>1
<1>6. IsIteration(g, m, first, step)
  <2>1. g[0] = first
    BY <1>2, <1>3, <1>4 DEF IsIteration
  <2>2. ASSUME NEW k \in 0 .. m - 1 PROVE g[k + 1] = step[g[k]]
    <3>1. g[k] = h[k] /\ k \in 0 .. m /\ k + 1 \in 0 .. m
      BY <1>3
    <3>2. CASE k = m - 1
      BY <1>3, <3>1, <3>2
    <3>3. CASE k # m - 1
      <4>1. k \in 0 .. (m - 1) - 1 /\ k + 1 # m
        BY <1>3, <3>3
      <4>2. h[k + 1] = step[h[k]]
        BY <1>4, <4>1 DEF IsIteration
      <4> QED BY <3>1, <4>1, <4>2
    <3> QED BY <3>2, <3>3
  <2> HIDE DEF g
  <2> QED BY <2>1, <2>2 DEF IsIteration
<1>7. g \in [0 .. m -> S]
  BY <1>5
<1> HIDE DEF g
<1>8. m \notin T
  BY <1>3, <1>6, <1>7
<1> QED BY <1>8

(* A function from a set to itself can be iterated forever. *)
LEMMA Iterates ==
    ASSUME NEW S, NEW first \in S, NEW step \in [S -> S]
    PROVE  \E g \in [Nat -> S] : g[0] = first /\ \A n \in Nat : g[n + 1] = step[g[n]]
<1> DEFINE H(n) == CHOOSE h \in [0 .. n -> S] : IsIteration(h, n, first, step)
           g == [n \in Nat |-> H(n)[n]]
<1>1. ASSUME NEW n \in Nat PROVE H(n) \in [0 .. n -> S] /\ IsIteration(H(n), n, first, step)
  BY IterationsExist
<1> HIDE DEF H
<1>2. ASSUME NEW n \in Nat PROVE H(n)[n] \in S
  BY <1>1
<1>3. H(0)[0] = first
  BY <1>1 DEF IsIteration
<1>4. ASSUME NEW n \in Nat PROVE H(n + 1)[n + 1] = step[H(n)[n]]
  <2>1. n + 1 \in Nat /\ n \in 0 .. (n + 1) - 1
    OBVIOUS
  <2>2. H(n + 1)[n + 1] = step[H(n + 1)[n]]
    BY <1>1, <2>1 DEF IsIteration
  <2>3. IsIteration(H(n), n, first, step) /\ IsIteration(H(n + 1), n + 1, first, step)
    BY <1>1, <2>1
  <2>4. H(n + 1)[n] = H(n)[n]
    BY <2>1, <2>3, IterationsAgree
  <2> QED BY <2>2, <2>4
<1>5. g \in [Nat -> S] /\ g[0] = first /\ \A n \in Nat : g[n + 1] = step[g[n]]
  BY <1>2, <1>3, <1>4
<1> QED BY <1>5

(* A number is its quotient times w plus its remainder. *)
LEMMA DivisionFact ==
    ASSUME NEW x \in Nat, NEW w \in Nat, w > 0
    PROVE  /\ x = ((x \div w) * w) + (x % w)
           /\ x % w \in 0 .. w - 1
           /\ x \div w \in Int
  BY SMT

(* A positive multiple of w is at least w. *)
LEMMA Multiple ==
    ASSUME NEW a \in Int, NEW w \in Nat, w > 0, a >= 1
    PROVE  a * w >= w
  BY SMT

(* The remainder of such a decomposition is unique. *)
LEMMA RemainderUnique ==
    ASSUME NEW k \in Int, NEW q \in Int, NEW w \in Nat, w > 0,
           NEW r \in 0 .. w - 1, NEW s \in 0 .. w - 1,
           k * w + r = q * w + s
    PROVE  r = s
<1>1. (k - q) * w = k * w - q * w  BY SMT
<1>2. (q - k) * w = q * w - k * w  BY SMT
<1>3. ~(k - q >= 1)  BY <1>1, Multiple
<1>4. ~(q - k >= 1)  BY <1>2, Multiple
<1>5. k = q  BY <1>3, <1>4, SMT
<1> QED  BY <1>5, SMT

(* The remainder of a number is that of any such decomposition of it. *)
LEMMA RemainderIs ==
    ASSUME NEW x \in Nat, NEW w \in Nat, w > 0,
           NEW k \in Int, NEW r \in 0 .. w - 1, x = k * w + r
    PROVE  x % w = r
<1> DEFINE q == x \div w
           s == x % w
<1>1. x = q * w + s /\ s \in 0 .. w - 1 /\ q \in Int  BY DivisionFact
<1> HIDE DEF q, s
<1>2. r = s  BY <1>1, RemainderUnique
<1> QED  BY <1>2 DEF s

(* So is its quotient. *)
LEMMA QuotientIs ==
    ASSUME NEW x \in Nat, NEW w \in Nat, w > 0,
           NEW k \in Int, NEW r \in 0 .. w - 1, x = k * w + r
    PROVE  x \div w = k
<1> DEFINE q == x \div w
           s == x % w
<1>1. x = q * w + s /\ s \in 0 .. w - 1 /\ q \in Int  BY DivisionFact
<1>2. s = r  BY RemainderIs
<1> HIDE DEF q, s
<1>3. (k - q) * w = k * w - q * w  BY <1>1, SMT
<1>4. (q - k) * w = q * w - k * w  BY <1>1, SMT
<1>5. ~(k - q >= 1)  BY <1>1, <1>2, <1>3, Multiple
<1>6. ~(q - k >= 1)  BY <1>1, <1>2, <1>4, Multiple
<1>7. k = q  BY <1>1, <1>5, <1>6, SMT
<1> QED  BY <1>7 DEF q

(* Products of natural numbers are natural numbers, and ordered. *)
LEMMA Products ==
    ASSUME NEW a \in Nat, NEW b \in Nat
    PROVE  a * b \in Nat
  BY SMT

LEMMA ProductOfDifference ==
    ASSUME NEW a \in Int, NEW b \in Int, NEW w \in Nat
    PROVE  (a - b) * w = a * w - b * w
  BY SMT

LEMMA ProductOfSuccessor ==
    ASSUME NEW a \in Int, NEW w \in Nat
    PROVE  (a + 1) * w = a * w + w
  BY SMT

(* The quotient of a number does not exceed that of a larger one. *)
LEMMA QuotientsOrdered ==
    ASSUME NEW x \in Nat, NEW y \in Nat, NEW w \in Nat, w > 0, x <= y
    PROVE  x \div w \in Nat /\ y \div w \in Nat /\ x \div w <= y \div w
<1> DEFINE p == x \div w
           q == y \div w
<1>1. x = p * w + (x % w) /\ x % w \in 0 .. w - 1 /\ p \in Int  BY DivisionFact
<1>2. y = q * w + (y % w) /\ y % w \in 0 .. w - 1 /\ q \in Int  BY DivisionFact
<1>3. p \in Nat /\ q \in Nat  BY SMT
<1> HIDE DEF p, q
<1>4. (p - q) * w = p * w - q * w  BY <1>1, <1>2, SMT
<1>5. ~(p - q >= 1)
  <2>1. SUFFICES ASSUME p - q >= 1 PROVE FALSE
    OBVIOUS
  <2>2. (p - q) * w >= w
    BY <1>1, <1>2, <2>1, Multiple
  <2>3. p * w \in Int /\ q * w \in Int
    BY <1>1, <1>2, SMT
  <2> HIDE DEF p, q
  <2> QED BY <1>1, <1>2, <1>4, <2>2, <2>3, SMT
<1>6. p <= q  BY <1>3, <1>5, SMT
<1> QED  BY <1>3, <1>6 DEF p, q
=============================================================================
