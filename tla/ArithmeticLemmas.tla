-------------------------- MODULE ArithmeticLemmas --------------------------
(***************************************************************************)
(* Facts about division and remainder by a number that is not known, which *)
(* the proofs about the clock and about the watering schedule share.       *)
(***************************************************************************)
EXTENDS Integers, TLAPS

LEMMA DivMod ==
  ASSUME NEW x \in Int, NEW n \in Nat \ {0}
  PROVE  /\ x \div n \in Int /\ x % n \in 0 .. n - 1
         /\ x = n * (x \div n) + (x % n)
<1>1. x \div n \in Int
  OBVIOUS
<1>2. x % n \in 0 .. n - 1
  OBVIOUS
<1>3. x = n * (x \div n) + (x % n)
  OBVIOUS
<1> QED
  BY <1>1, <1>2, <1>3

LEMMA DivNat ==
  ASSUME NEW x \in Nat, NEW n \in Nat \ {0}
  PROVE  x \div n \in Nat
OBVIOUS

LEMMA MulAdd ==
  ASSUME NEW n \in Int, NEW p \in Int, NEW q \in Int
  PROVE  n * (p + q) = n * p + n * q
OBVIOUS

\* A remainder is the only number of its range that differs by a multiple.
LEMMA ModIs ==
  ASSUME NEW x \in Int, NEW n \in Nat \ {0}, NEW q \in Int, NEW r \in 0 .. n - 1,
         x = n * q + r
  PROVE  x % n = r
<1>1. /\ x \div n \in Int /\ x % n \in 0 .. n - 1
      /\ x = n * (x \div n) + (x % n)
  BY DivMod
<1> DEFINE d == x \div n
           m == x % n
<1> HIDE DEF d, m
<1>2. d \in Int /\ m \in 0 .. n - 1 /\ n * d + m = n * q + r
  BY <1>1 DEF d, m
<1>3. n * (d + (-q)) = n * d + n * (-q) /\ n * (-q) = -(n * q)
  BY <1>2, MulAdd
<1>4. n * (d - q) = r - m
  BY <1>2, <1>3
<1>5. d - q = 0
  <2>1. CASE d - q >= 1
    <3>1. n * (d - q) >= n
      BY <1>2, <2>1
    <3> QED
      BY <1>2, <1>4, <3>1
  <2>2. CASE d - q <= -1
    <3>1. n * (d - q) <= -n
      BY <1>2, <2>2
    <3> QED
      BY <1>2, <1>4, <3>1
  <2> QED
    BY <1>2, <2>1, <2>2
<1>6. m = r
  BY <1>2, <1>4, <1>5
<1> QED
  BY <1>6 DEF m

\* Time that goes by can be added before or after the remainder is taken.
LEMMA ModPlus ==
  ASSUME NEW x \in Int, NEW s \in Int, NEW n \in Nat \ {0}
  PROVE  ((x % n) + s) % n = (x + s) % n
<1> DEFINE q == x \div n
           m == x % n
           t == m + s
           p == t \div n
           r == t % n
<1>1. q \in Int /\ m \in 0 .. n - 1 /\ x = n * q + m
  BY DivMod
<1> HIDE DEF q, m
<1>2. p \in Int /\ r \in 0 .. n - 1 /\ m + s = n * p + r
  <2>1. t \in Int
    BY <1>1
  <2> HIDE DEF t
  <2>2. p \in Int /\ r \in 0 .. n - 1 /\ t = n * p + r
    BY <2>1, DivMod
  <2> HIDE DEF p, r
  <2> QED
    BY <2>2 DEF t
<1> HIDE DEF p, r
<1>3. x + s = n * (q + p) + r
  <2>1. n * (q + p) = n * q + n * p
    BY <1>1, <1>2, MulAdd
  <2>2. n * q \in Int /\ n * p \in Int
    BY <1>1, <1>2
  <2> QED
    BY <1>1, <1>2, <2>1, <2>2
<1>4. (x + s) % n = r
  <2> DEFINE z == q + p
             y == x + s
  <2>1. z \in Int /\ y \in Int /\ y = n * z + r
    BY <1>1, <1>2, <1>3
  <2> HIDE DEF z, y
  <2>2. y % n = r
    BY <1>2, <2>1, ModIs
  <2> QED
    BY <2>2 DEF y
<1> QED
  BY <1>4 DEF r, t, m

LEMMA ModSame ==
  ASSUME NEW n \in Nat \ {0}, NEW x \in 0 .. n - 1
  PROVE  x % n = x
OBVIOUS

LEMMA ModLeq ==
  ASSUME NEW x \in Nat, NEW n \in Nat \ {0}
  PROVE  x % n \in Nat /\ x % n <= x
<1>1. CASE x < n
  <2>1. x \in 0 .. n - 1
    BY <1>1
  <2> QED
    BY <2>1, ModSame
<1>2. CASE x >= n
  <2>1. x % n \in 0 .. n - 1
    BY DivMod
  <2> QED
    BY <1>2, <2>1
<1> QED
  BY <1>1, <1>2

=============================================================================
