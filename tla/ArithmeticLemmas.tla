---------------------------- MODULE ArithmeticLemmas ----------------------------
(***************************************************************************)
(* What the proofs about rings and clocks need of remainders and of        *)
(* sequences given element by element.                                     *)
(***************************************************************************)
EXTENDS Integers, Sequences, TLAPS

-------------------------------------------------------------------------------
(* Remainders. *)

\* Quotient and remainder, and facts about products, one by one: the SMT solver
\* finds no more than this about a divisor that is not a numeral.
LEMMA QuotientRemainder ==
    ASSUME NEW x \in Nat, NEW d \in Nat \ {0}
    PROVE  /\ x \div d \in Nat
           /\ x % d \in 0 .. d - 1
           /\ x = d * (x \div d) + (x % d)
  BY SMT

LEMMA SmallRemainder ==
    ASSUME NEW d \in Nat \ {0}, NEW x \in 0 .. d - 1
    PROVE  x % d = x
  BY SMT

LEMMA Products ==
    ASSUME NEW a \in Nat, NEW b \in Nat, NEW d \in Nat \ {0}
    PROVE  /\ a * d \in Nat /\ d * a = a * d
           /\ (a + 1) * d = a * d + d
           /\ (a + b) * d = a * d + b * d
           /\ a <= b => a * d <= b * d
           /\ a >= b => (a - b) * d = a * d - b * d
  BY SMT

\* The remainder of a number that goes beyond the divisor at most once.
LEMMA OnceAround ==
    ASSUME NEW x \in Nat, NEW d \in Nat \ {0}, x < 2 * d
    PROVE  x % d = IF x < d THEN x ELSE x - d
  <1>1. CASE x < d
    BY <1>1, SmallRemainder
  <1>2. CASE x >= d
    <2> DEFINE q == x \div d
               r == x % d
    <2>1. q \in Nat /\ r \in 0 .. d - 1 /\ x = d * q + r
      BY QuotientRemainder
    <2> HIDE DEF q, r
    <2>2. d * q = q * d /\ 0 * d = 0 /\ 1 * d = d /\ 2 * d = d + d
      BY <2>1, Products, SMT
    <2>3. q >= 2 => q * d >= 2 * d
      BY <2>1, Products
    <2>4. q = 1
      <3>1. q # 0
        BY <1>2, <2>1, <2>2
      <3>2. ~ q >= 2
        BY <1>2, <2>1, <2>2, <2>3
      <3> QED
        BY <2>1, <3>1, <3>2
    <2>5. r = x - d
      BY <2>1, <2>2, <2>4
    <2> QED
      BY <1>2, <2>5 DEF r
  <1> QED
    BY <1>1, <1>2

\* The successor round a cycle of d.
LEMMA SuccessorMod ==
    ASSUME NEW d \in Nat \ {0}, NEW x \in 0 .. d - 1
    PROVE  (x + 1) % d = IF x + 1 = d THEN 0 ELSE x + 1
  <1>1. PICK y \in Nat : y = x + 1
    OBVIOUS
  <1>2. y < 2 * d /\ y <= d
    BY <1>1
  <1>3. y % d = IF y < d THEN y ELSE y - d
    BY <1>2, OnceAround
  <1> QED
    BY <1>1, <1>2, <1>3

LEMMA RemainderType ==
    ASSUME NEW x \in Nat, NEW d \in Nat \ {0} PROVE x % d \in 0 .. d - 1
  BY QuotientRemainder

-------------------------------------------------------------------------------
(* Rings of d slots. *)

\* Steps forward from slot a to slot b round a ring of d slots.
RingDist(d, a, b) == IF b >= a THEN b - a ELSE b + d - a

\* Going n steps on from slot a leads to a slot at that distance.
LEMMA RingAround ==
    ASSUME NEW d \in Nat \ {0}, NEW a \in 0 .. d - 1, NEW n \in 0 .. d - 1
    PROVE  /\ (a + n) % d \in 0 .. d - 1
           /\ RingDist(d, a, (a + n) % d) = n
  <1>1. PICK x \in Nat : x = a + n
    OBVIOUS
  <1>2. x < 2 * d
    BY <1>1
  <1>3. x % d = IF x < d THEN x ELSE x - d
    BY <1>2, OnceAround
  <1> DEFINE b == (a + n) % d
  <1> HIDE DEF b
  <1>4. b = IF a + n < d THEN a + n ELSE a + n - d
    BY <1>1, <1>3 DEF b
  <1>5. b \in 0 .. d - 1 /\ RingDist(d, a, b) = n
    BY <1>4 DEF RingDist
  <1> QED
    BY <1>5 DEF b

\* Going as far as slot b from slot a leads to slot b.
LEMMA RingThere ==
    ASSUME NEW d \in Nat \ {0}, NEW a \in 0 .. d - 1, NEW b \in 0 .. d - 1
    PROVE  (a + RingDist(d, a, b)) % d = b
  <1> DEFINE n == RingDist(d, a, b)
  <1>1. n \in 0 .. d - 1
    BY DEF RingDist
  <1> HIDE DEF n
  <1> DEFINE c == (a + n) % d
  <1>2. c \in 0 .. d - 1 /\ RingDist(d, a, c) = n
    BY <1>1, RingAround
  <1> HIDE DEF c
  <1>3. RingDist(d, a, c) = RingDist(d, a, b)
    BY <1>2 DEF n
  <1>4. c = b
    BY <1>2, <1>3 DEF RingDist
  <1> QED
    BY <1>4 DEF c, n

\* Moving the origin on by one shifts the slots by one.
LEMMA RingShift ==
    ASSUME NEW d \in Nat \ {0}, NEW a \in 0 .. d - 1,
           NEW n \in 0 .. d - 1, n + 1 \in 0 .. d - 1
    PROVE  ((IF a + 1 = d THEN 0 ELSE a + 1) + n) % d = (a + (n + 1)) % d
  <1>1. PICK s \in 0 .. d - 1 : s = IF a + 1 = d THEN 0 ELSE a + 1
    OBVIOUS
  <1>2. PICK b \in 0 .. d - 1 : b = (a + (n + 1)) % d /\ RingDist(d, a, b) = n + 1
    BY RingAround
  <1>3. PICK c \in 0 .. d - 1 : c = (s + n) % d /\ RingDist(d, s, c) = n
    BY RingAround
  <1>4. b = c
    BY <1>1, <1>2, <1>3 DEF RingDist
  <1> QED
    BY <1>1, <1>2, <1>3, <1>4

-------------------------------------------------------------------------------
(* Sequences given element by element. *)

LEMMA LenIs ==
    ASSUME NEW S, NEW n \in Nat, NEW s \in [1 .. n -> S]
    PROVE  s \in Seq(S) /\ Len(s) = n
  BY SMT

\* A sequence given element by element that grows at its end.
LEMMA AppendIs ==
    ASSUME NEW S, NEW n \in Nat, NEW s \in [1 .. n -> S],
           NEW t \in [1 .. n + 1 -> S], \A k \in 1 .. n : t[k] = s[k]
    PROVE  t = Append(s, t[n + 1])
  BY SMT

\* A sequence given element by element that shrinks at its front.
LEMMA TailIs ==
    ASSUME NEW S, NEW n \in Nat \ {0}, NEW s \in [1 .. n -> S],
           NEW t \in [1 .. n - 1 -> S], \A k \in 1 .. n - 1 : t[k] = s[k + 1]
    PROVE  t = Tail(s)
  BY SMT
===============================================================================
