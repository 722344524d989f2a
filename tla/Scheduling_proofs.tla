------------------------- MODULE Scheduling_proofs -------------------------
(***************************************************************************)
(* The arithmetic of the interactive slice, for every budget and fraction  *)
(* whose product a double represents closely enough.                       *)
(***************************************************************************)
EXTENDS Scheduling, TLAPS

(* The exact product, rounded up: the least integer that is no less.       *)
LEMMA CeilingSpec ==
  ASSUME NEW x \in Nat, NEW den \in Nat \ {0}
  PROVE  LET c == (x + den - 1) \div den
         IN c \in Nat /\ c * den >= x /\ (c - 1) * den < x
<1> DEFINE y == x + den - 1
           c == y \div den
<1>1. y \in Nat
  OBVIOUS
<1>2. y = (den * c) + (y % den) /\ y % den \in 0..(den - 1) /\ c \in Nat
  <2> HIDE DEF y
  <2> QED BY <1>1
<1> QED
  BY <1>2

(* Math.ceil of the double product is the exact ceiling, or one more where *)
(* the exact product is whole.                                             *)
LEMMA CeilSpec ==
  ASSUME NEW n \in Nat, NEW num \in Nat, NEW den \in Nat \ {0}
  PROVE  LET c == Ceil(n, num, den)
         IN /\ c \in Nat
            /\ c * den >= n * num
            /\ \/ ~RoundsAbove(n, num, den) /\ (c - 1) * den < n * num
               \/ RoundsAbove(n, num, den) /\ (c - 1) * den = n * num
<1> DEFINE x == n * num
           b == (x + den - 1) \div den
<1>1. x \in Nat
  OBVIOUS
<1>2. b \in Nat /\ b * den >= x /\ (b - 1) * den < x
  <2> HIDE DEF x
  <2> QED BY <1>1, CeilingSpec
<1>3. CASE ~RoundsAbove(n, num, den)
  BY <1>2, <1>3 DEF Ceil
<1>4. CASE RoundsAbove(n, num, den)
  <2>1. x % den = 0 /\ Ceil(n, num, den) = b + 1
    BY <1>4 DEF RoundsAbove, Ceil
  <2>2. x = den * (x \div den) /\ x \div den \in Nat
    <3> HIDE DEF x
    <3> QED BY <1>1, <2>1
  <2>3. b = x \div den
    <3>1. ASSUME NEW k \in Nat, b * den >= den * k, (b - 1) * den < den * k
          PROVE  b = k
      <4>1. b >= k
        <5>1. SUFFICES ASSUME b <= k - 1 PROVE FALSE
          BY <1>2
        <5>2. b * den <= (k - 1) * den /\ (k - 1) * den = den * k - den
          BY <1>2, <5>1
        <5> QED BY <1>2, <3>1, <5>2
      <4>2. b <= k
        <5>1. SUFFICES ASSUME b - 1 >= k PROVE FALSE
          BY <1>2
        <5>2. (b - 1) * den >= k * den
          BY <1>2, <5>1
        <5> QED BY <1>2, <3>1, <5>2
      <4> QED BY <1>2, <4>1, <4>2
    <3> HIDE DEF x, b
    <3> QED BY <1>2, <2>2, <3>1
  <2>4. b * den = x
    <3> HIDE DEF x, b
    <3> QED BY <1>2, <2>2, <2>3
  <2>5. (b + 1) * den = x + den
    <3> HIDE DEF x, b
    <3> QED BY <1>1, <1>2, <2>4
  <2> QED
    <3> HIDE DEF b
    <3> QED BY <1>1, <1>2, <1>4, <2>1, <2>4, <2>5
<1> QED
  BY <1>3, <1>4

(* The reserve covers the fraction within the budget, with at most the one *)
(* slot more that the rounded product can ask for, and leaves batch        *)
(* nothing exactly above (n - 1) / n.                                      *)
THEOREM SliceFits ==
  ASSUME NEW n \in Nat, NEW num \in Nat, NEW den \in Nat \ {0}, Representable(n, num, den)
  PROVE  SliceFitsAt(n, num, den)
<1> DEFINE c == Ceil(n, num, den)
           above == RoundsAbove(n, num, den)
           slots == ComputeInteractiveSlots(n, num, den)
<1>1. /\ c \in Nat /\ c * den >= n * num
      /\ \/ ~above /\ (c - 1) * den < n * num
         \/ above /\ (c - 1) * den = n * num
  BY CeilSpec
<1>2. num <= den /\ n * num <= n * den /\ n * num \in Nat /\ n * den \in Nat
  BY DEF Representable
<1>3. ASSUME ~(n > 1 /\ num > 0)
      PROVE  SliceFitsAt(n, num, den)
  <2>1. slots = 0 /\ ResolvedBatchSlots(n, num, den) = n
    BY <1>3 DEF ComputeInteractiveSlots, ResolvedBatchSlots
  <2>2. ASSUME n > 1, num = 0
        PROVE  (n - 1) * den > n * num
    BY <2>2
  <2> HIDE DEF c, above, slots
  <2> QED BY <1>3, <2>1, <2>2 DEF SliceFitsAt, slots, above
<1>4. ASSUME n > 1, num > 0
      PROVE  SliceFitsAt(n, num, den)
  <2> DEFINE x == n * num
  <2>1. x \in Nat /\ x > 0 /\ x <= n * den
    BY <1>2, <1>4
  <2>2. c >= 1
    <3>1. c # 0
      <4>1. SUFFICES ASSUME c = 0 PROVE FALSE
        OBVIOUS
      <4>2. c * den = 0
        BY <4>1
      <4> QED BY <1>1, <2>1, <4>2
    <3> QED BY <1>1, <3>1
  <2>3. slots = (IF n < c THEN n ELSE c) /\ ResolvedBatchSlots(n, num, den) = n - slots
    BY <1>1, <1>4, <2>2 DEF ComputeInteractiveSlots, ResolvedBatchSlots, AtMost, AtLeast
  <2>4. slots \in 0..n /\ slots <= c /\ (n - slots = 0 <=> n <= c)
    BY <1>1, <2>3
  <2>5. slots * den >= x
    BY <1>1, <2>1, <2>3
  <2>6. (slots - 1) * den <= (c - 1) * den
    BY <1>1, <2>4
  <2>7. (slots - 1) * den < x \/ (above /\ (slots - 1) * den = x)
    <3>1. (slots - 1) * den \in Int /\ (c - 1) * den \in Int
      BY <1>1, <2>4
    <3> HIDE DEF c, above, slots
    <3> QED BY <1>1, <2>1, <2>6, <3>1
  <2>8. n <= c <=> (n - 1) * den < x \/ (above /\ (n - 1) * den = x)
    <3>1. (n - 1) * den \in Int /\ (c - 1) * den \in Int
      BY <1>1
    <3>2. ASSUME n <= c PROVE (n - 1) * den <= (c - 1) * den
      BY <1>1, <3>2
    <3>3. ASSUME n > c PROVE (n - 1) * den >= c * den /\ (c - 1) * den = c * den - den
      BY <1>1, <3>3
    <3>4. CASE n <= c
      <4> HIDE DEF c, above
      <4> QED BY <1>1, <2>1, <3>1, <3>2, <3>4
    <3>5. CASE n > c
      <4>1. c * den \in Int
        BY <1>1
      <4> HIDE DEF c, above
      <4> QED BY <1>1, <2>1, <3>1, <3>3, <3>5, <4>1
    <3> QED BY <1>1, <3>4, <3>5
  <2> HIDE DEF c
  <2> QED BY <1>4, <2>3, <2>4, <2>5, <2>7, <2>8 DEF SliceFitsAt
<1> QED
  BY <1>3, <1>4

=============================================================================
