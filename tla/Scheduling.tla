----------------------------- MODULE Scheduling -----------------------------
(***************************************************************************)
(* scheduling.ts: how an instance's mutation budget is divided between the *)
(* classes.  A fraction is num / den, what the operator wrote; the code    *)
(* has the double nearest to it, multiplies it by the budget, which rounds *)
(* again, and rounds the product up.                                       *)
(*                                                                         *)
(* Both roundings together are off by less than n / 2^52.  Representable   *)
(* bounds n * den so that this is less than 1 / den: a product that is not *)
(* whole is then rounded up as the exact one would be, and one that is     *)
(* whole comes out as itself, or just below or above it.  Only above does  *)
(* it matter: Math.ceil(25 * 0.28) is 8.                                   *)
(***************************************************************************)
EXTENDS Integers

\* A double's significand has 53 bits.
Precision == 53

\* The budgets and fractions the definitions below are exact for.
Representable(n, num, den) == num <= den /\ n * den <= 2^29

\* t with 1 <= 2^t * num / den < 2: the exponent of the double nearest num / den is -t.
Exponent(num, den) == CHOOSE t \in 0..30 : den <= 2^t * num /\ 2^t * num < 2 * den

\* The remainder of num * 2^k divided by den.
Remainder(num, den, k) ==
  LET rest[i \in 0..k] == IF i = 0 THEN num % den ELSE (2 * rest[i - 1]) % den
  IN rest[k]

\* By how much the double nearest num / den exceeds it, times den * 2^(Precision - 1 + t).
Excess(num, den) ==
  LET rest == Remainder(num, den, Precision - 1 + Exponent(num, den))
  IN IF 2 * rest > den THEN den - rest ELSE 0

\* n * num / den is whole, and the double product is not that number but one above it: n times
\* the excess passes half the distance 2^(e + 1 - Precision) to the next double.
RoundsAbove(n, num, den) ==
  /\ n * num > 0 /\ (n * num) % den = 0
  /\ LET whole == (n * num) \div den
         e == CHOOSE i \in 0..29 : 2^i <= whole /\ whole < 2^(i + 1)
     IN 2 * n * Excess(num, den) > 2^(e + Exponent(num, den)) * den

\* Math.ceil(n * fraction).
Ceil(n, num, den) ==
  (n * num + den - 1) \div den + (IF RoundsAbove(n, num, den) THEN 1 ELSE 0)

AtLeast(x, y) == IF x < y THEN y ELSE x
AtMost(x, y) == IF x < y THEN x ELSE y

\* Mutated: the product is rounded down.
InteractiveSlotsFloored(mutationConcurrency, num, den) ==
  IF mutationConcurrency <= 1 \/ num <= 0 THEN 0
  ELSE AtMost(mutationConcurrency, (mutationConcurrency * num) \div den)

ComputeInteractiveSlots(mutationConcurrency, num, den) ==
  IF mutationConcurrency <= 1 \/ num <= 0 THEN 0
  ELSE AtMost(mutationConcurrency, AtLeast(1, Ceil(mutationConcurrency, num, den)))

\* resolveSchedulingConfig: what is left of the budget for batch work.
ResolvedBatchSlots(mutationConcurrency, num, den) ==
  mutationConcurrency - ComputeInteractiveSlots(mutationConcurrency, num, den)

-----------------------------------------------------------------------------
(* scheduling.ts:154-171, for one budget and fraction.  The reserve covers *)
(* the fraction and never passes the budget.  It is the least whole number *)
(* of slots that covers it, so that a small fraction does not round to     *)
(* nothing - except where the exact product is whole and the double one    *)
(* above it, which may reserve one slot more, never two.  Batch work is    *)
(* left without a slot, whose rows are then never claimed, exactly when    *)
(* the fraction is above (mutationConcurrency - 1) / mutationConcurrency,  *)
(* or is that number and the product rounds above.                         *)
SliceFitsAt(n, num, den) ==
  LET slots == ComputeInteractiveSlots(n, num, den)
      above == RoundsAbove(n, num, den)
  IN /\ slots \in 0..n
     /\ n > 1 /\ num > 0 =>
          /\ slots * den >= n * num
          /\ (slots - 1) * den < n * num \/ (above /\ (slots - 1) * den = n * num)
     /\ n > 0 => (ResolvedBatchSlots(n, num, den) = 0
                    <=> /\ n > 1
                        /\ (n - 1) * den < n * num \/ (above /\ (n - 1) * den = n * num))

=============================================================================
