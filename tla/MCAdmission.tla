----------------------------- MODULE MCAdmission -----------------------------
(***************************************************************************)
(* Constants for TLC: two calls of one key (duplicates, or a call and its  *)
(* retry) beside calls of keys of their own, all of one class.             *)
(***************************************************************************)
EXTENDS Admission, TLC

CONSTANTS
  call, retry,    \* two calls under one key
  other1, other2, \* calls under keys of their own
  batch, p1, p2

\* A key is written as the call that first bears it.
MCKeys == Rows \ {retry}
MCKeyOf == [q \in Rows |-> IF q = retry THEN call ELSE q]
MCClassOf == [q \in Rows |-> batch]
Interchangeable == Permutations({other1, other2} \cap Rows)
=============================================================================
