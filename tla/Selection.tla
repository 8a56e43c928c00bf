------------------------------ MODULE Selection ------------------------------
(***************************************************************************)
(* The loops of the code that keep some elements of a slice.  SelectSeq of *)
(* the standard modules computes the same, but is a primitive there: the   *)
(* provers can say nothing of it, and can of FlattenSeq.                   *)
(***************************************************************************)
EXTENDS SequencesExt

\* The elements that pass the test, in their order.
Where(seq, Test(_)) ==
  FlattenSeq([k \in DOMAIN seq |-> IF Test(seq[k]) THEN <<seq[k]>> ELSE <<>>])
=============================================================================
