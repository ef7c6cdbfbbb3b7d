----------------------------- MODULE Selection ------------------------------
(***************************************************************************)
(* The items of a list that a loop keeps.                                  *)
(***************************************************************************)
EXTENDS Integers, Sequences

\* The items that are not in set, in their order.  (A filter of its own because
\* the provers know nothing of SelectSeq.)
Not(items, set) ==
  LET left[n \in 0..Len(items)] ==
        IF n = 0 THEN <<>>
        ELSE IF items[n] \in set THEN left[n - 1] ELSE Append(left[n - 1], items[n])
  IN  left[Len(items)]
=============================================================================
