--------------------------- MODULE SequenceFilter ---------------------------
(***************************************************************************)
(* The elements of a sequence that are in a set, in their order.  It is    *)
(* SelectSeq with its test as a set, in a form that can be reasoned about: *)
(* Ordering_proofs shows what it returns.                                  *)
(***************************************************************************)
EXTENDS Integers, Sequences

Only(q, S) ==
  LET kept[i \in 0..Len(q)] ==
        IF i = 0 THEN << >>
        ELSE IF q[i] \in S THEN Append(kept[i - 1], q[i]) ELSE kept[i - 1]
  IN  kept[Len(q)]
=============================================================================
