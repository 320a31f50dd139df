----------------------------- MODULE Filtering -----------------------------
(***************************************************************************)
(* The elements of a sequence that belong to a set, in their order: what   *)
(* SelectSeq is for a test, by a recursion that a proof can follow.        *)
(***************************************************************************)
EXTENDS Integers, Sequences

Kept(seq, wanted) ==
    LET kept[n \in 0..Len(seq)] ==
            IF n = 0 THEN <<>>
            ELSE IF seq[n] \in wanted THEN Append(kept[n - 1], seq[n]) ELSE kept[n - 1]
    IN  kept[Len(seq)]
=============================================================================
