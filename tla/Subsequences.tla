----------------------------- MODULE Subsequences -----------------------------
(***************************************************************************)
(* What list_delete_all and list_transfer_match leave of a list, or take   *)
(* from it: the elements at some of its positions, in the order of the     *)
(* list.  (SelectSeq of Sequences selects by a test on the elements and    *)
(* gives a proof nothing to hold on to.)                                   *)
(***************************************************************************)
EXTENDS Integers, FiniteSets

\* The place of i among the positions I.
Rank(I, i) == Cardinality({j \in I : j <= i})

\* The elements of s at the positions I.
Subsequence(s, I) == [k \in 1..Cardinality(I) |-> s[CHOOSE i \in I : Rank(I, i) = k]]
=============================================================================
