----------------------------- MODULE Selections -----------------------------
(***************************************************************************)
(* Array.filter: the elements of a sequence at some of its places, in      *)
(* order.  The sequence is given place by place, so that what it holds can *)
(* be reasoned about.                                                      *)
(***************************************************************************)
EXTENDS Integers, FiniteSets

\* The k-th smallest number of I.
kth(I, k) == CHOOSE i \in I : Cardinality({j \in I : j <= i}) = k

pick(s, I) == [k \in 1 .. Cardinality(I) |-> s[kth(I, k)]]
==============================================================================
