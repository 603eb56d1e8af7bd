---------------------------- MODULE MCProPurchase ----------------------------
(* One requester, two purchases, one operator key. *)
EXTENDS ProPurchase, TLC
CONSTANTS k1, k2, o1, f1, c1, b1, b2

lists(pro) == [pro |-> pro, free |-> {}]
OperatorLists == {lists({}), lists({o1})}

\* Keys that are not the operator's, and purchases, are interchangeable.
Symmetry == Permutations({k1, k2}) \cup Permutations({b1, b2})
==============================================================================
