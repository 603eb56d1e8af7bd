------------------------------ MODULE MCApiKeys ------------------------------
(* Requesters, a pool of keys to issue, two operator keys. *)
EXTENDS ApiKeys, TLC
CONSTANTS k1, k2, k3, o1, o2, f1, f2, c1, c2

lists(pro, free) == [pro |-> pro, free |-> free]
MCEnvLists == {lists({}, {}), lists({o1}, {o2}), lists({o1}, {o1}), lists({o2}, {})}

\* Issued keys, and calls, are interchangeable.
Symmetry == Permutations({k1, k2, k3} \cap Keys) \cup Permutations({c1, c2})
==============================================================================
