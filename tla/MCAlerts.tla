------------------------------ MODULE MCAlerts ------------------------------
(* Two alerts; two ticks of one process, or of two. *)
EXTENDS Alerts, TLC
CONSTANTS a1, a2, s1, s2, p1, p2, t1, t2, r1, r2

OneProcess == [t \in Ticks |-> p1]
Symmetry == Permutations(AlertIds) \cup Permutations(Ticks)
==============================================================================
