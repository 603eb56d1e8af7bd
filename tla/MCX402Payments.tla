--------------------------- MODULE MCX402Payments ---------------------------
(* Three calls on two processes; two headers encode the same authorization. *)
EXTENDS X402Payments
CONSTANTS c1, c2, c3, s1, s2, h1, h2, h3, a1, a2, p1

MCServerOf == [c \in Calls |-> IF c = c3 THEN s2 ELSE s1]
MCAuthOf == [h \in Headers |-> IF h = h3 THEN a2 ELSE a1]
MCPayerOf == [a \in Auths |-> p1]
==============================================================================
