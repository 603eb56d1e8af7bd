------------------------------ MODULE MCSamples ------------------------------
(* Three wallets; two leaderboards, with a repeated wallet and a small one. *)
EXTENDS Samples, TLC
CONSTANTS w1, w2, w3

row(w, e) == [wallet |-> w, equity |-> e]
MCBoards == {<<row(w1, 2), row(w2, 3), row(w1, 9), row(w3, 2)>>,
             <<row(None, 9), row(w2, 1), row(w1, 2)>>}
MCEnvCohort == <<>>
==============================================================================
