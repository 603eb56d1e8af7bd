------------------------------ MODULE MCSignals ------------------------------
(* Two wallets, two signals, two overlapping timer ticks. *)
EXTENDS Signals, TLC
CONSTANTS w1, w2, t1, t2
==============================================================================
