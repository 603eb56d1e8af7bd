------------------------------ MODULE Timeline ------------------------------
(***************************************************************************)
(* What the records of the engine's tick share (Signals, and Samples over  *)
(* Cohort): the wallets that are followed and the clock rows are dated by. *)
(***************************************************************************)
EXTENDS Integers, FiniteSets

CONSTANTS
    Wallets,        \* the cohort, or all that may enter it
    MaxTime,        \* bound: last value of the clock
    None

ASSUME TimelineAssumption == MaxTime \in Nat

VARIABLE clock
=============================================================================
