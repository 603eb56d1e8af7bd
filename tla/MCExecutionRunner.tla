-------------------------- MODULE MCExecutionRunner --------------------------
(* One plan, on up to two or three processes over one database. *)
EXTENDS ExecutionRunner, TLC
CONSTANTS e1, e2, p1, p2, p3

==============================================================================
