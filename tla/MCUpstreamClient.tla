-------------------------- MODULE MCUpstreamClient ---------------------------
(* Three calls and two keys: one whose answer costs nothing more, and one *)
(* whose request weighs more than the whole budget and may cost more.     *)
EXTENDS UpstreamClient, TLC
CONSTANTS c1, c2, c3, light, heavy
WeightDef == (light :> 1 @@ heavy :> 3)
ExtrasDef == (light :> {0} @@ heavy :> {0, 1})
==============================================================================
