---------------------------- MODULE MCCopyTrading ----------------------------
(* Two coins, two calls; a target that flips one coin and leaves the other, *)
(* which is worth more than the cap on one order.                           *)
EXTENDS CopyTrading, TLC
CONSTANTS c1, c2, btc, eth
TargetsDef == {(btc :> 3 @@ eth :> 0), (btc :> -2 @@ eth :> 4)}
WholeLots == {(btc :> 2 @@ eth :> 0)}
Nothing == {(btc :> 0 @@ eth :> 0)}
HoldingsDef == {(btc :> 0 @@ eth :> 0), (btc :> -2 @@ eth :> 4)}
PriceDef == (btc :> 1 @@ eth :> 2)
CallSymmetry == Permutations(Calls)
==============================================================================
