---- MODULE MCPerpBridge ----
(* Model-checking module: two streams on one product, one of them with two
   trades to buy, the other with one to sell. *)
EXTENDS PerpBridge, TLC

CONSTANTS a, b, c, s1, s2, x

MCStreamOf == (a :> s1) @@ (b :> s1) @@ (c :> s2)
MCProductOf == [s \in Streams |-> x]
TradeSymmetry == Permutations({a, b})
====
