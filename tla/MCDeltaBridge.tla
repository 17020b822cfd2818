---- MODULE MCDeltaBridge ----
(* Model-checking module: two paper positions of one strategy, on one option. *)
EXTENDS DeltaBridge, TLC

CONSTANTS p1, p2, s, x

MCStrategyOf == [p \in Papers |-> s]
MCOptionOf == [p \in Papers |-> x]
PaperSymmetry == Permutations(Papers)
====
