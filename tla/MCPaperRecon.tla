---- MODULE MCPaperRecon ----
(* Model-checking module: the desk, its ledger and one reconciliation. *)
EXTENDS PaperRecon, TLC
DeskSymmetry == Permutations(Pos) \cup Permutations(Sides)
====
