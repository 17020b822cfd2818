---- MODULE MCLiveMirror ----
(* Model-checking module: paper positions are interchangeable, except that   *)
(* some of them are shorts.  Symmetry is used by the runs without liveness.  *)
EXTENDS LiveMirror, TLC
PaperSymmetry == Permutations(Ids \ Shorts)
====
