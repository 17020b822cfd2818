---- MODULE MCLiveEngine ----
(* Model-checking module: the instances are given by the .cfg files. *)
EXTENDS LiveEngine
====
