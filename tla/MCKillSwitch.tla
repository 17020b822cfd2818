----------------------------- MODULE MCKillSwitch -----------------------------
(***************************************************************************)
(* Instance of KillSwitch for TLC: two callers, whose calls interleave,    *)
(* with AloneSpec except that a Release runs alone.                        *)
(***************************************************************************)
EXTENDS KillSwitch
===============================================================================
