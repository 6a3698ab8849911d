--------------------------- MODULE MCEngineLedger ---------------------------
(* Weeks of two days, so that a third day begins a new week.                *)
EXTENDS EngineLedger

MCEquities == 1..2
=============================================================================
