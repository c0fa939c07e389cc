---------------------------- MODULE MCAdmission -----------------------------
(* Three workflows of two projects compete for one slot.                   *)
EXTENDS Admission
MCProjectOf == [w \in Workflows |-> IF w = 3 THEN 2 ELSE 1]
=============================================================================
