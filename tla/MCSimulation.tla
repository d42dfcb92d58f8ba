---------------------------- MODULE MCSimulation ----------------------------
(***************************************************************************)
(* Instances of SimulationRunner: two runs with nobody watching, or one    *)
(* with the page open.                                                     *)
(***************************************************************************)
EXTENDS SimulationRunner

ConstStarts == [open \in BOOLEAN |-> IF open THEN 1 ELSE 2]
=============================================================================
