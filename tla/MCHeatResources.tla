-------------------------- MODULE MCHeatResources --------------------------
(***************************************************************************)
(* Instances of HeatResources for TLC.                                     *)
(***************************************************************************)
EXTENDS HeatResources
=============================================================================
