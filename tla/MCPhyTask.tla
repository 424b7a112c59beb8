----------------------------- MODULE MCPhyTask -----------------------------
(* PhyTask for TLC: the constants get their values in the .cfg files.      *)
EXTENDS PhyInv
=============================================================================
