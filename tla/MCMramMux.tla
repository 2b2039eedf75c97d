----------------------------- MODULE MCMramMux -----------------------------
(* Instances of MramMux for TLC.                                             *)
EXTENDS MramMux

AllMatrices == SUBSET Enabled
\* Three CIs, one pair of lines, one disabled DPU.
OneDisabled == Dpus \ {<<1, 1>>}
=============================================================================
