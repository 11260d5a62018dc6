----------------------------- MODULE MCUsedSteps -----------------------------
(* UsedSteps for TLC.                                                      *)
EXTENDS UsedSteps

CONSTANTS c1, c2, c3
=============================================================================
