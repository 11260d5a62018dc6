---------------------------- MODULE MCAutomation -----------------------------
(* Automation for TLC.                                                     *)
EXTENDS Automation

CONSTANTS w1, w2, w3
=============================================================================
