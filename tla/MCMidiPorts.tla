----------------------------- MODULE MCMidiPorts -----------------------------
(* MidiPorts for TLC.                                                      *)
EXTENDS MidiPorts

CONSTANTS n1, n2, n3
=============================================================================
