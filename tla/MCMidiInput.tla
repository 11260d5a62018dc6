---------------------------- MODULE MCMidiInput -----------------------------
(* MidiInput for TLC: messages of one, two and three segments.             *)
EXTENDS MidiInput

SomeParts == <<2, 3, 1, 2>>
=============================================================================
