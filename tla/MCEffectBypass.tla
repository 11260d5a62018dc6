---------------------------- MODULE MCEffectBypass ---------------------------
(* EffectBypass for TLC: three clicks, so that one can be given up, one is    *)
(* answered to the wrong hook, and one follows.                               *)
EXTENDS EffectBypass
=============================================================================
