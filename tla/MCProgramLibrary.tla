-------------------------- MODULE MCProgramLibrary ---------------------------
(* ProgramLibrary for TLC.                                                 *)
EXTENDS ProgramLibrary

CONSTANTS p1, p2, active, r1, r2
=============================================================================
