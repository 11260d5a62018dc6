-------------------------- MODULE MCSysexRequests ---------------------------
(* SysexRequests for TLC: two readers of DATA and what their callbacks     *)
(* request: more DATA, and the type of an object.                          *)
EXTENDS SysexRequests

CONSTANTS r1, r2, r3, r4, a1, a2, OBJECT_TYPE

\* r1 reads a1 and its callback, which does not return false, reads a2;
\* r2 reads a2 at the same time, asks for a type and returns false.
MCType     == (r1 :> DATA) @@ (r2 :> DATA) @@ (r3 :> DATA) @@ (r4 :> OBJECT_TYPE)
MCLevels   == (r1 :> a1) @@ (r2 :> a2) @@ (r3 :> a2) @@ (r4 :> a1)
MCFollowUp == (r1 :> r3) @@ (r2 :> r4) @@ (r3 :> None) @@ (r4 :> None)
=============================================================================
