---------------------------- MODULE MCMidiOutput -----------------------------
(* Uploads, and MidiOutput with it, for TLC: a long message of the program, *)
(* a short and a long one in files, and files without a message.  One of    *)
(* the long messages ends where a piece does.  Threshold and PieceSize are  *)
(* scaled down.                                                             *)
EXTENDS Uploads

CONSTANTS short, long, even, f1, f2, f3, f4, f5

MCLength == [m \in Messages |-> CASE m = short -> 4 [] m = long -> 5
                                  [] OTHER -> 6]

MCContent == (f1 :> short) @@ (f2 :> even) @@ (f3 :> NoMessage) @@ (f4 :> Empty)
             @@ (f5 :> NoMessage)
=============================================================================
