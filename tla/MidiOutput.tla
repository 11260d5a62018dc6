----------------------------- MODULE MidiOutput ------------------------------
(***************************************************************************)
(* midi_message and midi_message_send of lexicon.js: from a message to the *)
(* calls of midiout.sendMessage.                                           *)
(*                                                                         *)
(* midiout_lock is never true and midioutq_loop returns before it looks at *)
(* the time, so midi_message sends what it has just pushed: midiout_q is   *)
(* empty again when the call returns, and has no variable here.  What is   *)
(* longer than Threshold goes out in pieces of PieceSize bytes, the first  *)
(* at once and each other one from a timer, whatever else is sent between. *)
(* (CHANGELOG line 6 says "50ms between each message": the code has none.)  *)
(*                                                                         *)
(* Time goes in ticks of 50 ms.  A timer never fires early and may be late.*)
(***************************************************************************)
EXTENDS Naturals, FiniteSetsExt, SequencesExt

CONSTANTS
    Messages,  \* what is to be sent, each one once
    Length,    \* message -> its length in bytes
    Threshold, \* 20480: the longest message that goes out in one call
    PieceSize  \* 16: bytes in a piece of a longer one

ASSUME MidiOutputAssumption ==
    /\ Length \in [Messages -> Nat \ {0}]
    /\ Threshold \in Nat
    /\ PieceSize \in Nat \ {0}

PieceDelay == 11  \* 550 ms

VARIABLES
    asked, \* the messages midi_message was called with
    index, \* message -> the bytes handed to sendMessage
    timer, \* message -> ticks before loop runs again, or Off
    rest,  \* message -> ticks since its last piece, PieceDelay at most
    wire   \* the calls of sendMessage

outputVars == <<asked, index, timer, rest, wire>>

Off == PieceDelay + 1
Long(m) == Length[m] > Threshold

-----------------------------------------------------------------------------

TypeOK ==
    /\ asked \subseteq Messages
    /\ index \in [Messages -> Nat]
    /\ timer \in [Messages -> 0..Off]
    /\ rest \in [Messages -> 0..PieceDelay]
    /\ wire \in Seq([msg : Messages, from : Nat, to : Nat, rest : 0..PieceDelay])

Init ==
    /\ asked = {}
    /\ index = [m \in Messages |-> 0]
    /\ timer = [m \in Messages |-> Off]
    /\ rest = [m \in Messages |-> PieceDelay]
    /\ wire = <<>>

-----------------------------------------------------------------------------

\* Mutant: the byte that ends a piece is sent again with the next one.
NextIndex_Overlap(e) == e - 1

NextIndex(e) == e

\* The bytes from i on that go in one piece: up to a multiple of PieceSize.
PieceEnd(i, n) == Min({n, (i \div PieceSize + 1) * PieceSize})

\* Mutant: a short piece is not waited for.
More_Whole(m, i) == i + PieceSize <= Length[m]

More(m, i) == i < Length[m]

\* Mutant: the next piece follows 500 ms after this one.
NextDelay_Short == PieceDelay - 1

NextDelay == PieceDelay

\* The bytes of m from index[m] to e are handed to sendMessage.
HandOver(m, e) ==
    /\ wire' = Append(wire, [msg |-> m, from |-> index[m], to |-> e,
                             rest |-> rest[m]])
    /\ index' = [index EXCEPT ![m] = NextIndex(e)]
    /\ rest' = [rest EXCEPT ![m] = 0]

\* One round of loop: a piece now, and a timer if there is more.
SendPiece(m) ==
    LET e == PieceEnd(index[m], Length[m])
    IN  /\ HandOver(m, e)
        /\ timer' = [timer EXCEPT ![m] = IF More(m, e) THEN NextDelay ELSE Off]

\* midi_message(m)
Send(m) ==
    /\ m \notin asked
    /\ asked' = asked \cup {m}
    /\ IF Long(m)
       THEN SendPiece(m)
       ELSE HandOver(m, Length[m]) /\ UNCHANGED timer

\* The timer of loop fires.
LoopAgain(m) ==
    /\ timer[m] = 0
    /\ SendPiece(m)
    /\ UNCHANGED asked

\* 50 ms go by.
Tick ==
    /\ \E m \in Messages : timer[m] \in 1..PieceDelay
    /\ rest' = [m \in Messages |-> Min({rest[m] + 1, PieceDelay})]
    /\ timer' = [m \in Messages |->
                   IF timer[m] \in {0, Off} THEN timer[m] ELSE timer[m] - 1]
    /\ UNCHANGED <<asked, index, wire>>

Next ==
    \/ \E m \in Messages : Send(m) \/ LoopAgain(m)
    \/ Tick

Spec == Init /\ [][Next]_outputVars

-----------------------------------------------------------------------------

\* Every byte of a message is handed over once and in order: a short message
\* in one call, a long one in pieces that are never empty nor too long, and
\* each begins where the last one ended (loop, lines 1185-1197).
EveryByteOnce ==
    \A i \in DOMAIN wire :
       LET c       == wire[i]
           earlier == { j \in 1..(i - 1) : wire[j].msg = c.msg }
       IN  /\ c.from < c.to
           /\ IF Long(c.msg) THEN c.to <= Length[c.msg] /\ c.to <= c.from + PieceSize
                             ELSE c.from = 0 /\ c.to = Length[c.msg]
           /\ c.from = 0 \/ \E j \in earlier : wire[j].to = c.from
           /\ \A j \in earlier : wire[j].to <= c.from

\* Two pieces of a message are at least 550 ms apart (setTimeout, line 1195),
\* whatever is sent between them.
PiecesPaced ==
    \A i, j \in DOMAIN wire :
       i < j /\ wire[i].msg = wire[j].msg => wire[j].rest = PieceDelay
=============================================================================
