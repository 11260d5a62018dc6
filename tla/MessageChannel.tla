--------------------------- MODULE MessageChannel ---------------------------
(***************************************************************************)
(* What midi.input promises its user: the messages that the input thread   *)
(* completes reach the 'message' listener one by one, in order, each once, *)
(* and every one of them in the end.                                       *)
(***************************************************************************)
EXTENDS Sequences, Naturals

VARIABLES
    sent,      \* the messages completed so far
    delivered  \* the messages the listener has been called with

Init == sent = <<>> /\ delivered = <<>>

\* The input thread has completed a message.
Send ==
    /\ Len(sent') = Len(sent) + 1
    /\ SubSeq(sent', 1, Len(sent)) = sent
    /\ UNCHANGED delivered

\* The listener is called with the next message.
Deliver ==
    /\ Len(delivered) < Len(sent)
    /\ delivered' = Append(delivered, sent[Len(delivered) + 1])
    /\ UNCHANGED sent

Next == Send \/ Deliver

SafeSpec == Init /\ [][Next]_<<sent, delivered>>

Spec == SafeSpec /\ WF_<<sent, delivered>>(Deliver)
=============================================================================
