---------------------------- MODULE RequestReply ----------------------------
(***************************************************************************)
(* What the editor's callers expect of lexicon.js when they send a request *)
(* to the MPX G2: the request is issued, it is pending until the device    *)
(* answers, and its callback runs once, with nothing but an answer causing *)
(* it.  A callback may issue the next request of a chain (object type,     *)
(* then object description; program address, then program data).  Nothing  *)
(* here speaks of hooks, timers, retries or of other traffic on the wire.  *)
(***************************************************************************)
CONSTANTS
    Requests,   \* the request messages the callers create
    FollowUp,   \* the request issued by the callback of a request, or None
    None        \* no follow-up request

VARIABLE status \* what a caller knows of each of its requests

FollowUps == { FollowUp[r] : r \in Requests } \ {None}
Roots     == Requests \ FollowUps

Init == status = [r \in Requests |-> "new"]

\* A caller issues a request of its own.
Issue(r) ==
    /\ r \in Roots
    /\ status[r] = "new"
    /\ status' = [status EXCEPT ![r] = "pending"]

\* The answer arrives: the callback runs and issues the follow-up, if any.
Complete(r) ==
    /\ status[r] = "pending"
    /\ status' = [q \in Requests |->
                    IF q = r THEN "done"
                    ELSE IF q = FollowUp[r] THEN "pending"
                    ELSE status[q]]

Next == \E r \in Requests : Issue(r) \/ Complete(r)

SafeSpec == Init /\ [][Next]_status
=============================================================================
