--------------------------- MODULE SysexRequests ----------------------------
(***************************************************************************)
(* Requests to the MPX G2 over MIDI, as lexicon.js makes them.             *)
(*                                                                         *)
(* midi_message sends a request, pushes the message object on the list of  *)
(* hooks (sysex_hook) and arms a timer.  Every system exclusive message    *)
(* that comes in is offered to the hooks in turn by sysex_callback.  When  *)
(* the timer of a request fires, the same message object is sent, pushed   *)
(* and armed again until its retries are used up.                          *)
(*                                                                         *)
(* node runs one handler at a time: while the loop of sysex_callback is    *)
(* under way (dispatch # Idle) no timer and no caller runs.  The loop is   *)
(* modelled one iteration a step, because the callbacks it calls push new  *)
(* hooks on the list it is walking.                                        *)
(***************************************************************************)
EXTENDS Naturals, FiniteSets, SequencesExt

CONSTANTS
    Requests,       \* the request messages, one per call of *_request
    None,           \* no request: the end of a chain of callbacks
    Types,          \* the types of messages, DATA and REQUEST among them
    DATA,           \* the type whose answers carry the address they are for
    REQUEST,        \* the type of the requests themselves
    Addresses,      \* the parameters of the control tree
    RequestType,    \* request -> type of the answer it waits for
    Levels,         \* request -> the address it asks about
    StopsAt,        \* the requests whose callback returns false
    FollowUp,       \* request -> the request its callback makes, or None
    Retries,        \* timeout.retry when the message is created
    MaxDisturbances \* bound: messages lost, and DATA messages caused by the
                    \* front panel

ASSUME RequestsAssumption ==
    /\ None \notin Requests
    /\ DATA \in Types /\ REQUEST \in Types /\ DATA # REQUEST
    /\ RequestType \in [Requests -> Types \ {REQUEST}]
    /\ Levels \in [Requests -> Addresses]
    /\ StopsAt \subseteq Requests
    /\ FollowUp \in [Requests -> Requests \cup {None}]
    /\ \A q, r \in Requests :
          FollowUp[q] = FollowUp[r] /\ FollowUp[q] # None => q = r
    /\ \A r \in Requests : FollowUp[r] # r

ASSUME BoundsAssumption ==
    /\ Retries \in Nat
    /\ MaxDisturbances \in Nat

VARIABLES
    hooks,       \* sysex_hook: the message objects, one entry per send
    removed,     \* the requests whose object has its remove flag set
    armed,       \* the requests with a timer that clearTimeout could stop
    retry,       \* request -> timeout.retry
    issued,      \* the requests that have been made
    answers,     \* request -> the addresses its callback was called with
    dispatch,    \* the message sysex_callback is working on and its index i
    received,    \* DATA messages given to sysex_callback
    automation,  \* DATA messages given to dataMessage_process
    toDevice,    \* requests on their way to the MPX G2
    fromDevice,  \* messages on their way back
    lost,        \* messages lost so far
    unsolicited  \* front panel changes so far

program == <<hooks, removed, armed, retry, issued, answers, dispatch,
             received, automation>>
device  == <<lost, unsolicited>>
vars    == <<program, toDevice, fromDevice, device>>

Messages == [type : Types, levels : Addresses]
Idle     == [msg |-> None, pos |-> 0]

FollowUps == { FollowUp[r] : r \in Requests } \ {None}
Answered  == { r \in Requests : answers[r] # <<>> }
Pending   == issued \ Answered

-----------------------------------------------------------------------------

TypeOK ==
    /\ hooks \in Seq(Requests)
    /\ removed \in SUBSET Requests
    /\ armed \in SUBSET Requests
    /\ retry \in [Requests -> 0..Retries]
    /\ issued \in SUBSET Requests
    /\ answers \in [Requests -> Seq(Addresses)]
    /\ \/ dispatch = Idle
       \/ dispatch \in [msg : Messages, pos : Nat \ {0}]
    /\ received \in Nat
    /\ automation \in Nat
    /\ toDevice \in Seq(Requests)
    /\ fromDevice \in Seq(Messages)
    /\ lost \in 0..MaxDisturbances
    /\ unsolicited \in 0..MaxDisturbances

Init ==
    /\ hooks = <<>>
    /\ removed = {}
    /\ armed = {}
    /\ retry = [r \in Requests |-> Retries]
    /\ issued = {}
    /\ answers = [r \in Requests |-> <<>>]
    /\ dispatch = Idle
    /\ received = 0
    /\ automation = 0
    /\ toDevice = <<>>
    /\ fromDevice = <<>>
    /\ lost = 0
    /\ unsolicited = 0

-----------------------------------------------------------------------------
(* Sending *)

\* midi_message_send: hook the message object, arm its timer, send.
Send(r) ==
    /\ hooks' = Append(hooks, r)
    /\ armed' = armed \cup {r}
    /\ toDevice' = Append(toDevice, r)

\* A socket handler, a page or the control tree makes a request.
Request(r) ==
    /\ dispatch = Idle
    /\ r \notin FollowUps
    /\ r \notin issued
    /\ issued' = issued \cup {r}
    /\ Send(r)
    /\ UNCHANGED <<removed, retry, answers, dispatch, received, automation,
                   fromDevice, device>>

\* Mutant: one retry too many.
MayRetry_OffByOne(r) == retry[r] >= 0

MayRetry(r) == retry[r] > 0

\* timeout.callback: send the same object again while retries are left.
Timeout(r) ==
    /\ dispatch = Idle
    /\ r \in armed
    /\ IF MayRetry(r)
       THEN /\ retry' = [retry EXCEPT ![r] = @ - 1]
            /\ Send(r)
       ELSE /\ armed' = armed \ {r}
            /\ UNCHANGED <<hooks, retry, toDevice>>
    /\ UNCHANGED <<removed, issued, answers, dispatch, received, automation,
                   fromDevice, device>>

-----------------------------------------------------------------------------
(* Receiving: the loop of sysex_callback *)

\* Is the hook one for this type of message?
Matches(r, m) == m.type \in {REQUEST, RequestType[r]}

\* dataMessage_parse compares the addresses; the other parsers do not.
Accepts(r, m) == RequestType[r] = DATA => m.levels = Levels[r]

IsDATA(m) == m.type = DATA

\* Mutants: clearTimeout forgotten; one timer shared by all the requests.
Cleared_Not(r) == armed
Cleared_All(r) == {}

\* clearTimeout
Cleared(r) == armed \ {r}

\* Mutant: the remove flag is forgotten.
Flagged_Not(r) == removed

\* remove=true
Flagged(r) == removed \cup {r}

Receive ==
    /\ dispatch = Idle
    /\ fromDevice # <<>>
    /\ dispatch' = [msg |-> Head(fromDevice), pos |-> 1]
    /\ fromDevice' = Tail(fromDevice)
    /\ received' = received + IF IsDATA(Head(fromDevice)) THEN 1 ELSE 0
    /\ UNCHANGED <<hooks, removed, armed, retry, issued, answers, automation,
                   toDevice, device>>

\* The hook the loop is at, when there is one.
AtHook(r) ==
    /\ dispatch # Idle
    /\ dispatch.pos <= Len(hooks)
    /\ r = hooks[dispatch.pos]

\* Mutant: the loop ends at the first hook.
Advanced_Stop == Idle

Advanced == [dispatch EXCEPT !.pos = @ + 1]

\* Mutant: splice(i), which drops the rest of the list.
Spliced_Rest(i) == SubSeq(hooks, 1, i - 1)

Spliced(i) == RemoveAt(hooks, i)

\* Mutant: no --i, the entry that moved up is not looked at.
Splice_NoStepBack(r) ==
    /\ AtHook(r)
    /\ r \in removed
    /\ hooks' = Spliced(dispatch.pos)
    /\ dispatch' = Advanced
    /\ UNCHANGED <<removed, armed, retry, issued, answers, received,
                   automation, toDevice, fromDevice, device>>

\* splice(i,1) and --i: the next entry takes the place of the removed one.
Splice(r) ==
    /\ AtHook(r)
    /\ r \in removed
    /\ hooks' = Spliced(dispatch.pos)
    /\ UNCHANGED <<removed, armed, retry, issued, answers, dispatch, received,
                   automation, toDevice, fromDevice, device>>

\* The hook waits for another type of message.
Skip(r) ==
    /\ AtHook(r)
    /\ r \notin removed
    /\ ~Matches(r, dispatch.msg)
    /\ dispatch' = Advanced
    /\ UNCHANGED <<hooks, removed, armed, retry, issued, answers, received,
                   automation, toDevice, fromDevice, device>>

\* Mutant: the callback makes its next request for any address.
PassOn_Continues(r) ==
    /\ AtHook(r)
    /\ r \notin removed
    /\ Matches(r, dispatch.msg)
    /\ ~Accepts(r, dispatch.msg)
    /\ issued' = issued \cup ({FollowUp[r]} \ {None})
    /\ dispatch' = Advanced
    /\ UNCHANGED <<hooks, removed, armed, retry, answers, received,
                   automation, toDevice, fromDevice, device>>

\* A DATA message for another address: the timer has been cleared all the
\* same, and remove is set back to false.
PassOn(r) ==
    /\ AtHook(r)
    /\ r \notin removed
    /\ Matches(r, dispatch.msg)
    /\ ~Accepts(r, dispatch.msg)
    /\ armed' = Cleared(r)
    /\ dispatch' = Advanced
    /\ UNCHANGED <<hooks, removed, retry, issued, answers, received,
                   automation, toDevice, fromDevice, device>>

\* The callback makes its next request, if it has one.
CallbackSends(r) ==
    IF FollowUp[r] = None
    THEN /\ armed' = Cleared(r)
         /\ UNCHANGED <<hooks, issued, toDevice>>
    ELSE /\ armed' = Cleared(r) \cup {FollowUp[r]}
         /\ issued' = issued \cup {FollowUp[r]}
         /\ hooks' = Append(hooks, FollowUp[r])
         /\ toDevice' = Append(toDevice, FollowUp[r])

\* The answer: stop the timer, flag the object, call the callback.  The
\* loop ends if the callback returns false and goes on otherwise, to the
\* hook of a follow-up request too.
Answer(r) ==
    /\ AtHook(r)
    /\ r \notin removed
    /\ Matches(r, dispatch.msg)
    /\ Accepts(r, dispatch.msg)
    /\ removed' = Flagged(r)
    /\ answers' = [answers EXCEPT ![r] = Append(@, dispatch.msg.levels)]
    /\ CallbackSends(r)
    /\ dispatch' = IF r \in StopsAt THEN Idle ELSE Advanced
    /\ UNCHANGED <<retry, received, automation, fromDevice, device>>

\* No hook stopped the message: message_callback has the last word.  For a
\* DATA message that is dataMessage_parse without a hook, which hands it to
\* dataMessage_process.
Unhooked ==
    /\ dispatch # Idle
    /\ dispatch.pos > Len(hooks)
    /\ dispatch' = Idle
    /\ automation' = automation + IF IsDATA(dispatch.msg) THEN 1 ELSE 0
    /\ UNCHANGED <<hooks, removed, armed, retry, issued, answers, received,
                   toDevice, fromDevice, device>>

-----------------------------------------------------------------------------
(* The MPX G2 and the MIDI link: not part of the program *)

\* The device answers the requests in the order they come.
DeviceAnswers ==
    /\ toDevice # <<>>
    /\ toDevice' = Tail(toDevice)
    /\ LET r == Head(toDevice)
       IN  fromDevice' = Append(fromDevice,
                           [type |-> RequestType[r], levels |-> Levels[r]])
    /\ UNCHANGED <<program, device>>

\* A request or its answer is lost.
DeviceIsSilent ==
    /\ toDevice # <<>>
    /\ lost + unsolicited < MaxDisturbances
    /\ lost' = lost + 1
    /\ toDevice' = Tail(toDevice)
    /\ UNCHANGED <<program, fromDevice, unsolicited>>

\* Somebody turns a knob of the device.
FrontPanel(a) ==
    /\ lost + unsolicited < MaxDisturbances
    /\ unsolicited' = unsolicited + 1
    /\ fromDevice' = Append(fromDevice, [type |-> DATA, levels |-> a])
    /\ UNCHANGED <<program, toDevice, lost>>

-----------------------------------------------------------------------------

Iterate(r) == Splice(r) \/ Skip(r) \/ PassOn(r) \/ Answer(r)

Dispatching == Unhooked \/ \E r \in Requests : Iterate(r)

Device == DeviceAnswers \/ DeviceIsSilent \/ \E a \in Addresses : FrontPanel(a)

Next ==
    \/ \E r \in Requests : Request(r) \/ Timeout(r)
    \/ Receive
    \/ Dispatching
    \/ Device

Spec == Init /\ [][Next]_vars

\* libuv runs due timers and pending input, a handler runs to its end, and
\* a device that is there answers.  Callers and the front panel owe nothing.
Fairness ==
    /\ WF_vars(Receive)
    /\ WF_vars(Dispatching)
    /\ WF_vars(DeviceAnswers)
    /\ \A r \in Requests : WF_vars(Timeout(r))

FairSpec == Spec /\ Fairness

-----------------------------------------------------------------------------
(* Safety *)

\* The callback of a request runs at most once, however many times the
\* request was sent and answered, and a DATA callback is only ever given the
\* value of the address it asked for.  (The retries push the same object, so
\* one remove flag has to stop all its entries: lines 117-132, 317-341.)
AnsweredOnceByItsOwn ==
    \A r \in Requests :
        /\ Len(answers[r]) <= 1
        /\ RequestType[r] = DATA => \A n \in DOMAIN answers[r] :
                                        answers[r][n] = Levels[r]

\* A request that has been answered has no timer left that would send it
\* again, and its object is flagged, so that each of its entries in the list
\* is dropped when the loop comes to it (lines 124-128).
AnsweredIsOver ==
    \A r \in Answered : r \notin armed /\ r \in removed

\* A request waiting for its answer stays in the list of hooks: dropping the
\* entries of others never loses it (splice and --i, lines 117-121).
PendingIsHooked ==
    Pending \subseteq ToSet(hooks)

\* The loop misses no hook: when a message has been offered to the first
\* entries, none of them still waits for that very message.  At the end of
\* the loop (Unhooked) a message handed on as automation is nobody's answer.
NoHookMissed ==
    dispatch # Idle =>
        \A j \in 1..Len(hooks) :
            /\ j < dispatch.pos
            /\ hooks[j] \in Pending
            => ~(Matches(hooks[j], dispatch.msg)
                    /\ Accepts(hooks[j], dispatch.msg))

\* No DATA message disappears in the loop: each one is an answer to a
\* callback that returned false, or goes to dataMessage_process, once.
NoDataLost ==
    received = automation
             + Cardinality({ r \in Answered \cap StopsAt :
                                RequestType[r] = DATA })
             + (IF dispatch # Idle /\ IsDATA(dispatch.msg) THEN 1 ELSE 0)

\* A request for anything but DATA keeps its timer until it is answered or
\* has used up its retries.  (Not so for DATA: PassOn stops the timer of a
\* request that goes on waiting, lines 124-127 with 333.)
RetriesGoOn ==
    \A r \in Pending :
        RequestType[r] # DATA /\ r \notin armed => retry[r] = 0

\* A request that was answered is never sent again, and a request is made at
\* most once (its retries are counted by retry).
NeverSentAgain ==
    [][\A r \in Requests :
          toDevice' = Append(toDevice, r) =>
              /\ answers[r] = <<>>
              /\ r \in issued => retry'[r] < retry[r]]_vars

\* The strengthening that makes these facts inductive: the remove flag is
\* set exactly when the callback has run, only pending requests have a
\* timer, only requests that were made are hooked, and a follow-up is made
\* by the callback of the request before it and by nothing else.
IndInv ==
    /\ TypeOK
    /\ removed = Answered
    /\ Answered \subseteq issued
    /\ armed \subseteq Pending
    /\ ToSet(hooks) \subseteq issued
    /\ \A r \in Requests : FollowUp[r] \in issued => r \in Answered
    /\ AnsweredOnceByItsOwn
    /\ PendingIsHooked
    /\ NoHookMissed
    /\ RetriesGoOn

-----------------------------------------------------------------------------
(* Liveness and the abstract service *)

\* The losses a request outlives: as many as it has retries, unless it is for
\* DATA, whose timer the answer to another reader stops (line 127).
Tolerates(r) == IF RequestType[r] = DATA THEN 0 ELSE Retries

\* Every request made is answered in the end, unless too much was lost.
EveryRequestAnswered ==
    \A r \in Requests : r \in issued ~> r \in Answered \/ lost > Tolerates(r)

\* What the callers see of a request.
Status(r) ==
    IF r \in Answered THEN "done"
    ELSE IF r \in issued THEN "pending" ELSE "new"

Service == INSTANCE RequestReply
              WITH status <- [r \in Requests |-> Status(r)]

\* The hooks, timers and retries implement the request/reply service:
\* callbacks run once, only for requests that were made, and chains advance.
ImplementsService == Service!SafeSpec
=============================================================================
