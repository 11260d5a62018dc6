----------------------------- MODULE MidiInput ------------------------------
(***************************************************************************)
(* midi.input: from the ALSA sequencer to the 'message' listener.          *)
(*                                                                         *)
(* The input thread (alsaMidiHandler in RtMidi.cpp) reads sequencer events *)
(* and puts the segments of a system exclusive message together again.     *)
(* For each completed message it runs Callback of node_midi.cc: lock, push *)
(* on message_queue, unlock, uv_async_send.  The main thread wakes up, and *)
(* EmitMessage empties the queue with the mutex held, calling JavaScript   *)
(* for each message.  Sends that come before the wake-up are coalesced.    *)
(*                                                                         *)
(* A segment stands for its bytes: [msg, part] is the part-th segment of   *)
(* the msg-th system exclusive message of the device, and the last one     *)
(* ends with F7.  Clock is a one-byte MIDI clock message, which may come   *)
(* between two segments.  Event types that ignoreTypes filters out leave   *)
(* the state of the handler as it is and are left out.                     *)
(***************************************************************************)
EXTENDS Naturals, SequencesExt

CONSTANTS
    NumMessages, \* bound: the system exclusive messages the device sends
    Parts,       \* message -> number of segments the sequencer makes of it
    Clock,       \* a MIDI clock message
    MaxClocks,   \* bound: clock messages
    MaxChanges,  \* bound: changes of the port in the middle of a message
    MaxOverruns  \* bound: overruns of the input buffer of the sequencer

ASSUME MidiInputAssumption ==
    /\ NumMessages \in Nat
    /\ Parts \in [1..NumMessages -> Nat \ {0}]
    /\ MaxClocks \in Nat
    /\ MaxChanges \in Nat
    /\ MaxOverruns \in Nat

VARIABLES
    sentMessages,  \* messages the device has finished sending
    sentParts,     \* segments it has sent of the next one
    clocks,        \* clock messages it has sent
    cut,           \* the messages during which the port was changed
    overruns,      \* how often the input buffer was overrun
    events,        \* the events waiting in the sequencer
    taken,         \* every segment and clock the input thread has read
    bytes,         \* message.bytes of alsaMidiHandler
    continueSysex, \* the message is not complete
    thread,        \* where the input thread is
    mutex,         \* message_mutex: who holds it
    queue,         \* message_queue
    async,         \* an uv_async_send the main thread has not seen yet
    main,          \* where the main thread is
    delivered      \* the messages the listener was called with

deviceVars == <<sentMessages, sentParts, clocks, cut, overruns>>
threadVars == <<events, taken, bytes, continueSysex, thread>>
mainVars   == <<main, delivered>>
vars == <<deviceVars, threadVars, mutex, queue, async, mainVars>>

Segments == { s \in [msg : 1..NumMessages, part : Nat \ {0}] :
                s.part <= Parts[s.msg] }
Pieces   == Segments \cup {Clock}
Chunks   == Seq(Pieces)

\* The whole of message m.
Whole(m) == [n \in 1..Parts[m] |-> [msg |-> m, part |-> n]]

-----------------------------------------------------------------------------

TypeOK ==
    /\ sentMessages \in 0..NumMessages
    /\ sentParts \in Nat
    /\ clocks \in 0..MaxClocks
    /\ cut \subseteq 1..NumMessages
    /\ overruns \in 0..MaxOverruns
    /\ events \in Chunks
    /\ taken \in Chunks
    /\ bytes \in Chunks
    /\ continueSysex \in BOOLEAN
    /\ thread \in {"read", "lock", "push", "unlock", "send"}
    /\ mutex \in {"free", "thread", "main"}
    /\ queue \in Seq(Chunks \ {<<>>})
    /\ async \in BOOLEAN
    /\ main \in {"idle", "lock", "drain"}
    /\ delivered \in Seq(Chunks \ {<<>>})

Init ==
    /\ sentMessages = 0
    /\ sentParts = 0
    /\ clocks = 0
    /\ cut = {}
    /\ overruns = 0
    /\ events = <<>>
    /\ taken = <<>>
    /\ bytes = <<>>
    /\ continueSysex = FALSE
    /\ thread = "read"
    /\ mutex = "free"
    /\ queue = <<>>
    /\ async = FALSE
    /\ main = "idle"
    /\ delivered = <<>>

-----------------------------------------------------------------------------
(* The device and the ALSA sequencer: not part of the program *)

\* The sequencer queues the next segment of the message being received.
SegmentArrives ==
    /\ sentMessages < NumMessages
    /\ LET m == sentMessages + 1
           n == sentParts + 1
       IN  /\ events' = Append(events, [msg |-> m, part |-> n])
           /\ IF n = Parts[m]
              THEN sentMessages' = m /\ sentParts' = 0
              ELSE sentParts' = n /\ UNCHANGED sentMessages
    /\ UNCHANGED <<clocks, cut, overruns, taken, bytes, continueSysex, thread,
                   mutex, queue, async, mainVars>>

\* A clock message may come between any two segments.
ClockArrives ==
    /\ clocks < MaxClocks
    /\ clocks' = clocks + 1
    /\ events' = Append(events, Clock)
    /\ UNCHANGED <<sentMessages, sentParts, cut, overruns, taken, bytes,
                   continueSysex, thread, mutex, queue, async, mainVars>>

\* closePort and openPort, called from /midiin: what the interface would have
\* sent does not come any more, and the interface that is opened sends the
\* next message.  The input thread, its bytes and continueSysex stay.
PortChanges ==
    /\ main = "idle"
    /\ sentParts > 0
    /\ Cardinality(cut) < MaxChanges
    /\ cut' = cut \cup {sentMessages + 1}
    /\ sentMessages' = sentMessages + 1
    /\ sentParts' = 0
    /\ UNCHANGED <<clocks, overruns, threadVars, mutex, queue, async, mainVars>>

-----------------------------------------------------------------------------
(* The input thread *)

EndsWithF7(p) == p # Clock /\ p.part = Parts[p.msg]

\* Mutant: the segments of a message overwrite each other.
Joined_Last(p) == <<p>>

\* assign when no message is under way, insert at the end otherwise.
Joined(p) == IF continueSysex THEN Append(bytes, p) ELSE <<p>>

\* ev->type == SND_SEQ_EVENT_SYSEX and the last byte is not F7.
Unfinished(p) == p # Clock /\ ~EndsWithF7(p)

\* One turn of the loop of alsaMidiHandler.
ReadEvent ==
    /\ thread = "read"
    /\ events # <<>>
    /\ LET p == Head(events)
       IN  /\ taken' = Append(taken, p)
           /\ bytes' = Joined(p)
           /\ continueSysex' = Unfinished(p)
           /\ thread' = IF Unfinished(p) THEN "read" ELSE "lock"
    /\ events' = Tail(events)
    /\ UNCHANGED <<deviceVars, mutex, queue, async, mainVars>>

\* -ENOSPC instead of an event: what the sequencer was keeping is lost.  The
\* loop goes on with the bytes and continueSysex that it has.
Overrun ==
    /\ thread = "read"
    /\ events # <<>>
    /\ overruns < MaxOverruns
    /\ overruns' = overruns + 1
    /\ events' = <<>>
    /\ UNCHANGED <<sentMessages, sentParts, clocks, cut, taken, bytes,
                   continueSysex, thread, mutex, queue, async, mainVars>>

MayLock == mutex = "free"

\* Callback: pthread_mutex_lock
ThreadLocks ==
    /\ thread = "lock"
    /\ MayLock
    /\ mutex' = "thread"
    /\ thread' = "push"
    /\ UNCHANGED <<deviceVars, events, taken, bytes, continueSysex, queue,
                   async, mainVars>>

\* Mutant: the newest message comes first.
Pushed_First == <<bytes>> \o queue
Pushed == Append(queue, bytes)

\* Callback: message_queue.push, of a copy of the bytes
ThreadPushes ==
    /\ thread = "push"
    /\ queue' = Pushed
    /\ thread' = "unlock"
    /\ UNCHANGED <<deviceVars, events, taken, bytes, continueSysex, mutex,
                   async, mainVars>>

\* Callback: pthread_mutex_unlock
ThreadUnlocks ==
    /\ thread = "unlock"
    /\ mutex' = "free"
    /\ thread' = "send"
    /\ UNCHANGED <<deviceVars, events, taken, bytes, continueSysex, queue,
                   async, mainVars>>

\* Callback: uv_async_send
ThreadSends ==
    /\ thread = "send"
    /\ async' = TRUE
    /\ thread' = "read"
    /\ UNCHANGED <<deviceVars, events, taken, bytes, continueSysex, mutex,
                   queue, mainVars>>

-----------------------------------------------------------------------------
(* The main thread: uv_run calls EmitMessage *)

\* The wake-up: however many sends there were, EmitMessage is called once.
MainWakes ==
    /\ main = "idle"
    /\ async
    /\ async' = FALSE
    /\ main' = "lock"
    /\ UNCHANGED <<deviceVars, threadVars, mutex, queue, delivered>>

\* EmitMessage: pthread_mutex_lock
MainLocks ==
    /\ main = "lock"
    /\ MayLock
    /\ mutex' = "main"
    /\ main' = "drain"
    /\ UNCHANGED <<deviceVars, threadVars, queue, async, delivered>>

\* EmitMessage: emit.call for the front of the queue, then pop.
MainEmits ==
    /\ main = "drain"
    /\ queue # <<>>
    /\ delivered' = Append(delivered, Head(queue))
    /\ queue' = Tail(queue)
    /\ UNCHANGED <<deviceVars, threadVars, mutex, async, main>>

\* Mutant: one message for each wake-up, if instead of while.
Drained_One == TRUE

\* The condition of the loop: message_queue.empty()
Drained == queue = <<>>

\* EmitMessage: pthread_mutex_unlock
MainUnlocks ==
    /\ main = "drain"
    /\ Drained
    /\ mutex' = "free"
    /\ main' = "idle"
    /\ UNCHANGED <<deviceVars, threadVars, queue, async, delivered>>

-----------------------------------------------------------------------------

Device == SegmentArrives \/ ClockArrives \/ PortChanges
Thread == ReadEvent \/ ThreadLocks \/ ThreadPushes \/ ThreadUnlocks
             \/ ThreadSends
Main   == MainWakes \/ MainLocks \/ MainEmits \/ MainUnlocks

Next == Device \/ Thread \/ Main \/ Overrun

Spec == Init /\ [][Next]_vars

\* The scheduler runs both threads; a mutex asked for is granted in the end.
\* The device need not send anything, and may stop in the middle.
Fairness ==
    /\ WF_vars(ReadEvent \/ ThreadPushes \/ ThreadUnlocks \/ ThreadSends)
    /\ SF_vars(ThreadLocks)
    /\ WF_vars(MainWakes \/ MainEmits \/ MainUnlocks)
    /\ SF_vars(MainLocks)

FairSpec == Spec /\ Fairness

-----------------------------------------------------------------------------
(* Properties *)

\* The message the input thread has completed and not yet pushed.
InHand == IF thread \in {"lock", "push"} THEN <<bytes>> ELSE <<>>

\* No message is stranded: when the queue holds one, the main thread is on
\* its way to it, or a wake-up is, or the input thread is about to send one
\* (Callback sends after it unlocks, EmitMessage looks after it locks).
NoStrandedMessage ==
    queue # <<>> => async \/ main \in {"lock", "drain"}
                          \/ thread \in {"unlock", "send"}

\* The queue is touched by one thread at a time: who holds the mutex is the
\* thread that is between its lock and its unlock.
Exclusive ==
    /\ mutex = "thread" <=> thread \in {"push", "unlock"}
    /\ mutex = "main" <=> main = "drain"

\* The strengthening that makes these facts inductive: a segment sent is one
\* of the message under way, and what Callback is given is complete and not
\* empty.
IndInv ==
    /\ TypeOK
    /\ sentMessages < NumMessages => sentParts < Parts[sentMessages + 1]
    /\ sentMessages = NumMessages => sentParts = 0
    /\ thread # "read" => ~continueSysex
    /\ thread \in {"lock", "push"} => bytes # <<>>
    /\ Exclusive
    /\ NoStrandedMessage

\* The comment of RtMidi.cpp:996-1000 says that segments are concatenated
\* "into a single sysex message": what the listener gets is a whole message
\* or a clock.
WholeMessages ==
    \A i \in DOMAIN delivered :
        \/ delivered[i] = <<Clock>>
        \/ \E m \in 1..NumMessages : delivered[i] = Whole(m)

\* d is message m, and before it only what came of messages that were cut.
EndsWhole(d, m) ==
    LET k == Len(d) - Parts[m]
    IN  /\ k >= 0
        /\ SubSeq(d, k + 1, Len(d)) = Whole(m)
        /\ \A j \in 1..k : d[j].msg \in cut

\* So it is as long as no clock has come between two segments, nothing was
\* lost by an overrun, and the port was not changed in the middle of a message;
\* and if the port was, the thread goes on with what it had (closePort, line
\* 1267, leaves it running), and the next message is delivered at the end of
\* that, whole, and those after it alone.
WholeWithoutClocks ==
    Clock \notin ToSet(taken) /\ overruns = 0 =>
       \A i \in DOMAIN delivered :
          \E m \in (1..NumMessages) \ cut : EndsWhole(delivered[i], m)

Channel == INSTANCE MessageChannel
              WITH sent <- delivered \o queue \o InHand

\* The two threads, the mutex, the queue and the coalesced wake-ups are a
\* FIFO channel that delivers everything.
ImplementsChannel == Channel!Spec
=============================================================================
