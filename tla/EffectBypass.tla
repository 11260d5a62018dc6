---------------------------- MODULE EffectBypass -----------------------------
(***************************************************************************)
(* The bypass button of an effect: 'bypass' of main.js reads the state     *)
(* from the device and writes its complement.                              *)
(*                                                                         *)
(* The read is a dataMessage_request.  While the device was not heard yet, *)
(* and as long as the program runs if its configuration was not read from  *)
(* a file, nothing is asked: the read is answered zeros at once, and what  *)
(* is written is 1.  Otherwise its hook stays on the list until an answer  *)
(* comes, also after its retries are used up, and what comes for the       *)
(* address goes to the first hook for it, whoever asked (SysexRequests has *)
(* the list).  The write is sent once, and answered by nothing.            *)
(*                                                                         *)
(* A message may be lost, and an answer may come after its timer.  The     *)
(* device reports a change on its front panel by the same message.         *)
(***************************************************************************)
EXTENDS Naturals, SequencesExt

CONSTANTS
    MaxClicks,  \* bound: clicks
    MaxPanel,   \* bound: changes on the front panel
    MaxLost,    \* bound: messages lost
    MaxEarly,   \* bound: timers that fire before the answer
    Retries     \* 2: retries of a read

ASSUME BypassAssumption ==
    /\ MaxClicks \in Nat
    /\ MaxPanel \in Nat
    /\ MaxLost \in Nat
    /\ MaxEarly \in Nat
    /\ Retries \in Nat

Clicks == 1..MaxClicks

VARIABLES
    asks,       \* config.ready && self.alive
    clicks,     \* clicks so far
    hooks,      \* the clicks whose read waits for an answer, by their first hook
    retry,      \* click -> its timeout.retry
    timers,     \* the clicks whose read has a timer
    toDevice,   \* reads and writes on their way to the device
    fromDevice, \* states on their way from it
    device,     \* the state in the device
    expected,   \* what it is to be after each user's action
    raced,      \* somebody acted while something was on its way
    writesLost, \* a write was lost
    panels,     \* changes on the front panel
    lost,       \* messages lost
    early       \* timers that fired before the answer

serverVars == <<hooks, retry, timers>>
lineVars   == <<toDevice, fromDevice, device>>
countVars  == <<panels, lost, early>>
bypassVars == <<asks, clicks, serverVars, lineVars, expected, raced, writesLost, countVars>>

States == {0, 1}
Read == 2

BypassInit ==
    /\ asks \in BOOLEAN
    /\ clicks = 0
    /\ hooks = <<>>
    /\ retry = [c \in Clicks |-> Retries]
    /\ timers = {}
    /\ toDevice = <<>>
    /\ fromDevice = <<>>
    /\ device \in States
    /\ expected = device
    /\ raced = FALSE
    /\ writesLost = FALSE
    /\ panels = 0
    /\ lost = 0
    /\ early = 0

\* Nothing is on its way.
Quiet == hooks = <<>> /\ toDevice = <<>> /\ fromDevice = <<>>

Acts(state) ==
    /\ raced' = (raced \/ ~Quiet)
    /\ expected' = state

-----------------------------------------------------------------------------

\* dataMessage_request: the message is sent, hooked and timed.  One that is sent
\* again has another hook behind the one it has, which takes what comes first.
Request(c) ==
    /\ hooks' = IF c \in ToSet(hooks) THEN hooks ELSE Append(hooks, c)
    /\ timers' = timers \cup {c}
    /\ toDevice' = Append(toDevice, Read)

\* The handshake is answered, in a program that has read its configuration.
Hears ==
    /\ ~asks
    /\ asks' = TRUE
    /\ UNCHANGED <<clicks, serverVars, lineVars, expected, raced, writesLost,
                   countVars>>

\* dataMessage_request answers 0 itself: the complement is written.
ZeroAnswered ==
    /\ toDevice' = Append(toDevice, 1)
    /\ UNCHANGED <<hooks, timers>>

\* 'bypass' from some window
Bypass ==
    /\ clicks < MaxClicks
    /\ clicks' = clicks + 1
    /\ \/ asks /\ Request(clicks + 1) /\ Acts(1 - expected)
       \/ ~asks /\ ZeroAnswered /\ Acts(1)
    /\ UNCHANGED <<asks, retry, fromDevice, device, writesLost, countVars>>

\* Mutant: the timer of a read that was answered still fires.
TimersLeft_On(c) == timers

\* clearTimeout
TimersLeft(c) == timers \ {c}

\* The message of the first hook is flagged: all its hooks are removed.
HooksLeft == Tail(hooks)

\* The callback, which returns false: the message goes no further.
Answered ==
    /\ fromDevice # <<>>
    /\ hooks # <<>>
    /\ LET c == Head(hooks)
           s == Head(fromDevice)
       IN /\ hooks' = HooksLeft
          /\ timers' = TimersLeft(c)
          /\ toDevice' = Append(toDevice, 1 - s)
    /\ fromDevice' = Tail(fromDevice)
    /\ UNCHANGED <<asks, clicks, retry, device, expected, raced, writesLost,
                   countVars>>

\* No hook: the windows are told.
Announced ==
    /\ fromDevice # <<>>
    /\ hooks = <<>>
    /\ fromDevice' = Tail(fromDevice)
    /\ UNCHANGED <<asks, clicks, serverVars, toDevice, device, expected, raced,
                   writesLost, countVars>>

\* Mutant: the timer does not send the read again.
Repeated_Not(c) == timers' = timers \ {c} /\ UNCHANGED <<hooks, toDevice>>

Repeated(c) == Request(c)

\* The timer of a read.
Fires(c) ==
    /\ c \in timers
    /\ IF retry[c] > 0
       THEN retry' = [retry EXCEPT ![c] = @ - 1] /\ Repeated(c)
       ELSE timers' = timers \ {c} /\ UNCHANGED <<hooks, retry, toDevice>>
    /\ UNCHANGED <<asks, clicks, fromDevice, device, expected, raced,
                   writesLost, panels, lost>>

\* Nothing is on its way to answer it ...
Timeout(c) ==
    /\ toDevice = <<>> /\ fromDevice = <<>>
    /\ Fires(c)
    /\ UNCHANGED early

\* ... or the answer comes late.
EarlyTimeout(c) ==
    /\ early < MaxEarly
    /\ early' = early + 1
    /\ toDevice # <<>> \/ fromDevice # <<>>
    /\ Fires(c)

-----------------------------------------------------------------------------
(* The device and the MIDI line: not part of the program *)

DeviceReceives ==
    /\ toDevice # <<>>
    /\ toDevice' = Tail(toDevice)
    /\ IF Head(toDevice) = Read
       THEN fromDevice' = Append(fromDevice, device) /\ UNCHANGED device
       ELSE device' = Head(toDevice) /\ UNCHANGED fromDevice
    /\ UNCHANGED <<asks, clicks, serverVars, expected, raced, writesLost,
                   countVars>>

Panel ==
    /\ panels < MaxPanel
    /\ panels' = panels + 1
    /\ device' = 1 - device
    /\ fromDevice' = Append(fromDevice, 1 - device)
    /\ Acts(1 - device)
    /\ UNCHANGED <<asks, clicks, serverVars, toDevice, writesLost, lost, early>>

Lose ==
    /\ lost < MaxLost
    /\ lost' = lost + 1
    /\ \/ /\ toDevice # <<>>
          /\ toDevice' = Tail(toDevice)
          /\ writesLost' = (writesLost \/ Head(toDevice) # Read)
          /\ UNCHANGED fromDevice
       \/ /\ fromDevice # <<>>
          /\ fromDevice' = Tail(fromDevice)
          /\ UNCHANGED <<toDevice, writesLost>>
    /\ UNCHANGED <<asks, clicks, serverVars, device, expected, raced, panels,
                   early>>

-----------------------------------------------------------------------------

Progress ==
    \/ Answered \/ Announced
    \/ \E c \in Clicks : Timeout(c)
    \/ DeviceReceives

BypassNext ==
    \/ Hears \/ Bypass \/ Progress
    \/ \E c \in Clicks : EarlyTimeout(c)
    \/ Panel \/ Lose

\* What was sent arrives, timers fire.
BypassSpec == BypassInit /\ [][BypassNext]_bypassVars /\ WF_bypassVars(Progress)

-----------------------------------------------------------------------------

\* A read may have been given up.
GaveUp == lost + early > Retries

\* When users act in turn, each click makes one change: in a program that asks
\* the device it toggles the effect, also if its read was lost or its answer
\* came twice; in one that does not, it writes 1, whatever the device has
\* (main.js:311-320, lexicon.js:250 and 272-283).  Nothing else changes the
\* effect.  Not so if a write is lost.  A user who clicks after a read was given
\* up does not act in turn: the hook of that read takes the answer to this
\* click, whose own timer then reads again, and both write.
Toggled == Quiet /\ ~raced /\ ~writesLost => device = expected

\* Every click comes to its write, unless a read is given up: no answer is
\* taken from it for good.
EveryClickDone == \A c \in Clicks : clicks = c ~> c \notin ToSet(hooks) \/ GaveUp
=============================================================================
