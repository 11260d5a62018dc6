----------------------------- MODULE Automation ------------------------------
(***************************************************************************)
(* One parameter of the MPX G2 and the browser windows that show it: the   *)
(* socket handlers and the automation of main.js, and mpxedit.js in each   *)
(* window.                                                                 *)
(*                                                                         *)
(* A change in a window waits 50 ms in a timer, goes to the server and on  *)
(* to the device, and the server has all other windows show it.  A change  *)
(* on the front panel comes from the device, and the server has the        *)
(* registered windows show it.  To load a page the server asks the device  *)
(* for the value; the page then opens a socket and registers.  While the   *)
(* device was not heard yet, and as long as the program runs if its        *)
(* configuration was not read from a file, dataMessage_request asks        *)
(* nothing: the page shows the zeros that it answers.                      *)
(*                                                                         *)
(* The socket of a window and the MIDI line keep their order and lose      *)
(* nothing (SysexRequests has the losses).  The device executes what it    *)
(* receives in order, answers reads with its value and does not report a   *)
(* change that came over MIDI.  An answer and a report of the same address *)
(* are the same message.                                                   *)
(*                                                                         *)
(* raced tells whether users have acted in turn, each one after seeing     *)
(* what the others did: main.js has nothing that would bring windows       *)
(* together again which raced.                                             *)
(***************************************************************************)
EXTENDS Naturals, FiniteSets, SequencesExt

CONSTANTS
    Windows,      \* the browser windows
    FirstWindows, \* those that are open at first
    Editors,      \* those whose users change the parameter
    Values,       \* the values of the parameter
    Zero,         \* the value whose bytes are zeros
    Off,          \* no value
    EffectPage,   \* the page is one of an effect
    MaxEdits,     \* bound: changes in each window
    MaxPanel,     \* bound: changes on the front panel
    MaxLoads      \* bound: pages loaded

ASSUME AutomationAssumption ==
    /\ FirstWindows \subseteq Windows
    /\ Editors \subseteq Windows
    /\ Zero \in Values
    /\ Off \notin Values
    /\ EffectPage \in BOOLEAN

VARIABLES
    page,       \* window -> how far it is
    shown,      \* window -> the value it shows
    timer,      \* window -> the change that waits, or Off
    up,         \* window -> 'dataMessage' events on their way to the server
    down,       \* window -> 'automation' events on their way to it
    guessed,    \* the windows that show a zero that nobody read
    asks,       \* config.ready && self.alive
    registered, \* automation_pb: the windows that have registered
    disabled,   \* disable_automation
    enabling,   \* calls of process.nextTick that will clear it
    readers,    \* the windows whose page waits for the value, in hook order
    toDevice,   \* sets and reads on their way to the device
    fromDevice, \* values on their way from it
    device,     \* the value in the device
    edits,      \* window -> changes its user made
    panels,     \* changes on the front panel
    loads,      \* pages loaded
    raced       \* a user acted before seeing what the others had done

windowVars == <<page, shown, timer, up, down, guessed>>
serverVars == <<asks, registered, disabled, enabling, readers>>
deviceVars == <<toDevice, fromDevice, device>>
countVars  == <<edits, panels, loads>>
vars == <<windowVars, serverVars, deviceVars, countVars, raced>>

Read == Off

Connected(w) == page[w] \in {"connected", "open"}

-----------------------------------------------------------------------------

Init ==
    /\ page = [w \in Windows |-> IF w \in FirstWindows THEN "open" ELSE "closed"]
    /\ device \in Values
    /\ shown = [w \in Windows |-> device]
    /\ timer = [w \in Windows |-> Off]
    /\ up = [w \in Windows |-> <<>>]
    /\ down = [w \in Windows |-> <<>>]
    /\ guessed = {}
    /\ asks \in BOOLEAN
    /\ registered = FirstWindows
    /\ disabled = FALSE
    /\ enabling = 0
    /\ readers = <<>>
    /\ toDevice = <<>>
    /\ fromDevice = <<>>
    /\ edits = [w \in Windows |-> 0]
    /\ panels = 0
    /\ loads = 0
    /\ raced = FALSE

\* Nothing waits and nothing is on its way.
Settled ==
    /\ \A w \in Windows : /\ page[w] \in {"closed", "open"}
                          /\ timer[w] = Off
                          /\ up[w] = <<>> /\ down[w] = <<>>
    /\ toDevice = <<>> /\ fromDevice = <<>>
    /\ enabling = 0

\* Nothing that others did is on its way to window w.
NothingFor(w) ==
    /\ \A x \in Windows : page[x] \in {"closed", "open"}
    /\ \A x \in Windows \ {w} : timer[x] = Off /\ up[x] = <<>>
    /\ down[w] = <<>> /\ fromDevice = <<>>
    /\ enabling = 0

\* Nothing that a window did is on its way to the device.
NothingFromWindows ==
    /\ \A w \in Windows : /\ page[w] \in {"closed", "open"}
                          /\ timer[w] = Off /\ up[w] = <<>>
    /\ toDevice = <<>>
    /\ enabling = 0

\* A user acts: in turn, or while what another one did is on its way.
TakesTurn(turn) == raced' = (raced \/ ~turn)

-----------------------------------------------------------------------------
(* In a window *)

\* input_change: the control shows v already, and a new timer replaces the
\* one that waits.
Edit(w, v) ==
    /\ w \in Editors
    /\ page[w] = "open"
    /\ edits[w] < MaxEdits
    /\ v # shown[w]
    /\ TakesTurn(NothingFor(w))
    /\ shown' = [shown EXCEPT ![w] = v]
    /\ timer' = [timer EXCEPT ![w] = v]
    /\ edits' = [edits EXCEPT ![w] = @ + 1]
    /\ guessed' = guessed \ {w}
    /\ UNCHANGED <<page, up, down, serverVars, deviceVars, panels, loads>>

\* dataMessage(L, value)
TimerFires(w) ==
    /\ timer[w] # Off
    /\ up' = [up EXCEPT ![w] = Append(@, timer[w])]
    /\ timer' = [timer EXCEPT ![w] = Off]
    /\ UNCHANGED <<page, shown, down, guessed, serverVars, deviceVars,
                   countVars, raced>>

\* Mutant: noMessage is not looked at, and the change is sent back.
TimerAfterScript_Echo(w, v) == [timer EXCEPT ![w] = v]

\* The script sets noMessage: the handler returns before it clears or sets
\* the timer.
TimerAfterScript(w, v) == timer

\* An 'automation' event: the script shows the value.
ScriptRuns(w) ==
    /\ Connected(w)
    /\ down[w] # <<>>
    /\ shown' = [shown EXCEPT ![w] = Head(down[w])]
    /\ down' = [down EXCEPT ![w] = Tail(@)]
    /\ timer' = TimerAfterScript(w, Head(down[w]))
    /\ guessed' = guessed \ {w}
    /\ UNCHANGED <<page, up, serverVars, deviceVars, countVars, raced>>

\* socket_connect: the socket is open, and 'register' is on its way.
Connect(w) ==
    /\ page[w] = "loaded"
    /\ page' = [page EXCEPT ![w] = "connected"]
    /\ UNCHANGED <<shown, timer, up, down, guessed, serverVars, deviceVars,
                   countVars, raced>>

\* The user closes the window; the server sees 'disconnect'.
Close(w) ==
    /\ page[w] = "open"
    /\ loads < MaxLoads
    /\ page' = [page EXCEPT ![w] = "closed"]
    /\ timer' = [timer EXCEPT ![w] = Off]
    /\ down' = [down EXCEPT ![w] = <<>>]
    /\ guessed' = guessed \ {w}
    /\ registered' = registered \ {w}
    /\ UNCHANGED <<shown, up, asks, disabled, enabling, readers, deviceVars,
                   countVars, raced>>

-----------------------------------------------------------------------------
(* In the server *)

\* The handshake is answered, in a program that has read its configuration.
Hears ==
    /\ ~asks
    /\ asks' = TRUE
    /\ UNCHANGED <<windowVars, registered, disabled, enabling, readers,
                   deviceVars, countVars, raced>>

\* The value is asked for, and the page waits for it.
AskFor(w) ==
    /\ page' = [page EXCEPT ![w] = "loading"]
    /\ readers' = Append(readers, w)
    /\ toDevice' = Append(toDevice, Read)
    /\ UNCHANGED <<shown, guessed, enabling>>

\* The value is zero, and the page is sent at once.
ShowZero(w) ==
    /\ page' = [page EXCEPT ![w] = "loaded"]
    /\ shown' = [shown EXCEPT ![w] = Zero]
    /\ guessed' = guessed \cup {w}
    /\ enabling' = IF EffectPage THEN enabling + 1 ELSE enabling
    /\ UNCHANGED <<readers, toDevice>>

\* GET of a page: dataMessage_request for the value.
Load(w) ==
    /\ page[w] = "closed"
    /\ up[w] = <<>>
    /\ loads < MaxLoads
    /\ TakesTurn(Settled)
    /\ loads' = loads + 1
    /\ disabled' = (disabled \/ EffectPage)
    /\ \/ asks /\ AskFor(w)
       \/ ~asks /\ ShowZero(w)
    /\ UNCHANGED <<timer, up, down, asks, registered, fromDevice, device, edits,
                   panels>>

\* 'register'
Register(w) ==
    /\ page[w] = "connected"
    /\ page' = [page EXCEPT ![w] = "open"]
    /\ registered' = registered \cup {w}
    /\ UNCHANGED <<shown, timer, up, down, guessed, asks, disabled, enabling,
                   readers, deviceVars, countVars, raced>>

\* Mutant: the windows are shown the value the device had.
Announced_Old(v) == device

Announced(v) == v

\* automation_q_dosend: the windows ws are to show v.
Announce(ws, v) ==
    down' = [w \in Windows |->
               IF w \in ws /\ ~disabled THEN Append(down[w], Announced(v))
               ELSE down[w]]

\* socket.broadcast: every socket but the one the message came from.
Others(w) == { x \in Windows \ {w} : Connected(x) }

\* 'dataMessage': the value goes to the device, and to the other windows.
ServerSets(w) ==
    /\ up[w] # <<>>
    /\ LET v == Head(up[w])
       IN  /\ toDevice' = Append(toDevice, v)
           /\ Announce(Others(w), v)
    /\ up' = [up EXCEPT ![w] = Tail(@)]
    /\ UNCHANGED <<page, shown, timer, guessed, serverVars, fromDevice, device,
                   countVars, raced>>

\* Mutant: the hook passes the answer on, and stays.
ReadersLeft_Kept == readers

\* The hook returns false: it is removed, and the message goes no further.
ReadersLeft == Tail(readers)

\* A value from the device is the answer the first hook waits for: the page
\* is sent.
PageSent(v) ==
    /\ readers # <<>>
    /\ readers' = ReadersLeft
    /\ page' = [page EXCEPT ![Head(readers)] = "loaded"]
    /\ shown' = [shown EXCEPT ![Head(readers)] = v]
    /\ enabling' = IF EffectPage THEN enabling + 1 ELSE enabling
    /\ UNCHANGED <<timer, up, down, guessed, asks, registered, disabled>>

\* No hook waits: dataMessage_process has the registered windows show it.
Report(v) ==
    /\ readers = <<>>
    /\ Announce(registered, v)
    /\ UNCHANGED <<page, shown, timer, up, guessed, serverVars>>

\* A value from the device arrives.
ServerReceives ==
    /\ fromDevice # <<>>
    /\ fromDevice' = Tail(fromDevice)
    /\ PageSent(Head(fromDevice)) \/ Report(Head(fromDevice))
    /\ UNCHANGED <<toDevice, device, countVars, raced>>

\* process.nextTick: the page of an effect has been sent.
EnableAutomation ==
    /\ enabling > 0
    /\ enabling' = enabling - 1
    /\ disabled' = FALSE
    /\ UNCHANGED <<windowVars, asks, registered, readers, deviceVars, countVars,
                   raced>>

-----------------------------------------------------------------------------
(* The device: not part of the program *)

DeviceReceives ==
    /\ toDevice # <<>>
    /\ toDevice' = Tail(toDevice)
    /\ IF Head(toDevice) = Read
       THEN fromDevice' = Append(fromDevice, device) /\ UNCHANGED device
       ELSE device' = Head(toDevice) /\ UNCHANGED fromDevice
    /\ UNCHANGED <<windowVars, serverVars, countVars, raced>>

PanelEdit(v) ==
    /\ panels < MaxPanel
    /\ v # device
    /\ TakesTurn(NothingFromWindows)
    /\ panels' = panels + 1
    /\ device' = v
    /\ fromDevice' = Append(fromDevice, v)
    /\ UNCHANGED <<windowVars, serverVars, toDevice, edits, loads>>

-----------------------------------------------------------------------------

\* What happens without a user.
Progress ==
    \/ \E w \in Windows : \/ TimerFires(w) \/ ScriptRuns(w) \/ Connect(w)
                          \/ Register(w) \/ ServerSets(w)
    \/ ServerReceives
    \/ EnableAutomation
    \/ DeviceReceives

Next ==
    \/ Progress
    \/ Hears
    \/ \E w \in Windows : Close(w) \/ Load(w)
    \/ \E w \in Windows, v \in Values : Edit(w, v)
    \/ \E v \in Values : PanelEdit(v)

\* Timers fire, and what was sent arrives and is handled.
Spec == Init /\ [][Next]_vars /\ WF_vars(Progress)

-----------------------------------------------------------------------------

\* The windows show what the device has, but for those made of zeros.
Agree ==
    \A w \in Windows :
       \/ page[w] # "open"
       \/ w \in guessed
       \/ shown[w] = device

\* CHANGELOG line 2, "Allow to open and synchronize more than 5 or 6 windows
\* simultaneously": when users act in turn, all windows come to show what
\* the device has, and go on showing it.  (A window whose page was made before
\* the program asked the device shows zeros until the parameter is changed there
\* or elsewhere, or the page is loaded again: lexicon.js:250 and 272-283.)
EventuallyAgree == <>[](Agree \/ raced)

\* A window where the user changes nothing sends nothing: what a script does
\* to a control is not sent back (noMessage, mpxedit.js lines 252-255 and
\* 268-271).
NoEcho ==
    \A w \in Windows : edits[w] = 0 => timer[w] = Off /\ up[w] = <<>>

ReadsIn(q) == { i \in DOMAIN q : q[i] = Read }

\* A window that waits for its page has a read on its way to the device or a
\* value on its way back, so that it gets one, and when all pages have been
\* sent automation is enabled again (main.js lines 908-918).  No page is dropped
\* by an exception here (Pages has those): one of an effect would leave
\* automation disabled until the next page of an effect is sent.
PagesAnswered ==
    /\ Len(readers) <= Cardinality(ReadsIn(toDevice)) + Len(fromDevice)
    /\ disabled => readers # <<>> \/ enabling > 0
=============================================================================
