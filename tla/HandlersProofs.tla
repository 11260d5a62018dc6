--------------------------- MODULE HandlersProofs ----------------------------
(***************************************************************************)
(* Proofs about two handlers of main.js.                                   *)
(*                                                                         *)
(* MidiPorts, for any interfaces, plugged in and out as often as one       *)
(* likes: the input object is referenced as often as it is open, and the   *)
(* interface that was chosen is the one a start opens.                     *)
(*                                                                         *)
(* EffectBypass, for any number of clicks, losses and late answers: clicks *)
(* in turn toggle once each.                                               *)
(***************************************************************************)
EXTENDS MidiPorts, EffectBypass, SequenceTheorems, TLAPS

-----------------------------------------------------------------------------
(* The interfaces: the inductive invariant *)

\* What was answered '1' last is what is saved, and what the program has in
\* its variables while it runs.
Remembered ==
    /\ chosen = prefs
    /\ up = "on" => name = prefs

PortsInv == TypeOK /\ Remembered /\ OneReference

-----------------------------------------------------------------------------
(* Which port is opened *)

LEMMA NamedFacts ==
    ASSUME ports \in Seq(Names), ports # <<>>, NEW n
    PROVE  /\ Named(n) \in Names
           /\ n \in ToSet(ports) => Named(n) = n
<1>1. Head(ports) \in Names
  BY HeadTailProperties
<1>2. n \in ToSet(ports) => n \in Names
  BY ElementOfSeq DEF ToSet
<1> QED
  BY <1>1, <1>2 DEF Named

-----------------------------------------------------------------------------
(* The steps *)

LEMMA PortsInit == Init => PortsInv
<1> SUFFICES ASSUME Init
             PROVE  PortsInv
  OBVIOUS
<1>1. ports \in Seq(Names)
  <2>1. PICK m \in 0..2 : ports \in [1..m -> Names]
    BY DEF Init, SeqOf
  <2> QED
    BY <2>1
<1>2. ToSet(ports) \subseteq Names
  BY <1>1, ElementOfSeq DEF ToSet
<1> QED
  BY <1>1, <1>2, MidiPortsAssumption
     DEF Init, PortsInv, TypeOK, Remembered, OneReference

\* The two objects are opened, or neither.
LEMMA StartKeeps ==
    ASSUME PortsInv, Start
    PROVE  PortsInv'
<1>1. /\ up' = "on" /\ name' = prefs
      /\ connected' = [w \in Ways |-> Opens]
      /\ open' = [w \in Ways |-> IF Opens THEN Named(prefs[w]) ELSE None]
      /\ refs' = IF Opens THEN 1 ELSE 0
      /\ UNCHANGED <<ports, prefs, seen, chosen>>
  BY DEF Start
<1>2. Opens \in BOOLEAN
  BY DEF Opens
<1>3. open' \in [Ways -> Names \cup {None}]
  <2>1. ASSUME NEW w \in Ways, Opens
        PROVE  Named(prefs[w]) \in Names
    BY <2>1, NamedFacts DEF Opens, PortsInv, TypeOK
  <2> QED
    BY <1>1, <2>1
<1>4. connected'[Input] = Opens
  BY <1>1 DEF Ways
<1>5. TypeOK'
  BY <1>1, <1>2, <1>3 DEF PortsInv, TypeOK, Ways
<1>6. OneReference'
  BY <1>1, <1>2, <1>4 DEF OneReference
<1> QED
  BY <1>1, <1>5, <1>6 DEF PortsInv, Remembered

\* closePort takes one reference away and openPort adds one.
LEMMA SelectKeeps ==
    ASSUME PortsInv, NEW w \in Ways, NEW n \in Names, Select(w, n)
    PROVE  PortsInv'
<1> USE MidiPortsAssumption DEF PortsInv, TypeOK
<1>1. /\ up = "on"
      /\ UNCHANGED <<ports, seen, plugs, starts>>
  BY DEF Select
<1>2. CASE Asserted(w)
  <2> DEFINE c == [connected EXCEPT ![w] = FALSE]
             o == [open EXCEPT ![w] = None]
             r == Unreferenced(refs, w)
  <2>1. OpenPort(c, o, r, w, n) /\ up' = up
    BY <1>2 DEF Select
  <2>2. /\ c \in [Ways -> BOOLEAN] /\ o \in [Ways -> Names \cup {None}]
        /\ ~c[w] /\ \A x \in Ways \ {w} : c[x] = connected[x]
    OBVIOUS
  <2>3. /\ r = IF w = Input THEN 0 ELSE refs
        /\ refs \in {0, 1} /\ (refs = 1 <=> connected[Input])
    BY <1>1, <1>2 DEF Asserted, Unreferenced, OneReference
  <2> HIDE DEF c, o, r
  <2>4. CASE Opens
    <3>1. /\ connected' = [c EXCEPT ![w] = TRUE]
          /\ open' = [o EXCEPT ![w] = Named(n)]
          /\ refs' = r + IF w = Input THEN 1 ELSE 0
      BY <2>1, <2>4 DEF OpenPort
    <3>2. Named(n) \in Names
      BY <2>4, NamedFacts DEF Opens
    <3>3. /\ name' = [name EXCEPT ![w] = n] /\ prefs' = [prefs EXCEPT ![w] = n]
          /\ chosen' = [chosen EXCEPT ![w] = n]
      BY <1>2, <2>4 DEF Select, Saved
    <3>4. refs' = IF w = Input THEN 1 ELSE refs
      BY <2>3, <3>1
    <3>5. connected'[Input] = IF w = Input THEN TRUE ELSE connected[Input]
      BY <2>2, <3>1 DEF Ways
    <3>6. OneReference'
      BY <2>3, <3>4, <3>5 DEF OneReference
    <3> QED
      BY <1>1, <2>1, <2>2, <2>3, <3>1, <3>2, <3>3, <3>4, <3>6 DEF Remembered
  <2>5. CASE ~Opens
    <3>1. connected' = c /\ open' = o /\ refs' = r
      BY <2>1, <2>5 DEF OpenPort
    <3>2. UNCHANGED <<name, prefs, chosen>>
      BY <1>2, <2>5 DEF Select
    <3>3. c[Input] = IF w = Input THEN FALSE ELSE connected[Input]
      BY <2>2 DEF Ways
    <3>4. OneReference'
      BY <2>3, <3>1, <3>3 DEF OneReference
    <3> QED
      BY <1>1, <2>1, <2>2, <2>3, <3>1, <3>2, <3>4 DEF Remembered
  <2> QED
    BY <2>4, <2>5
<1>3. CASE ~Asserted(w)
  <2>1. up' = "aborted" /\ UNCHANGED <<name, prefs, chosen, portVars>>
    BY <1>3 DEF Select
  <2> QED
    BY <1>1, <2>1 DEF portVars, Remembered, OneReference
<1> QED
  BY <1>2, <1>3

\* The rest does not touch the references, or ends the program.
LEMMA OthersKeep ==
    ASSUME PortsInv,
           \/ Stop
           \/ \E w \in Ways : SelectSame(w)
           \/ \E n \in Names : Plug(n) \/ Unplug(n)
    PROVE  PortsInv'
<1> USE MidiPortsAssumption DEF PortsInv, TypeOK
<1>1. CASE Stop
  BY <1>1 DEF Stop, Remembered, OneReference
<1>2. ASSUME NEW w \in Ways, SelectSame(w)
      PROVE  PortsInv'
  <2>1. /\ up = "on" /\ chosen' = [chosen EXCEPT ![w] = name[w]]
        /\ UNCHANGED <<ports, prefs, up, name, portVars, seen, plugs, starts>>
    BY <1>2 DEF SelectSame
  <2>2. chosen' = chosen
    BY <2>1 DEF Remembered
  <2> QED
    BY <2>1, <2>2 DEF portVars, Remembered, OneReference
<1>3. ASSUME NEW n \in Names, Plug(n)
      PROVE  PortsInv'
  <2>1. <<n>> \in Seq(Names)
    OBVIOUS
  <2>2. <<n>> \o ports \in Seq(Names) /\ Append(ports, n) \in Seq(Names)
    BY <2>1, ConcatProperties
  <2>3. ports' \in Seq(Names) /\ seen' \subseteq Names
    BY <1>3, <2>2 DEF Plug
  <2> QED
    BY <1>3, <2>3 DEF Plug, portVars, Remembered, OneReference
<1>4. ASSUME NEW n \in Names, Unplug(n)
      PROVE  PortsInv'
  <2>1. ports' \in Seq(Names)
    <3>1. PICK i \in DOMAIN ports : ports' = RemoveAt(ports, i)
      BY <1>4 DEF Unplug
    <3> QED
      BY <3>1 DEF RemoveAt
  <2>2. open' \in [Ways -> Names \cup {None}]
    BY <1>4 DEF Unplug
  <2> QED
    BY <1>4, <2>1, <2>2 DEF Unplug, Remembered, OneReference
<1> QED
  BY <1>1, <1>2, <1>3, <1>4

LEMMA PortsStepKeeps == PortsInv /\ [Next]_vars => PortsInv'
<1> SUFFICES ASSUME PortsInv, [Next]_vars
             PROVE  PortsInv'
  OBVIOUS
<1>1. CASE Start
  BY <1>1, StartKeeps
<1>2. ASSUME NEW w \in Ways, NEW n \in Names, Select(w, n)
      PROVE  PortsInv'
  BY <1>2, SelectKeeps
<1>3. CASE Stop \/ (\E w \in Ways : SelectSame(w))
             \/ \E n \in Names : Plug(n) \/ Unplug(n)
  BY <1>3, OthersKeep
<1>4. CASE UNCHANGED vars
  BY <1>4 DEF vars, portVars, PortsInv, TypeOK, Remembered, OneReference
<1> QED
  BY <1>1, <1>2, <1>3, <1>4 DEF Next

-----------------------------------------------------------------------------
(* The theorems *)

\* What holds of the ports and the preferences in every state, by induction.
THEOREM PortsInvariance == Spec => []PortsInv
<1> QED
  BY PortsInit, PortsStepKeeps, PTL DEF Spec

\* node_midi.cc: a port that is open for input holds one reference, and no
\* choice of ports, failed or not, adds another or takes one too many.
THEOREM References == Spec => []OneReference
<1>1. PortsInv => OneReference
  BY DEF PortsInv
<1> QED
  BY <1>1, PortsInvariance, PTL

\* prefs_save and midi_init: a start opens the interface that was chosen last
\* if it is plugged in, and some interface if there is one.
THEOREM StartOpensChosen == Spec => ChosenAfterStart
<1>1. ASSUME PortsInv, Start
      PROVE  \A w \in Ways :
                /\ chosen[w] \in ToSet(ports) => open'[w] = chosen[w]
                /\ ports # <<>> => open'[w] # None
  <2> SUFFICES ASSUME NEW w \in Ways
               PROVE  /\ chosen[w] \in ToSet(ports) => open'[w] = chosen[w]
                      /\ ports # <<>> => open'[w] # None
    OBVIOUS
  <2>1. ports \in Seq(Names) /\ chosen = prefs
    BY <1>1 DEF PortsInv, TypeOK, Remembered
  <2>2. CASE ports # <<>>
    <3>1. open'[w] = Named(prefs[w])
      BY <1>1, <2>2 DEF Start, Opens
    <3>2. Named(prefs[w]) \in Names
          /\ (prefs[w] \in ToSet(ports) => Named(prefs[w]) = prefs[w])
      BY <2>1, <2>2, NamedFacts
    <3> QED
      BY <2>1, <3>1, <3>2, MidiPortsAssumption
  <2>3. CASE ports = <<>>
    BY <2>3 DEF ToSet
  <2> QED
    BY <2>2, <2>3
<1>2. PortsInv /\ [Next]_vars =>
         [Start => \A w \in Ways :
             /\ chosen[w] \in ToSet(ports) => open'[w] = chosen[w]
             /\ ports # <<>> => open'[w] # None]_vars
  BY <1>1
<1> QED
  BY <1>2, PortsInvariance, PTL DEF Spec, ChosenAfterStart

-----------------------------------------------------------------------------
(* The bypass button *)

OnlyReads(line) == \A i \in 1..Len(line) : line[i] = Read

\* One write of x in a line, among reads.
OneWrite(line, x) ==
    \E i \in 1..Len(line) :
       /\ line[i] = x
       /\ \A j \in 1..Len(line) : j # i => line[j] = Read

\* One click waits: the device has what it is to change, and can say nothing
\* else.
Waiting ==
    /\ Len(hooks) = 1
    /\ timers \subseteq {hooks[1]}
    /\ OnlyReads(toDevice)
    /\ device = 1 - expected
    /\ \A i \in 1..Len(fromDevice) : fromDevice[i] = device

\* None does: the device has what is expected, or one write is on its way to it.
Settled ==
    /\ hooks = <<>>
    /\ timers = {}
    /\ \/ OnlyReads(toDevice) /\ device = expected
       \/ OneWrite(toDevice, expected)

BypassTypeOK ==
    /\ clicks \in Nat
    /\ hooks \in Seq(Nat \cup Clicks)
    /\ toDevice \in Seq(States \cup {Read})
    /\ fromDevice \in Seq(States)
    /\ device \in States
    /\ expected \in States

BypassInv == BypassTypeOK /\ (~raced /\ ~writesLost => Waiting \/ Settled)

LEMMA BypassStarts == BypassInit => BypassInv
<1> SUFFICES ASSUME BypassInit
             PROVE  BypassInv
  OBVIOUS
<1> USE DEF BypassInit, States, Read
<1>1. BypassTypeOK
  BY DEF BypassTypeOK
<1>2. Settled
  BY DEF Settled, OnlyReads, OneWrite
<1> QED
  BY <1>1, <1>2 DEF BypassInv

\* What is left of a line.
LEMMA TailFacts ==
    ASSUME NEW S, NEW q \in Seq(S), q # <<>>
    PROVE  /\ Tail(q) \in Seq(S) /\ Head(q) \in S /\ Head(q) = q[1]
           /\ Len(Tail(q)) = Len(q) - 1 /\ Len(q) \in Nat \ {0}
           /\ \A i \in 1..Len(Tail(q)) : Tail(q)[i] = q[i + 1]
<1>1. Len(q) \in Nat /\ Len(q) # 0
  BY EmptySeq
<1> QED
  BY <1>1, HeadTailProperties

\* One message more.
LEMMA BypassAppends ==
    ASSUME NEW S, NEW q \in Seq(S), NEW x \in S
    PROVE  /\ Append(q, x) \in Seq(S) /\ Len(Append(q, x)) = Len(q) + 1
           /\ Append(q, x)[Len(q) + 1] = x /\ Len(q) \in Nat
           /\ \A i \in 1..Len(q) : Append(q, x)[i] = q[i]
BY AppendProperties

LEMMA MayAppend ==
    ASSUME NEW S, NEW q \in Seq(S), NEW x \in S, NEW t, t = q \/ t = Append(q, x)
    PROVE  t \in Seq(S)
<1>1. Append(q, x) \in Seq(S)
  BY AppendProperties
<1> QED
  BY <1>1

LEMMA BypassTypes ==
    ASSUME BypassTypeOK, [BypassNext]_bypassVars
    PROVE  BypassTypeOK'
<1> USE DEF BypassTypeOK, serverVars, lineVars, countVars
<1> DEFINE Msgs == States \cup {Read}
           Hooks == Nat \cup Clicks
<1>1. /\ Read \in Msgs /\ \A s \in States : 1 - s \in States
      /\ States \subseteq Msgs /\ 1 \in States
  BY DEF States
<1>2. CASE Bypass
  <2>1. /\ clicks' = clicks + 1
        /\ toDevice' = Append(toDevice, Read) \/ toDevice' = Append(toDevice, 1)
        /\ hooks' = hooks \/ hooks' = Append(hooks, clicks + 1)
        /\ expected' = 1 - expected \/ expected' = 1
        /\ UNCHANGED <<fromDevice, device>>
    BY <1>2 DEF Bypass, Request, ZeroAnswered, Acts
  <2>2. clicks' \in Nat /\ clicks + 1 \in Hooks
    BY <2>1
  <2>3. hooks' \in Seq(Hooks)
    BY <2>1, <2>2, MayAppend
  <2>4. toDevice' \in Seq(Msgs)
    <3>1. 1 \in Msgs /\ Read \in Msgs /\ toDevice \in Seq(Msgs)
      BY <1>1
    <3>2. Append(toDevice, Read) \in Seq(Msgs) /\ Append(toDevice, 1) \in Seq(Msgs)
      BY <3>1, BypassAppends
    <3> QED
      BY <2>1, <3>2
  <2>5. expected' \in States
    BY <1>1, <2>1
  <2> QED
    BY <2>1, <2>2, <2>3, <2>4, <2>5
<1>3. CASE Answered
  <2>1. /\ fromDevice # <<>> /\ hooks # <<>>
        /\ hooks' = Tail(hooks) /\ fromDevice' = Tail(fromDevice)
        /\ toDevice' = Append(toDevice, 1 - Head(fromDevice))
        /\ UNCHANGED <<clicks, expected, device>>
    BY <1>3 DEF Answered, HooksLeft
  <2>2. hooks' \in Seq(Nat \cup Clicks) /\ fromDevice' \in Seq(States)
    BY <2>1, TailFacts
  <2>3. 1 - Head(fromDevice) \in Msgs
    BY <1>1, <2>1, TailFacts
  <2>4. toDevice' \in Seq(Msgs)
    BY <2>1, <2>3, BypassAppends
  <2> QED
    BY <2>1, <2>2, <2>4
<1>4. CASE Announced
  <2>1. fromDevice' \in Seq(States)
    BY <1>4, TailFacts DEF Announced
  <2> QED
    BY <1>4, <2>1 DEF Announced
<1>5. ASSUME NEW c \in Clicks, Fires(c)
      PROVE  BypassTypeOK'
  <2>1. /\ toDevice' = toDevice \/ toDevice' = Append(toDevice, Read)
        /\ hooks' = hooks \/ hooks' = Append(hooks, c)
        /\ UNCHANGED <<clicks, fromDevice, device, expected>>
    BY <1>5 DEF Fires, Repeated, Request
  <2>2. toDevice' \in Seq(Msgs)
    BY <1>1, <2>1, MayAppend
  <2>3. c \in Hooks /\ hooks \in Seq(Hooks)
    BY <1>5
  <2>4. hooks' \in Seq(Hooks)
    BY <2>1, <2>3, MayAppend
  <2> QED
    BY <2>1, <2>2, <2>4
<1>6. CASE DeviceReceives
  <2>1. /\ toDevice # <<>> /\ toDevice' = Tail(toDevice)
        /\ \/ fromDevice' = Append(fromDevice, device) /\ device' = device
           \/ /\ Head(toDevice) # Read
              /\ device' = Head(toDevice) /\ fromDevice' = fromDevice
        /\ UNCHANGED <<clicks, hooks, expected>>
    BY <1>6 DEF DeviceReceives
  <2>2. toDevice' \in Seq(Msgs) /\ Head(toDevice) \in Msgs
    BY <2>1, TailFacts
  <2>3. fromDevice' \in Seq(States) /\ device' \in States
    <3>1. CASE fromDevice' = Append(fromDevice, device) /\ device' = device
      <4>1. Append(fromDevice, device) \in Seq(States)
        BY BypassAppends
      <4> QED
        BY <3>1, <4>1
    <3>2. CASE /\ Head(toDevice) # Read
               /\ device' = Head(toDevice) /\ fromDevice' = fromDevice
      BY <2>2, <3>2
    <3> QED
      BY <2>1, <3>1, <3>2
  <2> QED
    BY <2>1, <2>2, <2>3
<1>7. CASE Panel
  <2>1. /\ device' = 1 - device /\ expected' = 1 - device
        /\ fromDevice' = Append(fromDevice, 1 - device)
        /\ UNCHANGED <<clicks, hooks, toDevice>>
    BY <1>7 DEF Panel, Acts
  <2>2. fromDevice' \in Seq(States)
    BY <1>1, <2>1, BypassAppends
  <2> QED
    BY <1>1, <2>1, <2>2
<1>8. CASE Lose
  <2>1. /\ toDevice' = toDevice \/ (toDevice # <<>> /\ toDevice' = Tail(toDevice))
        /\ \/ fromDevice' = fromDevice
           \/ fromDevice # <<>> /\ fromDevice' = Tail(fromDevice)
        /\ UNCHANGED <<clicks, hooks, device, expected>>
    BY <1>8 DEF Lose
  <2>2. toDevice' \in Seq(Msgs) /\ fromDevice' \in Seq(States)
    BY <2>1, TailFacts
  <2> QED
    BY <2>1, <2>2
<1>9. CASE Hears
  BY <1>9 DEF Hears
<1>10. CASE UNCHANGED bypassVars
  BY <1>10 DEF bypassVars
<1> QED
  BY <1>2, <1>3, <1>4, <1>5, <1>6, <1>7, <1>8, <1>9, <1>10
     DEF BypassNext, Progress, Timeout, EarlyTimeout

LEMMA TailOfReads ==
    ASSUME NEW S, NEW q \in Seq(S), q # <<>>, OnlyReads(q)
    PROVE  Head(q) = Read /\ OnlyReads(Tail(q))
BY TailFacts DEF OnlyReads

LEMMA TailOfWrite ==
    ASSUME NEW S, NEW q \in Seq(S), NEW x, q # <<>>, OneWrite(q, x)
    PROVE  \/ Head(q) = x /\ OnlyReads(Tail(q))
           \/ Head(q) = Read /\ OneWrite(Tail(q), x)
<1>1. PICK i \in 1..Len(q) :
         /\ q[i] = x
         /\ \A j \in 1..Len(q) : j # i => q[j] = Read
  BY DEF OneWrite
<1>2. /\ Head(q) = q[1] /\ Len(Tail(q)) = Len(q) - 1 /\ Len(q) \in Nat \ {0}
      /\ \A j \in 1..Len(Tail(q)) : Tail(q)[j] = q[j + 1]
  BY TailFacts
<1>3. CASE i = 1
  BY <1>1, <1>2, <1>3 DEF OnlyReads
<1>4. CASE i # 1
  <2>1. i - 1 \in 1..Len(Tail(q)) /\ Tail(q)[i - 1] = x
    BY <1>1, <1>2, <1>4
  <2>2. \A j \in 1..Len(Tail(q)) : j # i - 1 => Tail(q)[j] = Read
    BY <1>1, <1>2, <1>4
  <2>3. Head(q) = Read
    BY <1>1, <1>2, <1>4
  <2> QED
    BY <2>1, <2>2, <2>3 DEF OneWrite
<1> QED
  BY <1>3, <1>4

\* While users act in turn, a line is empty when one acts.
LEMMA BypassStep ==
    ASSUME BypassInv, [BypassNext]_bypassVars
    PROVE  BypassInv'
<1> USE DEF serverVars, lineVars, countVars
<1>1. BypassTypeOK /\ BypassTypeOK'
  BY BypassTypes DEF BypassInv
<1>2. SUFFICES ASSUME ~raced', ~writesLost'
               PROVE  Waiting' \/ Settled'
  BY <1>1 DEF BypassInv
<1>3. /\ device \in States /\ expected \in States
      /\ Read \notin States
      /\ \A s \in States : 1 - (1 - s) = s /\ 1 - s \in States
  BY <1>1 DEF BypassTypeOK, States, Read
<1>4. CASE Bypass
  <2>1. /\ ~raced /\ ~writesLost /\ Quiet
        /\ UNCHANGED <<fromDevice, device>>
    BY <1>2, <1>4 DEF Bypass, Acts
  <2>2. hooks = <<>> /\ toDevice = <<>> /\ fromDevice = <<>>
    BY <2>1 DEF Quiet
  <2>3. Settled
    BY <2>1, <2>2 DEF BypassInv, Waiting
  <2>4. device = expected /\ timers = {}
    BY <2>2, <2>3 DEF Settled, OneWrite
  <2>5. CASE Request(clicks + 1) /\ Acts(1 - expected)
    <3>1. /\ expected' = 1 - expected
          /\ timers' = timers \cup {clicks + 1}
          /\ toDevice' = <<Read>>
      BY <2>2, <2>5 DEF Request, Acts
    <3>2. clicks + 1 \notin ToSet(hooks)
      BY <2>2 DEF ToSet
    <3>3. hooks' = <<clicks + 1>>
      BY <2>2, <2>5, <3>2 DEF Request
    <3> QED
      BY <1>3, <2>1, <2>2, <2>4, <3>1, <3>3 DEF Waiting, OnlyReads
  <2>6. CASE ZeroAnswered /\ Acts(1)
    <3>1. /\ expected' = 1 /\ toDevice' = <<1>>
          /\ hooks' = <<>> /\ timers' = {}
      BY <2>2, <2>4, <2>6 DEF ZeroAnswered, Acts
    <3> QED
      BY <3>1 DEF Settled, OneWrite
  <2> QED
    BY <1>4, <2>5, <2>6 DEF Bypass
<1>5. CASE Answered
  <2>1. /\ fromDevice # <<>> /\ hooks # <<>>
        /\ hooks' = Tail(hooks) /\ timers' = timers \ {Head(hooks)}
        /\ toDevice' = Append(toDevice, 1 - Head(fromDevice))
        /\ UNCHANGED <<device, expected, raced, writesLost>>
    BY <1>5 DEF Answered, HooksLeft, TimersLeft
  <2>2. Waiting
    BY <1>2, <2>1 DEF BypassInv, Settled
  <2>3. hooks' = <<>> /\ timers' = {}
    <3>1. /\ Tail(hooks) \in Seq(Nat \cup Clicks) /\ Len(Tail(hooks)) = 0
          /\ Head(hooks) = hooks[1]
      BY <1>1, <2>1, <2>2, TailFacts DEF BypassTypeOK, Waiting
    <3> QED
      BY <2>1, <2>2, <3>1, EmptySeq DEF Waiting
  <2>4. Head(fromDevice) = device
    BY <1>1, <2>1, <2>2, TailFacts DEF BypassTypeOK, Waiting
  <2>5. 1 - Head(fromDevice) = expected
    BY <1>3, <2>2, <2>4 DEF Waiting
  <2>6. /\ Len(toDevice) + 1 \in 1..Len(toDevice')
        /\ toDevice'[Len(toDevice) + 1] = expected'
        /\ \A j \in 1..Len(toDevice') : j # Len(toDevice) + 1 =>
              toDevice'[j] = Read
    <3>1. toDevice \in Seq(States \cup {Read})
          /\ expected \in States \cup {Read}
      BY <1>1 DEF BypassTypeOK
    <3>2. /\ Len(toDevice') = Len(toDevice) + 1 /\ Len(toDevice) \in Nat
          /\ toDevice'[Len(toDevice) + 1] = expected
          /\ \A i \in 1..Len(toDevice) : toDevice'[i] = toDevice[i]
      BY <2>1, <2>5, <3>1, BypassAppends
    <3> QED
      BY <2>1, <2>2, <3>2 DEF Waiting, OnlyReads
  <2> QED
    BY <2>3, <2>6 DEF Settled, OneWrite
<1>6. CASE Announced
  <2>1. hooks = <<>>
        /\ UNCHANGED <<hooks, timers, toDevice, device, expected, raced, writesLost>>
    BY <1>6 DEF Announced
  <2>2. Settled
    BY <1>2, <2>1 DEF BypassInv, Waiting
  <2> QED
    BY <2>1, <2>2 DEF Settled, OnlyReads, OneWrite
<1>7. ASSUME NEW c \in Clicks, Fires(c)
      PROVE  Waiting' \/ Settled'
  <2>1. /\ c \in timers /\ timers' \subseteq timers \cup {c}
        /\ \/ toDevice' = toDevice
           \/ toDevice' = Append(toDevice, Read)
        /\ UNCHANGED <<fromDevice, device, expected, raced, writesLost>>
    BY <1>7 DEF Fires, Repeated, Request
  <2>2. Waiting
    BY <1>2, <2>1 DEF BypassInv, Settled
  <2>3. c = hooks[1] /\ timers' \subseteq {hooks[1]}
    BY <2>1, <2>2 DEF Waiting
  <2>4. hooks' = hooks
    <3>1. \/ hooks' = hooks
          \/ hooks' = IF c \in ToSet(hooks) THEN hooks ELSE Append(hooks, c)
      BY <1>7 DEF Fires, Repeated, Request
    <3>2. 1 \in DOMAIN hooks
      BY <1>1, <2>2 DEF BypassTypeOK, Waiting
    <3>3. c \in ToSet(hooks)
      BY <2>3, <3>2 DEF ToSet
    <3> QED
      BY <3>1, <3>3
  <2>5. OnlyReads(toDevice')
    <3>1. toDevice \in Seq(States \cup {Read}) /\ OnlyReads(toDevice)
      BY <1>1, <2>2 DEF BypassTypeOK, Waiting
    <3>2. CASE toDevice' = Append(toDevice, Read)
      BY <3>1, <3>2, BypassAppends DEF OnlyReads
    <3> QED
      BY <2>1, <3>1, <3>2
  <2> QED
    BY <2>1, <2>2, <2>3, <2>4, <2>5 DEF Waiting, OnlyReads
<1>8. CASE Panel
  <2>1. /\ ~raced /\ ~writesLost /\ Quiet
        /\ device' = 1 - device /\ expected' = 1 - device
        /\ UNCHANGED <<hooks, timers, toDevice>>
    BY <1>2, <1>8 DEF Panel, Acts
  <2>2. hooks = <<>> /\ toDevice = <<>>
    BY <2>1 DEF Quiet
  <2>3. Settled
    BY <2>1, <2>2 DEF BypassInv, Waiting
  <2> QED
    BY <2>1, <2>2, <2>3 DEF Settled, OnlyReads, OneWrite
<1>9. CASE DeviceReceives
  <2>1. /\ toDevice # <<>> /\ toDevice' = Tail(toDevice)
        /\ UNCHANGED <<hooks, timers, expected, raced, writesLost>>
    BY <1>9 DEF DeviceReceives
  <2>2. Head(toDevice) = Read =>
           fromDevice' = Append(fromDevice, device) /\ device' = device
    BY <1>9 DEF DeviceReceives
  <2>3. Head(toDevice) # Read => device' = Head(toDevice)
    BY <1>9 DEF DeviceReceives
  <2>4. toDevice \in Seq(States \cup {Read})
        /\ fromDevice \in Seq(States)
    BY <1>1 DEF BypassTypeOK
  <2>5. CASE Waiting
    <3>1. Head(toDevice) = Read /\ OnlyReads(toDevice')
      BY <2>1, <2>4, <2>5, TailOfReads DEF Waiting
    <3>2. \A i \in 1..Len(fromDevice') : fromDevice'[i] = device
      BY <1>3, <2>2, <2>4, <2>5, <3>1, BypassAppends DEF Waiting
    <3> QED
      BY <2>1, <2>2, <2>5, <3>1, <3>2 DEF Waiting, OnlyReads
  <2>6. CASE Settled /\ OnlyReads(toDevice) /\ device = expected
    <3>1. Head(toDevice) = Read /\ OnlyReads(toDevice')
      BY <2>1, <2>4, <2>6, TailOfReads
    <3> QED
      BY <2>1, <2>2, <2>6, <3>1 DEF Settled, OnlyReads
  <2>7. CASE Settled /\ OneWrite(toDevice, expected)
    <3>1. \/ Head(toDevice) = expected /\ OnlyReads(toDevice')
          \/ Head(toDevice) = Read /\ OneWrite(toDevice', expected)
      BY <2>1, <2>4, <2>7, TailOfWrite
    <3>2. Head(toDevice) = expected => device' = expected
      BY <1>3, <2>3
    <3> QED
      BY <2>1, <2>2, <2>7, <3>1, <3>2 DEF Settled, OnlyReads, OneWrite
  <2> QED
    BY <1>2, <2>1, <2>5, <2>6, <2>7 DEF BypassInv, Settled
<1>10. CASE Lose
  <2>1. /\ \/ /\ toDevice # <<>> /\ toDevice' = Tail(toDevice)
              /\ Head(toDevice) = Read /\ fromDevice' = fromDevice
           \/ /\ fromDevice # <<>> /\ fromDevice' = Tail(fromDevice)
              /\ toDevice' = toDevice
        /\ ~writesLost
        /\ UNCHANGED <<hooks, timers, device, expected, raced>>
    <3>1. CASE /\ toDevice # <<>> /\ toDevice' = Tail(toDevice)
               /\ writesLost' = (writesLost \/ Head(toDevice) # Read)
               /\ fromDevice' = fromDevice
      <4>1. ~(writesLost \/ Head(toDevice) # Read)
        BY <1>2, <3>1
      <4> QED
        BY <1>10, <3>1, <4>1 DEF Lose
    <3>2. CASE /\ fromDevice # <<>> /\ fromDevice' = Tail(fromDevice)
               /\ UNCHANGED <<toDevice, writesLost>>
      BY <1>2, <1>10, <3>2 DEF Lose
    <3> QED
      BY <1>10, <3>1, <3>2 DEF Lose
  <2>2. toDevice \in Seq(States \cup {Read})
        /\ fromDevice \in Seq(States)
    BY <1>1 DEF BypassTypeOK
  <2>3. CASE Waiting
    <3>1. OnlyReads(toDevice')
      <4>1. OnlyReads(toDevice)
        BY <2>3 DEF Waiting
      <4>2. CASE toDevice' = toDevice
        BY <4>1, <4>2 DEF OnlyReads
      <4> QED
        BY <2>1, <2>2, <4>1, <4>2, TailOfReads
    <3>2. \A i \in 1..Len(fromDevice') : fromDevice'[i] = device
      <4>1. CASE fromDevice' = fromDevice
        BY <2>3, <4>1 DEF Waiting
      <4>2. CASE fromDevice # <<>> /\ fromDevice' = Tail(fromDevice)
        <5>1. /\ Len(fromDevice') = Len(fromDevice) - 1
              /\ Len(fromDevice) \in Nat \ {0}
              /\ \A i \in 1..Len(fromDevice') : fromDevice'[i] = fromDevice[i + 1]
          BY <2>2, <4>2, TailFacts
        <5> QED
          BY <2>3, <5>1 DEF Waiting
      <4> QED
        BY <2>1, <4>1, <4>2
    <3> QED
      BY <2>1, <2>3, <3>1, <3>2 DEF Waiting, OnlyReads
  <2>4. CASE Settled /\ OnlyReads(toDevice) /\ device = expected
    <3>1. OnlyReads(toDevice')
      BY <2>1, <2>2, <2>4, TailOfReads DEF OnlyReads
    <3> QED
      BY <2>1, <2>4, <3>1 DEF Settled, OnlyReads
  <2>5. CASE Settled /\ OneWrite(toDevice, expected)
    <3>1. OneWrite(toDevice', expected)
      <4>1. CASE toDevice # <<>> /\ toDevice' = Tail(toDevice)
                    /\ Head(toDevice) = Read
        BY <1>3, <2>2, <2>5, <4>1, TailOfWrite
      <4>2. CASE toDevice' = toDevice
        BY <2>5, <4>2 DEF OneWrite
      <4> QED
        BY <2>1, <4>1, <4>2
    <3> QED
      BY <2>1, <2>5, <3>1 DEF Settled, OneWrite
  <2> QED
    BY <1>2, <2>1, <2>3, <2>4, <2>5 DEF BypassInv, Settled
<1>11. CASE Hears
  <2>1. UNCHANGED <<hooks, timers, toDevice, fromDevice, device, expected, raced,
                    writesLost>>
    BY <1>11 DEF Hears
  <2> QED
    BY <1>2, <2>1 DEF BypassInv, Waiting, Settled, OnlyReads, OneWrite
<1>12. CASE UNCHANGED bypassVars
  <2>1. UNCHANGED <<hooks, timers, toDevice, fromDevice, device, expected, raced,
                    writesLost>>
    BY <1>12 DEF bypassVars
  <2> QED
    BY <1>2, <2>1 DEF BypassInv, Waiting, Settled, OnlyReads, OneWrite
<1> QED
  BY <1>4, <1>5, <1>6, <1>7, <1>8, <1>9, <1>10, <1>11, <1>12
     DEF BypassNext, Progress, Timeout, EarlyTimeout

\* main.js lines 311-320, lexicon.js lines 107-142 and 250-284: as long as users
\* act in turn and no write is lost, each click makes one change, however often
\* its read is lost, repeated or answered: it toggles the effect if the program
\* asks the device, and writes 1 if it does not.
THEOREM ClicksToggle == BypassSpec => []Toggled
<1>1. BypassInv => Toggled
  <2> SUFFICES ASSUME BypassInv, Quiet, ~raced, ~writesLost
               PROVE  device = expected
    BY DEF Toggled
  <2>1. hooks = <<>> /\ toDevice = <<>>
    BY DEF Quiet
  <2> QED
    BY <2>1 DEF BypassInv, Waiting, Settled, OneWrite
<1>2. BypassInv /\ [BypassNext]_bypassVars => BypassInv'
  BY BypassStep
<1> QED
  BY <1>1, <1>2, BypassStarts, PTL DEF BypassSpec
=============================================================================
