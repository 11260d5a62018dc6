--------------------------- MODULE AutomationProofs ---------------------------
(***************************************************************************)
(* Proofs about Automation, for any windows, values, changes and pages     *)
(* loaded: what a window is shown is never sent back, and every window     *)
(* that waits for its page gets one, after which automation is enabled.    *)
(***************************************************************************)
EXTENDS Automation, FiniteSetTheorems, SequenceTheorems, TLAPS

-----------------------------------------------------------------------------
(* Reads in a line *)

LEMMA ReadsFinite ==
    ASSUME NEW S, NEW q \in Seq(S)
    PROVE  IsFiniteSet(ReadsIn(q)) /\ Cardinality(ReadsIn(q)) \in Nat
<1>1. Len(q) \in Nat /\ DOMAIN q = 1..Len(q)
  OBVIOUS
<1>2. IsFiniteSet(1..Len(q))
  BY <1>1, FS_Interval
<1>3. ReadsIn(q) \in SUBSET (1..Len(q))
  BY <1>1 DEF ReadsIn
<1> QED
  BY <1>2, <1>3, FS_Subset, FS_CardinalityType

LEMMA ReadsAppended ==
    ASSUME NEW S, NEW q \in Seq(S), NEW x \in S
    PROVE  Cardinality(ReadsIn(Append(q, x)))
             = IF x = Read THEN Cardinality(ReadsIn(q)) + 1
               ELSE Cardinality(ReadsIn(q))
<1> DEFINE n == Len(q)
           t == Append(q, x)
           R == ReadsIn(q)
<1>1. n \in Nat /\ DOMAIN q = 1..n
  OBVIOUS
<1>2. /\ t \in Seq(S) /\ Len(t) = n + 1 /\ t[n + 1] = x
      /\ \A k \in 1..n : t[k] = q[k]
  BY AppendProperties
<1>3. DOMAIN t = 1..(n + 1)
  BY <1>2
<1>4. IsFiniteSet(R)
  BY ReadsFinite
<1> HIDE DEF n, t
<1>5. n + 1 \notin R
  BY <1>1 DEF ReadsIn
<1>6. CASE x = Read
  <2>1. ReadsIn(t) = R \cup {n + 1}
    BY <1>1, <1>2, <1>3, <1>6 DEF ReadsIn
  <2> QED
    BY <2>1, <1>4, <1>5, <1>6, FS_AddElement DEF t
<1>7. CASE x # Read
  <2>1. ReadsIn(t) = R
    BY <1>1, <1>2, <1>3, <1>7 DEF ReadsIn
  <2> QED
    BY <2>1, <1>7 DEF t
<1> QED
  BY <1>6, <1>7

LEMMA ReadsTaken ==
    ASSUME NEW S, NEW q \in Seq(S), q # <<>>
    PROVE  Cardinality(ReadsIn(q))
             = IF Head(q) = Read THEN Cardinality(ReadsIn(Tail(q))) + 1
               ELSE Cardinality(ReadsIn(Tail(q)))
<1> DEFINE n == Len(q)
           t == Tail(q)
           R == ReadsIn(q)
           f == [i \in ReadsIn(t) |-> i + 1]
<1>1. n \in Nat /\ n > 0 /\ DOMAIN q = 1..n
  BY EmptySeq
<1>2. /\ t \in Seq(S) /\ Len(t) = n - 1
      /\ \A k \in 1..Len(t) : t[k] = q[k + 1]
  BY HeadTailProperties
<1>3. DOMAIN t = 1..(n - 1)
  BY <1>2
<1>4. Head(q) = q[1]
  OBVIOUS
<1>5. /\ IsFiniteSet(R) /\ Cardinality(R) \in Nat
      /\ IsFiniteSet(ReadsIn(t)) /\ Cardinality(ReadsIn(t)) \in Nat
  BY <1>2, ReadsFinite
<1> HIDE DEF n, t
<1>6. ReadsIn(t) = { i \in 1..(n - 1) : q[i + 1] = Read }
  BY <1>2, <1>3 DEF ReadsIn
<1>7. R = { i \in 1..n : q[i] = Read }
  BY <1>1 DEF ReadsIn
<1>8. f \in Bijection(ReadsIn(t), R \ {1})
  <2> HIDE DEF R
  <2>1. \A i \in ReadsIn(t) : i \in Nat /\ f[i] = i + 1 /\ i + 1 \in R \ {1}
    BY <1>1, <1>6, <1>7
  <2>2. \A k \in R \ {1} : k - 1 \in ReadsIn(t) /\ f[k - 1] = k
    BY <1>1, <1>6, <1>7
  <2>3. f \in [ReadsIn(t) -> R \ {1}]
    BY <2>1
  <2>4. f \in Injection(ReadsIn(t), R \ {1})
    BY <2>1, <2>3 DEF Injection, IsInjective
  <2>5. f \in Surjection(ReadsIn(t), R \ {1})
    BY <2>2, <2>3 DEF Surjection
  <2> QED
    BY <2>4, <2>5 DEF Bijection
<1>9. Cardinality(R \ {1}) = Cardinality(ReadsIn(t))
  BY <1>5, <1>8, FS_Bijection DEF ExistsBijection
<1>10. Cardinality(R \ {1}) = IF 1 \in R THEN Cardinality(R) - 1 ELSE Cardinality(R)
  BY <1>5, FS_RemoveElement
<1>11. 1 \in R <=> Head(q) = Read
  BY <1>1, <1>4, <1>7
<1> QED
  BY <1>5, <1>9, <1>10, <1>11 DEF t

-----------------------------------------------------------------------------
(* The inductive invariant: that of the windows and that of the server *)

WindowTypes ==
    /\ timer \in [Windows -> Values \cup {Off}]
    /\ up \in [Windows -> Seq(Values)]
    /\ edits \in [Windows -> Nat]

WindowInv == WindowTypes /\ NoEcho

ServerTypes ==
    /\ disabled \in BOOLEAN
    /\ enabling \in Nat
    /\ readers \in Seq(Windows)
    /\ toDevice \in Seq(Values \cup {Read})
    /\ fromDevice \in Seq(Values)
    /\ device \in Values

\* Only the page of an effect disables automation.
ServerInv ==
    /\ ServerTypes
    /\ PagesAnswered
    /\ disabled => EffectPage

LEMMA AutomationInit == Init => WindowInv /\ ServerInv
<1> SUFFICES ASSUME Init
             PROVE  WindowInv /\ ServerInv
  OBVIOUS
<1> USE DEF Init
<1>1. <<>> \in Seq(Values) /\ <<>> \in Seq(Windows) /\ <<>> \in Seq(Values \cup {Read})
  BY EmptySeq
<1>2. WindowInv
  BY <1>1 DEF WindowInv, WindowTypes, NoEcho
<1>3. Cardinality(ReadsIn(toDevice)) \in Nat /\ Len(readers) = 0 /\ Len(fromDevice) = 0
  BY <1>1, ReadsFinite
<1>4. PagesAnswered
  BY <1>3 DEF PagesAnswered
<1>5. ServerTypes
  BY <1>1 DEF ServerTypes
<1>6. ServerInv
  BY <1>4, <1>5 DEF ServerInv
<1> QED
  BY <1>2, <1>6

-----------------------------------------------------------------------------
(* The windows *)

LEMMA EditKeepsWindows ==
    ASSUME WindowInv, NEW w \in Windows, NEW v \in Values, Edit(w, v)
    PROVE  WindowInv'
<1> USE DEF WindowInv, WindowTypes
<1>1. /\ timer' = [timer EXCEPT ![w] = v] /\ up' = up
      /\ edits' = [edits EXCEPT ![w] = edits[w] + 1]
  BY DEF Edit
<1>2. WindowTypes'
  BY <1>1
<1>3. \A x \in Windows :
         edits'[x] = 0 => x # w /\ timer'[x] = timer[x] /\ edits[x] = 0
  BY <1>1
<1>4. NoEcho'
  BY <1>1, <1>3 DEF NoEcho
<1> QED
  BY <1>2, <1>4

LEMMA TimerKeepsWindows ==
    ASSUME WindowInv, NEW w \in Windows, TimerFires(w)
    PROVE  WindowInv'
<1> USE DEF WindowInv, WindowTypes
<1>1. /\ timer[w] # Off /\ timer' = [timer EXCEPT ![w] = Off]
      /\ up' = [up EXCEPT ![w] = Append(up[w], timer[w])] /\ edits' = edits
  BY DEF TimerFires, countVars
<1>2. timer[w] \in Values /\ Append(up[w], timer[w]) \in Seq(Values)
  BY <1>1
<1>3. WindowTypes'
  BY <1>1, <1>2
<1>4. edits[w] # 0
  BY <1>1 DEF NoEcho
<1>5. NoEcho'
  BY <1>1, <1>4 DEF NoEcho
<1> QED
  BY <1>3, <1>5

LEMMA TakenKeepsWindows ==
    ASSUME WindowInv, NEW w \in Windows, ServerSets(w)
    PROVE  WindowInv' /\ up[w] # <<>> /\ Head(up[w]) \in Values
<1> USE DEF WindowInv, WindowTypes
<1>1. /\ up[w] # <<>> /\ up' = [up EXCEPT ![w] = Tail(up[w])]
      /\ UNCHANGED <<timer, edits>>
  BY DEF ServerSets, countVars
<1>2. Tail(up[w]) \in Seq(Values) /\ Head(up[w]) \in Values
  BY <1>1, HeadTailProperties
<1>3. WindowTypes'
  BY <1>1, <1>2
<1>4. edits[w] # 0
  BY <1>1 DEF NoEcho
<1>5. NoEcho'
  BY <1>1, <1>4 DEF NoEcho
<1> QED
  BY <1>1, <1>2, <1>3, <1>5

LEMMA WindowStep == WindowInv /\ [Next]_vars => WindowInv'
<1> SUFFICES ASSUME WindowInv, [Next]_vars
             PROVE  WindowInv'
  OBVIOUS
<1>1. CASE UNCHANGED <<timer, up, edits>>
  BY <1>1 DEF WindowInv, WindowTypes, NoEcho
<1>2. ASSUME NEW w \in Windows, TimerFires(w) \/ ServerSets(w)
      PROVE  WindowInv'
  BY <1>2, TimerKeepsWindows, TakenKeepsWindows
<1>3. ASSUME NEW w \in Windows, NEW v \in Values, Edit(w, v)
      PROVE  WindowInv'
  BY <1>3, EditKeepsWindows
<1>4. ASSUME NEW w \in Windows, Close(w)
      PROVE  WindowInv'
  <2>1. timer' = [timer EXCEPT ![w] = Off] /\ UNCHANGED <<up, edits>>
    BY <1>4 DEF Close, countVars
  <2> QED
    BY <2>1 DEF WindowInv, WindowTypes, NoEcho
<1>5. ASSUME NEW w \in Windows,
             ScriptRuns(w) \/ Connect(w) \/ Register(w) \/ Load(w)
      PROVE  UNCHANGED <<timer, up, edits>>
  BY <1>5 DEF ScriptRuns, TimerAfterScript, Connect, Register, Load, AskFor, ShowZero,
              countVars
<1>6. CASE ServerReceives \/ EnableAutomation \/ DeviceReceives
  BY <1>1, <1>6 DEF ServerReceives, PageSent, Report, EnableAutomation,
                    DeviceReceives, windowVars, countVars
<1>7. ASSUME NEW v \in Values, PanelEdit(v)
      PROVE  UNCHANGED <<timer, up, edits>>
  BY <1>7 DEF PanelEdit, windowVars
<1>8. CASE Hears \/ UNCHANGED vars
  BY <1>1, <1>8 DEF Hears, vars, windowVars, countVars
<1> QED
  BY <1>1, <1>2, <1>3, <1>4, <1>5, <1>6, <1>7, <1>8 DEF Next, Progress

-----------------------------------------------------------------------------
(* The server and the device *)

\* The lines, the hooks and their lengths.
LEMMA ServerFacts ==
    ASSUME ServerInv
    PROVE  /\ toDevice \in Seq(Values \cup {Read}) /\ fromDevice \in Seq(Values)
           /\ readers \in Seq(Windows)
           /\ Len(readers) \in Nat /\ Len(fromDevice) \in Nat
           /\ Cardinality(ReadsIn(toDevice)) \in Nat
           /\ Len(readers) <= Cardinality(ReadsIn(toDevice)) + Len(fromDevice)
  BY ReadsFinite DEF ServerInv, ServerTypes, PagesAnswered

\* A value for the device: no read.
LEMMA SettingKeepsServer ==
    ASSUME ServerInv, WindowInv, NEW w \in Windows, ServerSets(w)
    PROVE  ServerInv'
<1>1. /\ toDevice' = Append(toDevice, Head(up[w]))
      /\ UNCHANGED <<disabled, enabling, readers, fromDevice, device>>
  BY DEF ServerSets, serverVars
<1>2. Head(up[w]) \in Values /\ Head(up[w]) # Read
  BY TakenKeepsWindows, AutomationAssumption DEF Read
<1>3. toDevice' \in Seq(Values \cup {Read})
      /\ Cardinality(ReadsIn(toDevice')) = Cardinality(ReadsIn(toDevice))
  BY <1>1, <1>2, ServerFacts, AppendProperties, ReadsAppended
<1> QED
  BY <1>1, <1>3 DEF ServerInv, ServerTypes, PagesAnswered

\* A page that is asked for: one more that waits, and a read for it.
LEMMA AskingKeepsServer ==
    ASSUME ServerInv, NEW w \in Windows, Load(w), asks
    PROVE  ServerInv'
<1>1. /\ readers' = Append(readers, w) /\ toDevice' = Append(toDevice, Read)
      /\ disabled' = (disabled \/ EffectPage)
      /\ UNCHANGED <<enabling, fromDevice, device>>
  BY DEF Load, AskFor
<1>2. /\ readers' \in Seq(Windows) /\ readers' # <<>>
      /\ Len(readers') = Len(readers) + 1
  BY <1>1, ServerFacts, AppendProperties
<1>3. /\ toDevice' \in Seq(Values \cup {Read})
      /\ Cardinality(ReadsIn(toDevice')) = Cardinality(ReadsIn(toDevice)) + 1
  BY <1>1, ServerFacts, AppendProperties, ReadsAppended
<1>4. ServerTypes'
  <2>1. disabled' \in BOOLEAN
    BY <1>1
  <2> QED
    BY <1>1, <1>2, <1>3, <2>1 DEF ServerInv, ServerTypes
<1>5. PagesAnswered'
  BY <1>1, <1>2, <1>3, ServerFacts DEF PagesAnswered
<1>6. disabled' => EffectPage
  BY <1>1 DEF ServerInv
<1> QED
  BY <1>4, <1>5, <1>6 DEF ServerInv

\* A page of zeros: its own nextTick will enable automation.
LEMMA ZeroKeepsServer ==
    ASSUME ServerInv, NEW w \in Windows, Load(w), ~asks
    PROVE  ServerInv'
<1>1. /\ disabled' = (disabled \/ EffectPage)
      /\ enabling' = IF EffectPage THEN enabling + 1 ELSE enabling
      /\ UNCHANGED <<readers, toDevice, fromDevice, device>>
  BY DEF Load, ShowZero
<1>2. /\ disabled' \in BOOLEAN /\ enabling' \in Nat
      /\ disabled' => EffectPage /\ enabling' > 0
  BY <1>1 DEF ServerInv, ServerTypes
<1>3. ServerTypes'
  BY <1>1, <1>2 DEF ServerInv, ServerTypes
<1>4. PagesAnswered'
  BY <1>1, <1>2 DEF ServerInv, PagesAnswered
<1> QED
  BY <1>2, <1>3, <1>4 DEF ServerInv

\* A value from the device: a page less waits, and if it was the last one its
\* nextTick will enable automation.  Or no page waits.
LEMMA ReceivingKeepsServer ==
    ASSUME ServerInv, ServerReceives
    PROVE  ServerInv'
<1>1. /\ fromDevice # <<>> /\ fromDevice' = Tail(fromDevice)
      /\ UNCHANGED <<toDevice, device, disabled>>
  BY DEF ServerReceives, PageSent, Report, serverVars
<1>2. fromDevice' \in Seq(Values) /\ Len(fromDevice') = Len(fromDevice) - 1
  BY <1>1, ServerFacts, HeadTailProperties
<1>3. CASE PageSent(Head(fromDevice))
  <2>1. /\ readers # <<>> /\ readers' = Tail(readers)
        /\ enabling' = IF EffectPage THEN enabling + 1 ELSE enabling
    BY <1>3 DEF PageSent, ReadersLeft
  <2>2. readers' \in Seq(Windows) /\ Len(readers') = Len(readers) - 1
    BY <2>1, ServerFacts, HeadTailProperties
  <2>3. enabling' \in Nat /\ (disabled => enabling' > 0)
    BY <2>1 DEF ServerInv, ServerTypes
  <2>4. ServerTypes'
    BY <1>1, <1>2, <2>2, <2>3 DEF ServerInv, ServerTypes
  <2>5. PagesAnswered'
    BY <1>1, <1>2, <2>2, <2>3, ServerFacts DEF PagesAnswered
  <2> QED
    BY <1>1, <2>4, <2>5 DEF ServerInv
<1>4. CASE Report(Head(fromDevice))
  <2>1. readers = <<>> /\ UNCHANGED <<readers, enabling>>
    BY <1>4 DEF Report, serverVars
  <2>2. ServerTypes'
    BY <1>1, <1>2, <2>1 DEF ServerInv, ServerTypes
  <2>3. Len(readers') = 0 /\ Len(fromDevice') \in Nat
    BY <1>2, <2>1
  <2>4. disabled' => enabling' > 0
    BY <1>1, <2>1 DEF ServerInv, PagesAnswered
  <2>5. PagesAnswered'
    BY <1>1, <2>3, <2>4, ServerFacts DEF PagesAnswered
  <2> QED
    BY <1>1, <2>2, <2>5 DEF ServerInv
<1> QED
  BY <1>3, <1>4 DEF ServerReceives

\* The device answers a read with one value.
LEMMA DeviceKeepsServer ==
    ASSUME ServerInv, DeviceReceives
    PROVE  ServerInv'
<1>1. /\ toDevice # <<>> /\ toDevice' = Tail(toDevice)
      /\ IF Head(toDevice) = Read
         THEN fromDevice' = Append(fromDevice, device) /\ device' = device
         ELSE device' = Head(toDevice) /\ fromDevice' = fromDevice
      /\ UNCHANGED <<disabled, enabling, readers>>
  BY DEF DeviceReceives, serverVars
<1>2. /\ Head(toDevice) \in Values \cup {Read}
      /\ toDevice' \in Seq(Values \cup {Read})
      /\ Cardinality(ReadsIn(toDevice'))
           = IF Head(toDevice) = Read THEN Cardinality(ReadsIn(toDevice)) - 1
             ELSE Cardinality(ReadsIn(toDevice))
  <2>1. Cardinality(ReadsIn(Tail(toDevice))) \in Nat
    BY <1>1, ServerFacts, HeadTailProperties, ReadsFinite
  <2> QED
    BY <1>1, <2>1, ServerFacts, HeadTailProperties, ReadsTaken
<1>3. CASE Head(toDevice) = Read
  <2>1. device \in Values
    BY DEF ServerInv, ServerTypes
  <2>2. fromDevice' \in Seq(Values) /\ Len(fromDevice') = Len(fromDevice) + 1
    <3>1. fromDevice' = Append(fromDevice, device)
      BY <1>1, <1>3
    <3>2. fromDevice \in Seq(Values)
      BY ServerFacts
    <3> QED
      BY <2>1, <3>1, <3>2, AppendProperties
  <2>3. ServerTypes'
    BY <1>1, <1>2, <1>3, <2>2 DEF ServerInv, ServerTypes
  <2>4. PagesAnswered'
    BY <1>1, <1>2, <1>3, <2>2, ServerFacts DEF ServerInv, PagesAnswered
  <2> QED
    BY <1>1, <2>3, <2>4 DEF ServerInv
<1>4. CASE Head(toDevice) # Read
  <2>1. ServerTypes'
    BY <1>1, <1>2, <1>4 DEF ServerInv, ServerTypes
  <2>2. PagesAnswered'
    BY <1>1, <1>2, <1>4 DEF ServerInv, PagesAnswered
  <2> QED
    BY <1>1, <2>1, <2>2 DEF ServerInv
<1> QED
  BY <1>3, <1>4

LEMMA PanelKeepsServer ==
    ASSUME ServerInv, NEW v \in Values, PanelEdit(v)
    PROVE  ServerInv'
<1>1. /\ device' = v /\ fromDevice' = Append(fromDevice, v)
      /\ UNCHANGED <<disabled, enabling, readers, toDevice>>
  BY DEF PanelEdit, serverVars
<1>2. fromDevice' \in Seq(Values) /\ Len(fromDevice') = Len(fromDevice) + 1
  BY <1>1, ServerFacts, AppendProperties
<1>3. ServerTypes'
  BY <1>1, <1>2 DEF ServerInv, ServerTypes
<1>4. PagesAnswered'
  BY <1>1, <1>2, ServerFacts DEF ServerInv, PagesAnswered
<1> QED
  BY <1>1, <1>3, <1>4 DEF ServerInv

LEMMA EnablingKeepsServer ==
    ASSUME ServerInv, EnableAutomation
    PROVE  ServerInv'
<1>1. /\ enabling > 0 /\ enabling' = enabling - 1 /\ disabled' = FALSE
      /\ UNCHANGED <<readers, toDevice, fromDevice, device>>
  BY DEF EnableAutomation, deviceVars
<1>2. enabling' \in Nat
  BY <1>1 DEF ServerInv, ServerTypes
<1> QED
  BY <1>1, <1>2 DEF ServerInv, ServerTypes, PagesAnswered

LEMMA ServerStep == ServerInv /\ WindowInv /\ [Next]_vars => ServerInv'
<1> SUFFICES ASSUME ServerInv, WindowInv, [Next]_vars
             PROVE  ServerInv'
  OBVIOUS
<1>1. CASE UNCHANGED <<disabled, enabling, readers, toDevice, fromDevice, device>>
  BY <1>1 DEF ServerInv, ServerTypes, PagesAnswered
<1>2. ASSUME NEW w \in Windows, ServerSets(w) \/ Load(w)
      PROVE  ServerInv'
  BY <1>2, SettingKeepsServer, AskingKeepsServer, ZeroKeepsServer
<1>3. ASSUME NEW w \in Windows,
             TimerFires(w) \/ ScriptRuns(w) \/ Connect(w) \/ Register(w) \/ Close(w)
      PROVE  UNCHANGED <<disabled, enabling, readers, toDevice, fromDevice, device>>
  BY <1>3 DEF TimerFires, ScriptRuns, Connect, Register, Close, serverVars, deviceVars
<1>4. ASSUME NEW w \in Windows, NEW v \in Values, Edit(w, v)
      PROVE  UNCHANGED <<disabled, enabling, readers, toDevice, fromDevice, device>>
  BY <1>4 DEF Edit, serverVars, deviceVars
<1>5. CASE ServerReceives \/ EnableAutomation \/ DeviceReceives
  BY <1>5, ReceivingKeepsServer, EnablingKeepsServer, DeviceKeepsServer
<1>6. ASSUME NEW v \in Values, PanelEdit(v)
      PROVE  ServerInv'
  BY <1>6, PanelKeepsServer
<1>7. CASE Hears \/ UNCHANGED vars
  BY <1>1, <1>7 DEF Hears, vars, serverVars, deviceVars
<1> QED
  BY <1>1, <1>2, <1>3, <1>4, <1>5, <1>6, <1>7 DEF Next, Progress

-----------------------------------------------------------------------------
(* The theorems *)

\* main.js and mpxedit.js: the invariant of the windows and of the server.
THEOREM AutomationInvariance == Spec => [](WindowInv /\ ServerInv)
<1> QED
  BY AutomationInit, WindowStep, ServerStep, PTL DEF Spec

\* mpxedit.js lines 252-255 and 268-271 (noMessage): a window where the user
\* changes nothing sends nothing, however often it is shown other values.
THEOREM NothingSentBack == Spec => []NoEcho
<1>1. WindowInv => NoEcho
  BY DEF WindowInv
<1> QED
  BY <1>1, AutomationInvariance, PTL

\* main.js lines 908-918: a window never waits for a page that nothing will
\* complete, and a page that disabled automation enables it again.
THEOREM EveryPageAnswered == Spec => []PagesAnswered
<1>1. ServerInv => PagesAnswered
  BY DEF ServerInv
<1> QED
  BY <1>1, AutomationInvariance, PTL
=============================================================================
