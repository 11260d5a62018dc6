------------------------ MODULE SysexRequestsProofs -------------------------
(***************************************************************************)
(* Proofs about SysexRequests for every set of requests, every assignment  *)
(* of types, addresses and follow-ups to them, and every number of retries *)
(* and of lost or unsolicited messages.                                    *)
(***************************************************************************)
EXTENDS SysexRequests, FiniteSetTheorems, SequenceTheorems, TLAPS

-----------------------------------------------------------------------------
(* The list of hooks: what splice and push do to any sequence *)

\* What splice(i,1) leaves of the list of hooks.
LEMMA RemoveAtProperties ==
    ASSUME NEW S, NEW s \in Seq(S), NEW i \in 1..Len(s)
    PROVE  /\ RemoveAt(s, i) \in Seq(S)
           /\ Len(RemoveAt(s, i)) = Len(s) - 1
           /\ \A j \in 1..(Len(s) - 1) :
                 RemoveAt(s, i)[j] = IF j < i THEN s[j] ELSE s[j + 1]
<1>0. i \in Nat /\ Len(s) \in Nat /\ i <= Len(s) /\ i > 0
  OBVIOUS
<1> DEFINE u == SubSeq(s, 1, i - 1)
           v == SubSeq(s, i + 1, Len(s))
           w == u \o v
<1>1. /\ u \in Seq(S)
      /\ Len(u) = i - 1
      /\ \A j \in 1..(i - 1) : u[j] = s[j]
  OBVIOUS
<1>2. /\ v \in Seq(S)
      /\ Len(v) = Len(s) - i
      /\ \A j \in 1..(Len(s) - i) : v[j] = s[j + i]
  OBVIOUS
<1>3. RemoveAt(s, i) = w
  BY DEF RemoveAt
<1> HIDE DEF u, v
<1>4. /\ w \in Seq(S)
      /\ Len(w) = Len(u) + Len(v)
      /\ \A j \in 1..(Len(u) + Len(v)) :
            w[j] = IF j <= Len(u) THEN u[j] ELSE v[j - Len(u)]
  BY <1>1, <1>2, ConcatProperties
<1> HIDE DEF w
<1>5. ASSUME NEW j \in 1..(Len(s) - 1)
      PROVE  w[j] = IF j < i THEN s[j] ELSE s[j + 1]
  <2>0. j \in Nat /\ 1 <= j /\ j <= Len(s) - 1
    BY <1>0
  <2>1. CASE j < i
    <3>1. j \in 1..(Len(u) + Len(v)) /\ j <= Len(u)
      BY <2>0, <2>1, <1>0, <1>1, <1>2
    <3>2. w[j] = u[j] /\ j \in 1..(i - 1)
      BY <3>1, <2>0, <2>1, <1>0, <1>4
    <3> QED
      BY <3>2, <2>1, <1>1
  <2>2. CASE ~(j < i)
    <3> DEFINE k == j - (i - 1)
    <3>1. k \in 1..(Len(s) - i) /\ k + i = j + 1 /\ k = j - Len(u)
      BY <2>0, <2>2, <1>0, <1>1
    <3>2. w[j] = v[k]
      <4>1. j \in 1..(Len(u) + Len(v)) /\ ~(j <= Len(u))
        BY <2>0, <2>2, <1>0, <1>1, <1>2
      <4>2. w[j] = v[j - Len(u)]
        BY <4>1, <1>4
      <4> QED
        BY <4>2, <3>1
    <3>3. v[k] = s[j + 1]
      BY <3>1, <1>2
    <3> QED
      BY <3>2, <3>3, <2>2
  <2> QED
    BY <2>1, <2>2
<1> QED
  BY <1>0, <1>1, <1>2, <1>3, <1>4, <1>5

\* Dropping one entry keeps every other element of the list.
LEMMA RemoveAtKeepsOthers ==
    ASSUME NEW S, NEW s \in Seq(S), NEW i \in 1..Len(s)
    PROVE  /\ ToSet(RemoveAt(s, i)) \subseteq ToSet(s)
           /\ \A x \in ToSet(s) : x # s[i] => x \in ToSet(RemoveAt(s, i))
<1> DEFINE t == RemoveAt(s, i)
<1>1. /\ t \in Seq(S)
      /\ Len(t) = Len(s) - 1
      /\ \A j \in 1..(Len(s) - 1) : t[j] = IF j < i THEN s[j] ELSE s[j + 1]
  BY RemoveAtProperties
<1>0. i \in Nat /\ Len(s) \in Nat /\ i <= Len(s) /\ i > 0
  OBVIOUS
<1> HIDE DEF t
<1>2. ToSet(t) \subseteq ToSet(s)
  <2> SUFFICES ASSUME NEW j \in 1..Len(t)
               PROVE  t[j] \in ToSet(s)
    BY <1>1 DEF ToSet
  <2>0. j \in Nat /\ 1 <= j /\ j <= Len(s) - 1
    BY <1>0, <1>1
  <2>1. j < i => t[j] = s[j] /\ j \in 1..Len(s)
    BY <1>1, <1>0, <2>0
  <2>2. j >= i => t[j] = s[j + 1] /\ j + 1 \in 1..Len(s)
    BY <1>1, <1>0, <2>0
  <2>3. t[j] \in { s[n] : n \in 1..Len(s) }
    BY <1>0, <2>0, <2>1, <2>2
  <2> QED
    BY <2>3 DEF ToSet
<1>3. ASSUME NEW x \in ToSet(s), x # s[i]
      PROVE  x \in ToSet(t)
  <2>1. PICK j \in 1..Len(s) : x = s[j]
    BY DEF ToSet
  <2>2. CASE j < i
    <3>1. j \in 1..Len(t) /\ t[j] = s[j]
      BY <1>0, <1>1, <2>2
    <3> QED
      BY <3>1, <2>1, <1>1 DEF ToSet
  <2>3. CASE j > i
    <3>1. j - 1 \in 1..Len(t) /\ t[j - 1] = s[j]
      BY <1>0, <1>1, <2>3
    <3> QED
      BY <3>1, <2>1, <1>1 DEF ToSet
  <2> QED
    BY <1>0, <1>3, <2>1, <2>2, <2>3
<1> QED
  BY <1>2, <1>3 DEF t

\* Pushing an entry at the end adds that one element.
LEMMA AppendAddsOne ==
    ASSUME NEW S, NEW s \in Seq(S), NEW x \in S
    PROVE  ToSet(Append(s, x)) = ToSet(s) \cup {x}
<1> DEFINE t == Append(s, x)
<1>1. /\ t \in Seq(S)
      /\ Len(t) = Len(s) + 1
      /\ \A j \in 1..Len(s) : t[j] = s[j]
      /\ t[Len(s) + 1] = x
      /\ Len(s) \in Nat
  OBVIOUS
<1> HIDE DEF t
<1>2. \A j \in 1..Len(t) : t[j] \in ToSet(s) \cup {x}
  BY <1>1 DEF ToSet
<1>3. \A y \in ToSet(s) : y \in ToSet(t)
  BY <1>1 DEF ToSet
<1>4. x \in ToSet(t)
  BY <1>1 DEF ToSet
<1> QED
  BY <1>1, <1>2, <1>3, <1>4 DEF ToSet, t

-----------------------------------------------------------------------------
(* The inductive invariant holds at first *)

LEMMA InitEstablishes == Init => IndInv
<1> SUFFICES ASSUME Init
             PROVE  IndInv
  OBVIOUS
<1> USE RequestsAssumption, BoundsAssumption DEF Init
<1>1. Answered = {} /\ Pending = {}
  BY DEF Answered, Pending
<1>2. TypeOK
  BY DEF TypeOK
<1>3. ToSet(hooks) = {}
  BY DEF ToSet
<1>4. AnsweredOnceByItsOwn
  BY DEF AnsweredOnceByItsOwn
<1>5. NoHookMissed
  BY DEF NoHookMissed
<1> QED
  BY <1>1, <1>2, <1>3, <1>4, <1>5 DEF IndInv, PendingIsHooked, RetriesGoOn

-----------------------------------------------------------------------------
(* Every step keeps it *)

\* While the loop is at a hook, dispatch holds a message and an index into
\* the list, and the hook is a request that has been made.
LEMMA AtHookFacts ==
    ASSUME IndInv, NEW r \in Requests, AtHook(r)
    PROVE  /\ dispatch \in [msg : Messages, pos : Nat \ {0}]
           /\ dispatch.msg \in Messages
           /\ dispatch.pos \in 1..Len(hooks)
           /\ hooks[dispatch.pos] = r
           /\ r \in issued
<1>1. dispatch \in [msg : Messages, pos : Nat \ {0}] /\ hooks \in Seq(Requests)
  BY DEF IndInv, TypeOK, AtHook
<1>2. dispatch.pos \in 1..Len(hooks) /\ hooks[dispatch.pos] = r
  BY <1>1 DEF AtHook
<1>3. r \in ToSet(hooks)
  BY <1>1, <1>2 DEF ToSet
<1> QED
  BY <1>1, <1>2, <1>3 DEF IndInv

\* Sending a request that is not answered: the first time, or again.
LEMMA SendKeeps ==
    ASSUME IndInv, NEW r \in Requests, dispatch = Idle, Send(r),
           r \notin Answered, issued' = issued \cup {r},
           \A q \in Requests : FollowUp[q] = r => q \in Answered,
           retry' \in [Requests -> 0..Retries],
           \A q \in Requests : q # r => retry'[q] = retry[q],
           UNCHANGED <<removed, answers, dispatch, received, automation,
                       fromDevice, device>>
    PROVE  IndInv'
<1> USE RequestsAssumption, BoundsAssumption
<1>1. Answered' = Answered /\ Pending' = Pending \cup {r}
  BY DEF Answered, Pending
<1>2. TypeOK'
  BY DEF IndInv, TypeOK, Send, device, Idle
<1>3. ToSet(hooks') = ToSet(hooks) \cup {r}
  BY AppendAddsOne DEF IndInv, TypeOK, Send
<1>4. AnsweredOnceByItsOwn'
  BY DEF IndInv, AnsweredOnceByItsOwn
<1>5. NoHookMissed'
  BY DEF NoHookMissed
<1>6. RetriesGoOn'
  <2> SUFFICES ASSUME NEW q \in Pending', RequestType[q] # DATA, q \notin armed'
               PROVE  retry'[q] = 0
    BY DEF RetriesGoOn
  <2>1. q # r /\ q \in Pending /\ q \notin armed /\ q \in Requests
    BY <1>1 DEF Send, IndInv, TypeOK, Pending
  <2>2. retry[q] = 0
    BY <2>1 DEF IndInv, RetriesGoOn
  <2> QED
    BY <2>1, <2>2
<1>7. (armed \subseteq Pending)'
  BY <1>1 DEF IndInv, Send
<1> QED
  BY <1>1, <1>2, <1>3, <1>4, <1>5, <1>6, <1>7 DEF IndInv, PendingIsHooked

LEMMA RequestKeeps ==
    ASSUME IndInv, NEW r \in Requests, Request(r)
    PROVE  IndInv'
<1> USE RequestsAssumption
<1>1. r \notin Answered
  BY DEF IndInv, Request
<1>2. \A q \in Requests : FollowUp[q] # r
  BY DEF Request, FollowUps
<1>3. retry \in [Requests -> 0..Retries]
  BY DEF IndInv, TypeOK
<1> QED
  BY <1>1, <1>2, <1>3, SendKeeps DEF Request

LEMMA TimeoutKeeps ==
    ASSUME IndInv, NEW r \in Requests, Timeout(r)
    PROVE  IndInv'
<1> USE RequestsAssumption, BoundsAssumption
<1>1. r \in Pending /\ r \in issued /\ r \notin Answered
  BY DEF IndInv, Timeout, Pending
<1>2. retry \in [Requests -> 0..Retries]
  BY DEF IndInv, TypeOK
<1>3. CASE MayRetry(r)
  <2>1. Send(r) /\ retry' = [retry EXCEPT ![r] = @ - 1]
    BY <1>3 DEF Timeout
  <2>2. /\ retry' \in [Requests -> 0..Retries]
        /\ \A q \in Requests : q # r => retry'[q] = retry[q]
    BY <2>1, <1>2, <1>3 DEF MayRetry
  <2>3. \A q \in Requests : FollowUp[q] = r => q \in Answered
    BY <1>1 DEF IndInv
  <2>4. issued' = issued \cup {r}
    BY <1>1 DEF Timeout
  <2> QED
    BY <1>1, <2>1, <2>2, <2>3, <2>4, SendKeeps DEF Timeout
<1>4. CASE ~MayRetry(r)
  <2>1. armed' = armed \ {r} /\ UNCHANGED <<hooks, retry, toDevice>>
    BY <1>4 DEF Timeout
  <2>2. retry[r] = 0
    BY <1>2, <1>4 DEF MayRetry
  <2>3. Answered' = Answered /\ Pending' = Pending /\ ToSet(hooks)' = ToSet(hooks)
    BY <2>1 DEF Answered, Pending, Timeout
  <2>4. TypeOK'
    BY <2>1 DEF IndInv, TypeOK, Timeout, device, Idle
  <2>5. AnsweredOnceByItsOwn' /\ NoHookMissed'
    BY <2>1 DEF IndInv, AnsweredOnceByItsOwn, NoHookMissed, Timeout
  <2>6. RetriesGoOn'
    BY <2>1, <2>2, <2>3 DEF IndInv, RetriesGoOn
  <2> QED
    BY <2>1, <2>3, <2>4, <2>5, <2>6
       DEF IndInv, PendingIsHooked, Timeout
<1> QED
  BY <1>3, <1>4

LEMMA ReceiveKeeps ==
    ASSUME IndInv, Receive
    PROVE  IndInv'
<1> USE RequestsAssumption, BoundsAssumption
<1>1. Head(fromDevice) \in Messages /\ Tail(fromDevice) \in Seq(Messages)
  BY DEF IndInv, TypeOK, Receive
<1>2. dispatch' \in [msg : Messages, pos : Nat \ {0}] /\ dispatch'.pos = 1
  BY <1>1 DEF Receive
<1>3. TypeOK'
  BY <1>1, <1>2 DEF IndInv, TypeOK, Receive, device
<1>4. Answered' = Answered /\ Pending' = Pending /\ ToSet(hooks)' = ToSet(hooks)
  BY DEF Answered, Pending, Receive
<1>5. NoHookMissed'
  <2>1. \A j \in 1..Len(hooks') : ~(j < dispatch'.pos)
    BY <1>2 DEF IndInv, TypeOK, Receive
  <2> QED
    BY <2>1 DEF NoHookMissed
<1>6. AnsweredOnceByItsOwn' /\ RetriesGoOn' /\ PendingIsHooked'
  BY <1>4 DEF IndInv, AnsweredOnceByItsOwn, RetriesGoOn, PendingIsHooked,
              Receive
<1> QED
  BY <1>3, <1>4, <1>5, <1>6 DEF IndInv, Receive

\* splice removes an entry of a request that is answered, and the entries
\* before the index are the ones before.
LEMMA SpliceKeeps ==
    ASSUME IndInv, NEW r \in Requests, Splice(r)
    PROVE  IndInv'
<1> USE RequestsAssumption, BoundsAssumption
<1>1. /\ dispatch \in [msg : Messages, pos : Nat \ {0}]
      /\ dispatch.pos \in 1..Len(hooks)
      /\ hooks[dispatch.pos] = r
      /\ hooks \in Seq(Requests)
  BY AtHookFacts DEF Splice, IndInv, TypeOK
<1>2. hooks' = RemoveAt(hooks, dispatch.pos) /\ dispatch' = dispatch
  BY DEF Splice, Spliced
<1>3. /\ hooks' \in Seq(Requests)
      /\ Len(hooks') = Len(hooks) - 1
      /\ \A j \in 1..(Len(hooks) - 1) :
            hooks'[j] = IF j < dispatch.pos THEN hooks[j] ELSE hooks[j + 1]
  <2>1. /\ RemoveAt(hooks, dispatch.pos) \in Seq(Requests)
        /\ Len(RemoveAt(hooks, dispatch.pos)) = Len(hooks) - 1
        /\ \A j \in 1..(Len(hooks) - 1) :
              RemoveAt(hooks, dispatch.pos)[j] =
                  IF j < dispatch.pos THEN hooks[j] ELSE hooks[j + 1]
    BY ONLY <1>1, RemoveAtProperties
  <2> QED
    BY ONLY <1>2, <2>1, Zenon
<1>4. /\ ToSet(hooks') \subseteq ToSet(hooks)
      /\ \A x \in ToSet(hooks) : x # r => x \in ToSet(hooks')
  BY <1>1, <1>2, RemoveAtKeepsOthers
<1>5. Answered' = Answered /\ Pending' = Pending /\ r \in Answered
  BY DEF Answered, Pending, Splice, IndInv
<1>6. TypeOK'
  BY <1>3 DEF IndInv, TypeOK, Splice, device, Idle
<1>7. PendingIsHooked'
  BY <1>4, <1>5 DEF IndInv, PendingIsHooked, Pending
<1>8. NoHookMissed'
  <2> SUFFICES ASSUME NEW j \in 1..Len(hooks'), j < dispatch.pos,
                      hooks'[j] \in Pending
               PROVE  ~(Matches(hooks'[j], dispatch.msg)
                          /\ Accepts(hooks'[j], dispatch.msg))
    BY <1>2, <1>5 DEF NoHookMissed, Matches, Accepts
  <2>1. j \in 1..Len(hooks) /\ hooks'[j] = hooks[j]
    BY <1>1, <1>3
  <2>2. dispatch # Idle
    BY DEF Splice, AtHook
  <2> QED
    BY <2>1, <2>2 DEF IndInv, NoHookMissed
<1>9. AnsweredOnceByItsOwn' /\ RetriesGoOn'
  BY <1>5 DEF IndInv, AnsweredOnceByItsOwn, RetriesGoOn, Splice
<1> QED
  BY <1>4, <1>5, <1>6, <1>7, <1>8, <1>9 DEF IndInv, Splice

\* Going on to the next hook from one that does not take the message.
LEMMA MoveOnKeeps ==
    ASSUME IndInv, NEW r \in Requests, AtHook(r),
           ~(Matches(r, dispatch.msg) /\ Accepts(r, dispatch.msg)),
           dispatch' = Advanced,
           \/ armed' = armed
           \/ armed' = armed \ {r} /\ RequestType[r] = DATA,
           UNCHANGED <<hooks, removed, retry, issued, answers, received,
                       automation, toDevice, fromDevice, device>>
    PROVE  IndInv'
<1> USE RequestsAssumption, BoundsAssumption
<1>1. /\ dispatch \in [msg : Messages, pos : Nat \ {0}]
      /\ dispatch.pos \in 1..Len(hooks)
      /\ hooks[dispatch.pos] = r
  BY AtHookFacts
<1>2. /\ dispatch' \in [msg : Messages, pos : Nat \ {0}]
      /\ dispatch'.msg = dispatch.msg
      /\ dispatch'.pos = dispatch.pos + 1
  BY <1>1 DEF Advanced
<1>3. TypeOK'
  BY <1>2 DEF IndInv, TypeOK, device
<1>4. Answered' = Answered /\ Pending' = Pending /\ ToSet(hooks)' = ToSet(hooks)
  BY DEF Answered, Pending
<1>5. NoHookMissed'
  <2> SUFFICES ASSUME NEW j \in 1..Len(hooks), j < dispatch.pos + 1,
                      hooks[j] \in Pending
               PROVE  ~(Matches(hooks[j], dispatch.msg)
                          /\ Accepts(hooks[j], dispatch.msg))
    BY <1>2, <1>4 DEF NoHookMissed, Matches, Accepts
  <2>1. CASE j = dispatch.pos
    BY <1>1, <2>1
  <2>2. CASE j < dispatch.pos
    BY <2>2 DEF IndInv, NoHookMissed, AtHook
  <2> QED
    BY <1>1, <2>1, <2>2
<1>6. AnsweredOnceByItsOwn' /\ PendingIsHooked'
  BY <1>4 DEF IndInv, AnsweredOnceByItsOwn, PendingIsHooked
<1>7. RetriesGoOn' /\ (armed \subseteq Pending)'
  BY <1>4 DEF IndInv, RetriesGoOn
<1> QED
  BY <1>3, <1>4, <1>5, <1>6, <1>7 DEF IndInv

LEMMA SkipKeeps ==
    ASSUME IndInv, NEW r \in Requests, Skip(r)
    PROVE  IndInv'
BY MoveOnKeeps DEF Skip

LEMMA PassOnKeeps ==
    ASSUME IndInv, NEW r \in Requests, PassOn(r)
    PROVE  IndInv'
<1>1. RequestType[r] = DATA /\ armed' = armed \ {r}
  BY DEF PassOn, Accepts, Cleared
<1> QED
  BY <1>1, MoveOnKeeps DEF PassOn

LEMMA UnhookedKeeps ==
    ASSUME IndInv, Unhooked
    PROVE  IndInv'
<1> USE RequestsAssumption, BoundsAssumption
<1>1. Answered' = Answered /\ Pending' = Pending /\ ToSet(hooks)' = ToSet(hooks)
  BY DEF Answered, Pending, Unhooked
<1>2. TypeOK'
  BY DEF IndInv, TypeOK, Unhooked, device
<1>3. NoHookMissed'
  BY DEF NoHookMissed, Unhooked
<1>4. AnsweredOnceByItsOwn' /\ RetriesGoOn' /\ PendingIsHooked'
  BY <1>1 DEF IndInv, AnsweredOnceByItsOwn, RetriesGoOn, PendingIsHooked,
              Unhooked
<1> QED
  BY <1>1, <1>2, <1>3, <1>4 DEF IndInv, Unhooked

\* The device and the link touch none of the program's variables.
LEMMA DeviceKeeps ==
    ASSUME IndInv, Device
    PROVE  IndInv'
<1> USE RequestsAssumption, BoundsAssumption
<1>1. UNCHANGED program
  BY DEF Device, DeviceAnswers, DeviceIsSilent, FrontPanel
<1>2. /\ toDevice' \in Seq(Requests)
      /\ fromDevice' \in Seq(Messages)
      /\ lost' \in 0..MaxDisturbances
      /\ unsolicited' \in 0..MaxDisturbances
  <2>1. CASE DeviceAnswers
    <3>1. Head(toDevice) \in Requests /\ Tail(toDevice) \in Seq(Requests)
      BY <2>1 DEF DeviceAnswers, IndInv, TypeOK
    <3>2. [type |-> RequestType[Head(toDevice)],
           levels |-> Levels[Head(toDevice)]] \in Messages
      BY <3>1 DEF Messages
    <3> QED
      BY <2>1, <3>1, <3>2 DEF DeviceAnswers, IndInv, TypeOK, device
  <2>2. CASE DeviceIsSilent
    BY <2>2 DEF DeviceIsSilent, IndInv, TypeOK
  <2>3. ASSUME NEW a \in Addresses, FrontPanel(a)
        PROVE  fromDevice' \in Seq(Messages) /\ unsolicited' \in 0..MaxDisturbances
    <3>1. [type |-> DATA, levels |-> a] \in Messages
      BY DEF Messages
    <3> QED
      BY <2>3, <3>1 DEF FrontPanel, IndInv, TypeOK
  <2>4. ASSUME NEW a \in Addresses, FrontPanel(a)
        PROVE  toDevice' = toDevice /\ lost' = lost
    BY <2>4 DEF FrontPanel
  <2> QED
    BY <2>1, <2>2, <2>3, <2>4 DEF Device, IndInv, TypeOK
<1>3. TypeOK'
  BY <1>1, <1>2 DEF IndInv, TypeOK, program
<1>4. Answered' = Answered /\ Pending' = Pending /\ ToSet(hooks)' = ToSet(hooks)
  BY <1>1 DEF Answered, Pending, program
<1>5. AnsweredOnceByItsOwn' /\ RetriesGoOn' /\ PendingIsHooked' /\ NoHookMissed'
  BY <1>1, <1>4 DEF IndInv, AnsweredOnceByItsOwn, RetriesGoOn,
                    PendingIsHooked, NoHookMissed, program, Matches, Accepts
<1> QED
  BY <1>1, <1>3, <1>4, <1>5 DEF IndInv, program

\* The request made by a callback, as a set: empty at the end of a chain.
Made(r) == {FollowUp[r]} \ {None}

\* What the callback of a request does to the list of hooks and the timers.
LEMMA CallbackFacts ==
    ASSUME IndInv, NEW r \in Requests, r \notin Answered, CallbackSends(r)
    PROVE  /\ Made(r) \subseteq Requests
           /\ Made(r) \cap (issued \cup {r}) = {}
           /\ issued' = issued \cup Made(r)
           /\ armed' = (armed \ {r}) \cup Made(r)
           /\ hooks' \in Seq(Requests)
           /\ ToSet(hooks') = ToSet(hooks) \cup Made(r)
           /\ Len(hooks') >= Len(hooks)
           /\ \A j \in 1..Len(hooks) : hooks'[j] = hooks[j]
           /\ toDevice' \in Seq(Requests)
<1> USE RequestsAssumption
<1>1. hooks \in Seq(Requests) /\ toDevice \in Seq(Requests)
  BY DEF IndInv, TypeOK
<1>2. CASE FollowUp[r] = None
  <2>1. Made(r) = {}
    BY <1>2 DEF Made
  <2>2. armed' = armed \ {r} /\ UNCHANGED <<hooks, issued, toDevice>>
    BY <1>2 DEF CallbackSends, Cleared
  <2> QED
    BY <1>1, <2>1, <2>2
<1>3. CASE FollowUp[r] # None
  <2>1. Made(r) = {FollowUp[r]} /\ FollowUp[r] \in Requests /\ FollowUp[r] # r
    BY <1>3 DEF Made
  <2>2. FollowUp[r] \notin issued
    BY DEF IndInv
  <2>3. /\ armed' = (armed \ {r}) \cup {FollowUp[r]}
        /\ issued' = issued \cup {FollowUp[r]}
        /\ hooks' = Append(hooks, FollowUp[r])
        /\ toDevice' = Append(toDevice, FollowUp[r])
    BY <1>3 DEF CallbackSends, Cleared
  <2>4. ToSet(hooks') = ToSet(hooks) \cup {FollowUp[r]}
    BY <1>1, <2>1, <2>3, AppendAddsOne
  <2>5. /\ hooks' \in Seq(Requests)
        /\ Len(hooks') >= Len(hooks)
        /\ \A j \in 1..Len(hooks) : hooks'[j] = hooks[j]
        /\ toDevice' \in Seq(Requests)
    BY <1>1, <2>1, <2>3
  <2> QED
    BY <2>1, <2>2, <2>3, <2>4, <2>5
<1> QED
  BY <1>2, <1>3

\* The answer to r: r leaves the pending requests, its follow-up joins them.
LEMMA AnswerKeeps ==
    ASSUME IndInv, NEW r \in Requests, Answer(r)
    PROVE  IndInv'
<1> USE RequestsAssumption, BoundsAssumption
<1>1. /\ dispatch \in [msg : Messages, pos : Nat \ {0}]
      /\ dispatch.msg.levels \in Addresses
      /\ dispatch.pos \in 1..Len(hooks)
      /\ hooks[dispatch.pos] = r
      /\ r \in issued
  BY AtHookFacts DEF Answer, Messages
<1>2. r \notin Answered /\ answers[r] = <<>> /\ r \in Pending
  BY <1>1 DEF IndInv, Answer, Answered, Pending
<1>3. /\ Made(r) \subseteq Requests
      /\ Made(r) \cap (issued \cup {r}) = {}
      /\ issued' = issued \cup Made(r)
      /\ armed' = (armed \ {r}) \cup Made(r)
      /\ hooks' \in Seq(Requests)
      /\ ToSet(hooks') = ToSet(hooks) \cup Made(r)
      /\ Len(hooks') >= Len(hooks)
      /\ \A j \in 1..Len(hooks) : hooks'[j] = hooks[j]
      /\ toDevice' \in Seq(Requests)
  BY <1>2, CallbackFacts DEF Answer
<1>4. answers \in [Requests -> Seq(Addresses)]
  BY DEF IndInv, TypeOK
<1>5. /\ answers'[r] = <<dispatch.msg.levels>>
      /\ \A q \in Requests : q # r => answers'[q] = answers[q]
      /\ answers' \in [Requests -> Seq(Addresses)]
  BY <1>1, <1>2, <1>4 DEF Answer
<1>6. Answered' = Answered \cup {r}
  <2>1. <<dispatch.msg.levels>> # <<>>
    OBVIOUS
  <2>2. answers'[r] # <<>>
    BY <2>1, <1>5
  <2>3. \A q \in Requests : q # r => (answers'[q] # <<>> <=> answers[q] # <<>>)
    BY <1>5
  <2> QED
    BY <2>2, <2>3 DEF Answered
<1>7. Pending' = (Pending \ {r}) \cup Made(r)
  BY <1>2, <1>3, <1>6 DEF Pending, IndInv
<1>8. TypeOK'
  <2>1. removed' \in SUBSET Requests
    BY DEF Answer, Flagged, IndInv, TypeOK
  <2>2. dispatch' = Idle \/ dispatch' \in [msg : Messages, pos : Nat \ {0}]
    BY <1>1 DEF Answer, Advanced
  <2>3. issued' \in SUBSET Requests /\ armed' \in SUBSET Requests
    BY <1>3 DEF IndInv, TypeOK
  <2> QED
    BY <1>3, <1>5, <2>1, <2>2, <2>3
       DEF IndInv, TypeOK, Answer, device, Idle
<1>9. AnsweredOnceByItsOwn'
  <2> SUFFICES ASSUME NEW q \in Requests
               PROVE  /\ Len(answers'[q]) <= 1
                      /\ RequestType[q] = DATA =>
                           \A n \in DOMAIN answers'[q] :
                               answers'[q][n] = Levels[q]
    BY DEF AnsweredOnceByItsOwn
  <2>1. CASE q = r
    <3>1. RequestType[r] = DATA => dispatch.msg.levels = Levels[r]
      BY DEF Answer, Accepts
    <3> QED
      BY <2>1, <3>1, <1>5
  <2>2. CASE q # r
    BY <2>2, <1>5 DEF IndInv, AnsweredOnceByItsOwn
  <2> QED
    BY <2>1, <2>2
<1>10. NoHookMissed'
  <2>1. CASE r \in StopsAt
    BY <2>1 DEF Answer, NoHookMissed
  <2>2. CASE r \notin StopsAt
    <3>1. dispatch'.msg = dispatch.msg /\ dispatch'.pos = dispatch.pos + 1
      BY <2>2, <1>1 DEF Answer, Advanced
    <3> SUFFICES ASSUME NEW j \in 1..Len(hooks'), j < dispatch.pos + 1,
                        hooks'[j] \in Pending'
                 PROVE  ~(Matches(hooks'[j], dispatch.msg)
                            /\ Accepts(hooks'[j], dispatch.msg))
      BY <3>1 DEF NoHookMissed, Matches, Accepts
    <3>2. j \in 1..Len(hooks) /\ hooks'[j] = hooks[j]
      BY <1>1, <1>3
    <3>3. hooks[j] \in ToSet(hooks)
      BY <3>2, SMTT(30) DEF ToSet, IndInv, TypeOK
    <3>4. hooks[j] \in issued
      BY <3>3 DEF IndInv
    <3>5. hooks[j] \in Pending /\ hooks[j] # r
      BY <3>2, <3>4, <1>3, <1>7
    <3>6. j < dispatch.pos
      BY <3>5, <1>1, <3>2
    <3> QED
      BY <3>2, <3>5, <3>6 DEF IndInv, NoHookMissed, Answer, AtHook
  <2> QED
    BY <2>1, <2>2
<1>11. RetriesGoOn'
  <2> SUFFICES ASSUME NEW q \in Pending', RequestType[q] # DATA, q \notin armed'
               PROVE  retry'[q] = 0
    BY DEF RetriesGoOn
  <2>1. q \in Pending /\ q \notin armed
    BY <1>3, <1>7
  <2> QED
    BY <2>1 DEF IndInv, RetriesGoOn, Answer
<1>12. PendingIsHooked'
  BY <1>3, <1>7 DEF IndInv, PendingIsHooked
<1>13. (\A q \in Requests : FollowUp[q] \in issued => q \in Answered)'
  <2> SUFFICES ASSUME NEW q \in Requests, FollowUp[q] \in issued'
               PROVE  q \in Answered'
    OBVIOUS
  <2>1. CASE FollowUp[q] \in issued
    BY <2>1, <1>6 DEF IndInv
  <2>2. CASE FollowUp[q] \in Made(r)
    BY <2>2, <1>6 DEF Made
  <2> QED
    BY <2>1, <2>2, <1>3
<1>14. /\ removed' = Answered'
       /\ Answered' \subseteq issued'
       /\ armed' \subseteq Pending'
       /\ ToSet(hooks') \subseteq issued'
  BY <1>1, <1>3, <1>6, <1>7 DEF Answer, Flagged, IndInv
<1> QED
  BY <1>8, <1>9, <1>10, <1>11, <1>12, <1>13, <1>14 DEF IndInv

LEMMA StepKeeps == IndInv /\ [Next]_vars => IndInv'
<1> SUFFICES ASSUME IndInv, [Next]_vars
             PROVE  IndInv'
  OBVIOUS
<1>1. ASSUME NEW r \in Requests, Request(r) \/ Timeout(r)
      PROVE  IndInv'
  BY <1>1, RequestKeeps, TimeoutKeeps
<1>2. CASE Receive
  BY <1>2, ReceiveKeeps
<1>3. ASSUME NEW r \in Requests, Iterate(r)
      PROVE  IndInv'
  BY <1>3, SpliceKeeps, SkipKeeps, PassOnKeeps, AnswerKeeps DEF Iterate
<1>4. CASE Unhooked
  BY <1>4, UnhookedKeeps
<1>5. CASE Device
  BY <1>5, DeviceKeeps
<1>6. CASE UNCHANGED vars
  <2>1. UNCHANGED program /\ UNCHANGED <<toDevice, fromDevice, device>>
    BY <1>6 DEF vars
  <2>2. Answered' = Answered /\ Pending' = Pending /\ ToSet(hooks)' = ToSet(hooks)
    BY <2>1 DEF Answered, Pending, program
  <2>3. TypeOK'
    BY <2>1 DEF IndInv, TypeOK, program, device
  <2>4. AnsweredOnceByItsOwn' /\ RetriesGoOn' /\ PendingIsHooked'
        /\ NoHookMissed'
    BY <2>1, <2>2 DEF IndInv, AnsweredOnceByItsOwn, RetriesGoOn,
                      PendingIsHooked, NoHookMissed, program, Matches, Accepts
  <2> QED
    BY <2>1, <2>2, <2>3, <2>4 DEF IndInv, program
<1> QED
  BY <1>1, <1>2, <1>3, <1>4, <1>5, <1>6 DEF Next, Dispatching

-----------------------------------------------------------------------------
(* What becomes of the DATA messages *)

\* The DATA requests whose callback has stopped a message.
DataStops == { r \in Answered \cap StopsAt : RequestType[r] = DATA }

\* 1 for a DATA message in the loop, which is still to be counted.
InLoop == IF dispatch # Idle /\ IsDATA(dispatch.msg) THEN 1 ELSE 0

\* The balance needs to know that no answer is of the type of the requests,
\* which any hook would take, and that finitely many callbacks have run.
DataInv ==
    /\ \A n \in 1..Len(fromDevice) : fromDevice[n].type # REQUEST
    /\ dispatch # Idle => dispatch.msg.type # REQUEST
    /\ IsFiniteSet(DataStops)
    /\ received = automation + Cardinality(DataStops) + InLoop

LEMMA DataInit == Init => DataInv
<1> SUFFICES ASSUME Init
             PROVE  DataInv
  OBVIOUS
<1>1. DataStops = {}
  BY DEF Init, DataStops, Answered
<1>2. InLoop = 0
  BY DEF Init, InLoop
<1>3. IsFiniteSet(DataStops) /\ Cardinality(DataStops) = 0
  BY <1>1, FS_EmptySet
<1> QED
  BY <1>2, <1>3 DEF Init, DataInv

\* A step of the loop that neither answers nor ends it, and every step
\* outside of it but Receive.
LEMMA DataUntouched ==
    ASSUME IndInv, DataInv, UNCHANGED <<answers, received, automation>>,
           \/ dispatch' = dispatch
           \/ dispatch # Idle /\ dispatch' = Advanced,
           \A n \in 1..Len(fromDevice') : fromDevice'[n].type # REQUEST
    PROVE  DataInv'
<1>1. DataStops' = DataStops
  BY DEF DataStops, Answered
<1>2. /\ dispatch # Idle <=> dispatch' # Idle
      /\ dispatch # Idle => dispatch'.msg = dispatch.msg
  <2>1. CASE dispatch' = dispatch
    BY <2>1
  <2>2. CASE dispatch # Idle /\ dispatch' = Advanced
    <3>1. dispatch \in [msg : Messages, pos : Nat \ {0}]
      BY <2>2 DEF IndInv, TypeOK
    <3>2. dispatch'.msg = dispatch.msg /\ dispatch'.pos = dispatch.pos + 1
      BY <2>2, <3>1 DEF Advanced
    <3>3. dispatch'.pos # 0
      BY <3>1, <3>2
    <3> QED
      BY <2>2, <3>2, <3>3 DEF Idle
  <2> QED
    BY <2>1, <2>2
<1>3. InLoop' = InLoop
  BY <1>2 DEF InLoop, IsDATA
<1> QED
  BY <1>1, <1>2, <1>3 DEF DataInv

\* A message enters the loop: it is counted in received and in InLoop.
LEMMA ReceiveBalances ==
    ASSUME IndInv, DataInv, Receive
    PROVE  DataInv'
<1> DEFINE m == Head(fromDevice)
<1>1. /\ fromDevice \in Seq(Messages) /\ fromDevice # <<>>
      /\ dispatch = Idle /\ dispatch' = [msg |-> m, pos |-> 1]
      /\ fromDevice' = Tail(fromDevice)
      /\ received' = received + IF IsDATA(m) THEN 1 ELSE 0
      /\ UNCHANGED <<answers, automation>>
  BY DEF Receive, IndInv, TypeOK
<1>2. m = fromDevice[1] /\ 1 \in 1..Len(fromDevice)
  BY <1>1
<1>3. /\ Len(fromDevice') = Len(fromDevice) - 1
      /\ \A n \in 1..Len(fromDevice') :
            fromDevice'[n] = fromDevice[n + 1] /\ n + 1 \in 1..Len(fromDevice)
  BY <1>1
<1>4. DataStops' = DataStops
  BY <1>1 DEF DataStops, Answered
<1>5. dispatch'.msg = m /\ dispatch' # Idle
  <2>1. dispatch'.pos = 1 /\ Idle.pos = 0
    BY <1>1 DEF Idle
  <2> QED
    BY <1>1, <2>1
<1> HIDE DEF m
<1>6. InLoop = 0 /\ InLoop' = IF IsDATA(m) THEN 1 ELSE 0
  BY <1>1, <1>5 DEF InLoop, IsDATA
<1>7. Cardinality(DataStops) \in Nat
  BY FS_CardinalityType DEF DataInv
<1>8. received' = automation' + Cardinality(DataStops') + InLoop'
  BY <1>1, <1>4, <1>6, <1>7 DEF DataInv, IndInv, TypeOK
<1> QED
  BY <1>2, <1>3, <1>4, <1>5, <1>8 DEF DataInv

\* Nobody has stopped it: dataMessage_process gets it.
LEMMA UnhookedBalances ==
    ASSUME IndInv, DataInv, Unhooked
    PROVE  DataInv'
<1>1. /\ dispatch # Idle /\ dispatch' = Idle
      /\ automation' = automation + IF IsDATA(dispatch.msg) THEN 1 ELSE 0
      /\ UNCHANGED <<answers, received, fromDevice>>
  BY DEF Unhooked
<1>2. DataStops' = DataStops
  BY <1>1 DEF DataStops, Answered
<1>3. /\ InLoop = IF IsDATA(dispatch.msg) THEN 1 ELSE 0
      /\ InLoop' = 0
  BY <1>1 DEF InLoop
<1>4. Cardinality(DataStops) \in Nat /\ automation \in Nat
  BY FS_CardinalityType DEF DataInv, IndInv, TypeOK
<1>5. received' = automation' + Cardinality(DataStops') + InLoop'
  BY <1>1, <1>2, <1>3, <1>4 DEF DataInv
<1> QED
  BY <1>1, <1>2, <1>5 DEF DataInv

\* A callback that stops a message has waited for one of its type.
LEMMA AnswerBalances ==
    ASSUME IndInv, DataInv, NEW r \in Requests, Answer(r)
    PROVE  DataInv'
<1> USE RequestsAssumption
<1>1. /\ dispatch \in [msg : Messages, pos : Nat \ {0}] /\ dispatch # Idle
      /\ r \notin Answered
  BY AtHookFacts DEF Answer, AtHook, IndInv
<1>2. Answered' = Answered \cup {r}
  <2>1. answers \in [Requests -> Seq(Addresses)]
    BY DEF IndInv, TypeOK
  <2>2. /\ answers'[r] = Append(answers[r], dispatch.msg.levels)
        /\ \A q \in Requests : q # r => answers'[q] = answers[q]
    BY <2>1 DEF Answer
  <2>3. answers[r] \in Seq(Addresses)
    BY <2>1
  <2>4. answers'[r] # <<>>
    BY <2>2, <2>3, AppendProperties, <1>1 DEF Answered
  <2> QED
    BY <2>2, <2>4 DEF Answered
<1>3. IsDATA(dispatch.msg) <=> RequestType[r] = DATA
  <2>1. dispatch.msg.type # REQUEST
    BY <1>1 DEF DataInv
  <2> QED
    BY <2>1 DEF Answer, Matches, IsDATA
<1>4. UNCHANGED <<received, automation, fromDevice>>
  BY DEF Answer
<1>5. IsFiniteSet(DataStops) /\ Cardinality(DataStops) \in Nat
  BY FS_CardinalityType DEF DataInv
<1>6. CASE r \in StopsAt /\ RequestType[r] = DATA
  <2>1. DataStops' = DataStops \cup {r} /\ r \notin DataStops
    BY <1>1, <1>2, <1>6 DEF DataStops
  <2>2. IsFiniteSet(DataStops')
        /\ Cardinality(DataStops') = Cardinality(DataStops) + 1
    BY <2>1, <1>5, FS_AddElement
  <2>3. dispatch' = Idle
    BY <1>6 DEF Answer
  <2>4. InLoop = 1 /\ InLoop' = 0
    BY <1>1, <1>3, <1>6, <2>3 DEF InLoop
  <2>5. automation \in Nat
    BY DEF IndInv, TypeOK
  <2>6. received' = automation' + Cardinality(DataStops') + InLoop'
    BY <1>4, <1>5, <2>2, <2>4, <2>5 DEF DataInv
  <2> QED
    BY <1>4, <2>2, <2>3, <2>6 DEF DataInv
<1>7. CASE ~(r \in StopsAt /\ RequestType[r] = DATA)
  <2>1. DataStops' = DataStops
    BY <1>2, <1>7 DEF DataStops
  <2>2. CASE r \in StopsAt
    <3>1. dispatch' = Idle
      BY <2>2 DEF Answer
    <3>2. InLoop = 0 /\ InLoop' = 0
      BY <1>3, <1>7, <2>2, <3>1 DEF InLoop
    <3> QED
      BY <1>4, <2>1, <3>1, <3>2 DEF DataInv
  <2>3. CASE r \notin StopsAt
    <3>1. dispatch' = Advanced
      BY <2>3 DEF Answer
    <3>2. /\ dispatch'.msg = dispatch.msg
          /\ dispatch'.pos = dispatch.pos + 1
      BY <1>1, <3>1 DEF Advanced
    <3>3. dispatch' # Idle
      BY <1>1, <3>2 DEF Idle
    <3>4. InLoop' = InLoop
      BY <1>1, <3>2, <3>3 DEF InLoop, IsDATA
    <3> QED
      BY <1>1, <1>4, <2>1, <3>2, <3>3, <3>4 DEF DataInv
  <2> QED
    BY <2>2, <2>3
<1> QED
  BY <1>6, <1>7

\* The device answers a request by a message of the type it waits for, and
\* reports its front panel by DATA.
LEMMA DeviceBalances ==
    ASSUME IndInv, DataInv, Device
    PROVE  DataInv'
<1> USE RequestsAssumption
<1>1. UNCHANGED program /\ fromDevice \in Seq(Messages)
  BY DEF Device, DeviceAnswers, DeviceIsSilent, FrontPanel, IndInv, TypeOK
<1>2. \A n \in 1..Len(fromDevice') : fromDevice'[n].type # REQUEST
  <2>1. ASSUME NEW m \in Messages, m.type # REQUEST,
               fromDevice' = Append(fromDevice, m)
        PROVE  \A n \in 1..Len(fromDevice') : fromDevice'[n].type # REQUEST
    BY <1>1, <2>1 DEF DataInv
  <2>2. CASE DeviceAnswers
    <3>1. Head(toDevice) \in Requests
      BY <2>2 DEF DeviceAnswers, IndInv, TypeOK
    <3> DEFINE m == [type |-> RequestType[Head(toDevice)],
                     levels |-> Levels[Head(toDevice)]]
    <3>2. m \in Messages /\ m.type # REQUEST /\ fromDevice' = Append(fromDevice, m)
      BY <2>2, <3>1 DEF DeviceAnswers, Messages
    <3> QED
      BY <2>1, <3>2
  <2>3. CASE DeviceIsSilent
    BY <2>3 DEF DeviceIsSilent, DataInv
  <2>4. ASSUME NEW a \in Addresses, FrontPanel(a)
        PROVE  \A n \in 1..Len(fromDevice') : fromDevice'[n].type # REQUEST
    <3> DEFINE m == [type |-> DATA, levels |-> a]
    <3>1. m \in Messages /\ m.type # REQUEST /\ fromDevice' = Append(fromDevice, m)
      BY <2>4 DEF FrontPanel, Messages
    <3> QED
      BY <2>1, <3>1
  <2> QED
    BY <2>2, <2>3, <2>4 DEF Device
<1> QED
  BY <1>1, <1>2, DataUntouched DEF program

LEMMA StepBalances == IndInv /\ DataInv /\ [Next]_vars => DataInv'
<1> SUFFICES ASSUME IndInv, DataInv, [Next]_vars
             PROVE  DataInv'
  OBVIOUS
<1>1. ASSUME NEW r \in Requests,
             Request(r) \/ Timeout(r) \/ Splice(r) \/ Skip(r) \/ PassOn(r)
      PROVE  DataInv'
  <2>1. /\ UNCHANGED <<answers, received, automation, fromDevice>>
        /\ \/ dispatch' = dispatch
           \/ dispatch # Idle /\ dispatch' = Advanced
    BY <1>1 DEF Request, Timeout, Splice, Skip, PassOn, AtHook
  <2> QED
    BY <2>1, DataUntouched DEF DataInv
<1>2. ASSUME NEW r \in Requests, Answer(r)
      PROVE  DataInv'
  BY <1>2, AnswerBalances
<1>3. CASE Receive
  BY <1>3, ReceiveBalances
<1>4. CASE Unhooked
  BY <1>4, UnhookedBalances
<1>5. CASE Device
  BY <1>5, DeviceBalances
<1>6. CASE UNCHANGED vars
  BY <1>6, DataUntouched DEF vars, program, DataInv
<1> QED
  BY <1>1, <1>2, <1>3, <1>4, <1>5, <1>6 DEF Next, Dispatching, Iterate

-----------------------------------------------------------------------------
(* The theorems *)

\* The inductive invariant holds in every reachable state.
THEOREM Invariance == Spec => []IndInv
<1> QED
  BY InitEstablishes, StepKeeps, PTL DEF Spec

\* Hooks, flags, timers and the queues stay well formed, and the retry
\* counters never leave 0..Retries (the code of lines 1130-1178, 264-267).
THEOREM TypeCorrect == Spec => []TypeOK
<1>1. IndInv => TypeOK
  BY DEF IndInv
<1> QED
  BY <1>1, Invariance, PTL

\* A callback runs at most once, and a DATA callback only with the value it
\* asked for (lines 116-133, 317-341).
THEOREM OnceAndItsOwn == Spec => []AnsweredOnceByItsOwn
<1>1. IndInv => AnsweredOnceByItsOwn
  BY DEF IndInv
<1> QED
  BY <1>1, Invariance, PTL

\* An answered request has no timer and all its entries are flagged (lines
\* 124-128).
THEOREM AnsweredStaysOver == Spec => []AnsweredIsOver
<1>1. IndInv => AnsweredIsOver
  BY DEF IndInv, AnsweredIsOver, Pending
<1> QED
  BY <1>1, Invariance, PTL

\* Splicing never drops the hook of a request that waits (lines 117-121).
THEOREM PendingStaysHooked == Spec => []PendingIsHooked
<1>1. IndInv => PendingIsHooked
  BY DEF IndInv
<1> QED
  BY <1>1, Invariance, PTL

\* The loop passes no hook that waits for the message (lines 116-133).
THEOREM NoHookIsMissed == Spec => []NoHookMissed
<1>1. IndInv => NoHookMissed
  BY DEF IndInv
<1> QED
  BY <1>1, Invariance, PTL

\* What is not DATA is retried until it is answered or out of retries.
THEOREM RetriesNeverStop == Spec => []RetriesGoOn
<1>1. IndInv => RetriesGoOn
  BY DEF IndInv
<1> QED
  BY <1>1, Invariance, PTL

\* No DATA message disappears in the loop: received is what was handed to
\* dataMessage_process, what callbacks have stopped, and the one under way
\* (lines 116-139).
THEOREM NoDataDisappears == Spec => []NoDataLost
<1>1. DataInv => NoDataLost
  BY DEF DataInv, NoDataLost, DataStops, InLoop
<1> QED
  BY <1>1, DataInit, StepBalances, Invariance, PTL DEF Spec

\* No send ever repeats an answered request, and a request already made is
\* only sent by a retry that is counted.
THEOREM NeverAnsweredSentAgain == Spec => NeverSentAgain
<1> DEFINE P(r) == /\ answers[r] = <<>>
                   /\ r \in issued => retry'[r] < retry[r]
<1>1. ASSUME IndInv, [Next]_vars, NEW r \in Requests,
             toDevice' = Append(toDevice, r)
      PROVE  P(r)
  <2>1. toDevice \in Seq(Requests) /\ Len(toDevice') = Len(toDevice) + 1
    BY <1>1 DEF IndInv, TypeOK
  <2>2. \A q \in Requests : toDevice' = Append(toDevice, q) => q = r
    <3>1. \A q \in Requests : Append(toDevice, q)[Len(toDevice) + 1] = q
      BY <2>1
    <3> QED
      BY <1>1, <3>1
  <2>3. ASSUME NEW q \in Requests, Request(q)
        PROVE  P(r)
    <3>1. q = r
      BY <2>2, <2>3 DEF Request, Send
    <3>2. r \notin issued /\ r \notin Answered
      BY <1>1, <2>3, <3>1 DEF Request, IndInv
    <3> QED
      BY <3>2 DEF Answered
  <2>4. ASSUME NEW q \in Requests, Timeout(q)
        PROVE  P(r)
    <3>1. MayRetry(q)
      BY <2>1, <2>4 DEF Timeout
    <3>2. q = r /\ retry' = [retry EXCEPT ![r] = @ - 1]
      BY <2>2, <2>4, <3>1 DEF Timeout, Send
    <3>3. retry \in [Requests -> 0..Retries]
      BY <1>1 DEF IndInv, TypeOK
    <3>4. r \notin Answered
      BY <1>1, <2>4, <3>2 DEF Timeout, IndInv, Pending
    <3> QED
      BY <3>2, <3>3, <3>4, BoundsAssumption DEF Answered
  <2>5. ASSUME NEW q \in Requests, Answer(q)
        PROVE  P(r)
    <3>1. q \in issued /\ q \notin Answered
      BY <1>1, <2>5, AtHookFacts DEF Answer, IndInv
    <3>2. FollowUp[q] # None
      BY <2>1, <2>5 DEF Answer, CallbackSends
    <3>3. FollowUp[q] \in Requests /\ FollowUp[q] \notin issued
      BY <1>1, <3>1, <3>2, RequestsAssumption DEF IndInv
    <3>4. FollowUp[q] = r
      BY <2>2, <2>5, <3>2, <3>3 DEF Answer, CallbackSends
    <3>5. r \notin issued /\ r \notin Answered
      BY <1>1, <3>3, <3>4 DEF IndInv
    <3> QED
      BY <3>5 DEF Answered
  <2>6. toDevice' # toDevice
    BY <2>1
  <2>7. ~DeviceAnswers /\ ~DeviceIsSilent
    <3>1. toDevice # <<>> => Len(Tail(toDevice)) = Len(toDevice) - 1
      BY <2>1
    <3> QED
      BY <2>1, <3>1 DEF DeviceAnswers, DeviceIsSilent
  <2>8. ~(UNCHANGED vars) /\ ~Receive /\ ~Unhooked
    BY <2>6 DEF vars, Receive, Unhooked
  <2>9. \A q \in Requests : ~Splice(q) /\ ~Skip(q) /\ ~PassOn(q)
    BY <2>6 DEF Splice, Skip, PassOn
  <2>10. \A a \in Addresses : ~FrontPanel(a)
    BY <2>6 DEF FrontPanel
  <2> QED
    BY <1>1, <2>3, <2>4, <2>5, <2>7, <2>8, <2>9, <2>10
       DEF Next, Dispatching, Iterate, Device
<1>2. IndInv /\ [Next]_vars =>
         \A r \in Requests : toDevice' = Append(toDevice, r) => P(r)
  BY <1>1
<1> QED
  BY <1>2, Invariance, PTL DEF Spec, NeverSentAgain

\* The callers' view: hooks, timers, retries and late answers implement the
\* request/reply service, a callback per request that was made and at most
\* one (dispatch and retries of lines 108-145 and 1094-1202).
THEOREM Implementation == Spec => ImplementsService
<1> DEFINE st == [r \in Requests |-> Status(r)]
<1>1. Init => Service!Init
  <2> SUFFICES ASSUME Init
               PROVE  st = [r \in Requests |-> "new"]
    BY DEF Service!Init
  <2>1. Answered = {} /\ issued = {}
    BY DEF Init, Answered
  <2> QED
    BY <2>1 DEF Status
<1>2. ASSUME IndInv, [Next]_vars
      PROVE  [Service!Next]_st
  <2>1. ASSUME NEW r \in Requests, Request(r)
        PROVE  Service!Next
    <3>1. Answered' = Answered /\ r \notin Answered
      BY <1>2, <2>1 DEF Request, Answered, IndInv
    <3>2. issued' = issued \cup {r} /\ r \notin issued
      BY <2>1 DEF Request
    <3>3. st[r] = "new" /\ st' = [st EXCEPT ![r] = "pending"]
      BY <3>1, <3>2 DEF Status
    <3>4. Service!Issue(r)
      BY <2>1, <3>3 DEF Service!Issue, Service!Roots, Service!FollowUps,
                        Request, FollowUps
    <3> QED
      BY <3>4 DEF Service!Next
  <2>2. ASSUME NEW r \in Requests, Answer(r)
        PROVE  Service!Next
    <3>1. r \in issued /\ r \notin Answered /\ answers[r] = <<>>
      BY <1>2, <2>2, AtHookFacts DEF Answer, IndInv, Answered
    <3>2. /\ Made(r) \cap (issued \cup {r}) = {}
          /\ issued' = issued \cup Made(r)
      BY <1>2, <2>2, <3>1, CallbackFacts DEF Answer
    <3>3. Answered' = Answered \cup {r}
      <4>1. answers \in [Requests -> Seq(Addresses)]
        BY <1>2 DEF IndInv, TypeOK
      <4>2. answers'[r] = Append(<<>>, dispatch.msg.levels)
        BY <2>2, <3>1, <4>1 DEF Answer
      <4>3. answers'[r] # <<>>
        BY <4>2
      <4>4. \A q \in Requests : q # r => answers'[q] = answers[q]
        BY <2>2, <4>1 DEF Answer
      <4> QED
        BY <4>3, <4>4 DEF Answered
    <3>4. st[r] = "pending"
      BY <3>1 DEF Status
    <3>5. Answered \subseteq issued
      BY <1>2 DEF IndInv
    <3>6. ASSUME NEW q \in Requests
          PROVE  st'[q] = IF q = r THEN "done"
                          ELSE IF q = FollowUp[r] THEN "pending"
                          ELSE st[q]
      <4>1. CASE q = r
        BY <4>1, <3>3 DEF Status
      <4>2. CASE q # r /\ q = FollowUp[r]
        <5>1. q \in Made(r)
          BY <4>2, RequestsAssumption DEF Made
        <5>2. q \in issued' /\ q \notin issued
          BY <5>1, <3>2
        <5>3. q \notin Answered'
          BY <5>2, <3>3, <3>5, <4>2
        <5> QED
          BY <4>2, <5>2, <5>3 DEF Status
      <4>3. CASE q # r /\ q # FollowUp[r]
        <5>1. q \in issued' <=> q \in issued
          BY <4>3, <3>2 DEF Made
        <5>2. q \in Answered' <=> q \in Answered
          BY <4>3, <3>3
        <5> QED
          BY <4>3, <5>1, <5>2 DEF Status
      <4> QED
        BY <4>1, <4>2, <4>3
    <3>7. st' = [q \in Requests |-> IF q = r THEN "done"
                                    ELSE IF q = FollowUp[r] THEN "pending"
                                    ELSE st[q]]
      BY <3>6
    <3>8. Service!Complete(r)
      BY <3>4, <3>7 DEF Service!Complete
    <3> QED
      BY <3>8 DEF Service!Next
  <2>3. ASSUME UNCHANGED <<issued, answers>>
        PROVE  st' = st
    BY <2>3 DEF Status, Answered
  <2>4. \A r \in Requests : Timeout(r) => UNCHANGED <<issued, answers>>
    BY DEF Timeout
  <2>5. \A r \in Requests : Splice(r) \/ Skip(r) \/ PassOn(r)
                              => UNCHANGED <<issued, answers>>
    BY DEF Splice, Skip, PassOn
  <2>6. Receive \/ Unhooked \/ Device \/ UNCHANGED vars
          => UNCHANGED <<issued, answers>>
    BY DEF Receive, Unhooked, Device, DeviceAnswers, DeviceIsSilent,
           FrontPanel, vars, program
  <2> QED
    BY <1>2, <2>1, <2>2, <2>3, <2>4, <2>5, <2>6
       DEF Next, Dispatching, Iterate
<1> QED
  BY <1>1, <1>2, Invariance, PTL
     DEF Spec, ImplementsService, Service!SafeSpec
=============================================================================
