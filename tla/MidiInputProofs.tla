-------------------------- MODULE MidiInputProofs ---------------------------
(***************************************************************************)
(* Proofs about MidiInput for any number of messages, segments and clocks: *)
(* the mutex excludes, no message is stranded in the queue, what is put    *)
(* together without a clock in between is a whole message, and the two     *)
(* threads implement a channel that keeps the order.                       *)
(*                                                                         *)
(* At the end, about the parser of sysex.js (SysexParser), which listens   *)
(* to that channel: its loop ends as long as no message is cut.            *)
(***************************************************************************)
EXTENDS MidiInput, SysexParser, Integers, SequenceTheorems, FiniteSetTheorems,
        WellFoundedInduction, TLAPS

-----------------------------------------------------------------------------
(* Queues: what leaves one and what joins it *)

\* The head of a queue moves to the end of what has left it: together they
\* are what they were.
LEMMA HeadMoves ==
    ASSUME NEW S, NEW s \in Seq(S), NEW q \in Seq(S), q # <<>>
    PROVE  /\ Append(s, Head(q)) \o Tail(q) = s \o q
           /\ Len(s) < Len(s \o q)
           /\ (s \o q)[Len(s) + 1] = Head(q)
<1> DEFINE h == Head(q)
           t == Tail(q)
<1>1. /\ h \in S /\ t \in Seq(S)
      /\ Len(q) \in Nat \ {0} /\ Len(t) = Len(q) - 1
      /\ \A i \in 1..Len(t) : t[i] = q[i + 1]
      /\ h = q[1]
  BY HeadTailProperties, EmptySeq
<1> HIDE DEF h, t
<1>2. <<h>> \in Seq(S) /\ Len(<<h>>) = 1 /\ <<h>>[1] = h
  BY <1>1
<1>3. <<h>> \o t = q
  <2> DEFINE c == <<h>> \o t
  <2>1. /\ c \in Seq(S) /\ Len(c) = 1 + Len(t)
        /\ \A i \in 1..(1 + Len(t)) :
              c[i] = IF i <= 1 THEN <<h>>[i] ELSE t[i - 1]
    BY <1>1, <1>2, ConcatProperties
  <2> HIDE DEF c
  <2>2. Len(c) = Len(q)
    BY <1>1, <2>1
  <2>3. ASSUME NEW i \in 1..Len(c)
        PROVE  c[i] = q[i]
    <3>1. CASE i = 1
      BY <3>1, <1>1, <1>2, <2>1
    <3>2. CASE i # 1
      BY <3>2, <1>1, <2>1
    <3> QED
      BY <3>1, <3>2
  <2> QED
    BY <2>1, <2>2, <2>3, SeqEqual DEF c
<1>4. Append(s, h) = s \o <<h>>
  BY <1>1, AppendIsConcat
<1>5. (s \o <<h>>) \o t = s \o (<<h>> \o t)
  BY <1>1, <1>2, ConcatAssociative
<1>6. Len(s) < Len(s \o q) /\ (s \o q)[Len(s) + 1] = q[1]
  BY <1>1, ConcatProperties
<1> QED
  BY <1>1, <1>3, <1>4, <1>5, <1>6 DEF h, t

\* One more element at the end leaves the rest as a prefix.
LEMMA OneMore ==
    ASSUME NEW S, NEW s \in Seq(S), NEW x \in S
    PROVE  /\ s \o <<x>> \in Seq(S)
           /\ Len(s \o <<x>>) = Len(s) + 1
           /\ SubSeq(s \o <<x>>, 1, Len(s)) = s
<1> DEFINE t == s \o <<x>>
           u == SubSeq(t, 1, Len(s))
<1>1. /\ t \in Seq(S) /\ Len(t) = Len(s) + 1 /\ Len(s) \in Nat
      /\ \A i \in 1..Len(s) : t[i] = s[i]
  BY ConcatProperties
<1> HIDE DEF t
<1>2. /\ u \in Seq(S) /\ Len(u) = Len(s)
      /\ \A i \in 1..Len(s) : u[i] = t[i]
  BY <1>1
<1>3. u = s
  BY <1>1, <1>2, SeqEqual
<1> QED
  BY <1>1, <1>3 DEF t

-----------------------------------------------------------------------------
(* The inductive invariant *)

LEMMA InputInit == Init => IndInv
<1> SUFFICES ASSUME Init
             PROVE  IndInv
  OBVIOUS
<1> USE MidiInputAssumption DEF Init
<1>1. TypeOK
  <2>1. <<>> \in Chunks /\ <<>> \in Seq(Chunks \ {<<>>})
    BY EmptySeq DEF Chunks
  <2>2. /\ 0 \in 0..NumMessages /\ 0 \in 0..MaxClocks
        /\ 0 \in 0..MaxOverruns /\ 0 \in Nat
    OBVIOUS
  <2> QED
    BY <2>1, <2>2 DEF TypeOK
<1>2. /\ sentMessages < NumMessages => sentParts < Parts[sentMessages + 1]
      /\ sentMessages = NumMessages => sentParts = 0
  OBVIOUS
<1> QED
  BY <1>1, <1>2 DEF IndInv, Exclusive, NoStrandedMessage

\* The device sends the segments of a message one after the other.
LEMMA DeviceKeepsInput ==
    ASSUME IndInv, Device
    PROVE  IndInv'
<1> USE MidiInputAssumption DEF IndInv, TypeOK, Chunks
<1>1. CASE SegmentArrives
  <2> DEFINE m == sentMessages + 1
             n == sentParts + 1
  <2>1. m \in 1..NumMessages /\ n \in 1..Parts[m] /\ Parts[m] \in Nat \ {0}
    BY <1>1 DEF SegmentArrives
  <2>2. [msg |-> m, part |-> n] \in Pieces
    BY <2>1 DEF Pieces, Segments
  <2>3. events' \in Chunks
    BY <1>1, <2>2 DEF SegmentArrives
  <2>4. /\ sentMessages' \in 0..NumMessages
        /\ sentParts' \in Nat
        /\ sentMessages' < NumMessages => sentParts' < Parts[sentMessages' + 1]
        /\ sentMessages' = NumMessages => sentParts' = 0
    <3>1. CASE n = Parts[m]
      <4>1. sentMessages' = m /\ sentParts' = 0
        BY <1>1, <3>1 DEF SegmentArrives
      <4> QED
        BY <4>1, <2>1
    <3>2. CASE n # Parts[m]
      <4>1. sentMessages' = sentMessages /\ sentParts' = n
        BY <1>1, <3>2 DEF SegmentArrives
      <4> QED
        BY <4>1, <3>2, <2>1
    <3> QED
      BY <3>1, <3>2
  <2> QED
    BY <1>1, <2>3, <2>4
       DEF SegmentArrives, mainVars, Exclusive, NoStrandedMessage
<1>2. CASE ClockArrives
  <2>1. events' \in Chunks
    BY <1>2 DEF ClockArrives, Pieces
  <2> QED
    BY <1>2, <2>1 DEF ClockArrives, mainVars, Exclusive, NoStrandedMessage
<1>3. CASE PortChanges
  <2>1. sentMessages + 1 \in 1..NumMessages
    BY <1>3 DEF PortChanges
  <2> QED
    BY <1>3, <2>1 DEF PortChanges, threadVars, mainVars, Exclusive,
                      NoStrandedMessage
<1> QED
  BY <1>1, <1>2, <1>3 DEF Device

\* A segment makes the message longer, or begins one.
LEMMA JoinedFacts ==
    ASSUME bytes \in Seq(Pieces), NEW p \in Pieces
    PROVE  Joined(p) \in Seq(Pieces) /\ Joined(p) # <<>>
<1>1. CASE continueSysex
  <2>1. Append(bytes, p) \in Seq(Pieces) /\ Append(bytes, p) # <<>>
    BY AppendProperties
  <2> QED
    BY <1>1, <2>1 DEF Joined
<1>2. CASE ~continueSysex
  <2>1. <<p>> \in Seq(Pieces) /\ Len(<<p>>) = 1
    OBVIOUS
  <2> QED
    BY <1>2, <2>1 DEF Joined
<1> QED
  BY <1>1, <1>2

\* One more segment: what the thread goes on to deliver is not empty.
LEMMA ReadEventKeeps ==
    ASSUME IndInv, ReadEvent
    PROVE  IndInv'
<1> USE DEF IndInv, TypeOK, Chunks
<1> DEFINE p == Head(events)
<1>1. p \in Pieces /\ events' \in Chunks
  BY HeadTailProperties DEF ReadEvent
<1>2. Joined(p) \in Chunks /\ Joined(p) # <<>>
  BY <1>1, JoinedFacts
<1> HIDE DEF p
<1>3. /\ taken' = Append(taken, p)
      /\ bytes' = Joined(p)
      /\ continueSysex' = Unfinished(p)
      /\ thread' = IF Unfinished(p) THEN "read" ELSE "lock"
      /\ thread = "read"
  BY DEF ReadEvent, p
<1>4. UNCHANGED <<sentMessages, sentParts, clocks, cut, overruns, mutex, queue,
                  async, main, delivered>>
  BY DEF ReadEvent, deviceVars, mainVars
<1>5. taken' \in Chunks
  BY <1>1, <1>3
<1>6. Unfinished(p) \in BOOLEAN
  BY DEF Unfinished
<1>7. TypeOK'
  BY <1>1, <1>2, <1>3, <1>4, <1>5, <1>6
<1> QED
  BY <1>2, <1>3, <1>4, <1>7 DEF Exclusive, NoStrandedMessage

\* Callback: lock, push, unlock, send.
LEMMA CallbackKeeps ==
    ASSUME IndInv, ThreadLocks \/ ThreadPushes \/ ThreadUnlocks \/ ThreadSends
    PROVE  IndInv'
<1> USE DEF IndInv, TypeOK, Chunks, Exclusive, NoStrandedMessage, deviceVars,
            mainVars
<1>1. CASE ThreadLocks
  BY <1>1 DEF ThreadLocks, MayLock
<1>2. CASE ThreadPushes
  <2>1. queue' \in Seq(Chunks \ {<<>>})
    BY <1>2 DEF ThreadPushes, Pushed
  <2> QED
    BY <1>2, <2>1 DEF ThreadPushes
<1>3. CASE ThreadUnlocks
  BY <1>3 DEF ThreadUnlocks
<1>4. CASE ThreadSends
  BY <1>4 DEF ThreadSends
<1> QED
  BY <1>1, <1>2, <1>3, <1>4

\* EmitMessage leaves nothing behind.
LEMMA MainKeeps ==
    ASSUME IndInv, Main
    PROVE  IndInv'
<1> USE DEF IndInv, TypeOK, Exclusive, NoStrandedMessage, deviceVars, threadVars
<1>1. CASE MainWakes
  BY <1>1 DEF MainWakes
<1>2. CASE MainLocks
  BY <1>2 DEF MainLocks, MayLock
<1>3. CASE MainEmits
  <2>1. /\ delivered' \in Seq(Chunks \ {<<>>})
        /\ queue' \in Seq(Chunks \ {<<>>})
    BY <1>3, HeadTailProperties DEF MainEmits
  <2> QED
    BY <1>3, <2>1 DEF MainEmits
<1>4. CASE MainUnlocks
  BY <1>4 DEF MainUnlocks, Drained
<1> QED
  BY <1>1, <1>2, <1>3, <1>4 DEF Main

\* An overrun loses what the sequencer was keeping, and nothing of the threads.
LEMMA OverrunKeeps ==
    ASSUME IndInv, Overrun
    PROVE  IndInv'
<1>1. /\ UNCHANGED <<sentMessages, sentParts, clocks, cut, taken, bytes,
                     continueSysex, thread, mutex, queue, async, main, delivered>>
      /\ events' = <<>>
  BY DEF Overrun, mainVars
<1>2. overruns' \in 0..MaxOverruns
  BY MidiInputAssumption DEF Overrun, IndInv, TypeOK
<1>3. events' \in Chunks
  BY <1>1, EmptySeq DEF Chunks
<1> QED
  BY <1>1, <1>2, <1>3 DEF IndInv, TypeOK, Exclusive, NoStrandedMessage

LEMMA InputStepKeeps == IndInv /\ [Next]_vars => IndInv'
<1> SUFFICES ASSUME IndInv, [Next]_vars
             PROVE  IndInv'
  OBVIOUS
<1>1. CASE Device
  BY <1>1, DeviceKeepsInput
<1>2. CASE Thread
  BY <1>2, ReadEventKeeps, CallbackKeeps DEF Thread
<1>3. CASE Main
  BY <1>3, MainKeeps
<1>4. CASE Overrun
  BY <1>4, OverrunKeeps
<1>5. CASE UNCHANGED vars
  BY <1>5 DEF vars, deviceVars, threadVars, mainVars, IndInv, TypeOK,
              Exclusive, NoStrandedMessage
<1> QED
  BY <1>1, <1>2, <1>3, <1>4, <1>5 DEF Next

\* What holds of the two threads in every state, by induction.
THEOREM InputInvariance == Spec => []IndInv
<1> QED
  BY InputInit, InputStepKeeps, PTL DEF Spec

-----------------------------------------------------------------------------

\* The queue, its lock and the bytes under way keep their types.
THEOREM InputTypeCorrect == Spec => []TypeOK
<1>1. IndInv => TypeOK
  BY DEF IndInv
<1> QED
  BY <1>1, InputInvariance, PTL

\* message_mutex excludes the input thread and the main thread.
THEOREM MutualExclusion == Spec => []Exclusive
<1>1. IndInv => Exclusive
  BY DEF IndInv
<1> QED
  BY <1>1, InputInvariance, PTL

\* A message in the queue has a wake-up coming, however the sends of Callback
\* and the wake-ups of EmitMessage interleave.
THEOREM NeverStranded == Spec => []NoStrandedMessage
<1>1. IndInv => NoStrandedMessage
  BY DEF IndInv
<1> QED
  BY <1>1, InputInvariance, PTL

-----------------------------------------------------------------------------
(* Whole messages *)

\* What the sequencer has sent, in its order.
Stream == taken \o events

\* q comes after p without a clock between: it is the next segment of the
\* same message, or the first of another, after a message that was finished
\* or is one of those that were cut.
Follows(p, q, cuts) ==
    \/ q.msg = p.msg /\ q.part = p.part + 1
    \/ q.part = 1 /\ (p.part = Parts[p.msg] \/ p.msg \in cuts)

\* The segments come in their order, and what was sent last is the segment
\* before the one that the device sends next.
StreamInv ==
    /\ cut \subseteq 1..sentMessages
    /\ \A i \in 1..Len(Stream) : Stream[i] # Clock =>
          /\ i = 1 => Stream[i].part = 1
          /\ i > 1 /\ Stream[i - 1] # Clock =>
                Follows(Stream[i - 1], Stream[i], cut)
          /\ Stream[i].part = Parts[Stream[i].msg] =>
                Stream[i].msg \in (1..sentMessages) \ cut
    /\ Len(Stream) = 0 => sentParts = 0
    /\ Len(Stream) > 0 /\ Stream[Len(Stream)] # Clock =>
          LET p == Stream[Len(Stream)]
          IN  IF sentParts > 0
              THEN p = [msg |-> sentMessages + 1, part |-> sentParts]
              ELSE p.part = Parts[p.msg] \/ p.msg \in cut

\* b ends with the segments of a message up to its last one, and what is
\* before them came of messages that were cut.
Ordered(b) ==
    LET l == b[Len(b)]
        k == Len(b) - l.part
    IN  /\ k >= 0
        /\ \A n \in 1..l.part : b[k + n] = [msg |-> l.msg, part |-> n]
        /\ \A j \in 1..k : b[j].msg \in cut

\* Completed by the last segment of a message that was not cut.
Completed(d) == \E m \in (1..sentMessages) \ cut : EndsWhole(d, m)

\* What the input thread has put together, and what it has handed on.
BytesInv ==
    /\ taken = <<>> => ~continueSysex
    /\ taken # <<>> =>
          LET p == taken[Len(taken)]
          IN  IF p.part = Parts[p.msg]
              THEN ~continueSysex
              ELSE /\ continueSysex /\ bytes # <<>>
                   /\ bytes[Len(bytes)] = p
                   /\ Ordered(bytes)
    /\ thread \in {"lock", "push"} => Completed(bytes)
    /\ \A i \in 1..Len(queue) : Completed(queue[i])
    /\ \A i \in 1..Len(delivered) : Completed(delivered[i])

WholeInv == StreamInv /\ (Clock \notin ToSet(taken) => BytesInv)

\* What was sent stays what it was, whoever has it.
LEMMA StreamKept ==
    ASSUME IndInv, StreamInv, UNCHANGED <<Stream, sentMessages, sentParts, cut>>
    PROVE  StreamInv'
BY DEF StreamInv, Follows

\* The device sends the next piece: it joins the end of the stream.
LEMMA StreamGrows ==
    ASSUME IndInv, NEW p \in Pieces, events' = Append(events, p), taken' = taken
    PROVE  /\ Stream \in Seq(Pieces) /\ Stream' \in Seq(Pieces)
           /\ Len(Stream') = Len(Stream) + 1
           /\ Stream'[Len(Stream) + 1] = p
           /\ \A i \in 1..Len(Stream) : Stream'[i] = Stream[i]
<1>1. taken \in Seq(Pieces) /\ events \in Seq(Pieces)
  BY DEF IndInv, TypeOK, Chunks
<1>2. Stream' = taken \o Append(events, p)
  BY DEF Stream
<1>3. /\ Append(events, p) = events \o <<p>> /\ <<p>> \in Seq(Pieces)
      /\ Len(<<p>>) = 1 /\ <<p>>[1] = p
  BY <1>1, AppendIsConcat
<1>4. taken \o (events \o <<p>>) = Stream \o <<p>>
  BY <1>1, <1>3, ConcatAssociative DEF Stream
<1>5. Stream \in Seq(Pieces)
  BY <1>1, ConcatProperties DEF Stream
<1>6. /\ Stream \o <<p>> \in Seq(Pieces)
      /\ Len(Stream \o <<p>>) = Len(Stream) + 1
      /\ (Stream \o <<p>>)[Len(Stream) + 1] = p
      /\ \A i \in 1..Len(Stream) : (Stream \o <<p>>)[i] = Stream[i]
  BY <1>3, <1>5, ConcatProperties
<1> QED
  BY <1>2, <1>3, <1>4, <1>5, <1>6

LEMMA SegmentFollows ==
    ASSUME IndInv, StreamInv, SegmentArrives
    PROVE  StreamInv'
<1> USE MidiInputAssumption
<1> DEFINE m == sentMessages + 1
           n == sentParts + 1
           p == [msg |-> m, part |-> n]
<1>1. /\ sentMessages \in 0..NumMessages /\ sentParts \in Nat /\ NumMessages \in Nat
      /\ m \in 1..NumMessages /\ n \in 1..Parts[m] /\ Parts[m] \in Nat \ {0}
  BY DEF SegmentArrives, IndInv, TypeOK
<1>2. p \in Pieces /\ p.msg = m /\ p.part = n
  BY <1>1 DEF Pieces, Segments
<1>3. /\ events' = Append(events, p) /\ taken' = taken /\ cut' = cut
      /\ n = Parts[m] => sentMessages' = m /\ sentParts' = 0
      /\ n # Parts[m] => sentMessages' = sentMessages /\ sentParts' = n
  BY DEF SegmentArrives
<1> HIDE DEF p
<1>4. /\ Stream \in Seq(Pieces)
      /\ Len(Stream) \in Nat
      /\ Len(Stream') = Len(Stream) + 1
      /\ Stream'[Len(Stream) + 1] = p
      /\ \A i \in 1..Len(Stream) : Stream'[i] = Stream[i]
  BY <1>2, <1>3, StreamGrows
<1>5. cut \subseteq 1..sentMessages
  BY DEF StreamInv
<1>6. cut' \subseteq 1..sentMessages' /\ sentMessages' >= sentMessages
      /\ sentMessages' \in Nat
  BY <1>1, <1>3, <1>5
<1>7. ASSUME NEW i \in 1..Len(Stream'), Stream'[i] # Clock
      PROVE  /\ i = 1 => Stream'[i].part = 1
             /\ i > 1 /\ Stream'[i - 1] # Clock =>
                   Follows(Stream'[i - 1], Stream'[i], cut')
             /\ Stream'[i].part = Parts[Stream'[i].msg] =>
                   Stream'[i].msg \in (1..sentMessages') \ cut'
  <2>1. CASE i \in 1..Len(Stream)
    <3>1. i > 1 => i - 1 \in 1..Len(Stream)
      BY <1>4, <2>1
    <3>2. /\ Stream'[i] = Stream[i]
          /\ i > 1 => Stream'[i - 1] = Stream[i - 1]
      BY <1>4, <2>1, <3>1
    <3>3. /\ i = 1 => Stream[i].part = 1
          /\ i > 1 /\ Stream[i - 1] # Clock =>
                Follows(Stream[i - 1], Stream[i], cut)
          /\ Stream[i].part = Parts[Stream[i].msg] =>
                Stream[i].msg \in (1..sentMessages) \ cut
      BY <1>7, <2>1, <3>2 DEF StreamInv
    <3>4. 1..sentMessages \subseteq 1..sentMessages' /\ cut' = cut
      BY <1>1, <1>3, <1>6
    <3> QED
      BY <3>2, <3>3, <3>4
  <2>2. CASE i = Len(Stream) + 1
    <3>1. Stream'[i] = p
      BY <1>4, <2>2
    <3>2. i = 1 => n = 1
      BY <1>1, <1>4, <2>2 DEF StreamInv
    <3>3. p.part = Parts[p.msg] => p.msg \in (1..sentMessages') \ cut'
      BY <1>1, <1>2, <1>3, <1>5
    <3>4. ASSUME i > 1, Stream'[i - 1] # Clock
          PROVE  Follows(Stream'[i - 1], p, cut')
      <4> DEFINE l == Stream[Len(Stream)]
      <4>1. Len(Stream) > 0 /\ Stream'[i - 1] = l
        BY <1>4, <2>2, <3>4
      <4>2. IF sentParts > 0
            THEN l = [msg |-> sentMessages + 1, part |-> sentParts]
            ELSE l.part = Parts[l.msg] \/ l.msg \in cut
        BY <3>4, <4>1 DEF StreamInv
      <4> HIDE DEF l
      <4>3. CASE sentParts > 0
        BY <1>2, <4>1, <4>2, <4>3 DEF Follows
      <4>4. CASE ~(sentParts > 0)
        BY <1>1, <1>2, <1>3, <4>1, <4>2, <4>4 DEF Follows
      <4> QED
        BY <4>3, <4>4
    <3> QED
      BY <1>2, <3>1, <3>2, <3>3, <3>4
  <2> QED
    BY <1>4, <2>1, <2>2
<1>8. /\ Len(Stream') # 0
      /\ LET l == Stream'[Len(Stream')]
         IN  IF sentParts' > 0
             THEN l = [msg |-> sentMessages' + 1, part |-> sentParts']
             ELSE l.part = Parts[l.msg] \/ l.msg \in cut'
  <2>1. Len(Stream') # 0 /\ Stream'[Len(Stream')] = p
    BY <1>4
  <2>2. CASE n = Parts[m]
    BY <1>2, <1>3, <2>1, <2>2
  <2>3. CASE n # Parts[m]
    BY <1>1, <1>3, <2>1, <2>3 DEF p
  <2> QED
    BY <2>2, <2>3
<1> QED
  BY <1>6, <1>7, <1>8 DEF StreamInv

LEMMA ClockFollows ==
    ASSUME IndInv, StreamInv, ClockArrives
    PROVE  StreamInv'
<1>1. /\ events' = Append(events, Clock) /\ taken' = taken /\ cut' = cut
      /\ sentMessages' = sentMessages /\ sentParts' = sentParts
  BY DEF ClockArrives
<1>2. Clock \in Pieces
  BY DEF Pieces
<1>3. /\ Len(Stream) \in Nat
      /\ Len(Stream') = Len(Stream) + 1
      /\ Stream'[Len(Stream) + 1] = Clock
      /\ \A i \in 1..Len(Stream) : Stream'[i] = Stream[i]
  BY <1>1, <1>2, StreamGrows
<1>4. ASSUME NEW i \in 1..Len(Stream'), Stream'[i] # Clock
      PROVE  /\ i \in 1..Len(Stream) /\ Stream'[i] = Stream[i]
             /\ i > 1 => Stream'[i - 1] = Stream[i - 1]
  BY <1>3, <1>4
<1> QED
  BY <1>1, <1>3, <1>4, SMTT(30) DEF StreamInv, Follows

\* The message that is cut is the one after those that are finished.
LEMMA ChangeFollows ==
    ASSUME IndInv, StreamInv, PortChanges
    PROVE  StreamInv'
<1> DEFINE m == sentMessages + 1
<1>1. /\ cut' = cut \cup {m} /\ sentMessages' = m /\ sentParts' = 0
      /\ sentParts > 0 /\ sentMessages \in Nat
      /\ UNCHANGED <<events, taken>>
  BY MidiInputAssumption DEF PortChanges, threadVars, IndInv, TypeOK
<1>2. Stream' = Stream
  BY <1>1 DEF Stream
<1>3. cut' \subseteq 1..sentMessages'
  <2>1. cut \subseteq 1..sentMessages
    BY DEF StreamInv
  <2>2. 1..sentMessages \subseteq 1..m /\ m \in 1..m
    BY <1>1
  <2> HIDE DEF m
  <2> QED
    BY <1>1, <2>1, <2>2
<1>4. ASSUME NEW i \in 1..Len(Stream), Stream[i] # Clock
      PROVE  /\ i = 1 => Stream[i].part = 1
             /\ i > 1 /\ Stream[i - 1] # Clock =>
                   Follows(Stream[i - 1], Stream[i], cut')
             /\ Stream[i].part = Parts[Stream[i].msg] =>
                   Stream[i].msg \in (1..sentMessages') \ cut'
  BY <1>1, <1>2, <1>4 DEF StreamInv, Follows
<1>5. Len(Stream) # 0
  BY <1>1 DEF StreamInv
<1>6. Stream[Len(Stream)] # Clock => Stream[Len(Stream)].msg \in cut'
  <2>1. [msg |-> m, part |-> sentParts].msg = m
    OBVIOUS
  <2> QED
    BY <1>1, <1>5, <2>1 DEF StreamInv
<1>7. /\ sentParts' = 0
      /\ LET l == Stream'[Len(Stream')]
         IN  l # Clock => l.msg \in cut'
  BY <1>1, <1>2, <1>6
<1> HIDE DEF m
<1> QED
  BY <1>2, <1>3, <1>4, <1>5, <1>7 DEF StreamInv

\* The same of a message of which the last segment is l, after k others.
LEMMA OrderedAfter ==
    ASSUME NEW b, NEW l, NEW k \in Nat, b[Len(b)] = l, Len(b) - l.part = k,
           \A n \in 1..l.part : b[k + n] = [msg |-> l.msg, part |-> n],
           \A j \in 1..k : b[j].msg \in cut
    PROVE  Ordered(b)
BY DEF Ordered

\* One more segment of the message, or the first of the one after a cut.
LEMMA OrderedGrows ==
    ASSUME NEW b \in Seq(Pieces), b # <<>>, NEW p \in Segments,
           b[Len(b)] \in Segments, Ordered(b),
           Follows(b[Len(b)], p, cut),
           b[Len(b)].part # Parts[b[Len(b)].msg]
    PROVE  Ordered(Append(b, p))
<1> DEFINE l == b[Len(b)]
           k == Len(b) - l.part
           c == Append(b, p)
<1>1. /\ Len(b) \in Nat \ {0} /\ Len(c) = Len(b) + 1 /\ c[Len(b) + 1] = p
      /\ \A j \in 1..Len(b) : c[j] = b[j]
  BY DEF Pieces
<1>2. l.part \in Nat \ {0} /\ p.part \in Nat \ {0}
  BY DEF Segments
<1>3. k \in Nat /\ k + l.part = Len(b)
  BY <1>1, <1>2 DEF Ordered
<1>9. /\ \A n \in 1..l.part : b[k + n] = [msg |-> l.msg, part |-> n]
      /\ \A j \in 1..k : b[j].msg \in cut
  BY <1>1, <1>2 DEF Ordered
<1>7. p = [msg |-> p.msg, part |-> p.part]
  BY DEF Segments
<1>8. c[Len(c)] = p
  BY <1>1
<1>4. \/ p.msg = l.msg /\ p.part = l.part + 1
      \/ p.part = 1 /\ l.msg \in cut
  BY DEF Follows
<1> HIDE DEF l, k, c
<1>5. ASSUME p.msg = l.msg /\ p.part = l.part + 1
      PROVE  Ordered(c)
  <2>1. Len(c) - p.part = k
    BY <1>1, <1>2, <1>3, <1>5, SMTT(30)
  <2>2. ASSUME NEW n \in 1..p.part
        PROVE  c[k + n] = [msg |-> p.msg, part |-> n]
    <3>1. CASE n = p.part
      <4>1. k + n = Len(c)
        BY <1>1, <1>2, <1>3, <1>5, <3>1
      <4> QED
        BY <1>7, <1>8, <3>1, <4>1
    <3>2. CASE n # p.part
      <4>1. n \in 1..l.part /\ k + n \in 1..Len(b)
        BY <1>2, <1>3, <1>5, <3>2
      <4> QED
        BY <1>1, <1>9, <1>5, <4>1
    <3> QED
      BY <3>1, <3>2
  <2>3. \A j \in 1..k : c[j].msg \in cut
    <3>1. \A j \in 1..k : j \in 1..Len(b)
      BY <1>2, <1>3
    <3> QED
      BY <1>1, <1>9, <3>1
  <2> QED
    BY <1>3, <1>8, <2>1, <2>2, <2>3, OrderedAfter
<1>6. ASSUME p.part = 1 /\ l.msg \in cut
      PROVE  Ordered(c)
  <2>1. Len(c) - p.part = Len(b)
    BY <1>1, <1>6
  <2>2. \A n \in 1..p.part : c[Len(b) + n] = [msg |-> p.msg, part |-> n]
    BY <1>1, <1>6, <1>7
  <2>3. ASSUME NEW j \in 1..Len(b)
        PROVE  c[j].msg \in cut
    <3>1. CASE j \in 1..k
      BY <1>1, <1>9, <3>1
    <3>2. CASE j \notin 1..k
      <4> DEFINE n == j - k
      <4>1. n \in 1..l.part /\ k + n = j
        <5>1. j \in Nat /\ j > k /\ j <= k + l.part
          BY <1>1, <1>3, <3>2
        <5> QED
          BY <5>1, <1>2, <1>3
      <4> HIDE DEF n
      <4>2. b[k + n] = [msg |-> l.msg, part |-> n]
        BY <1>9, <4>1
      <4>3. b[j].msg = l.msg
        BY <4>1, <4>2
      <4> QED
        BY <1>1, <1>6, <4>3
    <3> QED
      BY <3>1, <3>2
  <2> QED
    BY <1>1, <1>8, <2>1, <2>2, <2>3, OrderedAfter
<1> QED
  BY <1>4, <1>5, <1>6 DEF c

\* The last segment completes it.
LEMMA OrderedEnds ==
    ASSUME NEW b \in Seq(Pieces), b # <<>>, Ordered(b),
           b[Len(b)] \in Segments, b[Len(b)].part = Parts[b[Len(b)].msg]
    PROVE  EndsWhole(b, b[Len(b)].msg)
<1> DEFINE l == b[Len(b)]
           m == l.msg
           k == Len(b) - Parts[m]
           s == SubSeq(b, k + 1, Len(b))
<1>1. Len(b) \in Nat \ {0} /\ Parts[m] \in Nat \ {0} /\ l.part = Parts[m]
  BY DEF Segments
<1>2. k \in Nat /\ Len(b) - k = Parts[m] /\ k <= Len(b)
  BY <1>1 DEF Ordered
<1>3. /\ \A n \in 1..Parts[m] : b[k + n] = [msg |-> m, part |-> n]
      /\ \A j \in 1..k : b[j].msg \in cut
  BY <1>1 DEF Ordered
<1> HIDE DEF l, m, k
<1>4. s = [n \in 1..(Len(b) - k) |-> b[k + n]]
  BY <1>1, <1>2
<1>5. s = [n \in 1..Parts[m] |-> [msg |-> m, part |-> n]]
  <2> HIDE DEF s
  <2> QED
    BY <1>2, <1>3, <1>4
<1> QED
  BY <1>2, <1>3, <1>5 DEF EndsWhole, Whole, k, m, l

\* The piece that is read is the one of the stream after those taken.
LEMMA NextPiece ==
    ASSUME IndInv, ReadEvent
    PROVE  /\ Head(events) \in Pieces
           /\ taken' = Append(taken, Head(events))
           /\ Stream' = Stream
           /\ Len(taken) \in Nat /\ Len(taken) < Len(Stream)
           /\ Len(Stream) \in Nat
           /\ Stream[Len(taken) + 1] = Head(events)
           /\ taken # <<>> => /\ Len(taken) > 0
                              /\ Stream[Len(taken)] = taken[Len(taken)]
<1>1. /\ taken \in Seq(Pieces) /\ events \in Seq(Pieces) /\ events # <<>>
      /\ taken' = Append(taken, Head(events)) /\ events' = Tail(events)
  BY DEF IndInv, TypeOK, Chunks, ReadEvent
<1>2. Head(events) \in Pieces
  BY <1>1, HeadTailProperties
<1>3. /\ Stream' = Stream
      /\ Len(taken) < Len(Stream)
      /\ Stream[Len(taken) + 1] = Head(events)
  BY <1>1, HeadMoves DEF Stream
<1>4. /\ Stream \in Seq(Pieces)
      /\ \A i \in 1..Len(taken) : Stream[i] = taken[i]
  BY <1>1, ConcatProperties DEF Stream
<1>5. Len(taken) \in Nat /\ Len(Stream) \in Nat /\ taken # <<>> => Len(taken) > 0
  BY <1>1, <1>4, EmptySeq
<1> QED
  BY <1>1, <1>2, <1>3, <1>4, <1>5

\* One turn of the loop of alsaMidiHandler, while there was no clock: what it
\* has put together is in order, and whole after a last segment.
LEMMA ReadKeepsWhole ==
    ASSUME IndInv, WholeInv, ReadEvent
    PROVE  WholeInv'
<1> USE MidiInputAssumption
<1> DEFINE p == Head(events)
           l == taken[Len(taken)]
<1>1. /\ p \in Pieces /\ taken' = Append(taken, p) /\ taken \in Seq(Pieces)
      /\ bytes \in Seq(Pieces) /\ Stream' = Stream
      /\ Len(taken) \in Nat /\ Len(taken) < Len(Stream) /\ Len(Stream) \in Nat
      /\ Stream[Len(taken) + 1] = p
      /\ taken # <<>> => Len(taken) > 0 /\ Stream[Len(taken)] = l
  BY NextPiece DEF IndInv, TypeOK, Chunks
<1>2. /\ bytes' = Joined(p)
      /\ continueSysex' = Unfinished(p)
      /\ thread' = IF Unfinished(p) THEN "read" ELSE "lock"
      /\ UNCHANGED <<cut, sentMessages, sentParts, queue, delivered>>
  BY DEF ReadEvent, deviceVars, mainVars
<1> HIDE DEF p
<1>3. StreamInv'
  BY <1>1, <1>2, StreamKept DEF WholeInv
<1>4. ASSUME Clock \notin ToSet(taken')
      PROVE  BytesInv'
  <2>1. /\ Len(taken') = Len(taken) + 1 /\ taken'[Len(taken) + 1] = p
        /\ \A i \in 1..Len(taken) : taken'[i] = taken[i]
        /\ DOMAIN taken = 1..Len(taken) /\ DOMAIN taken' = 1..(Len(taken) + 1)
    BY <1>1
  <2>2. p # Clock /\ Clock \notin ToSet(taken)
    <3>1. \A j \in 1..(Len(taken) + 1) : taken'[j] # Clock
      BY <1>4, <2>1 DEF ToSet
    <3>2. \A j \in 1..Len(taken) : j \in 1..(Len(taken) + 1)
      BY <1>1
    <3>3. Len(taken) + 1 \in 1..(Len(taken) + 1)
      BY <1>1
    <3>4. \A j \in 1..Len(taken) : taken[j] # Clock
      BY <2>1, <3>1, <3>2
    <3> QED
      BY <2>1, <3>1, <3>3, <3>4 DEF ToSet
  <2>3. BytesInv /\ StreamInv
    BY <2>2 DEF WholeInv
  <2>4. p \in Segments /\ p.part \in Nat \ {0} /\ p.part <= Parts[p.msg]
    BY <1>1, <2>2 DEF Pieces, Segments
  <2>5. taken # <<>> => l \in Segments /\ l # Clock
    BY <1>1, <2>2 DEF ToSet, Pieces
  <2>6. /\ taken # <<>> => Follows(l, p, cut)
        /\ taken = <<>> => p.part = 1
        /\ p.part = Parts[p.msg] => p.msg \in (1..sentMessages) \ cut
    <3> DEFINE i == Len(taken) + 1
    <3>1. i \in 1..Len(Stream) /\ Stream[i] = p /\ i - 1 = Len(taken)
      BY <1>1
    <3>2. taken = <<>> => i = 1
      OBVIOUS
    <3>3. taken # <<>> => i > 1 /\ Stream[i - 1] = l
      BY <1>1, <3>1
    <3> HIDE DEF i, l
    <3> QED
      BY <2>2, <2>3, <2>5, <3>1, <3>2, <3>3 DEF StreamInv
  <2>7. /\ bytes' \in Seq(Pieces) /\ bytes' # <<>>
        /\ bytes'[Len(bytes')] = p
        /\ Ordered(bytes')
    <3>1. CASE continueSysex
      <4>1. bytes' = Append(bytes, p)
        BY <1>2, <3>1 DEF Joined
      <4>2. taken # <<>>
        BY <2>3, <3>1 DEF BytesInv
      <4>3. /\ l.part # Parts[l.msg] /\ bytes # <<>>
            /\ bytes[Len(bytes)] = l /\ Ordered(bytes)
        BY <2>3, <3>1, <4>2 DEF BytesInv
      <4> HIDE DEF l
      <4>4. Ordered(Append(bytes, p))
        BY <1>1, <2>4, <2>5, <2>6, <4>2, <4>3, OrderedGrows
      <4>5. /\ Append(bytes, p) \in Seq(Pieces) /\ Append(bytes, p) # <<>>
            /\ Append(bytes, p)[Len(Append(bytes, p))] = p
        BY <1>1, AppendProperties
      <4> QED
        BY <4>1, <4>4, <4>5
    <3>2. CASE ~continueSysex
      <4>1. bytes' = <<p>>
        BY <1>2, <3>2 DEF Joined
      <4>2. taken # <<>> => l.part = Parts[l.msg]
        BY <2>3, <3>2 DEF BytesInv
      <4>3. p.part = 1
        <5>1. taken # <<>> => l.part \in Nat
          BY <2>5 DEF Segments
        <5> HIDE DEF l
        <5> QED
          BY <2>4, <2>6, <4>2, <5>1 DEF Follows
      <4>4. p = [msg |-> p.msg, part |-> p.part]
        BY <2>4 DEF Segments
      <4>5. Ordered(<<p>>)
        <5> DEFINE b == <<p>>
        <5>1. Len(b) = 1 /\ b[1] = p
          OBVIOUS
        <5> HIDE DEF b
        <5>2. \A n \in 1..1 : b[0 + n] = [msg |-> p.msg, part |-> n]
          BY <4>3, <4>4, <5>1
        <5> QED
          BY <4>3, <5>1, <5>2 DEF Ordered
      <4> QED
        BY <1>1, <4>1, <4>5
    <3> QED
      BY <3>1, <3>2
  <2>8. Unfinished(p) <=> p.part # Parts[p.msg]
    BY <2>2 DEF Unfinished, EndsWithF7
  <2>9. p.part = Parts[p.msg] => Completed(bytes')
    <3>1. p.part = Parts[p.msg] => EndsWhole(bytes', p.msg)
      BY <2>4, <2>7, OrderedEnds
    <3> QED
      BY <2>6, <3>1 DEF Completed
  <2>10. /\ \A i \in 1..Len(queue) : Completed(queue[i])
         /\ \A i \in 1..Len(delivered) : Completed(delivered[i])
    BY <2>3 DEF BytesInv
  <2>11. /\ taken' # <<>> /\ taken'[Len(taken')] = p
         /\ p.part # Parts[p.msg] => thread' = "read" /\ continueSysex'
         /\ p.part = Parts[p.msg] => ~continueSysex'
    BY <1>1, <1>2, <2>1, <2>8
  <2>12. (Ordered(bytes))' /\ (p.part = Parts[p.msg] => (Completed(bytes))')
    BY <1>2, <2>7, <2>9 DEF Ordered, Completed, EndsWhole
  <2>13. /\ (\A i \in 1..Len(queue) : Completed(queue[i]))'
         /\ (\A i \in 1..Len(delivered) : Completed(delivered[i]))'
    BY <1>2, <2>10 DEF Completed, EndsWhole
  <2> QED
    BY <2>7, <2>11, <2>12, <2>13 DEF BytesInv
<1> QED
  BY <1>3, <1>4 DEF WholeInv

\* What was put together stays in order and whole when the device goes on or
\* the port is changed: the message that is cut is not one of those finished.
LEMMA BytesKept ==
    ASSUME BytesInv,
           UNCHANGED <<taken, bytes, continueSysex, queue, delivered>>,
           thread' \in {"lock", "push"} => thread \in {"lock", "push"},
           cut \subseteq cut',
           (1..sentMessages) \ cut \subseteq (1..sentMessages') \ cut'
    PROVE  BytesInv'
<1>1. ASSUME NEW d, Completed(d)
      PROVE  (Completed(d))'
  <2>1. PICK m \in (1..sentMessages) \ cut : EndsWhole(d, m)
    BY <1>1 DEF Completed
  <2>2. (EndsWhole(d, m))'
    BY <2>1 DEF EndsWhole, Whole
  <2> QED
    BY <2>1, <2>2 DEF Completed
<1>2. Ordered(bytes) => (Ordered(bytes))'
  BY DEF Ordered
<1>3. Completed(bytes) => (Completed(bytes))'
  BY <1>1 DEF Completed, EndsWhole
<1>4. \A i \in 1..Len(queue) : (Completed(queue[i]))'
  BY <1>1 DEF BytesInv, Completed, EndsWhole
<1>5. \A i \in 1..Len(delivered) : (Completed(delivered[i]))'
  BY <1>1 DEF BytesInv, Completed, EndsWhole
<1>6. (thread \in {"lock", "push"} => Completed(bytes))'
  BY <1>3 DEF BytesInv
<1> QED
  BY <1>2, <1>4, <1>5, <1>6 DEF BytesInv

LEMMA DeviceKeepsWhole ==
    ASSUME IndInv, WholeInv, Device
    PROVE  WholeInv'
<1> USE MidiInputAssumption
<1>1. sentMessages \in Nat /\ cut \subseteq 1..sentMessages
  BY DEF IndInv, TypeOK, WholeInv, StreamInv
<1>2. StreamInv'
  BY SegmentFollows, ClockFollows, ChangeFollows DEF Device, WholeInv
<1>3. /\ UNCHANGED <<taken, bytes, continueSysex, thread, queue, delivered>>
      /\ cut \subseteq cut'
      /\ (1..sentMessages) \ cut \subseteq (1..sentMessages') \ cut'
  <2>1. CASE SegmentArrives
    <3>1. cut' = cut /\ sentMessages' \in {sentMessages, sentMessages + 1}
      BY <2>1 DEF SegmentArrives
    <3> QED
      BY <1>1, <2>1, <3>1 DEF SegmentArrives, mainVars
  <2>2. CASE ClockArrives
    BY <2>2 DEF ClockArrives, mainVars
  <2>3. CASE PortChanges
    <3>1. cut' = cut \cup {sentMessages + 1} /\ sentMessages' = sentMessages + 1
      BY <2>3 DEF PortChanges
    <3> QED
      BY <1>1, <2>3, <3>1 DEF PortChanges, threadVars, mainVars
  <2> QED
    BY <2>1, <2>2, <2>3 DEF Device
<1>4. Clock \notin ToSet(taken') => BytesInv'
  BY <1>3, BytesKept DEF WholeInv
<1> QED
  BY <1>2, <1>4 DEF WholeInv

\* Callback pushes what is whole, and EmitMessage hands it on.
LEMMA QueueKeepsWhole ==
    ASSUME IndInv, WholeInv, (Thread /\ ~ReadEvent) \/ Main \/ UNCHANGED vars
    PROVE  WholeInv'
<1> USE DEF deviceVars, threadVars, mainVars
<1>1. /\ UNCHANGED <<taken, events, sentMessages, sentParts, cut, bytes,
                     continueSysex>>
      /\ thread' \in {"lock", "push"} => thread \in {"lock", "push"}
  <2>1. CASE Thread /\ ~ReadEvent
    BY <2>1 DEF Thread, ThreadLocks, ThreadPushes, ThreadUnlocks, ThreadSends
  <2>2. CASE Main \/ UNCHANGED vars
    BY <2>2 DEF Main, MainWakes, MainLocks, MainEmits, MainUnlocks, vars
  <2> QED
    BY <2>1, <2>2
<1>2. StreamInv'
  BY <1>1, StreamKept DEF Stream, WholeInv
<1>3. ASSUME BytesInv
      PROVE  BytesInv'
  <2>1. CASE UNCHANGED <<queue, delivered>>
    BY <1>1, <1>3, <2>1, BytesKept
  <2>2. \A d : Completed(d) <=> (Completed(d))'
    BY <1>1 DEF Completed, EndsWhole
  <2>3. (Ordered(bytes))' <=> Ordered(bytes)
    BY <1>1 DEF Ordered
  <2>4. queue \in Seq(Chunks \ {<<>>}) /\ delivered \in Seq(Chunks \ {<<>>})
    BY DEF IndInv, TypeOK
  <2>5. /\ \A i \in 1..Len(queue) : Completed(queue[i])
        /\ \A i \in 1..Len(delivered) : Completed(delivered[i])
        /\ thread \in {"lock", "push"} => Completed(bytes)
    BY <1>3 DEF BytesInv
  <2>6. CASE ThreadPushes
    <3>1. /\ thread = "push" /\ thread' = "unlock" /\ delivered' = delivered
          /\ queue' = Append(queue, bytes)
      BY <2>6 DEF ThreadPushes, Pushed
    <3>2. bytes \in Chunks \ {<<>>}
      BY <3>1 DEF IndInv, TypeOK
    <3>3. \A i \in 1..Len(queue') :
             \/ queue'[i] = bytes
             \/ i \in 1..Len(queue) /\ queue'[i] = queue[i]
      BY <2>4, <3>1, <3>2
    <3>4. \A i \in 1..Len(queue') : Completed(queue'[i])
      BY <2>5, <3>1, <3>3
    <3>5. (\A i \in 1..Len(queue) : Completed(queue[i]))'
      BY <1>1, <3>4 DEF Completed, EndsWhole
    <3>6. (\A i \in 1..Len(delivered) : Completed(delivered[i]))'
      BY <1>1, <2>5, <3>1 DEF Completed, EndsWhole
    <3> QED
      BY <1>1, <1>3, <2>3, <3>1, <3>5, <3>6 DEF BytesInv
  <2>7. CASE MainEmits
    <3>1. /\ queue # <<>> /\ queue' = Tail(queue) /\ thread' = thread
          /\ delivered' = Append(delivered, Head(queue))
      BY <2>7 DEF MainEmits
    <3>2. /\ Head(queue) \in Chunks \ {<<>>} /\ Head(queue) = queue[1]
          /\ Len(queue) \in Nat \ {0} /\ Len(queue') = Len(queue) - 1
          /\ \A i \in 1..Len(queue') : queue'[i] = queue[i + 1]
      BY <2>4, <3>1, HeadTailProperties, EmptySeq
    <3>3. \A i \in 1..Len(queue') : Completed(queue'[i])
      <4>1. \A i \in 1..Len(queue') : i + 1 \in 1..Len(queue)
        BY <3>2
      <4> QED
        BY <2>5, <3>2, <4>1
    <3>4. Completed(Head(queue))
      BY <2>5, <3>2
    <3>5. \A i \in 1..Len(delivered') :
             \/ delivered'[i] = Head(queue)
             \/ i \in 1..Len(delivered) /\ delivered'[i] = delivered[i]
      BY <2>4, <3>1, <3>2
    <3>6. \A i \in 1..Len(delivered') : Completed(delivered'[i])
      BY <2>5, <3>4, <3>5
    <3>7. /\ (\A i \in 1..Len(queue) : Completed(queue[i]))'
          /\ (\A i \in 1..Len(delivered) : Completed(delivered[i]))'
      BY <1>1, <3>3, <3>6 DEF Completed, EndsWhole
    <3>8. (thread \in {"lock", "push"} => Completed(bytes))'
      BY <1>1, <2>5, <3>1 DEF Completed, EndsWhole
    <3> QED
      BY <1>1, <1>3, <2>3, <3>1, <3>7, <3>8 DEF BytesInv
  <2> QED
    BY <2>1, <2>6, <2>7 DEF Thread, ThreadLocks, ThreadUnlocks, ThreadSends, Main,
                            MainWakes, MainLocks, MainUnlocks, vars
<1> QED
  BY <1>1, <1>2, <1>3 DEF WholeInv

\* alsaMidiHandler concatenates the segments "into a single sysex message"
\* (RtMidi.cpp:996-1000): without a clock between two of them, and as long as
\* nothing was lost by an overrun, the listener gets every message whole, after
\* no more than what the messages left behind that a change of the port cut
\* (closePort, RtMidi.cpp:1267).
THEOREM WholeMessagesArrive == Spec => []WholeWithoutClocks
<1>1. Init => WholeInv
  <2> SUFFICES ASSUME Init
               PROVE  WholeInv
    OBVIOUS
  <2>1. Stream = <<>>
    BY EmptySeq, ConcatEmptySeq DEF Init, Stream
  <2> QED
    BY <2>1 DEF Init, WholeInv, StreamInv, BytesInv
<1>2. IndInv /\ (overruns = 0 => WholeInv) /\ [Next]_vars
         => (overruns = 0 => WholeInv)'
  <2> SUFFICES ASSUME IndInv, overruns = 0 => WholeInv, [Next]_vars, overruns' = 0
               PROVE  WholeInv'
    OBVIOUS
  <2>1. CASE Overrun
    BY <2>1 DEF Overrun, IndInv, TypeOK
  <2>2. CASE Device
    <3>1. overruns' = overruns
      BY <2>2 DEF Device, SegmentArrives, ClockArrives, PortChanges
    <3> QED
      BY <2>2, <3>1, DeviceKeepsWhole
  <2>3. CASE Thread \/ Main \/ UNCHANGED vars
    <3>1. overruns' = overruns
      BY <2>3 DEF Thread, ReadEvent, ThreadLocks, ThreadPushes, ThreadUnlocks,
                  ThreadSends, Main, MainWakes, MainLocks, MainEmits, MainUnlocks,
                  vars, deviceVars
    <3> QED
      BY <2>3, <3>1, ReadKeepsWhole, QueueKeepsWhole
  <2> QED
    BY <2>1, <2>2, <2>3 DEF Next
<1>3. IndInv /\ (overruns = 0 => WholeInv) => WholeWithoutClocks
  <2> SUFFICES ASSUME IndInv, BytesInv,
                      NEW i \in DOMAIN delivered
               PROVE  \E m \in (1..NumMessages) \ cut : EndsWhole(delivered[i], m)
    BY DEF WholeInv, WholeWithoutClocks
  <2>1. i \in 1..Len(delivered) /\ 1..sentMessages \subseteq 1..NumMessages
    BY MidiInputAssumption DEF IndInv, TypeOK
  <2> QED
    BY <2>1 DEF BytesInv, Completed
<1> QED
  BY <1>1, <1>2, <1>3, InputInvariance, PTL DEF Spec

-----------------------------------------------------------------------------
(* The channel *)

\* What the thread has in hand is no message, or one.
LEMMA InHandFacts ==
    ASSUME IndInv
    PROVE  /\ delivered \o queue \in Seq(Chunks \ {<<>>})
           /\ InHand \in Seq(Chunks \ {<<>>})
           /\ thread \notin {"lock", "push"} => InHand = <<>>
           /\ thread \in {"lock", "push"} =>
                 InHand = <<bytes>> /\ bytes \in Chunks \ {<<>>}
<1>1. /\ delivered \in Seq(Chunks \ {<<>>}) /\ queue \in Seq(Chunks \ {<<>>})
      /\ thread \in {"lock", "push"} => bytes \in Chunks \ {<<>>}
  BY DEF IndInv, TypeOK
<1>2. delivered \o queue \in Seq(Chunks \ {<<>>})
  BY <1>1, ConcatProperties
<1>3. CASE thread \in {"lock", "push"}
  <2>1. InHand = <<bytes>>
    BY <1>3 DEF InHand
  <2>2. <<bytes>> \in Seq(Chunks \ {<<>>})
    BY <1>1, <1>3
  <2> QED
    BY <1>1, <1>2, <1>3, <2>1, <2>2
<1>4. CASE thread \notin {"lock", "push"}
  <2>1. InHand = <<>>
    BY <1>4 DEF InHand
  <2>2. <<>> \in Seq(Chunks \ {<<>>})
    BY EmptySeq
  <2> QED
    BY <1>2, <1>4, <2>1, <2>2
<1> QED
  BY <1>3, <1>4

\* The input thread, the mutex, the queue and the main thread implement a
\* channel: what Callback is given is delivered once and in its order.
THEOREM ChannelImplementation == Spec => Channel!SafeSpec
<1> DEFINE all == (delivered \o queue) \o InHand
           M == Chunks \ {<<>>}
<1>1. Init => Channel!Init
  <2> SUFFICES ASSUME Init
               PROVE  all = <<>> /\ delivered = <<>>
    BY DEF Channel!Init
  <2> QED
    BY DEF Init, InHand
<1>2. ASSUME IndInv, IndInv', [Next]_vars
      PROVE  [Channel!Next]_<<all, delivered>>
  <2> USE <1>2
  <2>0. /\ delivered \in Seq(M) /\ queue \in Seq(M)
        /\ delivered \o queue \in Seq(M)
        /\ all \in Seq(M)
    BY InHandFacts, ConcatProperties DEF IndInv, TypeOK
  <2>1. CASE UNCHANGED <<delivered, queue, InHand>>
    BY <2>1
  <2>2. CASE ReadEvent
    <3>1. thread = "read" /\ UNCHANGED <<delivered, queue>>
      BY <2>2 DEF ReadEvent, mainVars
    <3>2. InHand = <<>> /\ all = delivered \o queue
      BY <3>1, <2>0, ConcatEmptySeq DEF InHand
    <3>3. CASE thread' = "read"
      BY <3>1, <3>2, <3>3 DEF InHand
    <3>4. CASE thread' = "lock"
      <4>1. InHand' = <<bytes'>> /\ bytes' \in M
        BY <3>4 DEF InHand, IndInv, TypeOK
      <4>2. all' = all \o <<bytes'>>
        BY <3>1, <3>2, <4>1
      <4> HIDE DEF all, M
      <4>3. Len(all') = Len(all) + 1 /\ SubSeq(all', 1, Len(all)) = all
        BY <2>0, <4>1, <4>2, OneMore
      <4> QED
        BY <3>1, <4>3 DEF Channel!Next, Channel!Send, all
    <3> QED
      BY <2>2, <3>3, <3>4 DEF ReadEvent
  <2>3. CASE ThreadPushes
    <3>1. /\ thread = "push" /\ thread' = "unlock"
          /\ queue' = Append(queue, bytes)
          /\ delivered' = delivered /\ bytes \in M
      BY <2>3 DEF ThreadPushes, Pushed, mainVars, IndInv, TypeOK
    <3>2. InHand = <<bytes>> /\ InHand' = <<>>
      BY <3>1 DEF InHand
    <3>3. Append(queue, bytes) = queue \o <<bytes>> /\ <<bytes>> \in Seq(M)
      BY <2>0, <3>1, AppendIsConcat
    <3>4. delivered \o (queue \o <<bytes>>) = (delivered \o queue) \o <<bytes>>
      BY <2>0, <3>3, ConcatAssociative
    <3>5. all' = all
      <4>1. (delivered \o queue) \o <<bytes>> \in Seq(M)
        BY <2>0, <3>3, ConcatProperties
      <4>2. all' = ((delivered \o queue) \o <<bytes>>) \o <<>>
        BY <3>1, <3>2, <3>3, <3>4
      <4> QED
        BY <3>2, <4>1, <4>2, ConcatEmptySeq
    <3> QED
      BY <3>1, <3>5
  <2>4. CASE MainEmits
    <3>1. /\ queue # <<>>
          /\ delivered' = Append(delivered, Head(queue))
          /\ queue' = Tail(queue)
          /\ InHand' = InHand
      BY <2>4 DEF MainEmits, threadVars, InHand
    <3>2. /\ delivered' \o queue' = delivered \o queue
          /\ Len(delivered) < Len(delivered \o queue)
          /\ (delivered \o queue)[Len(delivered) + 1] = Head(queue)
      BY <2>0, <3>1, HeadMoves
    <3>3. all' = all
      BY <3>1, <3>2
    <3>4. /\ Len(delivered) < Len(all)
          /\ all[Len(delivered) + 1] = Head(queue)
      <4>1. InHand \in Seq(M)
        BY InHandFacts
      <4>2. /\ Len(all) = Len(delivered \o queue) + Len(InHand)
            /\ \A i \in 1..Len(delivered \o queue) :
                  all[i] = (delivered \o queue)[i]
            /\ Len(InHand) \in Nat /\ Len(delivered \o queue) \in Nat
            /\ Len(delivered) \in Nat
        BY <2>0, <4>1, ConcatProperties
      <4> HIDE DEF all
      <4> QED
        BY <3>2, <4>2
    <3> QED
      BY <3>1, <3>3, <3>4 DEF Channel!Next, Channel!Deliver
  <2>5. CASE Device \/ Overrun \/ ThreadLocks \/ ThreadUnlocks \/ ThreadSends
               \/ MainWakes \/ MainLocks \/ MainUnlocks \/ UNCHANGED vars
    BY <2>1, <2>5 DEF Device, SegmentArrives, ClockArrives, PortChanges, Overrun,
                      ThreadLocks, ThreadUnlocks, ThreadSends, MainWakes,
                      MainLocks, MainUnlocks, vars, deviceVars, threadVars, mainVars,
                      InHand
  <2> QED
    BY <2>2, <2>3, <2>4, <2>5 DEF Next, Thread, Main
<1> QED
  BY <1>1, <1>2, InputInvariance, PTL DEF Spec, Channel!SafeSpec

-----------------------------------------------------------------------------
(* The parser *)

Kept == [class : {"Array", "Buffer"}, bytes : Seq(Byte)]

\* How many bytes of data are at the indices from i to j.
Count(b, i, j) == Cardinality(DataBetween(b, i, j))

\* A message is begun: its bytes were looked at to the last one.
Begun ==
    /\ buf \in Kept
    /\ buf.class = "Buffer"
    /\ start \in 1..Len(buf.bytes)
    /\ offset = Len(buf.bytes) + 1
    /\ len = 2 + Count(buf.bytes, start, offset - 1)

ParserInv ==
    /\ fed \in Seq(FlowChunks)
    /\ (\A i \in DOMAIN fed : Uncut(fed[i])) =>
          /\ ~hung
          /\ buf = Null \/ buf \in Kept
          /\ (start = 0 /\ offset = 0) \/ Begun

\* A set of naturals that is not empty has a least element.
LEMMA LeastByte ==
    ASSUME NEW T \in SUBSET Nat, T # {}
    PROVE  Min(T) \in T /\ \A y \in T : Min(T) <= y
<1> DEFINE R == OpToRel(<, Nat)
<1>1. IsWellFoundedOn(R, Nat)
  BY NatLessThanWellFounded
<1>2. \A x, y \in Nat : <<y, x>> \in R <=> y < x
  BY DEF OpToRel
<1> HIDE DEF R
<1>3. PICK x \in T : \A y \in T : ~ (<<y, x>> \in R)
  BY <1>1, WFMin
<1>4. \A y \in T : ~(y < x)
  BY <1>2, <1>3
<1>5. \A y \in T : x <= y
  BY <1>4
<1> QED
  BY <1>3, <1>5 DEF Min

LEMMA CountType ==
    ASSUME NEW b, NEW i \in Nat, NEW j \in Int
    PROVE  IsFiniteSet(DataBetween(b, i, j)) /\ Count(b, i, j) \in Nat
<1>1. IsFiniteSet(i..j)
  BY FS_Interval
<1>2. DataBetween(b, i, j) \in SUBSET (i..j)
  BY DEF DataBetween
<1> QED
  BY <1>1, <1>2, FS_Subset, FS_CardinalityType DEF Count

LEMMA CountAdds ==
    ASSUME NEW b, NEW i \in Nat, NEW f \in Nat, NEW j \in Nat, i <= f, f <= j
    PROVE  Count(b, i, j - 1) = Count(b, i, f - 1) + Count(b, f, j - 1)
<1> DEFINE A == DataBetween(b, i, f - 1)
           B == DataBetween(b, f, j - 1)
<1>1. IsFiniteSet(A) /\ IsFiniteSet(B)
  BY CountType
<1>2. A \cap B = {}
  BY DEF DataBetween
<1>3. A \cup B = DataBetween(b, i, j - 1)
  BY DEF DataBetween
<1>4. Cardinality(A \cap B) = 0
  BY <1>2, FS_EmptySet
<1>5. /\ Cardinality(A \cup B) = Cardinality(A) + Cardinality(B) - Cardinality(A \cap B)
      /\ Cardinality(A) \in Nat /\ Cardinality(B) \in Nat
  BY <1>1, FS_Union, FS_CardinalityType
<1> HIDE DEF A, B
<1>6. Cardinality(A \cup B) = Cardinality(A) + Cardinality(B)
  BY <1>4, <1>5
<1> QED
  BY <1>3, <1>6 DEF Count, A, B

LEMMA CountGrows ==
    ASSUME NEW b, NEW i \in Nat, NEW f \in Nat, NEW j \in Nat, f <= j
    PROVE  Count(b, i, f) <= Count(b, i, j)
<1>1. DataBetween(b, i, f) \subseteq DataBetween(b, i, j)
  BY DEF DataBetween
<1> QED
  BY <1>1, CountType, FS_Subset DEF Count

\* What is looked at does not change when more bytes come.
LEMMA CountKept ==
    ASSUME NEW S, NEW b \in Seq(S), NEW c \in Seq(S), NEW i \in 1..Len(b)
    PROVE  Count(b \o c, i, Len(b)) = Count(b, i, Len(b))
<1>1. \A k \in 1..Len(b) : (b \o c)[k] = b[k]
  BY ConcatProperties
<1>2. DataBetween(b \o c, i, Len(b)) = DataBetween(b, i, Len(b))
  BY <1>1 DEF DataBetween
<1> QED
  BY <1>2 DEF Count

\* Where a message begins.
LEMMA FirstF0Facts ==
    ASSUME NEW b \in Seq(Byte)
    PROVE  \/ FirstF0(b) = 0
           \/ FirstF0(b) \in 1..Len(b) /\ b[FirstF0(b)] = F0
<1> DEFINE T == { i \in 1..Len(b) : b[i] = F0 }
<1>1. CASE F0 \in ToSet(b)
  <2>1. T # {} /\ T \in SUBSET Nat
    BY <1>1 DEF ToSet
  <2>2. FirstF0(b) = Min(T)
    BY <1>1, <2>1 DEF FirstF0, SelectInSeq
  <2>3. Min(T) \in T
    BY <2>1, LeastByte
  <2> QED
    BY <2>2, <2>3
<1> QED
  BY <1>1 DEF FirstF0

\* What the chunk makes of what was kept.
LEMMA AddedFacts ==
    ASSUME NEW chunk \in FlowChunks, NEW b \in Added(chunk),
           buf = Null \/ buf \in Kept
    PROVE  /\ b \in Kept
           /\ buf = Null => b.bytes = chunk
           /\ buf # Null => b.class = "Buffer"
           /\ Begun => b.bytes = buf.bytes \o chunk
<1>1. chunk \in Seq(Byte) /\ OldMemory \subseteq Byte /\ Null \notin Kept
  BY ParserAssumption DEF Kept
<1>2. CASE buf = Null
  BY <1>1, <1>2 DEF Added, Array, Kept, Begun
<1>3. CASE buf \in Kept /\ buf.class = "Buffer"
  <2>1. buf.bytes \o chunk \in Seq(Byte)
    BY <1>1, <1>3, ConcatProperties DEF Kept
  <2>2. b = Buffer(buf.bytes \o chunk)
    BY <1>1, <1>3 DEF Added
  <2> QED
    BY <1>1, <1>3, <2>1, <2>2 DEF Buffer, Kept
<1>4. CASE buf \in Kept /\ buf.class # "Buffer"
  <2>1. PICK g \in [1..(Len(buf.bytes) + 1) -> OldMemory] : b = Buffer(g)
    BY <1>1, <1>4 DEF Added
  <2>2. Len(buf.bytes) + 1 \in Nat
    BY <1>4 DEF Kept
  <2>3. g \in Seq(Byte)
    BY <1>1, <2>1, <2>2, SeqDef
  <2> QED
    BY <1>1, <1>4, <2>1, <2>3 DEF Buffer, Kept, Begun
<1> QED
  BY <1>2, <1>3, <1>4

\* The bytes of data that sysex_len counts are there, and more may follow.
LEMMA ScanEnds ==
    ASSUME NEW b \in Kept, NEW s \in 1..Len(b.bytes), Scan(b, s), ~hung,
           offset = 0 \/ ( /\ offset \in s..(Len(b.bytes) + 1)
                           /\ offset # 0
                           /\ len = 2 + Count(b.bytes, s, offset - 1) )
    PROVE  LET from == IF offset = 0 THEN s ELSE offset
           IN  /\ ~hung'
               /\ \/ /\ start' = 0 /\ offset' = 0
                     /\ buf' = Null \/ buf' \in Kept
                  \/ /\ \A k \in from..Len(b.bytes) : b.bytes[k] # F7
                     /\ start' = s
                     /\ offset' = Len(b.bytes) + 1
                     /\ len' = 2 + Count(b.bytes, s, offset' - 1)
                     /\ buf' = b
<1> DEFINE from == IF offset = 0 THEN s ELSE offset
           known == IF offset = 0 THEN 2 ELSE len
           m == Len(b.bytes)
           Upto(k) == known + Count(b.bytes, from, k - 1)
           ends == { k \in from..m : b.bytes[k] = F7 }
<1>1. m \in Nat /\ s \in 1..m /\ s \in Nat /\ b.bytes \in Seq(Byte)
  BY DEF Kept
<1>2. from \in s..(m + 1) /\ from \in Nat /\ s <= from
  BY <1>1
<1>3. ASSUME NEW k \in from..(m + 1)
      PROVE  Upto(k) = 2 + Count(b.bytes, s, k - 1)
  <2>1. k \in Nat /\ from <= k
    BY <1>2, <1>3
  <2>2. CASE offset = 0
    BY <2>2
  <2>3. CASE offset # 0
    <3>1. from = offset /\ known = 2 + Count(b.bytes, s, from - 1)
      BY <2>3
    <3>2. Count(b.bytes, s, k - 1) = Count(b.bytes, s, from - 1) + Count(b.bytes, from, k - 1)
      BY <1>1, <1>2, <2>1, CountAdds
    <3>3. Count(b.bytes, s, from - 1) \in Nat /\ Count(b.bytes, from, k - 1) \in Nat
      BY <1>1, <1>2, <2>1, CountType
    <3> HIDE DEF from, known
    <3> QED
      BY <3>1, <3>2, <3>3
  <2> QED
    BY <2>2, <2>3
<1>4. CASE ends # {}
  <2> DEFINE e == Min(ends)
             n == Upto(e)
  <2>1. ends \in SUBSET Nat
    BY <1>1, <1>2
  <2>2. e \in ends
    BY <1>4, <2>1, LeastByte
  <2>3. e \in from..m /\ e \in from..(m + 1) /\ e \in Nat /\ e <= m /\ s <= e
    BY <1>1, <1>2, <2>2
  <2>4. Finish(b, s, e, n)
    BY <1>4 DEF Scan, InitialLen, Count
  <2>5. n = 2 + Count(b.bytes, s, e - 1)
    BY <1>3, <2>3
  <2>6. Count(b.bytes, s, e - 1) <= Count(b.bytes, s, m)
    BY <1>1, <2>3, CountGrows
  <2>7. /\ Count(b.bytes, s, e - 1) \in Nat /\ Count(b.bytes, s, m) \in Nat
    BY <1>1, <2>3, CountType
  <2> HIDE DEF n, e
  <2>8. ~(Count(b.bytes, s, m) < n - 2)
    BY <2>5, <2>6, <2>7
  <2>9. /\ start' = 0 /\ offset' = 0 /\ hung' = hung
        /\ buf' = Rest(b, StopsBefore(b.bytes, s, n))
    BY <2>4, <2>8 DEF Finish, Count
  <2>10. StopsBefore(b.bytes, s, n) \in s..m
    <3> DEFINE Stops == { k \in s..m : Count(b.bytes, s, k - 1) >= n - 2 }
    <3>1. Stops \in SUBSET Nat
      BY <1>1
    <3>2. e \in Stops
      BY <1>1, <2>3, <2>5, <2>7
    <3>3. Min(Stops) \in Stops
      BY <3>1, <3>2, LeastByte
    <3>4. StopsBefore(b.bytes, s, n) = Min(Stops)
      BY DEF StopsBefore, Count
    <3> QED
      BY <3>3, <3>4
  <2>11. buf' = Null \/ buf' \in Kept
    <3> DEFINE i == StopsBefore(b.bytes, s, n)
    <3>1. SubSeq(b.bytes, i, m) \in Seq(Byte)
      BY <1>1, <2>10, SubSeqProperties
    <3> HIDE DEF i
    <3>2. [b EXCEPT !.bytes = SubSeq(b.bytes, i, m)] \in Kept
      BY <3>1 DEF Kept
    <3> QED
      BY <2>9, <3>2 DEF Rest, i
  <2> QED
    BY <2>9, <2>11
<1>5. CASE ends = {}
  <2>1. /\ start' = s /\ offset' = m + 1 /\ len' = Upto(m + 1)
        /\ buf' = b /\ hung' = hung
    BY <1>5 DEF Scan, InitialLen, Count
  <2>2. m + 1 \in from..(m + 1)
    BY <1>1, <1>2
  <2>3. len' = 2 + Count(b.bytes, s, (m + 1) - 1)
    BY <1>3, <2>1, <2>2
  <2> QED
    BY <1>5, <2>1, <2>3
<1> QED
  BY <1>4, <1>5

LEMMA ParserStarts == ParserInit => ParserInv
<1>1. ParserInit => fed = <<>> /\ ~hung /\ buf = Null /\ start = 0 /\ offset = 0
  BY Zenon DEF ParserInit
<1>2. <<>> \in Seq(FlowChunks)
  OBVIOUS
<1> QED
  BY <1>1, <1>2 DEF ParserInv

LEMMA ParserStep ==
    ASSUME ParserInv, [ParserNext]_parserVars
    PROVE  ParserInv'
<1>1. CASE UNCHANGED parserVars
  BY <1>1 DEF parserVars, ParserInv, Begun, Count, DataBetween
<1>2. ASSUME NEW chunk \in FlowChunks, Parse(chunk)
      PROVE  ParserInv'
  <2>1. fed' = Append(fed, chunk) /\ fed \in Seq(FlowChunks)
    BY <1>2 DEF Parse, ParserInv
  <2>2. /\ fed' \in Seq(FlowChunks)
        /\ Len(fed') = Len(fed) + 1 /\ fed'[Len(fed) + 1] = chunk
        /\ \A i \in 1..Len(fed) : fed'[i] = fed[i]
        /\ DOMAIN fed = 1..Len(fed) /\ DOMAIN fed' = 1..Len(fed') /\ Len(fed) \in Nat
    BY <2>1, AppendProperties
  <2>3. SUFFICES ASSUME \A i \in DOMAIN fed' : Uncut(fed'[i])
                 PROVE  /\ ~hung'
                        /\ buf' = Null \/ buf' \in Kept
                        /\ (start' = 0 /\ offset' = 0) \/ Begun'
    BY <2>2 DEF ParserInv
  <2>4. Uncut(chunk)
    <3>1. Len(fed) + 1 \in DOMAIN fed'
      BY <2>2
    <3> QED
      BY <2>2, <2>3, <3>1
  <2>5. \A i \in DOMAIN fed : Uncut(fed[i])
    <3>1. ASSUME NEW i \in DOMAIN fed
          PROVE  i \in DOMAIN fed' /\ fed'[i] = fed[i]
      BY <2>2
    <3> QED
      BY <2>3, <3>1
  <2>6. /\ ~hung
        /\ buf = Null \/ buf \in Kept
        /\ (start = 0 /\ offset = 0) \/ Begun
    BY <2>5 DEF ParserInv
  <2>7. Null \notin Kept
    BY ParserAssumption DEF Kept
  <2>8. PICK b \in Added(chunk) :
           LET s == IF buf = Null \/ start = 0 THEN FirstF0(b.bytes) ELSE start
           IN  IF s # 0
               THEN Scan(b, s)
               ELSE /\ buf' = Null
                    /\ start' = 0
                    /\ offset' = 0
                    /\ len' = 0
                    /\ UNCHANGED <<hung, called>>
    BY <1>2 DEF Parse
  <2> DEFINE s == IF buf = Null \/ start = 0 THEN FirstF0(b.bytes) ELSE start
  <2>9. /\ b \in Kept /\ b.bytes \in Seq(Byte)
        /\ buf = Null => b.bytes = chunk
        /\ buf # Null => b.class = "Buffer"
        /\ Begun => b.bytes = buf.bytes \o chunk
    BY <2>6, AddedFacts DEF Kept
  <2>10. CASE s = 0
    <3>1. buf' = Null /\ start' = 0 /\ offset' = 0 /\ hung' = hung
      BY <2>8, <2>10
    <3> QED
      BY <2>6, <3>1
  <2>11. CASE s # 0
    <3>1. Scan(b, s)
      BY <2>8, <2>11
    <3>2. CASE start = 0 /\ offset = 0
      <4>1. s \in 1..Len(b.bytes) /\ b.bytes[s] = F0
        BY <2>9, <2>11, <3>2, FirstF0Facts
      <4>2. /\ ~hung'
            /\ \/ /\ start' = 0 /\ offset' = 0
                  /\ buf' = Null \/ buf' \in Kept
               \/ /\ \A k \in s..Len(b.bytes) : b.bytes[k] # F7
                  /\ start' = s
                  /\ offset' = Len(b.bytes) + 1
                  /\ len' = 2 + Count(b.bytes, s, offset' - 1)
                  /\ buf' = b
        BY <2>6, <2>9, <3>1, <3>2, <4>1, ScanEnds
      <4>3. CASE buf = Null
        <5>1. b.bytes = chunk
          BY <2>9, <4>3
        <5>2. \E j \in s..Len(chunk) : chunk[j] = F7
          BY <2>4, <4>1, <5>1 DEF Uncut
        <5> QED
          BY <4>2, <5>1, <5>2
      <4>4. CASE buf # Null
        <5>1. b.class = "Buffer"
          BY <2>9, <4>4
        <5>2. CASE start' = s /\ offset' = Len(b.bytes) + 1
                   /\ len' = 2 + Count(b.bytes, s, offset' - 1) /\ buf' = b
          BY <2>9, <4>1, <4>2, <5>1, <5>2 DEF Begun, Count
        <5> QED
          BY <4>2, <5>2
      <4> QED
        BY <4>3, <4>4
    <3>3. CASE Begun
      <4>1. /\ s = start /\ buf # Null /\ b.class = "Buffer"
            /\ b.bytes = buf.bytes \o chunk
            /\ start \in 1..Len(buf.bytes) /\ offset = Len(buf.bytes) + 1
            /\ len = 2 + Count(buf.bytes, start, Len(buf.bytes))
            /\ buf.bytes \in Seq(Byte) /\ chunk \in Seq(Byte)
        <5>1. buf # Null /\ start # 0
          BY <2>7, <3>3 DEF Begun
        <5>2. chunk \in Seq(Byte)
          BY ParserAssumption
        <5>3. buf.bytes \in Seq(Byte) /\ Len(buf.bytes) \in Nat
          BY <3>3 DEF Begun, Kept
        <5> QED
          BY <2>9, <3>3, <5>1, <5>2, <5>3 DEF Begun
      <4>2. /\ Len(b.bytes) = Len(buf.bytes) + Len(chunk)
            /\ Len(buf.bytes) \in Nat /\ Len(chunk) \in Nat
        BY <4>1, ConcatProperties
      <4>3. /\ s \in 1..Len(b.bytes) /\ offset \in s..(Len(b.bytes) + 1)
            /\ offset # 0 /\ offset - 1 = Len(buf.bytes)
        BY <4>1, <4>2
      <4>4. len = 2 + Count(b.bytes, s, offset - 1)
        BY <4>1, <4>3, CountKept
      <4>5. /\ ~hung'
            /\ \/ /\ start' = 0 /\ offset' = 0
                  /\ buf' = Null \/ buf' \in Kept
               \/ /\ start' = s
                  /\ offset' = Len(b.bytes) + 1
                  /\ len' = 2 + Count(b.bytes, s, offset' - 1)
                  /\ buf' = b
        BY <2>6, <2>9, <3>1, <4>3, <4>4, ScanEnds
      <4>6. CASE start' = s /\ offset' = Len(b.bytes) + 1
                 /\ len' = 2 + Count(b.bytes, s, offset' - 1) /\ buf' = b
        BY <2>9, <4>1, <4>3, <4>5, <4>6 DEF Begun, Count
      <4> QED
        BY <4>5, <4>6
    <3> QED
      BY <2>6, <3>2, <3>3
  <2> QED
    BY <2>10, <2>11
<1> QED
  BY <1>1, <1>2 DEF ParserNext

\* sysex.js lines 91-96: as long as no chunk cuts a message the loop that
\* copies one ends, for any chunks and any old memory.
THEOREM ParserNeverHangs == ParserSpec => []NeverHangs
<1>1. ParserInv => NeverHangs
  BY DEF ParserInv, NeverHangs
<1>2. ParserInv /\ [ParserNext]_parserVars => ParserInv'
  BY ParserStep
<1> QED
  BY <1>1, <1>2, ParserStarts, PTL DEF ParserSpec

=============================================================================
