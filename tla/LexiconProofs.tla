---------------------------- MODULE LexiconProofs -----------------------------
(***************************************************************************)
(* Proofs about two parts of lexicon.js.                                   *)
(*                                                                         *)
(* UsedSteps, for any number of effects but one, any calls, retries,       *)
(* losses and changes: a call of getUsedSteps is answered once, and the    *)
(* one that reads gets nothing that was read before it was made.           *)
(*                                                                         *)
(* Parameters, for any descriptions, values and configuration that fit in  *)
(* the fields of the messages, and any numbers asked for: what is put in   *)
(* nibbles is read again, the editor's description is the device's, and a  *)
(* dump is of the program asked for.                                       *)
(***************************************************************************)
EXTENDS UsedSteps, Parameters, SequenceTheorems, WellFoundedInduction, TLAPS

-----------------------------------------------------------------------------
(* The inductive invariant *)

\* A call that was made has been answered once, or it reads or waits while
\* the algorithms are being read.
Calls ==
    /\ getting <=> first # Nobody
    /\ ~getting => waiting = <<>>
    /\ first \cup ToSet(waiting) = { c \in called : results[c] = <<>> }
    /\ \A c \in Callers : /\ Len(results[c]) <= 1
                          /\ c \notin called => results[c] = <<>>

\* What is on its way is for the effect being read, or a repeated first read
\* or its answer; behind a read that is not a first one there is nothing.
Line ==
    /\ ~getting => answers = <<>> /\ reads = <<>>
    /\ timer => getting /\ index = 1
    /\ \A k \in DOMAIN reads :
          /\ reads[k] \in {1, index}
          /\ index > 1 /\ reads[k] = index => k = Len(reads)
    /\ \A k \in DOMAIN answers :
          /\ answers[k].effect \in {1, index}
          /\ index > 1 /\ answers[k].effect = index
                => k = Len(answers) /\ reads = <<>>

\* What was read for a call, and what is on its way, was loaded since then.
Fresh ==
    /\ getting => Len(steps) = index - 1
    /\ \A c \in called : \A e \in Effects : loaded[e] \in sinceCall[c][e]
    /\ \A c \in first :
          /\ \A k \in DOMAIN answers :
                answers[k].algorithm \in sinceCall[c][answers[k].effect]
          /\ \A e \in DOMAIN steps : steps[e] \in sinceCall[c][e]

StepsInv == TypeOK /\ Calls /\ Line /\ Fresh

-----------------------------------------------------------------------------
(* The steps *)

LEMMA StepsInit == Init => StepsInv
<1> SUFFICES ASSUME Init
             PROVE  StepsInv
  OBVIOUS
<1> USE UsedStepsAssumption DEF Init
<1>1. TypeOK
  <2>1. 1 \in Effects
    BY DEF Effects
  <2>2. <<>> \in Seq(Callers) /\ <<>> \in Seq(Algorithms) /\ <<>> \in Seq(Effects)
        /\ <<>> \in Seq([effect : Effects, algorithm : Algorithms])
        /\ <<>> \in Seq([Effects -> Algorithms])
    BY EmptySeq
  <2> QED
    BY <2>1, <2>2 DEF TypeOK, Nobody
<1>2. Calls
  BY DEF Calls, Nobody, ToSet
<1>3. Line /\ Fresh
  BY DEF Line, Fresh, Nobody
<1> QED
  BY <1>1, <1>2, <1>3 DEF StepsInv

\* A call that joins: it waits.
LEMMA JoiningKeeps ==
    ASSUME StepsInv, NEW c \in Callers, Call(c), getting
    PROVE  StepsInv'
<1> USE DEF StepsInv, TypeOK
<1>1. /\ c \notin called /\ called' = called \cup {c}
      /\ sinceCall' = [sinceCall EXCEPT ![c] = [e \in Effects |-> {loaded[e]}]]
      /\ waiting' = Append(waiting, c)
      /\ UNCHANGED <<getting, first, index, steps, timer, retry, reads, answers,
                     exited, results, loaded>>
  BY DEF Call, Joined
<1>2. c \notin first /\ results[c] = <<>>
  BY <1>1 DEF Calls
<1>3. /\ waiting' \in Seq(Callers)
      /\ ToSet(waiting') = ToSet(waiting) \cup {c}
  <2>1. /\ Len(waiting) \in Nat /\ Len(waiting') = Len(waiting) + 1
        /\ waiting' \in Seq(Callers)
        /\ waiting'[Len(waiting) + 1] = c
        /\ \A k \in 1..Len(waiting) : waiting'[k] = waiting[k]
    BY <1>1, AppendProperties
  <2>2. DOMAIN waiting = 1..Len(waiting)
        /\ DOMAIN waiting' = 1..Len(waiting) \cup {Len(waiting) + 1}
    BY <2>1
  <2> HIDE DEF StepsInv, TypeOK
  <2> QED
    BY <2>1, <2>2 DEF ToSet
<1>4. \A x \in Callers \ {c} : sinceCall'[x] = sinceCall[x]
  BY <1>1
<1>5. sinceCall'[c] = [e \in Effects |-> {loaded[e]}]
  BY <1>1
<1>6. TypeOK'
  <2>1. sinceCall' \in [Callers -> [Effects -> SUBSET Algorithms]]
    BY <1>1
  <2> QED
    BY <1>1, <1>3, <2>1
<1>7. Calls'
  BY <1>1, <1>2, <1>3 DEF Calls
<1>8. Line'
  BY <1>1 DEF Line
<1>9. Fresh'
  BY <1>1, <1>2, <1>4, <1>5 DEF Fresh
<1> QED
  BY <1>6, <1>7, <1>8, <1>9

\* A call that reads: nothing is on its way.
LEMMA ReadingKeeps ==
    ASSUME StepsInv, NEW c \in Callers, Call(c), ~getting, asks
    PROVE  StepsInv'
<1> USE UsedStepsAssumption DEF StepsInv, TypeOK
<1>1. /\ c \notin called /\ called' = called \cup {c}
      /\ sinceCall' = [sinceCall EXCEPT ![c] = [e \in Effects |-> {loaded[e]}]]
      /\ getting' = TRUE /\ first' = {c} /\ index' = 1 /\ steps' = <<>>
      /\ timer' = TRUE /\ reads' = Append(reads, 1)
      /\ UNCHANGED <<waiting, answers, exited, results, loaded>>
  BY DEF Call, ReadFirst
<1>2. answers = <<>> /\ reads = <<>> /\ waiting = <<>> /\ first = {}
  BY DEF Line, Calls, Nobody
<1>3. 1 \in Effects
  BY DEF Effects
<1>4. reads' = <<1>> /\ DOMAIN reads' = {1} /\ reads'[1] = 1 /\ Len(reads') = 1
  BY <1>1, <1>2
<1>5. reads' \in Seq(Effects)
  BY <1>1, <1>3
<1>6. /\ sinceCall'[c] = [e \in Effects |-> {loaded[e]}]
      /\ \A x \in Callers \ {c} : sinceCall'[x] = sinceCall[x]
      /\ sinceCall' \in [Callers -> [Effects -> SUBSET Algorithms]]
  BY <1>1
<1>7. TypeOK'
  <2>1. steps' \in Seq(Algorithms)
    BY <1>1, EmptySeq
  <2> QED
    BY <1>1, <1>3, <1>5, <1>6, <2>1
<1>8. Calls'
  BY <1>1, <1>2 DEF Calls, Nobody, ToSet
<1>9. Line'
  BY <1>1, <1>2, <1>4 DEF Line
<1>10. Fresh'
  BY <1>1, <1>2, <1>6 DEF Fresh
<1> QED
  BY <1>7, <1>8, <1>9, <1>10

\* A call that is answered zeros at once.
LEMMA ZerosKeep ==
    ASSUME StepsInv, NEW c \in Callers, Call(c), ~getting, ~asks
    PROVE  StepsInv'
<1> DEFINE r == Result(<<>>)
<1>1. /\ c \notin called /\ called' = called \cup {c}
      /\ sinceCall' = [sinceCall EXCEPT ![c] = [e \in Effects |-> {loaded[e]}]]
      /\ results' = [results EXCEPT ![c] = Append(@, r)]
      /\ UNCHANGED <<getting, first, waiting, index, steps, timer, reads, answers,
                     exited, loaded>>
  BY DEF Call, readVars
<1>2. r \in [Effects -> Algorithms]
  BY UsedStepsAssumption DEF Result
<1> HIDE DEF r
<1>3. /\ results \in [Callers -> Seq([Effects -> Algorithms])]
      /\ sinceCall \in [Callers -> [Effects -> SUBSET Algorithms]]
      /\ loaded \in [Effects -> Algorithms] /\ called \subseteq Callers
  BY DEF StepsInv, TypeOK
<1>4. results[c] = <<>> /\ c \notin first \cup ToSet(waiting)
  BY <1>1 DEF StepsInv, Calls
<1>5. /\ results'[c] = <<r>> /\ <<r>> # <<>> /\ Len(<<r>>) = 1
      /\ <<r>> \in Seq([Effects -> Algorithms])
      /\ \A x \in Callers \ {c} : results'[x] = results[x]
      /\ DOMAIN results' = Callers
  BY <1>1, <1>2, <1>3, <1>4
<1>6. /\ sinceCall'[c] = [e \in Effects |-> {loaded[e]}]
      /\ \A x \in Callers \ {c} : sinceCall'[x] = sinceCall[x]
      /\ sinceCall' \in [Callers -> [Effects -> SUBSET Algorithms]]
  BY <1>1, <1>3
<1>7. TypeOK'
  <2>1. results' \in [Callers -> Seq([Effects -> Algorithms])]
    BY <1>1, <1>3, <1>5
  <2> QED
    BY <1>1, <1>6, <2>1 DEF StepsInv, TypeOK
<1>8. Calls'
  <2>1. \A x \in Callers : /\ Len(results[x]) <= 1
                           /\ x \notin called => results[x] = <<>>
    BY DEF StepsInv, Calls
  <2>2. \A x \in Callers : /\ Len(results'[x]) <= 1
                           /\ x \notin called' => results'[x] = <<>>
    BY <1>1, <1>5, <2>1
  <2>3. { x \in called' : results'[x] = <<>> } = { x \in called : results[x] = <<>> }
    BY <1>1, <1>3, <1>5
  <2> QED
    BY <1>1, <2>2, <2>3 DEF StepsInv, Calls
<1>9. Line'
  BY <1>1 DEF StepsInv, Line
<1>10. Fresh'
  BY <1>1, <1>3, <1>4, <1>6 DEF StepsInv, Fresh
<1> QED
  BY <1>7, <1>8, <1>9, <1>10 DEF StepsInv

-----------------------------------------------------------------------------
(* What is on its way *)

LEMMA OneLess ==
    ASSUME NEW S, NEW q \in Seq(S), q # <<>>
    PROVE  /\ Len(q) \in Nat /\ 1 \in DOMAIN q
           /\ Head(q) = q[1] /\ Head(q) \in S
           /\ Tail(q) \in Seq(S) /\ Len(Tail(q)) = Len(q) - 1
           /\ 1 = Len(q) => Tail(q) = <<>>
           /\ \A k \in DOMAIN Tail(q) :
                 k \in Nat /\ k + 1 \in DOMAIN q /\ Tail(q)[k] = q[k + 1]
<1> DEFINE n == Len(q)
           t == Tail(q)
<1>1. n \in Nat /\ n > 0 /\ DOMAIN q = 1..n
  BY EmptySeq
<1>2. /\ Head(q) \in S /\ t \in Seq(S) /\ Len(t) = n - 1
      /\ \A k \in 1..Len(t) : t[k] = q[k + 1]
  BY HeadTailProperties
<1>3. DOMAIN t = 1..(n - 1)
  BY <1>2
<1>4. Head(q) = q[1]
  OBVIOUS
<1> HIDE DEF n, t
<1>5. n = 1 => t = <<>>
  BY <1>2, EmptySeq
<1> QED
  BY <1>1, <1>2, <1>3, <1>4, <1>5 DEF n, t

LEMMA EndOrBefore ==
    ASSUME NEW S, NEW q \in Seq(S), NEW x \in S
    PROVE  /\ Append(q, x) \in Seq(S) /\ Len(q) \in Nat
           /\ Len(Append(q, x)) = Len(q) + 1
           /\ \A k \in DOMAIN Append(q, x) :
                 \/ k \in DOMAIN q /\ Append(q, x)[k] = q[k]
                 \/ k = Len(q) + 1 /\ Append(q, x)[k] = x
<1> DEFINE n == Len(q)
           t == Append(q, x)
<1>1. n \in Nat /\ DOMAIN q = 1..n
  OBVIOUS
<1>2. /\ t \in Seq(S) /\ Len(t) = n + 1 /\ t[n + 1] = x
      /\ \A k \in 1..n : t[k] = q[k]
  BY AppendProperties
<1>3. DOMAIN t = 1..(n + 1)
  BY <1>2
<1> HIDE DEF n, t
<1> QED
  BY <1>1, <1>2, <1>3 DEF n, t

Records == [effect : Effects, algorithm : Algorithms]

\* The head of what is on its way, and the rest of it.
LEMMA AnswerTaken ==
    ASSUME StepsInv, answers # <<>>
    PROVE  /\ getting
           /\ Head(answers) \in Records
           /\ Head(answers).effect \in {1, index}
           /\ \A c \in first :
                 Head(answers).algorithm \in sinceCall[c][Head(answers).effect]
           /\ index > 1 /\ Head(answers).effect = index
                 => Tail(answers) = <<>> /\ reads = <<>>
           /\ Tail(answers) \in Seq(Records)
           /\ \A k \in DOMAIN Tail(answers) :
                 /\ Tail(answers)[k].effect \in {1, index}
                 /\ index > 1 /\ Tail(answers)[k].effect = index
                       => k = Len(Tail(answers)) /\ reads = <<>>
                 /\ \A c \in first :
                       Tail(answers)[k].algorithm
                          \in sinceCall[c][Tail(answers)[k].effect]
<1> DEFINE t == Tail(answers)
<1>1. answers \in Seq(Records)
  BY DEF StepsInv, TypeOK, Records
<1>2. /\ Len(answers) \in Nat /\ 1 \in DOMAIN answers
      /\ Head(answers) = answers[1] /\ Head(answers) \in Records
      /\ t \in Seq(Records) /\ Len(t) = Len(answers) - 1
      /\ 1 = Len(answers) => t = <<>>
      /\ \A k \in DOMAIN t :
            k \in Nat /\ k + 1 \in DOMAIN answers /\ t[k] = answers[k + 1]
  BY <1>1, OneLess
<1> HIDE DEF t
<1>4. getting
  BY DEF StepsInv, Line
<1>5. /\ \A k \in DOMAIN answers :
            /\ answers[k].effect \in {1, index}
            /\ index > 1 /\ answers[k].effect = index
                  => k = Len(answers) /\ reads = <<>>
      /\ \A c \in first : \A k \in DOMAIN answers :
            answers[k].algorithm \in sinceCall[c][answers[k].effect]
  BY DEF StepsInv, Line, Fresh
<1>6. \A k \in DOMAIN t :
         /\ t[k].effect \in {1, index}
         /\ index > 1 /\ t[k].effect = index => k = Len(t) /\ reads = <<>>
         /\ \A c \in first : t[k].algorithm \in sinceCall[c][t[k].effect]
  <2> TAKE k \in DOMAIN t
  <2>1. k \in Nat /\ k + 1 \in DOMAIN answers /\ t[k] = answers[k + 1]
    BY <1>2
  <2>2. k + 1 = Len(answers) => k = Len(t)
    BY <1>2, <2>1
  <2> QED
    BY <1>5, <2>1, <2>2
<1> QED
  BY <1>2, <1>4, <1>5, <1>6 DEF t

-----------------------------------------------------------------------------
(* The other steps *)

\* An answer that is thrown away, or that ends the program.
LEMMA ThrowingAwayKeeps ==
    ASSUME StepsInv, answers # <<>>, answers' = Tail(answers),
           timer' \in {FALSE, timer},
           UNCHANGED <<getting, first, waiting, index, steps, reads, called,
                       results, loaded, sinceCall>>
    PROVE  StepsInv'
<1>1. /\ Tail(answers) \in Seq(Records) /\ getting
      /\ \A k \in DOMAIN Tail(answers) :
            /\ Tail(answers)[k].effect \in {1, index}
            /\ index > 1 /\ Tail(answers)[k].effect = index
                  => k = Len(Tail(answers)) /\ reads = <<>>
            /\ \A c \in first :
                  Tail(answers)[k].algorithm \in sinceCall[c][Tail(answers)[k].effect]
  BY AnswerTaken
<1>2. TypeOK'
  <2>1. timer' \in BOOLEAN
    BY DEF StepsInv, TypeOK
  <2>2. answers' \in Seq([effect : Effects, algorithm : Algorithms])
    BY <1>1 DEF Records
  <2> QED
    BY <2>1, <2>2 DEF StepsInv, TypeOK
<1>3. Calls'
  BY DEF StepsInv, Calls
<1>4. Line'
  <2>1. timer' => timer
    OBVIOUS
  <2>2. /\ timer => getting /\ index = 1
        /\ \A k \in DOMAIN reads :
              /\ reads[k] \in {1, index}
              /\ index > 1 /\ reads[k] = index => k = Len(reads)
    BY DEF StepsInv, Line
  <2>3. \A k \in DOMAIN answers' :
           /\ answers'[k].effect \in {1, index}
           /\ index > 1 /\ answers'[k].effect = index
                 => k = Len(answers') /\ reads = <<>>
    BY <1>1
  <2> QED
    BY <1>1, <2>1, <2>2, <2>3 DEF Line
<1>5. Fresh'
  BY <1>1 DEF StepsInv, Fresh
<1> QED
  BY <1>2, <1>3, <1>4, <1>5 DEF StepsInv

\* The read algorithm is added, and the next effect is read.
LEMMA GoingOnKeeps ==
    ASSUME StepsInv, answers # <<>>, Head(answers).effect = index, ~IsLast(index),
           answers' = Tail(answers), ReadNext(Append(steps, Head(answers).algorithm)),
           UNCHANGED <<called, sinceCall, loaded>>
    PROVE  StepsInv'
<1> DEFINE a == Head(answers)
<1>1. /\ getting /\ a \in Records
      /\ \A c \in first : a.algorithm \in sinceCall[c][a.effect]
      /\ index > 1 => Tail(answers) = <<>> /\ reads = <<>>
      /\ Tail(answers) \in Seq(Records)
      /\ \A k \in DOMAIN Tail(answers) :
            /\ Tail(answers)[k].effect \in {1, index}
            /\ \A c \in first :
                  Tail(answers)[k].algorithm \in sinceCall[c][Tail(answers)[k].effect]
  BY AnswerTaken
<1>2. a.effect = index /\ a.algorithm \in Algorithms
  BY <1>1 DEF Records
<1> HIDE DEF a
<1>3. /\ steps' = Append(steps, a.algorithm) /\ index' = index + 1
      /\ reads' = Append(reads, index + 1) /\ timer' = FALSE
      /\ UNCHANGED <<getting, first, waiting, results>>
  BY DEF ReadNext, a
<1>4. index \in 1..NumEffects /\ index + 1 \in Effects /\ index \in Nat
  BY UsedStepsAssumption DEF StepsInv, TypeOK, Effects, IsLast
<1>5. /\ steps' \in Seq(Algorithms) /\ Len(steps) = index - 1
      /\ Len(steps') = Len(steps) + 1
      /\ \A e \in DOMAIN steps' : \/ e \in DOMAIN steps /\ steps'[e] = steps[e]
                                  \/ e = Len(steps) + 1 /\ steps'[e] = a.algorithm
  <2>1. steps \in Seq(Algorithms) /\ Len(steps) = index - 1
    BY <1>1 DEF StepsInv, TypeOK, Fresh
  <2> QED
    BY <2>1, <1>2, <1>3, EndOrBefore
<1>6. /\ reads' \in Seq(Effects) /\ Len(reads') = Len(reads) + 1
      /\ \A k \in DOMAIN reads' : \/ k \in DOMAIN reads /\ reads'[k] = reads[k]
                                  \/ k = Len(reads) + 1 /\ reads'[k] = index + 1
  <2>1. reads \in Seq(Effects)
    BY DEF StepsInv, TypeOK
  <2> QED
    BY <2>1, <1>3, <1>4, EndOrBefore
<1>7. TypeOK'
  <2>1. answers' \in Seq([effect : Effects, algorithm : Algorithms])
    BY <1>1 DEF Records
  <2> QED
    BY <2>1, <1>3, <1>4, <1>5, <1>6 DEF StepsInv, TypeOK
<1>8. Calls'
  BY <1>3 DEF StepsInv, Calls
<1>9. \A k \in DOMAIN answers' : answers'[k].effect = 1
  <2>1. CASE index = 1
    BY <1>1, <2>1
  <2>2. CASE index > 1
    BY <1>1, <2>2
  <2> QED
    BY <1>4, <2>1, <2>2
<1>10. \A k \in DOMAIN reads' : \/ reads'[k] = 1
                                \/ reads'[k] = index' /\ k = Len(reads')
  <2>1. CASE index = 1
    <3>1. \A k \in DOMAIN reads : reads[k] = 1
      BY <2>1 DEF StepsInv, Line
    <3> QED
      BY <3>1, <1>3, <1>6
  <2>2. CASE index > 1
    <3>1. DOMAIN reads = {}
      BY <1>1, <2>2
    <3> QED
      BY <3>1, <1>3, <1>6
  <2> QED
    BY <1>4, <2>1, <2>2
<1>11. Line'
  BY <1>1, <1>3, <1>4, <1>9, <1>10 DEF Line
<1>12. Fresh'
  <2>1. \A c \in first : \A e \in DOMAIN steps' : steps'[e] \in sinceCall[c][e]
    BY <1>1, <1>2, <1>4, <1>5 DEF StepsInv, Fresh
  <2>2. Len(steps') = index' - 1
    BY <1>3, <1>4, <1>5
  <2> QED
    BY <1>1, <1>3, <2>1, <2>2 DEF StepsInv, Fresh
<1> QED
  BY <1>7, <1>8, <1>11, <1>12 DEF StepsInv

\* What each caller gets when the last effect has been read.
LEMMA FinishGives ==
    ASSUME StepsInv, answers # <<>>, Head(answers).effect = index, IsLast(index),
           Finish(Append(steps, Head(answers).algorithm))
    PROVE  LET r == Result(Append(steps, Head(answers).algorithm))
           IN  /\ r \in [Effects -> Algorithms]
               /\ \A c \in first : \A e \in Effects : r[e] \in sinceCall[c][e]
               /\ \A c \in Callers \ Served : results'[c] = results[c]
               /\ \A c \in Served : /\ results[c] = <<>>
                                    /\ c \in called
                                    /\ results'[c] = <<r>>
<1> DEFINE a == Head(answers)
           s == Append(steps, a.algorithm)
           r == Result(s)
<1>1. /\ getting /\ a \in Records
      /\ \A c \in first : a.algorithm \in sinceCall[c][a.effect]
  BY AnswerTaken
<1>2. a.effect = index /\ a.algorithm \in Algorithms
  BY <1>1 DEF Records
<1> HIDE DEF a
<1>3. index = NumEffects /\ index \in Nat /\ 0 \in Algorithms /\ Effects = 1..index
  BY UsedStepsAssumption DEF IsLast, Effects
<1>4. /\ s \in Seq(Algorithms) /\ Len(steps) = index - 1 /\ Len(s) = Len(steps) + 1
      /\ \A e \in DOMAIN s : \/ e \in DOMAIN steps /\ s[e] = steps[e]
                             \/ e = Len(steps) + 1 /\ s[e] = a.algorithm
  <2>1. steps \in Seq(Algorithms) /\ Len(steps) = index - 1
    BY <1>1 DEF StepsInv, TypeOK, Fresh
  <2> QED
    BY <2>1, <1>2, EndOrBefore
<1>5. DOMAIN s = Effects
  BY <1>3, <1>4
<1> HIDE DEF s
<1>6. r = [e \in Effects |-> s[e]]
  BY <1>5 DEF Result
<1>7. r \in [Effects -> Algorithms]
  BY <1>4, <1>5, <1>6
<1>8. \A c \in first : \A e \in Effects : r[e] \in sinceCall[c][e]
  <2>1. \A c \in first : \A e \in DOMAIN steps : steps[e] \in sinceCall[c][e]
    BY DEF StepsInv, Fresh
  <2>2. Len(steps) + 1 = index
    BY <1>3, <1>4
  <2> QED
    BY <2>1, <2>2, <1>1, <1>2, <1>4, <1>5, <1>6
<1> HIDE DEF r
<1>9. results' = [c \in Callers |-> IF c \in Served THEN Append(results[c], r)
                                    ELSE results[c]]
  BY DEF Finish, r, s, a
<1>10. \A c \in Served : c \in Callers /\ c \in called /\ results[c] = <<>>
  <2>1. Served = { c \in called : results[c] = <<>> }
    BY DEF StepsInv, Calls, Served
  <2>2. called \subseteq Callers
    BY DEF StepsInv, TypeOK
  <2> QED
    BY <2>1, <2>2
<1>11. \A c \in Served : results'[c] = <<r>>
  <2>1. Append(<<>>, r) = <<r>>
    OBVIOUS
  <2>2. \A c \in Served : results'[c] = Append(results[c], r)
    BY <1>9, <1>10
  <2> QED
    BY <2>1, <2>2, <1>10
<1>12. \A c \in Callers \ Served : results'[c] = results[c]
  BY <1>9
<1> QED
  BY <1>7, <1>8, <1>10, <1>11, <1>12 DEF r, s, a

LEMMA FinishingKeeps ==
    ASSUME StepsInv, answers # <<>>, Head(answers).effect = index, IsLast(index),
           answers' = Tail(answers),
           Finish(Append(steps, Head(answers).algorithm)),
           UNCHANGED <<called, sinceCall, loaded>>
    PROVE  StepsInv'
<1> DEFINE r == Result(Append(steps, Head(answers).algorithm))
<1>1. /\ r \in [Effects -> Algorithms]
      /\ \A c \in Callers \ Served : results'[c] = results[c]
      /\ \A c \in Served : results[c] = <<>> /\ c \in called /\ results'[c] = <<r>>
  BY FinishGives
<1> HIDE DEF r
<1>2. index > 1
  BY UsedStepsAssumption DEF IsLast
<1>3. answers' = <<>> /\ reads = <<>>
  BY <1>2, AnswerTaken
<1>4. /\ waiting' = <<>> /\ getting' = FALSE /\ first' = {} /\ steps' = <<>>
      /\ timer' = FALSE /\ UNCHANGED <<index, reads>>
      /\ DOMAIN results' = Callers
      /\ results' = [c \in Callers |-> results'[c]]
  BY DEF Finish, StillWaiting, Nobody
<1>5. Served = { c \in called : results[c] = <<>> } /\ called \subseteq Callers
  BY DEF StepsInv, TypeOK, Calls, Served
<1>6. TypeOK'
  <2>1. /\ <<>> \in Seq(Callers) /\ <<>> \in Seq(Algorithms)
        /\ <<>> \in Seq([effect : Effects, algorithm : Algorithms])
    BY EmptySeq
  <2>2. \A c \in Callers : results'[c] \in Seq([Effects -> Algorithms])
    <3>1. <<r>> \in Seq([Effects -> Algorithms])
      BY <1>1
    <3>2. \A c \in Callers : results[c] \in Seq([Effects -> Algorithms])
      BY DEF StepsInv, TypeOK
    <3> QED
      BY <3>1, <3>2, <1>1
  <2>3. results' \in [Callers -> Seq([Effects -> Algorithms])]
    BY <1>4, <2>2
  <2>4. {} \subseteq Callers
    OBVIOUS
  <2> QED
    BY <1>3, <1>4, <2>1, <2>3, <2>4 DEF StepsInv, TypeOK
<1>7. Calls'
  <2>1. \A c \in Callers : Len(results'[c]) <= 1
    <3>1. Len(<<r>>) <= 1
      OBVIOUS
    <3>2. \A c \in Callers : Len(results[c]) <= 1
      BY DEF StepsInv, Calls
    <3>3. \A c \in Callers : results'[c] = results[c] \/ results'[c] = <<r>>
      BY <1>1
    <3> QED
      BY <3>1, <3>2, <3>3, Zenon
  <2>2. \A c \in Callers : c \notin called => results'[c] = <<>>
    BY <1>1 DEF StepsInv, Calls
  <2>3. \A c \in called : results'[c] # <<>>
    <3>1. <<r>> # <<>>
      OBVIOUS
    <3> QED
      BY <3>1, <1>1, <1>5
  <2>4. ToSet(waiting') = {}
    BY <1>4 DEF ToSet
  <2> QED
    BY <1>4, <2>1, <2>2, <2>3, <2>4 DEF Calls, Nobody
<1>8. Line'
  BY <1>3, <1>4 DEF Line
<1>9. Fresh'
  BY <1>3, <1>4 DEF StepsInv, Fresh
<1> QED
  BY <1>6, <1>7, <1>8, <1>9 DEF StepsInv

LEMMA AnswerKeeps ==
    ASSUME StepsInv, AnswerArrives
    PROVE  StepsInv'
<1>1. /\ answers # <<>> /\ answers' = Tail(answers) /\ getting
      /\ UNCHANGED <<called, sinceCall, loaded>>
  BY AnswerTaken DEF AnswerArrives
<1>2. CASE Head(answers).effect # index \/ Head(answers).algorithm \in Unknown
  <2>1. /\ timer' \in {FALSE, timer}
        /\ UNCHANGED <<getting, first, waiting, index, steps, reads, results>>
    BY <1>1, <1>2 DEF AnswerArrives, readVars
  <2> QED
    BY <1>1, <2>1, ThrowingAwayKeeps
<1>3. CASE Head(answers).effect = index /\ Head(answers).algorithm \notin Unknown
  <2>1. IF IsLast(index) THEN Finish(Append(steps, Head(answers).algorithm))
        ELSE ReadNext(Append(steps, Head(answers).algorithm))
    BY <1>1, <1>3 DEF AnswerArrives
  <2>2. CASE IsLast(index)
    BY <1>1, <1>3, <2>1, <2>2, FinishingKeeps
  <2>3. CASE ~IsLast(index)
    BY <1>1, <1>3, <2>1, <2>3, GoingOnKeeps
  <2> QED
    BY <2>2, <2>3
<1> QED
  BY <1>2, <1>3

\* The first read is repeated, or given up.
LEMMA TimeoutKeeps ==
    ASSUME StepsInv, Timeout
    PROVE  StepsInv'
<1>1. /\ timer /\ getting /\ index = 1
      /\ UNCHANGED <<getting, first, waiting, index, steps, answers, called,
                     results, loaded, sinceCall>>
  BY DEF Timeout, StepsInv, Line, callVars
<1>2. timer' \in BOOLEAN /\ (reads' = Append(reads, 1) \/ reads' = reads)
  BY <1>1 DEF Timeout
<1>3. reads \in Seq(Effects) /\ 1 \in Effects
  BY UsedStepsAssumption DEF StepsInv, TypeOK, Effects
<1>4. reads' \in Seq(Effects) /\ \A k \in DOMAIN reads' : reads'[k] = 1
  <2>1. \A k \in DOMAIN reads : reads[k] = 1
    BY <1>1 DEF StepsInv, Line
  <2>2. CASE reads' = Append(reads, 1)
    BY <1>3, <2>1, <2>2, EndOrBefore
  <2> QED
    BY <1>2, <1>3, <2>1, <2>2
<1>5. \A k \in DOMAIN answers : answers[k].effect = 1
  BY <1>1 DEF StepsInv, Line
<1>6. TypeOK'
  BY <1>1, <1>2, <1>4 DEF StepsInv, TypeOK
<1>7. Calls'
  BY <1>1 DEF StepsInv, Calls
<1>8. Line'
  BY <1>1, <1>4, <1>5 DEF Line
<1>9. Fresh'
  BY <1>1 DEF StepsInv, Fresh
<1> QED
  BY <1>6, <1>7, <1>8, <1>9 DEF StepsInv

\* A read leaves the line.
LEMMA ReadTaken ==
    ASSUME StepsInv, reads # <<>>
    PROVE  /\ getting /\ Tail(reads) \in Seq(Effects)
           /\ Head(reads) \in Effects /\ Head(reads) \in {1, index}
           /\ index > 1 /\ Head(reads) = index => Tail(reads) = <<>>
           /\ \A k \in DOMAIN Tail(reads) :
                 /\ Tail(reads)[k] \in {1, index}
                 /\ index > 1 /\ Tail(reads)[k] = index => k = Len(Tail(reads))
           /\ \A k \in DOMAIN answers :
                 /\ answers[k].effect \in {1, index}
                 /\ ~(index > 1 /\ answers[k].effect = index)
<1> DEFINE t == Tail(reads)
<1>1. reads \in Seq(Effects)
  BY DEF StepsInv, TypeOK
<1>2. /\ Len(reads) \in Nat /\ 1 \in DOMAIN reads
      /\ Head(reads) = reads[1] /\ Head(reads) \in Effects
      /\ t \in Seq(Effects) /\ Len(t) = Len(reads) - 1
      /\ 1 = Len(reads) => t = <<>>
      /\ \A k \in DOMAIN t :
            k \in Nat /\ k + 1 \in DOMAIN reads /\ t[k] = reads[k + 1]
  BY <1>1, OneLess
<1> HIDE DEF t
<1>3. /\ getting
      /\ \A k \in DOMAIN reads :
            /\ reads[k] \in {1, index}
            /\ index > 1 /\ reads[k] = index => k = Len(reads)
      /\ \A k \in DOMAIN answers :
            /\ answers[k].effect \in {1, index}
            /\ ~(index > 1 /\ answers[k].effect = index)
  BY DEF StepsInv, Line
<1>4. \A k \in DOMAIN t : /\ t[k] \in {1, index}
                          /\ index > 1 /\ t[k] = index => k = Len(t)
  <2> TAKE k \in DOMAIN t
  <2>1. k \in Nat /\ k + 1 \in DOMAIN reads /\ t[k] = reads[k + 1]
    BY <1>2
  <2>2. k + 1 = Len(reads) => k = Len(t)
    BY <1>2, <2>1
  <2> QED
    BY <1>3, <2>1, <2>2
<1> QED
  BY <1>2, <1>3, <1>4 DEF t

LEMMA DeviceKeeps ==
    ASSUME StepsInv, DeviceAnswers
    PROVE  StepsInv'
<1> DEFINE h == Head(reads)
           x == [effect |-> h, algorithm |-> loaded[h]]
<1>1. /\ reads # <<>> /\ reads' = Tail(reads) /\ answers' = Append(answers, x)
      /\ UNCHANGED <<getting, first, waiting, index, steps, timer, called,
                     results, loaded, sinceCall>>
  BY DEF DeviceAnswers, readVars, callVars
<1>2. /\ getting /\ Tail(reads) \in Seq(Effects)
      /\ h \in Effects /\ h \in {1, index}
      /\ index > 1 /\ h = index => Tail(reads) = <<>>
      /\ \A k \in DOMAIN Tail(reads) :
            /\ Tail(reads)[k] \in {1, index}
            /\ index > 1 /\ Tail(reads)[k] = index => k = Len(Tail(reads))
      /\ \A k \in DOMAIN answers :
            /\ answers[k].effect \in {1, index}
            /\ ~(index > 1 /\ answers[k].effect = index)
  BY <1>1, ReadTaken
<1> HIDE DEF h
<1>3. loaded[h] \in Algorithms
  BY <1>2 DEF StepsInv, TypeOK
<1>4. x \in Records /\ x.effect = h /\ x.algorithm = loaded[h]
  BY <1>2, <1>3 DEF Records
<1> HIDE DEF x
<1>5. /\ answers' \in Seq(Records) /\ Len(answers') = Len(answers) + 1
      /\ \A k \in DOMAIN answers' :
            \/ k \in DOMAIN answers /\ answers'[k] = answers[k]
            \/ k = Len(answers) + 1 /\ answers'[k] = x
  <2>1. answers \in Seq(Records)
    BY DEF StepsInv, TypeOK, Records
  <2> QED
    BY <2>1, <1>1, <1>4, EndOrBefore
<1>6. TypeOK'
  <2>1. answers' \in Seq([effect : Effects, algorithm : Algorithms])
    BY <1>5 DEF Records
  <2> QED
    BY <2>1, <1>1, <1>2 DEF StepsInv, TypeOK
<1>7. Calls'
  BY <1>1 DEF StepsInv, Calls
<1>8. Line'
  <2>1. timer' => getting' /\ index' = 1
    BY <1>1 DEF StepsInv, Line
  <2>2. \A k \in DOMAIN reads' :
           /\ reads'[k] \in {1, index'}
           /\ index' > 1 /\ reads'[k] = index' => k = Len(reads')
    BY <1>1, <1>2
  <2>3. \A k \in DOMAIN answers' :
           /\ answers'[k].effect \in {1, index'}
           /\ index' > 1 /\ answers'[k].effect = index'
                 => k = Len(answers') /\ reads' = <<>>
    BY <1>1, <1>2, <1>4, <1>5
  <2> QED
    BY <1>1, <1>2, <2>1, <2>2, <2>3 DEF Line
<1>9. Fresh'
  <2>1. \A c \in first : loaded[h] \in sinceCall[c][h]
    <3>1. first \subseteq called
      BY DEF StepsInv, Calls
    <3> QED
      BY <3>1, <1>2 DEF StepsInv, Fresh
  <2>2. \A c \in first : \A k \in DOMAIN answers' :
           answers'[k].algorithm \in sinceCall[c][answers'[k].effect]
    BY <2>1, <1>4, <1>5 DEF StepsInv, Fresh
  <2> QED
    BY <1>1, <2>2 DEF StepsInv, Fresh
<1> QED
  BY <1>6, <1>7, <1>8, <1>9 DEF StepsInv

LEMMA LoseKeeps ==
    ASSUME StepsInv, Lose
    PROVE  StepsInv'
<1>1. /\ reads # <<>> /\ reads' = Tail(reads)
      /\ UNCHANGED <<getting, first, waiting, index, steps, timer, answers,
                     called, results, loaded, sinceCall>>
  BY DEF Lose, readVars, callVars
<1>2. /\ getting /\ Tail(reads) \in Seq(Effects)
      /\ \A k \in DOMAIN Tail(reads) :
            /\ Tail(reads)[k] \in {1, index}
            /\ index > 1 /\ Tail(reads)[k] = index => k = Len(Tail(reads))
      /\ \A k \in DOMAIN answers :
            /\ answers[k].effect \in {1, index}
            /\ ~(index > 1 /\ answers[k].effect = index)
  BY <1>1, ReadTaken
<1>3. TypeOK'
  BY <1>1, <1>2 DEF StepsInv, TypeOK
<1>4. Calls'
  BY <1>1 DEF StepsInv, Calls
<1>5. Line'
  <2>1. timer' => getting' /\ index' = 1
    BY <1>1 DEF StepsInv, Line
  <2>2. \A k \in DOMAIN reads' :
           /\ reads'[k] \in {1, index'}
           /\ index' > 1 /\ reads'[k] = index' => k = Len(reads')
    BY <1>1, <1>2
  <2> QED
    BY <1>1, <1>2, <2>1, <2>2 DEF Line
<1>6. Fresh'
  BY <1>1 DEF StepsInv, Fresh
<1> QED
  BY <1>3, <1>4, <1>5, <1>6 DEF StepsInv

LEMMA ChangeKeeps ==
    ASSUME StepsInv, NEW e \in Effects, NEW a \in Algorithms,
           ChangeAlgorithm(e, a)
    PROVE  StepsInv'
<1>1. /\ loaded' = [loaded EXCEPT ![e] = a]
      /\ sinceCall' = [c \in Callers |->
                         IF c \in called
                         THEN [sinceCall[c] EXCEPT ![e] = sinceCall[c][e] \cup {a}]
                         ELSE sinceCall[c]]
      /\ UNCHANGED <<getting, first, waiting, index, steps, timer, reads,
                     answers, called, results>>
  BY DEF ChangeAlgorithm, readVars
<1>2. /\ loaded \in [Effects -> Algorithms] /\ called \subseteq Callers
      /\ sinceCall \in [Callers -> [Effects -> SUBSET Algorithms]]
      /\ first \subseteq called
  BY DEF StepsInv, TypeOK, Calls
<1>3. /\ loaded' \in [Effects -> Algorithms]
      /\ sinceCall' \in [Callers -> [Effects -> SUBSET Algorithms]]
  BY <1>1, <1>2
<1>4. \A c \in called : \A i \in Effects :
         sinceCall[c][i] \subseteq sinceCall'[c][i] /\ loaded'[i] \in sinceCall'[c][i]
  BY <1>1, <1>2 DEF StepsInv, Fresh
<1>5. TypeOK'
  BY <1>1, <1>3 DEF StepsInv, TypeOK
<1>6. Calls'
  BY <1>1 DEF StepsInv, Calls
<1>7. Line'
  BY <1>1 DEF StepsInv, Line
<1>8. Fresh'
  <2>1. \A c \in first : \A k \in DOMAIN answers :
           answers[k].algorithm \in sinceCall'[c][answers[k].effect]
    <3>1. answers \in Seq(Records)
      BY DEF StepsInv, TypeOK, Records
    <3>2. \A k \in DOMAIN answers : answers[k] \in Records
      BY <3>1
    <3>3. \A x \in Records : x.effect \in Effects
      BY DEF Records
    <3>4. \A k \in DOMAIN answers : answers[k].effect \in Effects
      BY <3>2, <3>3, Zenon
    <3> QED
      BY <3>4, <1>2, <1>4 DEF StepsInv, Fresh
  <2>2. \A c \in first : \A i \in DOMAIN steps : steps[i] \in sinceCall'[c][i]
    <3> TAKE c \in first
    <3>1. Len(steps) = index - 1 /\ steps \in Seq(Algorithms)
      BY DEF StepsInv, Calls, Nobody, TypeOK, Fresh
    <3>2. index \in 1..NumEffects /\ NumEffects \in Nat /\ Effects = 1..NumEffects
      BY UsedStepsAssumption DEF StepsInv, TypeOK, Effects
    <3>3. DOMAIN steps = 1..Len(steps)
      BY <3>1
    <3>4. DOMAIN steps \subseteq Effects
      BY <3>1, <3>2, <3>3
    <3> QED
      BY <3>4, <1>2, <1>4 DEF StepsInv, Fresh
  <2> QED
    BY <1>1, <1>4, <2>1, <2>2 DEF StepsInv, Fresh
<1> QED
  BY <1>5, <1>6, <1>7, <1>8 DEF StepsInv

-----------------------------------------------------------------------------
(* The theorems *)

LEMMA StepsStep == StepsInv /\ [Next]_vars => StepsInv'
<1> SUFFICES ASSUME StepsInv, [Next]_vars
             PROVE  StepsInv'
  OBVIOUS
<1>1. ASSUME NEW c \in Callers, Call(c)
      PROVE  StepsInv'
  BY <1>1, JoiningKeeps, ReadingKeeps, ZerosKeep
<1>2. CASE AnswerArrives
  BY <1>2, AnswerKeeps
<1>3. CASE Timeout
  BY <1>3, TimeoutKeeps
<1>4. CASE DeviceAnswers
  BY <1>4, DeviceKeeps
<1>5. CASE Lose
  BY <1>5, LoseKeeps
<1>6. ASSUME NEW e \in Effects, NEW a \in Algorithms, ChangeAlgorithm(e, a)
      PROVE  StepsInv'
  BY <1>6, ChangeKeeps
<1>7. CASE Hears
  BY <1>7 DEF StepsInv, TypeOK, Calls, Line, Fresh, Hears, readVars, callVars
<1>8. CASE UNCHANGED vars
  BY <1>8 DEF StepsInv, TypeOK, Calls, Line, Fresh, vars, readVars, callVars
<1> QED
  BY <1>1, <1>2, <1>3, <1>4, <1>5, <1>6, <1>7, <1>8 DEF Next

\* getUsedSteps: what was called is answered or waits, what is on its way is
\* for the effect being read, and nothing in it is older than the call that
\* reads (lexicon.js lines 1655-1715).
THEOREM StepsInvariance == Spec => []StepsInv
<1> QED
  BY StepsInit, StepsStep, PTL DEF Spec

\* A call gets at most one answer, and none before it was made: a call that
\* joins is not answered again by the reading after its own (lines 1688-1692
\* empty the list of callbacks).
THEOREM AnsweredOnce ==
    Spec => [](\A c \in Callers : /\ Len(results[c]) <= 1
                                  /\ c \notin called => results[c] = <<>>)
<1>1. StepsInv => \A c \in Callers : /\ Len(results[c]) <= 1
                                     /\ c \notin called => results[c] = <<>>
  BY DEF StepsInv, Calls
<1> QED
  BY <1>1, StepsInvariance, PTL

\* A call that has no answer waits for a reading that is under way: only a
\* lost read, or the end of the program, can leave it without one.
THEOREM WaitsForReading ==
    Spec => [](\A c \in called : results[c] = <<>> => getting)
<1>1. StepsInv => \A c \in called : results[c] = <<>> => getting
  <2> SUFFICES ASSUME StepsInv, NEW c \in called, results[c] = <<>>, ~getting
               PROVE  FALSE
    OBVIOUS
  <2>1. c \in first \cup ToSet(waiting) /\ first = {} /\ waiting = <<>>
    BY DEF StepsInv, Calls, Nobody
  <2> QED
    BY <2>1 DEF ToSet
<1> QED
  BY <1>1, StepsInvariance, PTL

\* A call that reads gets, for each effect, an algorithm that was loaded
\* when it was made or later (lines 1670-1712).
THEOREM ReaderGetsFresh == Spec => ReaderFresh
<1>1. ASSUME StepsInv, [Next]_vars, NEW c \in Callers, first = {c}
      PROVE  FreshFor(c)'
  <2>1. results[c] = <<>>
    BY <1>1 DEF StepsInv, Calls
  <2>2. CASE results'[c] = results[c]
    BY <2>1, <2>2 DEF FreshFor
  <2>3. CASE results'[c] # results[c]
    <3>1. AnswerArrives
      <4>1. ASSUME NEW d \in Callers, Call(d)
            PROVE  results'[c] = results[c]
        <5>1. getting
          BY <1>1 DEF StepsInv, Calls, Nobody
        <5> QED
          BY <4>1, <5>1 DEF Call
      <4> QED
        BY <1>1, <2>3, <4>1 DEF Next, vars, Hears, Timeout, DeviceAnswers, Lose,
                                ChangeAlgorithm, callVars
    <3>2. /\ answers # <<>> /\ Head(answers).effect = index /\ IsLast(index)
          /\ Finish(Append(steps, Head(answers).algorithm))
          /\ UNCHANGED sinceCall
      BY <3>1, <2>3 DEF AnswerArrives, ReadNext
    <3> DEFINE r == Result(Append(steps, Head(answers).algorithm))
    <3>3. /\ \A e \in Effects : r[e] \in sinceCall[c][e]
          /\ results'[c] = <<r>>
      BY <1>1, <3>2, FinishGives DEF Served
    <3> HIDE DEF r
    <3>4. DOMAIN results'[c] = {1} /\ results'[c][1] = r
      BY <3>3
    <3> QED
      BY <3>2, <3>3, <3>4 DEF FreshFor
  <2> QED
    BY <2>2, <2>3
<1>2. StepsInv /\ [Next]_vars
        => [\A c \in Callers : first = {c} => FreshFor(c)']_vars
  BY <1>1
<1> QED
  BY <1>2, StepsInvariance, PTL DEF Spec, ReaderFresh

-----------------------------------------------------------------------------
(* Parameters.  First, a sequence over a set is one over a larger set.       *)

LEMMA WiderSequence ==
    ASSUME NEW T, NEW S \in SUBSET T, NEW s \in Seq(S)
    PROVE  s \in Seq(T)
<1>1. Len(s) \in Nat /\ s = [i \in 1 .. Len(s) |-> s[i]]
  OBVIOUS
<1>2. \A i \in 1 .. Len(s) : s[i] \in T
  OBVIOUS
<1> QED
  BY <1>1, <1>2

-----------------------------------------------------------------------------
(* Bytes and words in nibbles *)

LEMMA Digit ==
    ASSUME NEW x \in Int
    PROVE  \E q \in Int, r \in 0 .. 15 : x = 16 * q + r
<1>1. x \div 16 \in Int
  OBVIOUS
<1>2. x % 16 \in 0 .. 15
  OBVIOUS
<1>3. x = 16 * (x \div 16) + (x % 16)
  OBVIOUS
<1> QED
  BY <1>1, <1>2, <1>3, Zenon

\* The nibble of weight k
Part(x, k) == (x \div Weights[k]) % 16

Unsigned16(x) == IF x < 0 THEN x + 65536 ELSE x

LEMMA NoSign ==
    ASSUME NEW x \in WordValue
    PROVE  Unsigned16(x) = x
BY DEF Unsigned16, WordValue

LEMMA ByteOfNibbles ==
    ASSUME NEW x \in ByteValue
    PROVE  Part(x, 1) + 16 * Part(x, 2) = x
<1>1. x \in Int /\ 0 <= x /\ x <= 255
  BY DEF ByteValue
<1>2. PICK q \in Int, a \in 0 .. 15 : x = 16 * q + a
  BY <1>1, Digit, Zenon
<1>3. x \div 16 = q /\ x % 16 = a
  BY <1>2
<1>4. x \div 1 = x
  BY <1>1
<1>5. q \in 0 .. 15
  BY <1>1, <1>2
<1>6. q % 16 = q
  BY <1>5
<1>7. a + 16 * q = x
  BY <1>2
<1>8. Part(x, 1) = (x \div 1) % 16 /\ Part(x, 2) = (x \div 16) % 16
  BY DEF Part, Weights
<1> QED
  BY ONLY <1>3, <1>4, <1>6, <1>7, <1>8, Zenon

LEMMA WordBounds ==
    ASSUME NEW x \in WordValue
    PROVE  x \in Int /\ -32768 <= x /\ x <= 65535
BY DEF WordValue

LEMMA WordOfNibbles ==
    ASSUME NEW x \in LimitValue \cup WordValue
    PROVE  Part(x, 1) + 16 * Part(x, 2) + 256 * (Part(x, 3) + 16 * Part(x, 4)) = Unsigned16(x)
<1>1. x \in Int
  BY DEF LimitValue, WordValue
<1>2. PICK q1 \in Int, a \in 0 .. 15 : x = 16 * q1 + a
  BY <1>1, Digit, Zenon
<1>3. PICK q2 \in Int, b \in 0 .. 15 : q1 = 16 * q2 + b
  BY Digit, Zenon
<1>4. PICK q3 \in Int, c \in 0 .. 15 : q2 = 16 * q3 + c
  BY Digit, Zenon
<1>5. PICK q4 \in Int, d \in 0 .. 15 : q3 = 16 * q4 + d
  BY Digit, Zenon
<1>6. Part(x, 1) = a
  <2>1. x \div 1 = x
    BY <1>1
  <2>2. x % 16 = a
    BY <1>2
  <2> QED
    BY <2>1, <2>2 DEF Part, Weights
<1>7. Part(x, 2) = b
  <2>1. x \div 16 = q1
    BY <1>2
  <2>2. q1 % 16 = b
    BY <1>3
  <2> QED
    BY <2>1, <2>2 DEF Part, Weights
<1>8. Part(x, 3) = c
  <2>1. x = 256 * q2 + (16 * b + a)
    BY <1>2, <1>3
  <2>2. 16 * b + a \in 0 .. 255
    OBVIOUS
  <2>3. x \div 256 = q2
    BY <2>1, <2>2
  <2>4. q2 % 16 = c
    BY <1>4
  <2> QED
    BY <2>3, <2>4 DEF Part, Weights
<1>9. Part(x, 4) = d
  <2>1. x = 4096 * q3 + (256 * c + 16 * b + a)
    BY <1>2, <1>3, <1>4
  <2>2. 256 * c + 16 * b + a \in 0 .. 4095
    OBVIOUS
  <2>3. x \div 4096 = q3
    BY <2>1, <2>2
  <2>4. q3 % 16 = d
    BY <1>5
  <2> QED
    BY <2>3, <2>4 DEF Part, Weights
<1>10. a + 16 * b + 256 * (c + 16 * d) = Unsigned16(x)
  <2>1. x = 65536 * q4 + (a + 16 * b + 256 * (c + 16 * d))
    BY <1>2, <1>3, <1>4, <1>5
  <2>2. a + 16 * b + 256 * (c + 16 * d) >= 0 /\ a + 16 * b + 256 * (c + 16 * d) <= 65535
    OBVIOUS
  <2>3. -32768 <= x /\ x <= 65535
    <3>1. CASE x \in LimitValue
      BY <3>1 DEF LimitValue
    <3>2. CASE x \in WordValue
      BY ONLY <3>2, WordBounds
    <3> QED
      BY <3>1, <3>2
  <2>4. CASE x < 0
    <3>1. q4 = -1
      BY <1>1, <2>1, <2>2, <2>3, <2>4
    <3> QED
      BY <2>1, <2>4, <3>1 DEF Unsigned16
  <2>5. CASE x >= 0
    <3>1. q4 = 0
      BY <1>1, <2>1, <2>2, <2>3, <2>5
    <3> QED
      BY <2>1, <2>5, <3>1 DEF Unsigned16
  <2> QED
    BY <1>1, <2>4, <2>5
<1> QED
  BY <1>6, <1>7, <1>8, <1>9, <1>10
Nibble == 0 .. 15

LEMMA NibblesProperties ==
    ASSUME NEW x \in Int, NEW n \in 0 .. 4
    PROVE  /\ Nibbles(x, n) \in Seq(Nibble)
           /\ Len(Nibbles(x, n)) = n
           /\ \A k \in 1 .. n : Nibbles(x, n)[k] = Part(x, k)
<1>1. \A k \in 1 .. n : Weights[k] \in Nat \ {0}
  BY DEF Weights
<1>2. \A k \in 1 .. n : (x \div Weights[k]) % 16 \in Nibble
  BY <1>1 DEF Nibble
<1> QED
  BY <1>2 DEF Nibbles, Part

LEMMA NibblesOfProperties ==
    ASSUME NEW s \in Seq(Int), NEW n \in {2, 4}
    PROVE  /\ NibblesOf(s, n) \in Seq(Nibble)
           /\ Len(NibblesOf(s, n)) = n * Len(s)
           /\ \A j \in 1 .. Len(s), k \in 1 .. n :
                 NibblesOf(s, n)[n * (j - 1) + k] = Part(s[j], k)
<1> DEFINE N == NibblesOf(s, n)
<1>1. ASSUME NEW j \in 1 .. Len(s), NEW k \in 1 .. n
      PROVE  /\ n * (j - 1) + k \in 1 .. n * Len(s)
             /\ 1 + ((n * (j - 1) + k - 1) \div n) = j
             /\ 1 + ((n * (j - 1) + k - 1) % n) = k
  <2>1. CASE n = 2
    BY <2>1
  <2>2. CASE n = 4
    BY <2>2
  <2> QED
    BY <2>1, <2>2
<1>2. ASSUME NEW i \in 1 .. n * Len(s)
      PROVE  1 + ((i - 1) \div n) \in 1 .. Len(s) /\ 1 + ((i - 1) % n) \in 1 .. n
  <2>1. CASE n = 2
    BY <2>1
  <2>2. CASE n = 4
    BY <2>2
  <2> QED
    BY <2>1, <2>2
<1>3. \A j \in 1 .. Len(s) : s[j] \in Int
  OBVIOUS
<1>4. ASSUME NEW j \in 1 .. Len(s)
      PROVE  /\ Nibbles(s[j], n) \in Seq(Nibble)
             /\ Len(Nibbles(s[j], n)) = n
             /\ \A k \in 1 .. n : Nibbles(s[j], n)[k] = Part(s[j], k)
  <2>1. s[j] \in Int /\ n \in 0 .. 4
    BY <1>3
  <2> QED
    BY <2>1, NibblesProperties
<1>5. ASSUME NEW i \in 1 .. n * Len(s)
      PROVE  Nibbles(s[1 + ((i - 1) \div n)], n)[1 + ((i - 1) % n)] \in Nibble
  <2>1. PICK j \in 1 .. Len(s) : j = 1 + ((i - 1) \div n)
    BY <1>2
  <2>2. PICK k \in 1 .. n : k = 1 + ((i - 1) % n)
    BY <1>2
  <2>3. Nibbles(s[j], n)[k] \in Nibble
    BY <1>4, ElementOfSeq
  <2> QED
    BY <2>1, <2>2, <2>3
<1>6. n * Len(s) \in Nat
  OBVIOUS
<1>7. N \in Seq(Nibble) /\ Len(N) = n * Len(s)
  BY <1>5, <1>6 DEF NibblesOf
<1>8. ASSUME NEW j \in 1 .. Len(s), NEW k \in 1 .. n
      PROVE  N[n * (j - 1) + k] = Part(s[j], k)
  <2>1. PICK i \in 1 .. n * Len(s) : i = n * (j - 1) + k
    BY <1>1
  <2>2. 1 + ((i - 1) \div n) = j /\ 1 + ((i - 1) % n) = k
    BY <1>1, <2>1
  <2>3. N[i] = Nibbles(s[1 + ((i - 1) \div n)], n)[1 + ((i - 1) % n)]
    BY DEF NibblesOf
  <2>4. N[i] = Nibbles(s[j], n)[k]
    BY <2>2, <2>3
  <2> QED
    BY <1>4, <2>1, <2>4
<1> QED
  BY <1>7, <1>8

\* t is in buf from the place i on.
Holds(buf, i, t) ==
    /\ i + Len(t) - 1 <= Len(buf)
    /\ \A k \in 1 .. Len(t) : buf[i + k - 1] = t[k]

LEMMA HoldsParts ==
    ASSUME NEW buf \in Seq(Int), NEW i \in Nat \ {0}, NEW s \in Seq(Int), NEW t \in Seq(Int),
           Holds(buf, i, s \o t)
    PROVE  Holds(buf, i, s) /\ Holds(buf, i + Len(s), t)
<1>1. Len(s \o t) = Len(s) + Len(t)
  OBVIOUS
<1>2. \A k \in 1 .. Len(s) : (s \o t)[k] = s[k]
  OBVIOUS
<1>3. \A k \in 1 .. Len(t) : Len(s) + k \in 1 .. Len(s \o t) /\ (s \o t)[Len(s) + k] = t[k]
  OBVIOUS
<1>4. Holds(buf, i, s)
  <2>1. \A k \in 1 .. Len(s) : k \in 1 .. Len(s \o t)
    BY <1>1
  <2>2. \A k \in 1 .. Len(s) : buf[i + k - 1] = s[k]
    BY <2>1, <1>2 DEF Holds
  <2>3. i + Len(s) - 1 <= Len(buf)
    BY <1>1 DEF Holds
  <2> QED
    BY <2>2, <2>3 DEF Holds
<1>5. \A k \in 1 .. Len(t) : buf[i + (Len(s) + k) - 1] = t[k]
  BY <1>3 DEF Holds
<1>6. \A k \in 1 .. Len(t) : i + (Len(s) + k) - 1 = i + Len(s) + k - 1
  OBVIOUS
<1>7. Holds(buf, i + Len(s), t)
  BY <1>1, <1>5, <1>6 DEF Holds
<1> QED
  BY <1>4, <1>7


LEMMA BytesRead ==
    ASSUME NEW buf \in Seq(Int), NEW i \in Nat \ {0}, NEW s \in Seq(ByteValue),
           Holds(buf, i, nibblize(s))
    PROVE  Bytes(buf, i, Len(s)) = s
<1>1. s \in Seq(Int)
  <2>1. ByteValue \subseteq Int
    BY DEF ByteValue
  <2> QED
    BY <2>1, WiderSequence
<1> DEFINE t == NibblesOf(s, 2)
<1>2. /\ Len(t) = 2 * Len(s)
      /\ \A j \in 1 .. Len(s), k \in 1 .. 2 : t[2 * (j - 1) + k] = Part(s[j], k)
  BY <1>1, NibblesOfProperties
<1>3. \A k \in 1 .. Len(t) : buf[i + k - 1] = t[k]
  BY DEF Holds, nibblize
<1> HIDE DEF t
<1>4. ASSUME NEW j \in 1 .. Len(s)
      PROVE  Byte(buf, i + 2 * (j - 1)) = s[j]
  <2>1. 2 * (j - 1) + 1 \in 1 .. Len(t) /\ 2 * (j - 1) + 2 \in 1 .. Len(t)
    BY <1>2
  <2>2. buf[i + (2 * (j - 1) + 1) - 1] = t[2 * (j - 1) + 1]
    BY <1>3, <2>1
  <2>3. buf[i + (2 * (j - 1) + 2) - 1] = t[2 * (j - 1) + 2]
    BY <1>3, <2>1
  <2>4. /\ i + (2 * (j - 1) + 1) - 1 = i + 2 * (j - 1)
        /\ i + (2 * (j - 1) + 2) - 1 = i + 2 * (j - 1) + 1
    OBVIOUS
  <2>5. t[2 * (j - 1) + 1] = Part(s[j], 1) /\ t[2 * (j - 1) + 2] = Part(s[j], 2)
    BY <1>2
  <2>6. s[j] \in ByteValue
    OBVIOUS
  <2>7. Part(s[j], 1) + 16 * Part(s[j], 2) = s[j]
    BY <2>6, ByteOfNibbles
  <2> QED
    BY <2>2, <2>3, <2>4, <2>5, <2>7 DEF Byte
<1> QED
  BY <1>4 DEF Bytes

LEMMA WordsRead ==
    ASSUME NEW buf \in Seq(Int), NEW i \in Nat \ {0}, NEW s \in Seq(LimitValue \cup WordValue),
           Holds(buf, i, NibblesOf(s, 4)), NEW j \in 1 .. Len(s)
    PROVE  Word(buf, i + 4 * (j - 1)) = Unsigned16(s[j])
<1>1. s \in Seq(Int)
  <2>1. LimitValue \subseteq Int /\ WordValue \subseteq Int
    BY DEF LimitValue, WordValue
  <2> QED
    BY <2>1, WiderSequence
<1> DEFINE t == NibblesOf(s, 4)
           q == 4 * (j - 1)
<1>2. /\ Len(t) = 4 * Len(s)
      /\ \A l \in 1 .. Len(s), k \in 1 .. 4 : t[4 * (l - 1) + k] = Part(s[l], k)
  BY <1>1, NibblesOfProperties
<1>3. \A k \in 1 .. Len(t) : buf[i + k - 1] = t[k]
  BY DEF Holds
<1> HIDE DEF t
<1>4. /\ q + 1 \in 1 .. Len(t) /\ q + 2 \in 1 .. Len(t)
      /\ q + 3 \in 1 .. Len(t) /\ q + 4 \in 1 .. Len(t)
  BY <1>2
<1>5. t[q + 1] = Part(s[j], 1) /\ t[q + 2] = Part(s[j], 2)
  BY <1>2
<1>6. t[q + 3] = Part(s[j], 3) /\ t[q + 4] = Part(s[j], 4)
  BY <1>2
<1>7. q \in Nat
  OBVIOUS
<1> HIDE DEF q
<1>8. buf[i + (q + 1) - 1] = t[q + 1] /\ buf[i + (q + 2) - 1] = t[q + 2]
  BY <1>3, <1>4
<1>9. buf[i + (q + 3) - 1] = t[q + 3] /\ buf[i + (q + 4) - 1] = t[q + 4]
  BY <1>3, <1>4
<1>10. /\ i + (q + 1) - 1 = i + q /\ i + (q + 2) - 1 = i + q + 1
       /\ i + (q + 3) - 1 = i + q + 2 /\ i + (q + 4) - 1 = i + q + 2 + 1
  BY <1>7
<1>11. Word(buf, i + q) = Part(s[j], 1) + 16 * Part(s[j], 2)
                              + 256 * (Part(s[j], 3) + 16 * Part(s[j], 4))
  BY <1>5, <1>6, <1>8, <1>9, <1>10, SMTT(30) DEF Word, Byte
<1>12. s[j] \in LimitValue \cup WordValue
  OBVIOUS
<1>13. Word(buf, i + q) = Unsigned16(s[j])
  BY <1>11, <1>12, WordOfNibbles
<1> QED
  BY <1>13 DEF q

LEMMA WordRead ==
    ASSUME NEW buf \in Seq(Int), NEW i \in Nat \ {0}, NEW x \in WordValue,
           Holds(buf, i, nibblize16(x))
    PROVE  Word(buf, i) = x
<1> DEFINE t == Nibbles(x, 4)
<1>1. x \in Int /\ 4 \in 0 .. 4
  BY DEF WordValue
<1>2. Len(t) = 4 /\ \A k \in 1 .. 4 : t[k] = Part(x, k)
  BY <1>1, NibblesProperties
<1>3. \A k \in 1 .. Len(t) : buf[i + k - 1] = t[k]
  BY DEF Holds, nibblize16
<1> HIDE DEF t
<1>4. buf[i + 1 - 1] = t[1] /\ buf[i + 2 - 1] = t[2]
  BY <1>2, <1>3
<1>5. buf[i + 3 - 1] = t[3] /\ buf[i + 4 - 1] = t[4]
  BY <1>2, <1>3
<1>6. i + 1 - 1 = i /\ i + 2 - 1 = i + 1 /\ i + 3 - 1 = i + 2 /\ i + 4 - 1 = i + 2 + 1
  OBVIOUS
<1>7. Word(buf, i) = Part(x, 1) + 16 * Part(x, 2) + 256 * (Part(x, 3) + 16 * Part(x, 4))
  <2>1. /\ t[1] = Part(x, 1) /\ t[2] = Part(x, 2)
        /\ t[3] = Part(x, 3) /\ t[4] = Part(x, 4)
    BY <1>2
  <2>2. Word(buf, i) = buf[i] + 16 * buf[i + 1] + 256 * (buf[i + 2] + 16 * buf[i + 2 + 1])
    BY DEF Word, Byte
  <2>3. /\ buf[i] = Part(x, 1) /\ buf[i + 1] = Part(x, 2)
        /\ buf[i + 2] = Part(x, 3) /\ buf[i + 2 + 1] = Part(x, 4)
    BY ONLY <2>1, <1>4, <1>5, <1>6
  <2> QED
    BY ONLY <2>2, <2>3
<1>8. Word(buf, i) = Unsigned16(x)
  BY <1>7, WordOfNibbles
<1> QED
  BY <1>8 DEF Unsigned16, WordValue

LEMMA ByteSequence ==
    ASSUME NEW s \in Seq(ByteValue)
    PROVE  /\ nibblize(s) \in Seq(Nibble)
           /\ nibblize(s) \in Seq(Int)
           /\ Len(nibblize(s)) = 2 * Len(s)
<1>1. ByteValue \subseteq Int /\ Nibble \subseteq Int
  BY DEF ByteValue, Nibble
<1>2. s \in Seq(Int)
  BY <1>1, WiderSequence
<1>3. nibblize(s) \in Seq(Nibble) /\ Len(nibblize(s)) = 2 * Len(s)
  BY <1>2, NibblesOfProperties DEF nibblize
<1> QED
  BY <1>1, <1>3, WiderSequence

LEMMA WordSequence ==
    ASSUME NEW s \in Seq(LimitValue \cup WordValue)
    PROVE  NibblesOf(s, 4) \in Seq(Int) /\ Len(NibblesOf(s, 4)) = 4 * Len(s)
<1>1. LimitValue \subseteq Int /\ WordValue \subseteq Int /\ Nibble \subseteq Int
  BY DEF LimitValue, WordValue, Nibble
<1>2. s \in Seq(Int)
  BY <1>1, WiderSequence
<1>3. NibblesOf(s, 4) \in Seq(Nibble) /\ Len(NibblesOf(s, 4)) = 4 * Len(s)
  BY <1>2, NibblesOfProperties
<1> QED
  BY <1>1, <1>3, WiderSequence

LEMMA OneWord ==
    ASSUME NEW x \in WordValue
    PROVE  nibblize16(x) \in Seq(Int) /\ Len(nibblize16(x)) = 4
<1>1. x \in Int /\ 4 \in 0 .. 4 /\ Nibble \subseteq Int
  BY DEF WordValue, Nibble
<1>2. nibblize16(x) \in Seq(Nibble) /\ Len(nibblize16(x)) = 4
  BY <1>1, NibblesProperties DEF nibblize16
<1> QED
  BY <1>1, <1>2, WiderSequence

LEMMA HeaderProperties ==
    ASSUME NEW type \in Int
    PROVE  Header(type) \in Seq(Int) /\ Len(Header(type)) = 5
BY DEF Header

LEMMA HoldsItself ==
    ASSUME NEW buf \in Seq(Int)
    PROVE  Holds(buf, 1, buf)
<1>1. \A k \in 1 .. Len(buf) : 1 + k - 1 = k
  OBVIOUS
<1>2. 1 + Len(buf) - 1 <= Len(buf)
  OBVIOUS
<1> QED
  BY <1>1, <1>2 DEF Holds

LEMMA Appended ==
    ASSUME NEW s \in Seq(Int), NEW t \in Seq(Int)
    PROVE  s \o t \in Seq(Int) /\ Len(s \o t) = Len(s) + Len(t)
OBVIOUS

LEMMA ConcatAt ==
    ASSUME NEW s \in Seq(Int), NEW t \in Seq(Int)
    PROVE  /\ \A k \in 1 .. Len(s) : (s \o t)[k] = s[k]
           /\ \A k \in 1 .. Len(t) : (s \o t)[Len(s) + k] = t[k]
OBVIOUS

LEMMA MessageParts ==
    ASSUME NEW buf \in Seq(Int), NEW s \in Seq(Int), NEW t \in Seq(Int),
           Holds(buf, 1, s \o t)
    PROVE  Holds(buf, 1, s) /\ Holds(buf, 1 + Len(s), t)
<1>1. 1 \in Nat \ {0}
  OBVIOUS
<1> QED
  BY <1>1, HoldsParts

-----------------------------------------------------------------------------
(* The messages of data *)

LEMMA AddressProperties ==
    ASSUME NEW levels \in Seq(WordValue), Len(levels) \in WordValue
    PROVE  Address(levels) \in Seq(Int) /\ Len(Address(levels)) = 4 + 4 * Len(levels)
<1>1. levels \in Seq(LimitValue \cup WordValue)
  BY WiderSequence
<1>2. NibblesOf(levels, 4) \in Seq(Int) /\ Len(NibblesOf(levels, 4)) = 4 * Len(levels)
  BY <1>1, WordSequence
<1>3. nibblize16(Len(levels)) \in Seq(Int) /\ Len(nibblize16(Len(levels))) = 4
  BY OneWord
<1>4. Len(Address(levels)) = 4 + 4 * Len(levels) /\ Address(levels) \in Seq(Int)
  <2> DEFINE a == nibblize16(Len(levels))
             b == NibblesOf(levels, 4)
  <2> HIDE DEF a, b
  <2>1. a \o b \in Seq(Int) /\ Len(a \o b) = Len(a) + Len(b)
    BY <1>2, <1>3, Appended DEF a, b
  <2>2. Len(a) = 4 /\ Len(b) = 4 * Len(levels)
    BY <1>2, <1>3 DEF a, b
  <2>3. Address(levels) = a \o b
    BY DEF Address, a, b
  <2> QED
    BY <2>1, <2>2, <2>3
<1> QED
  BY <1>4

LEMMA AddressRead ==
    ASSUME NEW buf \in Seq(Int), NEW i \in Nat \ {0},
           NEW levels \in Seq(WordValue), Len(levels) \in WordValue,
           Holds(buf, i, Address(levels))
    PROVE  Words(buf, i + 4, Word(buf, i)) = levels
<1>1. levels \in Seq(LimitValue \cup WordValue)
  BY WiderSequence
<1>2. NibblesOf(levels, 4) \in Seq(Int)
  BY <1>1, WordSequence
<1>3. nibblize16(Len(levels)) \in Seq(Int) /\ Len(nibblize16(Len(levels))) = 4
  BY OneWord
<1>4. Holds(buf, i, nibblize16(Len(levels))) /\ Holds(buf, i + 4, NibblesOf(levels, 4))
  BY <1>2, <1>3, HoldsParts DEF Address
<1>5. Word(buf, i) = Len(levels)
  BY <1>4, WordRead
<1>6. ASSUME NEW j \in 1 .. Len(levels)
      PROVE  Word(buf, i + 4 + 4 * (j - 1)) = levels[j]
  <2>1. i + 4 \in Nat \ {0}
    OBVIOUS
  <2>2. Word(buf, i + 4 + 4 * (j - 1)) = Unsigned16(levels[j])
    BY <1>1, <1>4, <2>1, WordsRead
  <2>3. levels[j] \in WordValue
    OBVIOUS
  <2>4. Unsigned16(levels[j]) = levels[j]
    BY <2>3, NoSign
  <2> QED
    BY <2>2, <2>4
<1> QED
  BY <1>5, <1>6 DEF Words

\* What a message with data t is made of
LEMMA DataMessageParts ==
    ASSUME NEW levels \in Seq(WordValue), Len(levels) \in WordValue,
           NEW t \in Seq(Int), t # <<>>, Len(t) \div 2 \in WordValue
    PROVE  /\ DataMessage(levels, t) \in Seq(Int)
           /\ Holds(DataMessage(levels, t), 6, nibblize16(Len(t) \div 2))
           /\ Holds(DataMessage(levels, t), 10, t)
           /\ Holds(DataMessage(levels, t), 10 + Len(t), Address(levels))
<1> DEFINE head == Header(DATA)
           size == nibblize16(Len(t) \div 2)
           end == <<247>>
           m1 == head \o size
           m2 == m1 \o t
           m3 == m2 \o Address(levels)
           m4 == m3 \o end
<1>1. size \in Seq(Int) /\ Len(size) = 4
  BY OneWord
<1>2. head \in Seq(Int) /\ Len(head) = 5
  BY HeaderProperties DEF DATA
<1>3. Address(levels) \in Seq(Int) /\ end \in Seq(Int)
  BY AddressProperties
<1>4. DataMessage(levels, t) = m4
  BY DEF DataMessage
<1> HIDE DEF size, head, end
<1>5. m1 \in Seq(Int) /\ Len(m1) = 9
  <2>1. m1 \in Seq(Int) /\ Len(m1) = Len(head) + Len(size)
    BY ONLY <1>1, <1>2, Appended
  <2> QED
    BY ONLY <1>1, <1>2, <2>1
<1> HIDE DEF m1
<1>6. m2 \in Seq(Int) /\ Len(m2) = 9 + Len(t)
  BY <1>5, Appended
<1> HIDE DEF m2
<1>7. m3 \in Seq(Int)
  BY <1>3, <1>6, Appended
<1> HIDE DEF m3
<1>8. m4 \in Seq(Int)
  BY <1>3, <1>7, Appended
<1>9. Holds(m4, 1, m3 \o end)
  BY <1>8, HoldsItself
<1> HIDE DEF m4
<1>10. Holds(m4, 1, m3)
  BY <1>3, <1>7, <1>8, <1>9, MessageParts
<1>11. Holds(m4, 1, m2) /\ Holds(m4, 1 + Len(m2), Address(levels))
  BY <1>3, <1>6, <1>8, <1>10, MessageParts DEF m3
<1>12. Holds(m4, 1, m1) /\ Holds(m4, 1 + Len(m1), t)
  BY <1>5, <1>8, <1>11, MessageParts DEF m2
<1>13. Holds(m4, 1 + Len(head), size)
  BY <1>1, <1>2, <1>8, <1>12, MessageParts DEF m1
<1>14. 1 + Len(m2) = 10 + Len(t) /\ 1 + Len(m1) = 10 /\ 1 + Len(head) = 6
  BY <1>2, <1>5, <1>6
<1> QED
  BY <1>4, <1>8, <1>11, <1>12, <1>13, <1>14 DEF size

\* What dataMessage_parse makes of a buffer with bytes and an address
LEMMA DataRead ==
    ASSUME NEW buf \in Seq(Int), NEW bytes \in Seq(ByteValue), Len(bytes) \in WordValue,
           NEW levels \in Seq(WordValue), Len(levels) \in WordValue,
           Holds(buf, 6, nibblize16(Len(bytes))), Holds(buf, 10, nibblize(bytes)),
           Holds(buf, 10 + 2 * Len(bytes), Address(levels))
    PROVE  dataMessage_parse(buf) = [data |-> bytes, levels |-> levels]
<1>1. 6 \in Nat \ {0} /\ 10 \in Nat \ {0} /\ 10 + 2 * Len(bytes) \in Nat \ {0}
  OBVIOUS
<1>2. Word(buf, 6) = Len(bytes)
  BY <1>1, WordRead
<1>3. Bytes(buf, 10, Len(bytes)) = bytes
  BY <1>1, BytesRead
<1>4. Words(buf, 10 + 2 * Len(bytes) + 4, Word(buf, 10 + 2 * Len(bytes))) = levels
  BY <1>1, AddressRead
<1> QED
  BY <1>2, <1>3, <1>4 DEF dataMessage_parse

(* THEOREM AnswerParsed: dataMessage_parse gives back the data and the     *)
(* address that were put in nibbles by nibblize, nibblize16 and            *)
(* midi_message_send, for every byte, address and length that the fields   *)
(* of the message can hold.                                                *)
THEOREM AnswerParsed ==
    ASSUME NEW bytes \in Seq(ByteValue), bytes # <<>>, Len(bytes) \in WordValue,
           NEW levels \in Seq(WordValue), Len(levels) \in WordValue
    PROVE  dataMessage_parse(Answer(levels, bytes)) = [data |-> bytes, levels |-> levels]
<1> DEFINE t == nibblize(bytes)
<1>1. t \in Seq(Int) /\ Len(t) = 2 * Len(bytes)
  BY ByteSequence
<1> HIDE DEF t
<1>2. Len(bytes) \in Nat \ {0}
  BY EmptySeq
<1>3. t # <<>> /\ Len(t) \div 2 = Len(bytes)
  BY <1>1, <1>2
<1> DEFINE buf == DataMessage(levels, t)
<1>4. /\ buf \in Seq(Int)
      /\ Holds(buf, 6, nibblize16(Len(t) \div 2))
      /\ Holds(buf, 10, t)
      /\ Holds(buf, 10 + Len(t), Address(levels))
  BY <1>1, <1>3, DataMessageParts
<1> HIDE DEF buf
<1>5. Holds(buf, 10 + 2 * Len(bytes), Address(levels))
  BY <1>1, <1>4
<1>6. Holds(buf, 6, nibblize16(Len(bytes)))
  BY <1>3, <1>4
<1>7. dataMessage_parse(buf) = [data |-> bytes, levels |-> levels]
  BY <1>4, <1>5, <1>6, DataRead DEF t
<1> QED
  BY <1>7 DEF buf, t, Answer

\* A message of nibbles gives bytes, half as many.
LEMMA DataTyped ==
    ASSUME NEW t \in Seq(Nibble), t # <<>>, Len(t) \div 2 \in WordValue,
           NEW levels \in Seq(WordValue), Len(levels) \in WordValue
    PROVE  /\ dataMessage_parse(DataMessage(levels, t)).data \in Seq(ByteValue)
           /\ Len(dataMessage_parse(DataMessage(levels, t)).data) = Len(t) \div 2
<1> DEFINE buf == DataMessage(levels, t)
           n == Len(t) \div 2
<1>1. t \in Seq(Int)
  <2>1. Nibble \subseteq Int
    BY DEF Nibble
  <2> QED
    BY <2>1, WiderSequence
<1>2. buf \in Seq(Int) /\ Holds(buf, 6, nibblize16(n)) /\ Holds(buf, 10, t)
  BY <1>1, DataMessageParts
<1>3. n \in Nat /\ 2 * n <= Len(t)
  OBVIOUS
<1> HIDE DEF buf
<1>4. Word(buf, 6) = n
  <2>1. 6 \in Nat \ {0}
    OBVIOUS
  <2> QED
    BY <1>2, <2>1, WordRead
<1> HIDE DEF n
<1>5. ASSUME NEW j \in 1 .. n
      PROVE  Byte(buf, 10 + 2 * (j - 1)) \in ByteValue
  <2>1. 2 * j - 1 \in 1 .. Len(t) /\ 2 * j \in 1 .. Len(t)
    BY <1>3
  <2>2. buf[10 + (2 * j - 1) - 1] = t[2 * j - 1] /\ buf[10 + 2 * j - 1] = t[2 * j]
    BY <1>2, <2>1 DEF Holds
  <2>3. 10 + (2 * j - 1) - 1 = 10 + 2 * (j - 1) /\ 10 + 2 * j - 1 = 10 + 2 * (j - 1) + 1
    BY <1>3
  <2>4. t[2 * j - 1] \in Nibble /\ t[2 * j] \in Nibble
    BY <2>1
  <2>5. \A a, b \in Nibble : a + 16 * b \in ByteValue
    BY DEF Nibble, ByteValue
  <2>6. t[2 * j - 1] + 16 * t[2 * j] \in ByteValue
    BY <2>4, <2>5
  <2> QED
    BY <2>2, <2>3, <2>6 DEF Byte
<1>6. dataMessage_parse(buf).data = [j \in 1 .. n |-> Byte(buf, 10 + 2 * (j - 1))]
  BY <1>4 DEF dataMessage_parse, Bytes
<1>7. [j \in 1 .. n |-> Byte(buf, 10 + 2 * (j - 1))] \in Seq(ByteValue)
  BY <1>3, <1>5
<1>8. Len([j \in 1 .. n |-> Byte(buf, 10 + 2 * (j - 1))]) = n
  BY <1>3
<1> QED
  BY <1>6, <1>7, <1>8 DEF buf, n

-----------------------------------------------------------------------------
(* The dump of a program *)

LEMMA ProgramAddress ==
    ASSUME NEW p
    PROVE  /\ getProgramAddr(p) \in Seq(WordValue) /\ Len(getProgramAddr(p)) = 4
           /\ parseProgramAddr(getProgramAddr(p)) = IF p \in 1 .. 300 THEN p ELSE 0
<1>1. CASE p \in 1 .. 300
  <2>1. PICK b \in Int : b = (p - 1) \div 100
    BY <1>1
  <2>2. PICK k \in Int : k = (p - 1) % 100
    BY <1>1
  <2>3. b \in 0 .. 2 /\ k \in 0 .. 99 /\ 100 * b + k + 1 = p
    BY <1>1, <2>1, <2>2
  <2>4. getProgramAddr(p) = <<1, 10, b, k>>
    BY <1>1, <2>1, <2>2 DEF getProgramAddr
  <2>5. <<1, 10, b, k>> \in Seq(WordValue) /\ Len(<<1, 10, b, k>>) = 4
    <3>1. b \in 0 .. 2 /\ k \in 0 .. 99
      BY <2>3
    <3>2. b \in WordValue /\ k \in WordValue
      <4>1. \A x \in 0 .. 99 : x \in WordValue
        BY ONLY DEF WordValue
      <4>2. b \in 0 .. 99
        BY ONLY <3>1
      <4> QED
        BY ONLY <3>1, <4>1, <4>2
    <3>3. 1 \in WordValue /\ 10 \in WordValue
      BY ONLY DEF WordValue
    <3> QED
      BY ONLY <3>2, <3>3
  <2>6. parseProgramAddr(<<1, 10, b, k>>) = 100 * b + k + 1
    BY <2>3 DEF parseProgramAddr
  <2> QED
    BY <1>1, <2>3, <2>4, <2>5, <2>6
<1>2. CASE p \notin 1 .. 300
  <2>1. getProgramAddr(p) = <<1, 10, 2, 100>>
    BY <1>2 DEF getProgramAddr, ActiveProgram
  <2>2. <<1, 10, 2, 100>> \in Seq(WordValue) /\ Len(<<1, 10, 2, 100>>) = 4
    BY DEF WordValue
  <2>3. parseProgramAddr(<<1, 10, 2, 100>>) = 0
    BY DEF parseProgramAddr
  <2> QED
    BY <1>2, <2>1, <2>2, <2>3
<1> QED
  BY <1>1, <1>2

\* The device reads the address that was put in the request.
LEMMA RequestRead ==
    ASSUME NEW levels \in Seq(WordValue), Len(levels) \in WordValue
    PROVE  Words(DataRequest(levels), 12, Word(DataRequest(levels), 8)) = levels
<1> DEFINE head == Header(REQUEST)
           kind == nibblize(<<DATA>>)
           end == <<247>>
           address == Address(levels)
           m1 == head \o kind
           m2 == m1 \o address
           m3 == m2 \o end
<1>1. head \in Seq(Int) /\ Len(head) = 5
  BY HeaderProperties DEF REQUEST
<1>2. kind \in Seq(Int) /\ Len(kind) = 2
  <2> DEFINE s == <<DATA>>
  <2>1. s \in Seq(ByteValue) /\ Len(s) = 1
    BY DEF DATA, ByteValue
  <2> HIDE DEF s
  <2>2. nibblize(s) \in Seq(Int) /\ Len(nibblize(s)) = 2 * Len(s)
    BY <2>1, ByteSequence
  <2>3. 2 * Len(s) = 2
    BY ONLY <2>1
  <2> QED
    BY <2>2, <2>3, Zenon DEF s
<1>3. address \in Seq(Int) /\ end \in Seq(Int)
  BY AddressProperties
<1>4. DataRequest(levels) = m3
  BY DEF DataRequest
<1> HIDE DEF head, kind, end, address
<1>5. m1 \in Seq(Int) /\ Len(m1) = 7
  <2>1. m1 \in Seq(Int) /\ Len(m1) = Len(head) + Len(kind)
    BY ONLY <1>1, <1>2, Appended
  <2> QED
    BY ONLY <1>1, <1>2, <2>1
<1> HIDE DEF m1
<1>6. m2 \in Seq(Int)
  BY <1>3, <1>5, Appended
<1> HIDE DEF m2
<1>7. m3 \in Seq(Int)
  BY <1>3, <1>6, Appended
<1>8. Holds(m3, 1, m2 \o end)
  BY <1>7, HoldsItself
<1> HIDE DEF m3
<1>9. Holds(m3, 1, m2)
  BY <1>3, <1>6, <1>7, <1>8, MessageParts
<1>10. Holds(m3, 1 + Len(m1), address)
  BY <1>3, <1>5, <1>7, <1>9, MessageParts DEF m2
<1>11. 8 \in Nat \ {0} /\ 8 + 4 = 12 /\ 1 + Len(m1) = 8
  BY <1>5
<1>12. Words(m3, 8 + 4, Word(m3, 8)) = levels
  BY <1>7, <1>10, <1>11, AddressRead DEF address
<1> QED
  BY <1>4, <1>11, <1>12

\* The end of the file of a dump: the address of the active program
LEMMA ActiveAddress ==
    /\ ActiveProgram \in Seq(WordValue)
    /\ Len(ActiveProgram) = 4
    /\ Address(ActiveProgram) \o <<247>>
          = <<4,0,0,0, 1,0,0,0, 10,0,0,0, 2,0,0,0, 4,6,0,0, 247>>
<1>1. ActiveProgram \in Seq(WordValue) /\ Len(ActiveProgram) = 4
  BY DEF ActiveProgram, WordValue
<1>2. nibblize16(Len(ActiveProgram)) = <<4, 0, 0, 0>>
  <2>1. Part(4, 1) = 4 /\ Part(4, 2) = 0 /\ Part(4, 3) = 0 /\ Part(4, 4) = 0
    BY DEF Part, Weights
  <2>2. nibblize16(4) = [k \in 1 .. 4 |-> Part(4, k)]
    BY DEF nibblize16, Nibbles, Part
  <2> QED
    BY <1>1, <2>1, <2>2
<1> DEFINE w == NibblesOf(ActiveProgram, 4)
<1>3. ActiveProgram \in Seq(Int) /\ 4 \in {2, 4}
  BY DEF ActiveProgram
<1>4. /\ w \in Seq(Nibble) /\ Len(w) = 4 * 4
      /\ \A j \in 1 .. Len(ActiveProgram), k \in 1 .. 4 :
            w[4 * (j - 1) + k] = Part(ActiveProgram[j], k)
  BY <1>1, <1>3, NibblesOfProperties
<1>5. w \in Seq(Nibble) /\ Len(w) = 16
  BY <1>4
<1> HIDE DEF w
<1>6. /\ Part(1, 1) = 1 /\ Part(1, 2) = 0 /\ Part(1, 3) = 0 /\ Part(1, 4) = 0
      /\ Part(10, 1) = 10 /\ Part(10, 2) = 0 /\ Part(10, 3) = 0 /\ Part(10, 4) = 0
  BY DEF Part, Weights
<1>7. /\ Part(2, 1) = 2 /\ Part(2, 2) = 0 /\ Part(2, 3) = 0 /\ Part(2, 4) = 0
      /\ Part(100, 1) = 4 /\ Part(100, 2) = 6 /\ Part(100, 3) = 0 /\ Part(100, 4) = 0
  BY DEF Part, Weights
<1>8. ASSUME NEW j \in 1 .. 4, NEW k \in 1 .. 4
      PROVE  w[4 * (j - 1) + k] = Part(ActiveProgram[j], k)
  BY <1>1, <1>4
<1>9. w[1] = 1 /\ w[2] = 0 /\ w[3] = 0 /\ w[4] = 0
  <2>1. w[4 * (1 - 1) + 1] = Part(ActiveProgram[1], 1) /\ w[4 * (1 - 1) + 2] = Part(ActiveProgram[1], 2)
        /\ w[4 * (1 - 1) + 3] = Part(ActiveProgram[1], 3) /\ w[4 * (1 - 1) + 4] = Part(ActiveProgram[1], 4)
    BY <1>8
  <2> QED
    BY <1>6, <2>1 DEF ActiveProgram
<1>10. w[5] = 10 /\ w[6] = 0 /\ w[7] = 0 /\ w[8] = 0
  <2>1. w[4 * (2 - 1) + 1] = Part(ActiveProgram[2], 1) /\ w[4 * (2 - 1) + 2] = Part(ActiveProgram[2], 2)
        /\ w[4 * (2 - 1) + 3] = Part(ActiveProgram[2], 3) /\ w[4 * (2 - 1) + 4] = Part(ActiveProgram[2], 4)
    BY <1>8
  <2> QED
    BY <1>6, <2>1 DEF ActiveProgram
<1>11. w[9] = 2 /\ w[10] = 0 /\ w[11] = 0 /\ w[12] = 0
  <2>1. w[4 * (3 - 1) + 1] = Part(ActiveProgram[3], 1) /\ w[4 * (3 - 1) + 2] = Part(ActiveProgram[3], 2)
        /\ w[4 * (3 - 1) + 3] = Part(ActiveProgram[3], 3) /\ w[4 * (3 - 1) + 4] = Part(ActiveProgram[3], 4)
    BY <1>8
  <2> QED
    BY <1>7, <2>1 DEF ActiveProgram
<1>12. w[13] = 4 /\ w[14] = 6 /\ w[15] = 0 /\ w[16] = 0
  <2>1. w[4 * (4 - 1) + 1] = Part(ActiveProgram[4], 1) /\ w[4 * (4 - 1) + 2] = Part(ActiveProgram[4], 2)
        /\ w[4 * (4 - 1) + 3] = Part(ActiveProgram[4], 3) /\ w[4 * (4 - 1) + 4] = Part(ActiveProgram[4], 4)
    BY <1>8
  <2> QED
    BY <1>7, <2>1 DEF ActiveProgram
<1>13. w = <<1,0,0,0, 10,0,0,0, 2,0,0,0, 4,6,0,0>>
  BY <1>5, <1>9, <1>10, <1>11, <1>12
<1>14. Address(ActiveProgram) = <<4, 0, 0, 0>> \o w
  BY <1>2 DEF Address, w
<1> DEFINE a == <<4, 0, 0, 0>>
           b == <<1,0,0,0, 10,0,0,0, 2,0,0,0, 4,6,0,0>>
           c == <<247>>
<1>15. a \in Seq(Int) /\ b \in Seq(Int) /\ c \in Seq(Int) /\ Len(a) = 4 /\ Len(b) = 16 /\ Len(c) = 1
  OBVIOUS
<1>16. PICK x : x = a \o b
  OBVIOUS
<1>17. PICK y : y = x \o c
  OBVIOUS
<1> HIDE DEF a, b, c
<1>18. x \in Seq(Int) /\ Len(x) = 20
  <2>1. x \in Seq(Int) /\ Len(x) = Len(a) + Len(b)
    BY <1>15, <1>16, Appended
  <2> QED
    BY ONLY <1>15, <2>1
<1>19. y \in Seq(Int) /\ Len(y) = 21
  <2>1. y \in Seq(Int) /\ Len(y) = Len(x) + Len(c)
    BY <1>15, <1>17, <1>18, Appended
  <2> QED
    BY ONLY <1>15, <1>18, <2>1
<1>20. /\ \A k \in 1 .. Len(a) : x[k] = a[k]
       /\ \A k \in 1 .. Len(b) : x[Len(a) + k] = b[k]
  BY <1>15, <1>16, ConcatAt
<1>21. /\ \A k \in 1 .. Len(x) : y[k] = x[k]
       /\ \A k \in 1 .. Len(c) : y[Len(x) + k] = c[k]
  BY <1>15, <1>17, <1>18, ConcatAt, ZenonT(30)
<1>22. \A k \in 1 .. 4 : y[k] = a[k]
  <2>1. \A k \in 1 .. 4 : k \in 1 .. Len(a) /\ k \in 1 .. Len(x)
    BY <1>15, <1>18
  <2> QED
    BY <1>20, <1>21, <2>1
<1>23. \A k \in 1 .. 16 : y[4 + k] = b[k]
  <2>1. \A k \in 1 .. 16 : x[4 + k] = b[k]
    BY <1>15, <1>20
  <2>2. \A k \in 1 .. 16 : 4 + k \in 1 .. Len(x)
    BY <1>18
  <2> QED
    BY <1>21, <2>1, <2>2
<1>24. y[20 + 1] = c[1]
  BY <1>15, <1>18, <1>21
<1>25. y[1] = 4 /\ y[2] = 0 /\ y[3] = 0 /\ y[4] = 0
  BY <1>22 DEF a
<1>26. /\ y[4 + 1] = 1 /\ y[4 + 2] = 0 /\ y[4 + 3] = 0 /\ y[4 + 4] = 0
       /\ y[4 + 5] = 10 /\ y[4 + 6] = 0 /\ y[4 + 7] = 0 /\ y[4 + 8] = 0
  BY <1>23 DEF b
<1>27. /\ y[4 + 9] = 2 /\ y[4 + 10] = 0 /\ y[4 + 11] = 0 /\ y[4 + 12] = 0
       /\ y[4 + 13] = 4 /\ y[4 + 14] = 6 /\ y[4 + 15] = 0 /\ y[4 + 16] = 0
  BY <1>23 DEF b
<1>28. y[21] = 247
  BY <1>24 DEF c
<1>29. y = <<4,0,0,0, 1,0,0,0, 10,0,0,0, 2,0,0,0, 4,6,0,0, 247>>
  BY <1>19, <1>25, <1>26, <1>27, <1>28
<1>30. Address(ActiveProgram) \o <<247>> = y
  BY <1>13, <1>14, <1>16, <1>17 DEF a, b, c
<1> QED
  BY <1>1, <1>29, <1>30

LEMMA ActiveLength == Len(ActiveProgram) \in WordValue
BY DEF ActiveProgram, WordValue

\* The file that the browser gets is the message for the active program.
LEMMA FileIsMessage ==
    ASSUME NEW bytes \in Seq(ByteValue), bytes # <<>>, Len(bytes) \in WordValue
    PROVE  Header(DATA) \o nibblize16(Len(bytes)) \o nibblize(bytes)
              \o <<4,0,0,0, 1,0,0,0, 10,0,0,0, 2,0,0,0, 4,6,0,0, 247>>
              = Answer(ActiveProgram, bytes)
<1> DEFINE t == nibblize(bytes)
           a == Address(ActiveProgram)
           e == <<247>>
           m == Header(DATA) \o nibblize16(Len(bytes)) \o t
<1>1. t \in Seq(Int) /\ Len(t) = 2 * Len(bytes)
  BY ByteSequence
<1>2. Len(bytes) \in Nat \ {0}
  BY EmptySeq
<1> HIDE DEF t
<1>3. t # <<>> /\ Len(t) \div 2 = Len(bytes)
  BY <1>1, <1>2
<1>4. Answer(ActiveProgram, bytes) = (m \o a) \o e
  BY <1>3 DEF Answer, DataMessage, t
<1>5. a \in Seq(Int) /\ e \in Seq(Int)
  <2>1. Address(ActiveProgram) \in Seq(Int)
    BY ONLY ActiveLength, ActiveAddress, AddressProperties
  <2> QED
    BY <2>1
<1>6. nibblize16(Len(bytes)) \in Seq(Int)
  BY OneWord
<1>7. Header(DATA) \in Seq(Int)
  BY HeaderProperties DEF DATA
<1>8. m \in Seq(Int)
  BY ONLY <1>1, <1>6, <1>7, Appended
<1>9. a \o e = <<4,0,0,0, 1,0,0,0, 10,0,0,0, 2,0,0,0, 4,6,0,0, 247>>
  BY ActiveAddress
<1> HIDE DEF m, a, e
<1>10. (m \o a) \o e = m \o (a \o e)
  BY <1>5, <1>8, ConcatAssociative, SMTT(30)
<1> QED
  BY <1>4, <1>9, <1>10, Zenon DEF m, t

-----------------------------------------------------------------------------
(* The messages of descriptions and of the configuration *)

LEMMA OneByte ==
    ASSUME NEW x \in ByteValue
    PROVE  nibblize(<<x>>) \in Seq(Int) /\ Len(nibblize(<<x>>)) = 2
<1> DEFINE s == <<x>>
<1>1. s \in Seq(ByteValue) /\ Len(s) = 1
  OBVIOUS
<1> HIDE DEF s
<1>2. nibblize(s) \in Seq(Int) /\ Len(nibblize(s)) = 2 * Len(s)
  BY <1>1, ByteSequence
<1>3. 2 * Len(s) = 2
  BY ONLY <1>1
<1> QED
  BY <1>2, <1>3, Zenon DEF s

LEMMA ByteRead ==
    ASSUME NEW buf \in Seq(Int), NEW i \in Nat \ {0}, NEW x \in ByteValue,
           Holds(buf, i, nibblize(<<x>>))
    PROVE  Byte(buf, i) = x
<1> DEFINE s == <<x>>
<1>1. s \in Seq(ByteValue) /\ Len(s) = 1 /\ s[1] = x
  OBVIOUS
<1> HIDE DEF s
<1>2. Holds(buf, i, nibblize(s))
  BY DEF s
<1>3. Bytes(buf, i, Len(s)) = s
  BY <1>1, <1>2, BytesRead
<1>4. [j \in 1 .. Len(s) |-> Byte(buf, i + 2 * (j - 1))][1] = x
  BY <1>1, <1>3 DEF Bytes
<1>5. 1 \in 1 .. Len(s) /\ i + 2 * (1 - 1) = i
  BY <1>1
<1> QED
  BY <1>4, <1>5

\* The limits and units of a description, in the order of its message
LimitsOf(d) ==
    [k \in 1 .. 3 * Len(d.minValue) |->
        LET j == 1 + ((k - 1) \div 3)
        IN CASE k % 3 = 1 -> d.minValue[j]
             [] k % 3 = 2 -> d.maxValue[j]
             [] k % 3 = 0 -> d.displayUnits[j]]

LEMMA LimitsProperties ==
    ASSUME NEW d, WellDescribed(d)
    PROVE  /\ LimitsOf(d) \in Seq(LimitValue \cup WordValue)
           /\ Len(LimitsOf(d)) = 3 * Len(d.minValue)
           /\ \A j \in 1 .. Len(d.minValue) :
                 /\ LimitsOf(d)[3 * (j - 1) + 1] = d.minValue[j]
                 /\ LimitsOf(d)[3 * (j - 1) + 2] = d.maxValue[j]
                 /\ LimitsOf(d)[3 * (j - 1) + 3] = d.displayUnits[j]
<1> DEFINE n == Len(d.minValue)
<1>1. /\ d.minValue \in Seq(LimitValue) /\ d.maxValue \in Seq(LimitValue)
      /\ d.displayUnits \in Seq(WordValue)
      /\ Len(d.maxValue) = n /\ Len(d.displayUnits) = n /\ n \in Nat
  BY DEF WellDescribed
<1>2. \A j \in 1 .. n : /\ d.minValue[j] \in LimitValue
                        /\ d.maxValue[j] \in LimitValue
                        /\ d.displayUnits[j] \in WordValue
  BY <1>1
<1> HIDE DEF n
<1>3. ASSUME NEW j \in 1 .. n
      PROVE  /\ 3 * (j - 1) + 1 \in 1 .. 3 * n
             /\ 3 * (j - 1) + 2 \in 1 .. 3 * n
             /\ 3 * (j - 1) + 3 \in 1 .. 3 * n
             /\ 1 + ((3 * (j - 1) + 1 - 1) \div 3) = j
             /\ 1 + ((3 * (j - 1) + 2 - 1) \div 3) = j
             /\ 1 + ((3 * (j - 1) + 3 - 1) \div 3) = j
             /\ (3 * (j - 1) + 1) % 3 = 1
             /\ (3 * (j - 1) + 2) % 3 = 2
             /\ (3 * (j - 1) + 3) % 3 = 0
  BY <1>1
<1>4. ASSUME NEW k \in 1 .. 3 * n
      PROVE  1 + ((k - 1) \div 3) \in 1 .. n /\ k % 3 \in {0, 1, 2}
  BY <1>1
<1> DEFINE Field(k, j) == CASE k % 3 = 1 -> d.minValue[j]
                            [] k % 3 = 2 -> d.maxValue[j]
                            [] k % 3 = 0 -> d.displayUnits[j]
<1>5. LimitsOf(d) = [k \in 1 .. 3 * n |-> Field(k, 1 + ((k - 1) \div 3))]
  BY DEF LimitsOf, n
<1>6. ASSUME NEW k \in 1 .. 3 * n, NEW j \in 1 .. n
      PROVE  /\ Field(k, j) \in LimitValue \cup WordValue
             /\ k % 3 = 1 => Field(k, j) = d.minValue[j]
             /\ k % 3 = 2 => Field(k, j) = d.maxValue[j]
             /\ k % 3 = 0 => Field(k, j) = d.displayUnits[j]
  <2>1. CASE k % 3 = 1
    BY <1>2, <2>1
  <2>2. CASE k % 3 = 2
    BY <1>2, <2>2
  <2>3. CASE k % 3 = 0
    BY <1>2, <2>3
  <2> QED
    BY <1>4, <2>1, <2>2, <2>3
<1> HIDE DEF Field
<1>7. \A k \in 1 .. 3 * n : Field(k, 1 + ((k - 1) \div 3)) \in LimitValue \cup WordValue
  BY <1>4, <1>6
<1>8. 3 * n \in Nat
  BY <1>1
<1>9. LimitsOf(d) \in Seq(LimitValue \cup WordValue) /\ Len(LimitsOf(d)) = 3 * n
  BY <1>5, <1>7, <1>8
<1>10. ASSUME NEW j \in 1 .. n, NEW k \in 1 .. 3 * n, 1 + ((k - 1) \div 3) = j
       PROVE  LimitsOf(d)[k] = Field(k, j)
  BY <1>5, <1>10
<1>11. ASSUME NEW j \in 1 .. n
       PROVE  /\ LimitsOf(d)[3 * (j - 1) + 1] = d.minValue[j]
              /\ LimitsOf(d)[3 * (j - 1) + 2] = d.maxValue[j]
              /\ LimitsOf(d)[3 * (j - 1) + 3] = d.displayUnits[j]
  <2>1. LimitsOf(d)[3 * (j - 1) + 1] = Field(3 * (j - 1) + 1, j)
    BY <1>3, <1>10
  <2>2. LimitsOf(d)[3 * (j - 1) + 2] = Field(3 * (j - 1) + 2, j)
    BY <1>3, <1>10
  <2>3. LimitsOf(d)[3 * (j - 1) + 3] = Field(3 * (j - 1) + 3, j)
    BY <1>3, <1>10
  <2> QED
    BY <1>3, <1>6, <2>1, <2>2, <2>3
<1> QED
  BY <1>9, <1>11 DEF n

LEMMA LimitRead ==
    ASSUME NEW buf \in Seq(Int), NEW at \in Nat, NEW d, WellDescribed(d),
           Holds(buf, at + 12, NibblesOf(LimitsOf(d), 4)), NEW j \in 1 .. Len(d.minValue)
    PROVE  /\ Word(buf, at + 12 * j + 4 * 0) = Unsigned16(d.minValue[j])
           /\ Word(buf, at + 12 * j + 4 * 1) = Unsigned16(d.maxValue[j])
           /\ Word(buf, at + 12 * j + 4 * 2) = d.displayUnits[j]
<1> DEFINE s == LimitsOf(d)
<1>1. /\ s \in Seq(LimitValue \cup WordValue) /\ Len(s) = 3 * Len(d.minValue)
      /\ s[3 * (j - 1) + 1] = d.minValue[j]
      /\ s[3 * (j - 1) + 2] = d.maxValue[j]
      /\ s[3 * (j - 1) + 3] = d.displayUnits[j]
  BY LimitsProperties
<1>2. d.minValue \in Seq(LimitValue) /\ Len(d.minValue) \in Nat
  BY DEF WellDescribed
<1>3. Holds(buf, at + 12, NibblesOf(s, 4)) /\ at + 12 \in Nat \ {0}
  OBVIOUS
<1> HIDE DEF s
<1>4. /\ 3 * (j - 1) + 1 \in 1 .. Len(s)
      /\ 3 * (j - 1) + 2 \in 1 .. Len(s)
      /\ 3 * (j - 1) + 3 \in 1 .. Len(s)
  BY <1>1, <1>2
<1>5. /\ Word(buf, at + 12 + 4 * (3 * (j - 1) + 1 - 1)) = Unsigned16(s[3 * (j - 1) + 1])
      /\ Word(buf, at + 12 + 4 * (3 * (j - 1) + 2 - 1)) = Unsigned16(s[3 * (j - 1) + 2])
      /\ Word(buf, at + 12 + 4 * (3 * (j - 1) + 3 - 1)) = Unsigned16(s[3 * (j - 1) + 3])
  <2>1. ASSUME NEW k \in 1 .. Len(s)
        PROVE  Word(buf, at + 12 + 4 * (k - 1)) = Unsigned16(s[k])
    BY <1>1, <1>3, WordsRead
  <2> DEFINE W(k) == Word(buf, at + 12 + 4 * (k - 1)) = Unsigned16(s[k])
  <2>2. \A k \in 1 .. Len(s) : W(k)
    BY <2>1
  <2> HIDE DEF W
  <2>3. W(3 * (j - 1) + 1) /\ W(3 * (j - 1) + 2) /\ W(3 * (j - 1) + 3)
    BY <1>4, <2>2
  <2> QED
    BY <2>3 DEF W
<1>6. /\ at + 12 + 4 * (3 * (j - 1) + 1 - 1) = at + 12 * j + 4 * 0
      /\ at + 12 + 4 * (3 * (j - 1) + 2 - 1) = at + 12 * j + 4 * 1
      /\ at + 12 + 4 * (3 * (j - 1) + 3 - 1) = at + 12 * j + 4 * 2
  BY <1>2
<1>7. Unsigned16(d.displayUnits[j]) = d.displayUnits[j]
  <2>1. d.displayUnits[j] \in WordValue
    BY DEF WellDescribed
  <2> QED
    BY <2>1, NoSign
<1> QED
  BY <1>1, <1>5, <1>6, <1>7

\* The limits of a parameter whose maximum is not negative
LEMMA SignRead ==
    ASSUME NEW x \in LimitValue
    PROVE  /\ Signed16(Unsigned16(x)) = x
           /\ x >= 0 => Unsigned16(x) = x /\ ~(Unsigned16(x) >= 32768)
BY DEF LimitValue, Signed16, Unsigned16

LEMMA OptionTypeSize ==
    ASSUME NEW d, WellDescribed(d)
    PROVE  d.optionType \in WordValue
<1>1. d.optionType \in OptionTypes
  BY DEF WellDescribed
<1>2. /\ \h12f \in WordValue /\ \h130 \in WordValue /\ \h131 \in WordValue
      /\ \h132 \in WordValue /\ \h136 \in WordValue /\ \h12c \in WordValue
      /\ \h12d \in WordValue /\ \h12e \in WordValue /\ \h133 \in WordValue
      /\ \h134 \in WordValue /\ \h139 \in WordValue /\ \h13a \in WordValue
      /\ \h13b \in WordValue /\ \hffff \in WordValue
  BY DEF WordValue
<1> QED
  BY <1>1, <1>2 DEF OptionTypes, Rates, Times

\* What the parser reads of a description at the places of its fields
LEMMA DescriptionParts ==
    ASSUME NEW d, WellDescribed(d)
    PROVE  LET buf == DescriptionMessage(d)
               n == Len(d.name)
           IN /\ buf \in Seq(Int)
              /\ Holds(buf, 6, nibblize16(d.objectType))
              /\ Holds(buf, 10, nibblize(<<n>>))
              /\ Holds(buf, 12, nibblize(d.name))
              /\ Holds(buf, 12 + 2 * n, nibblize16(d.dataSize))
              /\ Holds(buf, 12 + 2 * n + 4, nibblize(<<d.controlFlags>>))
              /\ Holds(buf, 12 + 2 * n + 6, nibblize16(d.optionType))
              /\ Holds(buf, 12 + 2 * n + 10, nibblize(<<Len(d.minValue)>>))
              /\ Holds(buf, 12 + 2 * n + 12, NibblesOf(LimitsOf(d), 4))
<1> DEFINE head == Header(OBJECT_DESCRIPTION)
           type == nibblize16(d.objectType)
           length == nibblize(<<Len(d.name)>>)
           name == nibblize(d.name)
           size == nibblize16(d.dataSize)
           flags == nibblize(<<d.controlFlags>>)
           option == nibblize16(d.optionType)
           count == nibblize(<<Len(d.minValue)>>)
           limits == NibblesOf(LimitsOf(d), 4)
           end == <<247>>
           n == Len(d.name)
           m1 == head \o type
           m2 == m1 \o length
           m3 == m2 \o name
           m4 == m3 \o size
           m5 == m4 \o flags
           m6 == m5 \o option
           m7 == m6 \o count
           m8 == m7 \o limits
           m9 == m8 \o end
<1>1. /\ d.objectType \in WordValue /\ d.dataSize \in WordValue /\ d.controlFlags \in ByteValue
      /\ d.name \in Seq(ByteValue) /\ Len(d.name) \in ByteValue /\ Len(d.minValue) \in ByteValue
  BY DEF WellDescribed
<1>2. d.optionType \in WordValue
  BY OptionTypeSize
<1>3. head \in Seq(Int) /\ Len(head) = 5
  BY HeaderProperties DEF OBJECT_DESCRIPTION
<1>4. type \in Seq(Int) /\ Len(type) = 4
  BY <1>1, OneWord
<1>5. length \in Seq(Int) /\ Len(length) = 2
  BY <1>1, OneByte
<1>6. name \in Seq(Int) /\ Len(name) = 2 * n
  BY <1>1, ByteSequence
<1>7. size \in Seq(Int) /\ Len(size) = 4
  BY <1>1, OneWord
<1>8. flags \in Seq(Int) /\ Len(flags) = 2
  BY <1>1, OneByte
<1>9. option \in Seq(Int) /\ Len(option) = 4
  BY <1>2, OneWord
<1>10. count \in Seq(Int) /\ Len(count) = 2
  BY <1>1, OneByte
<1>11. limits \in Seq(Int)
  BY LimitsProperties, WordSequence
<1>12. end \in Seq(Int)
  OBVIOUS
<1>13. n \in Nat
  BY <1>1 DEF ByteValue
<1>14. DescriptionMessage(d) = m9
  BY DEF DescriptionMessage, LimitsOf
<1> HIDE DEF head, type, length, name, size, flags, option, count, limits, end, n
<1>15. m1 \in Seq(Int) /\ Len(m1) = Len(head) + Len(type)
  BY ONLY <1>3, <1>4, Appended
<1> HIDE DEF m1
<1>16. m2 \in Seq(Int) /\ Len(m2) = Len(m1) + Len(length)
  BY ONLY <1>5, <1>15, Appended
<1> HIDE DEF m2
<1>17. m3 \in Seq(Int) /\ Len(m3) = Len(m2) + Len(name)
  BY ONLY <1>6, <1>16, Appended
<1> HIDE DEF m3
<1>18. m4 \in Seq(Int) /\ Len(m4) = Len(m3) + Len(size)
  BY ONLY <1>7, <1>17, Appended
<1> HIDE DEF m4
<1>19. m5 \in Seq(Int) /\ Len(m5) = Len(m4) + Len(flags)
  BY ONLY <1>8, <1>18, Appended
<1> HIDE DEF m5
<1>20. m6 \in Seq(Int) /\ Len(m6) = Len(m5) + Len(option)
  BY ONLY <1>9, <1>19, Appended
<1> HIDE DEF m6
<1>21. m7 \in Seq(Int) /\ Len(m7) = Len(m6) + Len(count)
  BY ONLY <1>10, <1>20, Appended
<1> HIDE DEF m7
<1>22. m8 \in Seq(Int)
  BY ONLY <1>11, <1>21, Appended
<1> HIDE DEF m8
<1>23. m9 \in Seq(Int)
  BY ONLY <1>12, <1>22, Appended
<1>24. Holds(m9, 1, m8 \o end)
  BY <1>23, HoldsItself
<1> HIDE DEF m9
<1>25. /\ Len(m1) = 9 /\ Len(m2) = 11 /\ Len(m3) = 11 + 2 * n /\ Len(m4) = 15 + 2 * n
       /\ Len(m5) = 17 + 2 * n /\ Len(m6) = 21 + 2 * n /\ Len(m7) = 23 + 2 * n
  BY ONLY <1>3, <1>4, <1>5, <1>6, <1>7, <1>8, <1>9, <1>10, <1>13,
          <1>15, <1>16, <1>17, <1>18, <1>19, <1>20, <1>21
<1>26. Holds(m9, 1, m8)
  BY ONLY <1>12, <1>22, <1>23, <1>24, MessageParts
<1>27. Holds(m9, 1, m7) /\ Holds(m9, 1 + Len(m7), limits)
  BY <1>11, <1>21, <1>23, <1>26, MessageParts DEF m8
<1>28. Holds(m9, 1, m6) /\ Holds(m9, 1 + Len(m6), count)
  BY <1>10, <1>20, <1>23, <1>27, MessageParts DEF m7
<1>29. Holds(m9, 1, m5) /\ Holds(m9, 1 + Len(m5), option)
  BY <1>9, <1>19, <1>23, <1>28, MessageParts DEF m6
<1>30. Holds(m9, 1, m4) /\ Holds(m9, 1 + Len(m4), flags)
  BY <1>8, <1>18, <1>23, <1>29, MessageParts DEF m5
<1>31. Holds(m9, 1, m3) /\ Holds(m9, 1 + Len(m3), size)
  BY <1>7, <1>17, <1>23, <1>30, MessageParts DEF m4
<1>32. Holds(m9, 1, m2) /\ Holds(m9, 1 + Len(m2), name)
  BY <1>6, <1>16, <1>23, <1>31, MessageParts DEF m3
<1>33. Holds(m9, 1, m1) /\ Holds(m9, 1 + Len(m1), length)
  BY <1>5, <1>15, <1>23, <1>32, MessageParts DEF m2
<1>34. Holds(m9, 1 + Len(head), type)
  BY <1>3, <1>4, <1>23, <1>33, MessageParts DEF m1
<1>35. /\ 1 + Len(head) = 6 /\ 1 + Len(m1) = 10 /\ 1 + Len(m2) = 12
       /\ 1 + Len(m3) = 12 + 2 * n /\ 1 + Len(m4) = 12 + 2 * n + 4
       /\ 1 + Len(m5) = 12 + 2 * n + 6 /\ 1 + Len(m6) = 12 + 2 * n + 10
       /\ 1 + Len(m7) = 12 + 2 * n + 12
  BY ONLY <1>3, <1>13, <1>25
<1>36. /\ Holds(m9, 6, type) /\ Holds(m9, 10, length) /\ Holds(m9, 12, name)
       /\ Holds(m9, 12 + 2 * n, size) /\ Holds(m9, 12 + 2 * n + 4, flags)
       /\ Holds(m9, 12 + 2 * n + 6, option) /\ Holds(m9, 12 + 2 * n + 10, count)
       /\ Holds(m9, 12 + 2 * n + 12, limits)
  BY ONLY <1>27, <1>28, <1>29, <1>30, <1>31, <1>32, <1>33, <1>34, <1>35
<1> QED
  BY <1>14, <1>23, <1>36 DEF type, length, name, size, flags, option, count, limits, n

\* objectDescription_parse for a name of n characters and count limits, in the end from at on
Fields(buf, n, at, count) ==
    [objectType |-> Word(buf, 6), name |-> Bytes(buf, 12, n), dataSize |-> Word(buf, at),
     controlFlags |-> Byte(buf, at + 4), optionType |-> Word(buf, at + 6),
     minValue |-> [j \in 1 .. count |->
        IF Word(buf, at + 12 * j + 4 * 1) >= 32768 THEN Signed16(Word(buf, at + 12 * j + 4 * 1))
        ELSE Signed16(Word(buf, at + 12 * j + 4 * 0))],
     maxValue |-> [j \in 1 .. count |-> Word(buf, at + 12 * j + 4 * 1)],
     displayUnits |-> [j \in 1 .. count |-> Word(buf, at + 12 * j + 4 * 2)]]

\* What is read of the description of a parameter: its limits too, if no maximum is negative.
LEMMA DescriptionParsed ==
    ASSUME NEW d, WellDescribed(d)
    PROVE  LET o == objectDescription_parse(DescriptionMessage(d))
           IN /\ o = [objectType |-> d.objectType, name |-> d.name, dataSize |-> d.dataSize,
                      controlFlags |-> d.controlFlags, optionType |-> d.optionType,
                      minValue |-> o.minValue, maxValue |-> o.maxValue,
                      displayUnits |-> d.displayUnits]
              /\ o.minValue \in Seq(Int) /\ o.maxValue \in Seq(Int)
              /\ Len(o.minValue) = Len(d.minValue) /\ Len(o.maxValue) = Len(d.maxValue)
              /\ (\A j \in DOMAIN d.maxValue : ~(d.maxValue[j] < 0))
                    => o.minValue = d.minValue /\ o.maxValue = d.maxValue
<1> DEFINE buf == DescriptionMessage(d)
           n == Len(d.name)
           count == Len(d.minValue)
           at == 12 + 2 * n
           L(j, k) == Word(buf, at + 12 * j + 4 * k)
           min == [j \in 1 .. count |->
                      IF L(j, 1) >= 32768 THEN Signed16(L(j, 1)) ELSE Signed16(L(j, 0))]
           max == [j \in 1 .. count |-> L(j, 1)]
           units == [j \in 1 .. count |-> L(j, 2)]
<1>1. /\ d.objectType \in WordValue /\ d.dataSize \in WordValue /\ d.controlFlags \in ByteValue
      /\ d.name \in Seq(ByteValue) /\ n \in ByteValue /\ count \in ByteValue
      /\ d.minValue \in Seq(LimitValue) /\ d.maxValue \in Seq(LimitValue)
      /\ d.displayUnits \in Seq(WordValue)
      /\ Len(d.maxValue) = count /\ Len(d.displayUnits) = count
  BY DEF WellDescribed
<1>2. d.optionType \in WordValue
  BY OptionTypeSize
<1>3. /\ buf \in Seq(Int)
      /\ Holds(buf, 6, nibblize16(d.objectType))
      /\ Holds(buf, 10, nibblize(<<n>>))
      /\ Holds(buf, 12, nibblize(d.name))
      /\ Holds(buf, at, nibblize16(d.dataSize))
      /\ Holds(buf, at + 4, nibblize(<<d.controlFlags>>))
      /\ Holds(buf, at + 6, nibblize16(d.optionType))
      /\ Holds(buf, at + 10, nibblize(<<count>>))
      /\ Holds(buf, at + 12, NibblesOf(LimitsOf(d), 4))
  BY DescriptionParts
<1>4. n \in Nat /\ count \in Nat
  BY <1>1 DEF ByteValue
<1> HIDE DEF buf, n
<1>5. at \in Nat /\ at \in Nat \ {0} /\ at + 4 \in Nat \ {0} /\ at + 6 \in Nat \ {0}
      /\ at + 10 \in Nat \ {0} /\ 6 \in Nat \ {0} /\ 10 \in Nat \ {0} /\ 12 \in Nat \ {0}
  BY <1>4
<1> HIDE DEF at, count
<1>6. Word(buf, 6) = d.objectType /\ Word(buf, at) = d.dataSize /\ Word(buf, at + 6) = d.optionType
  BY <1>1, <1>2, <1>3, <1>5, WordRead
<1>7. Byte(buf, 10) = n /\ Byte(buf, at + 4) = d.controlFlags /\ Byte(buf, at + 10) = count
  BY <1>1, <1>3, <1>5, ByteRead
<1>8. Bytes(buf, 12, n) = d.name
  BY <1>1, <1>3, <1>5, BytesRead DEF n
<1>9. objectDescription_parse(buf)
         = [objectType |-> d.objectType, name |-> d.name, dataSize |-> d.dataSize,
            controlFlags |-> d.controlFlags, optionType |-> d.optionType,
            minValue |-> min, maxValue |-> max, displayUnits |-> units]
  <2>1. objectDescription_parse(buf)
          = Fields(buf, Byte(buf, 10), 12 + 2 * Byte(buf, 10),
                   Byte(buf, 12 + 2 * Byte(buf, 10) + 10))
    BY DEF objectDescription_parse, Fields
  <2>2. objectDescription_parse(buf) = Fields(buf, n, at, count)
    BY <1>7, <2>1 DEF at
  <2>3. Fields(buf, n, at, count)
          = [objectType |-> Word(buf, 6), name |-> Bytes(buf, 12, n), dataSize |-> Word(buf, at),
             controlFlags |-> Byte(buf, at + 4), optionType |-> Word(buf, at + 6),
             minValue |-> min, maxValue |-> max, displayUnits |-> units]
    BY DEF Fields
  <2> HIDE DEF min, max, units
  <2> QED
    BY <1>6, <1>7, <1>8, <2>2, <2>3
<1>10. ASSUME NEW j \in 1 .. count
       PROVE  /\ L(j, 0) = Unsigned16(d.minValue[j])
              /\ L(j, 1) = Unsigned16(d.maxValue[j])
              /\ L(j, 2) = d.displayUnits[j]
  <2>1. j \in 1 .. Len(d.minValue)
    BY DEF count
  <2>2. at \in Nat \ {0} /\ buf \in Seq(Int) /\ Holds(buf, at + 12, NibblesOf(LimitsOf(d), 4))
    BY <1>3, <1>5
  <2> QED
    BY ONLY <2>1, <2>2, WellDescribed(d), LimitRead
<1> HIDE DEF L
<1>11. \A j \in 1 .. count : d.minValue[j] \in LimitValue /\ d.maxValue[j] \in LimitValue
  BY <1>1 DEF count
<1>12. units = d.displayUnits
  <2>1. d.displayUnits = [j \in 1 .. count |-> d.displayUnits[j]]
    BY <1>1
  <2>2. units = [j \in 1 .. count |-> d.displayUnits[j]]
    BY <1>10
  <2> QED
    BY <2>1, <2>2
<1>13. ASSUME NEW j \in 1 .. count
       PROVE  max[j] \in Int /\ min[j] \in Int
  <2>1. Unsigned16(d.minValue[j]) \in Int /\ Unsigned16(d.maxValue[j]) \in Int
    BY <1>11 DEF Unsigned16, LimitValue
  <2>2. \A x \in Int : Signed16(x) \in Int
    BY DEF Signed16
  <2> QED
    BY <1>10, <2>1, <2>2
<1>14. min \in Seq(Int) /\ Len(min) = count /\ max \in Seq(Int) /\ Len(max) = count
  BY <1>4, <1>13
<1>15. ASSUME \A j \in DOMAIN d.maxValue : ~(d.maxValue[j] < 0)
       PROVE  min = d.minValue /\ max = d.maxValue
  <2>1. ASSUME NEW j \in 1 .. count
        PROVE  max[j] = d.maxValue[j] /\ min[j] = d.minValue[j]
    <3>1. d.minValue[j] \in LimitValue /\ d.maxValue[j] \in LimitValue
      BY <1>11
    <3>2. d.maxValue[j] >= 0
      <4>1. j \in DOMAIN d.maxValue
        BY <1>1
      <4>2. d.maxValue[j] \in Int
        BY <3>1 DEF LimitValue
      <4> QED
        BY <1>15, <4>1, <4>2
    <3>3. L(j, 1) = d.maxValue[j] /\ ~(L(j, 1) >= 32768)
      BY <1>10, <3>1, <3>2, SignRead
    <3>4. Signed16(L(j, 0)) = d.minValue[j]
      BY <1>10, <3>1, SignRead
    <3> QED
      BY <3>3, <3>4
  <2> HIDE DEF min, max
  <2>2. d.minValue \in Seq(Int) /\ d.maxValue \in Seq(Int) /\ Len(d.minValue) = count
    <3>1. LimitValue \subseteq Int
      BY DEF LimitValue
    <3> QED
      BY <1>1, <3>1, WiderSequence DEF count
  <2>3. min = d.minValue
    BY ONLY <1>14, <2>1, <2>2, SeqEqual
  <2>4. Len(d.maxValue) = count
    BY <1>1
  <2>5. max = d.maxValue
    BY ONLY <1>14, <2>1, <2>2, <2>4, SeqEqual
  <2> QED
    BY <2>3, <2>5
<1> HIDE DEF min, max, units
<1> QED
  BY <1>1, <1>9, <1>12, <1>14, <1>15 DEF buf, count

LEMMA BytesAt ==
    ASSUME NEW buf \in Seq(Int), NEW i \in Nat \ {0}, NEW s \in Seq(ByteValue),
           Holds(buf, i, nibblize(s)), NEW j \in 1 .. Len(s)
    PROVE  Byte(buf, i + 2 * (j - 1)) = s[j]
<1>1. Bytes(buf, i, Len(s)) = s
  BY BytesRead
<1>2. [k \in 1 .. Len(s) |-> Byte(buf, i + 2 * (k - 1))][j] = s[j]
  BY <1>1 DEF Bytes
<1> QED
  BY <1>2

LEMMA Concatenated ==
    ASSUME NEW s \in Seq(ByteValue), NEW t \in Seq(ByteValue)
    PROVE  /\ s \o t \in Seq(ByteValue) /\ Len(s \o t) = Len(s) + Len(t)
           /\ \A j \in 1 .. Len(s) : (s \o t)[j] = s[j]
           /\ \A j \in 1 .. Len(t) : (s \o t)[Len(s) + j] = t[j]
<1>1. s \o t \in Seq(ByteValue) /\ Len(s \o t) = Len(s) + Len(t)
  OBVIOUS
<1>2. \A j \in 1 .. Len(s) : (s \o t)[j] = s[j]
  OBVIOUS
<1>3. \A j \in 1 .. Len(t) : (s \o t)[Len(s) + j] = t[j]
  OBVIOUS
<1> QED
  BY <1>1, <1>2, <1>3

\* The bytes of the configuration: e, then t of 8 characters, then u of 11
LEMMA ThreeParts ==
    ASSUME NEW e \in Seq(ByteValue), NEW t \in Seq(ByteValue), NEW u \in Seq(ByteValue),
           Len(e) = 2, Len(t) = 8, Len(u) = 11
    PROVE  /\ e \o t \o u \in Seq(ByteValue) /\ Len(e \o t \o u) = 21
           /\ \A j \in 1 .. 2 : (e \o t \o u)[j] = e[j]
           /\ \A j \in 1 .. 8 : (e \o t \o u)[2 + j] = t[j]
           /\ \A j \in 1 .. 11 : (e \o t \o u)[10 + j] = u[j]
<1>1. PICK f : f = e \o t
  OBVIOUS
<1>2. PICK s : s = f \o u
  OBVIOUS
<1>3. /\ f \in Seq(ByteValue) /\ Len(f) = Len(e) + Len(t)
      /\ \A j \in 1 .. Len(e) : f[j] = e[j]
      /\ \A j \in 1 .. Len(t) : f[Len(e) + j] = t[j]
  <2>1. /\ e \o t \in Seq(ByteValue) /\ Len(e \o t) = Len(e) + Len(t)
        /\ \A j \in 1 .. Len(e) : (e \o t)[j] = e[j]
        /\ \A j \in 1 .. Len(t) : (e \o t)[Len(e) + j] = t[j]
    BY Concatenated
  <2> QED
    BY ONLY <1>1, <2>1, Zenon
<1>4. /\ s \in Seq(ByteValue) /\ Len(s) = Len(f) + Len(u)
      /\ \A j \in 1 .. Len(f) : s[j] = f[j]
      /\ \A j \in 1 .. Len(u) : s[Len(f) + j] = u[j]
  <2>1. /\ f \o u \in Seq(ByteValue) /\ Len(f \o u) = Len(f) + Len(u)
        /\ \A j \in 1 .. Len(f) : (f \o u)[j] = f[j]
        /\ \A j \in 1 .. Len(u) : (f \o u)[Len(f) + j] = u[j]
    BY <1>3, Concatenated
  <2> QED
    BY ONLY <1>2, <2>1, Zenon
<1>5. Len(f) = 10
  BY <1>3
<1>6. Len(s) = 21
  BY <1>4, <1>5
<1>7. \A j \in 1 .. 2 : s[j] = e[j]
  <2>1. \A j \in 1 .. 2 : j \in 1 .. Len(e) /\ j \in 1 .. Len(f)
    BY <1>5
  <2> QED
    BY <1>3, <1>4, <2>1
<1>8. \A j \in 1 .. 8 : s[2 + j] = t[j]
  <2>1. \A j \in 1 .. 8 : j \in 1 .. Len(t) /\ 2 + j \in 1 .. Len(f)
    BY <1>5
  <2>2. \A j \in 1 .. 8 : f[2 + j] = t[j]
    BY <1>3, <2>1
  <2> QED
    BY <1>4, <2>1, <2>2
<1>9. \A j \in 1 .. 11 : s[10 + j] = u[j]
  BY <1>4, <1>5
<1> QED
  BY <1>1, <1>2, <1>4, <1>6, <1>7, <1>8, <1>9, Zenon

LEMMA ConfigurationParts ==
    ASSUME NEW s \in Seq(ByteValue), Len(s) = 21, NEW w \in Seq(LimitValue \cup WordValue)
    PROVE  LET buf == Header(SYSTEM_CONFIGURATION) \o nibblize(s) \o NibblesOf(w, 4) \o <<247>>
           IN buf \in Seq(Int) /\ Holds(buf, 6, nibblize(s)) /\ Holds(buf, 48, NibblesOf(w, 4))
<1> DEFINE head == Header(SYSTEM_CONFIGURATION)
           bytes == nibblize(s)
           words == NibblesOf(w, 4)
           end == <<247>>
           m1 == head \o bytes
           m2 == m1 \o words
           m3 == m2 \o end
<1>1. head \in Seq(Int) /\ Len(head) = 5
  BY HeaderProperties DEF SYSTEM_CONFIGURATION
<1>2. bytes \in Seq(Int) /\ Len(bytes) = 2 * Len(s)
  BY ByteSequence
<1>3. words \in Seq(Int)
  BY WordSequence
<1>4. end \in Seq(Int)
  OBVIOUS
<1> HIDE DEF head, bytes, words, end
<1>5. m1 \in Seq(Int) /\ Len(m1) = Len(head) + Len(bytes)
  BY ONLY <1>1, <1>2, Appended
<1> HIDE DEF m1
<1>6. m2 \in Seq(Int)
  BY ONLY <1>3, <1>5, Appended
<1> HIDE DEF m2
<1>7. m3 \in Seq(Int)
  BY ONLY <1>4, <1>6, Appended
<1>8. Holds(m3, 1, m2 \o end)
  BY <1>7, HoldsItself
<1> HIDE DEF m3
<1>9. Holds(m3, 1, m2)
  BY ONLY <1>4, <1>6, <1>7, <1>8, MessageParts
<1>10. Holds(m3, 1, m1) /\ Holds(m3, 1 + Len(m1), words)
  BY <1>3, <1>5, <1>7, <1>9, MessageParts DEF m2
<1>11. Holds(m3, 1 + Len(head), bytes)
  BY <1>1, <1>2, <1>7, <1>10, MessageParts DEF m1
<1>12. 1 + Len(head) = 6 /\ 1 + Len(m1) = 48
  BY <1>1, <1>2, <1>5
<1>13. Holds(m3, 6, bytes) /\ Holds(m3, 48, words)
  BY <1>10, <1>11, <1>12
<1> QED
  BY <1>7, <1>13 DEF m1, m2, m3, head, bytes, words, end

LEMMA ConfigurationParsed ==
    ASSUME NEW c, WellConfigured(c)
    PROVE  systemConfiguration_parse(ConfigurationMessage(c)) = c
<1> DEFINE buf == ConfigurationMessage(c)
           e == <<c.majorVersion, c.minorVersion>>
           s == e \o c.timeString \o c.dateString
           w == <<c.numberOfObjectTypes, c.reserved, c.numberOfControlLevels>>
<1>1. /\ c.majorVersion \in ByteValue /\ c.minorVersion \in ByteValue
      /\ c.timeString \in Seq(ByteValue) /\ c.dateString \in Seq(ByteValue)
      /\ c.numberOfObjectTypes \in WordValue /\ c.reserved \in WordValue
      /\ c.numberOfControlLevels \in WordValue
      /\ Len(c.timeString) = 8 /\ Len(c.dateString) = 11
  BY DEF WellConfigured
<1>2. c = [majorVersion |-> c.majorVersion, minorVersion |-> c.minorVersion,
           timeString |-> c.timeString, dateString |-> c.dateString,
           numberOfObjectTypes |-> c.numberOfObjectTypes, reserved |-> c.reserved,
           numberOfControlLevels |-> c.numberOfControlLevels]
  BY DEF WellConfigured
<1>3. e \in Seq(ByteValue) /\ Len(e) = 2 /\ e[1] = c.majorVersion /\ e[2] = c.minorVersion
  BY <1>1
<1> HIDE DEF e
<1>4. PICK t \in Seq(ByteValue) : t = c.timeString
  BY <1>1
<1>5. PICK u \in Seq(ByteValue) : u = c.dateString
  BY <1>1
<1>6. Len(t) = 8 /\ Len(u) = 11 /\ s = e \o t \o u
  BY <1>1, <1>4, <1>5
<1> HIDE DEF s
<1>7. /\ s \in Seq(ByteValue) /\ Len(s) = 21
      /\ \A j \in 1 .. 2 : s[j] = e[j]
      /\ \A j \in 1 .. 8 : s[2 + j] = t[j]
      /\ \A j \in 1 .. 11 : s[10 + j] = u[j]
  <2>1. /\ e \o t \o u \in Seq(ByteValue) /\ Len(e \o t \o u) = 21
        /\ \A j \in 1 .. 2 : (e \o t \o u)[j] = e[j]
        /\ \A j \in 1 .. 8 : (e \o t \o u)[2 + j] = t[j]
        /\ \A j \in 1 .. 11 : (e \o t \o u)[10 + j] = u[j]
    BY ONLY <1>3, <1>6, ThreeParts, ZenonT(30)
  <2> QED
    BY <1>6, <2>1, Zenon
<1>8. \A j \in 1 .. 11 : 10 + j \in 1 .. 21
  OBVIOUS
<1>9. w \in Seq(WordValue) /\ Len(w) = 3 /\ w[1] = c.numberOfObjectTypes
      /\ w[2] = c.reserved /\ w[3] = c.numberOfControlLevels
  BY <1>1
<1>10. buf = Header(SYSTEM_CONFIGURATION) \o nibblize(s) \o NibblesOf(w, 4) \o <<247>>
  BY DEF ConfigurationMessage, s, e
<1> HIDE DEF buf, w
<1>11. w \in Seq(LimitValue \cup WordValue)
  BY <1>9, WiderSequence
<1>12. buf \in Seq(Int) /\ Holds(buf, 6, nibblize(s)) /\ Holds(buf, 48, NibblesOf(w, 4))
  <2>1. s \in Seq(ByteValue) /\ Len(s) = 21
    BY <1>7
  <2> QED
    BY ONLY <2>1, <1>10, <1>11, ConfigurationParts
<1>13. 6 \in Nat \ {0} /\ 48 \in Nat \ {0}
  OBVIOUS
<1>14. \A j \in 1 .. 21 : Byte(buf, 6 + 2 * (j - 1)) = s[j]
  <2>1. \A j \in 1 .. Len(s) : Byte(buf, 6 + 2 * (j - 1)) = s[j]
    BY <1>7, <1>12, <1>13, BytesAt, ZenonT(30)
  <2> QED
    BY <1>7, <2>1
<1> DEFINE Read(j) == Byte(buf, 6 + 2 * (j - 1)) = s[j]
<1>20. \A j \in 1 .. 21 : Read(j)
  BY <1>14
<1> HIDE DEF Read
<1>15. Byte(buf, 6) = c.majorVersion /\ Byte(buf, 8) = c.minorVersion
  <2>1. s[1] = c.majorVersion /\ s[2] = c.minorVersion
    <3>1. 1 \in 1 .. 2 /\ 2 \in 1 .. 2
      OBVIOUS
    <3> QED
      BY ONLY <1>3, <1>7, <3>1
  <2>2. 6 + 2 * (1 - 1) = 6 /\ 6 + 2 * (2 - 1) = 8 /\ 1 \in 1 .. 21 /\ 2 \in 1 .. 21
    OBVIOUS
  <2>3. Byte(buf, 6 + 2 * (1 - 1)) = s[1] /\ Byte(buf, 6 + 2 * (2 - 1)) = s[2]
    BY <1>20, <2>2 DEF Read
  <2> QED
    BY <2>1, <2>2, <2>3
<1>16. Bytes(buf, 10, 8) = t
  <2>1. ASSUME NEW j \in 1 .. 8
        PROVE  Byte(buf, 10 + 2 * (j - 1)) = t[j]
    <3>1. 2 + j \in 1 .. 21 /\ 6 + 2 * (2 + j - 1) = 10 + 2 * (j - 1)
      OBVIOUS
    <3>2. Byte(buf, 6 + 2 * (2 + j - 1)) = s[2 + j]
      BY <1>20, <3>1 DEF Read
    <3> QED
      BY <1>7, <3>1, <3>2
  <2>2. t = [j \in 1 .. 8 |-> t[j]]
    BY <1>6
  <2>3. Bytes(buf, 10, 8) = [j \in 1 .. 8 |-> t[j]]
    BY <2>1 DEF Bytes
  <2> QED
    BY <2>2, <2>3
<1>17. Bytes(buf, 26, 11) = u
  <2>1. ASSUME NEW j \in 1 .. 11
        PROVE  Byte(buf, 26 + 2 * (j - 1)) = u[j]
    <3>1. 10 + j \in 1 .. 21 /\ 6 + 2 * (10 + j - 1) = 26 + 2 * (j - 1)
      BY <1>8
    <3>2. Read(10 + j)
      BY <1>20, <3>1
    <3>3. Byte(buf, 6 + 2 * (10 + j - 1)) = s[10 + j]
      BY <3>2 DEF Read
    <3> QED
      BY <1>7, <3>1, <3>3
  <2>2. u = [j \in 1 .. 11 |-> u[j]]
    BY <1>6
  <2>3. Bytes(buf, 26, 11) = [j \in 1 .. 11 |-> u[j]]
    BY <2>1 DEF Bytes
  <2> QED
    BY <2>2, <2>3
<1>18. /\ Word(buf, 48) = c.numberOfObjectTypes
       /\ Word(buf, 52) = c.reserved
       /\ Word(buf, 56) = c.numberOfControlLevels
  <2>1. \A j \in 1 .. Len(w) : Word(buf, 48 + 4 * (j - 1)) = Unsigned16(w[j])
    BY <1>11, <1>12, <1>13, WordsRead
  <2>2. 48 + 4 * (1 - 1) = 48 /\ 48 + 4 * (2 - 1) = 52 /\ 48 + 4 * (3 - 1) = 56
    OBVIOUS
  <2>3. Word(buf, 48) = Unsigned16(w[1]) /\ Word(buf, 52) = Unsigned16(w[2])
        /\ Word(buf, 56) = Unsigned16(w[3])
    BY <1>9, <2>1, <2>2
  <2> QED
    BY <1>1, <1>9, <2>3, NoSign
<1>19. systemConfiguration_parse(buf)
          = [majorVersion |-> c.majorVersion, minorVersion |-> c.minorVersion,
             timeString |-> c.timeString, dateString |-> c.dateString,
             numberOfObjectTypes |-> c.numberOfObjectTypes, reserved |-> c.reserved,
             numberOfControlLevels |-> c.numberOfControlLevels]
  BY <1>4, <1>5, <1>15, <1>16, <1>17, <1>18 DEF systemConfiguration_parse
<1> QED
  BY <1>2, <1>19 DEF buf

-----------------------------------------------------------------------------
(* The parameter: its inductive invariant *)

\* Bytes of the size of the parameter
Fits(d, b) == b \in Seq(ByteValue) /\ Len(b) = d.dataSize + OptionSize(d)

\* A control has one field or two, and an option if the parameter has one.
Control(d, s) ==
    /\ s \in [main : Seq(Int), option : Seq(Int), loaded : Seq(Int), unit : Int]
    /\ ~IsName(d) => Len(s.main) \in {1, 2}
    /\ HasOption(d) => Len(s.option) = 1

\* o is the description d, but for limits of another sign.
Alike(o, d) ==
    /\ o = [objectType |-> d.objectType, name |-> d.name, dataSize |-> d.dataSize,
            controlFlags |-> d.controlFlags, optionType |-> d.optionType,
            minValue |-> o.minValue, maxValue |-> o.maxValue,
            displayUnits |-> d.displayUnits]
    /\ o.minValue \in Seq(Int) /\ o.maxValue \in Seq(Int)
    /\ Len(o.minValue) = Len(d.minValue) /\ Len(o.maxValue) = Len(d.maxValue)
    /\ (\A j \in DOMAIN d.maxValue : ~(d.maxValue[j] < 0))
          => o.minValue = d.minValue /\ o.maxValue = d.maxValue

Types ==
    /\ truth \in Descriptions
    /\ Fits(truth, device)
    /\ od # Null => configuration = Configuration /\ Alike(od, truth)
    /\ DOMAIN shown = Windows
    /\ \A w \in Windows : shown[w] # Null => od # Null /\ Control(truth, shown[w])

ParametersInv == Types /\ DumpRight

-----------------------------------------------------------------------------
(* Values and the controls made for them *)

LEMMA Sizes ==
    ASSUME NEW d, WellDescribed(d), NEW b, Fits(d, b)
    PROVE  /\ d.dataSize \in Nat \ {0} /\ OptionSize(d) \in {0, 1} /\ Len(b) \in Nat \ {0}
           /\ ~IsName(d) => d.dataSize \in {1, 2}
           /\ IsName(d) => ~HasOption(d)
           /\ d.optionType \in Rates \cup Times => Len(b) = 3 /\ d.dataSize = 2
           /\ HasOption(d) /\ d.optionType # \h13b => OptionSize(d) = 1 /\ Len(b) = d.dataSize + 1
           /\ b \in Seq(Int)
           /\ \A i \in 1 .. Len(b) : b[i] \in Int
<1>1. d.dataSize \in Nat \ {0}
  <2>1. d.dataSize \in WordValue \ {0}
    BY DEF WellDescribed
  <2>2. \A x \in WordValue \ {0} : x \in Nat \ {0}
    BY DEF WordValue
  <2> QED
    BY <2>1, <2>2
<1>2. OptionSize(d) \in {0, 1}
  BY DEF OptionSize
<1>3. Len(b) \in Nat \ {0}
  BY <1>1, <1>2 DEF Fits
<1>4. /\ ~IsName(d) => d.dataSize \in {1, 2}
      /\ IsName(d) => ~HasOption(d)
      /\ d.optionType \in Rates \cup Times => d.dataSize = 2
  BY DEF WellDescribed
<1>5. d.optionType \in Rates \cup Times => OptionSize(d) = 1
  BY DEF OptionSize, Rates, Times
<1>6. HasOption(d) /\ d.optionType # \h13b => OptionSize(d) = 1
  BY DEF OptionSize, HasOption
<1>7. d.optionType \in Rates \cup Times => Len(b) = 3
  BY <1>4, <1>5 DEF Fits
<1>8. OptionSize(d) = 1 => Len(b) = d.dataSize + 1
  BY DEF Fits
<1>9. b \in Seq(Int)
  <2>1. ByteValue \subseteq Int
    BY DEF ByteValue
  <2> QED
    BY <2>1, WiderSequence DEF Fits
<1>10. \A i \in 1 .. Len(b) : b[i] \in Int
  BY <1>9
<1> QED
  BY <1>1, <1>2, <1>3, <1>4, <1>6, <1>7, <1>8, <1>9, <1>10

LEMMA SignedTyped ==
    ASSUME NEW x \in Int
    PROVE  Signed8(x) \in Int /\ Signed16(x) \in Int
BY DEF Signed8, Signed16

LEMMA NumberTyped ==
    ASSUME NEW d, NEW unit, NEW x \in Int
    PROVE  Number(d, unit, x) \in Int
BY SignedTyped DEF Number

LEMMA LittleTyped ==
    ASSUME NEW b \in Seq(Int), Len(b) >= 1
    PROVE  Little(b) \in Int
BY DEF Little

LEMMA LeastNumber ==
    ASSUME NEW T \in SUBSET Nat, T # {}
    PROVE  \E x \in T : \A y \in T : x <= y
<1> DEFINE R == OpToRel(<, Nat)
<1>1. IsWellFoundedOn(R, Nat)
  BY NatLessThanWellFounded
<1>2. \A x, y \in Nat : <<y, x>> \in R <=> y < x
  BY DEF OpToRel
<1> HIDE DEF R
<1>3. PICK x \in T : \A y \in T : ~ (<<y, x>> \in R)
  BY <1>1, WFMin
<1>4. \A y \in T : ~(y < x)
  BY <1>2, <1>3
<1> QED
  BY <1>3, <1>4

LEMMA TrimmedTyped ==
    ASSUME NEW s \in Seq(Int)
    PROVE  Trimmed(s) \in Seq(Int)
<1> DEFINE ink == {i \in DOMAIN s : s[i] # 32}
           NoneBefore(i) == \A j \in ink : i <= j
           NoneAfter(i) == \A j \in ink : j <= i
<1>1. ink \subseteq 1 .. Len(s) /\ Len(s) \in Nat
  OBVIOUS
<1>2. CASE ink = {}
  BY <1>2 DEF Trimmed
<1>3. CASE ink # {}
  <2>1. \E i \in ink : NoneBefore(i)
    <3> HIDE DEF ink
    <3>1. ink \in SUBSET Nat
      BY <1>1
    <3> QED
      BY <1>3, <3>1, LeastNumber
  <2>2. \E i \in ink : NoneAfter(i)
    <3> DEFINE back == {k \in Nat : Len(s) - k \in ink}
    <3>1. PICK x \in ink : TRUE
      BY <1>3
    <3>2. x \in 1 .. Len(s)
      BY <1>1
    <3>3. Len(s) - x \in Nat /\ Len(s) - (Len(s) - x) = x
      BY <1>1, <3>2
    <3>4. Len(s) - x \in back
      BY <3>1, <3>3
    <3>5. PICK k \in back : \A y \in back : k <= y
      BY <3>4, LeastNumber
    <3> HIDE DEF ink
    <3>6. ASSUME NEW j \in ink
          PROVE  j <= Len(s) - k
      <4>1. j \in 1 .. Len(s)
        BY <1>1
      <4>2. Len(s) - j \in Nat /\ Len(s) - (Len(s) - j) = j
        BY <1>1, <4>1
      <4>3. Len(s) - j \in back
        BY <4>2
      <4>4. k <= Len(s) - j
        BY <3>5, <4>3
      <4>5. k \in Nat
        BY <3>5
      <4> QED
        BY <1>1, <4>1, <4>4, <4>5
    <3>7. Len(s) - k \in ink
      BY <3>5
    <3> QED
      BY <3>6, <3>7
  <2>3. (CHOOSE i \in ink : NoneBefore(i)) \in ink
    BY <2>1
  <2>4. (CHOOSE i \in ink : NoneAfter(i)) \in ink
    BY <2>2
  <2>5. PICK low : low = CHOOSE i \in ink : NoneBefore(i)
    OBVIOUS
  <2>6. PICK high : high = CHOOSE i \in ink : NoneAfter(i)
    OBVIOUS
  <2>7. Trimmed(s) = SubSeq(s, low, high)
    BY <1>3, <2>5, <2>6 DEF Trimmed
  <2>8. low \in 1 .. Len(s) /\ high \in 1 .. Len(s)
    BY <1>1, <2>3, <2>4, <2>5, <2>6
  <2>9. SubSeq(s, low, high) \in Seq(Int)
    BY ONLY <2>8, s \in Seq(Int), SubSeqProperties
  <2> QED
    BY <2>7, <2>9
<1> QED
  BY <1>2, <1>3

LEMMA MeaningTyped ==
    ASSUME NEW d, WellDescribed(d), NEW b, Fits(d, b)
    PROVE  /\ Meaning(d, b).main \in Seq(Int) /\ Meaning(d, b).option \in Seq(Int)
           /\ ~IsName(d) => Len(Meaning(d, b).main) \in {1, 2}
           /\ HasOption(d) => Len(Meaning(d, b).option) = 1
<1> DEFINE signed == d.minValue[1] < 0
           number == IF d.dataSize = 1 THEN IF signed THEN Signed8(b[1]) ELSE b[1]
                     ELSE IF signed THEN Signed16(Little(b)) ELSE Little(b)
<1>1. /\ b \in Seq(Int) /\ Len(b) \in Nat \ {0} /\ b[1] \in Int
      /\ Len(b) >= 2 => b[2] \in Int
      /\ Len(b) >= 3 => b[3] \in Int
  BY Sizes
<1>2. Little(b) \in Int
  BY <1>1, LittleTyped
<1>3. number \in Int
  BY <1>1, <1>2, SignedTyped
<1> HIDE DEF number
<1>4. CASE IsName(d)
  <2>9. ~HasOption(d)
    BY <1>4, Sizes
  <2>1. Meaning(d, b) = [main |-> Trimmed(b), option |-> <<>>]
    BY <1>4, <2>9 DEF Meaning, Rates, Times, HasOption
  <2> QED
    BY <1>1, <1>4, <2>9, <2>1, TrimmedTyped
<1>5. CASE ~IsName(d) /\ d.optionType = \h13b
  <2>1. Meaning(d, b) = [main |-> <<Signed8(b[1])>>,
                         option |-> <<IF b[1] >= 128 THEN 1 ELSE 0>>]
    BY <1>5 DEF Meaning, Rates, Times, HasOption
  <2>2. Signed8(b[1]) \in Int
    BY <1>1, SignedTyped
  <2> QED
    BY <1>5, <2>1, <2>2
<1>6. CASE ~IsName(d) /\ d.optionType = \h139
  <2>1. Meaning(d, b) = [main |-> <<number>>, option |-> <<b[2] - 1>>]
    BY <1>6 DEF Meaning, Rates, Times, HasOption, number
  <2>2. Len(b) >= 2
    BY <1>6, Sizes DEF HasOption
  <2> QED
    BY <1>1, <1>3, <1>6, <2>1, <2>2
<1>7. CASE ~IsName(d) /\ d.optionType \in Rates \cup Times
  <2>1. Meaning(d, b) = [main |-> IF b[3] = 1 THEN <<b[1], b[2]>> ELSE <<Little(b)>>,
                         option |-> <<b[3]>>]
    BY <1>7 DEF Meaning, Rates, Times, HasOption
  <2>2. Len(b) = 3
    BY <1>7, Sizes
  <2>3. b[1] \in Int /\ b[2] \in Int /\ b[3] \in Int
    BY <1>1, <2>2
  <2> QED
    BY <1>2, <1>7, <2>1, <2>3
<1>8. CASE ~IsName(d) /\ HasOption(d) /\ d.optionType \notin Rates \cup Times \cup {\h139, \h13b}
  <2>1. Meaning(d, b) = [main |-> <<number>>, option |-> <<b[d.dataSize + 1]>>]
    BY <1>8 DEF Meaning, Rates, Times, number
  <2>2. Len(b) = d.dataSize + 1 /\ d.dataSize \in Nat
    BY <1>8, Sizes
  <2>3. b[d.dataSize + 1] \in Int
    BY <1>1, <2>2
  <2> QED
    BY <1>3, <1>8, <2>1, <2>3
<1>9. CASE ~IsName(d) /\ ~HasOption(d)
  <2>1. Meaning(d, b) = [main |-> <<number>>, option |-> <<>>]
    BY <1>9 DEF Meaning, Rates, Times, number, HasOption
  <2> QED
    BY <1>3, <1>9, <2>1
<1>10. d.optionType \in Rates \cup Times \cup {\h139, \h13b}
         \/ d.optionType \notin Rates \cup Times \cup {\h139, \h13b}
  OBVIOUS
<1> QED
  BY <1>4, <1>5, <1>6, <1>7, <1>8, <1>9, <1>10

LEMMA AlikeFields ==
    ASSUME NEW d, NEW o, Alike(o, d)
    PROVE  /\ o.optionType = d.optionType /\ o.dataSize = d.dataSize
           /\ o.displayUnits = d.displayUnits
           /\ HasOption(o) <=> HasOption(d)
           /\ IsName(o) <=> IsName(d)
           /\ OptionSize(o) = OptionSize(d)
<1>1. o.optionType = d.optionType /\ o.dataSize = d.dataSize /\ o.displayUnits = d.displayUnits
  BY DEF Alike
<1> QED
  BY <1>1 DEF HasOption, IsName, OptionSize

LEMMA ControlMade ==
    ASSUME NEW d, NEW m \in Seq(Int), NEW o \in Seq(Int), NEW l \in Seq(Int), NEW u \in Int,
           ~IsName(d) => Len(m) \in {1, 2}, HasOption(d) => Len(o) = 1
    PROVE  Control(d, [main |-> m, option |-> o, loaded |-> l, unit |-> u])
BY DEF Control

LEMMA PageTyped ==
    ASSUME NEW d, WellDescribed(d), NEW o, Alike(o, d), NEW b, Fits(d, b)
    PROVE  Control(d, getObjectValue(o, b))
<1> DEFINE last == b[Len(b)]
           T == d.optionType
           One(unit, val, option) == [main |-> <<Number(o, unit, val)>>, option |-> option,
                                      loaded |-> option, unit |-> unit]
           Pair(unit) == [main |-> <<b[1], b[2]>>, option |-> <<last>>, loaded |-> <<last>>,
                          unit |-> unit]
<1>1. /\ o.optionType = T /\ o.dataSize = d.dataSize
      /\ HasOption(o) <=> HasOption(d)
      /\ IsName(o) <=> IsName(d)
  BY AlikeFields
<1>2. /\ b \in Seq(Int) /\ Len(b) \in Nat \ {0} /\ b[1] \in Int /\ last \in Int
      /\ Len(b) >= 2 => b[2] \in Int
      /\ Len(b) >= 3 => b[3] \in Int
  BY Sizes
<1>3. Little(b) \in Int
  BY <1>2, LittleTyped
<1>4. ASSUME NEW unit \in Int, NEW val \in Int, NEW option \in Int
      PROVE  Control(d, One(unit, val, <<option>>))
  <2>1. Number(o, unit, val) \in Int
    BY NumberTyped
  <2>2. <<Number(o, unit, val)>> \in Seq(Int) /\ Len(<<Number(o, unit, val)>>) \in {1, 2}
        /\ <<option>> \in Seq(Int) /\ Len(<<option>>) = 1
    BY <2>1
  <2> QED
    BY <2>2, ControlMade
<1>5. ASSUME NEW unit \in Int, b[2] \in Int
      PROVE  Control(d, Pair(unit))
  <2>1. <<b[1], b[2]>> \in Seq(Int) /\ Len(<<b[1], b[2]>>) \in {1, 2}
        /\ <<last>> \in Seq(Int) /\ Len(<<last>>) = 1
    BY <1>2, <1>5
  <2> QED
    BY <2>1, ControlMade
<1>6. HasOption(d) /\ T # \h13b => Len(b) = d.dataSize + 1 /\ Len(b) >= 2
  BY Sizes
<1>7. HasOption(d) /\ T # \h13b => b[2] \in Int
  BY <1>2, <1>6
<1>8. T \in Rates \cup Times => Len(b) = 3
  BY Sizes
<1>9. CASE T = \h12c /\ d.dataSize = 2
  <2>1. getObjectValue(o, b) = One(0, Little(b), <<b[3]>>)
    BY <1>1, <1>9 DEF getObjectValue, Rates, Times, HasOption
  <2>2. Len(b) = 3
    BY <1>6, <1>9 DEF HasOption
  <2>3. b[3] \in Int
    BY <1>2, <2>2
  <2> QED
    BY <1>3, <1>4, <2>1, <2>3
<1>10. CASE T = \h12c /\ d.dataSize # 2
  <2>1. getObjectValue(o, b) = One(0, b[1], <<b[2]>>)
    BY <1>1, <1>10 DEF getObjectValue, Rates, Times, HasOption
  <2>2. b[2] \in Int
    BY <1>7, <1>10 DEF HasOption
  <2> QED
    BY <1>2, <1>4, <2>1, <2>2
<1>11. CASE T \in {\h12d, \h12e, \h133, \h134}
  <2>1. getObjectValue(o, b) = One(0, b[1], <<b[2]>>)
    BY <1>1, <1>11, SMTT(30) DEF getObjectValue, Rates, Times, HasOption
  <2>2. b[2] \in Int
    BY <1>7, <1>11 DEF HasOption
  <2> QED
    BY <1>2, <1>4, <2>1, <2>2
<1>12. CASE T \in Rates /\ last # 0
  <2>1. getObjectValue(o, b) = Pair(last)
    BY <1>1, <1>12 DEF getObjectValue, Rates, Times, HasOption
  <2>2. b[2] \in Int
    BY <1>2, <1>8, <1>12
  <2> QED
    BY <1>2, <1>5, <2>1, <2>2
<1>13. CASE T \in Times \cup {\h13a} /\ last = 1
  <2>1. getObjectValue(o, b) = Pair(last)
    BY <1>1, <1>13 DEF getObjectValue, Rates, Times, HasOption
  <2>2. b[2] \in Int
    BY <1>7, <1>13 DEF HasOption, Times
  <2> QED
    BY <1>2, <1>5, <2>1, <2>2
<1>14. CASE (T \in Rates /\ last = 0) \/ (T \in Times \cup {\h13a} /\ last # 1)
  <2>1. getObjectValue(o, b) = One(last, Little(b), <<last>>)
    BY <1>1, <1>14 DEF getObjectValue, Rates, Times, HasOption
  <2> QED
    BY <1>2, <1>3, <1>4, <2>1
<1>15. CASE T = \h139
  <2>1. getObjectValue(o, b) = One(0, b[1], <<b[2] - 1>>)
    BY <1>1, <1>15 DEF getObjectValue, Rates, Times, HasOption
  <2>2. b[2] - 1 \in Int
    BY <1>7, <1>15 DEF HasOption
  <2> QED
    BY <1>2, <1>4, <2>1, <2>2
<1>16. CASE T = \h13b
  <2> DEFINE dry == IF b[1] > 100 THEN 1 ELSE 0
  <2>1. getObjectValue(o, b) = One(dry, b[1], <<dry>>)
    BY <1>1, <1>16 DEF getObjectValue, Rates, Times, HasOption
  <2>2. dry \in Int
    OBVIOUS
  <2> QED
    BY <1>2, <1>4, <2>1, <2>2
<1>17. CASE T = \hffff /\ IsName(d)
  <2>1. getObjectValue(o, b)
          = [main |-> Trimmed(b), option |-> <<>>, loaded |-> <<>>, unit |-> 0]
    BY <1>1, <1>17 DEF getObjectValue, Rates, Times, HasOption
  <2>2. PICK t \in Seq(Int) : t = Trimmed(b)
    BY <1>2, TrimmedTyped
  <2>3. ~HasOption(d) /\ <<>> \in Seq(Int) /\ 0 \in Int
    BY <1>17 DEF HasOption
  <2>4. IsName(d)
    BY <1>17
  <2>5. Control(d, [main |-> t, option |-> <<>>, loaded |-> <<>>, unit |-> 0])
    BY ONLY <2>2, <2>3, <2>4, ControlMade
  <2> QED
    BY <2>1, <2>2, <2>5
<1>18. CASE T = \hffff /\ ~IsName(d)
  <2>1. getObjectValue(o, b) = One(0, Little(b), <<>>)
    BY <1>1, <1>18 DEF getObjectValue, Rates, Times, HasOption
  <2>2. <<Number(o, 0, Little(b))>> \in Seq(Int) /\ Len(<<Number(o, 0, Little(b))>>) \in {1, 2}
    BY <1>3, NumberTyped
  <2>3. ~HasOption(d) /\ <<>> \in Seq(Int) /\ 0 \in Int
    BY <1>18 DEF HasOption
  <2> QED
    BY <2>1, <2>2, <2>3, ControlMade
<1>19. T \in OptionTypes
  BY DEF WellDescribed
<1> QED
  BY <1>9, <1>10, <1>11, <1>12, <1>13, <1>14, <1>15, <1>16, <1>17, <1>18, <1>19
     DEF OptionTypes, Rates, Times

LEMMA BytesSize ==
    ASSUME NEW d, WellDescribed(d), NEW b, Fits(d, b)
    PROVE  b \in Seq(ByteValue) /\ b # <<>> /\ Len(b) \in WordValue
<1>1. b \in Seq(ByteValue) /\ Len(b) \in Nat \ {0}
  BY Sizes DEF Fits
<1>2. d.dataSize \in {1, 2} \/ IsName(d)
  BY DEF WellDescribed
<1>3. d.dataSize \in WordValue
  BY DEF WellDescribed
<1>4. IsName(d) => OptionSize(d) = 0
  BY DEF WellDescribed, OptionSize, HasOption
<1>5. OptionSize(d) \in {0, 1}
  BY DEF OptionSize
<1>6. Len(b) = d.dataSize + OptionSize(d)
  BY DEF Fits
<1>7. d.dataSize \in Nat
  BY Sizes
<1>8. 1 \in WordValue /\ 2 \in WordValue /\ 3 \in WordValue
  BY DEF WordValue
<1>9. CASE IsName(d)
  BY <1>1, <1>3, <1>4, <1>6, <1>7, <1>9
<1>10. CASE d.dataSize \in {1, 2}
  BY <1>1, <1>5, <1>6, <1>8, <1>10
<1> QED
  BY <1>2, <1>9, <1>10

LEMMA PageOfBytes ==
    ASSUME Types, od # Null, NEW b, Fits(truth, b)
    PROVE  /\ dataMessage_parse(Answer(Levels, b)) = [data |-> b, levels |-> Levels]
           /\ Page(b) = getObjectValue(od, b)
           /\ Control(truth, Page(b))
<1>1. WellDescribed(truth)
  BY ParametersAssumption DEF Types
<1>2. Levels \in Seq(WordValue) /\ Len(Levels) \in WordValue
  BY DEF Levels, WordValue
<1>3. b \in Seq(ByteValue) /\ b # <<>> /\ Len(b) \in WordValue
  BY <1>1, BytesSize
<1>4. dataMessage_parse(Answer(Levels, b)) = [data |-> b, levels |-> Levels]
  BY <1>2, <1>3, AnswerParsed
<1>5. Alike(od, truth)
  BY DEF Types
<1>6. Page(b) = getObjectValue(od, b)
  BY <1>4 DEF Page
<1> QED
  BY <1>1, <1>4, <1>5, <1>6, PageTyped

LEMMA AnnouncedTyped ==
    ASSUME Types, od # Null, NEW s, Control(truth, s),
           NEW b, Fits(truth, b), NEW now, Fits(truth, now)
    PROVE  Control(truth, Announced(s, b, now))
<1> DEFINE T == truth.optionType
           val == Number(od, 0, Little(SubSeq(b, 1, od.dataSize)))
           With(main, option) ==
              [main |-> <<main>>, option |-> <<option>>, loaded |-> s.loaded, unit |-> s.unit]
           dry == IF b[1] >= 128 THEN 1 ELSE 0
<1>1. WellDescribed(truth) /\ Alike(od, truth)
  BY ParametersAssumption DEF Types
<1>2. /\ od.optionType = T /\ od.dataSize = truth.dataSize
      /\ HasOption(od) <=> HasOption(truth)
      /\ IsName(od) <=> IsName(truth)
  BY <1>1, AlikeFields
<1>3. /\ b \in Seq(Int) /\ Len(b) \in Nat \ {0} /\ b[1] \in Int
      /\ Len(b) >= 2 => b[2] \in Int
      /\ Len(b) >= 3 => b[3] \in Int
  BY <1>1, Sizes
<1>4. val \in Int
  <2>1. od.dataSize \in Nat \ {0} /\ od.dataSize <= Len(b)
    <3>1. truth.dataSize \in Nat \ {0} /\ OptionSize(truth) \in {0, 1}
      BY <1>1, Sizes
    <3> QED
      BY <1>2, <3>1 DEF Fits
  <2>2. SubSeq(b, 1, od.dataSize) \in Seq(Int) /\ Len(SubSeq(b, 1, od.dataSize)) = od.dataSize
    BY <1>3, <2>1, SubSeqProperties
  <2>3. PICK r \in Seq(Int) : r = SubSeq(b, 1, od.dataSize)
    BY <2>2
  <2>4. Len(r) >= 1
    BY <2>1, <2>2, <2>3
  <2>5. Little(r) \in Int
    BY <2>4, LittleTyped
  <2> QED
    BY <2>3, <2>5, NumberTyped
<1> HIDE DEF val
<1>5. /\ s \in [main : Seq(Int), option : Seq(Int), loaded : Seq(Int), unit : Int]
      /\ ~IsName(truth) => Len(s.main) \in {1, 2}
      /\ HasOption(truth) => Len(s.option) = 1
  BY DEF Control
<1>6. ASSUME NEW m \in Int, NEW o \in Int
      PROVE  Control(truth, With(m, o))
  <2>1. /\ <<m>> \in Seq(Int) /\ Len(<<m>>) \in {1, 2} /\ <<o>> \in Seq(Int) /\ Len(<<o>>) = 1
        /\ s.loaded \in Seq(Int) /\ s.unit \in Int
    BY <1>5
  <2> QED
    BY <2>1, ControlMade
<1>7. ASSUME NEW m \in Seq(Int), ~IsName(truth) => Len(m) \in {1, 2}
      PROVE  Control(truth, [s EXCEPT !.main = m])
  BY <1>5, <1>7 DEF Control
<1>8. HasOption(truth) /\ T # \h13b => Len(b) = truth.dataSize + 1 /\ b[2] \in Int
  <2>1. HasOption(truth) /\ T # \h13b => Len(b) = truth.dataSize + 1
    BY <1>1, Sizes
  <2>2. truth.dataSize \in Nat \ {0}
    BY <1>1, Sizes
  <2> QED
    BY <1>3, <2>1, <2>2
<1>9. Control(truth, Page(now))
  BY PageOfBytes
<1>10. CASE T = \h133
  <2>1. Announced(s, b, now) = With(val, b[2])
    BY <1>2, <1>10 DEF Announced, val, Rates, Times, HasOption
  <2> QED
    BY <1>4, <1>6, <1>8, <1>10, <2>1 DEF HasOption
<1>11. CASE T = \h12c
  <2>1. Announced(s, b, now) = With(val, b[od.dataSize + 1])
    BY <1>2, <1>11 DEF Announced, val, Rates, Times, HasOption
  <2>2. b[od.dataSize + 1] \in Int
    <3>1. Len(b) = od.dataSize + 1
      BY <1>2, <1>8, <1>11 DEF HasOption
    <3>2. Len(b) \in 1 .. Len(b)
      BY <1>3
    <3>3. b[Len(b)] \in Int
      BY <1>3, <3>2
    <3> QED
      BY <3>1, <3>3
  <2> QED
    BY <1>4, <1>6, <2>1, <2>2
<1>12. CASE T \in {\h12d, \h12e, \h13a, \h134}
  <2>1. Announced(s, b, now) = With(b[1], b[2])
    BY <1>2, <1>12 DEF Announced, Rates, Times, HasOption
  <2>2. b[2] \in Int
    BY <1>8, <1>12 DEF HasOption
  <2> QED
    BY <1>3, <1>6, <2>1, <2>2
<1>13. CASE T \in Rates \cup Times
  <2>1. Announced(s, b, now)
          = IF s.loaded = <<b[3]>>
            THEN [s EXCEPT !.main = IF b[3] = 1 THEN <<b[1], b[2]>> ELSE <<val>>]
            ELSE Page(now)
    BY <1>2, <1>13 DEF Announced, val, Rates, Times, HasOption
  <2>2. Len(b) = 3
    BY <1>1, <1>13, Sizes
  <2>3. b[1] \in Int /\ b[2] \in Int
    BY <1>3, <2>2
  <2>4. PICK m : m = IF b[3] = 1 THEN <<b[1], b[2]>> ELSE <<val>>
    OBVIOUS
  <2>5. m \in Seq(Int) /\ Len(m) \in {1, 2}
    BY <1>4, <2>3, <2>4
  <2>6. Control(truth, [s EXCEPT !.main = m])
    BY <1>7, <2>5
  <2> QED
    BY <1>9, <2>1, <2>4, <2>6
<1>14. CASE T = \h139
  <2>1. Announced(s, b, now) = With(IF b[1] = 0 THEN 0 ELSE b[1] - 256, b[2] - 1)
    BY <1>2, <1>14 DEF Announced, Rates, Times, HasOption
  <2>2. (IF b[1] = 0 THEN 0 ELSE b[1] - 256) \in Int /\ b[2] - 1 \in Int
    BY <1>3, <1>8, <1>14 DEF HasOption
  <2> QED
    BY <1>6, <2>1, <2>2
<1>15. CASE T = \h13b
  <2>1. Announced(s, b, now)
          = IF s.loaded = <<dry>> THEN With(IF dry = 1 THEN b[1] - 256 ELSE val, dry) ELSE Page(now)
    BY <1>2, <1>15 DEF Announced, val, Rates, Times, HasOption
  <2>2. (IF dry = 1 THEN b[1] - 256 ELSE val) \in Int /\ dry \in Int
    BY <1>3, <1>4
  <2>3. Control(truth, With(IF dry = 1 THEN b[1] - 256 ELSE val, dry))
    BY <1>6, <2>2
  <2> QED
    BY <1>9, <2>1, <2>3
<1>16. CASE T = \hffff /\ IsName(truth)
  <2>1. Announced(s, b, now)
          = IF \E i \in DOMAIN b : b[i] = 39 THEN s ELSE [s EXCEPT !.main = Trimmed(b)]
    BY <1>2, <1>16 DEF Announced, Rates, Times, HasOption
  <2>2. PICK t \in Seq(Int) : t = Trimmed(b)
    BY <1>3, TrimmedTyped
  <2>3. IsName(truth)
    BY <1>16
  <2>4. Control(truth, [s EXCEPT !.main = t])
    BY <1>7, <2>3
  <2> QED
    BY <2>1, <2>2, <2>4
<1>17. CASE T = \hffff /\ ~IsName(truth)
  <2>1. Announced(s, b, now) = [s EXCEPT !.main = <<val>>]
    BY <1>2, <1>17 DEF Announced, val, Rates, Times, HasOption
  <2>2. <<val>> \in Seq(Int) /\ Len(<<val>>) \in {1, 2}
    BY <1>4
  <2> QED
    BY <1>7, <2>1, <2>2
<1>18. T \in OptionTypes
  BY <1>1 DEF WellDescribed
<1> QED
  BY <1>10, <1>11, <1>12, <1>13, <1>14, <1>15, <1>16, <1>17, <1>18 DEF OptionTypes

-----------------------------------------------------------------------------
(* A change of a control *)

LEMMA OneNibble ==
    ASSUME NEW x \in Int
    PROVE  nibblize(<<x>>) \in Seq(Nibble) /\ Len(nibblize(<<x>>)) = 2
<1> DEFINE s == <<x>>
<1>1. s \in Seq(Int) /\ Len(s) = 1
  OBVIOUS
<1> HIDE DEF s
<1>2. NibblesOf(s, 2) \in Seq(Nibble) /\ Len(NibblesOf(s, 2)) = 2 * Len(s)
  BY <1>1, NibblesOfProperties
<1>3. 2 * Len(s) = 2
  BY <1>1
<1> QED
  BY <1>2, <1>3, Zenon DEF s, nibblize

LEMMA Halves ==
    ASSUME NEW t \in Seq(Nibble), NEW k \in {1, 2, 3}, Len(t) = 2 * k
    PROVE  t # <<>> /\ Len(t) \div 2 \in WordValue
<1>1. Len(t) # 0 /\ Len(t) \div 2 = k
  OBVIOUS
<1>2. k \in WordValue
  BY DEF WordValue
<1> QED
  BY <1>1, <1>2, EmptySeq

\* The message of a control holds at least a byte, and no more than a size can say.
LEMMA MessageTyped ==
    ASSUME Types, od # Null, NEW s, Control(truth, s)
    PROVE  LET t == Message(get_value(s))
           IN t \in Seq(Nibble) /\ t # <<>> /\ Len(t) \div 2 \in WordValue
<1> DEFINE v == get_value(s)
           number == IF od.optionType = \h13b THEN Mixed(v) ELSE v.main[1]
           size == Min2(Max2(od.dataSize, 1), 2)
           option == IF od.optionType = \h139 THEN v.option[1] + 1 ELSE v.option[1]
           padded == [i \in 1 .. od.dataSize |-> IF i > Len(v.main) THEN 32 ELSE v.main[i]]
           Good(t) == t \in Seq(Nibble) /\ t # <<>> /\ Len(t) \div 2 \in WordValue
<1>1. WellDescribed(truth) /\ Alike(od, truth)
  BY ParametersAssumption DEF Types
<1>2. /\ od.optionType = truth.optionType /\ od.dataSize = truth.dataSize
      /\ HasOption(od) <=> HasOption(truth)
      /\ IsName(od) <=> IsName(truth)
      /\ OptionSize(od) = OptionSize(truth)
  BY <1>1, AlikeFields
<1>3. od.dataSize \in WordValue \ {0} /\ od.dataSize \in Nat \ {0}
  <2>1. truth.dataSize \in WordValue \ {0}
    BY <1>1 DEF WellDescribed
  <2>2. \A x \in WordValue \ {0} : x \in Nat \ {0}
    BY DEF WordValue
  <2> QED
    BY <1>2, <2>1, <2>2
<1>4. /\ s.main \in Seq(Int) /\ s.option \in Seq(Int)
      /\ ~IsName(truth) => Len(s.main) \in {1, 2}
      /\ HasOption(truth) => Len(s.option) = 1
  BY DEF Control
<1>5. v.main \in Seq(Int) /\ v.option = s.option
  <2>1. v = [main |-> IF IsName(od) THEN s.main
                      ELSE IF Len(s.main) = 2 THEN <<s.main[1] + 256 * s.main[2]>> ELSE s.main,
             option |-> s.option]
    BY DEF get_value
  <2>2. Len(s.main) = 2 => s.main[1] \in Int /\ s.main[2] \in Int
    BY <1>4
  <2>3. Len(s.main) = 2 => <<s.main[1] + 256 * s.main[2]>> \in Seq(Int)
    BY <2>2
  <2> QED
    BY <1>4, <2>1, <2>3
<1>6. ~IsName(truth) => v.main[1] \in Int
  <2>1. SUFFICES ASSUME ~IsName(truth)
                 PROVE  v.main[1] \in Int
    OBVIOUS
  <2>2. v.main = IF Len(s.main) = 2 THEN <<s.main[1] + 256 * s.main[2]>> ELSE s.main
    BY <1>2, <2>1 DEF get_value
  <2>3. Len(s.main) = 2 => s.main[1] \in Int /\ s.main[2] \in Int
    BY <1>4
  <2>4. Len(s.main) = 1 => s.main[1] \in Int
    BY <1>4
  <2> QED
    BY <1>4, <2>1, <2>2, <2>3, <2>4
<1>7. size \in {1, 2}
  BY <1>3 DEF Min2, Max2
<1>8. 1 \in WordValue /\ 2 \in WordValue /\ 3 \in WordValue
  BY DEF WordValue
<1> HIDE DEF v, size
<1>9. ASSUME NEW x \in Int
      PROVE  /\ Nibbles(x, 2 * size) \in Seq(Nibble)
             /\ Len(Nibbles(x, 2 * size)) = 2 * size
  <2>1. 2 * size \in 0 .. 4
    BY <1>7
  <2> QED
    BY <2>1, NibblesProperties
<1>10. CASE HasOption(od)
  <2>1. ~IsName(truth) /\ v.main[1] \in Int
    BY <1>1, <1>2, <1>6, <1>10 DEF WellDescribed
  <2>2. v.option[1] \in Int
    BY <1>2, <1>4, <1>5, <1>10
  <2>3. number \in Int
    <3>1. Mixed(v) \in Int
      BY <2>1 DEF Mixed
    <3> QED
      BY <2>1, <3>1
  <2>4. option \in Int
    BY <2>2
  <2> HIDE DEF number, option
  <2>5. PICK a : a = Nibbles(number, 2 * size)
    OBVIOUS
  <2>6. a \in Seq(Nibble) /\ Len(a) = 2 * size
    BY <1>9, <2>3, <2>5
  <2>7. PICK c : c = nibblize(<<option>>)
    OBVIOUS
  <2>8. c \in Seq(Nibble) /\ Len(c) = 2
    BY <2>4, <2>7, OneNibble
  <2>9. Message(v) = a \o (IF OptionSize(od) > 0 THEN c ELSE <<>>)
    BY <1>10, <2>5, <2>7 DEF Message, number, option, size
  <2>10. CASE OptionSize(od) > 0
    <3>1. Message(v) = a \o c
      BY <2>9, <2>10
    <3>2. a \o c \in Seq(Nibble) /\ Len(a \o c) = Len(a) + Len(c)
      BY <2>6, <2>8, ConcatProperties
    <3>3. Len(a \o c) = 2 * (size + 1) /\ size + 1 \in {1, 2, 3}
      BY ONLY <1>7, <2>6, <2>8, <3>2
    <3>4. a \o c # <<>> /\ Len(a \o c) \div 2 \in WordValue
      BY ONLY <3>2, <3>3, Halves
    <3> QED
      BY <3>1, <3>2, <3>4 DEF v
  <2>11. CASE ~(OptionSize(od) > 0)
    <3>1. Message(v) = a \o <<>>
      BY <2>9, <2>11
    <3>2. a \o <<>> = a
      BY <2>6, ConcatEmptySeq
    <3>3. a # <<>> /\ Len(a) \div 2 \in WordValue
      BY <1>7, <2>6, Halves
    <3> QED
      BY <2>6, <3>1, <3>2, <3>3 DEF v
  <2> QED
    BY <2>10, <2>11
<1>11. CASE ~HasOption(od) /\ IsName(od)
  <2>1. Message(v) = IF LooksNumeric(v.main) THEN nibblize(<<1>>) ELSE nibblize(padded)
    BY <1>11 DEF Message, padded
  <2>2. padded \in Seq(Int) /\ Len(padded) = od.dataSize
    <3>1. \A i \in 1 .. od.dataSize : ~(i > Len(v.main)) => v.main[i] \in Int
      BY <1>3, <1>5
    <3>2. \A i \in 1 .. od.dataSize : (IF i > Len(v.main) THEN 32 ELSE v.main[i]) \in Int
      BY <3>1
    <3> QED
      BY <1>3, <3>2
  <2> HIDE DEF padded
  <2>3. PICK a : a = nibblize(padded)
    OBVIOUS
  <2>4. a \in Seq(Nibble) /\ Len(a) = 2 * od.dataSize
    BY <2>2, <2>3, NibblesOfProperties DEF nibblize
  <2>5. PICK c : c = nibblize(<<1>>)
    OBVIOUS
  <2>6. c \in Seq(Nibble) /\ Len(c) = 2
    BY <2>5, OneNibble
  <2>7. c # <<>> /\ Len(c) \div 2 = 1
    BY ONLY <2>6
  <2>8. a # <<>> /\ Len(a) \div 2 = od.dataSize
    BY ONLY <1>3, <2>4
  <2>9. od.dataSize \in WordValue
    BY <1>3
  <2>10. Message(v) = a \/ Message(v) = c
    BY <2>1, <2>3, <2>5
  <2> QED
    BY <1>8, <2>4, <2>6, <2>7, <2>8, <2>9, <2>10 DEF v
<1>12. CASE ~HasOption(od) /\ ~IsName(od)
  <2>1. v.main[1] \in Int
    BY <1>2, <1>6, <1>12
  <2>2. PICK a : a = Nibbles(v.main[1], 2 * size)
    OBVIOUS
  <2>3. a \in Seq(Nibble) /\ Len(a) = 2 * size
    BY <1>9, <2>1, <2>2
  <2>4. Message(v) = a
    BY <1>12, <2>2 DEF Message, size
  <2>5. a # <<>> /\ Len(a) \div 2 \in WordValue
    BY <1>7, <2>3, Halves
  <2> QED
    BY <2>3, <2>4, <2>5 DEF v
<1> QED
  BY <1>10, <1>11, <1>12

\* The data that the device gets, and that the other windows are told of
LEMMA SentTyped ==
    ASSUME Types, od # Null, NEW s, Control(truth, s)
    PROVE  dataMessage_parse(DataMessage(Levels, Message(get_value(s)))).data \in Seq(ByteValue)
<1>1. PICK t : t = Message(get_value(s))
  OBVIOUS
<1>2. t \in Seq(Nibble) /\ t # <<>> /\ Len(t) \div 2 \in WordValue
  BY <1>1, MessageTyped
<1>3. Levels \in Seq(WordValue) /\ Len(Levels) \in WordValue
  BY DEF Levels, WordValue
<1>4. dataMessage_parse(DataMessage(Levels, t)).data \in Seq(ByteValue)
  BY <1>2, <1>3, DataTyped
<1> QED
  BY <1>1, <1>4

\* The device takes nothing that is not of the size of the parameter.
LEMMA TakenFits ==
    ASSUME NEW d, WellDescribed(d), NEW old, Fits(d, old), NEW new \in Seq(ByteValue),
           NEW b \in Taken(d, old, new)
    PROVE  Fits(d, b)
<1>1. CASE Len(new) # Len(old)
  BY <1>1 DEF Taken
<1>2. CASE Len(new) = Len(old) /\ d.optionType \in Rates \cup Times /\ new[3] # old[3]
  <2>1. b \in d.values
    BY <1>2 DEF Taken
  <2>2. d.values \in SUBSET Seq(ByteValue) /\ Len(b) = d.dataSize + OptionSize(d)
    BY <2>1 DEF WellDescribed
  <2> QED
    BY <2>1, <2>2 DEF Fits
<1>3. CASE Len(new) = Len(old) /\ ~(d.optionType \in Rates \cup Times /\ new[3] # old[3])
  BY <1>3 DEF Taken, Fits
<1> QED
  BY <1>1, <1>2, <1>3

LEMMA ValueFits ==
    ASSUME NEW d, WellDescribed(d), NEW b \in d.values
    PROVE  Fits(d, b)
<1>1. d.values \in SUBSET Seq(ByteValue) /\ Len(b) = d.dataSize + OptionSize(d)
  BY DEF WellDescribed
<1> QED
  BY <1>1 DEF Fits

LEMMA UpdateTyped ==
    ASSUME Types, od # Null, NEW s, Control(truth, s), NEW option, NEW now, Fits(truth, now)
    PROVE  Control(truth, param_update(s, option, now))
BY PageOfBytes DEF param_update

LEMMA ToldTyped ==
    ASSUME Types, NEW x \in Windows, NEW data \in Seq(ByteValue), NEW now, Fits(truth, now),
           Told(x, data, now) # Null
    PROVE  od # Null /\ Control(truth, Told(x, data, now))
<1>1. CASE shown[x] = Null \/ Len(data) # Len(now)
  <2>1. Told(x, data, now) = shown[x]
    BY <1>1 DEF Told
  <2> QED
    BY <2>1 DEF Types
<1>2. CASE shown[x] # Null /\ Len(data) = Len(now)
  <2>1. Told(x, data, now) = Announced(shown[x], data, now)
    BY <1>2 DEF Told
  <2>2. od # Null /\ Control(truth, shown[x])
    BY <1>2 DEF Types
  <2>3. Fits(truth, data)
    BY <1>2 DEF Fits
  <2> QED
    BY <2>1, <2>2, <2>3, AnnouncedTyped
<1> QED
  BY <1>1, <1>2

LEMMA LimitedTyped ==
    ASSUME Types, od # Null, NEW m \in Seq(Int), ~IsName(truth) => Len(m) \in {1, 2}, NEW unit \in Int
    PROVE  Limited(m, unit) \in Seq(Int) /\ (~IsName(truth) => Len(Limited(m, unit)) \in {1, 2})
<1>1. WellDescribed(truth) /\ Alike(od, truth)
  BY ParametersAssumption DEF Types
<1>2. IsName(od) <=> IsName(truth)
  BY <1>1, AlikeFields
<1>3. CASE IsName(od) \/ unit + 1 \notin DOMAIN od.minValue
  <2>1. Limited(m, unit) = m
    BY <1>3 DEF Limited
  <2> QED
    BY <2>1
<1>4. CASE ~IsName(od) /\ unit + 1 \in DOMAIN od.minValue
  <2>1. PICK min, max : min = od.minValue[unit + 1] /\ max = od.maxValue[unit + 1]
    OBVIOUS
  <2>2. od.minValue \in Seq(Int) /\ od.maxValue \in Seq(Int)
        /\ Len(od.minValue) = Len(od.maxValue)
    <3>1. Len(truth.minValue) = Len(truth.displayUnits) /\ Len(truth.maxValue) = Len(truth.displayUnits)
      BY <1>1 DEF WellDescribed
    <3> QED
      BY <1>1, <3>1 DEF Alike
  <2>3. min \in Int /\ max \in Int
    BY <1>4, <2>1, <2>2
  <2>4. \A a, b, c \in Int : Clamped(a, b, c) \in Int
    BY DEF Clamped, Min2, Max2
  <2>5. Limited(m, unit)
          = IF Len(m) = 1 THEN <<Clamped(m[1], min, max)>>
            ELSE <<Clamped(m[1], min \div 256, max \div 256), Clamped(m[2], min % 256, max % 256)>>
    BY <1>4, <2>1 DEF Limited
  <2>6. CASE Len(m) = 1
    <3>1. m[1] \in Int
      BY <2>6
    <3>2. Clamped(m[1], min, max) \in Int
      BY <2>3, <2>4, <3>1
    <3> QED
      BY <2>5, <2>6, <3>2
  <2>7. CASE Len(m) = 2
    <3>1. m[1] \in Int /\ m[2] \in Int
      BY <2>7
    <3>2. min \div 256 \in Int /\ max \div 256 \in Int /\ (min % 256) \in Int /\ (max % 256) \in Int
      BY <2>3
    <3>3. /\ Clamped(m[1], min \div 256, max \div 256) \in Int
          /\ Clamped(m[2], min % 256, max % 256) \in Int
      BY <2>4, <3>1, <3>2, ZenonT(30)
    <3> QED
      BY <2>5, <2>7, <3>3
  <2> QED
    BY <1>2, <1>4, <2>6, <2>7
<1> QED
  BY <1>3, <1>4

-----------------------------------------------------------------------------
(* The steps *)

LEMMA SendStep ==
    ASSUME Types, NEW w \in Windows, od # Null, NEW s, Control(truth, s), NEW meanings,
           Send(w, s, meanings)
    PROVE  Types'
<1> DEFINE data == dataMessage_parse(DataMessage(Levels, Message(get_value(s)))).data
<1>1. data \in Seq(ByteValue)
  BY SentTyped
<1> HIDE DEF data
<1>2. PICK new \in Taken(truth, device, data) :
         /\ device' = new
         /\ shown' = [x \in Windows |->
                CASE x = w /\ od.optionType \in Reloaded -> param_update(s, s.option[1], new)
                  [] x = w /\ od.optionType \notin Reloaded -> s
                  [] x # w -> Told(x, data, new)]
         /\ UNCHANGED <<truth, configuration, od, dump>>
  BY DEF Send, data
<1>3. WellDescribed(truth) /\ Fits(truth, device)
  BY ParametersAssumption DEF Types
<1>4. Fits(truth, new)
  BY <1>1, <1>3, TakenFits
<1>5. ASSUME NEW x \in Windows, shown'[x] # Null
      PROVE  od # Null /\ Control(truth, shown'[x])
  <2>1. CASE x = w /\ od.optionType \in Reloaded
    <3>1. shown'[x] = param_update(s, s.option[1], new)
      BY <1>2, <2>1
    <3> QED
      BY <1>4, <3>1, UpdateTyped
  <2>2. CASE x = w /\ od.optionType \notin Reloaded
    <3>1. shown'[x] = s
      BY <1>2, <2>2
    <3> QED
      BY <3>1
  <2>3. CASE x # w
    <3>1. shown'[x] = Told(x, data, new)
      BY <1>2, <2>3
    <3> QED
      BY <1>1, <1>4, <1>5, <3>1, ToldTyped
  <2> QED
    BY <2>1, <2>2, <2>3
<1>6. DOMAIN shown' = Windows
  BY <1>2
<1>7. truth' = truth /\ configuration' = configuration /\ od' = od /\ device' = new
  BY <1>2
<1>8. truth \in Descriptions /\ (od # Null => configuration = Configuration /\ Alike(od, truth))
  BY DEF Types
<1> QED
  BY <1>4, <1>5, <1>6, <1>7, <1>8 DEF Types

LEMMA DescribeStep ==
    ASSUME Types, Describe
    PROVE  Types'
<1>1. WellDescribed(truth)
  BY ParametersAssumption DEF Types
<1>2. configuration' = Configuration
  BY ParametersAssumption, ConfigurationParsed DEF Describe
<1>3. Alike(od', truth)
  BY <1>1, DescriptionParsed DEF Describe, Alike
<1>4. truth' = truth /\ device' = device /\ shown' = shown /\ od = Null
  BY DEF Describe
<1>5. /\ truth \in Descriptions /\ Fits(truth, device) /\ DOMAIN shown = Windows
      /\ \A w \in Windows : shown[w] # Null => od # Null
  BY DEF Types
<1>6. \A w \in Windows : shown'[w] = Null
  BY <1>4, <1>5
<1> QED
  BY <1>2, <1>3, <1>4, <1>5, <1>6 DEF Types

LEMMA ReadStep ==
    ASSUME Types, ReadConfiguration
    PROVE  Types'
<1>1. WellDescribed(truth)
  BY ParametersAssumption DEF Types
<1>2. Alike(Description, truth)
  <2>1. LimitValue \subseteq Int
    BY DEF LimitValue
  <2>2. truth.minValue \in Seq(LimitValue) /\ truth.maxValue \in Seq(LimitValue)
    BY <1>1 DEF WellDescribed
  <2>3. truth.minValue \in Seq(Int) /\ truth.maxValue \in Seq(Int)
    BY <2>1, <2>2, WiderSequence
  <2> QED
    BY <2>3 DEF Alike, Description
<1>3. /\ configuration' = Configuration /\ od' = Description
      /\ truth' = truth /\ device' = device /\ shown' = shown /\ od = Null
  BY DEF ReadConfiguration
<1>4. /\ truth \in Descriptions /\ Fits(truth, device) /\ DOMAIN shown = Windows
      /\ \A w \in Windows : shown[w] # Null => od # Null
  BY DEF Types
<1>5. \A w \in Windows : shown'[w] = Null
  BY <1>3, <1>4
<1> QED
  BY <1>2, <1>3, <1>4, <1>5 DEF Types

LEMMA OpenStep ==
    ASSUME Types, NEW w \in Windows, Open(w)
    PROVE  Types'
<1>1. /\ od # Null /\ shown' = [shown EXCEPT ![w] = Page(device)]
      /\ truth' = truth /\ device' = device /\ configuration' = configuration /\ od' = od
  BY DEF Open
<1>2. /\ truth \in Descriptions /\ Fits(truth, device) /\ DOMAIN shown = Windows
      /\ configuration = Configuration /\ Alike(od, truth)
      /\ \A x \in Windows : shown[x] # Null => Control(truth, shown[x])
  BY <1>1 DEF Types
<1>3. Control(truth, Page(device))
  BY <1>1, <1>2, PageOfBytes
<1>4. \A x \in Windows : shown'[x] = IF x = w THEN Page(device) ELSE shown[x]
  BY <1>1, <1>2
<1>5. \A x \in Windows : shown'[x] # Null => Control(truth, shown'[x])
  BY <1>2, <1>3, <1>4
<1>6. DOMAIN shown' = Windows
  BY <1>1, <1>2
<1> QED
  BY <1>1, <1>2, <1>5, <1>6 DEF Types

LEMMA PanelStep ==
    ASSUME Types, Panel
    PROVE  Types'
<1>1. PICK b \in truth.values :
         /\ device' = b
         /\ shown' = [x \in Windows |-> Told(x, dataMessage_parse(Answer(Levels, b)).data, b)]
         /\ UNCHANGED <<truth, configuration, od, dump>>
  BY DEF Panel
<1>2. WellDescribed(truth)
  BY ParametersAssumption DEF Types
<1>3. Fits(truth, b)
  BY <1>2, ValueFits
<1>4. b \in Seq(ByteValue) /\ b # <<>> /\ Len(b) \in WordValue
  BY <1>2, <1>3, BytesSize
<1>5. Levels \in Seq(WordValue) /\ Len(Levels) \in WordValue
  BY DEF Levels, WordValue
<1>6. dataMessage_parse(Answer(Levels, b)).data = b
  BY <1>4, <1>5, AnswerParsed
<1>7. \A x \in Windows : shown'[x] = Told(x, b, b)
  BY <1>1, <1>6
<1>8. \A x \in Windows : shown'[x] # Null => od # Null /\ Control(truth, shown'[x])
  BY <1>3, <1>4, <1>7, ToldTyped
<1>9. DOMAIN shown' = Windows
  BY <1>1
<1>10. truth \in Descriptions /\ (od # Null => configuration = Configuration /\ Alike(od, truth))
  BY DEF Types
<1> QED
  BY <1>1, <1>3, <1>8, <1>9, <1>10 DEF Types

LEMMA ChangeStep ==
    ASSUME Types, NEW w \in Windows, ChangeValue(w) \/ ChangeOption(w)
    PROVE  Types'
<1>1. shown[w] # Null
  BY DEF ChangeValue, ChangeOption
<1>2. od # Null /\ Control(truth, shown[w]) /\ WellDescribed(truth)
  BY <1>1, ParametersAssumption DEF Types
<1>3. /\ shown[w] \in [main : Seq(Int), option : Seq(Int), loaded : Seq(Int), unit : Int]
      /\ ~IsName(truth) => Len(shown[w].main) \in {1, 2}
      /\ HasOption(truth) => Len(shown[w].option) = 1
  BY <1>2 DEF Control
<1>4. ASSUME NEW b \in truth.values
      PROVE  /\ Meaning(truth, b).main \in Seq(Int) /\ Meaning(truth, b).option \in Seq(Int)
             /\ ~IsName(truth) => Len(Meaning(truth, b).main) \in {1, 2}
             /\ HasOption(truth) => Len(Meaning(truth, b).option) = 1
  BY <1>2, ValueFits, MeaningTyped
<1>5. CASE ChangeValue(w)
  <2>1. PICK b \in truth.values :
           Send(w, [shown[w] EXCEPT !.main = Limited(Meaning(truth, b).main, shown[w].unit)],
                {Meaning(truth, b)})
    BY <1>5 DEF ChangeValue
  <2>2. PICK m : m = Limited(Meaning(truth, b).main, shown[w].unit)
    OBVIOUS
  <2>3. m \in Seq(Int) /\ (~IsName(truth) => Len(m) \in {1, 2})
    <3>1. PICK v : v = Meaning(truth, b).main
      OBVIOUS
    <3>2. v \in Seq(Int) /\ (~IsName(truth) => Len(v) \in {1, 2})
      BY <1>4, <3>1
    <3>3. shown[w].unit \in Int
      BY <1>3
    <3> QED
      BY <1>2, <2>2, <3>1, <3>2, <3>3, LimitedTyped
  <2>4. Control(truth, [shown[w] EXCEPT !.main = m])
    BY <1>3, <2>3 DEF Control
  <2> QED
    BY <1>2, <2>1, <2>2, <2>4, SendStep
<1>6. CASE ChangeOption(w)
  <2>1. PICK b \in truth.values : \E meanings :
           Send(w, [shown[w] EXCEPT !.option = Meaning(truth, b).option], meanings)
    BY <1>6 DEF ChangeOption
  <2>2. PICK meanings : Send(w, [shown[w] EXCEPT !.option = Meaning(truth, b).option], meanings)
    BY <2>1
  <2>3. PICK o : o = Meaning(truth, b).option
    OBVIOUS
  <2>4. o \in Seq(Int) /\ (HasOption(truth) => Len(o) = 1)
    BY <1>4, <2>3
  <2>5. Control(truth, [shown[w] EXCEPT !.option = o])
    BY <1>3, <2>4 DEF Control
  <2> QED
    BY <1>2, <2>2, <2>3, <2>5, SendStep
<1> QED
  BY <1>5, <1>6

\* A dump changes nothing else, and comes with the program asked for.
LEMMA DumpStep ==
    ASSUME Types, NEW p \in Programs, Dump(p)
    PROVE  Types' /\ DumpRight'
<1> DEFINE request == DataRequest(getProgramAddr(p))
           asked == Words(request, 12, Word(request, 8))
           answer == dataMessage_parse(Answer(asked, device))
           file == Header(DATA) \o nibblize16(Len(answer.data)) \o nibblize(answer.data)
                     \o <<4,0,0,0, 1,0,0,0, 10,0,0,0, 2,0,0,0, 4,6,0,0, 247>>
<1>1. /\ dump' = [asked |-> p, at |-> asked, number |-> parseProgramAddr(answer.levels),
                  file |-> file, data |-> device]
      /\ UNCHANGED <<truth, device, configuration, od, shown, wanted>>
  BY DEF Dump
<1>2. getProgramAddr(p) \in Seq(WordValue) /\ Len(getProgramAddr(p)) \in WordValue
  <2>1. 4 \in WordValue
    BY DEF WordValue
  <2> QED
    BY <2>1, ProgramAddress
<1>3. asked = getProgramAddr(p)
  BY <1>2, RequestRead
<1>4. device \in Seq(ByteValue) /\ device # <<>> /\ Len(device) \in WordValue
  BY BytesSize, ParametersAssumption DEF Types
<1> HIDE DEF asked
<1>5. answer = [data |-> device, levels |-> getProgramAddr(p)]
  BY <1>2, <1>3, <1>4, AnswerParsed
<1> HIDE DEF answer
<1>6. file = Answer(ActiveProgram, device)
  <2>1. answer.data = device
    BY <1>5
  <2> QED
    BY <1>4, <2>1, FileIsMessage
<1>7. dataMessage_parse(Answer(ActiveProgram, device)) = [data |-> device, levels |-> ActiveProgram]
  BY <1>4, ActiveAddress, ActiveLength, AnswerParsed
<1>8. parseProgramAddr(answer.levels) = IF p \in 1 .. 300 THEN p ELSE 0
  BY <1>5, ProgramAddress
<1> HIDE DEF file
<1>9. /\ dump'.asked = p /\ dump'.number = parseProgramAddr(answer.levels)
      /\ dump'.file = file /\ dump'.data = device
  BY <1>1
<1>10. DumpRight'
  <2>1. dump'.number = IF dump'.asked \in 1 .. 300 THEN dump'.asked ELSE 0
    BY <1>8, <1>9
  <2>2. dataMessage_parse(dump'.file) = [data |-> dump'.data, levels |-> ActiveProgram]
    BY <1>6, <1>7, <1>9
  <2> QED
    BY <2>1, <2>2 DEF DumpRight
<1>11. Types'
  BY <1>1 DEF Types
<1> QED
  BY <1>10, <1>11

-----------------------------------------------------------------------------
(* THEOREM ParametersInvariance: the description that the editor works     *)
(* with is the one of the ROM, but for the limits that parsing gets wrong; *)
(* the parameter in the device keeps its size, whatever is typed in any    *)
(* control, and every control has the fields its parameter needs.          *)
THEOREM ParametersInvariance == ParametersSpec => []ParametersInv
<1>1. ParametersInit => ParametersInv
  <2> SUFFICES ASSUME ParametersInit
               PROVE  ParametersInv
    OBVIOUS
  <2>1. /\ truth \in Descriptions /\ device \in truth.values /\ od = Null /\ dump = Null
        /\ shown = [w \in Windows |-> Null]
    BY DEF ParametersInit
  <2>2. Fits(truth, device)
    BY <2>1, ParametersAssumption, ValueFits
  <2>3. DOMAIN shown = Windows /\ \A w \in Windows : shown[w] = Null
    BY <2>1
  <2> QED
    BY <2>1, <2>2, <2>3 DEF ParametersInv, Types, DumpRight
<1>2. ParametersInv /\ [ParametersNext]_parametersVars => ParametersInv'
  <2> SUFFICES ASSUME ParametersInv, [ParametersNext]_parametersVars
               PROVE  ParametersInv'
    OBVIOUS
  <2>1. Types /\ DumpRight
    BY DEF ParametersInv
  <2>2. dump' = dump => DumpRight'
    BY <2>1 DEF DumpRight
  <2>3. CASE Describe
    BY <2>1, <2>2, <2>3, DescribeStep DEF ParametersInv, Describe
  <2>4. CASE ReadConfiguration
    BY <2>1, <2>2, <2>4, ReadStep DEF ParametersInv, ReadConfiguration
  <2>5. CASE \E w \in Windows : Open(w) \/ ChangeValue(w) \/ ChangeOption(w)
    <3>1. PICK w \in Windows : Open(w) \/ ChangeValue(w) \/ ChangeOption(w)
      BY <2>5
    <3>2. dump' = dump
      BY <3>1 DEF Open, ChangeValue, ChangeOption, Send
    <3>3. Types'
      BY <2>1, <3>1, OpenStep, ChangeStep
    <3> QED
      BY <2>2, <3>2, <3>3 DEF ParametersInv
  <2>6. CASE Panel
    BY <2>1, <2>2, <2>6, PanelStep DEF ParametersInv, Panel
  <2>7. CASE \E p \in Programs : Dump(p)
    BY <2>1, <2>7, DumpStep DEF ParametersInv
  <2>8. CASE UNCHANGED parametersVars
    BY <2>1, <2>8 DEF ParametersInv, parametersVars, Types, DumpRight
  <2> QED
    BY <2>3, <2>4, <2>5, <2>6, <2>7, <2>8 DEF ParametersNext
<1> QED
  BY <1>1, <1>2, PTL DEF ParametersSpec

(* THEOREM DescriptionsRight: systemConfiguration_parse and                *)
(* objectDescription_parse undo what the device did to send the            *)
(* configuration and a description, whatever is in them, unless a maximum  *)
(* is negative.                                                            *)
THEOREM DescriptionsRight == ParametersSpec => []DescribedRight
<1>1. ParametersInv => DescribedRight
  <2> SUFFICES ASSUME Types, od # Null, \A j \in DOMAIN truth.maxValue : ~(truth.maxValue[j] < 0)
               PROVE  configuration = Configuration /\ od = Description
    BY DEF ParametersInv, DescribedRight, Types
  <2>1. configuration = Configuration /\ Alike(od, truth)
    BY DEF Types
  <2> QED
    BY <2>1 DEF Alike, Description
<1> QED
  BY <1>1, ParametersInvariance, PTL

(* THEOREM DumpsRight: the address that getProgramAddr puts in the request *)
(* is read by the device, its answer names the program that was asked for, *)
(* and the file that sendDump makes of it parses to the same data, for the *)
(* active program: for every program, and data of every length.            *)
THEOREM DumpsRight == ParametersSpec => []DumpRight
<1>1. ParametersInv => DumpRight
  BY DEF ParametersInv
<1> QED
  BY <1>1, ParametersInvariance, PTL
=============================================================================
