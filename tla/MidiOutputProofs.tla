-------------------------- MODULE MidiOutputProofs ---------------------------
(***************************************************************************)
(* Proofs about MidiOutput, for any messages of any lengths, any threshold *)
(* and any size of pieces: every byte goes out once and in order, and the  *)
(* pieces of a message are far enough apart; and so it is beside uploads   *)
(* of any files (Uploads), which use midi_message as any other caller.     *)
(***************************************************************************)
EXTENDS Uploads, SequenceTheorems, TLAPS

-----------------------------------------------------------------------------
(* The inductive invariant *)

\* index[m] is where the calls of sendMessage for m have come to.
Indexed ==
    /\ \A m \in Messages :
          /\ index[m] <= Length[m]
          /\ m \notin asked => index[m] = 0
          /\ \/ index[m] = 0
             \/ \E i \in DOMAIN wire : wire[i].msg = m /\ wire[i].to = index[m]
    /\ \A i \in DOMAIN wire :
          /\ wire[i].msg \in asked
          /\ wire[i].to <= index[wire[i].msg]

\* A long message waits for as long as its last piece is too recent.
Waiting ==
    \A m \in Messages :
       /\ timer[m] # Off <=> m \in asked /\ index[m] < Length[m]
       /\ timer[m] # Off => Long(m) /\ timer[m] + rest[m] >= PieceDelay

OutputInv == TypeOK /\ Indexed /\ Waiting /\ EveryByteOnce /\ PiecesPaced

-----------------------------------------------------------------------------
(* Numbers *)

\* The least of two numbers.
LEMMA MinOfTwo ==
    ASSUME NEW a \in Nat, NEW b \in Nat
    PROVE  Min({a, b}) = IF a <= b THEN a ELSE b
<1>1. CASE a <= b
  BY <1>1 DEF Min
<1>2. CASE ~(a <= b)
  BY <1>2 DEF Min
<1> QED
  BY <1>1, <1>2

\* A piece is not empty, not too long, and does not go past the end.
LEMMA PieceFacts ==
    ASSUME NEW i \in Nat, NEW n \in Nat, i < n
    PROVE  /\ PieceEnd(i, n) \in Nat
           /\ i < PieceEnd(i, n) /\ PieceEnd(i, n) <= n
           /\ PieceEnd(i, n) <= i + PieceSize
<1> USE MidiOutputAssumption
<1> DEFINE q == i \div PieceSize
           r == i % PieceSize
<1>1. /\ i = PieceSize * q + r
      /\ r \in 0..(PieceSize - 1)
      /\ q \in Int
  OBVIOUS
<1>2. PieceEnd(i, n) = Min({n, (q + 1) * PieceSize})
  BY DEF PieceEnd
<1> HIDE DEF q, r
<1>3. (q + 1) * PieceSize = PieceSize * q + PieceSize
  BY <1>1
<1>4. PieceSize * q \in Int
  BY <1>1
<1> DEFINE e == (q + 1) * PieceSize
<1>5. i < e /\ e <= i + PieceSize /\ e \in Nat
  BY <1>1, <1>3, <1>4
<1> HIDE DEF e
<1>6. PieceEnd(i, n) = IF n <= e THEN n ELSE e
  BY <1>2, <1>5, MinOfTwo DEF e
<1> QED
  BY <1>5, <1>6

-----------------------------------------------------------------------------
(* The steps *)

LEMMA OutputInit == Init => OutputInv
<1> SUFFICES ASSUME Init
             PROVE  OutputInv
  OBVIOUS
<1> USE MidiOutputAssumption DEF Init
<1>1. TypeOK
  BY DEF TypeOK, Off, PieceDelay
<1> QED
  BY <1>1 DEF OutputInv, Indexed, Waiting, EveryByteOnce, PiecesPaced, Off

\* What a call of sendMessage must be like to keep the invariant.
LEMMA HandOverKeeps ==
    ASSUME OutputInv, NEW m \in Messages, NEW e \in Nat, HandOver(m, e),
           asked' = asked \cup {m},
           index[m] < e, e <= Length[m],
           m \in asked => rest[m] = PieceDelay,
           IF Long(m) THEN e <= index[m] + PieceSize
                      ELSE index[m] = 0 /\ e = Length[m]
    PROVE  /\ wire' \in Seq([msg : Messages, from : Nat, to : Nat,
                             rest : 0..PieceDelay])
           /\ Indexed' /\ EveryByteOnce' /\ PiecesPaced'
<1> USE MidiOutputAssumption DEF OutputInv
<1> DEFINE n == Len(wire) + 1
           c == [msg |-> m, from |-> index[m], to |-> e, rest |-> rest[m]]
<1>1. /\ wire \in Seq([msg : Messages, from : Nat, to : Nat,
                       rest : 0..PieceDelay])
      /\ index \in [Messages -> Nat] /\ rest \in [Messages -> 0..PieceDelay]
      /\ Length \in [Messages -> Nat \ {0}]
      /\ index[m] \in Nat /\ Length[m] \in Nat
  BY DEF TypeOK
<1>2. /\ wire' = Append(wire, c)
      /\ index' = [index EXCEPT ![m] = e]
  BY DEF HandOver, NextIndex
<1>3. c \in [msg : Messages, from : Nat, to : Nat, rest : 0..PieceDelay]
  BY <1>1
<1>4. /\ wire' \in Seq([msg : Messages, from : Nat, to : Nat,
                        rest : 0..PieceDelay])
      /\ Len(wire) \in Nat
      /\ DOMAIN wire = 1..Len(wire) /\ DOMAIN wire' = 1..n
      /\ wire'[n] = c
      /\ \A i \in 1..Len(wire) : wire'[i] = wire[i]
  BY <1>1, <1>2, <1>3
<1>5. /\ c.msg = m /\ c.from = index[m] /\ c.to = e /\ c.rest = rest[m]
      /\ index'[m] = e
      /\ \A x \in Messages \ {m} : index'[x] = index[x]
  BY <1>1, <1>2
<1>6. \A i \in DOMAIN wire : wire[i].msg \in Messages /\ wire[i].to \in Nat
  <2> SUFFICES ASSUME NEW i \in DOMAIN wire
               PROVE  wire[i].msg \in Messages /\ wire[i].to \in Nat
    OBVIOUS
  <2>1. wire[i] \in [msg : Messages, from : Nat, to : Nat, rest : 0..PieceDelay]
    BY <1>1, <1>4, ElementOfSeq
  <2> QED
    BY ONLY <2>1
<1>7. \A i \in DOMAIN wire :
         /\ wire[i].msg \in asked
         /\ wire[i].to <= index[wire[i].msg]
  BY DEF Indexed
<1> HIDE DEF c, n
<1>11. n \in Nat /\ n = Len(wire) + 1
  BY <1>4 DEF n
<1>12. ASSUME NEW i \in DOMAIN wire', i # n
       PROVE  i \in DOMAIN wire /\ wire'[i] = wire[i] /\ i \in Nat /\ i < n
  <2>1. i \in 1..n
    BY <1>4
  <2>2. i \in 1..Len(wire) /\ i \in Nat /\ i < n
    BY ONLY <2>1, <1>11, <1>12, Len(wire) \in Nat, <1>4
  <2> QED
    BY <2>2, <1>4
<1>13. ASSUME NEW i \in DOMAIN wire
       PROVE  i \in DOMAIN wire' /\ wire'[i] = wire[i] /\ i \in Nat /\ i < n
  <2>1. i \in 1..Len(wire)
    BY <1>4
  <2>2. i \in 1..n /\ i \in Nat /\ i < n
    BY ONLY <2>1, <1>11, Len(wire) \in Nat, <1>4
  <2> QED
    BY <2>1, <2>2, <1>4
<1>14. n \in DOMAIN wire'
  BY ONLY <1>4, <1>11
<1>8. Indexed'
  <2>1. ASSUME NEW x \in Messages
        PROVE  /\ index'[x] <= Length[x]
               /\ x \notin asked' => index'[x] = 0
               /\ \/ index'[x] = 0
                  \/ \E i \in DOMAIN wire' : wire'[i].msg = x
                                             /\ wire'[i].to = index'[x]
    <3>1. CASE x = m
      <4>1. n \in DOMAIN wire' /\ wire'[n].msg = x /\ wire'[n].to = index'[x]
        BY <3>1, <1>4, <1>5, <1>14
      <4> QED
        BY <3>1, <4>1, <1>5
    <3>2. CASE x # m
      <4>1. index'[x] = index[x]
        BY <3>2, <1>5
      <4>2. index[x] <= Length[x] /\ (x \notin asked => index[x] = 0)
        BY DEF Indexed
      <4>3. CASE index[x] # 0
        <5>1. PICK i \in DOMAIN wire : wire[i].msg = x /\ wire[i].to = index[x]
          BY <4>3 DEF Indexed
        <5>2. i \in DOMAIN wire' /\ wire'[i] = wire[i]
          BY <1>13
        <5> QED
          BY <4>1, <4>2, <5>1, <5>2
      <4> QED
        BY <4>1, <4>2, <4>3
    <3> QED
      BY <3>1, <3>2
  <2>2. ASSUME NEW i \in DOMAIN wire'
        PROVE  wire'[i].msg \in asked' /\ wire'[i].to <= index'[wire'[i].msg]
    <3>1. CASE i = n
      BY <3>1, <1>4, <1>5
    <3>2. CASE i # n
      <4>1. i \in DOMAIN wire /\ wire'[i] = wire[i]
        BY <3>2, <1>12
      <4>2. wire[i].msg \in asked /\ wire[i].to <= index[wire[i].msg]
        BY <4>1, <1>7
      <4>3. CASE wire[i].msg = m
        <5>1. wire[i].to \in Nat /\ wire[i].to <= index[m]
          BY <4>1, <4>2, <4>3, <1>6
        <5>2. index[m] \in Nat /\ e \in Nat /\ index[m] < e
          BY <1>1
        <5>3. wire[i].to <= e
          BY ONLY <5>1, <5>2
        <5> QED
          BY <4>1, <4>2, <4>3, <5>3, <1>5
      <4>4. CASE wire[i].msg # m
        BY <4>1, <4>2, <4>4, <1>5, <1>6
      <4> QED
        BY <4>3, <4>4
    <3> QED
      BY <3>1, <3>2
  <2> QED
    BY <2>1, <2>2 DEF Indexed
<1>9. EveryByteOnce'
  <2> SUFFICES ASSUME NEW i \in DOMAIN wire'
               PROVE  LET d       == wire'[i]
                          earlier == { j \in 1..(i - 1) : wire'[j].msg = d.msg }
                      IN  /\ d.from < d.to
                          /\ IF Long(d.msg)
                             THEN d.to <= Length[d.msg]
                                  /\ d.to <= d.from + PieceSize
                             ELSE d.from = 0 /\ d.to = Length[d.msg]
                          /\ d.from = 0 \/ \E j \in earlier : wire'[j].to = d.from
                          /\ \A j \in earlier : wire'[j].to <= d.from
    BY DEF EveryByteOnce, Long
  <2>1. CASE i = n
    <3>1. wire'[i] = c /\ \A j \in 1..(i - 1) : j \in DOMAIN wire
                                                /\ wire'[j] = wire[j]
      <4>1. 1..(i - 1) = 1..Len(wire)
        BY ONLY <2>1, <1>11, Len(wire) \in Nat
      <4> QED
        BY <2>1, <4>1, <1>4
    <3>2. index[m] = 0 \/ \E j \in 1..(i - 1) : wire'[j].msg = m
                                                /\ wire'[j].to = index[m]
      <4>1. CASE index[m] # 0
        <5>1. PICK j \in DOMAIN wire : wire[j].msg = m /\ wire[j].to = index[m]
          BY <4>1 DEF Indexed
        <5>2. j \in 1..(i - 1) /\ wire'[j] = wire[j]
          <6>1. j \in Nat /\ j < n /\ j >= 1 /\ wire'[j] = wire[j]
            BY <1>13, <1>4
          <6> QED
            BY ONLY <6>1, <2>1, <1>11, Len(wire) \in Nat
        <5> QED
          BY <5>1, <5>2
      <4> QED
        BY <4>1
    <3>3. \A j \in 1..(i - 1) : wire'[j].msg = m => wire'[j].to <= index[m]
      BY <3>1, <1>7
    <3> QED
      BY <3>1, <3>2, <3>3, <1>5
  <2>2. CASE i # n
    <3>1. i \in DOMAIN wire /\ wire'[i] = wire[i]
          /\ \A j \in 1..(i - 1) : wire'[j] = wire[j]
      <4>1. i \in 1..Len(wire) /\ wire'[i] = wire[i]
        BY <2>2, <1>12, <1>4
      <4>2. 1..(i - 1) \subseteq 1..Len(wire)
        BY ONLY <4>1, <1>4
      <4> QED
        BY <4>1, <4>2, <1>4
    <3> QED
      BY <3>1 DEF EveryByteOnce
  <2> QED
    BY <2>1, <2>2
<1>10. PiecesPaced'
  <2> SUFFICES ASSUME NEW i \in DOMAIN wire', NEW j \in DOMAIN wire',
                      i < j, wire'[i].msg = wire'[j].msg
               PROVE  wire'[j].rest = PieceDelay
    BY DEF PiecesPaced, PieceDelay
  <2>1. i \in DOMAIN wire /\ wire'[i] = wire[i]
    <3>1. i \in 1..n /\ j \in 1..n
      BY <1>4
    <3>2. i # n
      BY ONLY <3>1, i < j, <1>11
    <3> QED
      BY <3>2, <1>12
  <2>2. CASE j = n
    <3>1. m \in asked
      BY <2>1, <2>2, <1>4, <1>5, <1>7
    <3> QED
      BY <2>2, <3>1, <1>4, <1>5
  <2>3. CASE j # n
    <3>1. j \in DOMAIN wire /\ wire'[j] = wire[j]
      BY <2>3, <1>12
    <3> QED
      BY <2>1, <3>1 DEF PiecesPaced
  <2> QED
    BY <2>2, <2>3
<1> QED
  BY <1>4, <1>8, <1>9, <1>10

\* One round of loop keeps the invariant, whether midi_message calls it or the
\* timer.
LEMMA SendPieceKeeps ==
    ASSUME OutputInv, NEW m \in Messages, SendPiece(m), Long(m),
           asked' = asked \cup {m},
           index[m] < Length[m],
           m \in asked => rest[m] = PieceDelay
    PROVE  OutputInv'
<1> USE MidiOutputAssumption DEF OutputInv
<1> DEFINE e == PieceEnd(index[m], Length[m])
<1>1. /\ index \in [Messages -> Nat] /\ rest \in [Messages -> 0..PieceDelay]
      /\ timer \in [Messages -> 0..Off] /\ asked \subseteq Messages
      /\ index[m] \in Nat /\ Length[m] \in Nat
  BY DEF TypeOK
<1>2. /\ e \in Nat
      /\ index[m] < e /\ e <= Length[m] /\ e <= index[m] + PieceSize
  BY <1>1, PieceFacts
<1>3. /\ HandOver(m, e)
      /\ timer' = [timer EXCEPT ![m] = IF e < Length[m] THEN PieceDelay ELSE Off]
  BY DEF SendPiece, More, NextDelay
<1> HIDE DEF e
<1>4. /\ wire' \in Seq([msg : Messages, from : Nat, to : Nat,
                        rest : 0..PieceDelay])
      /\ Indexed' /\ EveryByteOnce' /\ PiecesPaced'
  BY <1>2, <1>3, HandOverKeeps
<1>5. /\ index' = [index EXCEPT ![m] = e]
      /\ rest' = [rest EXCEPT ![m] = 0]
  BY <1>3 DEF HandOver, NextIndex
<1>6. TypeOK'
  BY <1>1, <1>2, <1>3, <1>4, <1>5 DEF TypeOK, Off, PieceDelay
<1>7. Waiting'
  <2> SUFFICES ASSUME NEW x \in Messages
               PROVE  /\ timer'[x] # Off <=> x \in asked' /\ index'[x] < Length[x]
                      /\ timer'[x] # Off =>
                            Long(x) /\ timer'[x] + rest'[x] >= PieceDelay
    BY DEF Waiting, Off, PieceDelay, Long
  <2>1. CASE x = m
    <3>1. /\ timer'[m] = (IF e < Length[m] THEN PieceDelay ELSE Off)
          /\ index'[m] = e /\ rest'[m] = 0
      BY <1>1, <1>3, <1>5
    <3> QED
      BY <2>1, <3>1, <1>1, <1>2 DEF Off, PieceDelay
  <2>2. CASE x # m
    <3>1. /\ timer'[x] = timer[x] /\ index'[x] = index[x] /\ rest'[x] = rest[x]
          /\ x \in asked' <=> x \in asked
      BY <2>2, <1>1, <1>3, <1>5
    <3> QED
      BY <3>1 DEF Waiting
  <2> QED
    BY <2>1, <2>2
<1> QED
  BY <1>4, <1>6, <1>7

\* A message goes out whole, or its first piece does.
LEMMA SendKeeps ==
    ASSUME OutputInv, NEW m \in Messages, Send(m)
    PROVE  OutputInv'
<1> USE MidiOutputAssumption DEF OutputInv
<1>1. /\ index \in [Messages -> Nat] /\ rest \in [Messages -> 0..PieceDelay]
      /\ timer \in [Messages -> 0..Off] /\ asked \subseteq Messages
      /\ Length[m] \in Nat \ {0}
  BY DEF TypeOK
<1>2. m \notin asked /\ asked' = asked \cup {m} /\ index[m] = 0
  BY DEF Send, Indexed
<1>3. CASE Long(m)
  <2>1. SendPiece(m)
    BY <1>3 DEF Send
  <2> QED
    BY <1>1, <1>2, <1>3, <2>1, SendPieceKeeps
<1>4. CASE ~Long(m)
  <2>1. HandOver(m, Length[m]) /\ timer' = timer
    BY <1>4 DEF Send
  <2>2. /\ wire' \in Seq([msg : Messages, from : Nat, to : Nat,
                          rest : 0..PieceDelay])
        /\ Indexed' /\ EveryByteOnce' /\ PiecesPaced'
    <3> DEFINE e == Length[m]
    <3>1. e \in Nat /\ index[m] < e /\ e <= Length[m]
      BY <1>1, <1>2
    <3>2. m \in asked => rest[m] = PieceDelay
      BY <1>2
    <3>3. IF Long(m) THEN e <= index[m] + PieceSize
                     ELSE index[m] = 0 /\ e = Length[m]
      BY <1>2, <1>4
    <3>4. HandOver(m, e)
      BY <2>1
    <3> HIDE DEF e
    <3> QED
      BY <1>2, <3>1, <3>2, <3>3, <3>4, HandOverKeeps
  <2>3. /\ index' = [index EXCEPT ![m] = Length[m]]
        /\ rest' = [rest EXCEPT ![m] = 0]
    BY <2>1 DEF HandOver, NextIndex
  <2>4. TypeOK'
    BY <1>1, <1>2, <2>1, <2>2, <2>3 DEF TypeOK, PieceDelay
  <2>5. Waiting'
    <3> SUFFICES ASSUME NEW x \in Messages
                 PROVE  /\ timer'[x] # Off
                             <=> x \in asked' /\ index'[x] < Length[x]
                        /\ timer'[x] # Off =>
                              Long(x) /\ timer'[x] + rest'[x] >= PieceDelay
      BY DEF Waiting, Off, PieceDelay, Long
    <3>1. CASE x = m
      <4>1. timer[m] = Off
        BY <1>2 DEF Waiting
      <4>2. timer'[m] = Off /\ index'[m] = Length[m]
        BY <1>1, <2>1, <2>3, <4>1
      <4> QED
        BY <3>1, <4>2, <1>1
    <3>2. CASE x # m
      <4>1. /\ timer'[x] = timer[x] /\ index'[x] = index[x]
            /\ rest'[x] = rest[x] /\ (x \in asked' <=> x \in asked)
        BY <3>2, <1>1, <1>2, <2>1, <2>3
      <4> QED
        BY <4>1 DEF Waiting
    <3> QED
      BY <3>1, <3>2
  <2> QED
    BY <2>2, <2>4, <2>5
<1> QED
  BY <1>3, <1>4

\* The timer fires when the last piece is old enough.
LEMMA LoopAgainKeeps ==
    ASSUME OutputInv, NEW m \in Messages, LoopAgain(m)
    PROVE  OutputInv'
<1>1. timer[m] = 0 /\ SendPiece(m) /\ asked' = asked
  BY DEF LoopAgain
<1>2. m \in asked /\ index[m] < Length[m] /\ Long(m)
      /\ timer[m] + rest[m] >= PieceDelay
  BY <1>1 DEF OutputInv, Waiting, Off, PieceDelay
<1>3. rest[m] \in 0..PieceDelay
  BY DEF OutputInv, TypeOK
<1>4. rest[m] = PieceDelay
  BY <1>1, <1>2, <1>3 DEF PieceDelay
<1> QED
  BY <1>1, <1>2, <1>4, SendPieceKeeps

\* What a timer loses in a tick, the age of the piece gains.
LEMMA TickKeeps ==
    ASSUME OutputInv, Tick
    PROVE  OutputInv'
<1> USE MidiOutputAssumption DEF OutputInv
<1>1. /\ rest \in [Messages -> 0..PieceDelay] /\ timer \in [Messages -> 0..Off]
      /\ asked' = asked /\ index' = index /\ wire' = wire
  BY DEF TypeOK, Tick
<1>2. ASSUME NEW x \in Messages
      PROVE  /\ rest'[x] = IF rest[x] = PieceDelay THEN PieceDelay
                                                   ELSE rest[x] + 1
             /\ timer'[x] = IF timer[x] \in {0, Off} THEN timer[x]
                                                     ELSE timer[x] - 1
             /\ rest[x] \in 0..PieceDelay /\ timer[x] \in 0..Off
  <2>1. rest[x] \in 0..PieceDelay /\ timer[x] \in 0..Off
    BY <1>1
  <2>2. /\ rest'[x] = Min({rest[x] + 1, PieceDelay})
        /\ timer'[x] = IF timer[x] \in {0, Off} THEN timer[x] ELSE timer[x] - 1
    BY DEF Tick
  <2>3. Min({rest[x] + 1, PieceDelay}) =
           IF rest[x] + 1 <= PieceDelay THEN rest[x] + 1 ELSE PieceDelay
    BY <2>1, MinOfTwo DEF PieceDelay
  <2> QED
    BY <2>1, <2>2, <2>3 DEF PieceDelay
<1>3. /\ rest' \in [Messages -> 0..PieceDelay]
      /\ timer' \in [Messages -> 0..Off]
  <2>1. \A x \in Messages : rest'[x] \in 0..PieceDelay /\ timer'[x] \in 0..Off
    BY <1>2 DEF PieceDelay, Off
  <2>2. /\ rest' = [x \in Messages |-> rest'[x]]
        /\ timer' = [x \in Messages |-> timer'[x]]
    BY DEF Tick
  <2> QED
    BY <2>1, <2>2
<1>4. TypeOK'
  BY <1>1, <1>3 DEF TypeOK
<1>5. Waiting'
  <2> SUFFICES ASSUME NEW x \in Messages
               PROVE  /\ timer'[x] # Off <=> x \in asked' /\ index'[x] < Length[x]
                      /\ timer'[x] # Off =>
                            Long(x) /\ timer'[x] + rest'[x] >= PieceDelay
    BY DEF Waiting, Off, PieceDelay, Long
  <2>1. timer'[x] = Off <=> timer[x] = Off
    BY <1>2 DEF Off, PieceDelay
  <2>2. timer[x] # Off => timer'[x] + rest'[x] >= PieceDelay
    <3>1. timer[x] # Off => timer[x] + rest[x] >= PieceDelay
      BY DEF Waiting
    <3>2. CASE timer[x] = 0
      <4>1. timer'[x] = timer[x] /\ rest'[x] >= rest[x]
        BY <1>2, <3>2 DEF PieceDelay
      <4> QED
        BY <1>2, <3>1, <3>2, <4>1 DEF Off, PieceDelay
    <3>3. CASE timer[x] # 0 /\ timer[x] # Off
      <4>1. timer'[x] = timer[x] - 1
        BY <1>2, <3>3
      <4> QED
        BY <1>2, <3>1, <3>3, <4>1 DEF Off, PieceDelay
    <3> QED
      BY <3>2, <3>3
  <2> QED
    BY <1>1, <2>1, <2>2 DEF Waiting
<1>6. Indexed' /\ EveryByteOnce' /\ PiecesPaced'
  BY <1>1 DEF Indexed, EveryByteOnce, PiecesPaced, Long
<1> QED
  BY <1>4, <1>5, <1>6

LEMMA OutputStepKeeps == OutputInv /\ [Next]_outputVars => OutputInv'
<1> SUFFICES ASSUME OutputInv, [Next]_outputVars
             PROVE  OutputInv'
  OBVIOUS
<1>1. ASSUME NEW m \in Messages, Send(m) \/ LoopAgain(m)
      PROVE  OutputInv'
  BY <1>1, SendKeeps, LoopAgainKeeps
<1>2. CASE Tick
  BY <1>2, TickKeeps
<1>3. CASE UNCHANGED outputVars
  BY <1>3 DEF outputVars, OutputInv, TypeOK, Indexed, Waiting, EveryByteOnce,
              PiecesPaced, Long
<1> QED
  BY <1>1, <1>2, <1>3 DEF Next

-----------------------------------------------------------------------------
(* The theorems *)

\* What holds of midi_message and its timers in every state, by induction.
THEOREM OutputInvariance == Spec => []OutputInv
<1> QED
  BY OutputInit, OutputStepKeeps, PTL DEF Spec

\* The indexes, the timers and the calls of sendMessage keep their types.
THEOREM OutputTypeCorrect == Spec => []TypeOK
<1>1. OutputInv => TypeOK
  BY DEF OutputInv
<1> QED
  BY <1>1, OutputInvariance, PTL

\* loop hands every byte of a message over once and in order, whatever is sent
\* between its pieces.
THEOREM BytesOnce == Spec => []EveryByteOnce
<1>1. OutputInv => EveryByteOnce
  BY DEF OutputInv
<1> QED
  BY <1>1, OutputInvariance, PTL

\* setTimeout(loop, 550) keeps the pieces of a message 550 ms apart.
THEOREM Paced == Spec => []PiecesPaced
<1>1. OutputInv => PiecesPaced
  BY DEF OutputInv
<1> QED
  BY <1>1, OutputInvariance, PTL

\* The handler of /upload (main.js:948-979) does nothing to the output but call
\* midi_message, at most once for each part of a form: what was said of the output holds of
\* the program with its uploads.
THEOREM UploadsImplementOutput == UploadsSpec => Spec
<1>1. UploadsInit => Init
  BY DEF UploadsInit
<1>2. ASSUME [UploadsNext]_vars
      PROVE  [Next]_outputVars
  <2>1. ASSUME HandFile
        PROVE  [Next]_outputVars
    <3>1. CASE IsMessage(Head(handing))
      <4>1. Content[Head(handing)[1]] \in Messages /\ Send(Content[Head(handing)[1]])
        BY <2>1, <3>1 DEF HandFile, IsMessage
      <4> QED
        BY <4>1 DEF Next
    <3>2. CASE ~IsMessage(Head(handing))
      BY <2>1, <3>2 DEF HandFile
    <3> QED
      BY <3>1, <3>2
  <2>2. ASSUME Upload \/ Chunk \/ End \/ \E f \in Files : FileRead(f) \/ FileFails(f)
        PROVE  UNCHANGED outputVars
    BY <2>2 DEF Upload, Chunk, End, FileRead, FileFails
  <2>3. ASSUME Output
        PROVE  Next
    BY <2>3 DEF Output, Next
  <2> QED
    BY <1>2, <2>1, <2>2, <2>3 DEF UploadsNext, vars
<1> QED
  BY <1>1, <1>2, PTL DEF UploadsSpec, Spec

\* Every byte goes out once, whatever is uploaded meanwhile and when the
\* program ends.
THEOREM BytesOnceBesideUploads == UploadsSpec => []EveryByteOnce
BY UploadsImplementOutput, BytesOnce, PTL

\* And the pieces of a long message, uploaded or not, stay 550 ms apart.
THEOREM PacedBesideUploads == UploadsSpec => []PiecesPaced
BY UploadsImplementOutput, Paced, PTL
=============================================================================
