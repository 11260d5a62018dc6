------------------------------ MODULE UsedSteps ------------------------------
(***************************************************************************)
(* getUsedSteps of lexicon.js: how many processing steps the algorithms of *)
(* a program use.                                                          *)
(*                                                                         *)
(* It reads the algorithm of one effect after the other.  A call that      *)
(* comes while the algorithms are being read waits for the same result.    *)
(* A read is a dataMessage_request.  The first one is made from a caller   *)
(* and has a timer and retries.  Each other one is made by the callback of *)
(* the one before, which returns nothing: sysex_callback goes on with the  *)
(* same message to the hook just pushed, clears its timer, and the read    *)
(* has no retry (SysexRequests, Dispatch).                                 *)
(*                                                                         *)
(* While the device was not heard yet, and as long as the program runs if  *)
(* its configuration was not read from a file, dataMessage_request asks    *)
(* nothing and answers zeros at once: a call then ends in the same step,   *)
(* with no algorithm for any effect.                                       *)
(*                                                                         *)
(* The steps of an algorithm are data of the info file: what is kept here  *)
(* is the algorithm.  One the file does not know ends the program.         *)
(***************************************************************************)
EXTENDS Naturals, SequencesExt

CONSTANTS
    NumEffects, \* effects_name.length, 5
    Algorithms, \* the algorithms of an effect; 0 is none
    Unknown,    \* those the info file does not know
    Callers,    \* the calls, each one made once
    Retries,    \* timeout.retry of a request, 2
    MaxLost,    \* bound: reads that get no answer
    MaxChanges  \* bound: algorithms changed

ASSUME UsedStepsAssumption ==
    /\ NumEffects \in Nat \ {0, 1}
    /\ 0 \in Algorithms \ Unknown
    /\ Retries \in Nat

VARIABLES
    asks,      \* config.ready && self.alive
    getting,   \* getting_usedSteps
    first,     \* the callback of the call that reads
    waiting,   \* getting_usedSteps_callbacks
    index,     \* the effect being read
    steps,     \* the algorithms read so far
    timer,     \* the read has a timer
    retry,     \* its retries
    reads,     \* the effects asked for, on their way to the device
    answers,   \* effects and algorithms on their way from it
    exited,    \* process.exit
    called,    \* the calls made
    results,   \* call -> what its callback was called with
    loaded,    \* the algorithm of each effect in the device
    sinceCall, \* call -> effect -> the algorithms loaded since the call
    lost,      \* reads without an answer
    orphaned,  \* one of them had no timer that would repeat it
    changes    \* algorithms changed

readVars == <<getting, first, waiting, index, steps, timer, retry>>
callVars == <<called, results, sinceCall>>
lostVars == <<lost, orphaned>>
vars == <<asks, readVars, reads, answers, exited, callVars, loaded, lostVars,
          changes>>

Effects == 1..NumEffects
Nobody  == {}

-----------------------------------------------------------------------------

TypeOK ==
    /\ getting \in BOOLEAN
    /\ first \subseteq Callers
    /\ waiting \in Seq(Callers)
    /\ index \in Effects
    /\ steps \in Seq(Algorithms)
    /\ timer \in BOOLEAN
    /\ reads \in Seq(Effects)
    /\ answers \in Seq([effect : Effects, algorithm : Algorithms])
    /\ called \subseteq Callers
    /\ results \in [Callers -> Seq([Effects -> Algorithms])]
    /\ loaded \in [Effects -> Algorithms]
    /\ sinceCall \in [Callers -> [Effects -> SUBSET Algorithms]]

Init ==
    /\ asks \in BOOLEAN
    /\ getting = FALSE
    /\ first = Nobody
    /\ waiting = <<>>
    /\ index = 1
    /\ steps = <<>>
    /\ timer = FALSE
    /\ retry = Retries
    /\ reads = <<>>
    /\ answers = <<>>
    /\ exited = FALSE
    /\ called = {}
    /\ results = [c \in Callers |-> <<>>]
    /\ loaded \in [Effects -> Algorithms \ Unknown]
    /\ sinceCall = [c \in Callers |-> [e \in Effects |-> {}]]
    /\ lost = 0
    /\ orphaned = FALSE
    /\ changes = 0

-----------------------------------------------------------------------------

\* The handshake is answered, in a program that has read its configuration.
Hears ==
    /\ ~exited
    /\ ~asks
    /\ asks' = TRUE
    /\ UNCHANGED <<readVars, reads, answers, exited, callVars, loaded, lostVars,
                   changes>>

\* The result when the rest of the effects were not read, or all are zero.
Result(s) == [e \in Effects |-> IF e \in DOMAIN s THEN s[e] ELSE 0]

\* The call that comes while the algorithms are being read.
Joined(c) == Append(waiting, c)

\* The call that reads asks for the first algorithm.
ReadFirst(c) ==
    /\ getting' = TRUE
    /\ first' = {c}
    /\ index' = 1
    /\ steps' = <<>>
    /\ timer' = TRUE
    /\ retry' = Retries
    /\ reads' = Append(reads, 1)

\* getUsedSteps(c)
Call(c) ==
    /\ ~exited
    /\ c \notin called
    /\ called' = called \cup {c}
    /\ sinceCall' = [sinceCall EXCEPT ![c] = [e \in Effects |-> {loaded[e]}]]
    /\ \/ /\ getting
          /\ waiting' = Joined(c)
          /\ UNCHANGED <<getting, first, index, steps, timer, retry, reads, results>>
       \/ /\ ~getting /\ asks
          /\ ReadFirst(c)
          /\ UNCHANGED <<waiting, results>>
       \/ /\ ~getting /\ ~asks
          /\ results' = [results EXCEPT ![c] = Append(@, Result(<<>>))]
          /\ UNCHANGED <<readVars, reads>>
    /\ UNCHANGED <<asks, answers, exited, loaded, lostVars, changes>>

StillWaiting == <<>>

\* Mutant: a call that waited is forgotten.
Served_First == first

\* callback(steps), and each callback that waits.
Served == first \cup ToSet(waiting)

\* Mutant: the last effect is not read.
IsLast_OneLess(i) == i + 1 >= NumEffects

IsLast(i) == i = NumEffects

\* _callback: the answer for the effect being read.
Finish(s) ==
    /\ results' = [c \in Callers |-> IF c \in Served
                                     THEN Append(results[c], Result(s))
                                     ELSE results[c]]
    /\ waiting' = StillWaiting
    /\ getting' = FALSE
    /\ first' = Nobody
    /\ steps' = <<>>
    /\ timer' = FALSE
    /\ UNCHANGED <<index, retry, reads>>

ReadNext(s) ==
    /\ steps' = s
    /\ index' = index + 1
    /\ reads' = Append(reads, index + 1)
    /\ timer' = FALSE  \* cleared by the message that is being dispatched
    /\ retry' = Retries
    /\ UNCHANGED <<getting, first, waiting, results>>

AnswerArrives ==
    /\ ~exited
    /\ answers # <<>>
    /\ answers' = Tail(answers)
    /\ LET a == Head(answers)
           s == Append(steps, a.algorithm)
       IN  IF ~getting
           THEN UNCHANGED <<readVars, reads, exited, results>>
           ELSE IF a.effect # index
           THEN \* for another address: the hook stays, its timer does not
                /\ timer' = FALSE
                /\ UNCHANGED <<getting, first, waiting, index, steps, retry,
                               reads, exited, results>>
           ELSE IF a.algorithm \in Unknown
           THEN exited' = TRUE /\ UNCHANGED <<readVars, reads, results>>
           ELSE /\ IF IsLast(index) THEN Finish(s) ELSE ReadNext(s)
                /\ UNCHANGED exited
    /\ UNCHANGED <<asks, called, sinceCall, loaded, lostVars, changes>>

\* The timer of the first read, whose answer may be lost or late.
Timeout ==
    /\ ~exited
    /\ timer
    /\ IF retry > 0
       THEN retry' = retry - 1 /\ reads' = Append(reads, index) /\ UNCHANGED timer
       ELSE timer' = FALSE /\ UNCHANGED <<retry, reads>>
    /\ UNCHANGED <<asks, getting, first, waiting, index, steps, answers, exited,
                   callVars, loaded, lostVars, changes>>

-----------------------------------------------------------------------------
(* The device: not part of the program *)

DeviceAnswers ==
    /\ reads # <<>>
    /\ reads' = Tail(reads)
    /\ answers' = Append(answers, [effect |-> Head(reads),
                                   algorithm |-> loaded[Head(reads)]])
    /\ UNCHANGED <<asks, readVars, exited, callVars, loaded, lostVars, changes>>

\* A read is lost: the timer of a first one repeats it.
Lose ==
    /\ reads # <<>>
    /\ lost < MaxLost
    /\ lost' = lost + 1
    /\ orphaned' = (orphaned \/ Head(reads) # 1)
    /\ reads' = Tail(reads)
    /\ UNCHANGED <<asks, readVars, answers, exited, callVars, loaded, changes>>

\* Another algorithm is loaded.
ChangeAlgorithm(e, a) ==
    /\ changes < MaxChanges
    /\ a # loaded[e]
    /\ changes' = changes + 1
    /\ loaded' = [loaded EXCEPT ![e] = a]
    /\ sinceCall' = [c \in Callers |->
                       IF c \in called
                       THEN [sinceCall[c] EXCEPT ![e] = @ \cup {a}]
                       ELSE sinceCall[c]]
    /\ UNCHANGED <<asks, readVars, reads, answers, exited, called, results,
                   lostVars>>

-----------------------------------------------------------------------------

Next ==
    \/ Hears
    \/ \E c \in Callers : Call(c)
    \/ AnswerArrives
    \/ Timeout
    \/ DeviceAnswers
    \/ Lose
    \/ \E e \in Effects, a \in Algorithms : ChangeAlgorithm(e, a)

\* What was sent arrives, a timer fires, the device answers what it gets.
Fairness ==
    /\ WF_vars(AnswerArrives)
    /\ WF_vars(Timeout)
    /\ WF_vars(DeviceAnswers)

Spec == Init /\ [][Next]_vars /\ Fairness

-----------------------------------------------------------------------------

\* Every call gets the steps, the one that reads and those that joined it
\* (lines 1688-1692), also if a first read is lost, unless the program has
\* ended.  The loss of another read leaves getting_usedSteps set: no call is
\* answered any more.
EveryCallAnswered ==
    \A c \in Callers : c \in called ~> results[c] # <<>> \/ exited \/ orphaned

FreshFor(c) ==
    \A i \in DOMAIN results[c] : \A e \in Effects :
       results[c][i][e] \in sinceCall[c][e]

\* A call that reads gets, for each effect, an algorithm that was loaded
\* when it was made or later.  (A call that joins may get an older one: line
\* 1662 sets the index of the call that joins to 0, not that of the reads.  One
\* that is made while the program does not ask reads nothing and gets zeros,
\* whatever is loaded: lines 250 and 272-283.)
ReaderFresh == [][\A c \in Callers : first = {c} => FreshFor(c)']_vars
=============================================================================
