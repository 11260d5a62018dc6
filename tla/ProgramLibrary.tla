--------------------------- MODULE ProgramLibrary ----------------------------
(***************************************************************************)
(* Program dumps in main.js: the library of all programs ever dumped and   *)
(* its file, and the dump of all programs.                                 *)
(*                                                                         *)
(* Every program the device sends, asked for or not, goes through          *)
(* dataMessage_process.  It enters the library, and 1.5 s after the last   *)
(* one the library is written.  While all_programs_dump_callback is set,   *)
(* it enters the bank as well, and then the bank is the answer to the      *)
(* request of the callback.  Nothing unsets the callback (line 383 unsets  *)
(* all_program_dump_callback).                                             *)
(*                                                                         *)
(* A dump of all programs presses the buttons of the front panel and reads *)
(* its display twice; three displays that are not the expected ones end    *)
(* it.  Its timer and the one of the callback share a handle: a timer      *)
(* whose handle is overwritten can no longer be cleared.                   *)
(***************************************************************************)
EXTENDS Naturals, FiniteSets, SequencesExt

CONSTANTS
    Programs,     \* what a dump may contain, told apart by its hash
    Numbered,     \* those with a number; the active program has none
    Requests,     \* the requests for a dump of all programs
    None,         \* no request, no timer
    MaxTries,     \* 3: displays that are not the expected ones and end it
    MaxSingles,   \* bound: single programs dumped
    MaxCrashes    \* bound: times the program ends and is started again

ASSUME LibraryAssumption ==
    /\ Numbered \subseteq Programs
    /\ None \notin Requests
    /\ MaxTries \in Nat \ {0}

VARIABLES
    library,  \* global_library.program
    libTimer, \* writeLib_timeout: "none", "pending", or "fired"
    callback, \* all_programs_dump_callback: the request it answers
    bank,     \* all_programs_bank
    timer,    \* all_programs_dump_timeout: the timer it can clear
    orphans,  \* timers it can no longer clear
    file,     \* library.mpx: its programs, and whether it can be parsed
    writes,   \* the calls of fs.writeFile that have not ended
    stage,    \* request -> how far it is
    already,  \* request -> displays that were not the expected ones
    answer,   \* request -> the programs it was answered with
    sending,  \* the programs the device is about to send
    singles,  \* single programs dumped
    crashes,  \* restarts
    saved,    \* the programs that have been in the file
    torn,     \* a write began before another ended, or was cut by a restart
    rivals    \* a dump was asked for while another one was going on

libraryVars == <<library, libTimer, callback, bank, timer, orphans>>
fileVars    == <<file, writes, saved, torn>>
dumpVars    == <<stage, already, answer, rivals>>
vars == <<libraryVars, fileVars, dumpVars, sending, singles, crashes>>

\* callback(true) after 5 s, and the end of a dump 1.5 s after a program.
Nothing(r) == [kind |-> "nothing", for |-> r]
End        == [kind |-> "end", for |-> None]
Timers     == { Nothing(r) : r \in Requests } \cup {End}

-----------------------------------------------------------------------------

Init ==
    /\ library = {}
    /\ libTimer = "none"
    /\ callback = None
    /\ bank = {}
    /\ timer = None
    /\ orphans = {}
    /\ file = [programs |-> {}, whole |-> FALSE]
    /\ writes = <<>>
    /\ stage = [r \in Requests |-> "none"]
    /\ already = [r \in Requests |-> 0]
    /\ answer = [r \in Requests |-> {}]
    /\ sending = {}
    /\ singles = 0
    /\ crashes = 0
    /\ saved = {}
    /\ torn = FALSE
    /\ rivals = FALSE

-----------------------------------------------------------------------------
(* fs.writeFile of the library *)

Write ==
    /\ writes' = Append(writes, [programs |-> library, open |-> FALSE])
    /\ torn' = (torn \/ writes # <<>>)

\* fs.open with flag 'w' empties the file.
WriteOpens(i) ==
    /\ ~writes[i].open
    /\ writes' = [writes EXCEPT ![i].open = TRUE]
    /\ file' = [programs |-> {}, whole |-> FALSE]
    /\ UNCHANGED <<libraryVars, saved, torn, dumpVars, sending, singles,
                   crashes>>

\* fs.write from position 0: the end of what is longer remains.
WriteEnds(i) ==
    /\ writes[i].open
    /\ writes' = RemoveAt(writes, i)
    /\ LET p == writes[i].programs
       IN  IF Cardinality(p) >= Cardinality(file.programs)
           THEN file' = [programs |-> p, whole |-> TRUE] /\ saved' = saved \cup p
           ELSE file' = [file EXCEPT !.whole = FALSE] /\ UNCHANGED saved
    /\ UNCHANGED <<libraryVars, torn, dumpVars, sending, singles, crashes>>

-----------------------------------------------------------------------------
(* dataMessage_process for System.ProgramDump *)

Known(p) == library \cup {p}

\* Mutant: the bank keeps the last program only.
BankWith_Last(p) == {p} \cap Numbered

\* A program without a number is no element of the bank, an array.
BankWith(p) == bank \cup ({p} \cap Numbered)

\* Mutant: a program that is new does not start the timer again.
RestartsWrite_Known(p) == p \in library /\ libTimer # "none"

\* The handle stays when the timer has fired, and counts as one.
RestartsWrite(p) == p \notin library \/ libTimer # "none"

Process(p) ==
    /\ library' = Known(p)
    /\ IF callback # None
       THEN /\ bank' = BankWith(p)
            /\ timer' = End
            /\ UNCHANGED libTimer
       ELSE /\ timer' = None
            /\ libTimer' = IF RestartsWrite(p) THEN "pending" ELSE libTimer
            /\ UNCHANGED bank
    /\ UNCHANGED <<callback, orphans>>

\* The device sends one program, dumped from its panel or for /dump?p=.
SingleArrives(p) ==
    /\ singles < MaxSingles
    /\ singles' = singles + 1
    /\ Process(p)
    /\ UNCHANGED <<fileVars, dumpVars, sending, crashes>>

\* The device sends the next of all programs.
NextArrives(p) ==
    /\ p \in sending
    /\ sending' = sending \ {p}
    /\ Process(p)
    /\ UNCHANGED <<fileVars, dumpVars, singles, crashes>>

\* The timer of writeLib_timeout.
LibTimerFires ==
    /\ libTimer = "pending"
    /\ libTimer' = "fired"
    /\ Write
    /\ UNCHANGED <<library, callback, bank, timer, orphans, file, saved,
                   dumpVars, sending, singles, crashes>>

\* response.end: only the first call counts.
Respond(r) ==
    IF stage[r] = "dump"
    THEN /\ answer' = [answer EXCEPT ![r] = bank]
         /\ stage' = [stage EXCEPT ![r] = "answered"]
         /\ UNCHANGED <<already, rivals>>
    ELSE UNCHANGED dumpVars

\* A timer of the dump has fired.  A program comes from the device every
\* 0.2 s: no timer fires while it is sending.
Fires(t) ==
    /\ sending = {}
    /\ IF t = End
       THEN Respond(callback) /\ Write
       ELSE Respond(t.for) /\ UNCHANGED <<writes, torn>>
    /\ UNCHANGED <<library, libTimer, callback, bank, file, saved, sending,
                   singles, crashes>>

TimerFires ==
    /\ timer # None
    /\ Fires(timer)
    /\ timer' = None
    /\ UNCHANGED orphans

OrphanFires(t) ==
    /\ t \in orphans
    /\ Fires(t)
    /\ orphans' = orphans \ {t}
    /\ UNCHANGED timer

-----------------------------------------------------------------------------
(* all_programs_dump *)

UnderWay(r) == stage[r] \in {"menu", "select", "dump"}

\* GET /dump?what=all_programs
StartDump(r) ==
    /\ stage[r] = "none"
    /\ stage' = [stage EXCEPT ![r] = "menu"]
    /\ rivals' = \/ rivals \/ sending # {}
                  \/ \E q \in Requests : UnderWay(q)
    /\ UNCHANGED <<libraryVars, fileVars, already, answer, sending, singles,
                   crashes>>

\* The display is the one of the System menu: go to the dump of MIDI.
MenuShown(r) ==
    /\ stage[r] = "menu"
    /\ stage' = [stage EXCEPT ![r] = "select"]
    /\ UNCHANGED <<libraryVars, fileVars, already, answer, rivals, sending,
                   singles, crashes>>

\* Mutant: the tries are counted from zero again.
Tries_Reset(n) == 1

Tries(n) == n + 1

\* The display is another one: from the start again, three times at most.
\* The third time the request gets no answer.
NotShown(r) ==
    /\ stage[r] \in {"menu", "select"}
    /\ already' = [already EXCEPT ![r] = Tries(@)]
    /\ stage' = [stage EXCEPT ![r] =
                   IF Tries(already[r]) = MaxTries THEN "hung" ELSE "menu"]
    /\ UNCHANGED <<libraryVars, fileVars, answer, rivals, sending, singles,
                   crashes>>

\* The display offers all programs: press the buttons that dump them.  The
\* device does so, or does nothing.
SelectShown(r) ==
    /\ stage[r] = "select"
    /\ stage' = [stage EXCEPT ![r] = "dump"]
    /\ callback' = r
    /\ orphans' = orphans \cup ({timer} \ {None})
    /\ timer' = Nothing(r)
    /\ bank' = {}
    /\ sending' \in {sending, Numbered}
    /\ UNCHANGED <<library, libTimer, fileVars, already, answer, rivals,
                   singles, crashes>>

-----------------------------------------------------------------------------

\* Mutant: the library is not read at the start.
Loaded_Nothing == {}

\* What JSON.parse makes of the file, or nothing when it throws.
Loaded == IF file.whole THEN file.programs ELSE {}

\* The program ends (process.exit, a crash) and is started again.
Restart ==
    /\ crashes < MaxCrashes
    /\ crashes' = crashes + 1
    /\ library' = Loaded
    /\ libTimer' = "none"
    /\ callback' = None
    /\ bank' = {}
    /\ timer' = None
    /\ orphans' = {}
    /\ writes' = <<>>
    /\ torn' = (torn \/ writes # <<>>)
    /\ stage' = [r \in Requests |-> IF UnderWay(r) THEN "gone" ELSE stage[r]]
    /\ UNCHANGED <<file, saved, already, answer, rivals, sending, singles>>

-----------------------------------------------------------------------------

\* What goes on by itself: writes, programs on their way, timers, displays.
Progress ==
    \/ \E i \in DOMAIN writes : WriteOpens(i) \/ WriteEnds(i)
    \/ \E p \in Programs : NextArrives(p)
    \/ LibTimerFires
    \/ TimerFires
    \/ \E t \in Timers : OrphanFires(t)
    \/ \E r \in Requests : MenuShown(r) \/ NotShown(r) \/ SelectShown(r)

Next ==
    \/ Progress
    \/ \E p \in Programs : SingleArrives(p)
    \/ \E r \in Requests : StartDump(r)
    \/ Restart

\* Timers fire, system calls return, the device answers and sends.
Spec == Init /\ [][Next]_vars /\ WF_vars(Progress)

-----------------------------------------------------------------------------

Saved(p) == file.whole /\ p \in file.programs

\* CHANGELOG line 11, "Save every program dumped in a global JSON library":
\* a program that was dumped gets into the file and stays there, unless the
\* program is started again.  Two writes at the same time may spoil the file:
\* neither timer waits for the other's write (lines 384 and 393).
EveryDumpSaved ==
    \A p \in Programs :
       [](p \in library => <>[](Saved(p) \/ p \notin library \/ torn))

\* A program that has been in the file is in the library after every restart,
\* unless one of them cut a write, which empties the file first.
NothingLost == torn \/ saved \subseteq library

\* The answer to a dump of all programs has all that were sent for it, or is
\* empty when the device sent none: if no single program comes in between
\* (dataMessage_process, lines 375-385) and no other dump is under way.
AnswerWhole ==
    \A r \in Requests :
       stage[r] = "answered" /\ singles = 0 /\ ~rivals
          => answer[r] \in {{}, Numbered}

\* A dump of all programs ends: with an answer, or after three displays that
\* were not the expected ones, or with the program (lines 1349-1355 and
\* 1401-1415).  A second one that is asked for meanwhile takes its callback,
\* and it may get no answer (line 1412).
DumpEnds ==
    \A r \in Requests :
       stage[r] # "none" ~> \/ stage[r] \in {"answered", "hung", "gone"}
                            \/ rivals
=============================================================================
