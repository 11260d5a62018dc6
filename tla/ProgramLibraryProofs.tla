------------------------- MODULE ProgramLibraryProofs -------------------------
(***************************************************************************)
(* Proofs about ProgramLibrary, for any programs, any dumps and any number *)
(* of restarts: the library is lost by a restart only if a write was torn, *)
(* and a dump of all programs with no rival is answered whole.             *)
(***************************************************************************)
EXTENDS ProgramLibrary, SequenceTheorems, FiniteSetTheorems, TLAPS

-----------------------------------------------------------------------------
(* The inductive invariant *)

Sets   == { s \in SUBSET Programs : IsFiniteSet(s) }
Writes == [programs : Sets, open : BOOLEAN]

FileTypeOK ==
    /\ library \in Sets
    /\ file \in [programs : Sets, whole : BOOLEAN]
    /\ writes \in Seq(Writes)
    /\ torn \in BOOLEAN

\* As long as no write was torn there is one at most, of all that has been in
\* the file, and the file has all of that before it is opened and nothing
\* until the write ends.
OneWrite ==
    /\ Len(writes) <= 1
    /\ saved \subseteq library
    /\ \A i \in DOMAIN writes :
          /\ saved \subseteq writes[i].programs
          /\ writes[i].programs \subseteq library
          /\ writes[i].open => file.programs = {}
    /\ (\A i \in DOMAIN writes : ~writes[i].open) => saved \subseteq Loaded

LibraryInv == FileTypeOK /\ (~torn => OneWrite)

-----------------------------------------------------------------------------
(* The steps *)

LEMMA LibraryInit == Init => LibraryInv
<1> SUFFICES ASSUME Init
             PROVE  LibraryInv
  OBVIOUS
<1>1. {} \in Sets
  BY FS_EmptySet DEF Sets
<1>2. /\ library = {} /\ saved = {} /\ torn = FALSE /\ writes = <<>>
      /\ file = [programs |-> {}, whole |-> FALSE]
  BY DEF Init
<1>3. FileTypeOK
  <2>1. <<>> \in Seq(Writes)
    BY EmptySeq
  <2>2. [programs |-> {}, whole |-> FALSE] \in [programs : Sets, whole : BOOLEAN]
    BY <1>1
  <2> QED
    BY <1>1, <1>2, <2>1, <2>2 DEF FileTypeOK
<1>4. OneWrite
  BY <1>2 DEF OneWrite
<1> QED
  BY <1>3, <1>4 DEF LibraryInv

\* What is written is the library.
LEMMA WriteKeeps ==
    ASSUME LibraryInv, Write, UNCHANGED <<library, file, saved>>
    PROVE  LibraryInv'
<1> USE DEF LibraryInv, FileTypeOK
<1> DEFINE w == [programs |-> library, open |-> FALSE]
<1>1. w \in Writes
  BY DEF Writes
<1>2. writes' = Append(writes, w) /\ torn' = (torn \/ writes # <<>>)
  BY DEF Write
<1>3. writes' \in Seq(Writes)
  BY <1>1, <1>2
<1>4. ASSUME ~torn'
      PROVE  OneWrite'
  <2>1. ~torn /\ writes = <<>>
    BY <1>2, <1>4
  <2>2. Len(writes') = 1 /\ DOMAIN writes' = {1} /\ writes'[1] = w
    BY <1>2, <2>1
  <2>3. saved \subseteq library /\ saved \subseteq Loaded
    BY <2>1 DEF OneWrite
  <2>4. Loaded' = Loaded
    BY DEF Loaded
  <2> QED
    BY <2>2, <2>3, <2>4 DEF OneWrite
<1> QED
  BY <1>2, <1>3, <1>4

\* A program is added, and nothing is written yet.
LEMMA LibraryGrows ==
    ASSUME LibraryInv, NEW p \in Programs, library' = library \cup {p},
           UNCHANGED fileVars
    PROVE  LibraryInv'
<1> USE DEF LibraryInv, FileTypeOK
<1>1. library' \in Sets
  BY FS_AddElement DEF Sets
<1>2. UNCHANGED <<file, writes, saved, torn>>
  BY DEF fileVars
<1>3. ~torn => OneWrite'
  BY <1>2 DEF OneWrite, Loaded
<1> QED
  BY <1>1, <1>2, <1>3

\* fs.open empties the file.
LEMMA WriteOpensKeeps ==
    ASSUME LibraryInv, NEW i \in DOMAIN writes, WriteOpens(i)
    PROVE  LibraryInv'
<1> USE DEF LibraryInv, FileTypeOK
<1>1. /\ writes' = [writes EXCEPT ![i].open = TRUE]
      /\ file' = [programs |-> {}, whole |-> FALSE]
      /\ UNCHANGED <<library, saved, torn>>
  BY DEF WriteOpens, libraryVars
<1>2. {} \in Sets
  BY FS_EmptySet DEF Sets
<1>3. /\ writes' \in Seq(Writes) /\ Len(writes') = Len(writes)
      /\ DOMAIN writes' = DOMAIN writes
      /\ \A j \in DOMAIN writes : writes'[j].programs = writes[j].programs
      /\ writes'[i].open
  <2>1. writes[i] \in Writes
    BY ElementOfSeq
  <2>2. [writes[i] EXCEPT !.open = TRUE] \in Writes
        /\ [writes[i] EXCEPT !.open = TRUE].programs = writes[i].programs
        /\ [writes[i] EXCEPT !.open = TRUE].open
    BY <2>1 DEF Writes
  <2> DEFINE w == [writes[i] EXCEPT !.open = TRUE]
  <2>3. writes' = [writes EXCEPT ![i] = w]
    BY <1>1
  <2> HIDE DEF w
  <2>4. w \in Writes /\ w.programs = writes[i].programs /\ w.open
    BY <2>2 DEF w
  <2> QED
    BY <2>3, <2>4
<1>4. ASSUME ~torn
      PROVE  OneWrite'
  BY <1>1, <1>3, <1>4 DEF OneWrite
<1> QED
  BY <1>1, <1>2, <1>3, <1>4

\* The file is whole again, with all of the write in it.
LEMMA WriteEndsKeeps ==
    ASSUME LibraryInv, NEW i \in DOMAIN writes, WriteEnds(i)
    PROVE  LibraryInv'
<1> USE DEF LibraryInv, FileTypeOK
<1> DEFINE p == writes[i].programs
<1>1. /\ writes[i].open /\ writes' = RemoveAt(writes, i)
      /\ IF Cardinality(p) >= Cardinality(file.programs)
         THEN file' = [programs |-> p, whole |-> TRUE] /\ saved' = saved \cup p
         ELSE file' = [file EXCEPT !.whole = FALSE] /\ saved' = saved
      /\ UNCHANGED <<library, torn>>
  BY DEF WriteEnds, libraryVars
<1>2. p \in Sets
  <2>1. writes[i] \in Writes
    BY ElementOfSeq
  <2> QED
    BY <2>1 DEF Writes
<1>3. writes' \in Seq(Writes) /\ Len(writes') = Len(writes) - 1
  BY <1>1 DEF RemoveAt
<1>4. file' \in [programs : Sets, whole : BOOLEAN]
  <2> HIDE DEF p
  <2>1. [programs |-> p, whole |-> TRUE] \in [programs : Sets, whole : BOOLEAN]
    BY <1>2
  <2>2. [file EXCEPT !.whole = FALSE] \in [programs : Sets, whole : BOOLEAN]
    OBVIOUS
  <2>3. \/ file' = [programs |-> p, whole |-> TRUE]
        \/ file' = [file EXCEPT !.whole = FALSE]
    BY <1>1
  <2> QED
    BY <2>1, <2>2, <2>3
<1>5. ASSUME ~torn
      PROVE  OneWrite'
  <2>1. /\ Len(writes) = 1
        /\ saved \subseteq p /\ p \subseteq library /\ file.programs = {}
    <3> DEFINE n == Len(writes)
    <3>1. n \in Nat /\ i \in 1..n
      OBVIOUS
    <3>2. n <= 1
      BY <1>5 DEF OneWrite
    <3> HIDE DEF n, p
    <3>4. n = 1
      BY <3>1, <3>2
    <3>3. saved \subseteq p /\ p \subseteq library /\ file.programs = {}
      BY <1>1, <1>5 DEF OneWrite, p
    <3> QED
      BY <3>3, <3>4 DEF n
  <2>2. Len(writes') = 0 /\ DOMAIN writes' = {}
    BY <1>3, <2>1
  <2>3. Cardinality(p) >= Cardinality(file.programs)
    <3>1. Cardinality(p) \in Nat
      BY <1>2, FS_CardinalityType DEF Sets
    <3>2. Cardinality(file.programs) = 0
      BY <2>1, FS_EmptySet
    <3> QED
      BY <3>1, <3>2
  <2>4. file' = [programs |-> p, whole |-> TRUE] /\ saved' = saved \cup p
    BY <1>1, <2>3
  <2>5. Loaded' = p
    BY <2>4 DEF Loaded
  <2> HIDE DEF p
  <2> QED
    BY <1>1, <2>1, <2>2, <2>4, <2>5 DEF OneWrite
<1> QED
  BY <1>1, <1>3, <1>4, <1>5

\* What was read from the file is the library.
LEMMA RestartKeeps ==
    ASSUME LibraryInv, Restart
    PROVE  LibraryInv'
<1> USE DEF LibraryInv, FileTypeOK
<1>1. /\ library' = Loaded /\ writes' = <<>>
      /\ torn' = (torn \/ writes # <<>>)
      /\ UNCHANGED <<file, saved>>
  BY DEF Restart
<1>2. Loaded \in Sets
  BY FS_EmptySet DEF Loaded, Sets
<1>3. Loaded' = Loaded
  BY <1>1 DEF Loaded
<1>4. ASSUME ~torn'
      PROVE  OneWrite'
  <2>1. ~torn /\ writes = <<>>
    BY <1>1, <1>4
  <2>2. saved \subseteq Loaded
    BY <2>1 DEF OneWrite
  <2> QED
    BY <1>1, <1>3, <2>2 DEF OneWrite
<1> QED
  BY <1>1, <1>2, <1>4

LEMMA LibraryUntouched ==
    ASSUME LibraryInv, UNCHANGED <<library, fileVars>>
    PROVE  LibraryInv'
  BY DEF LibraryInv, FileTypeOK, OneWrite, Loaded, fileVars

\* A timer of the dump ends it and writes the library, or does neither.
LEMMA DumpTimerKeeps ==
    ASSUME LibraryInv, TimerFires \/ \E t \in Timers : OrphanFires(t)
    PROVE  LibraryInv'
<1>1. PICK t \in Timers \cup {timer} : Fires(t)
  BY DEF TimerFires, OrphanFires
<1>2. UNCHANGED <<library, file, saved>>
  BY <1>1 DEF Fires
<1>3. CASE t = End
  <2>1. Write
    BY <1>1, <1>3 DEF Fires
  <2> QED
    BY <1>2, <2>1, WriteKeeps
<1>4. CASE t # End
  <2>1. UNCHANGED <<writes, torn>>
    BY <1>1, <1>4 DEF Fires
  <2> QED
    BY <1>2, <2>1, LibraryUntouched DEF fileVars
<1> QED
  BY <1>3, <1>4

LEMMA LibraryStepKeeps == LibraryInv /\ [Next]_vars => LibraryInv'
<1> SUFFICES ASSUME LibraryInv, [Next]_vars
             PROVE  LibraryInv'
  OBVIOUS
<1>1. ASSUME NEW i \in DOMAIN writes, WriteOpens(i) \/ WriteEnds(i)
      PROVE  LibraryInv'
  BY <1>1, WriteOpensKeeps, WriteEndsKeeps
<1>2. ASSUME NEW p \in Programs, NextArrives(p) \/ SingleArrives(p)
      PROVE  LibraryInv'
  <2>1. library' = library \cup {p} /\ UNCHANGED fileVars
    BY <1>2 DEF NextArrives, SingleArrives, Process, Known
  <2> QED
    BY <2>1, LibraryGrows
<1>3. CASE LibTimerFires
  BY <1>3, WriteKeeps DEF LibTimerFires
<1>4. CASE TimerFires \/ \E t \in Timers : OrphanFires(t)
  BY <1>4, DumpTimerKeeps
<1>5. ASSUME NEW r \in Requests,
             MenuShown(r) \/ NotShown(r) \/ SelectShown(r) \/ StartDump(r)
      PROVE  LibraryInv'
  <2>1. UNCHANGED <<library, fileVars>>
    BY <1>5 DEF MenuShown, NotShown, SelectShown, StartDump, libraryVars
  <2> QED
    BY <2>1, LibraryUntouched
<1>6. CASE Restart
  BY <1>6, RestartKeeps
<1>7. CASE UNCHANGED vars
  BY <1>7, LibraryUntouched DEF vars, libraryVars
<1> QED
  BY <1>1, <1>2, <1>3, <1>4, <1>5, <1>6, <1>7 DEF Next, Progress

-----------------------------------------------------------------------------
(* The dump of all programs *)

Stages == {"none", "menu", "select", "dump", "answered", "hung", "gone"}

DumpTypeOK ==
    /\ stage \in [Requests -> Stages]
    /\ answer \in [Requests -> SUBSET Numbered]
    /\ callback \in Requests \cup {None}
    /\ timer \in Timers \cup {None}
    /\ orphans \subseteq Timers
    /\ bank \subseteq Numbered
    /\ sending \subseteq Numbered
    /\ singles \in Nat
    /\ rivals \in BOOLEAN

\* At most one dump is under way; the device sends nothing before its buttons
\* are pressed; then the callback is its own, and what has come and what is to
\* come are all programs, or none.
OneDump ==
    /\ \A q, r \in Requests : UnderWay(q) /\ UnderWay(r) => q = r
    /\ \A r \in Requests : stage[r] \in {"menu", "select"} => sending = {}
    /\ \A r \in Requests : stage[r] = "dump" =>
          callback = r /\ bank \cup sending \in {{}, Numbered}
    /\ \A r \in Requests : stage[r] = "answered" => answer[r] \in {{}, Numbered}

DumpInv == DumpTypeOK /\ (singles = 0 /\ ~rivals => OneDump)

LEMMA DumpInit == Init => DumpInv
<1> SUFFICES ASSUME Init
             PROVE  DumpInv
  OBVIOUS
<1> QED
  BY LibraryAssumption
     DEF Init, DumpInv, DumpTypeOK, OneDump, Stages, UnderWay

LEMMA DumpUntouched ==
    ASSUME DumpInv,
           UNCHANGED <<dumpVars, callback, bank, timer, orphans, sending, singles>>
    PROVE  DumpInv'
BY DEF DumpInv, DumpTypeOK, OneDump, UnderWay, dumpVars

\* A program moves from what is to come into the bank.
LEMMA NextArrivesKeeps ==
    ASSUME DumpInv, NEW p \in Programs, NextArrives(p)
    PROVE  DumpInv'
<1> USE DEF DumpInv, DumpTypeOK
<1>1. /\ p \in sending /\ sending' = sending \ {p}
      /\ UNCHANGED <<stage, already, answer, rivals, singles, callback, orphans>>
      /\ callback # None => bank' = bank \cup ({p} \cap Numbered)
      /\ callback = None => bank' = bank
      /\ timer' \in {End, None}
  BY DEF NextArrives, Process, BankWith, dumpVars
<1>2. p \in Numbered
  BY <1>1
<1>3. DumpTypeOK'
  BY <1>1, <1>2 DEF Timers
<1>4. ASSUME singles = 0, ~rivals
      PROVE  OneDump'
  <2>1. OneDump
    BY <1>4
  <2>2. \A r \in Requests : stage[r] = "dump" =>
           callback = r /\ bank' \cup sending' \in {{}, Numbered}
    <3> SUFFICES ASSUME NEW r \in Requests, stage[r] = "dump"
                 PROVE  callback = r /\ bank' \cup sending' \in {{}, Numbered}
      OBVIOUS
    <3>1. callback = r /\ bank \cup sending \in {{}, Numbered}
      BY <2>1 DEF OneDump
    <3>2. bank' = bank \cup {p}
      BY <1>1, <1>2, <3>1, LibraryAssumption
    <3>3. bank' \cup sending' = bank \cup sending
      BY <1>1, <3>2
    <3> QED
      BY <3>1, <3>3
  <2>3. \A r \in Requests : stage[r] \in {"menu", "select"} => sending' = {}
    BY <1>1, <2>1 DEF OneDump
  <2>4. /\ \A q, r \in Requests : (UnderWay(q) /\ UnderWay(r))' => q = r
        /\ \A r \in Requests : stage[r] = "answered" => answer[r] \in {{}, Numbered}
    BY <1>1, <2>1 DEF OneDump, UnderWay
  <2> QED
    BY <1>1, <2>2, <2>3, <2>4 DEF OneDump
<1> QED
  BY <1>1, <1>3, <1>4

\* A program that is dumped alone.
LEMMA SingleArrivesKeeps ==
    ASSUME DumpInv, NEW p \in Programs, SingleArrives(p)
    PROVE  DumpInv'
<1> USE DEF DumpInv, DumpTypeOK
<1>1. /\ singles' = singles + 1
      /\ UNCHANGED <<stage, already, answer, rivals, sending, callback, orphans>>
      /\ bank' \in {bank, bank \cup ({p} \cap Numbered)}
      /\ timer' \in {End, None}
  BY DEF SingleArrives, Process, BankWith, dumpVars
<1>2. bank' \subseteq Numbered /\ singles' \in Nat /\ singles' # 0
  BY <1>1
<1> QED
  BY <1>1, <1>2 DEF Timers

\* A timer of the dump finds that all of it has come, or that nothing has.
LEMMA RespondKeeps ==
    ASSUME DumpInv, NEW t \in Timers, Fires(t), orphans' \subseteq orphans,
           timer' \in {timer, None}
    PROVE  DumpInv'
<1> USE DEF DumpInv, DumpTypeOK
<1>1. /\ sending = {}
      /\ UNCHANGED <<callback, bank, sending, singles>>
      /\ \E c : Respond(c)
  BY DEF Fires
<1>2. PICK c : Respond(c)
  BY <1>1
<1>3. CASE stage[c] # "dump"
  <2>1. UNCHANGED <<stage, already, answer, rivals>>
    BY <1>2, <1>3 DEF Respond, dumpVars
  <2> QED
    BY <1>1, <2>1 DEF OneDump, UnderWay
<1>4. CASE stage[c] = "dump"
  <2>1. /\ answer' = [answer EXCEPT ![c] = bank]
        /\ stage' = [stage EXCEPT ![c] = "answered"]
        /\ rivals' = rivals
    BY <1>2, <1>4 DEF Respond
  <2>2. DumpTypeOK'
    BY <1>1, <2>1 DEF Stages
  <2>3. ASSUME singles = 0, ~rivals
        PROVE  OneDump'
    <3>1. OneDump
      BY <2>3
    <3>2. \A r \in Requests :
             IF r = c THEN stage'[r] = "answered" /\ answer'[r] = bank
             ELSE stage'[r] = stage[r] /\ answer'[r] = answer[r]
      BY <2>1
    <3>3. c \in Requests => bank \in {{}, Numbered}
      BY <1>1, <1>4, <3>1 DEF OneDump
    <3>4. /\ \A q, r \in Requests : (UnderWay(q) /\ UnderWay(r))' => q = r
          /\ \A r \in Requests : stage'[r] = "dump" =>
                callback' = r /\ bank' \cup sending' \in {{}, Numbered}
      BY <1>1, <3>1, <3>2 DEF OneDump, UnderWay
    <3>5. \A r \in Requests : stage'[r] = "answered" =>
             answer'[r] \in {{}, Numbered}
      BY <3>1, <3>2, <3>3 DEF OneDump
    <3> QED
      BY <1>1, <3>4, <3>5 DEF OneDump
  <2> QED
    BY <1>1, <2>1, <2>2, <2>3
<1> QED
  BY <1>3, <1>4

\* A request that comes while another dump goes on is its rival.
LEMMA StartDumpKeeps ==
    ASSUME DumpInv, NEW r \in Requests, StartDump(r)
    PROVE  DumpInv'
<1> USE DEF DumpInv, DumpTypeOK
<1>1. /\ stage[r] = "none" /\ stage' = [stage EXCEPT ![r] = "menu"]
      /\ rivals' = (\/ rivals \/ sending # {}
                    \/ \E q \in Requests : UnderWay(q))
      /\ UNCHANGED <<callback, bank, timer, orphans, answer, sending, singles>>
  BY DEF StartDump, libraryVars
<1>2. DumpTypeOK'
  BY <1>1 DEF Stages
<1>3. ASSUME singles = 0, ~rivals'
      PROVE  OneDump'
  <2>1. OneDump /\ sending = {} /\ \A q \in Requests : ~UnderWay(q)
    BY <1>1, <1>3
  <2>2. \A q \in Requests :
           IF q = r THEN stage'[q] = "menu" ELSE stage'[q] = stage[q]
    BY <1>1
  <2>3. \A q \in Requests : stage'[q] \in {"menu", "select", "dump"} => q = r
    BY <2>1, <2>2 DEF UnderWay
  <2>4. \A q \in Requests : stage'[q] = "answered" => answer[q] \in {{}, Numbered}
    BY <2>1, <2>2 DEF OneDump
  <2> QED
    BY <1>1, <2>1, <2>2, <2>3, <2>4 DEF OneDump, UnderWay
<1> QED
  BY <1>1, <1>2, <1>3

\* The buttons are pressed: the callback, its timer and the bank are those of
\* this dump, and the device sends all programs or none.
LEMMA SelectShownKeeps ==
    ASSUME DumpInv, NEW r \in Requests, SelectShown(r)
    PROVE  DumpInv'
<1> USE DEF DumpInv, DumpTypeOK
<1>1. /\ stage[r] = "select" /\ stage' = [stage EXCEPT ![r] = "dump"]
      /\ callback' = r /\ bank' = {} /\ timer' = Nothing(r)
      /\ orphans' = orphans \cup ({timer} \ {None})
      /\ sending' \in {sending, Numbered}
      /\ UNCHANGED <<answer, singles, rivals>>
  BY DEF SelectShown
<1>2. DumpTypeOK'
  <2>1. timer' \in Timers /\ orphans' \subseteq Timers
    BY <1>1 DEF Timers
  <2> QED
    BY <1>1, <2>1 DEF Stages
<1>3. ASSUME singles = 0, ~rivals
      PROVE  OneDump'
  <2>1. OneDump /\ sending = {}
    BY <1>1, <1>3 DEF OneDump
  <2>2. \A q \in Requests :
           IF q = r THEN stage'[q] = "dump" ELSE stage'[q] = stage[q]
    BY <1>1
  <2>3. \A q \in Requests : stage'[q] \in {"menu", "select", "dump"} => q = r
    BY <1>1, <2>1, <2>2 DEF OneDump, UnderWay
  <2>4. bank' \cup sending' \in {{}, Numbered}
    BY <1>1, <2>1
  <2>5. \A q \in Requests : stage'[q] = "answered" => answer[q] \in {{}, Numbered}
    BY <2>1, <2>2 DEF OneDump
  <2> QED
    BY <1>1, <2>2, <2>3, <2>4, <2>5 DEF OneDump, UnderWay
<1> QED
  BY <1>1, <1>2, <1>3

\* A display that is read: the dump is nearer to its buttons, or not.
LEMMA DisplayKeeps ==
    ASSUME DumpInv, NEW r \in Requests, MenuShown(r) \/ NotShown(r)
    PROVE  DumpInv'
<1> USE DEF DumpInv, DumpTypeOK
<1>1. PICK s \in {"menu", "select", "hung"} : stage' = [stage EXCEPT ![r] = s]
  BY DEF MenuShown, NotShown
<1>2. /\ stage[r] \in {"menu", "select"}
      /\ UNCHANGED <<callback, bank, timer, orphans, answer, sending, singles,
                     rivals>>
  BY DEF MenuShown, NotShown, libraryVars
<1>3. DumpTypeOK'
  BY <1>1, <1>2 DEF Stages
<1>4. ASSUME singles = 0, ~rivals
      PROVE  OneDump'
  <2>1. OneDump
    BY <1>4
  <2>2. \A q \in Requests : IF q = r THEN stage'[q] = s ELSE stage'[q] = stage[q]
    BY <1>1
  <2> QED
    BY <1>2, <2>1, <2>2 DEF OneDump, UnderWay
<1> QED
  BY <1>2, <1>3, <1>4

\* No dump is under way after a restart; the device may still be sending.
LEMMA RestartEndsDumps ==
    ASSUME DumpInv, Restart
    PROVE  DumpInv'
<1> USE DEF DumpInv, DumpTypeOK
<1>1. /\ callback' = None /\ bank' = {} /\ timer' = None /\ orphans' = {}
      /\ stage' = [r \in Requests |-> IF UnderWay(r) THEN "gone" ELSE stage[r]]
      /\ UNCHANGED <<answer, rivals, sending, singles>>
  BY DEF Restart
<1>2. \A r \in Requests : stage'[r] = IF UnderWay(r) THEN "gone" ELSE stage[r]
  BY <1>1
<1>3. DumpTypeOK'
  BY <1>1 DEF Stages
<1>4. OneDump => OneDump'
  BY <1>1, <1>2 DEF OneDump, UnderWay
<1> QED
  BY <1>1, <1>3, <1>4

LEMMA DumpStepKeeps == DumpInv /\ [Next]_vars => DumpInv'
<1> SUFFICES ASSUME DumpInv, [Next]_vars
             PROVE  DumpInv'
  OBVIOUS
<1>1. ASSUME NEW i \in DOMAIN writes, WriteOpens(i) \/ WriteEnds(i)
      PROVE  DumpInv'
  BY <1>1, DumpUntouched DEF WriteOpens, WriteEnds, libraryVars
<1>2. CASE LibTimerFires \/ UNCHANGED vars
  BY <1>2, DumpUntouched DEF LibTimerFires, vars, libraryVars
<1>3. CASE TimerFires
  <2>1. timer \in Timers
    BY <1>3 DEF TimerFires, DumpInv, DumpTypeOK
  <2> QED
    BY <1>3, <2>1, RespondKeeps DEF TimerFires
<1>4. ASSUME NEW t \in Timers, OrphanFires(t)
      PROVE  DumpInv'
  BY <1>4, RespondKeeps DEF OrphanFires
<1> QED
  BY <1>1, <1>2, <1>3, <1>4, NextArrivesKeeps, SingleArrivesKeeps, StartDumpKeeps,
     SelectShownKeeps, DisplayKeeps, RestartEndsDumps DEF Next, Progress

-----------------------------------------------------------------------------
(* The theorems *)

\* What holds of the library, the file and the writes, by induction.
THEOREM LibraryInvariance == Spec => []LibraryInv
<1> QED
  BY LibraryInit, LibraryStepKeeps, PTL DEF Spec

\* A program that has been in library.mpx is in the library after every
\* restart, unless a restart cut a write or two writes met.
THEOREM LibraryKept == Spec => []NothingLost
<1>1. LibraryInv => NothingLost
  BY DEF LibraryInv, OneWrite, NothingLost
<1> QED
  BY <1>1, LibraryInvariance, PTL

\* What holds of the dump of all programs, by induction.
THEOREM DumpInvariance == Spec => []DumpInv
<1> QED
  BY DumpInit, DumpStepKeeps, PTL DEF Spec

\* A dump of all programs that had no rival and met no single program is
\* answered with all that the device sent for it (dataMessage_process,
\* main.js:375-385), whichever of its timers answers, orphans included.
THEOREM DumpAnsweredWhole == Spec => []AnswerWhole
<1>1. DumpInv => AnswerWhole
  BY DEF DumpInv, OneDump, AnswerWhole
<1> QED
  BY <1>1, DumpInvariance, PTL
=============================================================================
