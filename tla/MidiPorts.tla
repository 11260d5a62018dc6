------------------------------ MODULE MidiPorts ------------------------------
(***************************************************************************)
(* The choice of the MIDI interfaces: midi_init of lexicon.js opens a port *)
(* for input and one for output at the start, /midiin and /midiout of      *)
(* main.js close it and open another one, and what was chosen is saved.    *)
(*                                                                         *)
(* The input object of node_midi.cc counts its references: openPort adds   *)
(* one, closePort takes one away, and an assertion ends the program when   *)
(* there is none.  connected_ of RtMidi is set by openPort and cleared by  *)
(* closePort; an interface that is unplugged ends the subscription and     *)
(* leaves connected_ as it is.                                             *)
(*                                                                         *)
(* An interface has a port for input and one for output, and its name      *)
(* tells it from the others.  Opening a port that is there succeeds.       *)
(***************************************************************************)
EXTENDS Naturals, SequencesExt

CONSTANTS
    Names,      \* the MIDI interfaces
    NoName,     \* '': none has been chosen
    None,       \* no port is open
    Input,      \* the two ways
    Output,
    MaxPlugs,   \* bound: interfaces plugged in or out
    MaxStarts   \* bound: starts of the program

ASSUME MidiPortsAssumption ==
    /\ NoName \notin Names
    /\ None \notin Names
    /\ Input # Output

VARIABLES
    ports,     \* the interfaces that are plugged in, as they are numbered
    prefs,     \* way -> the name saved in mpxg2edit.ini
    up,        \* the program: "off", "on" or "aborted"
    name,      \* way -> g2.MIDI_INPUT, g2.MIDI_OUTPUT
    connected, \* way -> connected_
    open,      \* way -> the interface messages come from or go to
    refs,      \* refs_ of the input object
    seen,      \* the interfaces a page may show
    chosen,    \* way -> the last name that was answered '1'
    plugs,     \* interfaces plugged in or out
    starts     \* starts of the program

portVars == <<connected, open, refs>>
vars == <<ports, prefs, up, name, portVars, seen, chosen, plugs,
          starts>>

Ways == {Input, Output}

-----------------------------------------------------------------------------

TypeOK ==
    /\ ports \in Seq(Names)
    /\ prefs \in [Ways -> Names \cup {NoName}]
    /\ up \in {"off", "on", "aborted"}
    /\ name \in [Ways -> Names \cup {NoName}]
    /\ connected \in [Ways -> BOOLEAN]
    /\ open \in [Ways -> Names \cup {None}]
    /\ refs \in Nat
    /\ seen \subseteq Names
    /\ chosen \in [Ways -> Names \cup {NoName}]

Init ==
    /\ ports \in { s \in SeqOf(Names, 2) : IsInjective(s) }
    /\ prefs = [w \in Ways |-> NoName]
    /\ up = "off"
    /\ name = [w \in Ways |-> NoName]
    /\ connected = [w \in Ways |-> FALSE]
    /\ open = [w \in Ways |-> None]
    /\ refs = 0
    /\ seen = ToSet(ports)
    /\ chosen = [w \in Ways |-> NoName]
    /\ plugs = 0
    /\ starts = 0

-----------------------------------------------------------------------------

\* getPortByName: the port of that name, or the first one.
Named(n) == IF n \in ToSet(ports) THEN n ELSE Head(ports)

\* openPort(getPortByName(n)), or a RangeError if there is no port at all.
Opens == ports # <<>>

OpenPort(c, o, r, w, n) ==
    IF Opens
    THEN /\ connected' = [c EXCEPT ![w] = TRUE]
         /\ open' = [o EXCEPT ![w] = Named(n)]
         /\ refs' = r + IF w = Input THEN 1 ELSE 0
    ELSE /\ connected' = c
         /\ open' = o
         /\ refs' = r

\* init of main.js and midi_init: the names that were saved are opened.
Start ==
    /\ up = "off"
    /\ starts < MaxStarts
    /\ starts' = starts + 1
    /\ up' = "on"
    /\ name' = prefs
    /\ connected' = [w \in Ways |-> Opens]
    /\ open' = [w \in Ways |-> IF Opens THEN Named(prefs[w]) ELSE None]
    /\ refs' = IF Opens THEN 1 ELSE 0
    /\ UNCHANGED <<ports, prefs, seen, chosen, plugs>>

\* Mutant: closePort does not give the reference up.
Unreferenced_Not(r, w) == r

\* Unref
Unreferenced(r, w) == IF w = Input THEN r - 1 ELSE r

\* assert(!handle_.IsWeak()), assert(refs_ > 0)
Asserted(w) == w = Input => refs > 0

\* Mutant: the choice is not saved.
Saved_Not(w, n) == prefs

\* prefs_save
Saved(w, n) == [prefs EXCEPT ![w] = n]

\* GET /midiin or /midiout with another name than the one in use.
Select(w, n) ==
    /\ up = "on"
    /\ n \in seen \ {name[w]}
    /\ IF Asserted(w)
       THEN /\ OpenPort([connected EXCEPT ![w] = FALSE],
                        [open EXCEPT ![w] = None], Unreferenced(refs, w), w, n)
            /\ IF Opens
               THEN /\ name' = [name EXCEPT ![w] = n]
                    /\ prefs' = Saved(w, n)
                    /\ chosen' = [chosen EXCEPT ![w] = n]
               ELSE UNCHANGED <<name, prefs, chosen>>
            /\ UNCHANGED up
       ELSE /\ up' = "aborted"
            /\ UNCHANGED <<name, prefs, chosen, portVars>>
    /\ UNCHANGED <<ports, seen, plugs, starts>>

\* The name in use: '1', and nothing is opened.
SelectSame(w) ==
    /\ up = "on"
    /\ name[w] # NoName
    /\ chosen' = [chosen EXCEPT ![w] = name[w]]
    /\ UNCHANGED <<ports, prefs, up, name, portVars, seen, plugs, starts>>

\* The program ends.
Stop ==
    /\ up = "on"
    /\ up' = "off"
    /\ connected' = [w \in Ways |-> FALSE]
    /\ open' = [w \in Ways |-> None]
    /\ refs' = 0
    /\ UNCHANGED <<ports, prefs, name, seen, chosen, plugs, starts>>

-----------------------------------------------------------------------------
(* The interfaces: not part of the program *)

\* An interface gets a number after the others or before them.
Plug(n) ==
    /\ plugs < MaxPlugs
    /\ n \notin ToSet(ports)
    /\ plugs' = plugs + 1
    /\ seen' = seen \cup {n}
    /\ ports' \in {Append(ports, n), <<n>> \o ports}
    /\ UNCHANGED <<prefs, up, name, portVars, chosen, starts>>

Unplug(n) ==
    /\ plugs < MaxPlugs
    /\ plugs' = plugs + 1
    /\ \E i \in DOMAIN ports : ports[i] = n /\ ports' = RemoveAt(ports, i)
    /\ open' = [w \in Ways |-> IF open[w] = n THEN None ELSE open[w]]
    /\ UNCHANGED <<prefs, up, name, connected, refs, seen, chosen, starts>>

-----------------------------------------------------------------------------

Next ==
    \/ Start \/ Stop
    \/ \E w \in Ways : SelectSame(w) \/ \E n \in Names : Select(w, n)
    \/ \E n \in Names : Plug(n) \/ Unplug(n)

Spec == Init /\ [][Next]_vars

-----------------------------------------------------------------------------

\* The input object has one reference while a port is open for input and none
\* otherwise, however often another one is chosen (node_midi.cc lines 315 and
\* 340).
OneReference ==
    up = "on" => (refs = 1 <=> connected[Input]) /\ refs \in {0, 1}

\* CHANGELOG line 12, "Save MIDI configuration": at a start the interface
\* that was chosen last is opened if it is there, and any if it is not.
ChosenAfterStart ==
    [][Start => \A w \in Ways :
          /\ chosen[w] \in ToSet(ports) => open'[w] = chosen[w]
          /\ ports # <<>> => open'[w] # None]_vars
=============================================================================
