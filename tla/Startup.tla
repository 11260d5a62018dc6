------------------------------- MODULE Startup -------------------------------
(***************************************************************************)
(* From init of lexicon.js to its callback: the configuration file, the    *)
(* handshake with the MPX G2, and config_init, which compares the firmware *)
(* of the file with the one of the device and reads another file or builds *)
(* the configuration from the device: the descriptions of its object types *)
(* and then its control tree.                                              *)
(*                                                                         *)
(* controlTree_loop walks the tree depth first: it asks the device for the *)
(* type of the node at a path, and the description of the type says how    *)
(* many children the node has.  A description is kept as the firmware      *)
(* version it is of.                                                       *)
(*                                                                         *)
(* A message may be lost, and the device may answer a request after its    *)
(* timer has repeated it: it then answers twice, and since the parsers of  *)
(* answers do not look whether they are for this node or type, the second  *)
(* answer is taken for the answer to the next request.  main.js leaves     *)
(* DEBUG at 9, so that a handshake that was answered is not repeated.      *)
(*                                                                         *)
(* The program may end at any time and be started again: the file that it  *)
(* was writing is then empty, cut or whole.  It also ends when it reads a  *)
(* cut file, since JSON.parse throws and nobody catches.                   *)
(***************************************************************************)
EXTENDS Naturals, FiniteSets, SequencesExt

CONSTANTS
    Versions,      \* firmware versions
    None,          \* no version: not there, or an empty file
    Torn,          \* the beginning of a configuration
    Expected,      \* MAJOR_VERSION and MINOR_VERSION at first, 1.10
    NumObjects,    \* object types of a device
    Children,      \* version, object type -> children of a node of the type
    Tree,          \* version -> its control tree: path -> object type
    SystemRetries, \* 10: retries of systemConfiguration_request
    Retries,       \* 2: those of the other requests
    MaxLost,       \* bound: messages lost
    MaxSlow,       \* bound: answers that come after the timer
    MaxBusy,       \* bound: handshakes answered otherwise
    MaxRestarts    \* bound: restarts

Objects == 1..NumObjects

\* A node of the tree has a parent, but for the root, and it is there if its
\* parent has so many children.
ASSUME StartupAssumption ==
    /\ {None, Torn} \cap Versions = {}
    /\ Expected \in Versions
    /\ NumObjects \in Nat \ {0}
    /\ SystemRetries \in Nat
    /\ Retries \in Nat
    /\ Children \in [Versions -> [Objects -> Nat]]
    /\ \A v \in Versions :
          /\ DOMAIN Tree[v] \subseteq Seq(Nat)
          /\ IsFiniteSet(DOMAIN Tree[v])
          /\ Tree[v] \in [DOMAIN Tree[v] -> Objects]
          /\ <<>> \in DOMAIN Tree[v]
          /\ \A p \in DOMAIN Tree[v] :
                /\ p # <<>> => Front(p) \in DOMAIN Tree[v]
                /\ { q \in DOMAIN Tree[v] : q # <<>> /\ Front(q) = p }
                   = { Append(p, i) : i \in 0..(Children[v][Tree[v][p]] - 1) }

VARIABLES
    device,   \* the firmware of the device
    files,    \* version -> the configuration in its file, None or Torn
    config,   \* self.config
    ready,    \* config.ready
    alive,    \* self.alive
    building, \* buildingControlTree
    phase,    \* what init is at
    next,     \* the object type being asked for
    path,     \* levels[0..numLevels-1]: the node being asked for
    stack,    \* controlTreeStack: for each level, its last child
    link,     \* the request: "sent", "answered", "busy", "lost" or "idle"
    retry,    \* its retries
    heard,    \* the object type that was answered
    ahead,    \* answers that come before the one to the request
    inits,    \* calls of config_init
    lost,     \* messages lost
    slow,     \* answers that came after the timer
    busy,     \* handshakes answered otherwise
    restarts  \* restarts

configVars == <<files, config, ready, alive, building>>
walkVars   == <<next, path, stack>>
linkVars   == <<link, retry, heard, ahead>>
countVars  == <<lost, slow, busy, restarts>>
vars == <<device, configVars, phase, walkVars, linkVars, inits, countVars>>

\* What a configuration says once it was built, or read from a file.
Of(v) == [objects |-> [o \in Objects |-> v],
          nodes   |-> Tree[v],
          count   |-> Cardinality(DOMAIN Tree[v])]

Empty == [objects |-> [o \in Objects |-> None], nodes |-> << >>, count |-> 0]

-----------------------------------------------------------------------------

\* A file for the expected version comes with the program.
Init ==
    /\ device \in Versions
    /\ files \in [Versions -> {None} \cup { Of(v) : v \in Versions }]
    /\ \A v \in Versions : files[v] \in {None, Of(v)}
    /\ config = Empty
    /\ ready = FALSE
    /\ alive = FALSE
    /\ building = FALSE
    /\ phase = "read"
    /\ next = 1
    /\ path = <<>>
    /\ stack = <<>>
    /\ link = "idle"
    /\ retry = 0
    /\ heard = 1
    /\ ahead = <<>>
    /\ inits = 0
    /\ lost = 0
    /\ slow = 0
    /\ busy = 0
    /\ restarts = 0

-----------------------------------------------------------------------------
(* The file and the handshake *)

\* A request is sent for the first time, with n retries.
Ask(n) == link' = "sent" /\ retry' = n

\* init: read the file, if there is one; then midi_init and _handshake.
ReadFile ==
    /\ phase = "read"
    /\ files[Expected] # Torn
    /\ IF files[Expected] # None
       THEN config' = files[Expected] /\ ready' = TRUE
       ELSE UNCHANGED <<config, ready>>
    /\ phase' = "handshake"
    /\ Ask(0)
    /\ UNCHANGED <<device, files, alive, building, walkVars, heard, ahead,
                   inits, countVars>>

\* config_read: a text that is not JSON.
ReadTorn ==
    /\ \/ phase = "read" /\ files[Expected] = Torn
       \/ phase = "other file" /\ files[device] = Torn
    /\ phase' = "dead"
    /\ UNCHANGED <<device, configVars, walkVars, linkVars, inits, countVars>>

\* The device says that it is there: config_init asks for its system
\* configuration.
Alive ==
    /\ phase = "handshake"
    /\ link = "answered"
    /\ alive' = TRUE
    /\ phase' = "system"
    /\ inits' = inits + 1
    /\ Ask(SystemRetries)
    /\ UNCHANGED <<device, files, config, ready, building, walkVars, heard,
                   ahead, countVars>>

\* Mutant: no timer is set.
Rehandshake_Never == link' = "idle" /\ UNCHANGED retry

\* After 10 s.
Rehandshake == Ask(0)

\* It says something else: another handshake.
NotAlive ==
    /\ phase = "handshake"
    /\ link = "busy"
    /\ Rehandshake
    /\ UNCHANGED <<device, configVars, phase, walkVars, heard, ahead, inits,
                   countVars>>

-----------------------------------------------------------------------------
(* The descriptions of the object types *)

\* controlTree_build: the walk starts at the root.
BuildTree(c) ==
    /\ config' = [c EXCEPT !.count = 0]
    /\ phase' = "tree"
    /\ building' = TRUE
    /\ path' = <<>>
    /\ stack' = <<>>
    /\ Ask(Retries)
    /\ ahead' = <<>>
    /\ UNCHANGED next

\* The callback of objectDescription_build for type o: the next type after a
\* timer of 0 ms, or the tree.
DescribeNext(c, o) ==
    IF o < NumObjects
    THEN /\ config' = c
         /\ phase' = "objects"
         /\ next' = o + 1
         /\ link' = "idle"
         /\ UNCHANGED <<building, path, stack, retry, ahead>>
    ELSE BuildTree(c)

\* objectDescription_build: a type that self.config knows is not asked for.
Describe(o) ==
    IF config.objects[o] = None
    THEN /\ phase' = "objects"
         /\ next' = o
         /\ Ask(Retries)
         /\ UNCHANGED <<config, building, path, stack, ahead>>
    ELSE DescribeNext(config, o)

\* objectDescription_parse: the answer says of which type it is.
Described(c, o) == [c EXCEPT !.objects[o] = device]

\* config_build
Build == Describe(1)

DescribeOne ==
    /\ phase = "objects"
    /\ link = "idle"
    /\ Describe(next)
    /\ UNCHANGED <<device, files, ready, alive, heard, inits, countVars>>

ObjectDescription ==
    /\ phase = "objects"
    /\ link = "answered"
    /\ DescribeNext(Described(config, heard), next)
    /\ UNCHANGED <<device, files, ready, alive, heard, inits, countVars>>

-----------------------------------------------------------------------------
(* Which file? *)

\* Mutant: the file is taken for the one of the device.
SameVersion_Any == TRUE

SameVersion == device = Expected

\* The system configuration is there: is the file the right one?
SystemConfiguration ==
    /\ phase = "system"
    /\ link = "answered"
    /\ IF ~ready
       THEN Build
       ELSE /\ phase' = IF SameVersion THEN "done" ELSE "other file"
            /\ link' = "idle"
            /\ UNCHANGED <<config, building, walkVars, retry, ahead>>
    /\ UNCHANGED <<device, files, ready, alive, heard, inits, countVars>>

OtherFile ==
    /\ phase = "other file"
    /\ files[device] # Torn
    /\ IF files[device] = None
       THEN Build
       ELSE /\ config' = files[device]
            /\ phase' = "done"
            /\ UNCHANGED <<building, walkVars, link, retry, ahead>>
    /\ UNCHANGED <<device, files, ready, alive, heard, inits, countVars>>

-----------------------------------------------------------------------------
(* The control tree *)

\* controlTree_loop, from its timer of 0 ms.
AskType ==
    /\ phase = "tree"
    /\ link = "idle"
    /\ Ask(Retries)
    /\ UNCHANGED <<device, configVars, phase, walkVars, heard, ahead, inits,
                   countVars>>

\* objectTypeId_parse: the type of a node, if it has none yet.
Typed(c, p, o) ==
    IF p \in DOMAIN c.nodes THEN c
    ELSE [c EXCEPT !.nodes = [q \in DOMAIN @ \cup {p} |-> IF q = p THEN o ELSE @[q]]]

\* Mutant: the last child of each level is left out.
Unfinished_Short(p, s) == { d \in 1..Len(s) : p[d] + 1 < s[d] }

\* The levels that have a child after the one on the path.
Unfinished(p, s) == { d \in 1..Len(s) : p[d] < s[d] }

\* controlTree_add_callback: down to the first child, or to the next child of
\* the deepest level that has one, or the tree is complete.
Visit(c, o) ==
    LET children == Children[c.objects[o]][o]
        deepest  == Max(Unfinished(path, stack))
    IN /\ config' = [c EXCEPT !.count = @ + 1]
       /\ link' = "idle"
       /\ \/ /\ children > 0
             /\ path' = Append(path, 0)
             /\ stack' = Append(stack, children - 1)
             /\ phase' = "tree"
             /\ UNCHANGED building
          \/ /\ children = 0
             /\ Unfinished(path, stack) # {}
             /\ path' = [SubSeq(path, 1, deepest) EXCEPT ![deepest] = @ + 1]
             /\ stack' = SubSeq(stack, 1, deepest)
             /\ phase' = "tree"
             /\ UNCHANGED building
          \/ /\ children = 0
             /\ Unfinished(path, stack) = {}
             /\ path' = <<>>
             /\ stack' = <<>>
             /\ phase' = "save"
             /\ building' = FALSE

\* The device has answered the type of a node, or what is taken for it.
ObjectType ==
    /\ phase = "tree"
    /\ link = "answered"
    /\ LET c == Typed(config, path, heard)
       IN IF c.objects[heard] = None
          THEN /\ config' = c
               /\ phase' = "node"
               /\ next' = heard
               /\ Ask(Retries)
               /\ ahead' = <<>>
               /\ UNCHANGED <<building, path, stack>>
          ELSE Visit(c, heard) /\ UNCHANGED <<next, retry, ahead>>
    /\ UNCHANGED <<device, files, ready, alive, heard, inits, countVars>>

\* And its description, when objectDescription_build has missed it.
NodeDescription ==
    /\ phase = "node"
    /\ link = "answered"
    /\ Visit(Described(config, heard), heard)
    /\ UNCHANGED <<device, files, ready, alive, next, retry, heard, ahead, inits,
                   countVars>>

\* config_save: the file is emptied, unless it cannot be opened.
Save ==
    /\ phase = "save"
    /\ \/ files' = [files EXCEPT ![device] = None] /\ phase' = "saving"
       \/ phase' = "failed" /\ UNCHANGED files
    /\ UNCHANGED <<device, config, ready, alive, building, walkVars, linkVars,
                   inits, countVars>>

\* It is written, and the callback of init called, with an error if it could
\* not be written to its end.
ConfigSaved ==
    /\ phase = "saving"
    /\ \/ files' = [files EXCEPT ![device] = config] /\ phase' = "done"
       \/ /\ \E cut \in {None, Torn} : files' = [files EXCEPT ![device] = cut]
          /\ phase' = "failed"
    /\ UNCHANGED <<device, config, ready, alive, building, walkVars, linkVars,
                   inits, countVars>>

-----------------------------------------------------------------------------
(* The device, the MIDI link and the timers *)

\* The device does not answer for a node that it has not.
Own == IF phase # "tree" THEN <<next>>
       ELSE IF path \in DOMAIN Tree[device] THEN <<Tree[device][path]>> ELSE <<>>

Due == ahead \o IF link = "sent" THEN Own ELSE <<>>

Answer ==
    /\ link \in {"sent", "lost"}
    /\ Due # <<>>
    /\ heard' = Head(Due)
    /\ ahead' = Tail(Due)
    /\ link' = "answered"
    /\ UNCHANGED <<device, configVars, phase, walkVars, retry, inits, countVars>>

\* No request is waiting: no hook.
Unheard ==
    /\ link = "idle"
    /\ ahead # <<>>
    /\ ahead' = Tail(ahead)
    /\ UNCHANGED <<device, configVars, phase, walkVars, link, retry, heard, inits,
                   countVars>>

AnswerBusy ==
    /\ link = "sent"
    /\ phase = "handshake"
    /\ busy < MaxBusy
    /\ busy' = busy + 1
    /\ link' = "busy"
    /\ UNCHANGED <<device, configVars, phase, walkVars, retry, heard, ahead,
                   inits, lost, slow, restarts>>

Lose ==
    /\ link = "sent"
    /\ lost < MaxLost
    /\ lost' = lost + 1
    /\ link' = "lost"
    /\ UNCHANGED <<device, configVars, phase, walkVars, retry, heard, ahead,
                   inits, slow, busy, restarts>>

\* The handshake is repeated for ever, a request while retries are left.
Again == phase = "handshake" \/ retry > 0

Resend ==
    /\ link' = "sent"
    /\ retry' = IF phase = "handshake" THEN retry ELSE retry - 1

\* The timer of a request that nothing answers.
Timeout ==
    /\ \/ link = "lost"
       \/ link = "sent" /\ Due = <<>>
    /\ \/ /\ Again
          /\ Resend
          /\ UNCHANGED phase
       \/ /\ ~Again
          /\ Due = <<>>
          /\ phase' = "stuck"
          /\ link' = "idle"
          /\ UNCHANGED retry
    /\ UNCHANGED <<device, configVars, walkVars, heard, ahead, inits, countVars>>

\* The timer of a request whose answer is still to come: both are answered.
EarlyTimeout ==
    /\ link = "sent"
    /\ phase \in {"objects", "tree", "node"}
    /\ Own # <<>>
    /\ retry > 0
    /\ slow < MaxSlow
    /\ slow' = slow + 1
    /\ Resend
    /\ ahead' = ahead \o Own
    /\ UNCHANGED <<device, configVars, phase, walkVars, heard, inits, lost, busy,
                   restarts>>

\* The program ends, and is started again.
Restart ==
    /\ restarts < MaxRestarts
    /\ restarts' = restarts + 1
    /\ IF phase = "saving"
       THEN \E found \in {None, Torn, config} :
               files' = [files EXCEPT ![device] = found]
       ELSE UNCHANGED files
    /\ config' = Empty
    /\ ready' = FALSE
    /\ alive' = FALSE
    /\ building' = FALSE
    /\ phase' = "read"
    /\ path' = <<>>
    /\ stack' = <<>>
    /\ link' = "idle"
    /\ ahead' = <<>>
    /\ inits' = 0
    /\ next' = 1
    /\ retry' = 0
    /\ heard' = 1
    /\ UNCHANGED <<device, lost, slow, busy>>

-----------------------------------------------------------------------------

Progress ==
    \/ ReadFile \/ ReadTorn \/ Alive \/ NotAlive \/ SystemConfiguration \/ OtherFile
    \/ DescribeOne \/ ObjectDescription
    \/ AskType \/ ObjectType \/ NodeDescription
    \/ Save \/ ConfigSaved \/ Timeout \/ Answer

Next == Progress \/ Unheard \/ AnswerBusy \/ Lose \/ EarlyTimeout \/ Restart

\* The program goes on, timers fire, and what is not lost is answered.
Spec == Init /\ [][Next]_vars /\ WF_vars(Progress)

-----------------------------------------------------------------------------

\* When the callback of init is called, the device has answered one handshake
\* (lines 1246-1267), and the configuration is closed: a node of the control
\* tree has a description, and all the children that it says are in the tree
\* (lines 737-791).  The pages are generated from this.
CompleteWhenDone ==
    phase = "done" =>
       /\ alive /\ inits = 1
       /\ <<>> \in DOMAIN config.nodes
       /\ \A p \in DOMAIN config.nodes :
             LET o == config.nodes[p]
             IN /\ config.objects[o] # None
                /\ \A i \in 0..(Children[config.objects[o]][o] - 1) :
                      Append(p, i) \in DOMAIN config.nodes

\* When the file of the device's firmware describes it, the configuration is
\* that of the device, whichever file was read first (lines 842-858).  And so
\* it is, with its file, when it was built without any and no answer came
\* late: each node of the device was visited once, and no other.  (Built on top
\* of the file of another firmware it keeps what it finds there, line 492; a
\* late answer is taken for the type of the next node, line 478.)
RightFile ==
    /\ phase = "done"
    /\ files[device] = Of(device) \/ ~ready
    /\ slow = 0
    => config = Of(device) /\ files[device] = config

\* init ends: with its callback, or with a request whose retries are used up
\* (lines 196-203 and 1270-1276).
StartupEnds == <>(phase \in {"done", "failed", "stuck", "dead"})
=============================================================================
