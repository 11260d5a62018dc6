---------------------------- MODULE StartupProofs -----------------------------
(***************************************************************************)
(* Proofs about Startup, for any versions, any control trees and any       *)
(* losses, late answers and restarts: when init calls back, every node of  *)
(* the control tree is described and has all its children; and if no       *)
(* answer was late and no file was read, the tree is the whole tree of the *)
(* device.  Both also beside the pages that are made meanwhile; and a page *)
(* that was made in one configuration has all its parameters, once and in  *)
(* their order, and none ends the program after the callback if it begins  *)
(* at a node that is there.                                                *)
(***************************************************************************)
EXTENDS Pages, SequenceTheorems, FiniteSetTheorems, WellFoundedInduction, TLAPS

-----------------------------------------------------------------------------
(* The deepest level *)

\* A set of naturals that is not empty has a least element.
LEMMA LeastNatural ==
    ASSUME NEW T \in SUBSET Nat, T # {}
    PROVE  \E x \in T : \A y \in T : x <= y
<1> DEFINE R == OpToRel(<, Nat)
<1>1. IsWellFoundedOn(R, Nat)
  BY NatLessThanWellFounded
<1>2. \A x, y \in Nat : <<y, x>> \in R <=> y < x
  BY DEF OpToRel
<1> HIDE DEF R
<1>3. PICK x \in T : \A y \in T : ~ (<<y, x>> \in R)
  BY <1>1, WFMin
<1>4. \A y \in T : ~(y < x)
  BY <1>2, <1>3
<1> QED
  BY <1>3, <1>4

\* And a greatest one, if it has a bound.
LEMMA MaxProperties ==
    ASSUME NEW n \in Nat, NEW S \in SUBSET (1..n), S # {}
    PROVE  Max(S) \in S /\ \A x \in S : x <= Max(S)
<1> DEFINE T == { k \in Nat : n - k \in S }
<1>1. T # {}
  <2>1. PICK x \in S : TRUE
    OBVIOUS
  <2>2. x \in 1..n /\ n - x \in Nat /\ n - (n - x) = x
    OBVIOUS
  <2>3. n - x \in T
    BY <2>2
  <2> QED
    BY <2>3
<1>2. PICK k \in T : \A j \in T : k <= j
  BY <1>1, LeastNatural
<1>3. n - k \in S /\ k \in Nat
  BY <1>2
<1>4. ASSUME NEW x \in S
      PROVE  n - k >= x
  <2>1. x \in 1..n /\ n - x \in Nat /\ n - (n - x) = x
    OBVIOUS
  <2>2. n - x \in T
    BY <2>1
  <2>3. k <= n - x
    BY <1>2, <2>2
  <2> QED
    BY <1>3, <2>1, <2>3
<1>5. \E m \in S : \A x \in S : m >= x
  BY <1>3, <1>4
<1>6. Max(S) \in S /\ \A x \in S : Max(S) >= x
  BY <1>5 DEF Max
<1>7. S \subseteq Nat
  OBVIOUS
<1> QED
  BY <1>6, <1>7

-----------------------------------------------------------------------------
(* The inductive invariant *)

\* A configuration: its types are described for a version or not at all.
IsConfig(c) ==
    /\ c = [objects |-> c.objects, nodes |-> c.nodes, count |-> c.count]
    /\ c.objects \in [Objects -> Versions \cup {None}]
    /\ c.nodes \in [DOMAIN c.nodes -> Objects]

\* The node p has a description, and all the children that it says.
NodeClosed(c, p) ==
    LET o == c.nodes[p]
    IN  /\ c.objects[o] # None
        /\ \A i \in 0..(Children[c.objects[o]][o] - 1) :
              Append(p, i) \in DOMAIN c.nodes

Closed(c) ==
    /\ IsConfig(c)
    /\ <<>> \in DOMAIN c.nodes
    /\ \A p \in DOMAIN c.nodes : NodeClosed(c, p)

\* The node above the d-th level of the path p.
Above(p, d) == SubSeq(p, 1, d - 1)

\* It has been visited, and so have its children that come before p, and the
\* stack has the last of them.
NodeOpen(c, p, s, d) ==
    LET o == c.nodes[Above(p, d)]
    IN  /\ c.objects[o] # None
        /\ Children[c.objects[o]][o] = s[d] + 1
        /\ \A i \in 0..(p[d] - 1) : Append(Above(p, d), i) \in DOMAIN c.nodes

\* The levels of the walk, all visited but the last.
Levels(c, p, s) ==
    /\ p \in Seq(Nat) /\ s \in Seq(Nat) /\ Len(p) = Len(s)
    /\ \A d \in 1..Len(p) : p[d] <= s[d] /\ Above(p, d) \in DOMAIN c.nodes

\* A node that is not closed is above the one being visited, ...
Walked(c, p, s, q) ==
    \/ NodeClosed(c, q)
    \/ \E d \in 1..Len(p) : q = Above(p, d) /\ NodeOpen(c, p, s, d)

Walk(c, p, s) ==
    /\ IsConfig(c)
    /\ Levels(c, p, s)
    /\ \A q \in DOMAIN c.nodes : Walked(c, p, s, q)

\* ... or is that one, of type o.
Visiting(c, p, s, o) ==
    /\ IsConfig(c)
    /\ Levels(c, p, s)
    /\ o \in Objects
    /\ p \in DOMAIN c.nodes
    /\ \A q \in DOMAIN c.nodes : Walked(c, p, s, q) \/ (q = p /\ c.nodes[q] = o)

FilesOK ==
    /\ device \in Versions
    /\ files = [v \in Versions |-> files[v]]
    /\ \A v \in Versions :
          files[v] \in {None, Torn} \/ Closed(files[v])
    /\ \A v \in Versions \ {device} : files[v] \in {None, Of(v)}

LinkOK ==
    /\ heard \in Objects
    /\ next \in Objects
    /\ ahead \in Seq(Objects)

\* One handshake was answered when config_init begins.
InitOnce ==
    /\ phase \in {"read", "handshake"} => inits = 0
    /\ phase \in {"system", "other file", "objects", "tree", "node", "save",
                  "saving", "done"} => alive /\ inits = 1

ConfigInv ==
    /\ phase = "read" => config = Empty /\ ~ready
    /\ phase \in {"handshake", "system", "other file"} =>
          IF ready THEN /\ config = files[Expected]
                        /\ config \notin {None, Torn}
                   ELSE config = Empty
    /\ phase = "other file" => ready /\ device # Expected
    /\ phase = "objects" =>
          /\ IsConfig(config)
          /\ \/ DOMAIN config.nodes = {}
             \/ ready /\ config = Of(Expected) /\ link = "idle"
    /\ phase = "tree" => Walk(config, path, stack)
    /\ phase = "node" =>
          /\ Visiting(config, path, stack, next)
          /\ config.objects[next] = None
          /\ \A i \in DOMAIN ahead : ahead[i] = next
          /\ link = "answered" => heard = next
    /\ phase \in {"save", "saving", "failed", "done"} => Closed(config)
    /\ phase = "done" => files[device] = config

StartupInv == FilesOK /\ LinkOK /\ InitOnce /\ ConfigInv

-----------------------------------------------------------------------------
(* Paths *)

LEMMA AboveFacts ==
    ASSUME NEW p \in Seq(Nat), NEW d \in 1..(Len(p) + 1)
    PROVE  /\ Above(p, d) \in Seq(Nat)
           /\ Len(Above(p, d)) = d - 1
           /\ \A i \in 1..(d - 1) : Above(p, d)[i] = p[i]
           /\ Above(p, Len(p) + 1) = p
<1>1. Len(p) \in Nat /\ d - 1 \in Nat /\ d - 1 <= Len(p)
  OBVIOUS
<1>2. Above(p, d) = [i \in 1..(d - 1) |-> p[i]]
  BY <1>1 DEF Above
<1>3. \A i \in 1..(d - 1) : p[i] \in Nat
  BY <1>1
<1>4. Above(p, Len(p) + 1) = p
  BY <1>1 DEF Above
<1> QED
  BY <1>1, <1>2, <1>3, <1>4, SMTT(30)

\* One level further down on the path.
LEMMA AboveNext ==
    ASSUME NEW p \in Seq(Nat), NEW d \in 1..Len(p)
    PROVE  Append(Above(p, d), p[d]) = Above(p, d + 1)
<1> DEFINE a == Append(Above(p, d), p[d])
           b == Above(p, d + 1)
<1>1. Len(p) \in Nat /\ d \in 1..(Len(p) + 1) /\ d + 1 \in 1..(Len(p) + 1)
      /\ p[d] \in Nat
  OBVIOUS
<1>2. /\ Above(p, d) \in Seq(Nat) /\ Len(Above(p, d)) = d - 1
      /\ \A i \in 1..(d - 1) : Above(p, d)[i] = p[i]
  BY <1>1, AboveFacts
<1>3. /\ a \in Seq(Nat) /\ Len(a) = d /\ a[d] = p[d]
      /\ \A i \in 1..(d - 1) : a[i] = p[i]
  BY <1>1, <1>2
<1>4. /\ b \in Seq(Nat) /\ Len(b) = d
      /\ \A i \in 1..d : b[i] = p[i]
  BY <1>1, AboveFacts
<1> HIDE DEF a, b
<1>5. \A i \in 1..d : a[i] = b[i]
  BY <1>1, <1>3, <1>4, SMTT(30)
<1>6. a = b
  BY <1>3, <1>4, <1>5, SeqEqual
<1> QED
  BY <1>6 DEF a, b

\* What is above a level that is above.
LEMMA AboveAbove ==
    ASSUME NEW p \in Seq(Nat), NEW e \in 1..(Len(p) + 1), NEW d \in 1..e
    PROVE  Above(Above(p, e), d) = Above(p, d)
<1> DEFINE q == Above(p, e)
           a == Above(q, d)
           b == Above(p, d)
<1>1. /\ q \in Seq(Nat) /\ Len(q) = e - 1 /\ \A i \in 1..(e - 1) : q[i] = p[i]
  BY AboveFacts
<1>2. d \in 1..(Len(p) + 1) /\ d \in 1..(Len(q) + 1) /\ e \in Nat /\ d \in Nat
  BY <1>1
<1> HIDE DEF q
<1>3. /\ a \in Seq(Nat) /\ Len(a) = d - 1 /\ \A i \in 1..(d - 1) : a[i] = q[i]
      /\ b \in Seq(Nat) /\ Len(b) = d - 1 /\ \A i \in 1..(d - 1) : b[i] = p[i]
  BY <1>1, <1>2, AboveFacts
<1> HIDE DEF a, b
<1>4. \A i \in 1..(d - 1) : a[i] = b[i]
  BY <1>1, <1>2, <1>3
<1>5. a = b
  BY <1>3, <1>4, SeqEqual
<1> QED
  BY <1>5 DEF a, b, q

\* What is above a node is above its children, and so is the node.
LEMMA AboveChild ==
    ASSUME NEW p \in Seq(Nat), NEW x \in Nat, NEW d \in 1..(Len(p) + 1)
    PROVE  Above(Append(p, x), d) = Above(p, d)
<1> DEFINE q == Append(p, x)
           a == Above(q, d)
           b == Above(p, d)
<1>1. /\ q \in Seq(Nat) /\ Len(q) = Len(p) + 1 /\ Len(p) \in Nat
      /\ \A i \in 1..Len(p) : q[i] = p[i]
  OBVIOUS
<1>2. d \in 1..(Len(q) + 1)
  BY <1>1
<1> HIDE DEF q
<1>3. /\ a \in Seq(Nat) /\ Len(a) = d - 1 /\ \A i \in 1..(d - 1) : a[i] = q[i]
      /\ b \in Seq(Nat) /\ Len(b) = d - 1 /\ \A i \in 1..(d - 1) : b[i] = p[i]
  BY <1>1, <1>2, AboveFacts
<1> HIDE DEF a, b
<1>4. \A i \in 1..(d - 1) : a[i] = b[i]
  BY <1>1, <1>3
<1>5. a = b
  BY <1>3, <1>4, SeqEqual
<1> QED
  BY <1>5 DEF a, b, q

\* The next child of the node above a level.
LEMMA NextChild ==
    ASSUME NEW p \in Seq(Nat), NEW d \in 1..Len(p)
    PROVE  [SubSeq(p, 1, d) EXCEPT ![d] = @ + 1] = Append(Above(p, d), p[d] + 1)
<1> DEFINE a == [SubSeq(p, 1, d) EXCEPT ![d] = @ + 1]
           b == Append(Above(p, d), p[d] + 1)
<1>1. Len(p) \in Nat /\ d <= Len(p) /\ d \in Nat /\ \A i \in 1..Len(p) : p[i] \in Nat
  OBVIOUS
<1>2. SubSeq(p, 1, d) = [i \in 1..d |-> p[i]]
  BY <1>1
<1>3. a = [i \in 1..d |-> IF i = d THEN p[d] + 1 ELSE p[i]]
  BY <1>1, <1>2
<1>4. a \in Seq(Nat) /\ Len(a) = d
  <2>1. \A i \in 1..d : (IF i = d THEN p[d] + 1 ELSE p[i]) \in Nat
    BY <1>1
  <2> HIDE DEF a
  <2> QED
    BY <1>1, <1>3, <2>1
<1>5. /\ Above(p, d) \in Seq(Nat) /\ Len(Above(p, d)) = d - 1
      /\ \A i \in 1..(d - 1) : Above(p, d)[i] = p[i]
  BY <1>1, AboveFacts
<1>6. /\ b \in Seq(Nat) /\ Len(b) = d /\ b[d] = p[d] + 1
      /\ \A i \in 1..(d - 1) : b[i] = p[i]
  BY <1>1, <1>5
<1> HIDE DEF a, b
<1>7. \A i \in 1..d : a[i] = b[i]
  BY <1>1, <1>3, <1>6
<1>8. a = b
  BY <1>4, <1>6, <1>7, SeqEqual
<1> QED
  BY <1>8 DEF a, b

-----------------------------------------------------------------------------
(* The walk *)

\* A node goes on being closed, or above the one being visited, when there are
\* more nodes.
LEMMA WalkedGrows ==
    ASSUME NEW c, NEW e, NEW p, NEW s, NEW q \in DOMAIN c.nodes,
           e.objects = c.objects,
           DOMAIN c.nodes \subseteq DOMAIN e.nodes,
           e.nodes[q] = c.nodes[q],
           Walked(c, p, s, q)
    PROVE  Walked(e, p, s, q)
<1>1. CASE NodeClosed(c, q)
  <2>1. NodeClosed(e, q)
    BY <1>1 DEF NodeClosed
  <2> QED
    BY <2>1 DEF Walked
<1>2. ASSUME NEW d \in 1..Len(p), q = Above(p, d), NodeOpen(c, p, s, d)
      PROVE  Walked(e, p, s, q)
  <2>1. NodeOpen(e, p, s, d)
    BY <1>2 DEF NodeOpen
  <2> QED
    BY <1>2, <2>1 DEF Walked
<1> QED
  BY <1>1, <1>2 DEF Walked

\* objectTypeId_parse: the node has the type that was answered, or had one.
LEMMA TypedVisits ==
    ASSUME NEW c, NEW p, NEW s, NEW o \in Objects, Walk(c, p, s)
    PROVE  /\ Visiting(Typed(c, p, o), p, s, o)
           /\ Typed(c, p, o).objects = c.objects
<1> DEFINE e == Typed(c, p, o)
<1>1. CASE p \in DOMAIN c.nodes
  <2>1. e = c
    BY <1>1 DEF Typed
  <2> HIDE DEF e
  <2> QED
    BY <1>1, <2>1 DEF Walk, Visiting, e
<1>2. CASE p \notin DOMAIN c.nodes
  <2> DEFINE nodes == [q \in DOMAIN c.nodes \cup {p} |->
                          IF q = p THEN o ELSE c.nodes[q]]
  <2>1. e = [c EXCEPT !.nodes = nodes]
    BY <1>2 DEF Typed
  <2>2. /\ DOMAIN nodes = DOMAIN c.nodes \cup {p}
        /\ nodes[p] = o
        /\ \A q \in DOMAIN c.nodes : nodes[q] = c.nodes[q]
    BY <1>2
  <2>3. nodes \in [DOMAIN nodes -> Objects]
    <3>1. \A q \in DOMAIN c.nodes : c.nodes[q] \in Objects
      BY DEF Walk, IsConfig
    <3> QED
      BY <3>1
  <2> HIDE DEF nodes, e
  <2>4. e = [objects |-> c.objects, nodes |-> nodes, count |-> c.count]
    <3>1. c = [objects |-> c.objects, nodes |-> c.nodes, count |-> c.count]
      BY DEF Walk, IsConfig
    <3> QED
      BY <2>1, <3>1
  <2>5. e.objects = c.objects /\ e.nodes = nodes /\ e.count = c.count
    BY <2>4
  <2>6. IsConfig(e)
    BY <2>3, <2>4, <2>5 DEF Walk, IsConfig
  <2>7. Levels(e, p, s)
    BY <2>2, <2>5 DEF Walk, Levels
  <2>8. \A q \in DOMAIN c.nodes : Walked(e, p, s, q)
    BY <2>2, <2>5, WalkedGrows DEF Walk
  <2> QED
    BY <2>2, <2>5, <2>6, <2>7, <2>8 DEF Visiting, e
<1> QED
  BY <1>1, <1>2

\* objectDescription_parse: only the node being visited is of that type.
LEMMA DescribedFacts ==
    ASSUME NEW c, NEW o \in Objects, IsConfig(c), device \in Versions
    PROVE  /\ IsConfig(Described(c, o))
           /\ Described(c, o).nodes = c.nodes
           /\ Described(c, o).objects[o] = device
           /\ \A t \in Objects \ {o} : Described(c, o).objects[t] = c.objects[t]
<1> DEFINE e == Described(c, o)
           objects == [c.objects EXCEPT ![o] = device]
<1>1. /\ c = [objects |-> c.objects, nodes |-> c.nodes, count |-> c.count]
      /\ c.objects \in [Objects -> Versions \cup {None}]
  BY DEF IsConfig
<1>2. e = [c EXCEPT !.objects = objects]
  BY DEF Described
<1>3. /\ objects \in [Objects -> Versions \cup {None}]
      /\ objects[o] = device
      /\ \A t \in Objects \ {o} : objects[t] = c.objects[t]
  BY <1>1
<1> HIDE DEF e, objects
<1>4. e = [objects |-> objects, nodes |-> c.nodes, count |-> c.count]
  BY <1>1, <1>2
<1>5. e.objects = objects /\ e.nodes = c.nodes /\ e.count = c.count
  BY <1>4
<1>6. IsConfig(e)
  BY <1>3, <1>4, <1>5 DEF IsConfig
<1> QED
  BY <1>3, <1>5, <1>6 DEF e

LEMMA DescribedVisits ==
    ASSUME NEW c, NEW p, NEW s, NEW o, Visiting(c, p, s, o),
           c.objects[o] = None, device \in Versions
    PROVE  /\ Visiting(Described(c, o), p, s, o)
           /\ Described(c, o).objects[o] = device
<1> DEFINE e == Described(c, o)
<1>1. IsConfig(c) /\ o \in Objects /\ Levels(c, p, s)
  BY DEF Visiting
<1>2. /\ IsConfig(e) /\ e.nodes = c.nodes /\ e.objects[o] = device
      /\ \A t \in Objects \ {o} : e.objects[t] = c.objects[t]
  BY <1>1, DescribedFacts
<1> HIDE DEF e
<1>3. Levels(e, p, s)
  BY <1>1, <1>2 DEF Levels
<1>4. ASSUME NEW q \in DOMAIN c.nodes
      PROVE  Walked(e, p, s, q) \/ (q = p /\ c.nodes[q] = o)
  <2>1. c.nodes[q] \in Objects
    BY DEF Visiting, IsConfig
  <2>2. CASE c.nodes[q] # o
    <3>1. e.objects[c.nodes[q]] = c.objects[c.nodes[q]]
      BY <1>2, <2>1, <2>2
    <3>2. CASE NodeClosed(c, q)
      <4>1. NodeClosed(e, q)
        BY <1>2, <3>1, <3>2 DEF NodeClosed
      <4> QED
        BY <4>1 DEF Walked
    <3>3. ASSUME NEW d \in 1..Len(p), q = Above(p, d), NodeOpen(c, p, s, d)
          PROVE  Walked(e, p, s, q)
      <4>1. NodeOpen(e, p, s, d)
        BY <1>2, <3>1, <3>3 DEF NodeOpen
      <4> QED
        BY <3>3, <4>1 DEF Walked
    <3>4. Walked(c, p, s, q)
      BY <2>2 DEF Visiting
    <3> QED
      BY <3>2, <3>3, <3>4 DEF Walked
  <2>3. CASE c.nodes[q] = o
    <3>1. ~Walked(c, p, s, q)
      BY <2>3 DEF Walked, NodeClosed, NodeOpen
    <3> QED
      BY <3>1 DEF Visiting
  <2> QED
    BY <2>2, <2>3
<1> QED
  BY <1>1, <1>2, <1>3, <1>4 DEF Visiting, e

\* The child on the path of a node above it has been visited.
LEMMA OnPath ==
    ASSUME NEW c, NEW p, NEW s, Levels(c, p, s), p \in DOMAIN c.nodes
    PROVE  /\ <<>> \in DOMAIN c.nodes
           /\ \A d \in 1..Len(p) : Append(Above(p, d), p[d]) \in DOMAIN c.nodes
<1>1. /\ p \in Seq(Nat) /\ Len(p) \in Nat
      /\ \A d \in 1..Len(p) : Above(p, d) \in DOMAIN c.nodes
  BY DEF Levels
<1>2. \A d \in 1..(Len(p) + 1) : Above(p, d) \in DOMAIN c.nodes
  <2>1. Above(p, Len(p) + 1) = p
    BY <1>1, AboveFacts
  <2> QED
    BY <1>1, <2>1
<1>3. <<>> \in DOMAIN c.nodes
  <2>1. 1 \in 1..(Len(p) + 1)
    BY <1>1
  <2>2. Above(p, 1) \in Seq(Nat) /\ Len(Above(p, 1)) = 0
    BY <1>1, <2>1, AboveFacts
  <2>3. Above(p, 1) = <<>>
    BY <2>2, EmptySeq
  <2> QED
    BY <1>2, <2>1, <2>3
<1>4. ASSUME NEW d \in 1..Len(p)
      PROVE  Append(Above(p, d), p[d]) \in DOMAIN c.nodes
  <2>1. d + 1 \in 1..(Len(p) + 1)
    BY <1>1
  <2> QED
    BY <1>1, <1>2, <2>1, AboveNext
<1> QED
  BY <1>3, <1>4

\* Below the level k every level is at its last child: only what is above
\* that level is open any more.
LEMMA LevelsFinish ==
    ASSUME NEW c, NEW p, NEW s, NEW o, Visiting(c, p, s, o),
           c.objects[o] # None, Children[c.objects[o]][o] = 0,
           NEW k \in 0..Len(p), \A d \in (k + 1)..Len(p) : p[d] = s[d],
           NEW q \in DOMAIN c.nodes
    PROVE  \/ NodeClosed(c, q)
           \/ \E d \in 1..k : q = Above(p, d) /\ NodeOpen(c, p, s, d)
<1>1. /\ p \in Seq(Nat) /\ Len(p) \in Nat /\ s \in Seq(Nat) /\ Len(p) = Len(s)
      /\ Levels(c, p, s) /\ p \in DOMAIN c.nodes
  BY DEF Visiting, Levels
<1>2. CASE q = p /\ c.nodes[q] = o
  BY <1>2 DEF NodeClosed
<1>3. ASSUME NEW d \in 1..Len(p), q = Above(p, d), NodeOpen(c, p, s, d), d \notin 1..k
      PROVE  NodeClosed(c, q)
  <2>1. d \in (k + 1)..Len(p)
    BY <1>1, <1>3
  <2>2. p[d] = s[d] /\ p[d] \in Nat
    BY <1>1, <2>1
  <2>3. Append(q, p[d]) \in DOMAIN c.nodes
    BY <1>1, <1>3, OnPath
  <2>4. /\ c.objects[c.nodes[q]] # None
        /\ Children[c.objects[c.nodes[q]]][c.nodes[q]] = p[d] + 1
        /\ \A i \in 0..(p[d] - 1) : Append(q, i) \in DOMAIN c.nodes
    BY <1>3, <2>2 DEF NodeOpen
  <2> DEFINE n == Children[c.objects[c.nodes[q]]][c.nodes[q]]
  <2>5. n = p[d] + 1
    BY <2>4
  <2> HIDE DEF n
  <2>6. ASSUME NEW i \in 0..(n - 1)
        PROVE  Append(q, i) \in DOMAIN c.nodes
    <3>1. i = p[d] \/ i \in 0..(p[d] - 1)
      BY <2>2, <2>5
    <3> QED
      BY <2>3, <2>4, <3>1
  <2> QED
    BY <2>4, <2>6 DEF NodeClosed, n
<1> QED
  BY <1>2, <1>3 DEF Visiting, Walked

\* controlTree_add_callback goes down, or on to the next node, or has finished
\* with a tree that is closed.
LEMMA VisitKeeps ==
    ASSUME StartupAssumption,
           NEW c, NEW o, Visiting(c, path, stack, o), c.objects[o] # None,
           Visit(c, o)
    PROVE  \/ phase' = "tree" /\ Walk(config', path', stack')
           \/ phase' = "save" /\ Closed(config')
<1> DEFINE n == Children[c.objects[o]][o]
           e == [c EXCEPT !.count = @ + 1]
           U == Unfinished(path, stack)
<1>1. /\ path \in Seq(Nat) /\ stack \in Seq(Nat) /\ Len(path) = Len(stack)
      /\ Len(path) \in Nat
      /\ \A d \in 1..Len(path) : /\ path[d] \in Nat /\ stack[d] \in Nat
                                 /\ path[d] <= stack[d]
                                 /\ Above(path, d) \in DOMAIN c.nodes
      /\ IsConfig(c) /\ path \in DOMAIN c.nodes /\ o \in Objects
      /\ Levels(c, path, stack)
  BY DEF Visiting, Levels
<1>2. n \in Nat
  <2>1. c.objects[o] \in Versions
    BY <1>1 DEF IsConfig
  <2> QED
    BY <1>1, <2>1 DEF StartupAssumption
<1>3. /\ IsConfig(e) /\ e.objects = c.objects /\ e.nodes = c.nodes
      /\ config' = e
  <2>1. c = [objects |-> c.objects, nodes |-> c.nodes, count |-> c.count]
    BY <1>1 DEF IsConfig
  <2> DEFINE w == c.count + 1
  <2>5. e = [c EXCEPT !.count = w]
    OBVIOUS
  <2>4. config' = e
    BY DEF Visit
  <2> HIDE DEF w, e
  <2>2. e = [objects |-> c.objects, nodes |-> c.nodes, count |-> w]
    BY <2>1, <2>5
  <2>3. e.objects = c.objects /\ e.nodes = c.nodes /\ e.count = w
    BY <2>2
  <2> QED
    BY <1>1, <2>2, <2>3, <2>4 DEF IsConfig
<1> HIDE DEF e, n, U
<1>4. CASE n > 0
  <2> DEFINE p == Append(path, 0)
             t == Append(stack, n - 1)
             m == Len(path) + 1
  <2>1. path' = p /\ stack' = t /\ phase' = "tree"
    BY <1>2, <1>4 DEF Visit, n
  <2>2. /\ p \in Seq(Nat) /\ t \in Seq(Nat) /\ Len(p) = m /\ Len(t) = m
        /\ p[m] = 0 /\ t[m] = n - 1
        /\ \A d \in 1..Len(path) : p[d] = path[d] /\ t[d] = stack[d]
    BY <1>1, <1>2, <1>4
  <2>3. /\ Above(p, m) = path
        /\ \A d \in 1..Len(path) : Above(p, d) = Above(path, d)
    <3>1. \A d \in 1..m : Above(p, d) = Above(path, d)
      BY <1>1, AboveChild
    <3>2. Above(path, m) = path /\ m \in 1..m
      BY <1>1, AboveFacts
    <3> QED
      BY <1>1, <3>1, <3>2
  <2> HIDE DEF p, t
  <2>4. \A d \in 1..m : d = m \/ d \in 1..Len(path)
    BY <1>1
  <2>5. Levels(e, p, t)
    <3>1. ASSUME NEW d \in 1..m
          PROVE  p[d] <= t[d]
      <4>1. CASE d = m
        BY <1>2, <1>4, <2>2, <4>1
      <4>2. CASE d \in 1..Len(path)
        BY <1>1, <2>2, <4>2
      <4> QED
        BY <2>4, <4>1, <4>2
    <3>2. \A d \in 1..m : Above(p, d) \in DOMAIN e.nodes
      BY <1>1, <1>3, <2>3, <2>4
    <3> QED
      BY <2>2, <3>1, <3>2 DEF Levels
  <2>6. ASSUME NEW q \in DOMAIN e.nodes
        PROVE  Walked(e, p, t, q)
    <3>1. q \in DOMAIN c.nodes /\ (Walked(c, path, stack, q)
                                     \/ (q = path /\ c.nodes[q] = o))
      BY <1>3, <2>6 DEF Visiting
    <3>2. CASE NodeClosed(c, q)
      <4>1. NodeClosed(e, q)
        BY <1>3, <3>2 DEF NodeClosed
      <4> QED
        BY <4>1 DEF Walked
    <3>3. ASSUME NEW d \in 1..Len(path), q = Above(path, d),
                 NodeOpen(c, path, stack, d)
          PROVE  Walked(e, p, t, q)
      <4>1. NodeOpen(e, p, t, d)
        BY <1>3, <2>2, <2>3, <3>3 DEF NodeOpen
      <4>2. d \in 1..Len(p) /\ q = Above(p, d)
        BY <1>1, <2>2, <2>3, <3>3
      <4> QED
        BY <4>1, <4>2 DEF Walked
    <3>4. CASE q = path /\ c.nodes[q] = o
      <4>1. e.objects[o] # None /\ Children[e.objects[o]][o] = n
        BY <1>3 DEF n
      <4>2. /\ t[m] + 1 = n /\ \A i \in 0..(p[m] - 1) : FALSE
        BY <1>2, <2>2
      <4>3. e.nodes[Above(p, m)] = o
        BY <1>3, <2>3, <3>4
      <4>4. NodeOpen(e, p, t, m)
        BY <4>1, <4>2, <4>3 DEF NodeOpen
      <4>5. m \in 1..Len(p) /\ q = Above(p, m)
        BY <1>1, <2>2, <2>3, <3>4
      <4> QED
        BY <4>4, <4>5 DEF Walked
    <3> QED
      BY <3>1, <3>2, <3>3, <3>4 DEF Walked
  <2>7. Walk(e, p, t)
    BY <1>3, <2>5, <2>6 DEF Walk
  <2> QED
    BY <1>3, <2>1, <2>7
<1>5. CASE n = 0 /\ U # {}
  <2> DEFINE k == Max(U)
             p == Append(Above(path, k), path[k] + 1)
             t == SubSeq(stack, 1, k)
  <2>1. U \subseteq 1..Len(path)
    BY <1>1 DEF Unfinished, U
  <2>2. k \in U /\ \A d \in U : d <= k
    BY <1>1, <1>5, <2>1, MaxProperties
  <2>3. path' = p /\ stack' = t /\ phase' = "tree"
    <3>1. [SubSeq(path, 1, k) EXCEPT ![k] = @ + 1] = p
      BY <1>1, <2>1, <2>2, NextChild
    <3>2. /\ path' = [SubSeq(path, 1, k) EXCEPT ![k] = @ + 1]
          /\ stack' = t /\ phase' = "tree"
      BY <1>5 DEF Visit, n, U
    <3> QED
      BY <3>1, <3>2
  <2> HIDE DEF k
  <2>4. /\ k \in 1..Len(path) /\ k \in 0..Len(path) /\ path[k] < stack[k]
        /\ \A d \in (k + 1)..Len(path) : d \in 1..Len(path) /\ d \notin U
    <3>1. k \in 1..Len(path) /\ path[k] < stack[k]
      BY <1>1, <2>2 DEF U, Unfinished
    <3>2. \A d \in (k + 1)..Len(path) : d \in 1..Len(path) /\ ~(d <= k)
      BY <1>1, <3>1
    <3> QED
      BY <1>1, <2>2, <3>1, <3>2
  <2>5. \A d \in (k + 1)..Len(path) : path[d] = stack[d]
    <3>1. \A d \in (k + 1)..Len(path) : ~(path[d] < stack[d])
      BY <1>1, <2>4 DEF U, Unfinished
    <3> QED
      BY <1>1, <2>4, <3>1
  <2>6. /\ p \in Seq(Nat) /\ Len(p) = k /\ p[k] = path[k] + 1
        /\ \A d \in 1..(k - 1) : p[d] = path[d]
        /\ \A d \in 1..k : Above(p, d) = Above(path, d)
    <3>1. /\ Above(path, k) \in Seq(Nat) /\ Len(Above(path, k)) = k - 1
          /\ \A d \in 1..(k - 1) : Above(path, k)[d] = path[d]
          /\ k \in 1..(Len(path) + 1)
      <4>1. k \in 1..(Len(path) + 1)
        BY <1>1, <2>4
      <4> QED
        BY <1>1, <4>1, AboveFacts
    <3>2. path[k] + 1 \in Nat
      BY <1>1, <2>4
    <3>3. \A d \in 1..k : Above(p, d) = Above(Above(path, k), d)
      BY <1>1, <2>4, <3>1, <3>2, AboveChild, SMTT(30)
    <3>4. \A d \in 1..k : Above(Above(path, k), d) = Above(path, d)
      BY <1>1, <3>1, AboveAbove
    <3> QED
      BY <2>4, <3>1, <3>2, <3>3, <3>4
  <2>7. /\ t \in Seq(Nat) /\ Len(t) = k
        /\ \A d \in 1..k : t[d] = stack[d]
    <3>1. t = [d \in 1..k |-> stack[d]]
      BY <1>1, <2>4
    <3>2. \A d \in 1..k : stack[d] \in Nat
      BY <1>1, <2>4
    <3> HIDE DEF t
    <3> QED
      BY <2>4, <3>1, <3>2
  <2> HIDE DEF p, t
  <2>8. \A d \in 1..k : d = k \/ d \in 1..(k - 1)
    BY <2>4
  <2>9. Levels(e, p, t)
    <3>1. \A d \in 1..k : d \in 1..Len(path)
      BY <1>1, <2>4
    <3>2. path[k] + 1 <= stack[k]
      BY <1>1, <2>4
    <3>3. \A d \in 1..k : p[d] <= t[d]
      BY <1>1, <2>6, <2>7, <2>8, <3>1, <3>2
    <3>4. \A d \in 1..k : Above(p, d) \in DOMAIN e.nodes
      BY <1>1, <1>3, <2>6, <3>1
    <3> QED
      BY <2>6, <2>7, <3>3, <3>4 DEF Levels
  <2>10. ASSUME NEW q \in DOMAIN e.nodes
         PROVE  Walked(e, p, t, q)
    <3>1. \/ NodeClosed(c, q)
          \/ \E d \in 1..k : q = Above(path, d) /\ NodeOpen(c, path, stack, d)
      BY <1>3, <1>5, <2>4, <2>5, LevelsFinish DEF n
    <3>2. CASE NodeClosed(c, q)
      <4>1. NodeClosed(e, q)
        BY <1>3, <3>2 DEF NodeClosed
      <4> QED
        BY <4>1 DEF Walked
    <3>3. ASSUME NEW d \in 1..k, q = Above(path, d), NodeOpen(c, path, stack, d)
          PROVE  Walked(e, p, t, q)
      <4>1. Append(Above(path, k), path[k]) \in DOMAIN e.nodes
        BY <1>1, <1>3, <2>4, OnPath
      <4>2. /\ c.objects[c.nodes[q]] # None
            /\ Children[c.objects[c.nodes[q]]][c.nodes[q]] = stack[d] + 1
            /\ \A i \in 0..(path[d] - 1) : Append(q, i) \in DOMAIN e.nodes
        BY <1>3, <3>3 DEF NodeOpen
      <4>3. ASSUME NEW i \in 0..(p[d] - 1)
            PROVE  Append(q, i) \in DOMAIN e.nodes
        <5>1. CASE d = k
          <6>1. i = path[k] \/ i \in 0..(path[k] - 1)
            BY <1>1, <2>4, <2>6, <5>1, SMTT(30)
          <6> QED
            BY <3>3, <4>1, <4>2, <5>1, <6>1
        <5>2. CASE d # k
          <6>1. p[d] = path[d]
            BY <2>6, <2>8, <5>2
          <6> QED
            BY <4>2, <6>1
        <5> QED
          BY <5>1, <5>2
      <4>4. q = Above(p, d) /\ t[d] = stack[d] /\ d \in 1..Len(p)
        BY <2>6, <2>7, <3>3
      <4>5. NodeOpen(e, p, t, d)
        BY <1>3, <4>2, <4>3, <4>4 DEF NodeOpen
      <4> QED
        BY <4>4, <4>5 DEF Walked
    <3> QED
      BY <3>1, <3>2, <3>3
  <2>11. Walk(e, p, t)
    BY <1>3, <2>9, <2>10 DEF Walk
  <2> QED
    BY <1>3, <2>3, <2>11
<1>6. CASE n = 0 /\ U = {}
  <2>1. phase' = "save"
    BY <1>6 DEF Visit, n, U
  <2>2. \A d \in (0 + 1)..Len(path) : path[d] = stack[d]
    <3>1. \A d \in 1..Len(path) : ~(path[d] < stack[d])
      BY <1>6 DEF U, Unfinished, Visiting, Levels
    <3> QED
      BY <1>1, <3>1
  <2>3. ASSUME NEW q \in DOMAIN e.nodes
        PROVE  NodeClosed(e, q)
    <3> DEFINE k == 0
    <3>3. k \in 0..Len(path) /\ \A d \in (k + 1)..Len(path) : path[d] = stack[d]
      BY <1>1, <2>2
    <3>4. 1..k = {}
      OBVIOUS
    <3> HIDE DEF k
    <3>1. \/ NodeClosed(c, q)
          \/ \E d \in 1..k : q = Above(path, d) /\ NodeOpen(c, path, stack, d)
      BY <1>3, <1>6, <3>3, LevelsFinish DEF n
    <3>2. NodeClosed(c, q)
      BY <3>1, <3>4
    <3> QED
      BY <1>3, <3>2 DEF NodeClosed
  <2>4. <<>> \in DOMAIN e.nodes
    BY <1>1, <1>3, OnPath
  <2>5. Closed(e)
    BY <1>3, <2>3, <2>4 DEF Closed
  <2> QED
    BY <1>3, <2>1, <2>5
<1> QED
  BY <1>2, <1>4, <1>5, <1>6

-----------------------------------------------------------------------------
(* The steps *)

\* A child is under its parent.
LEMMA FrontAppend ==
    ASSUME NEW p \in Seq(Nat), NEW i \in Nat
    PROVE  /\ Append(p, i) \in Seq(Nat) /\ Append(p, i) # <<>>
           /\ Front(Append(p, i)) = p
           /\ Append(p, i)[Len(p) + 1] = i
<1> DEFINE q == Append(p, i)
<1>1. /\ q \in Seq(Nat) /\ Len(q) = Len(p) + 1 /\ Len(p) \in Nat
      /\ q[Len(p) + 1] = i
      /\ \A j \in 1..Len(p) : q[j] = p[j]
  OBVIOUS
<1> HIDE DEF q
<1>2. Front(q) = [j \in 1..Len(p) |-> q[j]]
  BY <1>1 DEF Front
<1>3. p = [j \in 1..Len(p) |-> p[j]]
  OBVIOUS
<1>4. Front(q) = p
  BY <1>1, <1>2, <1>3
<1>5. q # <<>>
  BY <1>1
<1> QED
  BY <1>1, <1>4, <1>5 DEF q

\* What a node of a version's tree has under it.
LEMMA ChildNodes ==
    ASSUME StartupAssumption, NEW v \in Versions, NEW p \in DOMAIN Tree[v]
    PROVE  /\ p \in Seq(Nat) /\ Tree[v][p] \in Objects
           /\ Children[v][Tree[v][p]] \in Nat
           /\ \A i \in Nat : Append(p, i) \in DOMAIN Tree[v]
                               <=> i \in 0..(Children[v][Tree[v][p]] - 1)
<1> DEFINE n == Children[v][Tree[v][p]]
           S == { q \in DOMAIN Tree[v] : q # <<>> /\ Front(q) = p }
           T == { Append(p, i) : i \in 0..(n - 1) }
<1>1. /\ p \in Seq(Nat) /\ Tree[v][p] \in Objects /\ n \in Nat
      /\ S = T /\ DOMAIN Tree[v] \subseteq Seq(Nat)
  BY DEF StartupAssumption
<1> HIDE DEF n
<1>2. \A i \in Nat : /\ Append(p, i) \in Seq(Nat) /\ Append(p, i) # <<>>
                      /\ Front(Append(p, i)) = p
                      /\ Append(p, i)[Len(p) + 1] = i
  BY <1>1, FrontAppend
<1>3. ASSUME NEW i \in 0..(n - 1)
      PROVE  Append(p, i) \in DOMAIN Tree[v]
  <2>1. Append(p, i) \in T
    OBVIOUS
  <2>2. Append(p, i) \in S
    BY <1>1, <2>1
  <2> QED
    BY <2>2
<1>4. ASSUME NEW i \in Nat, Append(p, i) \in DOMAIN Tree[v]
      PROVE  i \in 0..(n - 1)
  <2>1. Append(p, i) \in S
    BY <1>2, <1>4
  <2> HIDE DEF S
  <2>4. Append(p, i) \in T
    BY <1>1, <2>1
  <2>2. PICK j \in 0..(n - 1) : Append(p, i) = Append(p, j)
    BY <2>4
  <2>3. j \in Nat /\ i = j
    BY <1>1, <1>2, <2>2
  <2> QED
    BY <2>3
<1> QED
  BY <1>1, <1>3, <1>4 DEF n

\* A file that describes the firmware of a device is closed.
LEMMA OfClosed ==
    ASSUME StartupAssumption, NEW v \in Versions
    PROVE  Closed(Of(v)) /\ \A o \in Objects : Of(v).objects[o] = v
<1> DEFINE c == Of(v)
<1>1. /\ c.objects = [o \in Objects |-> v]
      /\ c.nodes = Tree[v]
      /\ c = [objects |-> c.objects, nodes |-> c.nodes, count |-> c.count]
  BY DEF Of
<1> HIDE DEF c
<1>2. v # None /\ Tree[v] \in [DOMAIN Tree[v] -> Objects]
  BY DEF StartupAssumption
<1>3. IsConfig(c)
  BY <1>1, <1>2 DEF IsConfig
<1>4. <<>> \in DOMAIN c.nodes
  BY <1>1 DEF StartupAssumption
<1>5. ASSUME NEW p \in DOMAIN c.nodes
      PROVE  NodeClosed(c, p)
  <2>1. c.nodes[p] \in Objects /\ c.objects[c.nodes[p]] = v
    BY <1>1, <1>2
  <2>2. \A i \in 0..(Children[v][Tree[v][p]] - 1) : Append(p, i) \in DOMAIN Tree[v]
    <3>1. p \in DOMAIN Tree[v]
      BY <1>1
    <3>2. Children[v][Tree[v][p]] \in Nat
      BY <3>1, ChildNodes
    <3>3. \A i \in 0..(Children[v][Tree[v][p]] - 1) : i \in Nat
      BY <3>2
    <3> QED
      BY <3>1, <3>3, ChildNodes
  <2> QED
    BY <1>1, <1>2, <2>1, <2>2 DEF NodeClosed
<1> QED
  BY <1>1, <1>3, <1>4, <1>5 DEF Closed, c

\* The descriptions before the tree, the tree, or the end of it.
Building ==
    \/ /\ phase = "objects"
       /\ IsConfig(config)
       /\ \/ DOMAIN config.nodes = {}
          \/ ready /\ config = Of(Expected) /\ link = "idle"
    \/ phase = "tree" /\ Walk(config, path, stack)
    \/ phase = "save" /\ Closed(config)

LEMMA DescribeNextKeeps ==
    ASSUME StartupAssumption, LinkOK, NEW c, NEW o \in Objects, IsConfig(c),
           \/ DOMAIN c.nodes = {}
           \/ ready /\ c = Of(Expected),
           DescribeNext(c, o), UNCHANGED <<ready, heard>>
    PROVE  Building' /\ LinkOK'
<1>1. CASE o < NumObjects
  <2>1. /\ config' = c /\ phase' = "objects" /\ next' = o + 1 /\ link' = "idle"
        /\ ahead' = ahead
    BY <1>1 DEF DescribeNext
  <2>2. o + 1 \in Objects
    BY <1>1 DEF Objects, StartupAssumption
  <2>3. (Of(Expected))' = Of(Expected)
    BY DEF Of
  <2>4. Building'
    BY <2>1, <2>3 DEF Building, IsConfig
  <2> QED
    BY <2>1, <2>2, <2>4 DEF LinkOK
<1>2. CASE ~(o < NumObjects)
  <2> DEFINE e == [c EXCEPT !.count = 0]
  <2>1. /\ config' = e /\ phase' = "tree" /\ path' = <<>> /\ stack' = <<>>
        /\ ahead' = <<>> /\ next' = next
    BY <1>2 DEF DescribeNext, BuildTree
  <2> HIDE DEF e
  <2>2. e = [objects |-> c.objects, nodes |-> c.nodes, count |-> 0]
    <3>1. c = [objects |-> c.objects, nodes |-> c.nodes, count |-> c.count]
      BY DEF IsConfig
    <3> QED
      BY ONLY <3>1 DEF e
  <2>3. e.objects = c.objects /\ e.nodes = c.nodes /\ e.count = 0
    BY <2>2
  <2>4. IsConfig(e)
    BY <2>2, <2>3 DEF IsConfig
  <2>5. \A q \in DOMAIN e.nodes : NodeClosed(c, q)
    BY <2>3, OfClosed DEF StartupAssumption, Closed
  <2>6. \A q \in DOMAIN e.nodes : Walked(e, <<>>, <<>>, q)
    BY <2>3, <2>5 DEF Walked, NodeClosed
  <2>7. Levels(e, <<>>, <<>>)
    BY EmptySeq DEF Levels
  <2>8. Walk(e, <<>>, <<>>)
    BY <2>4, <2>6, <2>7 DEF Walk
  <2>9. Building'
    BY <2>1, <2>8 DEF Building
  <2>10. LinkOK'
    BY <2>1, EmptySeq DEF LinkOK
  <2> QED
    BY <2>9, <2>10
<1> QED
  BY <1>1, <1>2

LEMMA DescribeKeeps ==
    ASSUME StartupAssumption, LinkOK, NEW o \in Objects, IsConfig(config),
           \/ DOMAIN config.nodes = {}
           \/ ready /\ config = Of(Expected),
           Describe(o), UNCHANGED <<ready, heard>>
    PROVE  Building' /\ LinkOK'
<1>1. CASE config.objects[o] = None
  <2>1. phase' = "objects" /\ next' = o /\ UNCHANGED <<config, ahead>>
    BY <1>1 DEF Describe
  <2>2. DOMAIN config.nodes = {}
    BY <1>1, OfClosed DEF StartupAssumption
  <2> QED
    BY <2>1, <2>2 DEF Building, LinkOK, IsConfig
<1>2. CASE config.objects[o] # None
  BY <1>2, DescribeNextKeeps DEF Describe
<1> QED
  BY <1>1, <1>2

LEMMA BuildingKeeps ==
    ASSUME StartupInv, Building', LinkOK', UNCHANGED <<device, files, alive, inits>>,
           alive, inits = 1
    PROVE  StartupInv'
<1>1. phase' \in {"objects", "tree", "save"}
  BY DEF Building
<1>2. FilesOK'
  BY DEF StartupInv, FilesOK, Closed, NodeClosed, IsConfig, Of
<1>3. InitOnce'
  BY <1>1 DEF StartupInv, InitOnce
<1>4. ConfigInv'
  BY <1>1 DEF Building, ConfigInv
<1> QED
  BY <1>2, <1>3, <1>4 DEF StartupInv

LEMMA StartupInit == Init => StartupInv
<1> SUFFICES ASSUME Init
             PROVE  StartupInv
  OBVIOUS
<1>1. FilesOK
  <2>1. \A v \in Versions : files[v] \in {None, Torn} \/ Closed(files[v])
    BY OfClosed, StartupAssumption DEF Init
  <2> QED
    BY <2>1 DEF Init, FilesOK
<1>2. LinkOK
  BY StartupAssumption, EmptySeq DEF Init, LinkOK, Objects
<1>3. InitOnce /\ ConfigInv
  BY DEF Init, InitOnce, ConfigInv
<1> QED
  BY <1>1, <1>2, <1>3 DEF StartupInv

\* The files are what they were.
LEMMA FilesKept ==
    ASSUME FilesOK, UNCHANGED <<device, files>>
    PROVE  FilesOK'
BY DEF FilesOK, Closed, NodeClosed, IsConfig, Of

\* init and config_init up to the building.
LEMMA ReadingKeeps ==
    ASSUME StartupInv,
           ReadFile \/ ReadTorn \/ Alive \/ NotAlive \/ SystemConfiguration
              \/ OtherFile
    PROVE  StartupInv'
<1> USE StartupAssumption DEF StartupInv
<1>1. CASE ReadFile
  <2>1. UNCHANGED <<device, files, alive, next, heard, ahead, inits>>
        /\ phase = "read" /\ phase' = "handshake"
    BY <1>1 DEF ReadFile, walkVars
  <2>2. IF ready' THEN config' = files[Expected] /\ config' \notin {None, Torn}
        ELSE config' = Empty
    BY <1>1, <2>1 DEF ReadFile, ConfigInv
  <2>3. ConfigInv'
    BY <2>1, <2>2 DEF ConfigInv, Empty
  <2> QED
    BY <2>1, <2>3, FilesKept DEF LinkOK, InitOnce
<1>2. CASE ReadTorn
  BY <1>2, FilesKept DEF ReadTorn, configVars, walkVars, linkVars, LinkOK, InitOnce,
                         ConfigInv
<1>3. CASE Alive \/ NotAlive
  <2>1. /\ UNCHANGED <<device, files, config, ready, next, heard, ahead>>
        /\ phase = "handshake"
        /\ \/ phase' = "system" /\ alive' = TRUE /\ inits' = inits + 1
           \/ phase' = "handshake" /\ inits' = inits
    BY <1>3 DEF Alive, NotAlive, walkVars, configVars
  <2>2. ConfigInv'
    BY <2>1 DEF ConfigInv, Empty
  <2>3. FilesOK'
    BY <2>1, FilesKept
  <2>4. /\ phase' = "system" => alive' /\ inits' = 1
        /\ phase' = "handshake" => inits' = 0
    BY <2>1 DEF InitOnce
  <2>5. InitOnce' /\ LinkOK'
    BY <2>1, <2>4 DEF InitOnce, LinkOK
  <2> QED
    BY <2>2, <2>3, <2>5
<1>4. CASE SystemConfiguration
  <2>1. /\ UNCHANGED <<device, files, ready, alive, heard, inits>>
        /\ phase = "system" /\ alive /\ inits = 1
    BY <1>4 DEF SystemConfiguration, InitOnce
  <2>2. CASE ~ready
    <3>1. config = Empty /\ Describe(1)
      BY <1>4, <2>1, <2>2 DEF SystemConfiguration, ConfigInv, Build
    <3>2. IsConfig(config) /\ DOMAIN config.nodes = {}
      BY <3>1 DEF IsConfig, Empty
    <3>3. 1 \in Objects
      BY DEF Objects
    <3> QED
      BY <2>1, <3>1, <3>2, <3>3, DescribeKeeps, BuildingKeeps
  <2>3. CASE ready
    <3>1. /\ UNCHANGED <<config, next, ahead>>
          /\ phase' = IF device = Expected THEN "done" ELSE "other file"
      BY <1>4, <2>3 DEF SystemConfiguration, SameVersion, walkVars
    <3>2. config = files[Expected] /\ config \notin {None, Torn} /\ Closed(config)
      BY <2>1, <2>3 DEF ConfigInv, FilesOK
    <3>3. (Closed(config))'
      BY <3>1, <3>2 DEF Closed, NodeClosed, IsConfig
    <3>4. ConfigInv'
      BY <2>1, <2>3, <3>1, <3>2, <3>3 DEF ConfigInv
    <3> QED
      BY <2>1, <3>1, <3>4, FilesKept DEF LinkOK, InitOnce
  <2> QED
    BY <2>2, <2>3
<1>5. CASE OtherFile
  <2>1. /\ UNCHANGED <<device, files, ready, alive, heard, inits>>
        /\ phase = "other file" /\ alive /\ inits = 1
        /\ files[device] # Torn
    BY <1>5 DEF OtherFile, InitOnce
  <2>2. CASE files[device] = None
    <3>1. Describe(1)
      BY <1>5, <2>2 DEF OtherFile, Build
    <3>2. ready /\ config = Of(Expected)
      BY <2>1 DEF ConfigInv, FilesOK
    <3>3. IsConfig(config)
      BY <3>2, OfClosed DEF Closed, StartupAssumption
    <3>4. 1 \in Objects
      BY DEF Objects
    <3> QED
      BY <2>1, <3>1, <3>2, <3>3, <3>4, DescribeKeeps, BuildingKeeps
  <2>3. CASE files[device] # None
    <3>1. /\ config' = files[device] /\ phase' = "done"
          /\ UNCHANGED <<next, ahead>>
      BY <1>5, <2>3 DEF OtherFile, walkVars
    <3>2. Closed(files[device])
      BY <2>1, <2>3 DEF FilesOK
    <3>3. (Closed(config))'
      BY <2>1, <3>1, <3>2 DEF Closed, NodeClosed, IsConfig
    <3> QED
      BY <2>1, <3>1, <3>3, FilesKept DEF LinkOK, InitOnce, ConfigInv
  <2> QED
    BY <2>2, <2>3
<1> QED
  BY <1>1, <1>2, <1>3, <1>4, <1>5

\* The descriptions, asked for one after the other.
LEMMA DescriptionKeeps ==
    ASSUME StartupInv, DescribeOne \/ ObjectDescription
    PROVE  StartupInv'
<1> USE StartupAssumption DEF StartupInv
<1>1. /\ UNCHANGED <<device, files, ready, alive, heard, inits>>
      /\ phase = "objects" /\ alive /\ inits = 1
      /\ next \in Objects /\ heard \in Objects /\ device \in Versions
      /\ IsConfig(config)
      /\ \/ DOMAIN config.nodes = {}
         \/ ready /\ config = Of(Expected) /\ link = "idle"
  BY DEF DescribeOne, ObjectDescription, InitOnce, ConfigInv, LinkOK, FilesOK
<1>2. CASE DescribeOne
  BY <1>1, <1>2, DescribeKeeps, BuildingKeeps DEF DescribeOne
<1>3. CASE ObjectDescription
  <2>1. link = "answered" /\ DescribeNext(Described(config, heard), next)
    BY <1>3 DEF ObjectDescription
  <2>2. /\ IsConfig(Described(config, heard))
        /\ DOMAIN Described(config, heard).nodes = {}
    BY <1>1, <2>1, DescribedFacts
  <2> QED
    BY <1>1, <2>1, <2>2, DescribeNextKeeps, BuildingKeeps
<1> QED
  BY <1>2, <1>3

\* The answers about a node.
LEMMA NodeKeeps ==
    ASSUME StartupInv, ObjectType \/ NodeDescription
    PROVE  StartupInv'
<1> USE StartupAssumption DEF StartupInv
<1>1. /\ UNCHANGED <<device, files, ready, alive, heard, inits>>
      /\ phase \in {"tree", "node"} /\ alive /\ inits = 1
      /\ next \in Objects /\ heard \in Objects /\ device \in Versions
      /\ ahead \in Seq(Objects)
  BY DEF ObjectType, NodeDescription, InitOnce, LinkOK, FilesOK
<1>2. CASE ObjectType
  <2> DEFINE c == Typed(config, path, heard)
  <2>1. Visiting(c, path, stack, heard)
    BY <1>1, <1>2, TypedVisits DEF ObjectType, ConfigInv
  <2>2. CASE c.objects[heard] = None
    <3>1. /\ config' = c /\ phase' = "node" /\ next' = heard /\ link' = "sent"
          /\ ahead' = <<>> /\ UNCHANGED <<path, stack>>
      BY <1>2, <2>2 DEF ObjectType, Ask
    <3> HIDE DEF c
    <3>2. Visiting(config', path', stack', next') /\ config'.objects[next'] = None
      BY <2>1, <2>2, <3>1
    <3>5. \A i \in DOMAIN ahead' : ahead'[i] = next'
      BY <3>1
    <3>3. ConfigInv'
      BY <3>1, <3>2, <3>5 DEF ConfigInv
    <3>4. LinkOK' /\ FilesOK' /\ InitOnce'
      BY <1>1, <3>1, FilesKept, EmptySeq DEF LinkOK, InitOnce
    <3> QED
      BY <3>3, <3>4
  <2>3. CASE c.objects[heard] # None
    <3>1. Visit(c, heard) /\ UNCHANGED <<next, ahead>>
      BY <1>2, <2>3 DEF ObjectType
    <3> HIDE DEF c
    <3>2. Building'
      BY <2>1, <2>3, <3>1, VisitKeeps DEF Building
    <3>3. LinkOK'
      BY <1>1, <3>1 DEF LinkOK
    <3> QED
      BY <1>1, <3>2, <3>3, BuildingKeeps
  <2> QED
    BY <2>2, <2>3
<1>3. CASE NodeDescription
  <2> DEFINE c == Described(config, heard)
  <2>1. /\ phase = "node" /\ link = "answered" /\ Visit(c, heard)
        /\ UNCHANGED <<next, ahead>>
    BY <1>3 DEF NodeDescription
  <2>2. Visiting(config, path, stack, heard) /\ config.objects[heard] = None
    BY <2>1 DEF ConfigInv
  <2>3. Visiting(c, path, stack, heard) /\ c.objects[heard] # None
    BY <1>1, <2>2, DescribedVisits DEF StartupAssumption
  <2> HIDE DEF c
  <2>4. Building'
    BY <2>1, <2>3, VisitKeeps DEF Building
  <2>5. LinkOK'
    BY <1>1, <2>1 DEF LinkOK
  <2> QED
    BY <1>1, <2>4, <2>5, BuildingKeeps
<1> QED
  BY <1>2, <1>3

\* config_save, to its end or not.
LEMMA SaveKeeps ==
    ASSUME StartupInv, Save \/ ConfigSaved
    PROVE  StartupInv'
<1> USE StartupAssumption DEF StartupInv
<1>1. /\ UNCHANGED <<device, config, ready, alive, next, heard, ahead, inits>>
      /\ phase \in {"save", "saving"} /\ alive /\ inits = 1
      /\ \/ phase' = "failed"
         \/ phase' = "saving"
         \/ phase' = "done" /\ files' = [files EXCEPT ![device] = config]
      /\ \/ files' = files
         \/ \E found \in {None, Torn, config} :
               files' = [files EXCEPT ![device] = found]
  BY DEF Save, ConfigSaved, walkVars, linkVars, InitOnce
<1>2. Closed(config) /\ device \in Versions /\ files = [v \in Versions |-> files[v]]
  BY <1>1 DEF ConfigInv, FilesOK
<1>3. FilesOK'
  <2>1. CASE files' = files
    BY <1>1, <2>1, FilesKept
  <2>2. ASSUME NEW found \in {None, Torn, config},
               files' = [files EXCEPT ![device] = found]
        PROVE  FilesOK'
    <3>1. /\ files' = [v \in Versions |-> IF v = device THEN found ELSE files[v]]
          /\ found \in {None, Torn} \/ Closed(found)
      BY <1>2, <2>2
    <3>2. /\ files' = [v \in Versions |-> files'[v]]
          /\ \A v \in Versions : files'[v] \in {None, Torn} \/ Closed(files'[v])
          /\ \A v \in Versions \ {device} : files'[v] \in {None, Of(v)}
      BY <3>1 DEF FilesOK
    <3> QED
      BY <1>1, <1>2, <3>2 DEF FilesOK, Closed, NodeClosed, IsConfig, Of
  <2> QED
    BY <1>1, <2>1, <2>2
<1>4. (Closed(config))'
  BY <1>1, <1>2 DEF Closed, NodeClosed, IsConfig
<1>5. phase' = "done" => files'[device'] = config'
  BY <1>1, <1>2
<1>6. ConfigInv'
  BY <1>1, <1>4, <1>5 DEF ConfigInv
<1>7. LinkOK' /\ InitOnce'
  BY <1>1 DEF LinkOK, InitOnce
<1> QED
  BY <1>3, <1>6, <1>7

\* Two sequences of one element after each other.
LEMMA AllAlike ==
    ASSUME NEW S, NEW a \in Seq(S), NEW b \in Seq(S), NEW x,
           \A i \in 1..Len(a) : a[i] = x,
           \A i \in 1..Len(b) : b[i] = x
    PROVE  /\ a \o b \in Seq(S)
           /\ \A i \in 1..Len(a \o b) : (a \o b)[i] = x
<1> DEFINE c == a \o b
<1>1. /\ c \in Seq(S) /\ Len(c) = Len(a) + Len(b)
      /\ \A i \in 1..(Len(a) + Len(b)) :
            c[i] = IF i <= Len(a) THEN a[i] ELSE b[i - Len(a)]
      /\ Len(a) \in Nat /\ Len(b) \in Nat
  BY ConcatProperties
<1> HIDE DEF c
<1>2. ASSUME NEW i \in 1..Len(c)
      PROVE  c[i] = x
  <2>1. CASE i <= Len(a)
    BY <1>1, <2>1
  <2>2. CASE ~(i <= Len(a))
    <3>1. i - Len(a) \in 1..Len(b)
      BY <1>1, <2>2
    <3> QED
      BY <1>1, <2>2, <3>1
  <2> QED
    BY <2>1, <2>2
<1> QED
  BY <1>1, <1>2 DEF c

\* Every answer that is to come is about an object type.
LEMMA OwnFacts ==
    ASSUME StartupAssumption, FilesOK, LinkOK
    PROVE  /\ Own \in Seq(Objects)
           /\ Due \in Seq(Objects)
           /\ phase # "tree" => \A i \in 1..Len(Own) : Own[i] = next
<1>1. Own \in Seq(Objects)
  <2>1. CASE phase # "tree" \/ path \notin DOMAIN Tree[device]
    BY <2>1, EmptySeq DEF Own, LinkOK
  <2>2. CASE phase = "tree" /\ path \in DOMAIN Tree[device]
    <3>1. Tree[device][path] \in Objects
      BY <2>2, ChildNodes DEF FilesOK
    <3> QED
      BY <2>2, <3>1 DEF Own
  <2> QED
    BY <2>1, <2>2
<1>2. Due \in Seq(Objects)
  <2>1. (IF link = "sent" THEN Own ELSE <<>>) \in Seq(Objects)
    BY <1>1, EmptySeq
  <2> QED
    BY <2>1, ConcatProperties DEF Due, LinkOK
<1>3. ASSUME phase # "tree", NEW i \in 1..Len(Own)
      PROVE  Own[i] = next
  BY <1>3 DEF Own
<1> QED
  BY <1>1, <1>2, <1>3

\* What is asked for, answered, lost and repeated.
LEMMA LinkKeeps ==
    ASSUME StartupInv,
           Answer \/ Unheard \/ AnswerBusy \/ Lose \/ Timeout \/ EarlyTimeout
              \/ AskType
    PROVE  StartupInv'
<1>1. /\ UNCHANGED <<device, files, config, ready, alive, next, path, stack, inits>>
      /\ phase' = phase \/ phase' = "stuck"
      /\ (phase = "objects" /\ phase' = phase /\ link = "idle") => link' = "idle"
  BY DEF Answer, Unheard, AnswerBusy, Lose, Timeout, EarlyTimeout, AskType,
         configVars, walkVars
<1>2. /\ Own \in Seq(Objects)
      /\ Due \in Seq(Objects)
      /\ phase # "tree" => \A i \in 1..Len(Own) : Own[i] = next
  BY StartupAssumption, OwnFacts DEF StartupInv
<1>3. /\ LinkOK'
      /\ phase = "node" /\ phase' = phase =>
            /\ \A i \in DOMAIN ahead' : ahead'[i] = next
            /\ link' = "answered" => heard' = next
  <2>1. /\ ahead \in Seq(Objects) /\ heard \in Objects /\ next \in Objects
        /\ phase = "node" => /\ \A i \in 1..Len(ahead) : ahead[i] = next
                             /\ link = "answered" => heard = next
    <3>1. /\ ahead \in Seq(Objects) /\ heard \in Objects /\ next \in Objects
          /\ phase = "node" => /\ \A i \in DOMAIN ahead : ahead[i] = next
                               /\ link = "answered" => heard = next
      BY DEF StartupInv, LinkOK, ConfigInv
    <3>2. DOMAIN ahead = 1..Len(ahead)
      BY <3>1
    <3> QED
      BY <3>1, <3>2
  <2>2. CASE Answer
    <3>1. /\ Due # <<>> /\ heard' = Head(Due) /\ ahead' = Tail(Due) /\ next' = next
      BY <1>1, <2>2 DEF Answer
    <3>2. /\ Head(Due) \in Objects /\ Head(Due) = Due[1] /\ Tail(Due) \in Seq(Objects)
          /\ Len(Due) \in Nat \ {0} /\ Len(Tail(Due)) = Len(Due) - 1
          /\ \A i \in 1..Len(Tail(Due)) : Tail(Due)[i] = Due[i + 1]
      <4>1. Len(Due) \in Nat \ {0}
        BY <1>2, <3>1, EmptySeq
      <4>2. /\ Head(Due) \in Objects /\ Tail(Due) \in Seq(Objects)
            /\ Len(Tail(Due)) = Len(Due) - 1
            /\ \A i \in 1..Len(Tail(Due)) : Tail(Due)[i] = Due[i + 1]
        BY <1>2, <3>1, HeadTailProperties
      <4>3. Head(Due) = Due[1]
        BY <1>2, <4>1
      <4> QED
        BY <4>1, <4>2, <4>3
    <3>3. phase = "node" => \A i \in 1..Len(Due) : Due[i] = next
      <4> DEFINE more == IF link = "sent" THEN Own ELSE <<>>
      <4>1. /\ more \in Seq(Objects)
            /\ phase = "node" => \A i \in 1..Len(more) : more[i] = next
        BY <1>2, <2>1, EmptySeq
      <4>2. Due = ahead \o more
        BY DEF Due
      <4> HIDE DEF more
      <4> QED
        BY <2>1, <4>1, <4>2, AllAlike
    <3>4. phase = "node" => \A i \in 1..Len(ahead') : ahead'[i] = next
      <4>1. \A i \in 1..Len(Tail(Due)) : i + 1 \in 1..Len(Due)
        BY <3>2
      <4> QED
        BY <3>1, <3>2, <3>3, <4>1
    <3>5. phase = "node" => heard' = next
      BY <3>1, <3>2, <3>3
    <3> QED
      BY <2>1, <3>1, <3>2, <3>4, <3>5 DEF LinkOK
  <2>3. CASE Unheard
    <3>1. ahead # <<>> /\ ahead' = Tail(ahead) /\ UNCHANGED <<heard, next, link>>
          /\ link = "idle"
      BY <1>1, <2>3 DEF Unheard
    <3>2. /\ Tail(ahead) \in Seq(Objects) /\ Len(ahead) \in Nat
          /\ Len(Tail(ahead)) = Len(ahead) - 1
          /\ \A i \in 1..Len(Tail(ahead)) : Tail(ahead)[i] = ahead[i + 1]
      BY <2>1, <3>1, HeadTailProperties
    <3>3. \A i \in 1..Len(Tail(ahead)) : i + 1 \in 1..Len(ahead)
      BY <3>2
    <3>4. phase = "node" => \A i \in 1..Len(ahead') : ahead'[i] = next
      BY <2>1, <3>1, <3>2, <3>3
    <3> QED
      BY <2>1, <3>1, <3>2, <3>4 DEF LinkOK
  <2>4. CASE AnswerBusy \/ Lose \/ Timeout \/ AskType
    <3>1. UNCHANGED <<heard, ahead, next>>
          /\ link' \in {"busy", "lost", "sent", "idle"}
      BY <1>1, <2>4 DEF AnswerBusy, Lose, Timeout, Resend, AskType, Ask
    <3> QED
      BY <2>1, <3>1 DEF LinkOK
  <2>5. CASE EarlyTimeout
    <3>1. ahead' = ahead \o Own /\ UNCHANGED <<heard, next>> /\ link' = "sent"
      BY <1>1, <2>5 DEF EarlyTimeout, Resend
    <3>2. /\ ahead' \in Seq(Objects)
          /\ phase = "node" => \A i \in 1..Len(ahead') : ahead'[i] = next
      <4>1. CASE phase = "node"
        BY <1>2, <2>1, <3>1, <4>1, AllAlike
      <4>2. CASE phase # "node"
        BY <1>2, <2>1, <3>1, <4>2, ConcatProperties
      <4> QED
        BY <4>1, <4>2
    <3> QED
      BY <2>1, <3>1, <3>2 DEF LinkOK
  <2> QED
    BY <2>2, <2>3, <2>4, <2>5
<1>4. FilesOK' /\ InitOnce'
  BY <1>1, FilesKept DEF StartupInv, InitOnce
<1>5. Closed(config) => (Closed(config))'
  BY <1>1 DEF Closed, NodeClosed, IsConfig
<1>6. Walk(config, path, stack) => (Walk(config, path, stack))'
  BY <1>1
<1>7. Visiting(config, path, stack, next) => (Visiting(config, path, stack, next))'
  BY <1>1
<1>8. config = Of(Expected) => (config = Of(Expected))'
  BY <1>1 DEF Of
<1>9. ConfigInv'
  BY <1>1, <1>3, <1>5, <1>6, <1>7, <1>8 DEF StartupInv, ConfigInv, Empty, IsConfig
<1> QED
  BY <1>3, <1>4, <1>9 DEF StartupInv

\* After a restart it begins again, with the file as it was left.
LEMMA StartedAgain ==
    ASSUME StartupInv, Restart
    PROVE  StartupInv'
<1> USE StartupAssumption DEF StartupInv
<1>1. /\ device' = device /\ config' = Empty /\ ready' = FALSE /\ phase' = "read"
      /\ ahead' = <<>> /\ inits' = 0 /\ next' = 1 /\ heard' = 1
  BY DEF Restart
<1>2. FilesOK'
  <2>1. CASE files' = files
    BY <1>1, <2>1, FilesKept
  <2>2. ASSUME NEW found \in {None, Torn, config}, phase = "saving",
               files' = [files EXCEPT ![device] = found]
        PROVE  FilesOK'
    <3>1. Closed(config) /\ device \in Versions /\ files = [v \in Versions |-> files[v]]
      BY <2>2 DEF ConfigInv, FilesOK
    <3>2. /\ files' = [v \in Versions |-> IF v = device THEN found ELSE files[v]]
          /\ found \in {None, Torn} \/ Closed(found)
      BY <2>2, <3>1
    <3>3. /\ files' = [v \in Versions |-> files'[v]]
          /\ \A v \in Versions : files'[v] \in {None, Torn} \/ Closed(files'[v])
          /\ \A v \in Versions \ {device} : files'[v] \in {None, Of(v)}
      BY <3>2 DEF FilesOK
    <3> QED
      BY <1>1, <3>1, <3>3 DEF FilesOK, Closed, NodeClosed, IsConfig, Of
  <2> QED
    BY <2>1, <2>2 DEF Restart
<1>3. LinkOK'
  BY <1>1, EmptySeq DEF LinkOK, Objects
<1>4. InitOnce' /\ ConfigInv'
  BY <1>1 DEF InitOnce, ConfigInv, Empty
<1> QED
  BY <1>2, <1>3, <1>4

LEMMA StartupStepKeeps == StartupInv /\ [Next]_vars => StartupInv'
<1> SUFFICES ASSUME StartupInv, [Next]_vars
             PROVE  StartupInv'
  OBVIOUS
<1>1. CASE UNCHANGED vars
  <2>1. UNCHANGED <<device, files, config, ready, alive, phase, next, path, stack,
                    link, heard, ahead, inits>>
    BY <1>1 DEF vars, configVars, walkVars, linkVars
  <2>2. FilesOK' /\ InitOnce' /\ LinkOK'
    BY <2>1, FilesKept DEF InitOnce, LinkOK, StartupInv
  <2>3. Closed(config) => (Closed(config))'
    BY <2>1 DEF Closed, NodeClosed, IsConfig
  <2>4. ConfigInv'
    BY <2>1, <2>3 DEF ConfigInv, Empty, Of, IsConfig, StartupInv
  <2> QED
    BY <2>2, <2>4 DEF StartupInv
<1> QED
  BY <1>1, ReadingKeeps, DescriptionKeeps, NodeKeeps, SaveKeeps, LinkKeeps,
     StartedAgain DEF Next, Progress

-----------------------------------------------------------------------------
(* Built from nothing, and no answer late *)

\* The type of a node of the device.
TypeAt(p) == Tree[device][p]

\* What was visited are nodes of the device, each counted once, ...
Visited(c) ==
    /\ c.objects = [o \in Objects |-> device]
    /\ IsFiniteSet(DOMAIN c.nodes)
    /\ c.count = Cardinality(DOMAIN c.nodes)
    /\ \A q \in DOMAIN c.nodes :
          /\ q \in DOMAIN Tree[device] /\ c.nodes[q] = Tree[device][q]
          /\ q # <<>> => Front(q) \in DOMAIN c.nodes

\* ... and the path is a node of the device that was not: of the levels above
\* it no later child was.
Onward(c, p, s) ==
    /\ p \in DOMAIN Tree[device] \ DOMAIN c.nodes
    /\ \A d \in 1..Len(p) :
          /\ Children[device][Tree[device][Above(p, d)]] = s[d] + 1
          /\ \A i \in Nat : Append(Above(p, d), i) \in DOMAIN c.nodes => i <= p[d]

\* Of a configuration that is built without any file, while no answer comes
\* after its timer.
Exactly ==
    /\ phase = "objects" =>
          /\ DOMAIN config.nodes = {}
          /\ config.objects = [o \in Objects |-> IF o < next THEN device ELSE None]
          /\ link = "answered" => heard = next
    /\ phase = "tree" =>
          /\ Visited(config)
          /\ Onward(config, path, stack)
          /\ link = "answered" => heard = TypeAt(path)
    /\ phase # "node"
    /\ phase \in {"save", "saving", "done"} => config = Of(device)

ExactInv ==
    /\ slow \in Nat
    /\ slow = 0 => ahead = <<>>
    /\ slow = 0 /\ ~ready => Exactly

\* A path that is not empty is a child of the path above its last level.
LEMMA FrontFacts ==
    ASSUME NEW p \in Seq(Nat), p # <<>>
    PROVE  /\ Len(p) \in Nat \ {0} /\ p[Len(p)] \in Nat
           /\ Front(p) = Above(p, Len(p)) /\ Front(p) \in Seq(Nat)
           /\ Len(Front(p)) = Len(p) - 1
           /\ Append(Front(p), p[Len(p)]) = p
<1> DEFINE m == Len(p)
<1>1. m \in Nat \ {0}
  BY EmptySeq
<1>2. p[m] \in Nat /\ m \in 1..Len(p)
  BY <1>1
<1>3. Front(p) = Above(p, m)
  BY DEF Front, Above
<1>4. Above(p, m) \in Seq(Nat) /\ Len(Above(p, m)) = m - 1 /\ Above(p, m + 1) = p
  BY <1>1, AboveFacts
<1>5. Append(Above(p, m), p[m]) = p
  BY <1>2, <1>4, AboveNext
<1> QED
  BY <1>1, <1>2, <1>3, <1>4, <1>5

\* The node at the path gets its type, and is counted.
LEMMA TypedKnown ==
    ASSUME StartupAssumption, device \in Versions,
           NEW c, NEW p, NEW s, NEW e, Walk(c, p, s), Visited(c), Onward(c, p, s),
           e.objects = c.objects,
           e.nodes = Typed(c, p, TypeAt(p)).nodes,
           e.count = c.count + 1
    PROVE  /\ Visited(e)
           /\ DOMAIN e.nodes = DOMAIN c.nodes \cup {p}
           /\ \A d \in 1..Len(p) : \A i \in Nat :
                 Append(Above(p, d), i) \in DOMAIN e.nodes => i <= p[d]
           /\ \A i \in Nat : Append(p, i) \notin DOMAIN e.nodes
<1> DEFINE D == DOMAIN c.nodes
           o == TypeAt(p)
           nodes == [q \in D \cup {p} |-> IF q = p THEN o ELSE c.nodes[q]]
<1>1. /\ p \in DOMAIN Tree[device] /\ p \notin D
      /\ p \in Seq(Nat) /\ Len(p) \in Nat
      /\ \A d \in 1..Len(p) : p[d] \in Nat /\ Above(p, d) \in D
  <2>1. p \in DOMAIN Tree[device] /\ p \notin D
    BY DEF Onward
  <2>2. /\ p \in Seq(Nat) /\ Len(p) \in Nat
        /\ \A d \in 1..Len(p) : Above(p, d) \in D
    BY DEF Walk, Levels
  <2>3. \A d \in 1..Len(p) : p[d] \in Nat
    BY <2>2
  <2> QED
    BY <2>1, <2>2, <2>3
<1>2. e.nodes = nodes
  <2>1. c = [objects |-> c.objects, nodes |-> c.nodes, count |-> c.count]
    BY DEF Walk, IsConfig
  <2>2. Typed(c, p, o) = [c EXCEPT !.nodes = nodes]
    BY <1>1 DEF Typed
  <2> HIDE DEF nodes
  <2>3. Typed(c, p, o).nodes = nodes
    BY <2>1, <2>2
  <2> QED
    BY <2>3
<1>3. /\ DOMAIN e.nodes = D \cup {p} /\ e.nodes[p] = o
      /\ \A q \in D : e.nodes[q] = c.nodes[q]
  BY <1>1, <1>2
<1> HIDE DEF nodes
<1>4. \A q \in D : q \in DOMAIN Tree[device] /\ q \in Seq(Nat)
  BY ChildNodes DEF Visited
<1>5. /\ IsFiniteSet(DOMAIN e.nodes)
      /\ e.count = Cardinality(DOMAIN e.nodes)
  <2>1. IsFiniteSet(D) /\ c.count = Cardinality(D)
    BY DEF Visited
  <2> HIDE DEF D
  <2>2. /\ IsFiniteSet(D \cup {p})
        /\ Cardinality(D \cup {p}) = Cardinality(D) + 1
    BY <1>1, <2>1, FS_AddElement
  <2> QED
    BY <1>3, <2>1, <2>2
<1>6. ASSUME NEW q \in DOMAIN e.nodes
      PROVE  /\ q \in DOMAIN Tree[device] /\ e.nodes[q] = Tree[device][q]
             /\ q # <<>> => Front(q) \in DOMAIN e.nodes
  <2>1. CASE q \in D
    BY <1>3, <2>1 DEF Visited
  <2>2. CASE q = p
    <3>1. ASSUME p # <<>>
          PROVE  Front(p) \in D
      <4>1. Len(p) \in 1..Len(p) /\ Front(p) = Above(p, Len(p))
        BY <1>1, <3>1, FrontFacts
      <4> QED
        BY <1>1, <4>1
    <3> QED
      BY <1>1, <1>3, <2>2, <3>1 DEF TypeAt
  <2> QED
    BY <1>3, <2>1, <2>2
<1>7. ASSUME NEW d \in 1..Len(p), NEW i \in Nat, Append(Above(p, d), i) \in DOMAIN e.nodes
      PROVE  i <= p[d]
  <2>1. CASE Append(Above(p, d), i) \in D
    BY <2>1 DEF Onward
  <2>2. CASE Append(Above(p, d), i) = p
    <3>1. Above(p, d) \in Seq(Nat) /\ Len(Above(p, d)) = d - 1 /\ d \in 1..(Len(p) + 1)
      <4>1. d \in 1..(Len(p) + 1)
        BY <1>1
      <4> QED
        BY <1>1, <4>1, AboveFacts
    <3>2. Append(Above(p, d), i)[d] = i
      BY <3>1, FrontAppend
    <3> QED
      BY <1>1, <2>2, <3>2
  <2> QED
    BY <1>3, <1>7, <2>1, <2>2
<1>8. ASSUME NEW i \in Nat, Append(p, i) \in DOMAIN e.nodes
      PROVE  FALSE
  <2>1. Append(p, i) # <<>> /\ Front(Append(p, i)) = p
    BY <1>1, FrontAppend
  <2>2. Append(p, i) # p
    <3>1. Len(Append(p, i)) = Len(p) + 1
      BY <1>1
    <3>2. Len(Append(p, i)) # Len(p)
      BY <1>1, <3>1
    <3> QED
      BY <3>2
  <2>3. Append(p, i) \in D
    BY <1>3, <1>8, <2>2
  <2>4. Front(Append(p, i)) \in D
    BY <2>1, <2>3 DEF Visited
  <2> QED
    BY <1>1, <2>1, <2>4
<1>9. e.objects = [t \in Objects |-> device]
  BY DEF Visited
<1> QED
  BY <1>3, <1>5, <1>6, <1>7, <1>8, <1>9 DEF Visited

\* Closed from the root on: it is the whole tree.
LEMMA WholeTree ==
    ASSUME StartupAssumption, device \in Versions, NEW c, Closed(c), Visited(c)
    PROVE  c = Of(device)
<1> DEFINE T == Tree[device]
           Out == DOMAIN T \ DOMAIN c.nodes
           L == { n \in Nat : \E q \in Out : Len(q) = n }
<1>1. /\ c = [objects |-> c.objects, nodes |-> c.nodes, count |-> c.count]
      /\ c.nodes \in [DOMAIN c.nodes -> Objects]
      /\ <<>> \in DOMAIN c.nodes
      /\ T \in [DOMAIN T -> Objects]
      /\ DOMAIN T \subseteq Seq(Nat)
      /\ \A p \in DOMAIN T : p # <<>> => Front(p) \in DOMAIN T
  BY DEF Closed, IsConfig, StartupAssumption
<1> HIDE DEF T
<1>2. Out = {}
  <2> SUFFICES ASSUME Out # {}
               PROVE  FALSE
    OBVIOUS
  <2>1. L # {}
    <3>1. PICK q \in Out : TRUE
      OBVIOUS
    <3>2. Len(q) \in Nat
      BY <1>1
    <3> QED
      BY <3>2
  <2>2. PICK n \in L : \A k \in L : n <= k
    <3>1. L \in SUBSET Nat
      OBVIOUS
    <3> HIDE DEF L
    <3> QED
      BY <2>1, <3>1, LeastNatural
  <2>3. PICK q \in Out : Len(q) = n
    BY <2>2
  <2> DEFINE f == Front(q)
             i == q[Len(q)]
  <2>4. /\ q \in Seq(Nat) /\ q # <<>> /\ q \in DOMAIN T /\ f \in DOMAIN T
    BY <1>1, <2>3
  <2>5. i \in Nat /\ Len(q) \in Nat \ {0} /\ Len(f) = Len(q) - 1 /\ Append(f, i) = q
    BY <2>4, FrontFacts
  <2> HIDE DEF f, i
  <2>6. f \in DOMAIN c.nodes
    <3>1. Len(f) \in Nat /\ ~(n <= Len(f))
      BY <2>3, <2>5
    <3>2. Len(f) \notin L
      BY <2>2, <3>1
    <3> QED
      BY <2>4, <3>1, <3>2
  <2>7. /\ c.nodes[f] = T[f] /\ c.objects[T[f]] = device
    <3>1. c.nodes[f] = T[f] /\ T[f] \in Objects
      BY <1>1, <2>4, <2>6 DEF Visited, T
    <3> QED
      BY <3>1 DEF Visited
  <2>8. i \in 0..(Children[device][T[f]] - 1)
    BY <2>4, <2>5, ChildNodes DEF T
  <2>9. Append(f, i) \in DOMAIN c.nodes
    BY <2>6, <2>7, <2>8 DEF Closed, NodeClosed
  <2> QED
    BY <2>3, <2>5, <2>9
<1>3. DOMAIN c.nodes = DOMAIN T
  BY <1>2 DEF Visited, T
<1>4. c.nodes = T
  <2>1. \A q \in DOMAIN T : c.nodes[q] = T[q]
    BY <1>3 DEF Visited, T
  <2> QED
    BY <1>1, <1>3, <2>1
<1>5. c.objects = [o \in Objects |-> device] /\ c.count = Cardinality(DOMAIN T)
  BY <1>3 DEF Visited
<1> QED
  BY <1>1, <1>4, <1>5 DEF Of, T

\* A visit goes on to a node that was not visited, or the configuration is that
\* of the device.
LEMMA VisitExact ==
    ASSUME StartupAssumption, device \in Versions, device' = device,
           NEW c, NEW b, Walk(b, path, stack), Visited(b), Onward(b, path, stack),
           c = Typed(b, path, TypeAt(path)),
           Visiting(c, path, stack, TypeAt(path)), c.objects = b.objects,
           c.count = b.count, Visit(c, TypeAt(path))
    PROVE  \/ /\ phase' = "tree" /\ link' = "idle"
              /\ Visited(config') /\ Onward(config', path', stack')
           \/ phase' = "save" /\ config' = Of(device)
<1> DEFINE o == TypeAt(path)
           n == Children[device][o]
           e == [c EXCEPT !.count = @ + 1]
           U == Unfinished(path, stack)
<1>1. /\ path \in Seq(Nat) /\ stack \in Seq(Nat) /\ Len(path) = Len(stack)
      /\ Len(path) \in Nat
      /\ path \in DOMAIN Tree[device] /\ o \in Objects /\ n \in Nat
      /\ \A d \in 1..Len(path) : path[d] \in Nat /\ stack[d] \in Nat
      /\ \A d \in 1..Len(path) : /\ path[d] <= stack[d]
                                 /\ Above(path, d) \in DOMAIN b.nodes
  <2>1. /\ path \in Seq(Nat) /\ stack \in Seq(Nat) /\ Len(path) = Len(stack)
        /\ \A d \in 1..Len(path) : /\ path[d] <= stack[d]
                                   /\ Above(path, d) \in DOMAIN b.nodes
    BY DEF Walk, Levels
  <2>2. path \in DOMAIN Tree[device]
    BY DEF Onward
  <2>3. o \in Objects /\ n \in Nat
    BY <2>2, ChildNodes DEF TypeAt
  <2>4. \A d \in 1..Len(path) : path[d] \in Nat /\ stack[d] \in Nat
    BY <2>1
  <2> QED
    BY <2>1, <2>2, <2>3, <2>4
<1>2. /\ config' = e /\ e.objects = b.objects /\ e.nodes = c.nodes
      /\ e.count = b.count + 1
  <2>1. c = [objects |-> c.objects, nodes |-> c.nodes, count |-> c.count]
    BY DEF Visiting, IsConfig
  <2> DEFINE w == c.count + 1
  <2>2. e = [c EXCEPT !.count = w] /\ w = b.count + 1
    OBVIOUS
  <2>3. config' = e
    BY DEF Visit
  <2> HIDE DEF w, e
  <2>4. e = [objects |-> c.objects, nodes |-> c.nodes, count |-> w]
    BY <2>1, <2>2
  <2>5. e.objects = c.objects /\ e.nodes = c.nodes /\ e.count = w
    BY <2>4
  <2> QED
    BY <2>2, <2>3, <2>5
<1>3. c.objects[o] = device /\ c.objects[o] # None
  <2>1. c.objects[o] = device
    BY <1>1 DEF Visited
  <2> QED
    BY <2>1 DEF StartupAssumption
<1> HIDE DEF e
<1>4. /\ Visited(e)
      /\ DOMAIN e.nodes = DOMAIN b.nodes \cup {path}
      /\ \A d \in 1..Len(path) : \A i \in Nat :
            Append(Above(path, d), i) \in DOMAIN e.nodes => i <= path[d]
      /\ \A i \in Nat : Append(path, i) \notin DOMAIN e.nodes
  BY <1>2, TypedKnown
<1>5. \A d \in 1..Len(path) :
         Children[device][Tree[device][Above(path, d)]] = stack[d] + 1
  BY DEF Onward
<1> HIDE DEF n, U, o
<1>6. CASE n > 0
  <2> DEFINE p == Append(path, 0)
             t == Append(stack, n - 1)
             m == Len(path) + 1
  <2>1. path' = p /\ stack' = t /\ phase' = "tree" /\ link' = "idle"
    <3>1. Children[c.objects[o]][o] = n
      BY <1>3 DEF n
    <3>2. /\ link' = "idle"
          /\ \/ /\ path' = Append(path, 0)
                /\ stack' = Append(stack, Children[c.objects[o]][o] - 1)
                /\ phase' = "tree"
             \/ Children[c.objects[o]][o] = 0
      BY DEF Visit, o
    <3>3. n # 0
      BY <1>1, <1>6
    <3> QED
      BY ONLY <3>1, <3>2, <3>3
  <2>2. /\ p \in Seq(Nat) /\ Len(p) = m /\ p[m] = 0 /\ t[m] = n - 1
        /\ \A d \in 1..Len(path) : p[d] = path[d] /\ t[d] = stack[d]
    BY <1>1, <1>6
  <2>3. /\ Above(p, m) = path
        /\ \A d \in 1..Len(path) : Above(p, d) = Above(path, d)
    <3>1. \A d \in 1..m : Above(p, d) = Above(path, d)
      BY <1>1, AboveChild
    <3>2. Above(path, m) = path /\ m \in 1..m
      BY <1>1, AboveFacts
    <3> QED
      BY <1>1, <3>1, <3>2
  <2>4. p \in DOMAIN Tree[device]
    <3>1. 0 \in 0..(Children[device][Tree[device][path]] - 1)
      BY <1>1, <1>6 DEF n, o, TypeAt
    <3> QED
      BY <1>1, <3>1, ChildNodes
  <2>5. p \notin DOMAIN e.nodes
    BY <1>4
  <2> HIDE DEF p, t
  <2>6. ASSUME NEW d \in 1..m
        PROVE  /\ Children[device][Tree[device][Above(p, d)]] = t[d] + 1
               /\ \A i \in Nat : Append(Above(p, d), i) \in DOMAIN e.nodes => i <= p[d]
    <3>1. CASE d = m
      <4>1. Children[device][Tree[device][Above(p, d)]] = n
        BY <2>3, <3>1 DEF n, o, TypeAt
      <4>2. t[d] + 1 = n
        <5>1. t[m] = n - 1 /\ n \in Nat
          BY <1>1, <2>2
        <5> QED
          BY <3>1, <5>1
      <4>3. \A i \in Nat : Append(Above(p, d), i) \notin DOMAIN e.nodes
        BY <1>4, <2>3, <3>1
      <4> QED
        BY <4>1, <4>2, <4>3
    <3>2. CASE d # m
      <4>1. d \in 1..Len(path)
        BY <1>1, <3>2
      <4> QED
        BY <1>4, <1>5, <2>2, <2>3, <4>1
    <3> QED
      BY <3>1, <3>2
  <2>7. Onward(e, p, t)
    BY <2>2, <2>4, <2>5, <2>6 DEF Onward
  <2> QED
    BY <1>2, <1>4, <2>1, <2>7
<1>7. CASE n = 0 /\ U # {}
  <2> DEFINE k == Max(U)
             p == Append(Above(path, k), path[k] + 1)
             t == SubSeq(stack, 1, k)
  <2>1. U \subseteq 1..Len(path)
    BY <1>1 DEF Unfinished, U
  <2>2. k \in U
    BY <1>1, <1>7, <2>1, MaxProperties
  <2>3. path' = p /\ stack' = t /\ phase' = "tree" /\ link' = "idle"
    <3>1. [SubSeq(path, 1, k) EXCEPT ![k] = @ + 1] = p
      BY <1>1, <2>1, <2>2, NextChild
    <3>2. /\ path' = [SubSeq(path, 1, k) EXCEPT ![k] = @ + 1]
          /\ stack' = t /\ phase' = "tree" /\ link' = "idle"
      BY <1>1, <1>3, <1>7 DEF Visit, n, U, o
    <3> QED
      BY <3>1, <3>2
  <2> HIDE DEF k
  <2>4. k \in 1..Len(path) /\ path[k] < stack[k] /\ path[k] \in Nat /\ stack[k] \in Nat
    BY <1>1, <2>2 DEF U, Unfinished
  <2>5. /\ p \in Seq(Nat) /\ Len(p) = k /\ p[k] = path[k] + 1
        /\ \A d \in 1..(k - 1) : p[d] = path[d]
        /\ \A d \in 1..k : Above(p, d) = Above(path, d)
    <3>1. /\ Above(path, k) \in Seq(Nat) /\ Len(Above(path, k)) = k - 1
          /\ \A d \in 1..(k - 1) : Above(path, k)[d] = path[d]
          /\ k \in 1..(Len(path) + 1)
      <4>1. k \in 1..(Len(path) + 1)
        BY <1>1, <2>4
      <4> QED
        BY <1>1, <4>1, AboveFacts
    <3>2. path[k] + 1 \in Nat
      BY <2>4
    <3>3. \A d \in 1..k : Above(p, d) = Above(Above(path, k), d)
      <4>1. \A d \in 1..k : d \in 1..(Len(Above(path, k)) + 1)
        BY <2>4, <3>1
      <4> QED
        BY <3>1, <3>2, <4>1, AboveChild
    <3>4. \A d \in 1..k : Above(Above(path, k), d) = Above(path, d)
      BY <1>1, <3>1, AboveAbove
    <3> QED
      BY <2>4, <3>1, <3>2, <3>3, <3>4
  <2>6. \A d \in 1..k : t[d] = stack[d]
    <3>1. k \in 1..Len(stack) /\ stack \in Seq(Nat)
      <4>1. stack \in Seq(Nat) /\ Len(path) = Len(stack)
        BY <1>1
      <4>2. k \in 1..Len(path)
        BY <2>4
      <4> QED
        BY <4>1, <4>2
    <3>2. t = [d \in 1..k |-> stack[d]]
      BY <3>1
    <3> QED
      BY <3>2
  <2>7. p \in DOMAIN Tree[device] /\ p \notin DOMAIN e.nodes
    <3> DEFINE f == Above(path, k)
               i == path[k] + 1
    <3>1. f \in DOMAIN Tree[device]
      BY <1>1, <2>4 DEF Visited
    <3>2. i \in Nat /\ ~(i <= path[k])
      BY <2>4
    <3>3. i \in 0..(Children[device][Tree[device][f]] - 1)
      <4>1. Children[device][Tree[device][f]] = stack[k] + 1
        BY <1>5, <2>4
      <4> QED
        BY <2>4, <4>1
    <3> HIDE DEF i
    <3>4. Append(f, i) \in DOMAIN Tree[device]
      BY <3>1, <3>2, <3>3, ChildNodes
    <3>5. Append(f, i) \notin DOMAIN e.nodes
      BY <1>4, <2>4, <3>2
    <3> QED
      BY <3>4, <3>5 DEF i
  <2> HIDE DEF p, t
  <2>8. ASSUME NEW d \in 1..k
        PROVE  /\ Children[device][Tree[device][Above(p, d)]] = t[d] + 1
               /\ \A i \in Nat : Append(Above(p, d), i) \in DOMAIN e.nodes => i <= p[d]
    <3>1. d \in 1..Len(path) /\ Above(p, d) = Above(path, d) /\ t[d] = stack[d]
      <4>1. d \in 1..Len(path)
        <5>1. Len(path) \in Nat /\ k \in 1..Len(path)
          BY <1>1, <2>4
        <5> QED
          BY <5>1
      <4>2. Above(p, d) = Above(path, d)
        BY <2>5
      <4> QED
        BY <2>6, <4>1, <4>2
    <3>2. \A i \in Nat : Append(Above(p, d), i) \in DOMAIN e.nodes => i <= path[d]
      BY <1>4, <3>1
    <3>3. p[d] = path[d] \/ p[d] = path[d] + 1
      <4>1. d = k \/ d \in 1..(k - 1)
        BY <2>4
      <4> QED
        BY <2>5, <4>1
    <3>4. \A i \in Nat : i <= path[d] => i <= p[d]
      BY <1>1, <3>1, <3>3
    <3> QED
      BY <1>5, <3>1, <3>2, <3>4
  <2>9. Onward(e, p, t)
    BY <2>5, <2>7, <2>8 DEF Onward
  <2> QED
    BY <1>2, <1>4, <2>3, <2>9
<1>8. CASE n = 0 /\ U = {}
  <2>1. phase' = "save"
    BY <1>1, <1>3, <1>8 DEF Visit, n, U, o
  <2>2. Closed(e)
    BY <1>2, <1>3, <2>1, VisitKeeps DEF o
  <2> QED
    BY <1>2, <1>4, <2>1, <2>2, WholeTree
<1> QED
  BY <1>1, <1>6, <1>7, <1>8

LEMMA ExactInit == Init => ExactInv
BY DEF Init, ExactInv, Exactly

\* controlTree_build counts from 0.
LEMMA CountReset ==
    ASSUME NEW c, IsConfig(c)
    PROVE  /\ [c EXCEPT !.count = 0].objects = c.objects
           /\ [c EXCEPT !.count = 0].nodes = c.nodes
           /\ [c EXCEPT !.count = 0].count = 0
<1>1. [c EXCEPT !.count = 0] = [objects |-> c.objects, nodes |-> c.nodes, count |-> 0]
  BY DEF IsConfig
<1> QED
  BY <1>1

\* config_build, with nothing in self.config yet: every type is asked for.
LEMMA DescribeExact ==
    ASSUME StartupAssumption, device \in Versions, device' = device,
           NEW c, NEW o \in Objects, IsConfig(c), DOMAIN c.nodes = {},
           c.objects = [t \in Objects |-> IF t < o + 1 THEN device ELSE None],
           DescribeNext(c, o)
    PROVE  \/ /\ phase' = "objects" /\ link' = "idle"
              /\ DOMAIN config'.nodes = {}
              /\ config'.objects
                 = [t \in Objects |-> IF t < next' THEN device ELSE None]
           \/ /\ phase' = "tree" /\ link' = "sent"
              /\ Visited(config') /\ Onward(config', path', stack')
<1>1. CASE o < NumObjects
  <2>1. /\ config' = c /\ phase' = "objects" /\ link' = "idle" /\ next' = o + 1
    BY <1>1 DEF DescribeNext
  <2>2. config'.objects = [t \in Objects |-> IF t < next' THEN device ELSE None]
    BY <2>1
  <2> QED
    BY <2>1, <2>2
<1>2. CASE ~(o < NumObjects)
  <2> DEFINE e == [c EXCEPT !.count = 0]
  <2>1. /\ config' = e /\ phase' = "tree" /\ path' = <<>> /\ stack' = <<>>
        /\ link' = "sent"
    BY <1>2 DEF DescribeNext, BuildTree, Ask
  <2> HIDE DEF e
  <2>3. e.objects = c.objects /\ e.nodes = c.nodes /\ e.count = 0
    BY CountReset DEF e
  <2>4. e.objects = [t \in Objects |-> device]
    <3>1. \A t \in Objects : t < o + 1
      BY <1>2 DEF Objects, StartupAssumption
    <3> QED
      BY <2>3, <3>1
  <2>5. Visited(e)
    BY <2>3, <2>4, FS_EmptySet DEF Visited
  <2>6. Onward(e, <<>>, <<>>)
    <3>1. <<>> \in DOMAIN Tree[device]
      BY DEF StartupAssumption
    <3> QED
      BY <2>3, <3>1 DEF Onward
  <2> QED
    BY <2>1, <2>5, <2>6
<1> QED
  BY <1>1, <1>2

LEMMA ExactStepKeeps == StartupInv /\ ExactInv /\ [Next]_vars => ExactInv'
<1> SUFFICES ASSUME StartupInv, ExactInv, [Next]_vars
             PROVE  ExactInv'
  OBVIOUS
<1>1. /\ slow \in Nat
      /\ slow = 0 => ahead = <<>>
      /\ slow = 0 /\ ~ready => Exactly
      /\ device \in Versions
      /\ heard \in Objects /\ next \in Objects
      /\ FilesOK /\ LinkOK /\ ConfigInv
  BY DEF ExactInv, StartupInv, FilesOK, LinkOK
<1>2. device' = device
  BY DEF Next, Progress, vars, ReadFile, ReadTorn, Alive, NotAlive,
         SystemConfiguration, OtherFile, DescribeOne, ObjectDescription, AskType,
         ObjectType, NodeDescription, Save, ConfigSaved, Timeout, Answer, Unheard,
         AnswerBusy, Lose, EarlyTimeout, Restart
<1>3. /\ (Of(device))' = Of(device)
      /\ Visited(config') => (Visited(config))'
      /\ Onward(config', path', stack') => (Onward(config, path, stack))'
      /\ (TypeAt(path))' = TypeAt(path')
  BY <1>2 DEF Of, Visited, Onward, TypeAt
\* The same configuration, phase and path, or a phase that says nothing.
<1>4. ASSUME UNCHANGED <<ready, slow>>,
             \/ /\ UNCHANGED <<config, phase, path, stack, next>>
                /\ link' = "answered" => UNCHANGED <<link, heard>>
             \/ phase' \notin {"objects", "tree", "node", "save", "saving", "done"},
             slow = 0 => ahead' = <<>>
      PROVE  ExactInv'
  BY <1>1, <1>2, <1>3, <1>4 DEF ExactInv, Exactly
<1>5. CASE UNCHANGED vars
  BY <1>1, <1>4, <1>5 DEF vars, configVars, walkVars, linkVars, countVars
<1>6. CASE \/ ReadTorn \/ Alive \/ NotAlive \/ AskType \/ Timeout \/ AnswerBusy
           \/ Lose
  <2>1. /\ UNCHANGED <<ready, slow, ahead>>
        /\ \/ /\ UNCHANGED <<config, phase, path, stack, next>>
              /\ link' # "answered"
           \/ phase' \in {"dead", "system", "stuck"}
    BY <1>6 DEF ReadTorn, Alive, NotAlive, Rehandshake, AskType, Timeout, Resend,
                AnswerBusy, Lose, Ask, configVars, walkVars, linkVars, countVars
  <2> QED
    BY <1>1, <1>4, <2>1
<1>7. CASE ReadFile \/ Restart
  BY <1>1, <1>7 DEF ReadFile, Restart, ExactInv, Exactly, countVars
<1>8. CASE SystemConfiguration
  <2>1. UNCHANGED <<slow, ready, heard>> /\ phase = "system"
    BY <1>8 DEF SystemConfiguration, countVars
  <2>2. CASE ready
    BY <1>1, <1>8, <2>1, <2>2 DEF SystemConfiguration, ExactInv
  <2>3. CASE ~ready
    <3>1. config = Empty /\ Describe(1)
      BY <1>1, <1>8, <2>1, <2>3 DEF SystemConfiguration, Build, ConfigInv
    <3>2. 1 \in Objects
      BY StartupAssumption DEF Objects
    <3>3. /\ phase' = "objects" /\ next' = 1 /\ link' = "sent"
          /\ UNCHANGED <<config, ahead>>
      BY <3>1, <3>2 DEF Describe, Empty, Ask
    <3>4. /\ DOMAIN config'.nodes = {}
          /\ config'.objects = [o \in Objects |-> IF o < next' THEN device' ELSE None]
      BY <3>1, <3>3 DEF Empty, Objects
    <3> QED
      BY <1>1, <2>1, <3>3, <3>4 DEF ExactInv, Exactly
  <2> QED
    BY <2>2, <2>3
<1>9. CASE OtherFile
  <2>1. UNCHANGED <<slow, ready>> /\ ready /\ ahead' \in {ahead, <<>>}
    BY <1>1, <1>9 DEF OtherFile, ConfigInv, Build, Describe, DescribeNext, BuildTree,
                      countVars
  <2> QED
    BY <1>1, <2>1 DEF ExactInv
<1>10. CASE DescribeOne
  <2>1. UNCHANGED <<slow, ready>> /\ phase = "objects" /\ Describe(next)
    BY <1>10 DEF DescribeOne, countVars
  <2>2. ahead' \in {ahead, <<>>}
    BY <2>1 DEF Describe, DescribeNext, BuildTree
  <2>3. ASSUME slow = 0, ~ready
        PROVE  Exactly'
    <3>1. /\ DOMAIN config.nodes = {}
          /\ config.objects = [o \in Objects |-> IF o < next THEN device ELSE None]
      BY <1>1, <2>1, <2>3 DEF Exactly
    <3>2. config.objects[next] = None
      BY <1>1, <3>1 DEF Objects
    <3>3. phase' = "objects" /\ next' = next /\ link' = "sent" /\ config' = config
      BY <2>1, <3>2 DEF Describe, Ask
    <3> QED
      BY <1>2, <3>1, <3>3 DEF Exactly
  <2> QED
    BY <1>1, <2>1, <2>2, <2>3 DEF ExactInv
<1>11. CASE ObjectDescription
  <2> DEFINE c == Described(config, heard)
  <2>1. UNCHANGED <<slow, ready>> /\ phase = "objects" /\ link = "answered"
        /\ DescribeNext(c, next)
    BY <1>11 DEF ObjectDescription, countVars
  <2>2. ahead' \in {ahead, <<>>}
    BY <2>1 DEF DescribeNext, BuildTree
  <2>3. ASSUME slow = 0, ~ready
        PROVE  Exactly'
    <3>1. /\ DOMAIN config.nodes = {} /\ heard = next /\ IsConfig(config)
          /\ config.objects = [o \in Objects |-> IF o < next THEN device ELSE None]
      BY <1>1, <2>1, <2>3 DEF Exactly, ConfigInv
    <3>2. /\ IsConfig(c) /\ c.nodes = config.nodes /\ c.objects[next] = device
          /\ \A t \in Objects \ {next} : c.objects[t] = config.objects[t]
      BY <1>1, <3>1, DescribedFacts
    <3> HIDE DEF c
    <3>3. c.objects = [t \in Objects |-> IF t < next + 1 THEN device ELSE None]
      <4>1. \A t \in Objects : c.objects[t] = IF t < next + 1 THEN device ELSE None
        <5> TAKE t \in Objects
        <5>1. t \in Nat /\ next \in Nat
          BY <1>1 DEF Objects
        <5>2. CASE t = next
          BY <3>2, <5>1, <5>2
        <5>3. CASE t # next
          <6>1. t < next + 1 <=> t < next
            BY <5>1, <5>3
          <6> QED
            BY <3>1, <3>2, <5>3, <6>1
        <5> QED
          BY <5>2, <5>3
      <4>2. c.objects = [t \in Objects |-> c.objects[t]]
        BY <3>2 DEF IsConfig
      <4> QED
        BY <4>1, <4>2
    <3>4. \/ /\ phase' = "objects" /\ link' = "idle"
             /\ DOMAIN config'.nodes = {}
             /\ config'.objects
                = [t \in Objects |-> IF t < next' THEN device ELSE None]
          \/ /\ phase' = "tree" /\ link' = "sent"
             /\ Visited(config') /\ Onward(config', path', stack')
      BY <1>1, <1>2, <2>1, <3>1, <3>2, <3>3, DescribeExact, StartupAssumption
    <3> QED
      BY <1>2, <1>3, <3>4 DEF Exactly
  <2> QED
    BY <1>1, <2>1, <2>2, <2>3 DEF ExactInv
<1>12. CASE ObjectType
  <2> DEFINE c == Typed(config, path, heard)
  <2>1. UNCHANGED <<slow, ready>> /\ phase = "tree" /\ link = "answered"
    BY <1>12 DEF ObjectType, countVars
  <2>2. ahead' \in {ahead, <<>>}
    BY <1>12 DEF ObjectType
  <2>3. ASSUME slow = 0, ~ready
        PROVE  Exactly'
    <3>1. /\ Visited(config) /\ Onward(config, path, stack) /\ heard = TypeAt(path)
          /\ Walk(config, path, stack)
      BY <1>1, <2>1, <2>3 DEF Exactly, ConfigInv
    <3>2. Visiting(c, path, stack, heard) /\ c.objects = config.objects
      BY <1>1, <3>1, TypedVisits
    <3>3. c.count = config.count
      <4>1. config = [objects |-> config.objects, nodes |-> config.nodes,
                      count |-> config.count]
        BY <3>1 DEF Walk, IsConfig
      <4>2. c = config \/ \E nodes : c = [config EXCEPT !.nodes = nodes]
        BY DEF Typed
      <4> HIDE DEF c
      <4> QED
        BY <4>1, <4>2
    <3>4. c.objects[heard] # None
      BY <1>1, <3>1, <3>2, StartupAssumption DEF Visited, StartupAssumption
    <3>5. Visit(c, heard)
      BY <1>12, <3>4 DEF ObjectType
    <3>6. \/ /\ phase' = "tree" /\ link' = "idle"
             /\ Visited(config') /\ Onward(config', path', stack')
          \/ phase' = "save" /\ config' = Of(device)
      BY <1>1, <1>2, <3>1, <3>2, <3>3, <3>5, VisitExact, StartupAssumption
    <3> QED
      BY <1>3, <3>6 DEF Exactly
  <2> QED
    BY <1>1, <2>1, <2>2, <2>3 DEF ExactInv
<1>13. CASE NodeDescription
  <2>1. UNCHANGED <<slow, ready, ahead>> /\ phase = "node"
    BY <1>13 DEF NodeDescription, countVars
  <2> QED
    BY <1>1, <2>1 DEF ExactInv, Exactly
<1>14. CASE Save \/ ConfigSaved
  <2>1. /\ UNCHANGED <<config, slow, ready, ahead>>
        /\ phase \in {"save", "saving"} /\ phase' \in {"saving", "failed", "done"}
    BY <1>14 DEF Save, ConfigSaved, linkVars, countVars
  <2> QED
    BY <1>1, <1>3, <2>1 DEF ExactInv, Exactly
<1>15. CASE Answer
  <2>1. /\ UNCHANGED <<config, phase, path, stack, next, slow, ready>>
        /\ Due # <<>> /\ heard' = Head(Due) /\ ahead' = Tail(Due)
    BY <1>15 DEF Answer, configVars, walkVars, countVars
  <2>2. ASSUME slow = 0
        PROVE  /\ ahead' = <<>>
               /\ phase # "tree" => heard' = next
               /\ (phase = "tree" /\ path \in DOMAIN Tree[device])
                     => heard' = TypeAt(path)
    <3>1. Due = Own
      <4>1. Own \in Seq(Objects)
        BY <1>1, OwnFacts, StartupAssumption
      <4>2. link = "sent" => Due = Own
        BY <1>1, <2>2, <4>1 DEF Due
      <4>3. link # "sent" => Due = <<>>
        BY <1>1, <2>2 DEF Due
      <4> QED
        BY <2>1, <4>2, <4>3
    <3>2. \E x : /\ Own = <<x>>
                 /\ phase # "tree" => x = next
                 /\ phase = "tree" => x = TypeAt(path)
      BY <2>1, <3>1 DEF Own, TypeAt
    <3>3. PICK x : /\ Due = <<x>>
                   /\ phase # "tree" => x = next
                   /\ phase = "tree" => x = TypeAt(path)
      BY <3>1, <3>2
    <3> QED
      BY <2>1, <3>3
  <2>3. ASSUME slow = 0, ~ready
        PROVE  Exactly'
    <3>1. phase = "tree" => path \in DOMAIN Tree[device]
      BY <1>1, <2>3 DEF Exactly, Onward
    <3> QED
      BY <1>1, <1>2, <1>3, <2>1, <2>2, <2>3, <3>1 DEF Exactly
  <2> QED
    BY <1>1, <2>1, <2>2, <2>3 DEF ExactInv
<1>16. CASE Unheard
  BY <1>1, <1>4, <1>16 DEF Unheard, configVars, walkVars, countVars
<1>17. CASE EarlyTimeout
  <2>1. slow' = slow + 1
    BY <1>17 DEF EarlyTimeout
  <2> QED
    BY <1>1, <2>1 DEF ExactInv
<1> QED
  BY <1>5, <1>6, <1>7, <1>8, <1>9, <1>10, <1>11, <1>12, <1>13, <1>14, <1>15, <1>16,
     <1>17 DEF Next, Progress

-----------------------------------------------------------------------------
(* The tree of a configuration *)

\* A configuration whose tree is finite and has the nodes above each node.
Rooted(c) ==
    /\ IsConfig(c)
    /\ IsFiniteSet(DOMAIN c.nodes)
    /\ DOMAIN c.nodes \subseteq Seq(Nat)
    /\ \A p \in DOMAIN c.nodes : \A d \in 1..(Len(p) + 1) : Above(p, d) \in DOMAIN c.nodes

TreeInv ==
    /\ Rooted(config)
    /\ \A v \in Versions : files[v] \in {None, Torn} \/ Rooted(files[v])

\* The tree of a version has the nodes above each of its nodes.
LEMMA OfRooted ==
    ASSUME StartupAssumption, NEW v \in Versions
    PROVE  Rooted(Of(v))
<1> DEFINE D == DOMAIN Tree[v]
<1>1. /\ IsConfig(Of(v)) /\ Of(v).nodes = Tree[v]
  BY OfClosed DEF Closed, Of
<1>2. /\ D \subseteq Seq(Nat) /\ IsFiniteSet(D)
      /\ \A p \in D : p # <<>> => Front(p) \in D
  BY DEF StartupAssumption
<1> HIDE DEF D
<1>3. ASSUME NEW p \in D, NEW d \in 1..(Len(p) + 1)
      PROVE  Above(p, d) \in D
  <2>1. p \in Seq(Nat) /\ Len(p) \in Nat
    BY <1>2, <1>3
  <2>2. ASSUME NEW e \in 1..Len(p), Above(p, e + 1) \in D
        PROVE  Above(p, e) \in D
    <3> DEFINE q == Above(p, e + 1)
    <3>1. e + 1 \in 1..(Len(p) + 1) /\ e \in 1..(e + 1) /\ e \in Nat \ {0}
          /\ (e + 1) - 1 = e
      BY <2>1
    <3>2. q \in Seq(Nat) /\ Len(q) = e
      BY <2>1, <3>1, AboveFacts
    <3>3. Above(q, e) = Above(p, e)
      BY <2>1, <3>1, AboveAbove
    <3> HIDE DEF q
    <3>4. q # <<>>
      BY <3>1, <3>2
    <3>5. Front(q) = Above(q, e)
      BY <3>2 DEF Front, Above
    <3>6. q \in D
      BY <2>2 DEF q
    <3> QED
      BY <1>2, <3>3, <3>4, <3>5, <3>6
  <2> DEFINE T == { k \in Nat : k <= Len(p) /\ Above(p, Len(p) + 1 - k) \notin D }
  <2>3. ASSUME T # {}
        PROVE  FALSE
    <3>1. PICK k \in T : \A j \in T : k <= j
      BY <2>3, LeastNatural
    <3>2. k \in Nat /\ k <= Len(p) /\ Above(p, Len(p) + 1 - k) \notin D
      BY <3>1
    <3>3. k # 0
      <4>1. Above(p, Len(p) + 1) = p
        BY <2>1, AboveFacts
      <4>2. k = 0 => Len(p) + 1 - k = Len(p) + 1
        BY <2>1
      <4> QED
        BY <1>3, <3>2, <4>1, <4>2
    <3>4. /\ Len(p) + 1 - k \in 1..Len(p)
          /\ Len(p) + 1 - (k - 1) = (Len(p) + 1 - k) + 1
          /\ k - 1 \in Nat /\ k - 1 <= Len(p) /\ ~(k <= k - 1)
      BY <2>1, <3>2, <3>3
    <3>5. ~(k - 1 \in T)
      BY <3>1, <3>4
    <3>6. Above(p, (Len(p) + 1 - k) + 1) \in D
      BY <3>4, <3>5
    <3> QED
      BY <2>2, <3>2, <3>4, <3>6
  <2>4. Len(p) + 1 - d \in Nat /\ Len(p) + 1 - d <= Len(p)
        /\ Len(p) + 1 - (Len(p) + 1 - d) = d
    BY <1>3, <2>1
  <2>5. ~(Len(p) + 1 - d \in T)
    BY <2>3
  <2> QED
    BY <2>4, <2>5
<1> QED
  BY <1>1, <1>2, <1>3 DEF Rooted, D

\* The node at the path gets a type: those above it are there.
LEMMA TypedRooted ==
    ASSUME NEW c, NEW p, NEW s, NEW o \in Objects, Rooted(c), Levels(c, p, s)
    PROVE  Rooted(Typed(c, p, o))
<1> DEFINE e == Typed(c, p, o)
<1>1. CASE p \in DOMAIN c.nodes
  BY <1>1 DEF Typed
<1>2. CASE p \notin DOMAIN c.nodes
  <2>1. /\ c = [objects |-> c.objects, nodes |-> c.nodes, count |-> c.count]
        /\ c.objects \in [Objects -> Versions \cup {None}]
        /\ c.nodes \in [DOMAIN c.nodes -> Objects]
        /\ IsFiniteSet(DOMAIN c.nodes) /\ DOMAIN c.nodes \subseteq Seq(Nat)
    BY DEF Rooted, IsConfig
  <2> DEFINE n == [q \in DOMAIN c.nodes \cup {p} |-> IF q = p THEN o ELSE c.nodes[q]]
  <2>2. e = [c EXCEPT !.nodes = n]
    BY <1>2 DEF Typed
  <2>3. n \in [DOMAIN c.nodes \cup {p} -> Objects]
    BY <2>1
  <2> HIDE DEF n, e
  <2>4. /\ e.objects = c.objects /\ e.nodes = n
        /\ e = [objects |-> e.objects, nodes |-> e.nodes, count |-> e.count]
    BY <2>1, <2>2
  <2>5. DOMAIN e.nodes = DOMAIN c.nodes \cup {p} /\ e.nodes \in [DOMAIN e.nodes -> Objects]
    BY <2>3, <2>4
  <2>6. IsConfig(e)
    BY <2>1, <2>4, <2>5 DEF IsConfig
  <2>7. IsFiniteSet(DOMAIN e.nodes)
    BY <2>1, <2>5, FS_AddElement
  <2>8. p \in Seq(Nat) /\ \A d \in 1..Len(p) : Above(p, d) \in DOMAIN c.nodes
    BY DEF Levels
  <2>9. ASSUME NEW q \in DOMAIN e.nodes, NEW d \in 1..(Len(q) + 1)
        PROVE  Above(q, d) \in DOMAIN e.nodes
    <3>1. CASE q \in DOMAIN c.nodes
      BY <2>5, <2>9, <3>1 DEF Rooted
    <3>2. CASE q = p
      <4>1. Above(p, Len(p) + 1) = p /\ (d = Len(p) + 1 \/ d \in 1..Len(p))
        BY <2>8, <2>9, <3>2, AboveFacts
      <4> QED
        BY <2>5, <2>8, <3>2, <4>1
    <3> QED
      BY <2>5, <3>1, <3>2
  <2> QED
    BY <2>1, <2>5, <2>6, <2>7, <2>8, <2>9 DEF Rooted, e
<1> QED
  BY <1>1, <1>2

\* What does not touch the nodes leaves them so.
LEMMA SameNodes ==
    ASSUME NEW c, Rooted(c), NEW d, IsConfig(d), d.nodes = c.nodes
    PROVE  Rooted(d)
BY DEF Rooted

LEMMA CountedRooted ==
    ASSUME NEW c, Rooted(c), NEW n
    PROVE  Rooted([c EXCEPT !.count = n])
<1> DEFINE d == [c EXCEPT !.count = n]
<1>1. c = [objects |-> c.objects, nodes |-> c.nodes, count |-> c.count]
  BY DEF Rooted, IsConfig
<1>2. /\ d.objects = c.objects /\ d.nodes = c.nodes
      /\ d = [objects |-> d.objects, nodes |-> d.nodes, count |-> d.count]
  BY <1>1
<1> HIDE DEF d
<1>3. IsConfig(d)
  BY <1>2 DEF Rooted, IsConfig
<1> QED
  BY <1>2, <1>3, SameNodes DEF d

LEMMA DescribedRooted ==
    ASSUME NEW c, Rooted(c), NEW o \in Objects, device \in Versions
    PROVE  Rooted(Described(c, o))
<1> DEFINE d == Described(c, o)
<1>1. /\ c = [objects |-> c.objects, nodes |-> c.nodes, count |-> c.count]
      /\ c.objects \in [Objects -> Versions \cup {None}]
      /\ c.nodes \in [DOMAIN c.nodes -> Objects]
  BY DEF Rooted, IsConfig
<1>2. d = [c EXCEPT !.objects = [c.objects EXCEPT ![o] = device]]
  BY <1>1 DEF Described
<1>3. [c.objects EXCEPT ![o] = device] \in [Objects -> Versions \cup {None}]
  BY <1>1
<1> HIDE DEF d
<1>4. /\ d.objects = [c.objects EXCEPT ![o] = device] /\ d.nodes = c.nodes
      /\ d = [objects |-> d.objects, nodes |-> d.nodes, count |-> d.count]
  BY <1>1, <1>2
<1>5. IsConfig(d)
  BY <1>1, <1>3, <1>4 DEF IsConfig
<1> QED
  BY <1>4, <1>5, SameNodes DEF d

LEMMA EmptyRooted == Rooted(Empty)
<1>1. /\ Empty.objects = [o \in Objects |-> None] /\ Empty.nodes = << >>
      /\ Empty = [objects |-> Empty.objects, nodes |-> Empty.nodes,
                  count |-> Empty.count]
  BY DEF Empty
<1>2. DOMAIN Empty.nodes = {}
  BY <1>1
<1>3. Empty.nodes \in [{} -> Objects]
  BY <1>1
<1>4. Empty.objects \in [Objects -> Versions \cup {None}]
  BY <1>1
<1> QED
  BY <1>1, <1>2, <1>3, <1>4, FS_EmptySet DEF Rooted, IsConfig

LEMMA TreeInit == Init => TreeInv
<1> SUFFICES ASSUME Init
             PROVE  TreeInv
  OBVIOUS
<1>1. config = Empty /\ \A v \in Versions : files[v] \in {None, Of(v)}
  BY DEF Init
<1>2. Rooted(config)
  BY <1>1, EmptyRooted
<1>3. \A v \in Versions : files[v] \in {None, Torn} \/ Rooted(files[v])
  BY <1>1, OfRooted, StartupAssumption
<1> QED
  BY <1>2, <1>3 DEF TreeInv

\* The next type, or the tree.
LEMMA DescribeRooted ==
    ASSUME TreeInv,
           \/ \E o : Describe(o)
           \/ \E c, o : Rooted(c) /\ DescribeNext(c, o)
    PROVE  Rooted(config')
<1>1. ASSUME NEW c, NEW o, Rooted(c), DescribeNext(c, o)
      PROVE  Rooted(config')
  <2>1. config' = c \/ config' = [c EXCEPT !.count = 0]
    BY <1>1 DEF DescribeNext, BuildTree
  <2> QED
    BY <1>1, <2>1, CountedRooted
<1>2. ASSUME NEW o, Describe(o)
      PROVE  Rooted(config')
  <2>1. CASE config.objects[o] = None
    BY <1>2, <2>1 DEF Describe, TreeInv
  <2>2. CASE config.objects[o] # None
    BY <1>1, <1>2, <2>2 DEF Describe, TreeInv
  <2> QED
    BY <2>1, <2>2
<1> QED
  BY <1>1, <1>2

\* The device's file is written or cut.
LEMMA FilesRooted ==
    ASSUME TreeInv, FilesOK, NEW f, f \in {None, Torn} \/ Rooted(f),
           files' = [files EXCEPT ![device] = f]
    PROVE  \A v \in Versions : files'[v] \in {None, Torn} \/ Rooted(files'[v])
<1>1. files = [v \in Versions |-> files[v]]
  BY DEF FilesOK
<1>2. ASSUME NEW v \in Versions
      PROVE  files'[v] = f \/ files'[v] = files[v]
  BY <1>1
<1> QED
  BY <1>2 DEF TreeInv

LEMMA TreeStepKeeps == StartupInv /\ TreeInv /\ [Next]_vars => TreeInv'
<1> SUFFICES ASSUME StartupInv, TreeInv, [Next]_vars
             PROVE  TreeInv'
  OBVIOUS
<1> USE StartupAssumption
<1>1. /\ FilesOK /\ LinkOK /\ ConfigInv /\ device \in Versions /\ heard \in Objects
      /\ Expected \in Versions /\ Rooted(config)
      /\ \A v \in Versions : files[v] \in {None, Torn} \/ Rooted(files[v])
  BY DEF StartupInv, FilesOK, LinkOK, TreeInv, StartupAssumption
<1> DEFINE Kept == UNCHANGED files /\ Rooted(config')
<1>2. Kept => TreeInv'
  <2> SUFFICES ASSUME UNCHANGED files, Rooted(config)'
               PROVE  TreeInv'
    BY DEF Rooted, IsConfig, Above
  <2>1. \A v \in Versions : files'[v] \in {None, Torn} \/ Rooted(files'[v])
    BY <1>1
  <2> QED
    BY <2>1 DEF TreeInv, Rooted, IsConfig, Above
<1>3. CASE UNCHANGED vars
  BY <1>1, <1>2, <1>3 DEF vars, configVars
<1>4. CASE ReadFile
  <2>1. UNCHANGED files /\ files[Expected] # Torn
        /\ (config' = config \/ (config' = files[Expected] /\ files[Expected] # None))
    BY <1>4 DEF ReadFile
  <2> QED
    BY <1>1, <1>2, <2>1
<1>5. CASE ReadTorn \/ Alive \/ NotAlive \/ AskType \/ Timeout \/ Answer \/ Unheard
           \/ AnswerBusy \/ Lose \/ EarlyTimeout
  <2>1. UNCHANGED <<files, config>>
    BY <1>5 DEF ReadTorn, Alive, NotAlive, AskType, Timeout, Answer, Unheard,
                AnswerBusy, Lose, EarlyTimeout, configVars
  <2> QED
    BY <1>1, <1>2, <2>1
<1>6. CASE SystemConfiguration \/ OtherFile \/ DescribeOne \/ ObjectDescription
  <2>1. UNCHANGED files
    BY <1>6 DEF SystemConfiguration, OtherFile, DescribeOne, ObjectDescription
  <2>2. CASE SystemConfiguration
    BY <1>1, <1>2, <2>1, <2>2, DescribeRooted DEF SystemConfiguration, Build
  <2>3. CASE OtherFile
    BY <1>1, <1>2, <2>1, <2>3, DescribeRooted DEF OtherFile, Build
  <2>4. CASE DescribeOne
    BY <1>1, <1>2, <2>1, <2>4, DescribeRooted DEF DescribeOne
  <2>5. CASE ObjectDescription
    BY <1>1, <1>2, <2>1, <2>5, DescribeRooted, DescribedRooted DEF ObjectDescription
  <2> QED
    BY <1>6, <2>2, <2>3, <2>4, <2>5
<1>7. CASE ObjectType
  <2> DEFINE c == Typed(config, path, heard)
  <2>1. Levels(config, path, stack)
    BY <1>1, <1>7 DEF ObjectType, ConfigInv, Walk
  <2>2. Rooted(c)
    BY <1>1, <2>1, TypedRooted
  <2>3. UNCHANGED files
        /\ (config' = c \/ config' = [c EXCEPT !.count = c.count + 1])
    BY <1>7 DEF ObjectType, Visit
  <2> HIDE DEF c
  <2>4. Rooted([c EXCEPT !.count = c.count + 1])
    BY <2>2, CountedRooted
  <2>5. Rooted(config')
    BY <2>2, <2>3, <2>4
  <2> QED
    BY <1>2, <2>3, <2>5
<1>8. CASE NodeDescription
  <2> DEFINE c == Described(config, heard)
  <2>1. Rooted(c)
    BY <1>1, DescribedRooted
  <2>2. UNCHANGED files /\ config' = [c EXCEPT !.count = c.count + 1]
    BY <1>8 DEF NodeDescription, Visit
  <2> HIDE DEF c
  <2> QED
    BY <1>2, <2>1, <2>2, CountedRooted
<1> DEFINE Written == \E f : /\ f \in {None, Torn} \/ Rooted(f)
                             /\ files' = [files EXCEPT ![device] = f]
<1>9. Written /\ Rooted(config') => TreeInv'
  <2> SUFFICES ASSUME Written, Rooted(config)'
               PROVE  TreeInv'
    BY DEF Rooted, IsConfig, Above
  <2>1. \A v \in Versions : files'[v] \in {None, Torn} \/ Rooted(files'[v])
    BY <1>1, FilesRooted
  <2> QED
    BY <2>1 DEF TreeInv, Rooted, IsConfig, Above
<1>10. CASE Save \/ ConfigSaved
  <2>1. UNCHANGED config /\ (UNCHANGED files \/ Written)
    BY <1>1, <1>10 DEF Save, ConfigSaved
  <2> QED
    BY <1>1, <1>2, <1>9, <2>1
<1>11. CASE Restart
  <2>1. config' = Empty /\ (UNCHANGED files \/ Written)
    BY <1>1, <1>11 DEF Restart
  <2> QED
    BY <1>2, <1>9, <2>1, EmptyRooted
<1> QED
  BY <1>3, <1>4, <1>5, <1>6, <1>7, <1>8, <1>10, <1>11 DEF Next, Progress

-----------------------------------------------------------------------------
(* The pages: their inductive invariant *)

\* The walk from the node t comes to the parameter q through known nodes.
CameTo(c, t, q) ==
    /\ q \in Leaves(c, t)
    /\ \A d \in (Len(t) + 1)..(Len(q) + 1) : Known(c, Above(q, d))

\* A walk from the node t of the tree has come to the parameters s, all those
\* that are under t up to the last of s.
Track(c, t, s) ==
    /\ s \in Seq(Seq(Nat)) \ {<<>>}
    /\ \A i \in DOMAIN s : CameTo(c, t, s[i])
    /\ \A i, j \in DOMAIN s : i < j => Before(s[i], s[j])
    /\ \A q \in Leaves(c, t) : Before(q, Last(s)) => \E i \in DOMAIN s : q = s[i]

\* The node that the page g is about, if the device v is asked.
Begin(v, g) == IF g.node \notin Effects THEN g.node
               ELSE Append(g.node, Algorithm[v][g.node])

Nodes(html) == [i \in DOMAIN html |-> html[i][1]]

IsRecord(g) ==
    g = [at |-> g.at, node |-> g.node, base |-> g.base, levels |-> g.levels,
         html |-> g.html, seen |-> g.seen, same |-> g.same]

IsPage(g) ==
    /\ IsRecord(g)
    /\ g.at \in {"algorithm", "value", "finished"}
    /\ g.node \in PageNodes

\* A page whose values the device v is asked for, one after the other: in one
\* configuration c, the nodes are those that a walk of its tree comes to.
Asking(c, v, g) ==
    /\ g.html \in Seq(Seq(Nat) \X {"device"})
    /\ g.base = Len(Begin(v, g))
    /\ g.levels \in Seq(Nat) \ {<<>>}
    /\ g.same => /\ g.seen = c.objects
                 /\ Known(c, Begin(v, g))
                 /\ ChildrenOf(c, Begin(v, g)) > 0 =>
                       Track(c, Begin(v, g), Append(Nodes(g.html), g.levels))

\* What PageWhole says of the page g, in the configuration c.
Whole(c, v, g) ==
    LET t == IF g.node \notin Effects THEN g.node
             ELSE IF g.html[1][2] = "zero" THEN Append(g.node, 0)
             ELSE Append(g.node, Algorithm[v][g.node])
    IN ChildrenOf(c, t) > 0 =>
          /\ Range(Nodes(g.html)) = Leaves(c, t)
          /\ \A i, j \in DOMAIN g.html : i < j => Before(g.html[i][1], g.html[j][1])
          /\ \A i \in DOMAIN g.html : g.html[i][2] = g.html[1][2]

\* A page that began at a node that was there, after the callback of init, finds
\* a closed configuration, which nothing changes any more.
Sure == phase \in {"done", "failed", "stuck"} /\ Closed(config)

PageInv ==
    /\ restarts \in Nat
    /\ page \notin {NoPage, Dropped} => IsPage(page)
    /\ page.at = "algorithm" => Asks /\ page.node \in Effects /\ page.html = <<>>
    /\ page.at = "value" => Asks /\ Asking(config, device, page)
    /\ page.at = "finished" /\ page.same => Whole(config, device, page)
    /\ page.at \in {"algorithm", "value"} /\ ~blind => Sure
    /\ page.at = "value" /\ ~blind =>
          page.seen = config.objects /\ page.levels \in DOMAIN config.nodes

-----------------------------------------------------------------------------
(* Where the walk of a page goes *)

\* The k-th first child below p.
Deeper(p, k) == p \o [i \in 1..k |-> 0]

Inside(c, q) == Known(c, q) /\ ChildrenOf(c, q) > 0

LEMMA DeeperFacts ==
    ASSUME NEW p \in Seq(Nat), NEW k \in Nat
    PROVE  /\ Deeper(p, k) \in Seq(Nat)
           /\ Len(Deeper(p, k)) = Len(p) + k
           /\ \A i \in 1..Len(p) : Deeper(p, k)[i] = p[i]
           /\ \A i \in (Len(p) + 1)..(Len(p) + k) : Deeper(p, k)[i] = 0
<1> DEFINE z == [i \in 1..k |-> 0]
<1>1. z \in Seq(Nat) /\ Len(z) = k /\ \A i \in 1..k : z[i] = 0
  <2>1. z \in [1..k -> Nat]
    OBVIOUS
  <2> QED
    BY <2>1
<1> HIDE DEF z
<1>2. /\ p \o z \in Seq(Nat) /\ Len(p \o z) = Len(p) + k /\ Len(p) \in Nat
      /\ \A i \in 1..(Len(p) + k) :
            (p \o z)[i] = IF i <= Len(p) THEN p[i] ELSE z[i - Len(p)]
  <2>1. /\ p \o z \in Seq(Nat) /\ Len(p \o z) = Len(p) + Len(z)
        /\ \A i \in 1..(Len(p) + Len(z)) :
              (p \o z)[i] = IF i <= Len(p) THEN p[i] ELSE z[i - Len(p)]
    BY <1>1, ConcatProperties, Zenon
  <2>2. Len(p) \in Nat
    OBVIOUS
  <2> QED
    BY <1>1, <2>1, <2>2, Zenon
<1>3. \A i \in 1..Len(p) : (p \o z)[i] = p[i]
  BY <1>2
<1>4. ASSUME NEW i \in (Len(p) + 1)..(Len(p) + k)
      PROVE  (p \o z)[i] = 0
  <2>1. i \in 1..(Len(p) + k) /\ ~(i <= Len(p)) /\ i - Len(p) \in 1..k
    BY <1>2
  <2> QED
    BY <1>1, <1>2, <2>1
<1>5. Deeper(p, k) = p \o z
  BY DEF Deeper, z
<1> QED
  BY <1>2, <1>3, <1>4, <1>5

LEMMA DeeperZero ==
    ASSUME NEW p \in Seq(Nat)
    PROVE  Deeper(p, 0) = p
<1>1. /\ Deeper(p, 0) \in Seq(Nat) /\ Len(Deeper(p, 0)) = Len(p) + 0
      /\ \A i \in 1..Len(p) : Deeper(p, 0)[i] = p[i]
  <2>1. 0 \in Nat
    OBVIOUS
  <2> QED
    BY <2>1, DeeperFacts
<1>2. Len(p) \in Nat
  OBVIOUS
<1>3. Len(Deeper(p, 0)) = Len(p)
  BY <1>1, <1>2
<1> QED
  BY <1>1, <1>3, SeqEqual

\* What is above a first child: one that is less deep, or the node one above.
LEMMA DeeperNext ==
    ASSUME NEW p \in Seq(Nat), NEW k \in Nat, NEW l \in 0..k
    PROVE  Above(Deeper(p, k), Len(p) + l + 1) = Deeper(p, l)
<1> DEFINE q == Deeper(p, k)
           a == Above(q, Len(p) + l + 1)
           b == Deeper(p, l)
<1>1. l \in Nat /\ l <= k /\ Len(p) \in Nat
  OBVIOUS
<1>2. /\ q \in Seq(Nat) /\ Len(q) = Len(p) + k
      /\ \A i \in 1..Len(p) : q[i] = p[i]
      /\ \A i \in (Len(p) + 1)..(Len(p) + k) : q[i] = 0
  BY DeeperFacts
<1>3. /\ b \in Seq(Nat) /\ Len(b) = Len(p) + l
      /\ \A i \in 1..Len(p) : b[i] = p[i]
      /\ \A i \in (Len(p) + 1)..(Len(p) + l) : b[i] = 0
  BY <1>1, DeeperFacts
<1>4. Len(p) + l + 1 \in 1..(Len(q) + 1) /\ (Len(p) + l + 1) - 1 = Len(p) + l
  BY <1>1, <1>2
<1> HIDE DEF q, b
<1>5. a \in Seq(Nat) /\ Len(a) = Len(p) + l /\ \A i \in 1..(Len(p) + l) : a[i] = q[i]
  BY <1>2, <1>4, AboveFacts
<1> HIDE DEF a
<1>6. ASSUME NEW i \in 1..(Len(p) + l)
      PROVE  a[i] = b[i]
  <2>1. i \in 1..Len(p) \/ (/\ i \in (Len(p) + 1)..(Len(p) + l)
                            /\ i \in (Len(p) + 1)..(Len(p) + k))
    BY <1>1
  <2> QED
    BY <1>2, <1>3, <1>5, <2>1
<1>7. a = b
  BY <1>3, <1>5, <1>6, SeqEqual
<1> QED
  BY <1>7 DEF a, b, q

LEMMA DeeperAppend ==
    ASSUME NEW p \in Seq(Nat), NEW k \in Nat
    PROVE  Append(Deeper(p, k), 0) = Deeper(p, k + 1)
<1> DEFINE q == Deeper(p, k + 1)
<1>1. /\ q \in Seq(Nat) /\ Len(q) = Len(p) + (k + 1)
      /\ \A i \in (Len(p) + 1)..(Len(p) + (k + 1)) : q[i] = 0
  <2>1. k + 1 \in Nat
    OBVIOUS
  <2> QED
    BY <2>1, DeeperFacts
<1>2. Len(p) \in Nat /\ Len(p) + k + 1 = Len(p) + (k + 1)
      /\ Len(p) + k + 1 \in 1..Len(q) /\ k \in 0..(k + 1)
      /\ Len(p) + k + 1 \in (Len(p) + 1)..(Len(p) + (k + 1))
  BY <1>1
<1>3. q[Len(p) + k + 1] = 0
  BY <1>1, <1>2
<1>4. Above(q, Len(p) + k + 1) = Deeper(p, k)
  BY <1>2, DeeperNext
<1>5. Above(q, (Len(p) + k + 1) + 1) = q
  <2>1. (Len(p) + k + 1) + 1 = Len(q) + 1
    BY <1>1, <1>2
  <2>2. Above(q, Len(q) + 1) = q
    BY <1>1, AboveFacts
  <2> QED
    BY <2>1, <2>2
<1> HIDE DEF q
<1>6. Append(Above(q, Len(p) + k + 1), q[Len(p) + k + 1]) = q
  BY <1>1, <1>2, <1>5, AboveNext
<1> QED
  BY <1>3, <1>4, <1>6 DEF q

\* The tree is finite: the walk down ends.
LEMMA DownEnds ==
    ASSUME NEW c, Rooted(c), NEW p \in Seq(Nat)
    PROVE  \E k \in Nat : /\ Down(c, p) = Deeper(p, k)
                          /\ ~Inside(c, Deeper(p, k))
                          /\ \A l \in 0..(k - 1) : Inside(c, Deeper(p, l))
<1> DEFINE D == DOMAIN c.nodes
           N == Cardinality(D)
           T == { k \in Nat : k <= N /\ ~Inside(c, Deeper(p, k)) }
<1>1. IsFiniteSet(D) /\ N \in Nat
  BY FS_CardinalityType DEF Rooted
<1> HIDE DEF D
<1>2. T # {}
  <2>1. SUFFICES ASSUME \A k \in 0..N : Inside(c, Deeper(p, k))
                 PROVE  FALSE
    BY <1>1
  <2> DEFINE f == [k \in 0..N |-> Deeper(p, k)]
  <2>2. f \in [0..N -> D]
    BY <2>1 DEF Inside, Known, D
  <2>3. ASSUME NEW k \in 0..N, NEW l \in 0..N, f[k] = f[l]
        PROVE  k = l
    <3>1. k \in Nat /\ l \in Nat /\ Len(p) \in Nat /\ Deeper(p, k) = Deeper(p, l)
      BY <1>1, <2>3
    <3>2. Len(p) + k = Len(p) + l
      BY <3>1, DeeperFacts
    <3> QED
      BY <3>1, <3>2
  <2> HIDE DEF f
  <2>4. f \in Injection(0..N, D)
    BY <2>2, <2>3 DEF Injection, IsInjective
  <2>5. Cardinality(0..N) <= N
    BY <1>1, <2>4, FS_Injection
  <2>6. Cardinality(0..N) = N + 1
    BY <1>1, FS_Interval
  <2> QED
    BY <1>1, <2>5, <2>6
<1>3. PICK k \in T : \A j \in T : k <= j
  BY <1>2, LeastNatural
<1>4. k \in 0..N /\ k \in Nat /\ ~Inside(c, Deeper(p, k))
  BY <1>1, <1>3
<1>5. ASSUME NEW l \in 0..(k - 1)
      PROVE  Inside(c, Deeper(p, l))
  <2>1. l \in Nat /\ l <= N /\ ~(k <= l)
    BY <1>1, <1>4
  <2>2. ~(l \in T)
    BY <1>3, <2>1
  <2> QED
    BY <2>1, <2>2
<1> DEFINE Ends(n) == /\ ~Inside(c, Deeper(p, n))
                      /\ \A l \in 0..(n - 1) : Inside(c, Deeper(p, l))
           m == CHOOSE n \in 0..N : Ends(n)
<1>6. m \in 0..N /\ Ends(m)
  BY <1>4, <1>5
<1>7. Down(c, p) = Deeper(p, m)
  BY DEF Down, Deeper, Inside, D
<1>8. m \in Nat
  BY <1>1, <1>6
<1> HIDE DEF m
<1> QED
  BY <1>6, <1>7, <1>8

\* A level goes on if the node above it has a child after the one on the path.
LEMMA GoingFacts ==
    ASSUME NEW c, NEW p \in Seq(Nat), p # <<>>, NEW b \in Nat, NEW d
    PROVE  d \in Going(c, p, b) <=> /\ d \in 1..Len(p)
                                    /\ d > b \/ d = Len(p)
                                    /\ p[d] < ChildrenOf(c, Above(p, d)) - 1
<1>1. Len(p) \in Nat \ {0}
  BY EmptySeq
<1>2. d \in ((b + 1)..Len(p)) \cup {Len(p)} <=> d \in 1..Len(p) /\ (d > b \/ d = Len(p))
  BY <1>1
<1>3. ASSUME d \in 1..Len(p)
      PROVE  HasNext(c, SubSeq(p, 1, d)) <=> p[d] < ChildrenOf(c, Above(p, d)) - 1
  <2> DEFINE q == SubSeq(p, 1, d)
  <2>1. d + 1 \in 1..(Len(p) + 1) /\ (d + 1) - 1 = d /\ d \in 1..(d + 1)
        /\ d \in 1..d /\ d \in Nat
    BY <1>1, <1>3
  <2>2. q = Above(p, d + 1)
    BY <2>1 DEF Above
  <2> HIDE DEF q
  <2>3. q \in Seq(Nat) /\ Len(q) = d /\ q[d] = p[d]
    BY <2>1, <2>2, AboveFacts
  <2>4. Above(q, d) = Above(p, d)
    BY <2>1, <2>2, AboveAbove
  <2>5. Front(q) = Above(q, d)
    BY <2>3 DEF Front, Above
  <2>6. Last(q) = p[d]
    BY <2>3 DEF Last
  <2>7. HasNext(c, q) <=> p[d] < ChildrenOf(c, Above(p, d)) - 1
    BY <2>4, <2>5, <2>6 DEF HasNext
  <2> QED
    BY <2>7 DEF q
<1> QED
  BY <1>2, <1>3 DEF Going

\* The node after p is the next child at the deepest level that goes on.
LEMMA AfterFacts ==
    ASSUME NEW c, NEW p \in Seq(Nat), p # <<>>, NEW b \in Nat, Going(c, p, b) # {}
    PROVE  \E d \in 1..Len(p) :
              /\ d \in Going(c, p, b)
              /\ \A e \in Going(c, p, b) : e <= d
              /\ After(c, p, b) = Append(Above(p, d), p[d] + 1)
<1> DEFINE G == Going(c, p, b)
           d == Max(G)
<1>1. G \subseteq 1..Len(p)
  BY GoingFacts
<1>2. Len(p) \in Nat
  OBVIOUS
<1> HIDE DEF G
<1>3. G # {}
  BY DEF G
<1>4. d \in G /\ \A e \in G : e <= d
  BY <1>1, <1>2, <1>3, MaxProperties
<1>5. d \in 1..Len(p)
  BY <1>1, <1>4
<1> HIDE DEF d
<1>6. [SubSeq(p, 1, d) EXCEPT ![d] = @ + 1] = Append(Above(p, d), p[d] + 1)
  BY <1>5, NextChild
<1>7. After(c, p, b) = [SubSeq(p, 1, d) EXCEPT ![d] = @ + 1]
  BY DEF After, d, G
<1> QED
  BY <1>4, <1>5, <1>6, <1>7 DEF G

\* Of a configuration that is closed, each node is known, with its children.
LEMMA ClosedKnown ==
    ASSUME StartupAssumption, NEW c, Closed(c), NEW p \in DOMAIN c.nodes
    PROVE  /\ Known(c, p)
           /\ ChildrenOf(c, p) \in Nat
           /\ \A i \in 0..(ChildrenOf(c, p) - 1) : Append(p, i) \in DOMAIN c.nodes
<1>1. NodeClosed(c, p) /\ IsConfig(c)
  BY DEF Closed
<1>2. c.nodes[p] \in Objects /\ c.objects[c.nodes[p]] \in Versions
  BY <1>1 DEF IsConfig, NodeClosed
<1>3. ChildrenOf(c, p) \in Nat
  BY <1>2 DEF ChildrenOf, StartupAssumption
<1> QED
  BY <1>1, <1>3 DEF Known, ChildrenOf, NodeClosed

LEMMA DownBelow ==
    ASSUME NEW c, Rooted(c), NEW p \in Seq(Nat), p # <<>>
    PROVE  Down(c, p) \in Seq(Nat) \ {<<>>}
<1>1. PICK k \in Nat : Down(c, p) = Deeper(p, k)
  BY DownEnds
<1>2. Len(p) \in Nat \ {0}
  BY EmptySeq
<1>3. Deeper(p, k) \in Seq(Nat) /\ Len(Deeper(p, k)) = Len(p) + k
  BY DeeperFacts
<1>4. Len(Deeper(p, k)) # 0
  BY <1>2, <1>3
<1> QED
  BY <1>1, <1>3, <1>4, EmptySeq

LEMMA DownThere ==
    ASSUME StartupAssumption, NEW c, Closed(c), Rooted(c), NEW p \in DOMAIN c.nodes
    PROVE  Down(c, p) \in DOMAIN c.nodes
<1>1. p \in Seq(Nat)
  BY DEF Rooted
<1>2. PICK k \in Nat : /\ Down(c, p) = Deeper(p, k)
                       /\ \A l \in 0..(k - 1) : Inside(c, Deeper(p, l))
  BY <1>1, DownEnds
<1>3. CASE k = 0
  BY <1>1, <1>2, <1>3, DeeperZero
<1>4. CASE k # 0
  <2> DEFINE q == Deeper(p, k - 1)
  <2>1. k - 1 \in Nat /\ k - 1 \in 0..(k - 1) /\ (k - 1) + 1 = k
    BY <1>4
  <2>2. q \in DOMAIN c.nodes /\ ChildrenOf(c, q) > 0
    BY <1>2, <2>1 DEF Inside, Known
  <2>3. Append(q, 0) = Deeper(p, k)
    BY <1>1, <2>1, DeeperAppend
  <2> HIDE DEF q
  <2>4. Append(q, 0) \in DOMAIN c.nodes
    <3>1. ChildrenOf(c, q) \in Nat
          /\ \A i \in 0..(ChildrenOf(c, q) - 1) : Append(q, i) \in DOMAIN c.nodes
      BY <2>2, ClosedKnown
    <3>2. 0 \in 0..(ChildrenOf(c, q) - 1)
      BY <2>2, <3>1
    <3> QED
      BY <3>1, <3>2
  <2> QED
    BY <1>2, <2>3, <2>4
<1> QED
  BY <1>3, <1>4

\* The next parameter is there.
LEMMA NextThere ==
    ASSUME StartupAssumption, NEW c, Closed(c), Rooted(c), NEW p \in DOMAIN c.nodes,
           p # <<>>, NEW b \in Nat, Going(c, p, b) # {}
    PROVE  /\ After(c, p, b) \in DOMAIN c.nodes
           /\ Down(c, After(c, p, b)) \in DOMAIN c.nodes \ {<<>>}
<1>1. p \in Seq(Nat) /\ \A d \in 1..(Len(p) + 1) : Above(p, d) \in DOMAIN c.nodes
  BY DEF Rooted
<1>2. PICK d \in 1..Len(p) : /\ d \in Going(c, p, b)
                             /\ After(c, p, b) = Append(Above(p, d), p[d] + 1)
  BY <1>1, AfterFacts
<1> DEFINE u == Above(p, d)
           a == Append(u, p[d] + 1)
<1>3. u \in DOMAIN c.nodes /\ u \in Seq(Nat) /\ p[d] \in Nat
  <2>1. d \in 1..(Len(p) + 1) /\ p[d] \in Nat
    BY <1>1
  <2> QED
    BY <1>1, <2>1, AboveFacts
<1>4. p[d] < ChildrenOf(c, u) - 1
  BY <1>1, <1>2, GoingFacts
<1> HIDE DEF u
<1>5. ChildrenOf(c, u) \in Nat
      /\ \A i \in 0..(ChildrenOf(c, u) - 1) : Append(u, i) \in DOMAIN c.nodes
  BY <1>3, ClosedKnown
<1>6. p[d] + 1 \in 0..(ChildrenOf(c, u) - 1) /\ p[d] + 1 \in Nat
  BY <1>3, <1>4, <1>5
<1>7. a \in DOMAIN c.nodes
  BY <1>5, <1>6
<1>8. a \in Seq(Nat) /\ Len(a) > 0
  BY <1>3, <1>6
<1> HIDE DEF a
<1>9. Down(c, a) \in DOMAIN c.nodes
  BY <1>7, DownThere
<1>10. Down(c, a) # <<>>
  <2>1. a # <<>>
    BY <1>8
  <2> QED
    BY <1>8, <2>1, DownBelow
<1>11. After(c, p, b) = a
  BY <1>2 DEF a, u
<1> QED
  BY <1>7, <1>9, <1>10, <1>11

\* What holds of the beginning of a walk, and of each that goes further if it
\* holds of the one before, holds of the whole walk.
LEMMA ReachedInduction ==
    ASSUME NEW c, Rooted(c), NEW p, NEW b, NEW S,
           <<0, <<p>>>> \in S,
           \A k \in 0..(Cardinality(DOMAIN c.nodes) - 1) : \A s :
              <<k, s>> \in S => <<k + 1, Further(c, s, b)>> \in S
    PROVE  <<Cardinality(DOMAIN c.nodes), Reached(c, p, b)>> \in S
<1> DEFINE N == Cardinality(DOMAIN c.nodes)
           Walks(f, n) == f = [k \in 0..n |-> IF k = 0 THEN <<p>>
                                              ELSE Further(c, f[k - 1], b)]
           T == { n \in Nat : ~ \E f : Walks(f, n) }
           f == CHOOSE g : Walks(g, N)
           B == { k \in Nat : k <= N /\ <<k, f[k]>> \notin S }
<1>1. N \in Nat
  BY FS_CardinalityType DEF Rooted
<1>2. T = {}
  <2>1. SUFFICES ASSUME T # {}
                 PROVE  FALSE
    OBVIOUS
  <2>2. PICK n \in T : \A j \in T : n <= j
    BY <2>1, LeastNatural
  <2>3. n \in Nat /\ ~ \E g : Walks(g, n)
    BY <2>2
  <2>4. n # 0
    <3>1. Walks([k \in 0..0 |-> <<p>>], 0)
      <4> DEFINE g == [k \in 0..0 |-> <<p>>]
      <4>1. \A k \in 0..0 : k = 0
        OBVIOUS
      <4>2. g = [k \in 0..0 |-> IF k = 0 THEN <<p>> ELSE Further(c, g[k - 1], b)]
        BY <4>1
      <4> QED
        BY <4>2
    <3> HIDE DEF Walks
    <3> QED
      BY <2>3, <3>1
  <2>5. n - 1 \in Nat /\ ~(n <= n - 1)
    BY <2>3, <2>4
  <2>6. PICK h : Walks(h, n - 1)
    BY <2>2, <2>5
  <2> DEFINE g == [k \in 0..n |-> IF k = n THEN Further(c, h[n - 1], b) ELSE h[k]]
  <2>7. ASSUME NEW k \in 0..n
        PROVE  g[k] = IF k = 0 THEN <<p>> ELSE Further(c, g[k - 1], b)
    <3>1. CASE k = n
      <4>1. n - 1 \in 0..n /\ n - 1 # n
        BY <2>3, <2>5
      <4>2. g[n - 1] = h[n - 1]
        BY <4>1
      <4>3. g[k] = Further(c, h[n - 1], b)
        BY <3>1
      <4> QED
        BY <2>4, <3>1, <4>2, <4>3
    <3>2. CASE k # n
      <4>1. k \in 0..(n - 1) /\ (k # 0 => k - 1 \in 0..n /\ k - 1 # n)
        BY <2>3, <3>2
      <4>2. g[k] = h[k] /\ (k # 0 => g[k - 1] = h[k - 1])
        BY <3>2, <4>1
      <4>3. h[k] = IF k = 0 THEN <<p>> ELSE Further(c, h[k - 1], b)
        BY <2>6, <4>1
      <4> QED
        BY <4>2, <4>3
    <3> QED
      BY <3>1, <3>2
  <2>8. g = [k \in 0..n |-> g[k]]
    OBVIOUS
  <2> HIDE DEF g
  <2>9. [k \in 0..n |-> g[k]]
        = [k \in 0..n |-> IF k = 0 THEN <<p>> ELSE Further(c, g[k - 1], b)]
    BY <2>7
  <2>10. g = [k \in 0..n |-> IF k = 0 THEN <<p>> ELSE Further(c, g[k - 1], b)]
    BY <2>8, <2>9
  <2>11. Walks(g, n)
    BY <2>10
  <2> HIDE DEF Walks
  <2> QED
    BY <2>3, <2>11
<1>3. Walks(f, N)
  BY <1>1, <1>2
<1>4. Reached(c, p, b) = f[N]
  BY DEF Reached
<1>5. f[0] = <<p>> /\ \A k \in 1..N : f[k] = Further(c, f[k - 1], b)
  <2>1. 0 \in 0..N /\ \A k \in 1..N : k \in 0..N /\ k # 0
    BY <1>1
  <2> HIDE DEF f
  <2> QED
    BY <1>3, <2>1
<1> HIDE DEF f
<1>6. B = {}
  <2>1. SUFFICES ASSUME B # {}
                 PROVE  FALSE
    OBVIOUS
  <2>2. PICK k \in B : \A j \in B : k <= j
    BY <2>1, LeastNatural
  <2>3. k \in Nat /\ k <= N /\ <<k, f[k]>> \notin S /\ k # 0
    BY <1>5, <2>2
  <2>4. /\ k - 1 \in Nat /\ k - 1 <= N /\ ~(k <= k - 1) /\ k \in 1..N
        /\ k - 1 \in 0..(N - 1) /\ (k - 1) + 1 = k
    BY <1>1, <2>3
  <2>5. ~(k - 1 \in B)
    BY <2>2, <2>4
  <2>6. <<k - 1, f[k - 1]>> \in S
    BY <2>4, <2>5
  <2>7. <<(k - 1) + 1, Further(c, f[k - 1], b)>> \in S
    BY <2>4, <2>6
  <2> QED
    BY <1>5, <2>3, <2>4, <2>7
<1>7. ~(N \in B)
  BY <1>6
<1> QED
  BY <1>1, <1>4, <1>7

\* In a closed configuration the walk misses nothing.
LEMMA ReachedThere ==
    ASSUME StartupAssumption, NEW c, Closed(c), Rooted(c), NEW p \in DOMAIN c.nodes,
           p # <<>>, NEW b \in Nat
    PROVE  Reached(c, p, b) \in Seq(DOMAIN c.nodes) \ {<<>>}
<1> DEFINE D == DOMAIN c.nodes \ {<<>>}
           N == Cardinality(DOMAIN c.nodes)
           S == (0..N) \X (Seq(D) \ {<<>>})
<1>1. N \in Nat
  BY FS_CardinalityType DEF Rooted
<1>2. p \in D
  OBVIOUS
<1>3. ASSUME NEW s \in Seq(D) \ {<<>>}
      PROVE  Further(c, s, b) \in Seq(D) \ {<<>>}
  <2>1. Last(s) \in D
    <3>1. Len(s) \in 1..Len(s)
      BY EmptySeq
    <3> HIDE DEF D
    <3> QED
      BY <3>1 DEF Last
  <2>2. CASE Going(c, Last(s), b) # {} /\ Known(c, Last(s))
    <3>1. Down(c, After(c, Last(s), b)) \in D
      BY <2>1, <2>2, NextThere
    <3>2. Further(c, s, b) = Append(s, Down(c, After(c, Last(s), b)))
      BY <2>2 DEF Further
    <3> HIDE DEF D
    <3> QED
      BY <3>1, <3>2, AppendProperties
  <2>3. CASE ~(Going(c, Last(s), b) # {} /\ Known(c, Last(s)))
    BY <2>3 DEF Further
  <2> QED
    BY <2>2, <2>3
<1>4. <<p>> \in Seq(D) \ {<<>>}
  <2> HIDE DEF D
  <2> QED
    BY <1>2
<1> HIDE DEF D
<1>5. <<0, <<p>>>> \in S
  <2>1. 0 \in 0..N
    BY <1>1
  <2> HIDE DEF N
  <2> QED
    BY <1>4, <2>1
<1>6. ASSUME NEW k \in 0..(N - 1), NEW s, <<k, s>> \in S
      PROVE  <<k + 1, Further(c, s, b)>> \in S
  BY <1>1, <1>3, <1>6
<1> HIDE DEF S
<1>7. <<N, Reached(c, p, b)>> \in S
  BY <1>5, <1>6, ReachedInduction
<1>8. Reached(c, p, b) \in Seq(D) /\ Reached(c, p, b) # <<>>
  BY <1>7 DEF S
<1>9. D \subseteq DOMAIN c.nodes
  BY DEF D
<1>10. Reached(c, p, b) \in Seq(DOMAIN c.nodes)
  BY <1>8, <1>9
<1> QED
  BY <1>8, <1>10

\* The values of a page that nobody was asked for.
LEMMA ZerosFacts ==
    ASSUME NEW p, NEW b, NEW X, Reached(config, p, b) \in Seq(X) \ {<<>>}
    PROVE  LET s == Reached(config, p, b)
               z == Zeros(p, b)
           IN /\ DOMAIN z = 1..Len(s) /\ DOMAIN z = DOMAIN s /\ Len(z) = Len(s)
              /\ Len(s) \in Nat \ {0}
              /\ \A i \in DOMAIN z : z[i][1] = s[i]
              /\ \A i \in DOMAIN z :
                    z[i][2] = IF Known(config, s[i]) THEN "zero" ELSE "missing"
              /\ Last(z)[2] = IF Known(config, Last(s)) THEN "zero" ELSE "missing"
<1> DEFINE s == Reached(config, p, b)
           z == Zeros(p, b)
<1>1. z = [i \in DOMAIN s |->
              <<s[i], IF Known(config, s[i]) THEN "zero" ELSE "missing">>]
  BY DEF Zeros
<1>2. Len(s) \in Nat \ {0} /\ DOMAIN s = 1..Len(s)
  BY EmptySeq
<1> HIDE DEF s, z
<1>3. DOMAIN z = 1..Len(s) /\ DOMAIN z = DOMAIN s
  BY <1>1, <1>2
<1>4. Len(z) = Len(s)
  BY <1>2, <1>3
<1>5. \A i \in DOMAIN z :
          /\ z[i][1] = s[i]
          /\ z[i][2] = IF Known(config, s[i]) THEN "zero" ELSE "missing"
  BY <1>1
<1>6. Len(z) \in DOMAIN z
  BY <1>2, <1>3, <1>4
<1>7. Last(z)[2] = IF Known(config, Last(s)) THEN "zero" ELSE "missing"
  BY <1>4, <1>5, <1>6 DEF Last
<1> QED
  BY <1>2, <1>3, <1>4, <1>5, <1>7 DEF s, z

-----------------------------------------------------------------------------
(* The order of the tree, and what a walk has come to *)

\* The parameters under t, with the levels above them.
LEMMA LeafFacts ==
    ASSUME NEW c, Rooted(c), NEW t \in Seq(Nat), NEW q
    PROVE  q \in Leaves(c, t) <=>
             /\ q \in DOMAIN c.nodes
             /\ Len(t) <= Len(q) /\ Above(q, Len(t) + 1) = t
             /\ \A d \in (Len(t) + 1)..Len(q) : q[d] < ChildrenOf(c, Above(q, d))
             /\ ChildrenOf(c, q) = 0
<1>1. Len(t) \in Nat /\ SubSeq(t, 1, Len(t)) = t
  <2>1. Above(t, Len(t) + 1) = t
    BY AboveFacts
  <2>2. (Len(t) + 1) - 1 = Len(t) /\ Len(t) \in Nat
    OBVIOUS
  <2> QED
    BY <2>1, <2>2 DEF Above
<1>2. SUFFICES ASSUME q \in DOMAIN c.nodes
               PROVE  /\ IsPrefix(t, q) <=> Len(t) <= Len(q) /\ Above(q, Len(t) + 1) = t
                      /\ (\A d \in Len(t)..(Len(q) - 1) :
                             q[d + 1] < ChildrenOf(c, SubSeq(q, 1, d)))
                         <=> \A d \in (Len(t) + 1)..Len(q) :
                                q[d] < ChildrenOf(c, Above(q, d))
  BY DEF Leaves
<1>3. Len(q) \in Nat
  BY <1>2 DEF Rooted
<1>4. IsPrefix(t, q) <=> Len(t) <= Len(q) /\ Above(q, Len(t) + 1) = t
  <2>1. (Len(t) + 1) - 1 = Len(t)
    BY <1>1
  <2>2. Above(q, Len(t) + 1) = SubSeq(q, 1, Len(t))
    BY <2>1 DEF Above
  <2> QED
    BY <1>1, <2>2 DEF IsPrefix
<1>5. ASSUME \A d \in Len(t)..(Len(q) - 1) : q[d + 1] < ChildrenOf(c, SubSeq(q, 1, d)),
             NEW d \in (Len(t) + 1)..Len(q)
      PROVE  q[d] < ChildrenOf(c, Above(q, d))
  <2>1. d - 1 \in Len(t)..(Len(q) - 1) /\ (d - 1) + 1 = d
    BY <1>1, <1>3
  <2>2. q[(d - 1) + 1] < ChildrenOf(c, SubSeq(q, 1, d - 1))
    BY <1>5, <2>1
  <2> QED
    BY <2>1, <2>2 DEF Above
<1>6. ASSUME \A d \in (Len(t) + 1)..Len(q) : q[d] < ChildrenOf(c, Above(q, d)),
             NEW d \in Len(t)..(Len(q) - 1)
      PROVE  q[d + 1] < ChildrenOf(c, SubSeq(q, 1, d))
  <2>1. d + 1 \in (Len(t) + 1)..Len(q) /\ (d + 1) - 1 = d
    BY <1>1, <1>3
  <2>2. q[d + 1] < ChildrenOf(c, Above(q, d + 1))
    BY <1>6, <2>1
  <2> QED
    BY <2>1, <2>2 DEF Above
<1> QED
  BY <1>4, <1>5, <1>6

LEMMA BeforeFacts ==
    ASSUME NEW p, NEW q
    PROVE  Before(p, q) <=> \E d \in 1..Len(p) : /\ d <= Len(q)
                                                  /\ Above(p, d) = Above(q, d)
                                                  /\ p[d] < q[d]
BY DEF Before, Above

\* Two paths that agree above a level agree at each level above it.
LEMMA AboveAgree ==
    ASSUME NEW p \in Seq(Nat), NEW q \in Seq(Nat), NEW d \in 1..(Len(p) + 1),
           d <= Len(q) + 1, Above(p, d) = Above(q, d)
    PROVE  /\ \A i \in 1..(d - 1) : p[i] = q[i]
           /\ \A i \in 1..d : Above(p, i) = Above(q, i)
<1>1. d \in 1..(Len(q) + 1)
  OBVIOUS
<1>2. /\ \A i \in 1..(d - 1) : Above(p, d)[i] = p[i]
      /\ \A i \in 1..(d - 1) : Above(q, d)[i] = q[i]
  BY <1>1, AboveFacts
<1>3. \A i \in 1..d : Above(p, i) = Above(q, i)
  BY <1>1, AboveAbove
<1> QED
  BY <1>2, <1>3

\* And the other way round.
LEMMA AgreeAbove ==
    ASSUME NEW p \in Seq(Nat), NEW q \in Seq(Nat), NEW d \in 1..(Len(p) + 1),
           d <= Len(q) + 1, \A i \in 1..(d - 1) : p[i] = q[i]
    PROVE  Above(p, d) = Above(q, d)
<1> DEFINE a == Above(p, d)
           b == Above(q, d)
<1>1. d \in 1..(Len(q) + 1)
  OBVIOUS
<1>2. /\ a \in Seq(Nat) /\ Len(a) = d - 1 /\ \A i \in 1..(d - 1) : a[i] = p[i]
      /\ b \in Seq(Nat) /\ Len(b) = d - 1 /\ \A i \in 1..(d - 1) : b[i] = q[i]
  BY <1>1, AboveFacts
<1> HIDE DEF a, b
<1>3. \A i \in 1..(d - 1) : a[i] = b[i]
  BY <1>2
<1>4. a = b
  BY <1>2, <1>3, SeqEqual
<1> QED
  BY <1>4 DEF a, b

\* Before is an order.
LEMMA BeforeTransitive ==
    ASSUME NEW p \in Seq(Nat), NEW q \in Seq(Nat), NEW r \in Seq(Nat),
           Before(p, q), Before(q, r)
    PROVE  Before(p, r)
<1>1. PICK d \in 1..Len(p) : d <= Len(q) /\ Above(p, d) = Above(q, d) /\ p[d] < q[d]
  BY BeforeFacts
<1>2. PICK e \in 1..Len(q) : e <= Len(r) /\ Above(q, e) = Above(r, e) /\ q[e] < r[e]
  BY BeforeFacts
<1>3. /\ Len(p) \in Nat /\ Len(q) \in Nat /\ Len(r) \in Nat
      /\ d \in Nat /\ e \in Nat /\ d \in 1..Len(q) /\ e \in 1..Len(r)
  BY <1>1, <1>2
<1>4. CASE d = e
  <2>1. Above(p, d) = Above(r, d)
    BY <1>1, <1>2, <1>4
  <2>2. p[d] < r[d]
    <3>1. p[d] \in Nat /\ q[d] \in Nat /\ r[d] \in Nat
      BY <1>3, <1>4, SMTT(30)
    <3> QED
      BY <1>1, <1>2, <1>4, <3>1, SMTT(30)
  <2> QED
    BY <1>2, <1>3, <1>4, <2>1, <2>2, BeforeFacts
<1>5. CASE d < e
  <2>1. e \in 1..(Len(q) + 1) /\ e <= Len(r) + 1 /\ d \in 1..(e - 1) /\ d \in 1..e
        /\ d <= Len(r)
    BY <1>2, <1>3, <1>5, SMTT(30)
  <2>2. q[d] = r[d] /\ Above(q, d) = Above(r, d)
    BY <1>2, <2>1, AboveAgree
  <2> QED
    BY <1>1, <2>1, <2>2, BeforeFacts
<1>6. CASE e < d
  <2>1. /\ d \in 1..(Len(p) + 1) /\ d <= Len(q) + 1 /\ e \in 1..(d - 1) /\ e \in 1..d
        /\ e \in 1..Len(p)
    BY <1>1, <1>3, <1>6, SMTT(30)
  <2>2. p[e] = q[e] /\ Above(p, e) = Above(q, e)
    BY <1>1, <2>1, AboveAgree
  <2> QED
    BY <1>2, <2>1, <2>2, BeforeFacts
<1> QED
  BY <1>3, <1>4, <1>5, <1>6

LEMMA BeforeIrreflexive ==
    ASSUME NEW p \in Seq(Nat)
    PROVE  ~Before(p, p)
<1>1. \A d \in 1..Len(p) : ~(p[d] < p[d])
  <2>1. \A d \in 1..Len(p) : p[d] \in Nat
    OBVIOUS
  <2> QED
    BY <2>1
<1> QED
  BY <1>1, BeforeFacts

\* Two parameters are one before the other.
LEMMA BeforeTotal ==
    ASSUME NEW c, Rooted(c), NEW t \in Seq(Nat), NEW p \in Leaves(c, t),
           NEW q \in Leaves(c, t), p # q
    PROVE  Before(p, q) \/ Before(q, p)
<1>1. p \in Seq(Nat) /\ q \in Seq(Nat)
  BY DEF Leaves, Rooted
<1>2. Len(p) \in Nat /\ Len(q) \in Nat /\ Len(t) \in Nat
  BY <1>1
<1> DEFINE T == { d \in Nat : d \in 1..Len(p) /\ d \in 1..Len(q) /\ p[d] # q[d] }
<1>3. CASE T # {}
  <2>1. PICK d \in T : \A j \in T : d <= j
    BY <1>3, LeastNatural
  <2>2. d \in 1..Len(p) /\ d \in 1..Len(q) /\ p[d] # q[d]
    BY <2>1
  <2>3. ASSUME NEW i \in 1..(d - 1)
        PROVE  p[i] = q[i]
    <3>1. i \in Nat /\ i \in 1..Len(p) /\ i \in 1..Len(q) /\ ~(d <= i)
      BY <1>2, <2>2
    <3>2. ~(i \in T)
      BY <2>1, <3>1
    <3> QED
      BY <3>1, <3>2
  <2>4. Above(p, d) = Above(q, d)
    <3>1. d \in 1..(Len(p) + 1) /\ d <= Len(q) + 1
      BY <1>2, <2>2
    <3> QED
      BY <1>1, <2>3, <3>1, AgreeAbove
  <2>5. p[d] \in Nat /\ q[d] \in Nat
    BY <1>1, <2>2
  <2>6. p[d] < q[d] \/ q[d] < p[d]
    BY <2>2, <2>5
  <2>7. d <= Len(p) /\ d <= Len(q)
    BY <1>2, <2>2
  <2> QED
    BY <2>2, <2>4, <2>6, <2>7, BeforeFacts
<1>4. CASE T = {}
  <2>1. ASSUME NEW r \in Leaves(c, t), NEW u \in Leaves(c, t), Len(r) <= Len(u),
               r # u, \A i \in 1..Len(r) : r[i] = u[i]
        PROVE  FALSE
    <3>1. r \in Seq(Nat) /\ u \in Seq(Nat)
      BY DEF Leaves, Rooted
    <3>2. Len(r) \in Nat /\ Len(u) \in Nat
      BY <3>1
    <3>3. Len(r) # Len(u)
      BY <2>1, <3>1, SeqEqual
    <3> DEFINE d == Len(r) + 1
    <3>4. /\ d \in 1..(Len(r) + 1) /\ d <= Len(u) + 1 /\ d - 1 = Len(r) /\ d \in 1..Len(u)
      BY <2>1, <3>2, <3>3
    <3>5. Above(r, d) = Above(u, d)
      BY <2>1, <3>1, <3>4, AgreeAbove
    <3>6. Above(r, d) = r
      BY <3>1, AboveFacts
    <3>7. Len(t) <= Len(r) /\ ChildrenOf(c, r) = 0
          /\ \A e \in (Len(t) + 1)..Len(u) : u[e] < ChildrenOf(c, Above(u, e))
      BY LeafFacts
    <3>8. d \in (Len(t) + 1)..Len(u) /\ u[d] \in Nat
      BY <1>2, <3>1, <3>2, <3>4, <3>7
    <3> HIDE DEF d
    <3>9. u[d] < 0
      BY <3>5, <3>6, <3>7, <3>8
    <3> QED
      BY <3>8, <3>9
  <2>2. ASSUME NEW i \in Nat, i \in 1..Len(p), i \in 1..Len(q)
        PROVE  p[i] = q[i]
    BY <1>4, <2>2
  <2>3. CASE Len(p) <= Len(q)
    <3>1. \A i \in 1..Len(p) : i \in Nat /\ i \in 1..Len(q)
      BY <1>2, <2>3
    <3> QED
      BY <2>1, <2>2, <2>3, <3>1
  <2>4. CASE Len(q) <= Len(p)
    <3>1. \A i \in 1..Len(q) : i \in Nat /\ i \in 1..Len(p)
      BY <1>2, <2>4
    <3> QED
      BY <2>1, <2>2, <2>4, <3>1
  <2> QED
    BY <1>2, <2>3, <2>4
<1> QED
  BY <1>3, <1>4

LEMMA KnownChildren ==
    ASSUME StartupAssumption, NEW c, Rooted(c), NEW p, Known(c, p)
    PROVE  p \in DOMAIN c.nodes /\ p \in Seq(Nat) /\ ChildrenOf(c, p) \in Nat
<1>1. p \in DOMAIN c.nodes /\ c.nodes[p] \in Objects /\ c.objects[c.nodes[p]] \in Versions
  BY DEF Known, Rooted, IsConfig
<1> QED
  BY <1>1 DEF ChildrenOf, Rooted, StartupAssumption

\* A parameter after the one that the walk came to is under a later child at a
\* level that goes on.
LEMMA LaterGoes ==
    ASSUME StartupAssumption, NEW c, Rooted(c), NEW t \in Seq(Nat), NEW p,
           CameTo(c, t, p), NEW q \in Leaves(c, t), Before(p, q)
    PROVE  \E e \in Going(c, p, Len(t)) :
              /\ e \in 1..Len(p) /\ e <= Len(q)
              /\ Above(p, e) = Above(q, e) /\ p[e] < q[e]
<1>1. p \in Leaves(c, t) /\ p \in Seq(Nat) /\ q \in Seq(Nat)
  BY DEF CameTo, Leaves, Rooted
<1>2. PICK e \in 1..Len(p) : e <= Len(q) /\ Above(p, e) = Above(q, e) /\ p[e] < q[e]
  BY BeforeFacts
<1>3. /\ Len(p) \in Nat /\ Len(q) \in Nat /\ Len(t) \in Nat /\ e \in 1..Len(q)
      /\ p[e] \in Nat /\ q[e] \in Nat
  BY <1>1, <1>2
<1>4. /\ Len(t) <= Len(p) /\ Above(p, Len(t) + 1) = t
      /\ Len(t) <= Len(q) /\ Above(q, Len(t) + 1) = t
      /\ \A d \in (Len(t) + 1)..Len(q) : q[d] < ChildrenOf(c, Above(q, d))
  BY <1>1, LeafFacts
<1>5. e > Len(t)
  <2>1. SUFFICES ASSUME e <= Len(t)
                 PROVE  FALSE
    BY <1>3
  <2>2. PICK d : d = Len(t) + 1
    OBVIOUS
  <2>3. d \in 1..(Len(p) + 1) /\ d <= Len(q) + 1 /\ e \in 1..(d - 1)
    BY <1>3, <1>4, <2>1, <2>2
  <2>4. Above(p, d) = Above(q, d)
    BY <1>4, <2>2
  <2>5. p[e] = q[e]
    BY <1>1, <2>3, <2>4, AboveAgree
  <2>6. p[e] < q[e]
    BY <1>2
  <2> QED
    BY <1>3, <2>5, <2>6
<1>6. e \in (Len(t) + 1)..Len(q) /\ e \in (Len(t) + 1)..(Len(p) + 1)
  BY <1>3, <1>5
<1>7. ChildrenOf(c, Above(p, e)) \in Nat
  BY <1>6, KnownChildren DEF CameTo
<1>8. q[e] < ChildrenOf(c, Above(p, e))
  BY <1>2, <1>4, <1>6
<1>9. p[e] < ChildrenOf(c, Above(p, e)) - 1
  BY <1>2, <1>3, <1>7, <1>8
<1>10. p # <<>>
  BY <1>1, <1>2, <1>3, EmptySeq
<1>11. e \in Going(c, p, Len(t))
  BY <1>1, <1>3, <1>5, <1>9, <1>10, GoingFacts
<1> QED
  BY <1>2, <1>11

\* n is the first child of each node below q, k levels down to the last.
FirstBelow(c, q, n, k) ==
    /\ Len(n) = Len(q) + k
    /\ \A i \in 1..Len(q) : n[i] = q[i]
    /\ \A i \in (Len(q) + 1)..(Len(q) + k) : n[i] = 0 /\ Inside(c, Above(n, i))
    /\ Above(n, Len(q) + 1) = q
    /\ ~Inside(c, n)

LEMMA DownShape ==
    ASSUME NEW c, Rooted(c), NEW q \in Seq(Nat), NEW n, n = Down(c, q)
    PROVE  n \in Seq(Nat) /\ \E k \in Nat : FirstBelow(c, q, n, k)
<1>1. PICK k \in Nat : /\ n = Deeper(q, k)
                       /\ ~Inside(c, Deeper(q, k))
                       /\ \A l \in 0..(k - 1) : Inside(c, Deeper(q, l))
  BY DownEnds
<1>2. /\ n \in Seq(Nat) /\ Len(n) = Len(q) + k
      /\ \A i \in 1..Len(q) : n[i] = q[i]
      /\ \A i \in (Len(q) + 1)..(Len(q) + k) : n[i] = 0
  <2>1. /\ Deeper(q, k) \in Seq(Nat)
        /\ Len(Deeper(q, k)) = Len(q) + k
        /\ \A i \in 1..Len(q) : Deeper(q, k)[i] = q[i]
        /\ \A i \in (Len(q) + 1)..(Len(q) + k) : Deeper(q, k)[i] = 0
    BY DeeperFacts, Zenon
  <2> QED
    BY <1>1, <2>1, Zenon
<1>3. Len(q) \in Nat
  OBVIOUS
<1>4. ASSUME NEW i \in (Len(q) + 1)..(Len(q) + k)
      PROVE  Inside(c, Above(n, i))
  <2>1. PICK l \in Nat : l = i - Len(q) - 1
    <3>1. i - Len(q) - 1 \in Nat
      BY <1>3
    <3> QED
      BY <3>1
  <2>2. l \in 0..k /\ l \in 0..(k - 1) /\ Len(q) + l + 1 = i
    BY <1>3, <2>1
  <2>3. Above(Deeper(q, k), Len(q) + l + 1) = Deeper(q, l)
    BY <2>2, DeeperNext
  <2> QED
    BY <1>1, <2>2, <2>3
<1>5. Above(n, Len(q) + 1) = q
  <2>1. 0 \in 0..k /\ Len(q) + 0 + 1 = Len(q) + 1
    BY <1>3
  <2>2. Above(Deeper(q, k), Len(q) + 0 + 1) = Deeper(q, 0)
    BY <2>1, DeeperNext
  <2> QED
    BY <1>1, <2>1, <2>2, DeeperZero
<1>6. FirstBelow(c, q, n, k)
  BY <1>1, <1>2, <1>4, <1>5 DEF FirstBelow
<1> QED
  BY <1>2, <1>6

\* The walk goes on from p to n: n agrees with p above the deepest level d that
\* goes on, and from there it takes the first children.
GoesOn(c, t, p, n, d, k) ==
    /\ d > Len(t)
    /\ p[d] + 1 < ChildrenOf(c, Above(p, d))
    /\ \A e \in Going(c, p, Len(t)) : e <= d
    /\ Len(n) = d + k
    /\ Above(n, d) = Above(p, d)
    /\ n[d] = p[d] + 1
    /\ \A i \in (d + 1)..(d + k) : n[i] = 0 /\ Inside(c, Above(n, i))
    /\ ~Inside(c, n)

LEMMA NextFacts ==
    ASSUME StartupAssumption, NEW c, Rooted(c), NEW t \in Seq(Nat),
           ChildrenOf(c, t) > 0, NEW p, CameTo(c, t, p),
           Going(c, p, Len(t)) # {}, NEW n, n = Down(c, After(c, p, Len(t)))
    PROVE  /\ n \in Seq(Nat)
           /\ \E d \in 1..Len(p) : \E k \in Nat : GoesOn(c, t, p, n, d, k)
<1> DEFINE b == Len(t)
           G == Going(c, p, b)
<1>1. p \in Leaves(c, t) /\ p \in Seq(Nat) /\ Len(p) \in Nat /\ b \in Nat
  <2>1. p \in Leaves(c, t) /\ p \in Seq(Nat)
    BY DEF CameTo, Leaves, Rooted
  <2> QED
    BY <2>1
<1>2. b <= Len(p) /\ Above(p, b + 1) = t /\ ChildrenOf(c, p) = 0
  BY <1>1, LeafFacts
<1>3. b < Len(p)
  <2>1. b = Len(p) => Above(p, b + 1) = p
    BY <1>1, AboveFacts
  <2>2. ~(0 > 0)
    OBVIOUS
  <2> QED
    BY <1>1, <1>2, <2>1, <2>2
<1>4. p # <<>>
  BY <1>1, <1>3, EmptySeq
<1> DEFINE a(d) == Append(Above(p, d), p[d] + 1)
<1>5. PICK d \in 1..Len(p) : d \in G /\ (\A e \in G : e <= d) /\ After(c, p, b) = a(d)
  BY <1>1, <1>4, AfterFacts
<1>6. d > b /\ p[d] < ChildrenOf(c, Above(p, d)) - 1
  <2>1. (d > b \/ d = Len(p)) /\ p[d] < ChildrenOf(c, Above(p, d)) - 1
    BY <1>1, <1>4, <1>5, GoingFacts
  <2> QED
    BY <1>3, <2>1
<1>7. /\ d \in Nat /\ p[d] \in Nat /\ d \in (b + 1)..(Len(p) + 1) /\ d \in 1..(Len(p) + 1)
      /\ d \in 1..(d + 1)
  BY <1>1, <1>6
<1>8. p[d] + 1 < ChildrenOf(c, Above(p, d))
  <2>1. ChildrenOf(c, Above(p, d)) \in Nat
    BY <1>7, KnownChildren DEF CameTo
  <2> QED
    BY <1>6, <1>7, <2>1
<1>9. PICK q : q = a(d)
  OBVIOUS
<1>10. /\ q \in Seq(Nat) /\ Len(q) = d /\ q[d] = p[d] + 1
       /\ \A i \in 1..(d - 1) : q[i] = p[i]
  <2>1. /\ Above(p, d) \in Seq(Nat) /\ Len(Above(p, d)) = d - 1
        /\ \A i \in 1..(d - 1) : Above(p, d)[i] = p[i]
    BY <1>1, <1>7, AboveFacts
  <2> QED
    BY <1>7, <1>9, <2>1, SMTT(30)
<1>11. Above(q, d) = Above(p, d)
  <2>1. d \in 1..(Len(q) + 1) /\ d <= Len(p) + 1
    BY <1>1, <1>7, <1>10
  <2>2. q \in Seq(Nat) /\ \A i \in 1..(d - 1) : q[i] = p[i]
    BY <1>10
  <2> QED
    BY <1>1, <2>1, <2>2, AgreeAbove
<1>12. n = Down(c, q)
  BY <1>5, <1>9
<1> HIDE DEF G
<1>13. n \in Seq(Nat) /\ \E k \in Nat : FirstBelow(c, q, n, k)
  <2>1. q \in Seq(Nat)
    BY <1>10
  <2> QED
    BY <1>12, <2>1, DownShape, Zenon
<1>14. PICK k \in Nat :
          /\ n \in Seq(Nat) /\ Len(n) = Len(q) + k
          /\ \A i \in 1..Len(q) : n[i] = q[i]
          /\ \A i \in (Len(q) + 1)..(Len(q) + k) : n[i] = 0 /\ Inside(c, Above(n, i))
          /\ Above(n, Len(q) + 1) = q
          /\ ~Inside(c, n)
  BY <1>13 DEF FirstBelow
<1>15. /\ n \in Seq(Nat) /\ Len(n) = d + k
       /\ \A i \in 1..d : n[i] = q[i]
  BY <1>10, <1>14
<1>16. Above(n, d) = Above(p, d)
  <2>1. d + 1 \in 1..(Len(n) + 1) /\ d \in 1..(d + 1)
    BY <1>7, <1>15
  <2>2. Above(n, d + 1) = q
    BY <1>10, <1>14
  <2>3. n \in Seq(Nat)
    BY <1>14
  <2>4. Above(Above(n, d + 1), d) = Above(n, d)
    BY <2>1, <2>3, AboveAbove
  <2> QED
    BY <1>11, <2>2, <2>4
<1>17. \A i \in (d + 1)..(d + k) : n[i] = 0 /\ Inside(c, Above(n, i))
  BY <1>10, <1>14
<1>18. n[d] = p[d] + 1
  BY <1>7, <1>10, <1>15
<1> QED
  <2>1. /\ d > Len(t)
        /\ p[d] + 1 < ChildrenOf(c, Above(p, d))
        /\ \A e \in Going(c, p, Len(t)) : e <= d
    BY <1>5, <1>6, <1>8 DEF G
  <2>2. ~Inside(c, n) /\ n \in Seq(Nat)
    BY <1>14
  <2>3. GoesOn(c, t, p, n, d, k)
    BY <1>15, <1>16, <1>17, <1>18, <2>1, <2>2 DEF GoesOn
  <2> QED
    BY <2>2, <2>3

\* The walk comes to what it goes to, if that is known.
LEMMA NextCameTo ==
    ASSUME StartupAssumption, NEW c, Rooted(c), NEW t \in Seq(Nat),
           ChildrenOf(c, t) > 0, NEW p, CameTo(c, t, p),
           NEW n \in Seq(Nat), Known(c, n), NEW d \in 1..Len(p), NEW k \in Nat,
           GoesOn(c, t, p, n, d, k)
    PROVE  CameTo(c, t, n) /\ Before(p, n)
<1>1. p \in Leaves(c, t) /\ p \in Seq(Nat)
  BY DEF CameTo, Leaves, Rooted
<1>2. /\ Len(t) <= Len(p) /\ Above(p, Len(t) + 1) = t
      /\ \A i \in (Len(t) + 1)..Len(p) : p[i] < ChildrenOf(c, Above(p, i))
  BY <1>1, LeafFacts
<1>3. n \in Seq(Nat) /\ Len(p) \in Nat /\ Len(t) \in Nat
  BY <1>1
<1>4. /\ d > Len(t)
      /\ p[d] + 1 < ChildrenOf(c, Above(p, d))
      /\ Len(n) = d + k
      /\ Above(n, d) = Above(p, d)
      /\ n[d] = p[d] + 1
      /\ \A i \in (d + 1)..(d + k) : n[i] = 0 /\ Inside(c, Above(n, i))
      /\ ~Inside(c, n)
  BY DEF GoesOn
<1>5. /\ d \in 1..(Len(n) + 1) /\ d <= Len(p) + 1 /\ d <= Len(n) /\ d \in Nat
      /\ Len(t) <= Len(n) /\ Len(t) + 1 \in 1..d
  BY <1>3, <1>4
<1>6. /\ \A i \in 1..(d - 1) : n[i] = p[i]
      /\ \A i \in 1..d : Above(n, i) = Above(p, i)
  <2>1. Above(n, d) = Above(p, d)
    BY <1>4
  <2>2. p \in Seq(Nat) /\ n \in Seq(Nat) /\ d \in 1..(Len(n) + 1) /\ d <= Len(p) + 1
    BY <1>1, <1>3, <1>5
  <2> QED
    BY ONLY <2>1, <2>2, AboveAgree
<1>7. \A i \in 1..(d - 1) : n[i] = p[i]
  BY <1>6
<1>8. \A i \in 1..d : Above(n, i) = Above(p, i)
  BY <1>6
<1>9. Above(n, Len(t) + 1) = t
  BY <1>2, <1>5, <1>8
<1>10. ASSUME NEW i \in (Len(t) + 1)..Len(n)
       PROVE  n[i] < ChildrenOf(c, Above(n, i)) /\ Known(c, Above(n, i))
  <2>1. CASE i < d
    <3>1. i \in 1..(d - 1) /\ i \in 1..d /\ i \in (Len(t) + 1)..Len(p)
          /\ i \in (Len(t) + 1)..(Len(p) + 1)
      BY <1>3, <1>5, <2>1
    <3>2. n[i] = p[i] /\ Above(n, i) = Above(p, i)
      BY <1>7, <1>8, <3>1
    <3>3. p[i] < ChildrenOf(c, Above(p, i)) /\ Known(c, Above(p, i))
      BY <1>2, <3>1 DEF CameTo
    <3> QED
      BY <3>2, <3>3
  <2>2. CASE i = d
    <3>1. d \in (Len(t) + 1)..(Len(p) + 1)
      BY <1>3, <1>4, <1>5
    <3>2. Known(c, Above(p, d))
      BY <3>1 DEF CameTo
    <3> QED
      BY <1>4, <2>2, <3>2
  <2>3. CASE i > d
    <3>1. i \in (d + 1)..(d + k)
      BY <1>3, <1>4, <1>5, <2>3
    <3>2. n[i] = 0 /\ Inside(c, Above(n, i))
      BY <1>4, <3>1
    <3> QED
      BY <3>2 DEF Inside
  <2> QED
    BY <1>3, <1>5, <2>1, <2>2, <2>3
<1>11. ChildrenOf(c, n) = 0 /\ n \in DOMAIN c.nodes
  <2>1. ChildrenOf(c, n) \in Nat /\ n \in DOMAIN c.nodes
    BY KnownChildren
  <2>2. ~(ChildrenOf(c, n) > 0)
    BY <1>4 DEF Inside
  <2> QED
    BY <2>1, <2>2
<1>12. n \in Leaves(c, t)
  BY <1>5, <1>9, <1>10, <1>11, LeafFacts
<1>13. ASSUME NEW i \in (Len(t) + 1)..(Len(n) + 1)
       PROVE  Known(c, Above(n, i))
  <2>1. i \in (Len(t) + 1)..Len(n) \/ i = Len(n) + 1
    BY <1>3
  <2>2. Above(n, Len(n) + 1) = n
    BY <1>3, AboveFacts
  <2> QED
    BY <1>10, <2>1, <2>2
<1>14. Before(p, n)
  <2>1. p[d] \in Nat
    BY <1>1
  <2>2. p[d] < n[d]
    BY <1>4, <2>1
  <2>3. Above(p, d) = Above(n, d)
    BY <1>4
  <2> QED
    BY <1>5, <2>2, <2>3, BeforeFacts
<1> QED
  BY <1>12, <1>13, <1>14 DEF CameTo

\* And it leaves none out: what is before that is before p, or p.
LEMMA NextLeavesNone ==
    ASSUME StartupAssumption, NEW c, Rooted(c), NEW t \in Seq(Nat),
           ChildrenOf(c, t) > 0, NEW p, CameTo(c, t, p),
           NEW n \in Seq(Nat), NEW d \in 1..Len(p), NEW k \in Nat,
           GoesOn(c, t, p, n, d, k), NEW q \in Leaves(c, t), Before(q, n)
    PROVE  q = p \/ Before(q, p)
<1>1. p \in Leaves(c, t) /\ p \in Seq(Nat) /\ q \in Seq(Nat)
  BY DEF CameTo, Leaves, Rooted
<1>2. SUFFICES ASSUME Before(p, q)
               PROVE  FALSE
  BY <1>1, BeforeTotal
<1>3. PICK e \in Going(c, p, Len(t)) : /\ e \in 1..Len(p) /\ e <= Len(q)
                                       /\ Above(p, e) = Above(q, e) /\ p[e] < q[e]
  BY <1>2, LaterGoes
<1>4. /\ e <= d
      /\ Len(n) = d + k
      /\ Above(n, d) = Above(p, d)
      /\ n[d] = p[d] + 1
      /\ \A i \in (d + 1)..(d + k) : n[i] = 0
  BY DEF GoesOn
<1>5. PICK f \in 1..Len(q) : f <= Len(n) /\ Above(q, f) = Above(n, f) /\ q[f] < n[f]
  BY BeforeFacts
<1>6. /\ Len(p) \in Nat /\ Len(q) \in Nat /\ e \in Nat /\ d \in Nat /\ f \in Nat
      /\ e \in 1..Len(q) /\ d \in 1..Len(p)
  <2>1. Len(p) \in Nat /\ Len(q) \in Nat
    BY <1>1
  <2> QED
    BY <1>3, <1>5, <2>1
<1>7. p[e] \in Nat /\ q[e] \in Nat /\ q[f] \in Nat /\ p[d] \in Nat
  <2>1. \A i \in 1..Len(p) : p[i] \in Nat
    BY <1>1
  <2>2. \A i \in 1..Len(q) : q[i] \in Nat
    BY <1>1, SMTT(30)
  <2> QED
    BY <1>3, <1>5, <1>6, <2>1, <2>2
\* n is p above the level d, and so is q above the level e.
<1>8. \A i \in 1..(d - 1) : n[i] = p[i]
  <2>1. d \in 1..(Len(n) + 1) /\ d <= Len(p) + 1
    BY <1>4, <1>6
  <2>2. Above(n, d) = Above(p, d)
    BY <1>4
  <2> QED
    BY <1>1, <2>1, <2>2, AboveAgree
<1>9. \A i \in 1..(e - 1) : p[i] = q[i]
  <2>1. e \in 1..(Len(p) + 1) /\ e <= Len(q) + 1
    BY <1>3, <1>6
  <2> QED
    BY <1>1, <1>3, <2>1, AboveAgree
<1>10. \A i \in 1..(f - 1) : q[i] = n[i]
  <2>1. f \in 1..(Len(q) + 1) /\ f <= Len(n) + 1
    BY <1>5, <1>6, <1>4
  <2>2. Above(q, f) = Above(n, f)
    BY <1>5
  <2> QED
    BY <1>1, <2>1, <2>2, AboveAgree
<1>11. CASE f < e
  <2>1. f \in 1..(e - 1) /\ f \in 1..(d - 1)
    BY <1>4, <1>6, <1>11, <1>5
  <2>2. p[f] = q[f] /\ n[f] = p[f]
    BY <1>8, <1>9, <2>1
  <2> QED
    BY <1>5, <1>7, <2>2
<1>12. CASE f = e /\ e < d
  <2>1. e \in 1..(d - 1)
    BY <1>3, <1>6, <1>12
  <2>2. n[e] = p[e]
    BY <1>8, <2>1
  <2> QED
    BY <1>3, <1>5, <1>7, <1>12, <2>2
<1>13. CASE f = e /\ e = d
  <2>1. q[d] < p[d] + 1 /\ p[d] < q[d] /\ q[d] \in Nat /\ p[d] \in Nat
    BY <1>3, <1>4, <1>5, <1>7, <1>13
  <2> QED
    BY <2>1
<1>14. CASE f > e /\ e < d
  <2>1. e \in 1..(f - 1) /\ e \in 1..(d - 1)
    BY <1>3, <1>6, <1>14
  <2>2. q[e] = n[e] /\ n[e] = p[e]
    BY <1>8, <1>10, <2>1
  <2> QED
    BY <1>3, <1>7, <2>2
<1>15. CASE f > e /\ e = d
  <2>1. f \in (d + 1)..(d + k)
    BY <1>4, <1>5, <1>6, <1>15
  <2>2. n[f] = 0
    BY <1>4, <2>1
  <2> QED
    BY <1>5, <1>7, <2>2
<1>16. f < e \/ f = e \/ f > e
  BY <1>6
<1>17. e < d \/ e = d
  BY <1>4, <1>6
<1> QED
  BY <1>11, <1>12, <1>13, <1>14, <1>15, <1>16, <1>17

\* The walk starts at the first parameter under t.
LEMMA TrackFirst ==
    ASSUME StartupAssumption, NEW c, Rooted(c), NEW t \in Seq(Nat), Known(c, t),
           NEW n \in Seq(Nat), NEW k \in Nat, FirstBelow(c, t, n, k), Known(c, n)
    PROVE  Track(c, t, <<n>>)
<1>1. /\ Len(n) = Len(t) + k
      /\ \A i \in (Len(t) + 1)..(Len(t) + k) : n[i] = 0 /\ Inside(c, Above(n, i))
      /\ Above(n, Len(t) + 1) = t
      /\ ~Inside(c, n)
  BY DEF FirstBelow
<1>2. n \in Seq(Nat) /\ Len(t) \in Nat /\ Len(t) <= Len(n) /\ Len(n) \in Nat
  BY <1>1
<1>3. ASSUME NEW i \in (Len(t) + 1)..Len(n)
      PROVE  /\ n[i] = 0 /\ n[i] < ChildrenOf(c, Above(n, i))
             /\ Known(c, Above(n, i))
  <2>1. n[i] = 0 /\ Inside(c, Above(n, i))
    BY <1>1, <1>2
  <2>2. ChildrenOf(c, Above(n, i)) \in Nat
    BY <2>1, KnownChildren DEF Inside
  <2> QED
    BY <2>1, <2>2 DEF Inside
<1>4. ChildrenOf(c, n) = 0 /\ n \in DOMAIN c.nodes
  <2>1. ChildrenOf(c, n) \in Nat /\ n \in DOMAIN c.nodes
    BY KnownChildren
  <2>2. ~(ChildrenOf(c, n) > 0)
    BY <1>1 DEF Inside
  <2> QED
    BY <2>1, <2>2
<1>5. n \in Leaves(c, t)
  <2>1. Above(n, Len(t) + 1) = t
    BY <1>1
  <2> QED
    BY <1>2, <1>3, <1>4, <2>1, LeafFacts
<1>6. ASSUME NEW i \in (Len(t) + 1)..(Len(n) + 1)
      PROVE  Known(c, Above(n, i))
  <2>1. i \in (Len(t) + 1)..Len(n) \/ i = Len(n) + 1
    BY <1>2
  <2>2. Above(n, Len(n) + 1) = n
    BY <1>2, AboveFacts
  <2> QED
    BY <1>3, <2>1, <2>2
<1>7. ASSUME NEW q \in Leaves(c, t), Before(q, n)
      PROVE  FALSE
  <2>1. PICK f \in 1..Len(q) : f <= Len(n) /\ Above(q, f) = Above(n, f) /\ q[f] < n[f]
    BY <1>7, BeforeFacts
  <2>2. q \in Seq(Nat)
    BY DEF Leaves, Rooted
  <2>3. Len(q) \in Nat /\ f \in Nat /\ q[f] \in Nat /\ f \in 1..Len(n)
    BY <1>2, <2>1, <2>2
  <2>4. Len(t) <= Len(q) /\ Above(q, Len(t) + 1) = t
    BY LeafFacts
  <2>5. CASE f <= Len(t)
    <3>1. PICK e : e = Len(t) + 1
      OBVIOUS
    <3>2. e \in 1..(Len(q) + 1) /\ e <= Len(n) + 1 /\ f \in 1..(e - 1)
      BY <1>2, <2>3, <2>4, <2>5, <3>1
    <3>3. Above(q, e) = Above(n, e)
      BY <1>1, <2>4, <3>1
    <3>4. q[f] = n[f]
      <4>1. \A i \in 1..(e - 1) : q[i] = n[i]
        BY <2>2, <3>2, <3>3, AboveAgree
      <4> QED
        BY <3>2, <4>1
    <3> QED
      BY <2>1, <2>3, <3>4
  <2>6. CASE f > Len(t)
    <3>1. f \in (Len(t) + 1)..Len(n)
      BY <1>2, <2>3, <2>6
    <3>2. n[f] = 0
      BY <1>3, <3>1
    <3> QED
      BY <2>1, <2>3, <3>2
  <2> QED
    BY <1>2, <2>3, <2>5, <2>6
<1> DEFINE s == <<n>>
<1>8. /\ s \in Seq(Seq(Nat)) /\ s # <<>> /\ Len(s) = 1 /\ DOMAIN s = {1} /\ s[1] = n
  BY <1>2
<1> HIDE DEF s
<1>9. Last(s) = n
  BY <1>8 DEF Last
<1>10. CameTo(c, t, n)
  BY <1>5, <1>6 DEF CameTo
<1>11. \A i, j \in DOMAIN s : ~(i < j)
  BY <1>8
<1> QED
  BY <1>7, <1>8, <1>9, <1>10, <1>11 DEF Track, s

LEMMA TrackStart ==
    ASSUME StartupAssumption, NEW c, Rooted(c), NEW t \in Seq(Nat), Known(c, t),
           Known(c, Down(c, t))
    PROVE  Track(c, t, <<Down(c, t)>>)
<1>1. PICK n : n = Down(c, t)
  OBVIOUS
<1>2. n \in Seq(Nat) /\ \E k \in Nat : FirstBelow(c, t, n, k)
  BY <1>1, DownShape
<1>3. PICK k \in Nat : FirstBelow(c, t, n, k)
  BY <1>2
<1>4. Known(c, n)
  BY <1>1
<1>5. Track(c, t, <<n>>)
  BY <1>2, <1>3, <1>4, TrackFirst
<1> QED
  BY <1>1, <1>5

\* It goes on to the next one.
LEMMA TrackStep ==
    ASSUME StartupAssumption, NEW c, Rooted(c), NEW t \in Seq(Nat),
           ChildrenOf(c, t) > 0, NEW s, Track(c, t, s),
           Going(c, Last(s), Len(t)) # {},
           Known(c, Down(c, After(c, Last(s), Len(t))))
    PROVE  /\ Down(c, After(c, Last(s), Len(t))) \in Seq(Nat)
           /\ Track(c, t, Append(s, Down(c, After(c, Last(s), Len(t)))))
<1>1. PICK p : p = Last(s)
  OBVIOUS
<1>2. PICK n : n = Down(c, After(c, p, Len(t)))
  OBVIOUS
<1>3. Known(c, n)
  BY <1>1, <1>2
<1>4. s \in Seq(Seq(Nat)) /\ Len(s) \in Nat \ {0} /\ Len(s) \in DOMAIN s
      /\ DOMAIN s = 1..Len(s)
  <2>1. s \in Seq(Seq(Nat)) /\ s # <<>>
    BY DEF Track
  <2> QED
    BY <2>1, EmptySeq
<1>5. CameTo(c, t, p) /\ p = s[Len(s)]
  BY <1>1, <1>4 DEF Track, Last
<1>6. n \in Seq(Nat) /\ \E d \in 1..Len(p) : \E k \in Nat : GoesOn(c, t, p, n, d, k)
  BY <1>1, <1>5, <1>2, NextFacts
<1>7. PICK d \in 1..Len(p) : \E k \in Nat : GoesOn(c, t, p, n, d, k)
  BY <1>6
<1>8. PICK k \in Nat : GoesOn(c, t, p, n, d, k)
  BY <1>7
<1>9. CameTo(c, t, n) /\ Before(p, n)
  BY <1>5, <1>6, <1>8, <1>3, NextCameTo
<1>10. \A q \in Leaves(c, t) : Before(q, n) => q = p \/ Before(q, p)
  BY <1>5, <1>6, <1>8, NextLeavesNone
<1> DEFINE r == Append(s, n)
<1>11. /\ r \in Seq(Seq(Nat)) /\ r # <<>> /\ Len(r) = Len(s) + 1
       /\ DOMAIN r = 1..(Len(s) + 1)
       /\ \A i \in DOMAIN s : i \in DOMAIN r /\ r[i] = s[i]
       /\ r[Len(s) + 1] = n /\ Len(s) + 1 \in DOMAIN r
  <2>1. /\ r \in Seq(Seq(Nat)) /\ r # <<>> /\ Len(r) = Len(s) + 1
        /\ \A i \in 1..Len(s) : r[i] = s[i]
        /\ r[Len(s) + 1] = n
    <3> DEFINE X == Seq(Nat)
    <3>1. s \in Seq(X) /\ n \in X
      BY <1>4, <1>6
    <3>2. r \in Seq(X)
      <4> HIDE DEF X
      <4> QED
        BY <3>1, AppendProperties
    <3>3. r # <<>> /\ Len(r) = Len(s) + 1
      <4> HIDE DEF X
      <4> QED
        BY <3>1, AppendProperties
    <3>4. /\ \A i \in 1..Len(s) : r[i] = s[i]
          /\ r[Len(s) + 1] = n
      <4> HIDE DEF X
      <4> QED
        BY <3>1, AppendProperties
    <3> QED
      BY <3>2, <3>3, <3>4
  <2> HIDE DEF r
  <2>2. DOMAIN r = 1..(Len(s) + 1)
    BY <2>1
  <2> QED
    BY <1>4, <2>1, <2>2
<1> HIDE DEF r
<1>12. Last(r) = n
  BY <1>11 DEF Last
<1>13. \A i \in DOMAIN r : i \in DOMAIN s \/ i = Len(s) + 1
  BY <1>4, <1>11
<1>14. \A i \in DOMAIN r : CameTo(c, t, r[i])
  <2>1. \A i \in DOMAIN s : CameTo(c, t, s[i])
    BY DEF Track
  <2> QED
    BY <1>9, <1>11, <1>13, <2>1
<1>15. ASSUME NEW i \in DOMAIN r, NEW j \in DOMAIN r, i < j
       PROVE  Before(r[i], r[j])
  <2>1. i \in DOMAIN s
    BY <1>4, <1>11, <1>15
  <2>2. CASE j \in DOMAIN s
    BY <1>11, <1>15, <2>1, <2>2 DEF Track
  <2>3. CASE j = Len(s) + 1
    <3>1. CASE i = Len(s)
      BY <1>5, <1>9, <1>11, <2>1, <2>3, <3>1
    <3>2. CASE i # Len(s)
      <4>1. i < Len(s)
        BY <1>4, <2>1, <3>2
      <4>2. Before(s[i], p)
        BY <1>4, <1>5, <2>1, <4>1 DEF Track
      <4>3. s[i] \in Seq(Nat) /\ p \in Seq(Nat)
        BY <1>4, <1>5, <2>1
      <4>4. Before(s[i], n)
        BY <1>6, <1>9, <4>2, <4>3, BeforeTransitive
      <4> QED
        BY <1>11, <2>1, <2>3, <4>4
    <3> QED
      BY <3>1, <3>2
  <2> QED
    BY <1>13, <2>2, <2>3
<1>16. ASSUME NEW q \in Leaves(c, t), Before(q, n)
       PROVE  \E i \in DOMAIN r : q = r[i]
  <2>1. \E i \in DOMAIN s : q = s[i]
    <3>1. CASE q = p
      BY <1>4, <1>5, <3>1
    <3>2. CASE Before(q, p)
      BY <1>1, <3>2 DEF Track
    <3> QED
      BY <1>10, <1>16, <3>1, <3>2
  <2> QED
    BY <1>11, <2>1
<1>17. Track(c, t, r)
  BY <1>11, <1>12, <1>14, <1>15, <1>16 DEF Track
<1>18. Track(c, t, Append(s, n))
  BY <1>17 DEF r
<1> QED
  BY <1>1, <1>6, <1>18, <1>2

\* When no level goes on it has come to all.
LEMMA TrackEnd ==
    ASSUME StartupAssumption, NEW c, Rooted(c), NEW t \in Seq(Nat), NEW s,
           Track(c, t, s), Going(c, Last(s), Len(t)) = {}
    PROVE  Range(s) = Leaves(c, t)
<1>1. s \in Seq(Seq(Nat)) /\ Len(s) \in DOMAIN s
  <2>1. s \in Seq(Seq(Nat)) /\ s # <<>>
    BY DEF Track
  <2> QED
    BY <2>1, EmptySeq
<1>2. PICK p : p = Last(s)
  OBVIOUS
<1>3. CameTo(c, t, p) /\ p = s[Len(s)] /\ p \in Leaves(c, t)
  BY <1>1, <1>2 DEF Track, Last, CameTo
<1>4. ASSUME NEW q \in Leaves(c, t)
      PROVE  \E i \in DOMAIN s : q = s[i]
  <2>1. CASE q = p
    BY <1>1, <1>3, <2>1
  <2>2. CASE Before(q, p)
    BY <1>2, <2>2 DEF Track
  <2>3. CASE Before(p, q)
    <3>1. \E e \in Going(c, p, Len(t)) : TRUE
      BY <1>3, <2>3, LaterGoes
    <3> QED
      BY <1>2, <3>1
  <2> QED
    BY <1>3, <2>1, <2>2, <2>3, BeforeTotal
<1>5. \A i \in DOMAIN s : s[i] \in Leaves(c, t)
  BY DEF Track, CameTo
<1> QED
  BY <1>4, <1>5 DEF Range

\* It comes to no node twice.
LEMMA TrackLength ==
    ASSUME NEW c, Rooted(c), NEW t, NEW s, Track(c, t, s)
    PROVE  Len(s) <= Cardinality(DOMAIN c.nodes)
<1> DEFINE D == DOMAIN c.nodes
<1>1. s \in Seq(Seq(Nat))
  BY DEF Track
<1>2. \A i \in 1..Len(s) : s[i] \in D /\ s[i] \in Seq(Nat)
  BY <1>1 DEF Track, CameTo, Leaves
<1> HIDE DEF D
<1>3. s \in [1..Len(s) -> D]
  BY <1>1, <1>2
<1>4. ASSUME NEW i \in 1..Len(s), NEW j \in 1..Len(s), s[i] = s[j]
      PROVE  i = j
  <2>1. i \in DOMAIN s /\ j \in DOMAIN s
    BY <1>1
  <2>2. ~(i < j) /\ ~(j < i)
    BY <1>2, <1>4, <2>1, BeforeIrreflexive DEF Track
  <2> QED
    BY <2>2
<1>5. s \in Injection(1..Len(s), D)
  BY <1>3, <1>4 DEF Injection, IsInjective
<1>6. IsFiniteSet(D)
  BY DEF Rooted, D
<1>7. Cardinality(1..Len(s)) <= Cardinality(D)
  BY <1>5, <1>6, FS_Injection
<1>8. Cardinality(1..Len(s)) = Len(s)
  <2>1. Len(s) \in Nat
    BY <1>1
  <2>2. Cardinality(1..Len(s)) = IF 1 > Len(s) THEN 0 ELSE Len(s) - 1 + 1
    BY <2>1, FS_Interval
  <2> QED
    BY <2>1, <2>2
<1> QED
  BY <1>7, <1>8 DEF D

\* A walk that is made at once misses a node, or comes to all parameters.
LEMMA ReachedTrack ==
    ASSUME StartupAssumption, NEW c, Rooted(c), NEW t \in Seq(Nat), Known(c, t),
           ChildrenOf(c, t) > 0
    PROVE  LET s == Reached(c, Down(c, t), Len(t))
           IN /\ s \in Seq(Seq(Nat)) \ {<<>>}
              /\ \/ ~Known(c, Last(s))
                 \/ Track(c, t, s) /\ Going(c, Last(s), Len(t)) = {}
<1> DEFINE N == Cardinality(DOMAIN c.nodes)
           b == Len(t)
           p == Down(c, t)
           Good(k, s) == \/ ~Known(c, Last(s))
                         \/ Track(c, t, s) /\ (Going(c, Last(s), b) = {} \/ Len(s) = k + 1)
           X == Seq(Seq(Nat)) \ {<<>>}
           S == { x \in (0..N) \X X : Good(x[1], x[2]) }
<1>1. N \in Nat
  BY FS_CardinalityType DEF Rooted
<1>2. ASSUME NEW k \in 0..N, NEW s \in X, Good(k, s)
      PROVE  <<k, s>> \in S
  <2> HIDE DEF X, Good
  <2> QED
    BY <1>2
<1>3. ASSUME NEW k, NEW s, <<k, s>> \in S
      PROVE  k \in 0..N /\ s \in X /\ Good(k, s)
  <2> HIDE DEF X, Good
  <2> QED
    BY <1>3
<1>4. <<0, <<p>>>> \in S
  <2>1. p \in Seq(Nat)
    BY DownShape
  <2>2. <<p>> \in X /\ Last(<<p>>) = p /\ Len(<<p>>) = 0 + 1
    <3> HIDE DEF p
    <3> QED
      BY <2>1 DEF Last
  <2>3. Known(c, p) => Track(c, t, <<p>>)
    BY TrackStart
  <2>4. Good(0, <<p>>)
    <3> HIDE DEF p
    <3> QED
      BY <2>2, <2>3
  <2>5. 0 \in 0..N
    BY <1>1
  <2> HIDE DEF S, Good, N, p, X
  <2> QED
    BY <1>2, <2>2, <2>4, <2>5
<1>5. ASSUME NEW k \in 0..(N - 1), NEW s, <<k, s>> \in S
      PROVE  <<k + 1, Further(c, s, b)>> \in S
  <2> DEFINE r == Further(c, s, b)
  <2>1. k \in 0..N /\ s \in X /\ Good(k, s)
    BY <1>3, <1>5
  <2>2. k + 1 \in 0..N /\ k \in Nat
    BY <1>1
  <2>3. CASE ~Known(c, Last(s)) \/ Going(c, Last(s), b) = {}
    <3>1. r = s
      BY <2>3 DEF Further
    <3>2. Good(k + 1, r)
      BY <2>1, <2>3, <3>1
    <3> HIDE DEF S, Good, N, r, X
    <3> QED
      BY <1>2, <2>1, <2>2, <3>1, <3>2 DEF r
  <2>4. CASE Known(c, Last(s)) /\ Going(c, Last(s), b) # {}
    <3> DEFINE n == Down(c, After(c, Last(s), b))
    <3>1. Track(c, t, s) /\ Len(s) = k + 1
      BY <2>1, <2>4
    <3>2. r = Append(s, n)
      BY <2>4 DEF Further
    <3>3. n \in Seq(Nat)
      <4>1. CameTo(c, t, Last(s))
        <5>1. Len(s) \in DOMAIN s
          BY <2>1, EmptySeq
        <5> QED
          BY <3>1, <5>1 DEF Track, Last
      <4> QED
        BY <2>4, <4>1, NextFacts
    <3>4. Known(c, n) => Track(c, t, r)
      BY <2>4, <3>1, <3>2, TrackStep, SMTT(30)
    <3> HIDE DEF n, r
    <3>5. /\ r \in X /\ Len(r) = (k + 1) + 1 /\ Last(r) = n
      <4> DEFINE Y == Seq(Nat)
      <4>1. s \in Seq(Y) /\ n \in Y
        BY <2>1, <3>3
      <4> HIDE DEF Y
      <4>2. r \in Seq(Y) /\ r # <<>> /\ Len(r) = Len(s) + 1
        BY <3>2, <4>1, AppendProperties
      <4>3. r[Len(s) + 1] = n
        BY <3>2, <4>1, AppendProperties
      <4> QED
        BY <3>1, <4>2, <4>3 DEF Y, Last
    <3>6. Good(k + 1, r)
      BY <3>4, <3>5
    <3> HIDE DEF S, Good, N, X
    <3> QED
      BY <1>2, <2>2, <3>5, <3>6 DEF r
  <2> QED
    BY <2>3, <2>4
<1> HIDE DEF S
<1>6. <<N, Reached(c, p, b)>> \in S
  <2> HIDE DEF p, b
  <2> QED
    BY <1>4, <1>5, ReachedInduction
<1> DEFINE s == Reached(c, p, b)
<1>7. s \in X /\ Good(N, s)
  BY <1>3, <1>6
<1>8. CASE Track(c, t, s)
  <2>1. Len(s) <= N
    BY <1>8, TrackLength
  <2>2. Len(s) # N + 1
    <3>1. Len(s) \in Nat
      <4> HIDE DEF s
      <4> QED
        BY <1>7
    <3> HIDE DEF s, N
    <3> QED
      BY <1>1, <2>1, <3>1
  <2> HIDE DEF s
  <2> QED
    BY <1>7, <1>8, <2>2 DEF s
<1> QED
  BY <1>7, <1>8

\* A node whose first parameter is known is known.
LEMMA DownKnown ==
    ASSUME NEW c, Rooted(c), NEW p \in Seq(Nat), Known(c, Down(c, p))
    PROVE  Known(c, p)
<1>1. PICK k \in Nat : /\ Down(c, p) = Deeper(p, k)
                       /\ \A l \in 0..(k - 1) : Inside(c, Deeper(p, l))
  BY DownEnds
<1>2. CASE k = 0
  BY <1>1, <1>2, DeeperZero
<1>3. CASE k # 0
  <2>1. 0 \in 0..(k - 1)
    BY <1>1, <1>3
  <2>2. Inside(c, Deeper(p, 0))
    BY <1>1, <2>1
  <2> QED
    BY <2>2, DeeperZero DEF Inside
<1> QED
  BY <1>2, <1>3

\* The node that the walk goes on to is a path.
LEMMA NextPath ==
    ASSUME NEW c, NEW d, Rooted(d), NEW p \in Seq(Nat) \ {<<>>}, NEW b \in Nat,
           Going(c, p, b) # {}
    PROVE  Down(d, After(c, p, b)) \in Seq(Nat) \ {<<>>}
<1>1. PICK e \in 1..Len(p) : After(c, p, b) = Append(Above(p, e), p[e] + 1)
  BY AfterFacts
<1>2. e \in 1..(Len(p) + 1) /\ p[e] + 1 \in Nat
  BY <1>1
<1>3. Above(p, e) \in Seq(Nat)
  BY <1>2, AboveFacts
<1>4. /\ Append(Above(p, e), p[e] + 1) \in Seq(Nat)
      /\ Append(Above(p, e), p[e] + 1) # <<>>
  <2> DEFINE N == Nat
             x == Above(p, e)
             y == p[e] + 1
  <2>1. x \in Seq(N) /\ y \in N
    BY <1>2, <1>3
  <2> HIDE DEF N, x, y
  <2>2. Append(x, y) \in Seq(N) /\ Append(x, y) # <<>>
    BY <2>1, AppendProperties
  <2> QED
    BY <2>2 DEF N, x, y
<1> QED
  BY <1>1, <1>4, DownBelow

\* The first of the nodes that a walk comes to is the one it begins at, and it
\* is known unless the walk misses a node.
LEMMA ReachedFirst ==
    ASSUME NEW c, Rooted(c), NEW p \in Seq(Nat) \ {<<>>}, NEW b \in Nat
    PROVE  LET s == Reached(c, p, b)
           IN /\ s \in Seq(Seq(Nat) \ {<<>>}) \ {<<>>}
              /\ s[1] = p
              /\ Known(c, p) \/ ~Known(c, Last(s))
<1> DEFINE X == Seq(Nat) \ {<<>>}
           N == Cardinality(DOMAIN c.nodes)
           Good(s) == s[1] = p /\ (Known(c, p) \/ ~Known(c, Last(s)))
           S == { x \in (0..N) \X (Seq(X) \ {<<>>}) : Good(x[2]) }
<1>1. N \in Nat
  BY FS_CardinalityType DEF Rooted
<1>2. p \in X
  OBVIOUS
<1>3. ASSUME NEW s \in Seq(X) \ {<<>>}, Good(s)
      PROVE  Further(c, s, b) \in Seq(X) \ {<<>>} /\ Good(Further(c, s, b))
  <2>1. CASE ~Known(c, Last(s)) \/ Going(c, Last(s), b) = {}
    BY <1>3, <2>1 DEF Further
  <2>2. CASE Known(c, Last(s)) /\ Going(c, Last(s), b) # {}
    <3> DEFINE q == Down(c, After(c, Last(s), b))
    <3>1. Further(c, s, b) = Append(s, q)
      BY <2>2 DEF Further
    <3>2. Last(s) \in X
      <4> HIDE DEF X
      <4>1. Len(s) \in 1..Len(s) /\ Last(s) = s[Len(s)]
        BY <1>3, EmptySeq DEF Last
      <4> QED
        BY <4>1
    <3>3. q \in X
      BY <2>2, <3>2, NextPath
    <3> HIDE DEF q, X
    <3>4. Append(s, q) \in Seq(X) /\ Append(s, q) # <<>>
      BY <3>3, AppendProperties
    <3>5. Append(s, q)[1] = s[1]
      <4>1. 1 \in 1..Len(s)
        BY <1>3, EmptySeq
      <4> QED
        BY <3>3, <4>1, AppendProperties
    <3>6. Known(c, p)
      BY <1>3, <2>2
    <3> QED
      BY <1>3, <3>1, <3>4, <3>5, <3>6
  <2> QED
    BY <2>1, <2>2
<1> HIDE DEF X
<1>4. <<p>> \in Seq(X) \ {<<>>} /\ Good(<<p>>)
  <2>1. <<p>> \in Seq(X) /\ <<p>> # <<>> /\ <<p>>[1] = p /\ Len(<<p>>) = 1
    BY <1>2
  <2>2. Last(<<p>>) = p
    BY <2>1 DEF Last
  <2> QED
    BY <2>1, <2>2
<1> HIDE DEF Good
<1>5. <<0, <<p>>>> \in S
  <2>1. 0 \in 0..N
    BY <1>1
  <2> DEFINE s == <<p>>
  <2>2. s \in Seq(X) \ {<<>>} /\ Good(s)
    BY <1>4
  <2> HIDE DEF s
  <2>3. <<0, s>> \in S
    BY <2>1, <2>2
  <2> QED
    BY <2>3 DEF s
<1>6. ASSUME NEW k \in 0..(N - 1), NEW s, <<k, s>> \in S
      PROVE  <<k + 1, Further(c, s, b)>> \in S
  <2>1. s \in Seq(X) \ {<<>>} /\ Good(s)
    BY <1>6
  <2>2. k + 1 \in 0..N
    BY <1>1
  <2>3. Further(c, s, b) \in Seq(X) \ {<<>>} /\ Good(Further(c, s, b))
    BY <1>3, <2>1
  <2> QED
    BY <2>2, <2>3
<1> HIDE DEF S
<1>7. <<N, Reached(c, p, b)>> \in S
  BY <1>5, <1>6, ReachedInduction
<1>8. Reached(c, p, b) \in Seq(X) \ {<<>>} /\ Good(Reached(c, p, b))
  BY <1>7 DEF S
<1> QED
  BY <1>8 DEF Good, X

\* The node that a page is about is a path.
LEMMA BeginPath ==
    ASSUME PagesAssumption, NEW v \in Versions, NEW g, g.node \in PageNodes
    PROVE  Begin(v, g) \in Seq(Nat) \ {<<>>}
<1>1. g.node \in Seq(Nat) \ {<<>>}
  BY DEF PagesAssumption
<1>2. ASSUME g.node \in Effects
      PROVE  Append(g.node, Algorithm[v][g.node]) \in Seq(Nat) \ {<<>>}
  <2>1. PICK x \in Nat : x = Algorithm[v][g.node]
    BY <1>2 DEF PagesAssumption
  <2>2. PICK n \in Seq(Nat) : n = g.node
    BY <1>1
  <2>3. Append(n, x) \in Seq(Nat) /\ Append(n, x) # <<>>
    BY AppendProperties
  <2> QED
    BY <2>1, <2>2, <2>3
<1> QED
  BY <1>1, <1>2 DEF Begin

LEMMA NodesAppend ==
    ASSUME NEW html \in Seq(Seq(Nat) \X {"device"}), NEW p \in Seq(Nat)
    PROVE  /\ Append(html, <<p, "device">>) \in Seq(Seq(Nat) \X {"device"})
           /\ Nodes(Append(html, <<p, "device">>)) = Append(Nodes(html), p)
           /\ Nodes(html) \in Seq(Seq(Nat))
<1> DEFINE X == Seq(Nat)
           Y == X \X {"device"}
           x == <<p, "device">>
           h == Append(html, x)
<1>1. x \in Y /\ x[1] = p /\ html \in Seq(Y) /\ p \in X
  OBVIOUS
<1>2. \A y \in Y : y[1] \in X
  OBVIOUS
<1> HIDE DEF X, Y, x
<1>3. /\ h \in Seq(Y) /\ Len(h) = Len(html) + 1 /\ h[Len(html) + 1] = x
      /\ Len(html) \in Nat /\ \A i \in 1..Len(html) : h[i] = html[i]
  BY <1>1, AppendProperties
<1> HIDE DEF h
<1>4. DOMAIN html = 1..Len(html) /\ DOMAIN h = 1..Len(h)
  BY <1>1, <1>3
<1>5. \A i \in 1..Len(html) : html[i] \in Y
  BY <1>1
<1>6. /\ Nodes(html) = [i \in 1..Len(html) |-> html[i][1]]
      /\ Nodes(h) = [i \in 1..Len(h) |-> h[i][1]]
  BY <1>4 DEF Nodes
<1>7. \A i \in 1..Len(html) : html[i][1] \in X
  BY <1>2, <1>5
<1>8. Nodes(html) \in Seq(X) /\ Len(Nodes(html)) = Len(html)
  BY <1>3, <1>6, <1>7
<1> DEFINE a == Append(Nodes(html), p)
<1>9. /\ a \in Seq(X) /\ Len(a) = Len(html) + 1 /\ a[Len(html) + 1] = p
      /\ \A i \in 1..Len(html) : a[i] = Nodes(html)[i]
  BY <1>1, <1>8, AppendProperties
<1> HIDE DEF a
<1>10. \A i \in 1..Len(h) : Nodes(h)[i] = a[i]
  <2> TAKE i \in 1..Len(h)
  <2>1. Nodes(h)[i] = h[i][1]
    BY <1>6
  <2>2. CASE i = Len(html) + 1
    BY <1>1, <1>3, <1>9, <2>1, <2>2
  <2>3. CASE i # Len(html) + 1
    <3>1. i \in 1..Len(html)
      BY <1>3, <2>3
    <3>2. h[i] = html[i] /\ a[i] = Nodes(html)[i] /\ Nodes(html)[i] = html[i][1]
      BY <1>3, <1>6, <1>9, <3>1
    <3> QED
      BY <2>1, <3>2
  <2> QED
    BY <2>2, <2>3
<1>11. \A i \in 1..Len(h) : h[i][1] \in X
  <2> TAKE i \in 1..Len(h)
  <2>1. h[i] \in Y
    BY <1>3
  <2> QED
    BY <1>2, <2>1
<1>12. Nodes(h) \in Seq(X) /\ Len(Nodes(h)) = Len(h)
  <2>1. Len(h) \in Nat
    BY <1>3
  <2>2. Nodes(h) = [i \in 1..Len(h) |-> h[i][1]]
    BY <1>6
  <2> QED
    BY <1>11, <2>1, <2>2
<1>13. Nodes(h) = a
  BY <1>3, <1>9, <1>10, <1>12, SeqEqual
<1> QED
  BY <1>1, <1>3, <1>8, <1>13 DEF a, h, x, X, Y

\* loop asks for the first parameter.
LEMMA FirstAsked ==
    ASSUME StartupAssumption, PagesAssumption, NEW v \in Versions, NEW c, Rooted(c),
           NEW g, g.node \in PageNodes, g.base = Len(Begin(v, g)), g.html = <<>>,
           g.seen = c.objects, g.levels = Down(c, Begin(v, g)), Known(c, g.levels)
    PROVE  Asking(c, v, g)
<1> DEFINE t == Begin(v, g)
<1>1. t \in Seq(Nat) \ {<<>>}
  BY BeginPath
<1>2. g.levels = Down(c, t) /\ g.base = Len(t)
  OBVIOUS
<1>3. Begin(v, g) = t
  OBVIOUS
<1> HIDE DEF t
<1>4. g.levels \in Seq(Nat) \ {<<>>}
  BY <1>1, <1>2, DownBelow
<1>5. Known(c, t)
  BY <1>1, <1>2, DownKnown
<1>6. Track(c, t, <<g.levels>>)
  BY <1>1, <1>2, <1>5, TrackStart
<1>7. Append(Nodes(g.html), g.levels) = <<g.levels>>
  <2>1. Nodes(<<>>) = <<>>
    BY DEF Nodes
  <2>2. Append(<<>>, g.levels) = <<g.levels>>
    BY <1>4
  <2> QED
    BY <2>1, <2>2
<1>8. g.html \in Seq(Seq(Nat) \X {"device"})
  BY EmptySeq
<1> QED
  BY <1>2, <1>3, <1>4, <1>5, <1>6, <1>7, <1>8 DEF Asking

\* The descriptions that loop had are those that are there.
LEMMA SeenSame ==
    ASSUME NEW c, Rooted(c)
    PROVE  [c EXCEPT !.objects = c.objects] = c
<1>1. c = [objects |-> c.objects, nodes |-> c.nodes, count |-> c.count]
  BY DEF Rooted, IsConfig
<1> QED
  BY ONLY <1>1

\* And for the next one.
LEMMA NextAsked ==
    ASSUME StartupAssumption, PagesAssumption, NEW v \in Versions, NEW c, Rooted(c),
           NEW g, g.node \in PageNodes, Asking(c, v, g),
           NEW d, d = [c EXCEPT !.objects = g.seen], Going(d, g.levels, g.base) # {},
           NEW h, h.node = g.node, h.base = g.base, h.same = g.same,
           h.html = Append(g.html, <<g.levels, "device">>), h.seen = c.objects,
           h.levels = Down(c, After(d, g.levels, g.base)), Known(c, h.levels)
    PROVE  Asking(c, v, h)
<1> DEFINE t == Begin(v, g)
<1>1. t \in Seq(Nat) \ {<<>>} /\ g.base = Len(t) /\ Begin(v, h) = t
  BY BeginPath DEF Asking, Begin
<1>2. g.levels \in Seq(Nat) \ {<<>>} /\ g.html \in Seq(Seq(Nat) \X {"device"})
  BY DEF Asking
<1>3. g.base \in Nat
  BY <1>1
<1>4. h.levels \in Seq(Nat) \ {<<>>}
  <2>1. Down(c, After(d, g.levels, g.base)) \in Seq(Nat) \ {<<>>}
    BY <1>2, <1>3, NextPath, Zenon
  <2> QED
    BY <2>1
<1>5. /\ h.html \in Seq(Seq(Nat) \X {"device"})
      /\ Nodes(h.html) = Append(Nodes(g.html), g.levels)
      /\ Nodes(g.html) \in Seq(Seq(Nat))
  <2>1. PICK x \in Seq(Nat) : x = g.levels
    BY <1>2
  <2>2. PICK z \in Seq(Seq(Nat) \X {"device"}) : z = g.html
    BY <1>2
  <2>3. /\ Append(z, <<x, "device">>) \in Seq(Seq(Nat) \X {"device"})
        /\ Nodes(Append(z, <<x, "device">>)) = Append(Nodes(z), x)
        /\ Nodes(z) \in Seq(Seq(Nat))
    BY NodesAppend
  <2> QED
    BY <2>1, <2>2, <2>3, Zenon
<1>6. ASSUME h.same
      PROVE  /\ Known(c, t)
             /\ ChildrenOf(c, t) > 0 => Track(c, t, Append(Nodes(h.html), h.levels))
  <2>1. /\ g.seen = c.objects /\ Known(c, t)
        /\ ChildrenOf(c, t) > 0 => Track(c, t, Nodes(h.html))
    BY <1>5, <1>6 DEF Asking
  <2>2. d = c
    BY <2>1, SeenSame
  <2>3. Last(Nodes(h.html)) = g.levels
    <3> DEFINE X == Seq(Nat)
               n == Nodes(g.html)
    <3>1. n \in Seq(X) /\ g.levels \in X
      BY <1>2, <1>5
    <3> HIDE DEF X, n
    <3>2. /\ Append(n, g.levels) \in Seq(X) /\ Len(Append(n, g.levels)) = Len(n) + 1
          /\ Append(n, g.levels)[Len(n) + 1] = g.levels
      BY <3>1, AppendProperties
    <3>3. Last(Append(n, g.levels)) = g.levels
      BY <3>2 DEF Last
    <3> QED
      BY <1>5, <3>3 DEF n
  <2> HIDE DEF t
  <2>4. ASSUME ChildrenOf(c, t) > 0
        PROVE  Track(c, t, Append(Nodes(h.html), h.levels))
    <3> DEFINE s == Nodes(h.html)
    <3>1. Track(c, t, s) /\ Last(s) = g.levels
      BY <2>1, <2>3, <2>4
    <3>2. h.levels = Down(c, After(c, Last(s), Len(t)))
      BY <1>1, <2>2, <3>1
    <3>3. Going(c, Last(s), Len(t)) # {}
      BY <1>1, <2>2, <3>1
    <3> HIDE DEF s
    <3>4. Track(c, t, Append(s, Down(c, After(c, Last(s), Len(t)))))
      BY <1>1, <2>4, <3>1, <3>2, <3>3, TrackStep
    <3> QED
      BY <3>2, <3>4 DEF s
  <2> QED
    BY <2>1, <2>4
<1> QED
  BY <1>1, <1>4, <1>5, <1>6 DEF Asking

\* A page whose nodes are those of a walk that ends at its last parameter.
LEMMA TrackWhole ==
    ASSUME StartupAssumption, NEW c, Rooted(c), NEW t \in Seq(Nat), NEW s,
           Track(c, t, s), Going(c, Last(s), Len(t)) = {},
           NEW html, Nodes(html) = s
    PROVE  /\ Range(Nodes(html)) = Leaves(c, t)
           /\ \A i, j \in DOMAIN html : i < j => Before(html[i][1], html[j][1])
<1>1. Range(s) = Leaves(c, t)
  BY TrackEnd, Zenon
<1>2. \A i, j \in DOMAIN s : i < j => Before(s[i], s[j])
  BY DEF Track
<1>3. DOMAIN s = DOMAIN html /\ \A i \in DOMAIN html : s[i] = html[i][1]
  BY DEF Nodes
<1> QED
  BY <1>1, <1>2, <1>3

\* The answer for the last parameter makes the page whole.
LEMMA AskedWhole ==
    ASSUME StartupAssumption, PagesAssumption, NEW v \in Versions, NEW c, Rooted(c),
           NEW g, g.node \in PageNodes, g.same, Asking(c, v, g),
           NEW d, d = [c EXCEPT !.objects = g.seen], Going(d, g.levels, g.base) = {},
           NEW h, h.node = g.node, h.html = Append(g.html, <<g.levels, "device">>)
    PROVE  Whole(c, v, h)
<1> DEFINE t == Begin(v, g)
           s == Nodes(h.html)
<1>1. t \in Seq(Nat) /\ g.base = Len(t)
  BY BeginPath DEF Asking
<1>2. PICK p \in Seq(Nat) : p = g.levels
  BY DEF Asking
<1>3. PICK z \in Seq(Seq(Nat) \X {"device"}) : z = g.html
  BY DEF Asking
<1>4. /\ h.html = Append(z, <<p, "device">>)
      /\ h.html \in Seq(Seq(Nat) \X {"device"})
      /\ s = Append(Nodes(z), p) /\ Nodes(z) \in Seq(Seq(Nat))
  BY <1>2, <1>3, NodesAppend, ZenonT(30)
<1>5. d = c /\ (ChildrenOf(c, t) > 0 => Track(c, t, s))
  BY <1>2, <1>3, <1>4, SeenSame DEF Asking
<1>6. Last(s) = p
  <2> DEFINE X == Seq(Nat)
             n == Nodes(z)
  <2>1. n \in Seq(X) /\ p \in X
    BY <1>4
  <2> HIDE DEF X, n
  <2>2. /\ Append(n, p) \in Seq(X) /\ Len(Append(n, p)) = Len(n) + 1
        /\ Append(n, p)[Len(n) + 1] = p
    BY <2>1, AppendProperties
  <2>3. Last(Append(n, p)) = p
    BY <2>2 DEF Last
  <2> QED
    BY <1>4, <2>3 DEF n
<1>7. Going(c, Last(s), Len(t)) = {}
  BY <1>1, <1>2, <1>5, <1>6
<1>8. Nodes(h.html) = s
  OBVIOUS
<1>9. \A i \in DOMAIN h.html : h.html[i][2] = "device"
  <2> DEFINE Y == Seq(Nat) \X {"device"}
  <2>1. h.html \in Seq(Y)
    BY <1>4
  <2>2. \A y \in Y : y[2] = "device"
    OBVIOUS
  <2> HIDE DEF Y
  <2>3. DOMAIN h.html = 1..Len(h.html) /\ \A i \in 1..Len(h.html) : h.html[i] \in Y
    BY <2>1
  <2> QED
    BY <2>2, <2>3
<1>10. 1 \in DOMAIN h.html
  <2> DEFINE Y == Seq(Nat) \X {"device"}
             y == <<p, "device">>
  <2>1. z \in Seq(Y) /\ y \in Y
    OBVIOUS
  <2> HIDE DEF Y, y
  <2>2. /\ Append(z, y) \in Seq(Y) /\ Len(Append(z, y)) = Len(z) + 1
        /\ Len(z) \in Nat
    BY <2>1, AppendProperties
  <2>3. DOMAIN Append(z, y) = 1..(Len(z) + 1)
    BY <2>2
  <2> QED
    BY <1>4, <2>2, <2>3 DEF y
<1>11. t = IF g.node \notin Effects THEN g.node
           ELSE Append(g.node, Algorithm[v][g.node])
  BY DEF Begin
<1>12. \/ h.node \notin Effects /\ t = h.node
       \/ /\ h.node \in Effects /\ h.html[1][2] # "zero"
          /\ t = Append(h.node, Algorithm[v][h.node])
  BY <1>9, <1>10, <1>11
<1> HIDE DEF t, s
<1>13. ASSUME ChildrenOf(c, t) > 0
       PROVE  /\ Range(Nodes(h.html)) = Leaves(c, t)
              /\ \A i, j \in DOMAIN h.html :
                    i < j => Before(h.html[i][1], h.html[j][1])
  <2>1. Track(c, t, s)
    BY <1>5, <1>13
  <2> QED
    BY <1>1, <1>7, <1>8, <2>1, TrackWhole, Zenon
<1>14. \A i \in DOMAIN h.html : h.html[i][2] = h.html[1][2]
  BY <1>9, <1>10
<1> QED
  BY <1>12, <1>13, <1>14 DEF Whole

\* A page of zeros that misses no node is whole.
LEMMA ZerosWhole ==
    ASSUME StartupAssumption, PagesAssumption, Rooted(config), NEW v,
           NEW t, NEW h, h.node \in PageNodes,
           t = IF h.node \in Effects THEN Append(h.node, 0) ELSE h.node,
           h.html = Zeros(Down(config, t), Len(t)), Last(h.html)[2] # "missing"
    PROVE  Whole(config, v, h)
<1> DEFINE p == Down(config, t)
           s == Reached(config, p, Len(t))
           X == Seq(Nat) \ {<<>>}
<1>1. t \in Seq(Nat) \ {<<>>}
  <2>1. PICK n \in Seq(Nat) \ {<<>>} : n = h.node
    BY DEF PagesAssumption
  <2>2. PICK x \in Nat : x = 0
    OBVIOUS
  <2>3. Append(n, x) \in Seq(Nat) /\ Append(n, x) # <<>>
    BY ONLY AppendProperties
  <2> QED
    BY <2>1, <2>2, <2>3
<1>2. p \in X /\ Len(t) \in Nat
  <2>1. Len(t) \in Nat
    BY ONLY <1>1
  <2>2. p \in X
    BY <1>1, DownBelow, Zenon
  <2> QED
    BY <2>1, <2>2
<1>3. /\ s \in Seq(X) \ {<<>>} /\ s[1] = p
      /\ Known(config, p) \/ ~Known(config, Last(s))
  <2> HIDE DEF p
  <2> QED
    BY <1>2, ReachedFirst, ZenonT(30) DEF X
<1> HIDE DEF X
<1>4. /\ DOMAIN h.html = DOMAIN s
      /\ DOMAIN s = 1..Len(s) /\ Len(s) \in Nat \ {0}
      /\ \A i \in DOMAIN s : h.html[i][1] = s[i]
      /\ \A i \in DOMAIN s :
            h.html[i][2] = IF Known(config, s[i]) THEN "zero" ELSE "missing"
      /\ Last(h.html)[2] = IF Known(config, Last(s)) THEN "zero" ELSE "missing"
  <2> DEFINE z == Zeros(p, Len(t))
  <2>1. /\ DOMAIN z = 1..Len(s) /\ DOMAIN z = DOMAIN s
        /\ Len(s) \in Nat \ {0}
        /\ \A i \in DOMAIN z : z[i][1] = s[i]
        /\ \A i \in DOMAIN z :
              z[i][2] = IF Known(config, s[i]) THEN "zero" ELSE "missing"
        /\ Last(z)[2] = IF Known(config, Last(s)) THEN "zero" ELSE "missing"
    BY <1>3, ZerosFacts
  <2>2. h.html = z
    OBVIOUS
  <2> HIDE DEF z, s, p
  <2> QED
    BY <2>1, <2>2
<1>5. Known(config, Last(s)) /\ Known(config, p)
  BY <1>3, <1>4
<1>6. Known(config, t)
  BY <1>1, <1>5, DownKnown
<1>7. h.html[1][2] = "zero"
  <2>1. 1 \in DOMAIN s
    BY <1>4
  <2> HIDE DEF s, p
  <2> QED
    BY <1>3, <1>4, <1>5, <2>1
<1>8. ASSUME ChildrenOf(config, t) > 0
      PROVE  Track(config, t, s) /\ Going(config, Last(s), Len(t)) = {}
  BY <1>1, <1>5, <1>6, <1>8, ReachedTrack
<1> HIDE DEF s, p
<1>9. ASSUME ChildrenOf(config, t) > 0
      PROVE  /\ Range(Nodes(h.html)) = Leaves(config, t)
             /\ \A i, j \in DOMAIN h.html :
                   i < j => Before(h.html[i][1], h.html[j][1])
             /\ \A i \in DOMAIN h.html : h.html[i][2] = h.html[1][2]
  <2>1. Track(config, t, s) /\ Going(config, Last(s), Len(t)) = {} /\ t \in Seq(Nat)
    BY <1>1, <1>8, <1>9
  <2>2. /\ Range(Nodes(h.html)) = Leaves(config, t)
        /\ \A i, j \in DOMAIN h.html : i < j => Before(h.html[i][1], h.html[j][1])
    <3>1. Nodes(h.html) = s
      BY <1>3, <1>4, SMTT(30) DEF Nodes
    <3> QED
      BY <2>1, <3>1, TrackWhole, Zenon
  <2>3. \A i \in DOMAIN s : Known(config, s[i])
    <3> TAKE i \in DOMAIN s
    <3>1. CameTo(config, t, s[i])
      BY <2>1 DEF Track
    <3>2. s[i] \in Seq(Nat) /\ Len(t) <= Len(s[i])
      <4>1. s[i] \in Leaves(config, t) /\ s[i] \in Seq(Nat)
        BY <3>1 DEF CameTo, Leaves, Rooted
      <4> QED
        BY <1>1, <4>1, LeafFacts
    <3>3. /\ Len(s[i]) + 1 \in (Len(t) + 1)..(Len(s[i]) + 1)
          /\ Above(s[i], Len(s[i]) + 1) = s[i]
      <4>1. Len(s[i]) + 1 \in 1..(Len(s[i]) + 1)
        BY <3>2
      <4> QED
        BY <1>2, <3>2, <4>1, AboveFacts
    <3> QED
      BY <3>1, <3>3 DEF CameTo
  <2>4. \A i \in DOMAIN h.html : h.html[i][2] = "zero"
    BY <1>4, <2>3
  <2> QED
    BY <1>7, <2>2, <2>4
<1>10. \/ h.node \notin Effects /\ t = h.node
       \/ h.node \in Effects /\ t = Append(h.node, 0)
  OBVIOUS
<1> QED
  BY <1>7, <1>9, <1>10 DEF Whole

-----------------------------------------------------------------------------
(* The steps of the pages *)

\* An exception drops the page; it is one that was asked for too early.
LEMMA ThrownPage ==
    ASSUME PageInv, Throw, UNCHANGED vars, blind'
    PROVE  PageInv' /\ NoPageDropped'
<1>1. page' = Dropped /\ restarts' = restarts
  BY DEF Throw, vars, countVars
<1>2. page'.at = "dropped"
  BY <1>1 DEF Dropped
<1> QED
  BY <1>1, <1>2 DEF PageInv, NoPageDropped

\* The page that is asked for, the answer that was given, or the page made.
LEMMA PageStep ==
    ASSUME PageInv, UNCHANGED vars,
           NEW h, page' = h, IsPage(h),
           h.at = "algorithm" => Asks /\ h.node \in Effects /\ h.html = <<>>,
           h.at = "value" => Asks /\ Asking(config, device, h),
           h.at = "finished" /\ h.same => Whole(config, device, h),
           h.at \in {"algorithm", "value"} /\ ~blind' =>
              phase \in {"done", "failed", "stuck"} /\ Closed(config),
           h.at = "value" /\ ~blind' =>
              h.seen = config.objects /\ h.levels \in DOMAIN config.nodes
    PROVE  PageInv' /\ NoPageDropped'
<1>1. UNCHANGED <<phase, restarts, config, device, ready, alive>>
  BY DEF vars, countVars, configVars
<1>2. Asks => Asks'
  BY <1>1 DEF Asks
<1>3. NoPageDropped'
  BY DEF NoPageDropped, IsPage
<1>4. (Closed(config))' <=> Closed(config)
  BY <1>1 DEF Closed, NodeClosed, IsConfig
<1>5. restarts' \in Nat
  BY <1>1 DEF PageInv
<1>6. /\ page'.at = "algorithm" => Asks' /\ page'.node \in Effects /\ page'.html = <<>>
      /\ page'.at = "value" => Asks' /\ Asking(config', device', page')
      /\ page'.at = "finished" /\ page'.same => Whole(config', device', page')
  BY <1>1, <1>2
<1>7. page'.at \in {"algorithm", "value"} /\ ~blind' => Sure'
  BY <1>1, <1>4 DEF Sure
<1>8. page'.at = "value" /\ ~blind' =>
         page'.seen = config'.objects /\ page'.levels \in DOMAIN config'.nodes
  BY <1>1
<1>9. IsPage(page')
  OBVIOUS
<1> QED
  BY <1>3, <1>5, <1>6, <1>7, <1>8, <1>9 DEF PageInv

\* What loop makes of the page g.
LEMMA LoopPage ==
    ASSUME NEW g, IsRecord(g), NEW p, Loop(g, p), Known(config, Down(config, p))
    PROVE  \E h : /\ page' = h /\ IsRecord(h)
                  /\ h.at = "value" /\ h.node = g.node /\ h.base = g.base
                  /\ h.levels = Down(config, p) /\ h.html = g.html
                  /\ h.seen = config.objects /\ h.same = g.same
<1> DEFINE q == Down(config, p)
           objects == config.objects
           h == [at |-> "value", node |-> g.node, base |-> g.base, levels |-> q,
                 html |-> g.html, seen |-> objects, same |-> g.same]
<1>1. page' = [g EXCEPT !.at = "value", !.levels = q, !.seen = objects]
  BY DEF Loop
<1>2. g = [at |-> g.at, node |-> g.node, base |-> g.base, levels |-> g.levels,
           html |-> g.html, seen |-> g.seen, same |-> g.same]
  BY DEF IsRecord
<1> HIDE DEF q, objects
<1>3. [g EXCEPT !.at = "value", !.levels = q, !.seen = objects] = h
  <2>1. PICK k : k = [g EXCEPT !.at = "value"]
    OBVIOUS
  <2>2. k = [at |-> "value", node |-> g.node, base |-> g.base, levels |-> g.levels,
             html |-> g.html, seen |-> g.seen, same |-> g.same]
    BY ONLY <1>2, <2>1
  <2>3. PICK l : l = [k EXCEPT !.levels = q]
    OBVIOUS
  <2>4. l = [at |-> "value", node |-> g.node, base |-> g.base, levels |-> q,
             html |-> g.html, seen |-> g.seen, same |-> g.same]
    BY ONLY <2>2, <2>3
  <2>5. [l EXCEPT !.seen = objects] = h
    BY ONLY <2>4
  <2> QED
    BY ONLY <2>1, <2>3, <2>5
<1>4. IsRecord(h)
  BY DEF IsRecord
<1> QED
  BY <1>1, <1>3, <1>4 DEF q, objects

LEMMA BasedPage ==
    ASSUME NEW g, IsRecord(g), NEW b
    PROVE  \E h : /\ h = [g EXCEPT !.base = b] /\ IsRecord(h)
                  /\ h.node = g.node /\ h.base = b /\ h.html = g.html
                  /\ h.same = g.same
<1> DEFINE h == [at |-> g.at, node |-> g.node, base |-> b, levels |-> g.levels,
                 html |-> g.html, seen |-> g.seen, same |-> g.same]
<1>1. g = [at |-> g.at, node |-> g.node, base |-> g.base, levels |-> g.levels,
           html |-> g.html, seen |-> g.seen, same |-> g.same]
  BY DEF IsRecord
<1>2. [g EXCEPT !.base = b] = h
  BY ONLY <1>1
<1>3. IsRecord(h)
  BY DEF IsRecord
<1> QED
  BY <1>2, <1>3

\* The page g is made, of the nodes and values html.
Made(g, b, html) == [g EXCEPT !.at = "finished", !.base = b, !.html = html]

LEMMA FinishedPage ==
    ASSUME NEW g, IsRecord(g), NEW b, NEW html
    PROVE  /\ IsRecord(Made(g, b, html))
           /\ Made(g, b, html).at = "finished"
           /\ Made(g, b, html).node = g.node
           /\ Made(g, b, html).html = html
           /\ Made(g, b, html).same = g.same
<1> DEFINE h == [at |-> "finished", node |-> g.node, base |-> b,
                 levels |-> g.levels, html |-> html, seen |-> g.seen,
                 same |-> g.same]
<1>1. g = [at |-> g.at, node |-> g.node, base |-> g.base, levels |-> g.levels,
           html |-> g.html, seen |-> g.seen, same |-> g.same]
  BY DEF IsRecord
<1>2. [g EXCEPT !.at = "finished", !.base = b, !.html = html] = h
  <2>1. PICK k : k = [g EXCEPT !.at = "finished"]
    OBVIOUS
  <2>2. k = [at |-> "finished", node |-> g.node, base |-> g.base,
             levels |-> g.levels, html |-> g.html, seen |-> g.seen, same |-> g.same]
    BY ONLY <1>1, <2>1
  <2>3. PICK l : l = [k EXCEPT !.base = b]
    OBVIOUS
  <2>4. l = [at |-> "finished", node |-> g.node, base |-> b,
             levels |-> g.levels, html |-> g.html, seen |-> g.seen, same |-> g.same]
    BY ONLY <2>2, <2>3
  <2>5. [l EXCEPT !.html = html] = h
    BY ONLY <2>4
  <2> QED
    BY ONLY <2>1, <2>3, <2>5
<1>3. IsRecord(h)
  BY DEF IsRecord
<1>4. /\ h.at = "finished" /\ h.node = g.node /\ h.html = html
      /\ h.same = g.same
  OBVIOUS
<1> HIDE DEF h
<1> QED
  BY <1>2, <1>3, <1>4 DEF Made

\* A page whose loop starts at the node p: all is there that it goes to, if the
\* configuration is closed; and a page of zeros is whole.
LEMMA FromPage ==
    ASSUME StartupAssumption, PagesAssumption, device \in Versions, TreeInv,
           PageInv, UNCHANGED vars,
           NEW g, IsRecord(g), g.node \in PageNodes, g.html = <<>>,
           NEW p, LoopFrom(g, p),
           Asks => p = Begin(device, g),
           ~Asks => p = IF g.node \in Effects THEN Append(g.node, 0) ELSE g.node,
           ~blind' => /\ phase \in {"done", "failed", "stuck"}
                      /\ Closed(config) /\ Known(config, p)
    PROVE  PageInv' /\ NoPageDropped'
<1> DEFINE q == Down(config, p)
<1>1. Rooted(config)
  BY DEF TreeInv
<1>2. p \in Seq(Nat) \ {<<>>}
  <2>1. PICK n \in Seq(Nat) \ {<<>>} : n = g.node
    BY DEF PagesAssumption
  <2>2. PICK x \in Nat : x = 0
    OBVIOUS
  <2>3. Append(n, x) \in Seq(Nat) /\ Append(n, x) # <<>>
    BY ONLY AppendProperties
  <2>4. Begin(device, g) \in Seq(Nat) \ {<<>>}
    BY BeginPath
  <2>5. CASE Asks
    BY <2>4, <2>5
  <2>6. CASE ~Asks
    BY <2>1, <2>2, <2>3, <2>6
  <2> QED
    BY <2>5, <2>6
<1>3. p \in Seq(Nat) /\ Len(p) \in Nat
  BY ONLY <1>2
<1>4. ASSUME ~blind'
      PROVE  q \in DOMAIN config.nodes /\ q # <<>>
  <2>1. p \in DOMAIN config.nodes /\ Closed(config)
    BY <1>4 DEF Known
  <2>2. q \in DOMAIN config.nodes
    BY <1>1, <2>1, DownThere
  <2>3. q # <<>>
    BY <1>1, <1>2, DownBelow, Zenon
  <2> QED
    BY <2>2, <2>3
<1> HIDE DEF q
<1>5. CASE Asks
  <2>1. PICK k : /\ k = [g EXCEPT !.base = Len(p)] /\ IsRecord(k)
                 /\ k.node = g.node /\ k.base = Len(p) /\ k.html = g.html
                 /\ k.same = g.same
    BY BasedPage, Zenon
  <2>2. Loop(k, p)
    BY <1>5, <2>1 DEF LoopFrom
  <2>3. CASE ~Known(config, q)
    <3>1. Throw
      BY <2>2, <2>3 DEF Loop, q
    <3>2. ~blind' => Known(config, q)
      BY <1>4, ClosedKnown
    <3> QED
      BY <2>3, <3>1, <3>2, ThrownPage
  <2>4. CASE Known(config, q)
    <3>1. PICK h : /\ page' = h /\ IsRecord(h)
                   /\ h.at = "value" /\ h.node = k.node /\ h.base = k.base
                   /\ h.levels = q /\ h.html = k.html
                   /\ h.seen = config.objects /\ h.same = k.same
      <4>1. IsRecord(k) /\ Loop(k, p) /\ Known(config, Down(config, p))
        BY <2>1, <2>2, <2>4 DEF q
      <4> QED
        BY ONLY <4>1, LoopPage, Zenon DEF q
    <3>2. IsPage(h)
      BY <2>1, <3>1 DEF IsPage
    <3>3. Begin(device, h) = p
      BY <1>5, <2>1, <3>1 DEF Begin
    <3>4. /\ h.node \in PageNodes /\ h.base = Len(Begin(device, h)) /\ h.html = <<>>
          /\ h.seen = config.objects /\ h.levels = Down(config, Begin(device, h))
          /\ Known(config, h.levels)
      BY <2>1, <2>4, <3>1, <3>3 DEF q
    <3>5. Asking(config, device, h)
      BY <1>1, <3>4, FirstAsked
    <3>6. h.levels \in DOMAIN config.nodes
      BY <3>4 DEF Known
    <3> QED
      BY <1>5, <3>1, <3>2, <3>4, <3>5, <3>6, PageStep
  <2> QED
    BY <2>3, <2>4
<1>6. CASE ~Asks
  <2> DEFINE html == Zeros(q, Len(p))
  <2>1. \/ Last(html)[2] = "missing" /\ Throw
        \/ /\ Last(html)[2] # "missing"
           /\ page' = Made(g, Len(p), html)
    BY <1>6 DEF LoopFrom, q, Made
  <2>2. CASE Last(html)[2] = "missing" /\ Throw
    <3>1. ASSUME ~blind'
          PROVE  FALSE
      <4> DEFINE s == Reached(config, q, Len(p))
                 D == DOMAIN config.nodes
      <4>1. q \in D /\ q # <<>> /\ Closed(config)
        BY <1>4, <3>1
      <4>2. s \in Seq(D) \ {<<>>}
        BY <1>1, <1>3, <4>1, ReachedThere
      <4>3. Last(html)[2] = IF Known(config, Last(s)) THEN "zero" ELSE "missing"
        <5> HIDE DEF D
        <5> QED
          BY <4>2, ZerosFacts
      <4> HIDE DEF s
      <4>4. Last(s) \in D
        <5> HIDE DEF D
        <5>1. Len(s) \in 1..Len(s) /\ Last(s) = s[Len(s)]
          BY <4>2, EmptySeq DEF Last
        <5> QED
          BY <4>2, <5>1
      <4>5. Known(config, Last(s))
        BY <4>1, <4>4, ClosedKnown
      <4> HIDE DEF html
      <4> QED
        BY <2>2, <4>3, <4>5
    <3> QED
      BY <2>2, <3>1, ThrownPage
  <2> HIDE DEF html
  <2>3. CASE /\ Last(html)[2] # "missing"
             /\ page' = Made(g, Len(p), html)
    <3>1. PICK h : /\ h = Made(g, Len(p), html)
                   /\ IsRecord(h)
                   /\ h.at = "finished" /\ h.node = g.node /\ h.html = html
                   /\ h.same = g.same
      <4>1. PICK h : h = Made(g, Len(p), html)
        OBVIOUS
      <4>2. /\ IsRecord(h) /\ h.at = "finished" /\ h.node = g.node
            /\ h.html = html /\ h.same = g.same
        BY ONLY IsRecord(g), <4>1, FinishedPage
      <4> QED
        BY <4>1, <4>2
    <3>2. page' = h
      BY <2>3, <3>1
    <3>3. p = IF h.node \in Effects THEN Append(h.node, 0) ELSE h.node
      BY <1>6, <3>1
    <3>4. /\ h.node \in PageNodes /\ h.html = Zeros(Down(config, p), Len(p))
          /\ Last(h.html)[2] # "missing"
      BY <2>3, <3>1 DEF html, q
    <3>5. Whole(config, device, h)
      BY <1>1, <3>3, <3>4, ZerosWhole, Zenon
    <3>6. IsPage(h)
      BY <3>1 DEF IsPage
    <3> QED
      BY <2>3, <3>1, <3>2, <3>5, <3>6, PageStep
  <2> QED
    BY <2>1, <2>2, <2>3
<1> QED
  BY <1>5, <1>6

\* GET of the page of a node.
LEMMA GetKeeps ==
    ASSUME StartupAssumption, PagesAssumption, StartupInv, TreeInv, PageInv, GetPage
    PROVE  PageInv' /\ NoPageDropped'
<1>1. PICK n \in PageNodes :
         LET g == [at |-> "asked", node |-> n, base |-> Len(n), levels |-> n,
                   html |-> <<>>, seen |-> config.objects, same |-> TRUE]
             p == IF n \in Effects /\ ~Asks THEN Append(n, 0) ELSE n
         IN /\ IF ~Known(config, n) THEN Throw
               ELSE IF n \in Effects /\ Asks
               THEN page' = [g EXCEPT !.at = "algorithm"]
               ELSE LoopFrom(g, p)
            /\ blind' = (\/ phase \notin {"done", "failed"}
                         \/ ~Known(config, n)
                         \/ ~Known(config, p))
  BY DEF GetPage
<1> DEFINE p == IF n \in Effects /\ ~Asks THEN Append(n, 0) ELSE n
<1>2. PICK g : g = [at |-> "asked", node |-> n, base |-> Len(n), levels |-> n,
                    html |-> <<>>, seen |-> config.objects, same |-> TRUE]
  OBVIOUS
<1>3. /\ IF ~Known(config, n) THEN Throw
         ELSE IF n \in Effects /\ Asks
         THEN page' = [g EXCEPT !.at = "algorithm"]
         ELSE LoopFrom(g, p)
      /\ blind' <=> \/ phase \notin {"done", "failed"}
                    \/ ~Known(config, n)
                    \/ ~Known(config, p)
  BY ONLY <1>1, <1>2, Zenon
<1>4. /\ IsRecord(g) /\ g.node = n /\ g.html = <<>>
  BY <1>2 DEF IsRecord
<1>5. UNCHANGED vars
  BY DEF GetPage
<1>6. phase \in {"done", "failed"} => Closed(config)
  BY DEF StartupInv, ConfigInv
<1>7. device \in Versions
  BY DEF StartupInv, FilesOK
<1>8. CASE ~Known(config, n)
  BY <1>3, <1>5, <1>8, ThrownPage
<1>9. CASE Known(config, n) /\ n \in Effects /\ Asks
  <2> DEFINE h == [at |-> "algorithm", node |-> n, base |-> Len(n), levels |-> n,
                   html |-> <<>>, seen |-> config.objects, same |-> TRUE]
  <2>1. page' = [g EXCEPT !.at = "algorithm"]
    BY <1>3, <1>9
  <2>2. page' = h
    BY ONLY <1>2, <2>1
  <2>3. /\ IsPage(h) /\ h.at = "algorithm" /\ h.node = n /\ h.html = <<>>
    BY DEF IsPage, IsRecord
  <2>4. ~blind' => phase \in {"done", "failed"}
    BY <1>3
  <2> HIDE DEF h
  <2> QED
    BY <1>5, <1>6, <1>9, <2>1, <2>2, <2>3, <2>4, PageStep
<1>10. CASE Known(config, n) /\ ~(n \in Effects /\ Asks)
  <2>1. LoopFrom(g, p)
    BY <1>3, <1>10
  <2>2. ~blind' => phase \in {"done", "failed"} /\ Known(config, p)
    BY <1>3
  <2>3. ~blind' => /\ phase \in {"done", "failed", "stuck"}
                   /\ Closed(config) /\ Known(config, p)
    BY <1>6, <2>2
  <2>4. Asks => p = Begin(device, g)
    BY <1>4, <1>10 DEF Begin
  <2>5. ~Asks => p = IF g.node \in Effects THEN Append(g.node, 0) ELSE g.node
    BY <1>4, <1>10
  <2> HIDE DEF p
  <2> QED
    BY <1>4, <1>5, <1>7, <2>1, <2>3, <2>4, <2>5, FromPage
<1> QED
  BY <1>8, <1>9, <1>10

\* The device says which algorithm the effect has.
LEMMA AlgorithmKeeps ==
    ASSUME StartupAssumption, PagesAssumption, StartupInv, TreeInv, PageInv, AlgorithmOf
    PROVE  PageInv' /\ NoPageDropped'
<1> DEFINE p == Append(page.node, Algorithm[device][page.node])
<1>1. /\ page.at = "algorithm" /\ UNCHANGED vars
      /\ LoopFrom(page, p)
      /\ blind' <=> (blind \/ ~Known(config, p))
  BY DEF AlgorithmOf
<1>2. page \notin {NoPage, Dropped}
  BY <1>1 DEF NoPage, Dropped
<1>3. /\ IsRecord(page) /\ page.node \in PageNodes /\ page.html = <<>>
      /\ Asks /\ page.node \in Effects
  BY <1>1, <1>2 DEF PageInv, IsPage
<1>4. p = Begin(device, page)
  BY <1>3 DEF Begin
<1>5. ~blind' => Sure /\ Known(config, p)
  BY <1>1 DEF PageInv
<1> HIDE DEF p
<1>6. ~blind' => /\ phase \in {"done", "failed", "stuck"}
                 /\ Closed(config) /\ Known(config, p)
  BY <1>5 DEF Sure
<1>7. device \in Versions
  BY DEF StartupInv, FilesOK
<1> QED
  BY <1>1, <1>3, <1>4, <1>6, <1>7, FromPage

\* The device gives the value of a parameter.
LEMMA ValueKeeps ==
    ASSUME StartupAssumption, PagesAssumption, StartupInv, TreeInv, PageInv, Value
    PROVE  PageInv' /\ NoPageDropped'
<1>1. /\ page.at = "value" /\ UNCHANGED vars
      /\ blind' <=> blind
  BY DEF Value
<1>2. page \notin {NoPage, Dropped}
  BY <1>1 DEF NoPage, Dropped
<1>3. /\ IsRecord(page) /\ page.node \in PageNodes
      /\ Asks /\ Asking(config, device, page)
  BY <1>1, <1>2 DEF PageInv, IsPage
<1>4. device \in Versions /\ Rooted(config)
  BY DEF StartupInv, FilesOK, TreeInv
<1>5. /\ page.levels \in Seq(Nat) \ {<<>>} /\ page.base \in Nat
  <2>1. page.base = Len(Begin(device, page))
    BY <1>3 DEF Asking
  <2>2. Begin(device, page) \in Seq(Nat)
    BY <1>3, <1>4, BeginPath
  <2>3. Len(Begin(device, page)) \in Nat
    BY ONLY <2>2
  <2> QED
    BY <1>3, <2>1, <2>3 DEF Asking
<1>6. PICK p : p = page.levels
  OBVIOUS
<1>7. PICK c : c = [config EXCEPT !.objects = page.seen]
  OBVIOUS
<1>8. PICK g : g = [page EXCEPT !.html = Append(@, <<page.levels, "device">>)]
  OBVIOUS
<1>9. /\ IsRecord(g) /\ g.node = page.node /\ g.base = page.base
      /\ g.same = page.same /\ g.html = Append(page.html, <<p, "device">>)
  <2>1. page = [at |-> page.at, node |-> page.node, base |-> page.base,
                levels |-> page.levels, html |-> page.html, seen |-> page.seen,
                same |-> page.same]
    BY <1>3 DEF IsRecord
  <2>2. PICK html : html = Append(page.html, <<page.levels, "device">>)
    OBVIOUS
  <2>3. g = [page EXCEPT !.html = html]
    BY ONLY <1>8, <2>2
  <2>4. g = [at |-> page.at, node |-> page.node, base |-> page.base,
             levels |-> page.levels, html |-> html, seen |-> page.seen,
             same |-> page.same]
    BY ONLY <2>1, <2>3
  <2> QED
    BY <1>6, <2>2, <2>4 DEF IsRecord
<1>10. IF \E d \in page.base..(Len(p) - 1) : ~Known(c, SubSeq(p, 1, d)) THEN Throw
       ELSE IF Going(c, p, page.base) = {}
       THEN page' = [g EXCEPT !.at = "finished"]
       ELSE Loop(g, After(c, p, page.base))
  BY <1>6, <1>7, <1>8, Zenon DEF Value
<1>11. ~blind => /\ Sure /\ c = config /\ p \in DOMAIN config.nodes
  BY <1>1, <1>4, <1>6, <1>7, SeenSame DEF PageInv
<1>12. CASE \E d \in page.base..(Len(p) - 1) : ~Known(c, SubSeq(p, 1, d))
  <2>1. PICK d \in page.base..(Len(p) - 1) : ~Known(c, SubSeq(p, 1, d))
    BY <1>12
  <2>2. SubSeq(p, 1, d) = Above(p, d + 1)
    <3>1. (d + 1) - 1 = d
      BY <1>5
    <3> QED
      BY <3>1 DEF Above
  <2>3. ASSUME ~blind
        PROVE  FALSE
    <3>1. /\ Sure /\ c = config /\ p \in DOMAIN config.nodes
      BY <1>11, <2>3
    <3>2. d + 1 \in 1..(Len(p) + 1)
      BY <1>5, <1>6
    <3>3. Above(p, d + 1) \in DOMAIN config.nodes
      BY <1>4, <3>1, <3>2 DEF Rooted
    <3> QED
      BY <2>1, <2>2, <3>1, <3>3, ClosedKnown DEF Sure
  <2>4. Throw
    BY <1>10, <1>12
  <2> QED
    BY <1>1, <2>3, <2>4, ThrownPage
<1>13. CASE /\ ~ \E d \in page.base..(Len(p) - 1) : ~Known(c, SubSeq(p, 1, d))
            /\ Going(c, p, page.base) = {}
  <2>1. page' = [g EXCEPT !.at = "finished"]
    BY <1>10, <1>13
  <2>2. PICK h : h = [g EXCEPT !.at = "finished"]
    OBVIOUS
  <2>3. /\ IsRecord(h) /\ h.at = "finished" /\ h.node = g.node /\ h.html = g.html
        /\ h.same = g.same
    <3>1. g = [at |-> g.at, node |-> g.node, base |-> g.base, levels |-> g.levels,
               html |-> g.html, seen |-> g.seen, same |-> g.same]
      BY <1>9 DEF IsRecord
    <3>2. h = [at |-> "finished", node |-> g.node, base |-> g.base,
               levels |-> g.levels, html |-> g.html, seen |-> g.seen,
               same |-> g.same]
      BY ONLY <2>2, <3>1
    <3> QED
      BY <3>2 DEF IsRecord
  <2>4. h.same => Whole(config, device, h)
    <3>1. Going(c, page.levels, page.base) = {} /\ h.node = page.node
          /\ h.html = Append(page.html, <<page.levels, "device">>)
      BY <1>6, <1>9, <1>13, <2>3
    <3>2. h.same => page.same
      BY <1>9, <2>3
    <3> QED
      BY <1>3, <1>4, <1>7, <3>1, <3>2, AskedWhole, Zenon
  <2>5. IsPage(h)
    BY <1>3, <1>9, <2>3 DEF IsPage
  <2>6. page' = h
    BY <2>1, <2>2
  <2> QED
    BY <1>1, <2>1, <2>3, <2>4, <2>5, <2>6, PageStep
<1>14. CASE /\ ~ \E d \in page.base..(Len(p) - 1) : ~Known(c, SubSeq(p, 1, d))
            /\ Going(c, p, page.base) # {}
  <2> DEFINE a == After(c, p, page.base)
             q == Down(config, a)
  <2>1. Loop(g, a)
    BY <1>10, <1>14
  <2>2. ASSUME ~blind
        PROVE  Known(config, q) /\ q \in DOMAIN config.nodes
    <3>1. /\ Closed(config) /\ c = config /\ p \in DOMAIN config.nodes
      BY <1>11, <2>2 DEF Sure
    <3>2. p # <<>> /\ page.base \in Nat /\ Going(config, p, page.base) # {}
      BY <1>5, <1>6, <1>14, <3>1
    <3>3. Down(config, After(config, p, page.base)) \in DOMAIN config.nodes
      BY <1>4, <3>1, <3>2, NextThere
    <3> QED
      BY <3>1, <3>3, ClosedKnown
  <2> HIDE DEF a
  <2>3. CASE ~Known(config, q)
    <3>1. Throw
      BY <2>1, <2>3 DEF Loop
    <3> QED
      BY <1>1, <2>2, <2>3, <3>1, ThrownPage
  <2>4. CASE Known(config, q)
    <3>1. PICK h : /\ page' = h /\ IsRecord(h)
                   /\ h.at = "value" /\ h.node = g.node /\ h.base = g.base
                   /\ h.levels = q /\ h.html = g.html
                   /\ h.seen = config.objects /\ h.same = g.same
      <4>1. IsRecord(g) /\ Loop(g, a) /\ Known(config, Down(config, a))
        BY <1>9, <2>1, <2>4
      <4> QED
        BY ONLY <4>1, LoopPage, Zenon
    <3>2. IsPage(h)
      BY <1>3, <1>9, <3>1 DEF IsPage
    <3>3. /\ h.node = page.node /\ h.base = page.base /\ h.same = page.same
          /\ h.html = Append(page.html, <<page.levels, "device">>)
          /\ h.seen = config.objects
          /\ h.levels = Down(config, After(c, page.levels, page.base))
          /\ Known(config, h.levels)
          /\ Going(c, page.levels, page.base) # {}
      BY <1>6, <1>9, <1>14, <2>4, <3>1 DEF a
    <3> HIDE DEF q
    <3>4. Asking(config, device, h)
      BY <1>3, <1>4, <1>7, <3>3, NextAsked, Zenon
    <3>5. ~blind' => /\ phase \in {"done", "failed", "stuck"} /\ Closed(config)
                     /\ h.seen = config.objects /\ h.levels \in DOMAIN config.nodes
      BY <1>1, <1>11, <2>2, <3>1 DEF Sure
    <3> QED
      BY <1>1, <1>3, <3>1, <3>2, <3>4, <3>5, PageStep
  <2> QED
    BY <2>3, <2>4
<1> QED
  BY <1>12, <1>13, <1>14

\* What a step of init may not do: lose the device, or change the configuration
\* after its callback.
LEMMA MeanwhileFacts ==
    ASSUME StartupAssumption, device \in Versions, restarts \in Nat, Next
    PROVE  /\ device' = device
           /\ \/ restarts' = restarts + 1 /\ phase' = "read"
              \/ /\ restarts' = restarts
                 /\ Asks => Asks'
                 /\ phase \in {"done", "failed", "stuck"} =>
                       config' = config /\ phase' \in {phase, "stuck"}
<1>1. CASE Restart
  BY <1>1 DEF Restart
<1>2. CASE ReadFile \/ OtherFile \/ SystemConfiguration
  <2>1. device' = device /\ restarts' = restarts
    BY <1>2 DEF ReadFile, OtherFile, SystemConfiguration, countVars
  <2>2. phase \in {"read", "other file", "system"}
    BY <1>2 DEF ReadFile, OtherFile, SystemConfiguration
  <2>4. (ready' = TRUE \/ ready' = ready) /\ alive' = alive
    <3>1. CASE ReadFile
      BY <3>1 DEF ReadFile
    <3>2. CASE OtherFile
      BY <3>2 DEF OtherFile
    <3>3. CASE SystemConfiguration
      BY <3>3 DEF SystemConfiguration
    <3> QED
      BY <1>2, <3>1, <3>2, <3>3
  <2>5. Asks => Asks'
    BY <2>4 DEF Asks
  <2> QED
    BY <2>1, <2>2, <2>5
<1>3. CASE ReadTorn
  BY <1>3 DEF ReadTorn, countVars, configVars, Asks
<1>4. CASE Alive
  BY <1>4 DEF Alive, countVars, Asks
<1>5. CASE NotAlive \/ AskType \/ Answer \/ Unheard \/ AnswerBusy \/ Lose
              \/ EarlyTimeout
  <2>1. UNCHANGED <<device, config, files, ready, alive, phase, restarts>>
    BY <1>5 DEF NotAlive, AskType, Answer, Unheard, AnswerBusy, Lose, EarlyTimeout,
                configVars, countVars
  <2> QED
    BY <2>1 DEF Asks
<1>6. CASE Timeout
  <2>1. UNCHANGED <<device, config, files, ready, alive, restarts>>
        /\ phase' \in {phase, "stuck"}
    BY <1>6 DEF Timeout, configVars, countVars
  <2> QED
    BY <2>1 DEF Asks
<1>7. CASE DescribeOne \/ ObjectDescription \/ ObjectType \/ NodeDescription
  <2>1. /\ UNCHANGED <<device, files, ready, alive, restarts>>
        /\ phase \in {"objects", "tree", "node"}
    BY <1>7 DEF DescribeOne, ObjectDescription, ObjectType, NodeDescription, countVars
  <2> QED
    BY <2>1 DEF Asks
<1>8. CASE Save \/ ConfigSaved
  <2>1. UNCHANGED <<device, config, ready, alive, restarts>>
        /\ phase \in {"save", "saving"} /\ phase' \in {"saving", "failed", "done"}
    BY <1>8 DEF Save, ConfigSaved, countVars
  <2> QED
    BY <2>1 DEF Asks
<1> QED
  BY <1>1, <1>2, <1>3, <1>4, <1>5, <1>6, <1>7, <1>8 DEF Next, Progress

\* init goes on, or the program is started again.
LEMMA MeanwhileKeeps ==
    ASSUME StartupAssumption, StartupInv, PageInv, NoPageDropped, StartupStep
    PROVE  PageInv' /\ NoPageDropped'
<1>1. restarts \in Nat /\ device \in Versions
  BY DEF PageInv, StartupInv, FilesOK
<1>2. /\ device' = device
      /\ \/ restarts' = restarts + 1 /\ phase' = "read"
         \/ /\ restarts' = restarts
            /\ Asks => Asks'
            /\ phase \in {"done", "failed", "stuck"} =>
                  config' = config /\ phase' \in {phase, "stuck"}
  BY <1>1, MeanwhileFacts DEF StartupStep
<1>3. restarts' \in Nat
  BY <1>1, <1>2
<1>4. /\ page' = IF restarts' # restarts \/ phase' = "dead" THEN NoPage
                 ELSE IF page \notin {NoPage, Dropped} /\ config' # config
                 THEN [page EXCEPT !.same = FALSE] ELSE page
      /\ blind' <=> (blind /\ restarts' = restarts)
  BY DEF StartupStep, Meanwhile
<1>5. CASE page' = NoPage
  <2>1. page'.at = "none"
    BY <1>5 DEF NoPage
  <2> QED
    BY <1>3, <1>5, <2>1 DEF PageInv, NoPageDropped
<1>6. CASE page' # NoPage
  <2>1. restarts' = restarts /\ (blind' <=> blind)
    BY <1>4, <1>6
  <2>2. /\ Asks => Asks'
        /\ phase \in {"done", "failed", "stuck"} =>
              config' = config /\ phase' \in {"done", "failed", "stuck"}
    BY <1>1, <1>2, <2>1
  <2>4. ~blind /\ page.at \in {"algorithm", "value"} =>
           /\ config' = config /\ Sure'
    <3>1. config' = config /\ Closed(config) => (Closed(config))'
      BY DEF Closed, NodeClosed, IsConfig
    <3> QED
      BY <2>2, <3>1 DEF PageInv, Sure
  <2>3. CASE page' = Dropped /\ page = Dropped
    <3>1. page'.at = "dropped" /\ page.at = "dropped"
      BY <2>3 DEF Dropped
    <3>2. blind'
      BY <2>1, <3>1 DEF NoPageDropped
    <3> QED
      BY <1>3, <2>3, <3>1, <3>2 DEF PageInv, NoPageDropped
  <2>5. CASE page' = page /\ config' = config /\ page # Dropped
    <3>1. /\ IsPage(page')
          /\ page'.at = "algorithm" =>
                Asks' /\ page'.node \in Effects /\ page'.html = <<>>
          /\ page'.at = "value" => Asks' /\ Asking(config', device', page')
          /\ page'.at = "finished" /\ page'.same => Whole(config', device', page')
          /\ page'.at = "value" /\ ~blind' =>
                page'.seen = config'.objects /\ page'.levels \in DOMAIN config'.nodes
      BY <1>2, <1>6, <2>1, <2>2, <2>5 DEF PageInv
    <3>2. page'.at \in {"algorithm", "value"} /\ ~blind' => Sure'
      BY <2>1, <2>4, <2>5
    <3>3. NoPageDropped'
      BY <3>1 DEF NoPageDropped, IsPage
    <3> QED
      BY <1>3, <3>1, <3>2, <3>3 DEF PageInv
  <2>6. CASE /\ page \notin {NoPage, Dropped} /\ config' # config
             /\ page' = [page EXCEPT !.same = FALSE]
    <3>1. IsPage(page)
      BY <2>6 DEF PageInv
    <3>2. page = [at |-> page.at, node |-> page.node, base |-> page.base,
                  levels |-> page.levels, html |-> page.html, seen |-> page.seen,
                  same |-> page.same]
      BY <3>1 DEF IsPage, IsRecord
    <3>3. PICK h : h = [page EXCEPT !.same = FALSE]
      OBVIOUS
    <3>4. h = [at |-> page.at, node |-> page.node, base |-> page.base,
               levels |-> page.levels, html |-> page.html, seen |-> page.seen,
               same |-> FALSE]
      BY ONLY <3>2, <3>3
    <3>5. /\ IsPage(h) /\ h.at = page.at /\ h.node = page.node /\ h.base = page.base
          /\ h.levels = page.levels /\ h.html = page.html /\ h.seen = page.seen
          /\ ~h.same
      BY <3>1, <3>4 DEF IsPage, IsRecord
    <3>6. Asking(config, device, page) => Asking(config', device', h)
      BY <1>2, <3>5 DEF Asking, Begin
    <3>7. page' = h
      BY <2>6, <3>3
    <3>8. ~blind' => page.at = "finished"
      BY <2>1, <2>4, <2>6, <3>1 DEF IsPage
    <3>9. /\ page'.at = "algorithm" =>
                Asks' /\ page'.node \in Effects /\ page'.html = <<>>
          /\ page'.at = "value" => Asks' /\ Asking(config', device', page')
          /\ ~(page'.at = "finished" /\ page'.same)
          /\ page'.at \in {"algorithm", "value"} => blind'
      BY <2>2, <3>5, <3>6, <3>7, <3>8 DEF PageInv
    <3>10. NoPageDropped'
      BY <3>5, <3>7 DEF NoPageDropped, IsPage
    <3> QED
      BY <1>3, <3>5, <3>7, <3>9, <3>10 DEF PageInv
  <2> QED
    BY <1>4, <1>6, <2>1, <2>3, <2>5, <2>6
<1> QED
  BY <1>5, <1>6

LEMMA PagesStepKeeps ==
    ASSUME StartupInv, TreeInv, PageInv, NoPageDropped, [PagesNext]_pagesVars
    PROVE  PageInv' /\ NoPageDropped'
<1> USE StartupAssumption, PagesAssumption
<1>1. CASE UNCHANGED pagesVars
  <2>1. UNCHANGED <<page, blind, phase, files, config, device, ready, alive, restarts>>
    BY <1>1 DEF pagesVars, vars, configVars, countVars
  <2>2. (Asks => Asks') /\ (Closed(config) => (Closed(config))')
    BY <2>1 DEF Asks, Closed, NodeClosed, IsConfig
  <2>3. NoPageDropped'
    BY <2>1 DEF NoPageDropped
  <2>4. Sure => Sure'
    BY <2>1, <2>2 DEF Sure
  <2>5. PageInv'
    BY <2>1, <2>2, <2>4 DEF PageInv
  <2> QED
    BY <2>3, <2>5
<1> QED
  BY <1>1, MeanwhileKeeps, GetKeeps, AlgorithmKeeps, ValueKeeps DEF PagesNext

LEMMA PageWholeHolds == PageInv => PageWhole
<1> SUFFICES ASSUME PageInv, page.at = "finished", page.same,
                    ChildrenOf(config, Top(page)) > 0
             PROVE  /\ { page.html[i][1] : i \in DOMAIN page.html }
                       = Leaves(config, Top(page))
                    /\ \A i, j \in DOMAIN page.html :
                          i < j => Before(page.html[i][1], page.html[j][1])
                    /\ \A i \in DOMAIN page.html :
                          page.html[i][2] = page.html[1][2]
  BY DEF PageWhole
<1>1. Whole(config, device, page)
  BY DEF PageInv
<1>2. Range(Nodes(page.html)) = { page.html[i][1] : i \in DOMAIN page.html }
  BY DEF Range, Nodes
<1> QED
  BY <1>1, <1>2 DEF Whole, Top

-----------------------------------------------------------------------------
(* The theorems *)

\* What holds from the file to the callback of init, by induction.
THEOREM StartupInvariance == Spec => []StartupInv
<1> QED
  BY StartupInit, StartupStepKeeps, PTL DEF Spec

\* Built without any file, from answers of which none was late: by induction
\* beside it.
THEOREM ExactInvariance == Spec => []ExactInv
<1> QED
  BY ExactInit, ExactStepKeeps, StartupInvariance, PTL DEF Spec

\* And while pages are made, which begin and end whatever init is at: a page
\* changes nothing of it.  What the pages rest on is inductive beside it.
THEOREM PagesInvariance ==
    PagesSpec => [](StartupInv /\ ExactInv /\ TreeInv /\ PageInv /\ NoPageDropped)
<1>1. PagesInit => StartupInv /\ ExactInv /\ TreeInv /\ PageInv /\ NoPageDropped
  <2>1. PagesInit => StartupInv /\ ExactInv /\ TreeInv
    BY StartupInit, ExactInit, TreeInit DEF PagesInit
  <2>2. NoPage.at = "none"
    BY DEF NoPage
  <2>3. PagesInit => restarts = 0 /\ phase = "read" /\ page = NoPage
    BY DEF PagesInit, Init
  <2>4. PagesInit => PageInv /\ NoPageDropped
    BY <2>2, <2>3 DEF PageInv, NoPageDropped
  <2> QED
    BY <2>1, <2>4
<1>2. ASSUME StartupInv, ExactInv, TreeInv, PageInv, NoPageDropped, [PagesNext]_pagesVars
      PROVE  StartupInv' /\ ExactInv' /\ TreeInv' /\ PageInv' /\ NoPageDropped'
  <2>1. [Next]_vars
    BY <1>2 DEF PagesNext, StartupStep, GetPage, AlgorithmOf, Value, pagesVars
  <2>2. StartupInv' /\ ExactInv' /\ TreeInv'
    BY <1>2, <2>1, StartupStepKeeps, ExactStepKeeps, TreeStepKeeps
  <2>3. PageInv' /\ NoPageDropped'
    BY <1>2, PagesStepKeeps
  <2> QED
    BY <2>2, <2>3
<1> QED
  BY <1>1, <1>2, PTL DEF PagesSpec

\* When init calls back, one handshake was answered, every node of the control
\* tree has a description, and all its children are there (controlTree_loop,
\* lexicon.js:737-791), whatever was lost, came late, or was started again, and
\* whatever pages were asked for.
THEOREM CompleteAtCallback == PagesSpec => []CompleteWhenDone
<1>1. StartupInv => CompleteWhenDone
  BY DEF StartupInv, InitOnce, ConfigInv, Closed, NodeClosed, CompleteWhenDone
<1> QED
  BY <1>1, PagesInvariance, PTL

\* When init calls back and the device's file describes it, that is what is in
\* memory, whichever file was read first (config_init, lexicon.js:842-858); and
\* a configuration that was built without any file, with no answer late, has
\* every node of the device, once, and no other (controlTree_loop, 737-791).
THEOREM RightFileRead == PagesSpec => []RightFile
<1>1. StartupInv /\ ExactInv => RightFile
  BY DEF StartupInv, ConfigInv, ExactInv, Exactly, RightFile
<1> QED
  BY <1>1, PagesInvariance, PTL

\* A page that was made in one configuration has all parameters under its node,
\* each once and in the order of the tree, with values of one kind (main.js,
\* lines 612-645 and 899-925), for any tree, and wherever the walk begins.
THEOREM PagesWhole == PagesSpec => []PageWhole
<1> QED
  BY PageWholeHolds, PagesInvariance, PTL

\* Once the callback of init was called, a page that begins at a node that is
\* there meets no exception: it is given to the browser once the device has
\* answered (loop and getLevel, main.js:612-645 and lexicon.js:350-363).  Only a
\* page that was asked for too early, or of a missing node, is dropped.
THEOREM PagesNotDropped == PagesSpec => []NoPageDropped
<1> QED
  BY PagesInvariance, PTL
=============================================================================
