-------------------------------- MODULE Pages --------------------------------
(***************************************************************************)
(* The pages of the parameters (main.js, GET), which the web server gives  *)
(* from the moment the program starts, whatever init of lexicon.js has     *)
(* read or built by then.                                                  *)
(*                                                                         *)
(* loop walks the nodes under the one of the page and asks for the value   *)
(* of each parameter.  As long as the device was not heard, or if the      *)
(* configuration was not read from a file, dataMessage_request answers     *)
(* zeros without asking, and the page is made at once.  Otherwise each     *)
(* answer of the device goes on with the walk, in the configuration that   *)
(* is there by then.                                                       *)
(*                                                                         *)
(* A node or a description that is missing is a TypeError.  The request    *)
(* handler catches it if it comes at once; in the callback of an answer it *)
(* ends with the call of the binding.  Either way the program goes on, and *)
(* the browser never gets its page.                                        *)
(***************************************************************************)
EXTENDS Startup

CONSTANTS
    PageNodes,  \* the nodes that have a page
    Effects,    \* those of them that are an effect, whose algorithm is asked for
    Algorithm   \* version -> effect -> the algorithm it has

ASSUME PagesAssumption ==
    /\ PageNodes \subseteq Seq(Nat) \ {<<>>}
    /\ Effects \subseteq PageNodes
    /\ Algorithm \in [Versions -> [Effects -> Nat]]

VARIABLES
    page,       \* the page being made
    blind       \* it was asked for before the callback of init, or from a node
                \* that was not there

pagesVars == <<vars, page, blind>>

NoPage  == [at |-> "none"]
Dropped == [at |-> "dropped"]

-----------------------------------------------------------------------------
(* Looking up the tree *)

\* getLevel, and the description of what it returns.
Known(c, p) == p \in DOMAIN c.nodes /\ c.objects[c.nodes[p]] # None

\* od.maxValue[0]+1 of a control level; 0 for a parameter.
ChildrenOf(c, p) == Children[c.objects[c.nodes[p]]][c.nodes[p]]

\* The node, then its first child, and so on: the first that is no known
\* control level.
Down(c, p) ==
    LET Below(k)  == p \o [i \in 1..k |-> 0]
        Inside(q) == Known(c, q) /\ ChildrenOf(c, q) > 0
    IN Below(CHOOSE k \in 0..Cardinality(DOMAIN c.nodes) :
                /\ ~Inside(Below(k))
                /\ \A l \in 0..(k - 1) : Inside(Below(l)))

\* Mutant: the last child is left out.
HasNext_Short(c, p) == Last(p) + 1 < ChildrenOf(c, Front(p)) - 1

HasNext(c, p) == Last(p) < ChildrenOf(c, Front(p)) - 1

\* The levels of p, a parameter, that have a node after the one on its path:
\* its own, and those under the node of the page, which is at the level base.
Going(c, p, base) ==
    { d \in ((base + 1)..Len(p)) \cup {Len(p)} : HasNext(c, SubSeq(p, 1, d)) }

\* The node after p.
After(c, p, base) ==
    LET d == Max(Going(c, p, base)) IN [SubSeq(p, 1, d) EXCEPT ![d] = @ + 1]

-----------------------------------------------------------------------------

PagesInit ==
    /\ Init
    /\ page = NoPage
    /\ blind = FALSE

\* dataMessage_request asks the device.
Asks == ready /\ alive

\* An exception: nothing ends the response.
Throw == page' = Dropped

\* The nodes s that the walk came to, and the one it goes on to: it ends after
\* the last parameter, or where it misses a node.
Further(c, s, base) ==
    IF ~Known(c, Last(s)) \/ Going(c, Last(s), base) = {} THEN s
    ELSE Append(s, Down(c, After(c, Last(s), base)))

\* All nodes that it comes to from the parameter p.  It comes to none twice.
Reached(c, p, base) ==
    LET upTo[n \in 0..Cardinality(DOMAIN c.nodes)] ==
            IF n = 0 THEN <<p>> ELSE Further(c, upTo[n - 1], base)
    IN upTo[Cardinality(DOMAIN c.nodes)]

\* A page whose values are zeros, from the parameter p to the last: the whole
\* of it, or where the walk misses a node.
Zeros(p, base) ==
    LET nodes == Reached(config, p, base)
    IN [i \in DOMAIN nodes |->
           <<nodes[i], IF Known(config, nodes[i]) THEN "zero" ELSE "missing">>]

\* loop goes from the node p of the page g to a parameter and asks for it.
Loop(g, p) ==
    IF ~Known(config, Down(config, p)) THEN Throw
    ELSE page' = [g EXCEPT !.at = "value", !.levels = Down(config, p),
                           !.seen = config.objects]

\* loop starts at the node p, which is what the page is about.
LoopFrom(g, p) ==
    LET html == Zeros(Down(config, p), Len(p))
    IN IF Asks THEN Loop([g EXCEPT !.base = Len(p)], p)
       ELSE IF Last(html)[2] = "missing" THEN Throw
       ELSE page' = [g EXCEPT !.at = "finished", !.base = Len(p), !.html = html]

\* GET of the page of a node.
GetPage ==
    /\ phase # "dead"
    /\ page.at \in {"none", "finished", "dropped"}
    /\ \E n \in PageNodes :
          LET g == [at |-> "asked", node |-> n, base |-> Len(n), levels |-> n,
                    html |-> <<>>, seen |-> config.objects, same |-> TRUE]
              p == IF n \in Effects /\ ~Asks THEN Append(n, 0) ELSE n
          IN /\ IF ~Known(config, n) THEN Throw
                ELSE IF n \in Effects /\ Asks
                THEN page' = [g EXCEPT !.at = "algorithm"]
                ELSE LoopFrom(g, p)
             /\ blind' = (\/ phase \notin {"done", "failed"}
                          \/ ~Known(config, n)
                          \/ ~Known(config, p))
    /\ UNCHANGED vars

\* The device says which algorithm an effect has.
AlgorithmOf ==
    /\ phase # "dead"
    /\ page.at = "algorithm"
    /\ page.node \in DOMAIN Tree[device]
    /\ LET p == Append(page.node, Algorithm[device][page.node])
       IN LoopFrom(page, p) /\ blind' = (blind \/ ~Known(config, p))
    /\ UNCHANGED vars

\* The device gives the value of a parameter: the walk goes on, with the
\* descriptions that loop had and the tree that is there.
Value ==
    /\ phase # "dead"
    /\ page.at = "value"
    /\ page.levels \in DOMAIN Tree[device]
    /\ LET p == page.levels
           c == [config EXCEPT !.objects = page.seen]
           g == [page EXCEPT !.html = Append(@, <<p, "device">>)]
       IN IF \E d \in page.base..(Len(p) - 1) : ~Known(c, SubSeq(p, 1, d)) THEN Throw
          ELSE IF Going(c, p, page.base) = {}
          THEN page' = [g EXCEPT !.at = "finished"]
          ELSE Loop(g, After(c, p, page.base))
    /\ UNCHANGED <<vars, blind>>

\* init goes on, or the program is started again.
Meanwhile ==
    /\ page' = IF restarts' # restarts \/ phase' = "dead" THEN NoPage
               ELSE IF page \notin {NoPage, Dropped} /\ config' # config
               THEN [page EXCEPT !.same = FALSE]
               ELSE page
    /\ blind' = (blind /\ restarts' = restarts)

StartupStep == Next /\ Meanwhile

PagesNext == StartupStep \/ GetPage \/ AlgorithmOf \/ Value

PagesSpec ==
    /\ PagesInit
    /\ [][PagesNext]_pagesVars
    /\ WF_pagesVars(Progress /\ Meanwhile)

-----------------------------------------------------------------------------
\* The parameters under a node: what the descriptions say, from it on.
Leaves(c, p) ==
    { q \in DOMAIN c.nodes :
        /\ IsPrefix(p, q)
        /\ \A d \in Len(p)..(Len(q) - 1) : q[d + 1] < ChildrenOf(c, SubSeq(q, 1, d))
        /\ ChildrenOf(c, q) = 0 }

\* The order of the tree.
Before(p, q) ==
    \E d \in 1..Len(p) :
        d <= Len(q) /\ SubSeq(p, 1, d - 1) = SubSeq(q, 1, d - 1) /\ p[d] < q[d]

\* The node whose parameters a page has: for an effect, its algorithm, which
\* is the first one if nobody asked the device.
Top(g) == IF g.node \notin Effects THEN g.node
          ELSE IF g.html[1][2] = "zero" THEN Append(g.node, 0)
          ELSE Append(g.node, Algorithm[device][g.node])

\* A page that was made in one configuration has all parameters under its node,
\* each once and in the order of the tree, with values of one kind (main.js,
\* lines 612-645 and 899-925).  The walk goes by indices that every answer
\* moves, through a tree that init may be building or replacing.  (A late
\* answer may have made a parameter of the node: its page then has those that
\* follow it.)
PageWhole ==
    page.at = "finished" /\ page.same /\ ChildrenOf(config, Top(page)) > 0 =>
       LET html == page.html
       IN /\ { html[i][1] : i \in DOMAIN html } = Leaves(config, Top(page))
          /\ \A i, j \in DOMAIN html : i < j => Before(html[i][1], html[j][1])
          /\ \A i \in DOMAIN html : html[i][2] = html[1][2]

\* A page that was asked for after the callback of init, of a node that is there
\* and whose algorithm is there, gets to its last parameter: every node that
\* loop goes to has a description, though the configuration may have been built
\* on top of another one, from late answers or after a restart.  Otherwise the
\* browser would wait for ever (main.js, lines 612-645), and if it was the page
\* of an effect no control would be shown again (disable_automation).
NoPageDropped == page.at = "dropped" => blind
=============================================================================
