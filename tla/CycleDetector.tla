---------------------------- MODULE CycleDetector ----------------------------
(***************************************************************************)
(* MarketGraph and CycleDetector (packages/graph-engine/src/market-graph.ts *)
(* and cycle-detector.ts): a directed multigraph of conversions between     *)
(* assets, and the two searches for profitable cycles on it, Bellman-Ford   *)
(* (detectNegativeCycles) and a depth-first search that shares one mutable  *)
(* visited set (findProfitableCycles).  Both run to their end before the    *)
(* graph changes again; they are taken one edge or one frame at a time.     *)
(*                                                                          *)
(* Weights are -ln(rate * (1 - fee)) on a grid of integers, of which the    *)
(* code's 1e-6 is Tolerance: a cycle gains what its weight is below zero.   *)
(* The multipliers of the depth-first search are the same sums.  An edge is *)
(* keyed by its ends and its venue; edges that the pruning configuration    *)
(* rejects are not in the graph.                                            *)
(***************************************************************************)
EXTENDS Integers, FiniteSets, SequencesExt

CONSTANTS
  Assets, Venues,
  Links,            \* the conversions that venues offer: from, to, venue
  Weights,          \* the weights an edge may have
  Root,             \* source and rootAsset, 'USDT' by default
  Null, Infinity,
  Tolerance,        \* what the final check of Bellman-Ford overlooks
  MinGain,          \* minNetProfitBps
  HopLimits,        \* the maxHops that searches are called with
  MaxEdges          \* bound: edges in the graph

ASSUME CycleAssumption ==
  /\ Root \in Assets /\ Null \notin Assets /\ Infinity \notin Int
  /\ IsFiniteSet(Assets)
  /\ Links \subseteq {l \in Assets \X Assets \X Venues : l[1] # l[2]}
  /\ Weights \subseteq Int /\ Tolerance \in Nat /\ MinGain \in Int
  /\ HopLimits \subseteq Nat /\ MaxEdges \in Nat

VARIABLES
  nodes, edges,     \* the graph; edges in the order of their insertion
  pc,               \* where the current call is
  dist, pred,       \* Bellman-Ford's tables
  pass, at,         \* its loops: passes over the edges, and the next edge
  curr, seen,       \* the trace back along pred
  cycle, cycles,    \* the cycle it collects, and the result
  maxHops,          \* the depth-first search: its limit,
  stack, visited,   \* its frames, and the set they share,
  candidates        \* and its result

vars == <<nodes, edges, pc, dist, pred, pass, at, curr, seen, cycle, cycles,
          maxHops, stack, visited, candidates>>
graph == <<nodes, edges>>
tables == <<dist, pred>>
trace == <<curr, seen, cycle>>
detection == <<tables, pass, at, trace, cycles>>
search == <<maxHops, stack, visited, candidates>>

Edge == [from : Assets, to : Assets, venue : Venues, weight : Weights]
SameKey(e, f) == e.from = f.from /\ e.to = f.to /\ e.venue = f.venue

Frame == [asset : Assets, next : Nat \ {0}, via : Nat, weight : Int]
Candidate == [legs : Seq(Nat), weight : Int]

TypeOK ==
  /\ nodes \subseteq Assets /\ edges \in Seq(Edge)
  /\ pc \in {"idle", "relax", "check", "seek", "collect", "detected",
             "search", "searched"}
  /\ dist \in [Assets -> Int \cup {Infinity}]
  /\ pred \in [Assets -> Assets \cup {Null}]
  /\ pass \in Nat /\ at \in Nat \ {0}
  /\ curr \in Assets \cup {Null} /\ seen \subseteq Assets
  /\ cycle \in Seq(Assets) /\ cycles \in Seq(Seq(Assets))
  /\ maxHops \in Nat
  /\ stack \in Seq(Frame) /\ visited \subseteq Assets
  /\ candidates \in Seq(Candidate)

Blank(value) == [a \in Assets |-> value]

Init ==
  /\ nodes = {} /\ edges = << >> /\ pc = "idle"
  /\ dist = Blank(Infinity) /\ pred = Blank(Null)
  /\ pass = 0 /\ at = 1
  /\ curr = Null /\ seen = {} /\ cycle = << >> /\ cycles = << >>
  /\ maxHops = 0 /\ stack = << >> /\ visited = {} /\ candidates = << >>

-----------------------------------------------------------------------------
(* MarketGraph *)

Without(i) == SubSeq(edges, 1, i - 1) \o SubSeq(edges, i + 1, Len(edges))

AddNode(a) ==
  /\ pc = "idle"
  /\ nodes' = nodes \cup {a}
  /\ UNCHANGED <<edges, pc, detection, search>>

\* addEdge and upsertEdge: an edge with the key of another replaces it, at the
\* end of the order.
AddEdge(e) ==
  /\ pc = "idle"
  /\ nodes' = nodes \cup {e.from, e.to}
  /\ \/ /\ Len(edges) < MaxEdges
        /\ \A i \in DOMAIN edges : ~ SameKey(edges[i], e)
        /\ edges' = Append(edges, e)
     \/ \E i \in DOMAIN edges : /\ SameKey(edges[i], e)
                                /\ edges' = Append(Without(i), e)
  /\ UNCHANGED <<pc, detection, search>>

\* removeEdge; removeStaleEdges is several of them.
RemoveEdge(i) ==
  /\ pc = "idle"
  /\ edges' = Without(i)
  /\ UNCHANGED <<nodes, pc, detection, search>>

Clear ==
  /\ pc = "idle"
  /\ nodes' = {} /\ edges' = << >>
  /\ UNCHANGED <<pc, detection, search>>

-----------------------------------------------------------------------------
(* detectNegativeCycles *)

\* On a graph without edges the method returns [] at once.
StartDetect ==
  /\ pc = "idle" /\ edges # << >>
  /\ pc' = "relax"
  /\ dist' = [dist EXCEPT ![Root] = 0]
  /\ UNCHANGED <<graph, pred, pass, at, trace, cycles, search>>

\* Mutant: a way of the same weight counts as shorter.
ShortensOrEquals(e, slack) ==
  /\ dist[e.from] # Infinity
  /\ \/ dist[e.to] = Infinity
     \/ dist[e.from] + e.weight <= dist[e.to] - slack

\* Does e shorten the way to its end by more than slack?
Shortens(e, slack) ==
  /\ dist[e.from] # Infinity
  /\ \/ dist[e.to] = Infinity
     \/ dist[e.from] + e.weight < dist[e.to] - slack

\* Mutant: the edge is stored in place of its start.
RelaxEdgeStoringEdge ==
  /\ pc = "relax" /\ pass < Cardinality(nodes) - 1
  /\ LET e == edges[at] IN
       IF Shortens(e, 0)
       THEN /\ dist' = [dist EXCEPT ![e.to] = dist[e.from] + e.weight]
            /\ pred' = [pred EXCEPT ![e.to] = e]
       ELSE UNCHANGED tables
  /\ IF at < Len(edges)
     THEN at' = at + 1 /\ pass' = pass
     ELSE at' = 1 /\ pass' = pass + 1
  /\ UNCHANGED <<graph, pc, trace, cycles, search>>

\* One turn of the inner loop: distances change in place.
RelaxEdge ==
  /\ pc = "relax" /\ pass < Cardinality(nodes) - 1
  /\ LET e == edges[at] IN
       IF Shortens(e, 0)
       THEN /\ dist' = [dist EXCEPT ![e.to] = dist[e.from] + e.weight]
            /\ pred' = [pred EXCEPT ![e.to] = e.from]
       ELSE UNCHANGED tables
  /\ IF at < Len(edges)
     THEN at' = at + 1 /\ pass' = pass
     ELSE at' = 1 /\ pass' = pass + 1
  /\ UNCHANGED <<graph, pc, trace, cycles, search>>

EndRelax ==
  /\ pc = "relax" /\ pass >= Cardinality(nodes) - 1
  /\ pc' = "check"
  /\ UNCHANGED <<graph, tables, pass, at, trace, cycles, search>>

\* Mutant: the break ends the loop at the first edge.
CheckOneEdge ==
  /\ pc = "check" /\ at <= Len(edges)
  /\ IF Shortens(edges[at], Tolerance)
     THEN pc' = "seek" /\ curr' = edges[at].to
     ELSE pc' = "detected" /\ curr' = curr
  /\ UNCHANGED <<graph, tables, pass, at, seen, cycle, cycles, search>>

\* One turn of the check loop.  The first edge that still shortens a way starts
\* the trace back at its end, and ends the loop whatever the trace finds.
CheckEdge ==
  /\ pc = "check" /\ at <= Len(edges)
  /\ IF Shortens(edges[at], Tolerance)
     THEN pc' = "seek" /\ curr' = edges[at].to /\ at' = at
     ELSE pc' = pc /\ curr' = curr /\ at' = at + 1
  /\ UNCHANGED <<graph, tables, pass, seen, cycle, cycles, search>>

EndCheck ==
  /\ pc = "check" /\ at > Len(edges)
  /\ pc' = "detected"
  /\ UNCHANGED <<graph, detection, search>>

\* Mutant: the trace does not remember where it was.
SeekForgetting ==
  /\ pc = "seek" /\ curr # Null /\ curr \notin seen
  /\ seen' = seen /\ curr' = pred[curr]
  /\ UNCHANGED <<graph, pc, tables, pass, at, cycle, cycles, search>>

\* while (curr && !seen.has(curr))
Seek ==
  /\ pc = "seek" /\ curr # Null /\ curr \notin seen
  /\ seen' = seen \cup {curr} /\ curr' = pred[curr]
  /\ UNCHANGED <<graph, pc, tables, pass, at, cycle, cycles, search>>

\* The trace ran out at a node without predecessor: there is nothing to report.
SeekInVain ==
  /\ pc = "seek" /\ curr = Null
  /\ pc' = "detected"
  /\ UNCHANGED <<graph, detection, search>>

SeekSucceeds ==
  /\ pc = "seek" /\ curr # Null /\ curr \in seen
  /\ pc' = "collect"
  /\ cycle' = <<curr>> /\ curr' = pred[curr]
  /\ UNCHANGED <<graph, tables, pass, at, seen, cycles, search>>

\* while (trace && trace !== startNode)
Collect ==
  /\ pc = "collect" /\ curr # Null /\ curr # cycle[1]
  /\ cycle' = Append(cycle, curr) /\ curr' = pred[curr]
  /\ UNCHANGED <<graph, pc, tables, pass, at, seen, cycles, search>>

\* Mutant: the cycle is reported against the direction of its edges.
ReportBackwards ==
  /\ pc = "collect" /\ (curr = Null \/ curr = cycle[1])
  /\ pc' = "detected"
  /\ cycles' = Append(cycles, Append(cycle, cycle[1]))
  /\ UNCHANGED <<graph, tables, pass, at, trace, search>>

Report ==
  /\ pc = "collect" /\ (curr = Null \/ curr = cycle[1])
  /\ pc' = "detected"
  /\ cycles' = Append(cycles, Reverse(Append(cycle, cycle[1])))
  /\ UNCHANGED <<graph, tables, pass, at, trace, search>>

-----------------------------------------------------------------------------
(* findProfitableCycles *)

StartSearch(h) ==
  /\ pc = "idle"
  /\ pc' = "search"
  /\ maxHops' = h
  /\ stack' = <<[asset |-> Root, next |-> 1, via |-> 0, weight |-> 0]>>
  /\ visited' = {Root}
  /\ UNCHANGED <<graph, detection, candidates>>

Top == stack[Len(stack)]
Hops == Len(stack) - 1
Closed == Hops >= 2 /\ Top.asset = Root

\* May the frame on top take edge i, from its place in the loop on?
Eligible(i) ==
  /\ i >= Top.next
  /\ edges[i].from = Top.asset
  /\ edges[i].to = Root \/ edges[i].to \notin visited

\* Mutant: the asset of the call that returns stays visited.
PopWithoutDelete ==
  IF Hops = 0
  THEN /\ pc' = "searched"
       /\ stack' = << >> /\ visited' = visited
  ELSE /\ pc' = pc
       /\ stack' = SubSeq(stack, 1, Hops) /\ visited' = visited

\* A call of dfs returns to its caller, which takes its asset out of visited.
Pop ==
  IF Hops = 0
  THEN /\ pc' = "searched"
       /\ stack' = << >> /\ visited' = visited
  ELSE /\ pc' = pc
       /\ stack' = SubSeq(stack, 1, Hops) /\ visited' = visited \ {Top.asset}

\* Mutant: a cycle must gain more than the minimum.
CloseCycleAbove ==
  /\ pc = "search" /\ Closed
  /\ candidates' =
       IF - Top.weight > MinGain
       THEN Append(candidates, [legs |-> [h \in 1 .. Hops |-> stack[h + 1].via],
                                weight |-> Top.weight])
       ELSE candidates
  /\ Pop
  /\ UNCHANGED <<graph, detection, maxHops>>

\* A closed cycle is kept if it gains enough.
CloseCycle ==
  /\ pc = "search" /\ Closed
  /\ candidates' =
       IF - Top.weight >= MinGain
       THEN Append(candidates, [legs |-> [h \in 1 .. Hops |-> stack[h + 1].via],
                                weight |-> Top.weight])
       ELSE candidates
  /\ Pop
  /\ UNCHANGED <<graph, detection, maxHops>>

Follow(i) ==
  /\ pc = "search" /\ ~ Closed /\ Hops < maxHops
  /\ Eligible(i) /\ \A j \in 1 .. i - 1 : ~ Eligible(j)
  /\ stack' = Append([stack EXCEPT ![Len(stack)].next = i + 1],
                     [asset |-> edges[i].to, next |-> 1, via |-> i,
                      weight |-> Top.weight + edges[i].weight])
  /\ visited' = visited \cup {edges[i].to}
  /\ UNCHANGED <<graph, pc, detection, maxHops, candidates>>

\* The order of the result: by gain, and as found.
Ranks(p) ==
  \A i, j \in DOMAIN candidates : i < j =>
    LET u == candidates[p[i]].weight
        v == candidates[p[j]].weight IN
    u < v \/ (u = v /\ p[i] < p[j])

\* The end of a frame's loop, or of its hops; the first frame's ends the search,
\* and sorts what it found.
Backtrack ==
  /\ pc = "search" /\ ~ Closed
  /\ Hops = maxHops \/ \A i \in DOMAIN edges : ~ Eligible(i)
  /\ Pop
  /\ IF Hops = 0
     THEN \E p \in [DOMAIN candidates -> DOMAIN candidates] :
            /\ Ranks(p)
            /\ candidates' = [i \in DOMAIN candidates |-> candidates[p[i]]]
     ELSE candidates' = candidates
  /\ UNCHANGED <<graph, detection, maxHops>>

-----------------------------------------------------------------------------

\* The caller has its result, and the graph may change again.
Return ==
  /\ pc \in {"detected", "searched"}
  /\ pc' = "idle"
  /\ dist' = Blank(Infinity) /\ pred' = Blank(Null)
  /\ pass' = 0 /\ at' = 1
  /\ curr' = Null /\ seen' = {} /\ cycle' = << >> /\ cycles' = << >>
  /\ maxHops' = 0 /\ stack' = << >> /\ visited' = {} /\ candidates' = << >>
  /\ UNCHANGED graph

Step ==
  \/ RelaxEdge \/ EndRelax
  \/ CheckEdge \/ EndCheck
  \/ Seek \/ SeekInVain \/ SeekSucceeds
  \/ Collect \/ Report
  \/ CloseCycle \/ Backtrack
  \/ \E i \in DOMAIN edges : Follow(i)
  \/ Return

Next ==
  \/ \E a \in Assets : AddNode(a)
  \/ \E l \in Links, w \in Weights :
       AddEdge([from |-> l[1], to |-> l[2], venue |-> l[3], weight |-> w])
  \/ \E i \in DOMAIN edges : RemoveEdge(i)
  \/ Clear
  \/ StartDetect
  \/ \E h \in HopLimits : StartSearch(h)
  \/ Step

Spec == Init /\ [][Next]_vars

\* A call runs to its end.
FairSpec == Spec /\ WF_vars(Step)

-----------------------------------------------------------------------------
(* What the searches are for *)

\* Closed walks of two to n edges that repeat no asset.
SimpleCycles(n) ==
  {c \in UNION {[1 .. k -> DOMAIN edges] : k \in 2 .. n} :
     /\ \A i \in DOMAIN c :
          edges[c[i]].to = edges[c[IF i = Len(c) THEN 1 ELSE i + 1]].from
     /\ \A i, j \in DOMAIN c : edges[c[i]].from = edges[c[j]].from => i = j}

\* By a recursive function on the legs done so far, which a proof can unfold.
WeightOf(c) ==
  LET Sum[n \in 0 .. Len(c)] == IF n = 0 THEN 0 ELSE Sum[n - 1] + edges[c[n]].weight
  IN Sum[Len(c)]

\* What every set holds that holds the root and is closed under conversion.
Reachable ==
  {a \in Assets : \A S \in SUBSET Assets :
     Root \in S /\ (\A i \in DOMAIN edges : edges[i].from \in S => edges[i].to \in S) => a \in S}

\* Gains more than the check can overlook on its edges, and within reach.
Losing(c) == WeightOf(c) < - Tolerance * Len(c) /\ edges[c[1]].from \in Reachable

-----------------------------------------------------------------------------
(* Properties *)

\* What Bellman-Ford reports is a closed walk along conversions of the graph: no
\* leg of it is one that nobody offers.
ReportedIsCycle ==
  pc = "detected" =>
    \A n \in DOMAIN cycles :
      LET c == cycles[n] IN
      /\ Len(c) >= 2 /\ c[1] = c[Len(c)]
      /\ \A i \in 1 .. Len(c) - 1 :
           \E k \in DOMAIN edges : edges[k].from = c[i] /\ edges[k].to = c[i + 1]

\* And with the best venue for each leg it gains: the cycle of predecessors is one
\* of negative weight, though distances were changed in place while it formed.
ReportedGains ==
  pc = "detected" =>
    \A n \in DOMAIN cycles :
      \E c \in SimpleCycles(Cardinality(Assets)) :
        /\ Len(c) = Len(cycles[n]) - 1
        /\ \A i \in DOMAIN c : edges[c[i]].from = cycles[n][i]
        /\ WeightOf(c) < 0

\* When the check loop finds no edge to shorten, there is nothing to find: no cycle
\* within reach of the root gains more than the tolerance of its edges.
SilenceIsSafe ==
  pc = "detected" /\ seen = {} =>
    \A c \in SimpleCycles(Cardinality(Assets)) : ~ Losing(c)

\* The set the frames of the depth-first search share holds just what is on its
\* path; only the root, exempt from it, may be missing.
VisitedIsPath ==
  pc = "search" => visited \ {Root} = {stack[k].asset : k \in DOMAIN stack} \ {Root}

\* The depth-first search returns every cycle through the root of at most maxHops
\* edges that gains enough, once, with its weight, and nothing else.
SearchIsExact ==
  pc = "searched" =>
    /\ {candidates[n].legs : n \in DOMAIN candidates} =
         {c \in SimpleCycles(maxHops) : edges[c[1]].from = Root /\ - WeightOf(c) >= MinGain}
    /\ \A n \in DOMAIN candidates : candidates[n].weight = WeightOf(candidates[n].legs)
    /\ \A m, n \in DOMAIN candidates : candidates[m].legs = candidates[n].legs => m = n

\* A search ends: the two traces along the predecessors do not run for ever.
CallsReturn == (pc # "idle") ~> (pc = "idle")

\* Every cycle within reach of the source that gains is noticed: the method does not
\* return without one while there is one.
NegativeCyclesReported ==
  pc = "detected" /\ (\E c \in SimpleCycles(Cardinality(Assets)) : Losing(c))
    => cycles # << >>

=============================================================================
