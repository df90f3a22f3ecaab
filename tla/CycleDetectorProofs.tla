------------------------- MODULE CycleDetectorProofs -------------------------
(***************************************************************************)
(* Proofs about CycleDetector, for any assets, venues, weights and hop      *)
(* limits, and graphs of any size: its types; that Bellman-Ford reports     *)
(* only closed walks of the graph, that they gain, and that it is silent    *)
(* only where nothing gains; that the shared visited set is the path of the *)
(* depth-first search, and that this search is exact; and that every step   *)
(* of a call moves on in an order that has an end.                          *)
(*                                                                         *)
(* The invariants are layers, each on those before it: IInv for types and   *)
(* walks, PotentialInv for the tables of Bellman-Ford, TraceInv for what    *)
(* the trace along them finds, QuietInv for where it finds nothing, PathInv *)
(* and FoundInv for the depth-first search.                                 *)
(***************************************************************************)
EXTENDS CycleDetector, FiniteSetTheorems, FunctionTheorems, SequenceTheorems,
        WellFoundedInduction, TLAPS

-----------------------------------------------------------------------------
(* The steps, by what they leave alone *)

GraphStep ==
  \/ \E a \in Assets : AddNode(a)
  \/ \E l \in Links, w \in Weights :
       AddEdge([from |-> l[1], to |-> l[2], venue |-> l[3], weight |-> w])
  \/ \E i \in DOMAIN edges : RemoveEdge(i)
  \/ Clear
DetectStep ==
  \/ StartDetect
  \/ RelaxEdge \/ EndRelax
  \/ CheckEdge \/ EndCheck
  \/ Seek \/ SeekInVain \/ SeekSucceeds
  \/ Collect \/ Report
SearchStep ==
  \/ \E h \in HopLimits : StartSearch(h)
  \/ CloseCycle \/ Backtrack
  \/ \E i \in DOMAIN edges : Follow(i)

LEMMA Steps == Next => GraphStep \/ DetectStep \/ SearchStep \/ Return
  BY DEF Next, Step, GraphStep, DetectStep, SearchStep

GraphTypes == nodes \subseteq Assets /\ edges \in Seq(Edge)
DetectTypes ==
  /\ dist \in [Assets -> Int \cup {Infinity}]
  /\ pred \in [Assets -> Assets \cup {Null}]
  /\ pass \in Nat /\ at \in Nat \ {0}
  /\ curr \in Assets \cup {Null} /\ seen \subseteq Assets
  /\ cycle \in Seq(Assets) /\ cycles \in Seq(Seq(Assets))
SearchTypes ==
  /\ maxHops \in Nat
  /\ stack \in Seq(Frame) /\ visited \subseteq Assets
  /\ candidates \in Seq(Candidate)
Places == {"idle", "relax", "check", "seek", "collect", "detected", "search", "searched"}

LEMMA TypeParts ==
  /\ TypeOK <=> GraphTypes /\ DetectTypes /\ SearchTypes /\ pc \in Places
  /\ TypeOK' <=> GraphTypes' /\ DetectTypes' /\ SearchTypes' /\ pc' \in Places
  BY DEF TypeOK, GraphTypes, DetectTypes, SearchTypes, Places

-----------------------------------------------------------------------------
(* Invariants *)

\* A predecessor is recorded with an edge of the graph.
PredEdges ==
  \A v \in Assets : pred[v] # Null =>
    \E k \in DOMAIN edges : edges[k].from = pred[v] /\ edges[k].to = v

\* While no detection runs its tables are blank, so the graph may change; while it
\* seeks, what it has seen leads back to where it is; and once that closes, every
\* further node of the trace has been seen, so none lacks a predecessor.
DetectInv ==
  /\ pc \in {"idle", "search", "searched"} => pred = Blank(Null) /\ at = 1
  /\ pc \in {"idle", "search", "searched", "relax", "check"} => seen = {}
  /\ pc # "detected" => cycles = << >>
  /\ pc = "relax" => at \in DOMAIN edges
  /\ PredEdges
  /\ pc = "seek" => \A v \in seen : pred[v] \in seen \cup {curr}
  /\ pc = "collect" =>
       /\ \A v \in seen : pred[v] \in seen
       /\ curr \in seen
       /\ Len(cycle) >= 1 /\ curr = pred[cycle[Len(cycle)]]
       /\ \A i \in 1 .. Len(cycle) - 1 : cycle[i + 1] = pred[cycle[i]]
  /\ ReportedIsCycle

\* Frames are of different assets, except that the root may be on top again.
SearchInv ==
  pc = "search" =>
    /\ Len(stack) >= 1
    /\ \A j, k \in DOMAIN stack :
         stack[j].asset = stack[k].asset /\ stack[j].asset # Root => j = k
    /\ visited \ {Root} = {stack[k].asset : k \in DOMAIN stack} \ {Root}

IInv == TypeOK /\ DetectInv /\ SearchInv

-----------------------------------------------------------------------------
(* The graph *)

LEMMA WithoutType == ASSUME edges \in Seq(Edge), NEW i \in DOMAIN edges
                     PROVE  Without(i) \in Seq(Edge)
<1>1. SubSeq(edges, 1, i - 1) \in Seq(Edge) /\ SubSeq(edges, i + 1, Len(edges)) \in Seq(Edge)
  OBVIOUS
<1> QED BY <1>1 DEF Without

LEMMA GraphStepType == TypeOK /\ GraphStep => TypeOK'
<1> SUFFICES ASSUME TypeOK, GraphStep PROVE TypeOK'
  OBVIOUS
<1>1. GraphTypes /\ DetectTypes /\ SearchTypes /\ pc \in Places
  BY TypeParts
<1>2. UNCHANGED <<pc, detection, search>>
  BY DEF GraphStep, AddNode, AddEdge, RemoveEdge, Clear
<1>3. DetectTypes' /\ SearchTypes' /\ pc' \in Places
  BY <1>1, <1>2 DEF DetectTypes, SearchTypes, detection, tables, trace, search
<1>4. GraphTypes'
  <2>1. ASSUME NEW a \in Assets, AddNode(a) PROVE GraphTypes'
    BY <1>1, <2>1 DEF AddNode, GraphTypes
  <2>2. ASSUME NEW l \in Links, NEW w \in Weights,
               AddEdge([from |-> l[1], to |-> l[2], venue |-> l[3], weight |-> w])
        PROVE  GraphTypes'
    <3> DEFINE e == [from |-> l[1], to |-> l[2], venue |-> l[3], weight |-> w]
    <3>1. e \in Edge /\ e.from \in Assets /\ e.to \in Assets
      BY CycleAssumption DEF Edge
    <3>2. \A i \in DOMAIN edges : Without(i) \in Seq(Edge)
      BY <1>1, WithoutType DEF GraphTypes
    <3>3. AddEdge(e)
      BY <2>2
    <3> HIDE DEF e
    <3>4. nodes' = nodes \cup {e.from, e.to}
      BY <3>3 DEF AddEdge
    <3>5. \A s \in Seq(Edge) : Append(s, e) \in Seq(Edge)
      BY <3>1, AppendProperties
    <3>6. edges' = Append(edges, e) \/ \E i \in DOMAIN edges : edges' = Append(Without(i), e)
      BY <3>3 DEF AddEdge
    <3>7. edges' \in Seq(Edge)
      BY <1>1, <3>2, <3>5, <3>6 DEF GraphTypes
    <3> QED BY <1>1, <3>1, <3>4, <3>7 DEF GraphTypes
  <2>3. ASSUME NEW i \in DOMAIN edges, RemoveEdge(i) PROVE GraphTypes'
    BY <1>1, <2>3, WithoutType DEF RemoveEdge, GraphTypes
  <2>4. ASSUME Clear PROVE GraphTypes'
    BY <2>4 DEF Clear, GraphTypes
  <2> QED BY <2>1, <2>2, <2>3, <2>4 DEF GraphStep
<1> QED BY <1>3, <1>4, TypeParts

LEMMA GraphStepInv == IInv /\ GraphStep => IInv'
<1> SUFFICES ASSUME IInv, GraphStep PROVE IInv'
  OBVIOUS
<1>1. TypeOK /\ TypeOK'
  BY GraphStepType DEF IInv
<1>2. pc = "idle" /\ UNCHANGED <<pc, detection, search>>
  BY DEF GraphStep, AddNode, AddEdge, RemoveEdge, Clear
<1>3. pred' = Blank(Null) /\ at' = 1 /\ seen' = {} /\ cycles' = << >> /\ pc' = "idle"
  BY <1>2 DEF IInv, DetectInv, detection, tables, trace
<1>4. PredEdges'
  BY <1>3 DEF PredEdges, Blank
<1>5. DetectInv' /\ SearchInv'
  BY <1>3, <1>4 DEF DetectInv, SearchInv, ReportedIsCycle
<1> QED BY <1>1, <1>5 DEF IInv

-----------------------------------------------------------------------------
(* Bellman-Ford *)

\* The state while a detection runs: its tables are typed and the graph stands.
LEMMA DetectStepFrame == IInv /\ DetectStep => UNCHANGED <<graph, search>>
  BY DEF DetectStep, StartDetect, RelaxEdge, EndRelax, CheckEdge, EndCheck, Seek, SeekInVain,
         SeekSucceeds, Collect, Report

LEMMA DetectStepType == IInv /\ DetectStep => TypeOK'
<1> SUFFICES ASSUME IInv, DetectStep PROVE TypeOK'
  OBVIOUS
<1>1. GraphTypes /\ DetectTypes /\ SearchTypes /\ pc \in Places /\ DetectInv
  BY TypeParts DEF IInv
<1>2. GraphTypes' /\ SearchTypes'
  BY <1>1, DetectStepFrame DEF GraphTypes, SearchTypes, graph, search
<1>3. \A i \in DOMAIN edges : edges[i].from \in Assets /\ edges[i].to \in Assets
                             /\ edges[i].weight \in Int
  <2>1. \A i \in DOMAIN edges : edges[i] \in Edge
    BY <1>1 DEF GraphTypes
  <2> QED BY <2>1, CycleAssumption DEF Edge
<1>4. CASE StartDetect
  <2>1. dist' \in [Assets -> Int \cup {Infinity}]
    BY <1>1, <1>4, CycleAssumption DEF StartDetect, DetectTypes
  <2> QED BY <1>1, <1>2, <1>4, <2>1, TypeParts DEF StartDetect, DetectTypes, Places, trace
<1>5. CASE RelaxEdge
  <2> DEFINE e == edges[at]
  <2>1. at \in DOMAIN edges /\ e.from \in Assets /\ e.to \in Assets /\ e.weight \in Int
    BY <1>1, <1>3, <1>5 DEF DetectInv, RelaxEdge
  <2>2. at' \in Nat \ {0} /\ pass' \in Nat
    BY <1>1, <1>5 DEF RelaxEdge, DetectTypes
  <2>3. Shortens(e, 0) => dist[e.from] + e.weight \in Int
    BY <1>1, <2>1 DEF Shortens, DetectTypes
  <2>4. dist' \in [Assets -> Int \cup {Infinity}] /\ pred' \in [Assets -> Assets \cup {Null}]
    <3> HIDE DEF e
    <3>1. \/ /\ Shortens(e, 0)
             /\ dist' = [dist EXCEPT ![e.to] = dist[e.from] + e.weight]
             /\ pred' = [pred EXCEPT ![e.to] = e.from]
          \/ dist' = dist /\ pred' = pred
      BY <1>5 DEF RelaxEdge, tables, e
    <3> QED BY <1>1, <2>1, <2>3, <3>1 DEF DetectTypes
  <2> QED BY <1>1, <1>2, <1>5, <2>2, <2>4, TypeParts DEF RelaxEdge, DetectTypes, Places, trace
<1>6. CASE EndRelax
  BY <1>1, <1>2, <1>6, TypeParts DEF EndRelax, DetectTypes, Places, trace, tables
<1>7. CASE CheckEdge
  <2>1. edges[at].to \in Assets
    BY <1>1, <1>3, <1>7 DEF CheckEdge, GraphTypes, DetectTypes
  <2> QED BY <1>1, <1>2, <1>7, <2>1, TypeParts DEF CheckEdge, DetectTypes, Places, tables
<1>8. CASE EndCheck
  BY <1>1, <1>2, <1>8, TypeParts DEF EndCheck, DetectTypes, Places, detection, trace, tables
<1>9. CASE Seek
  BY <1>1, <1>2, <1>9, TypeParts DEF Seek, DetectTypes, Places, tables
<1>10. CASE SeekInVain
  BY <1>1, <1>2, <1>10, TypeParts DEF SeekInVain, DetectTypes, Places, detection, trace, tables
<1>11. CASE SeekSucceeds
  BY <1>1, <1>2, <1>11, TypeParts DEF SeekSucceeds, DetectTypes, Places, tables
<1>12. CASE Collect
  BY <1>1, <1>2, <1>12, TypeParts DEF Collect, DetectTypes, Places, tables
<1>13. CASE Report
  <2>1. cycle[1] \in Assets
    BY <1>1, <1>13 DEF Report, DetectInv, DetectTypes
  <2>2. Append(cycle, cycle[1]) \in Seq(Assets)
    BY <1>1, <2>1 DEF DetectTypes
  <2>3. Reverse(Append(cycle, cycle[1])) \in Seq(Assets)
    <3> DEFINE d == Append(cycle, cycle[1])
    <3>1. d \in Seq(Assets)
      BY <2>2
    <3> HIDE DEF d
    <3>2. Reverse(d) \in Seq(Assets)
      BY <3>1 DEF Reverse
    <3> QED BY <3>2 DEF d
  <2>4. cycles' \in Seq(Seq(Assets))
    BY <1>1, <1>13, <2>3 DEF Report, DetectTypes
  <2> QED BY <1>1, <1>2, <1>13, <2>4, TypeParts DEF Report, DetectTypes, Places, tables, trace
<1> QED BY <1>4, <1>5, <1>6, <1>7, <1>8, <1>9, <1>10, <1>11, <1>12, <1>13 DEF DetectStep

\* What Report appends: d, a walk against its edges that ends where it started,
\* turned round.
LEMMA ReversedWalk ==
  ASSUME GraphTypes, DetectTypes, PredEdges, cycle # << >>, pred[cycle[Len(cycle)]] = cycle[1],
         \A i \in 1 .. Len(cycle) - 1 : cycle[i + 1] = pred[cycle[i]],
         NEW c, c = Reverse(Append(cycle, cycle[1]))
  PROVE  /\ Len(c) >= 2 /\ c[1] = c[Len(c)]
         /\ \A i \in 1 .. Len(c) - 1 :
              \E k \in DOMAIN edges : edges[k].from = c[i] /\ edges[k].to = c[i + 1]
<1> DEFINE n == Len(cycle)
           d == Append(cycle, cycle[1])
<1>1. n \in Nat /\ n >= 1 /\ cycle[1] \in Assets /\ \A i \in 1 .. n : cycle[i] \in Assets
  BY DEF DetectTypes
<1>2. /\ Len(d) = n + 1 /\ d[n + 1] = cycle[1]
      /\ \A i \in 1 .. n : d[i] = cycle[i]
  BY <1>1 DEF DetectTypes
<1>3. \A i \in 1 .. n : d[i] \in Assets /\ d[i + 1] = pred[d[i]]
  <2> SUFFICES ASSUME NEW i \in 1 .. n PROVE d[i] \in Assets /\ d[i + 1] = pred[d[i]]
    OBVIOUS
  <2>1. CASE i = n
    BY <1>1, <1>2, <2>1
  <2>2. CASE i # n
    <3>1. i \in 1 .. Len(cycle) - 1 /\ i + 1 \in 1 .. n
      BY <1>1, <2>2
    <3> QED BY <1>1, <1>2, <3>1
  <2> QED BY <2>1, <2>2
<1>4. d[n + 1] \in Assets
  BY <1>1, <1>2
<1> HIDE DEF d
<1>5. c = [j \in 1 .. n + 1 |-> d[n + 1 - j + 1]]
  BY <1>1, <1>2 DEF Reverse, d
<1>6. Len(c) = n + 1
  BY <1>1, <1>5
<1>7. c[1] = c[Len(c)]
  BY <1>1, <1>2, <1>5, <1>6
<1>8. ASSUME NEW i \in 1 .. n
      PROVE  \E k \in DOMAIN edges : edges[k].from = c[i] /\ edges[k].to = c[i + 1]
  <2>1. /\ n + 1 - i \in 1 .. n
        /\ c[i] = d[(n + 1 - i) + 1] /\ c[i + 1] = d[n + 1 - i]
    BY <1>1, <1>5
  <2>2. c[i + 1] \in Assets /\ pred[c[i + 1]] = c[i]
    BY <1>3, <2>1
  <2>3. c[i] \in Assets
    <3>1. CASE (n + 1 - i) + 1 = n + 1
      BY <1>4, <2>1, <3>1
    <3>2. CASE (n + 1 - i) + 1 # n + 1
      <4>1. (n + 1 - i) + 1 \in 1 .. n
        BY <1>1, <3>2
      <4> QED BY <1>3, <2>1, <4>1
    <3> QED BY <3>1, <3>2
  <2>4. c[i] # Null
    BY <2>3, CycleAssumption
  <2> QED BY <2>2, <2>4 DEF PredEdges
<1> QED BY <1>1, <1>6, <1>7, <1>8

LEMMA DetectStepInv == IInv /\ DetectStep => DetectInv' /\ SearchInv'
<1> SUFFICES ASSUME IInv, DetectStep PROVE DetectInv' /\ SearchInv'
  OBVIOUS
<1>1. GraphTypes /\ DetectTypes /\ DetectInv /\ SearchInv
  BY TypeParts DEF IInv
<1>2. UNCHANGED <<graph, search>> /\ edges' = edges
  BY DetectStepFrame DEF graph
<1>3. SearchInv'
  <2>1. pc' # "search"
    BY DEF DetectStep, StartDetect, RelaxEdge, EndRelax, CheckEdge, EndCheck, Seek,
           SeekInVain, SeekSucceeds, Collect, Report
  <2> QED BY <2>1 DEF SearchInv
<1> SUFFICES DetectInv'
  BY <1>3
<1>4. CASE StartDetect
  <2>1. 1 \in DOMAIN edges
    BY <1>1, <1>4 DEF StartDetect, GraphTypes
  <2>2. at' = 1
    BY <1>1, <1>4 DEF StartDetect, DetectInv
  <2> QED BY <1>1, <1>2, <1>4, <2>1, <2>2
          DEF StartDetect, DetectInv, PredEdges, ReportedIsCycle, trace
<1>5. CASE RelaxEdge
  <2> DEFINE e == edges[at]
  <2>1. at \in DOMAIN edges /\ at' \in DOMAIN edges
    BY <1>1, <1>2, <1>5 DEF RelaxEdge, DetectInv, GraphTypes
  <2>2. e.to \in Assets
    <3>1. e \in Edge
      BY <1>1, <2>1 DEF GraphTypes
    <3> QED BY <3>1 DEF Edge
  <2>3. PredEdges'
    <3> HIDE DEF e
    <3>1. pred' = pred \/ pred' = [pred EXCEPT ![e.to] = e.from]
      BY <1>5 DEF RelaxEdge, tables, e
    <3>2. CASE pred' = pred
      BY <1>1, <1>2, <3>2 DEF DetectInv, PredEdges
    <3>3. CASE pred' = [pred EXCEPT ![e.to] = e.from]
      <4> SUFFICES ASSUME NEW v \in Assets, pred'[v] # Null
                   PROVE  \E k \in DOMAIN edges : edges[k].from = pred'[v] /\ edges[k].to = v
        BY <1>2 DEF PredEdges
      <4>1. CASE v = e.to
        BY <1>1, <2>1, <2>2, <3>3, <4>1 DEF DetectTypes, e
      <4>2. CASE v # e.to
        BY <1>1, <2>2, <3>3, <4>2 DEF DetectTypes, DetectInv, PredEdges
      <4> QED BY <4>1, <4>2
    <3> QED BY <3>1, <3>2, <3>3
  <2> QED BY <1>1, <1>2, <1>5, <2>1, <2>3 DEF RelaxEdge, DetectInv, ReportedIsCycle, trace
<1>6. CASE EndRelax
  BY <1>1, <1>2, <1>6 DEF EndRelax, DetectInv, PredEdges, ReportedIsCycle, trace, tables
<1>7. CASE CheckEdge
  BY <1>1, <1>2, <1>7 DEF CheckEdge, DetectInv, PredEdges, ReportedIsCycle, trace, tables
<1>8. CASE EndCheck
  BY <1>1, <1>2, <1>8 DEF EndCheck, DetectInv, PredEdges, ReportedIsCycle, detection, trace, tables
<1>9. CASE Seek
  BY <1>1, <1>2, <1>9 DEF Seek, DetectInv, PredEdges, ReportedIsCycle, tables
<1>10. CASE SeekInVain
  BY <1>1, <1>2, <1>10 DEF SeekInVain, DetectInv, PredEdges, ReportedIsCycle, detection, trace, tables
<1>11. CASE SeekSucceeds
  BY <1>1, <1>2, <1>11 DEF SeekSucceeds, DetectInv, PredEdges, ReportedIsCycle, tables
<1>12. CASE Collect
  <2>1. curr \in Assets /\ cycle \in Seq(Assets) /\ Len(cycle) \in Nat
    BY <1>1, <1>12 DEF Collect, DetectTypes
  <2>2. /\ cycle' \in Seq(Assets) /\ Len(cycle') = Len(cycle) + 1
        /\ cycle'[Len(cycle) + 1] = curr
        /\ \A i \in 1 .. Len(cycle) : cycle'[i] = cycle[i]
    BY <1>12, <2>1 DEF Collect
  <2>3. pred' = pred /\ curr' = pred[curr] /\ seen' = seen
    BY <1>12 DEF Collect, tables
  <2>4. /\ \A v \in seen : pred[v] \in seen
        /\ curr \in seen
        /\ Len(cycle) >= 1 /\ curr = pred[cycle[Len(cycle)]]
        /\ \A i \in 1 .. Len(cycle) - 1 : cycle[i + 1] = pred[cycle[i]]
    BY <1>1, <1>12 DEF Collect, DetectInv
  <2>5. ASSUME NEW i \in 1 .. Len(cycle') - 1 PROVE cycle'[i + 1] = pred'[cycle'[i]]
    <3>1. CASE i = Len(cycle)
      BY <2>1, <2>2, <2>3, <2>4, <3>1
    <3>2. CASE i # Len(cycle)
      <4>1. i \in 1 .. Len(cycle) - 1 /\ i + 1 \in 1 .. Len(cycle) /\ i \in 1 .. Len(cycle)
        BY <2>1, <2>2, <3>2
      <4>2. cycle'[i + 1] = cycle[i + 1] /\ cycle'[i] = cycle[i]
        BY <2>2, <4>1
      <4> QED BY <2>3, <2>4, <4>1, <4>2
    <3> QED BY <3>1, <3>2
  <2>6. Len(cycle') >= 1 /\ curr' = pred'[cycle'[Len(cycle')]]
    BY <2>1, <2>2, <2>3
  <2>7. (\A v \in seen' : pred'[v] \in seen') /\ curr' \in seen'
    BY <2>3, <2>4
  <2>8. pc' = "collect" /\ cycles' = << >> /\ PredEdges'
    BY <1>1, <1>2, <1>12, <2>3 DEF Collect, DetectInv, PredEdges
  <2> QED BY <1>3, <2>5, <2>6, <2>7, <2>8 DEF DetectInv, ReportedIsCycle
<1>13. CASE Report
  <2> DEFINE c == Reverse(Append(cycle, cycle[1]))
  <2>1. curr \in Assets /\ curr = cycle[1] /\ cycle # << >>
    BY <1>1, <1>13, CycleAssumption DEF Report, DetectInv, DetectTypes
  <2>2. pred[cycle[Len(cycle)]] = cycle[1]
    BY <1>1, <1>13, <2>1 DEF Report, DetectInv
  <2>3. \A i \in 1 .. Len(cycle) - 1 : cycle[i + 1] = pred[cycle[i]]
    BY <1>1, <1>13 DEF Report, DetectInv
  <2>4. PredEdges
    BY <1>1 DEF DetectInv
  <2> HIDE DEF c
  <2>5. /\ Len(c) >= 2 /\ c[1] = c[Len(c)]
        /\ \A i \in 1 .. Len(c) - 1 :
             \E k \in DOMAIN edges : edges[k].from = c[i] /\ edges[k].to = c[i + 1]
    BY <1>1, <2>1, <2>2, <2>3, <2>4, ReversedWalk DEF c
  <2>6. cycles' = << c >>
    BY <1>1, <1>13 DEF Report, DetectInv, c
  <2>7. ReportedIsCycle'
    BY <1>2, <2>5, <2>6 DEF ReportedIsCycle
  <2>8. pc' = "detected" /\ PredEdges'
    BY <1>2, <1>13, <2>4 DEF Report, PredEdges, tables
  <2> QED BY <1>3, <2>7, <2>8 DEF DetectInv
<1> QED BY <1>3, <1>4, <1>5, <1>6, <1>7, <1>8, <1>9, <1>10, <1>11, <1>12, <1>13 DEF DetectStep

-----------------------------------------------------------------------------
(* The depth-first search *)

LEMMA SearchStepFrame == SearchStep => UNCHANGED <<graph, detection>>
  BY DEF SearchStep, StartSearch, CloseCycle, Backtrack, Follow

\* A search leaves the tables of the detection blank.
LEMMA SearchStepDetect == IInv /\ SearchStep => DetectInv' /\ GraphTypes' /\ DetectTypes'
<1> SUFFICES ASSUME IInv, SearchStep PROVE DetectInv' /\ GraphTypes' /\ DetectTypes'
  OBVIOUS
<1>1. GraphTypes /\ DetectTypes /\ DetectInv
  BY TypeParts DEF IInv
<1>2. UNCHANGED <<graph, detection>>
  BY SearchStepFrame
<1>3. pc \in {"idle", "search"} /\ pc' \in {"search", "searched"}
  BY DEF SearchStep, StartSearch, CloseCycle, Backtrack, Follow, Pop
<1>4. GraphTypes' /\ DetectTypes'
  BY <1>1, <1>2 DEF GraphTypes, DetectTypes, graph, detection, tables, trace
<1>5. PredEdges'
  BY <1>1, <1>2 DEF DetectInv, PredEdges, graph, detection, tables
<1>6. DetectInv'
  BY <1>1, <1>2, <1>3, <1>5 DEF DetectInv, ReportedIsCycle, detection, tables, trace
<1> QED BY <1>4, <1>6

\* Returning from a frame keeps what is below it.
LEMMA PopKeeps ==
  ASSUME IInv, pc = "search", Pop
  PROVE  SearchInv' /\ stack' \in Seq(Frame) /\ visited' \subseteq Assets /\ pc' \in Places
<1>1. /\ stack \in Seq(Frame) /\ visited \subseteq Assets
      /\ Len(stack) >= 1 /\ Len(stack) \in Nat
      /\ \A j, k \in DOMAIN stack :
           stack[j].asset = stack[k].asset /\ stack[j].asset # Root => j = k
      /\ visited \ {Root} = {stack[k].asset : k \in DOMAIN stack} \ {Root}
  BY TypeParts DEF IInv, SearchInv, SearchTypes
<1>2. CASE Hops = 0
  BY <1>1, <1>2 DEF Pop, Places, SearchInv
<1>3. CASE Hops # 0
  <2> DEFINE n == Len(stack)
  <2>1. /\ n \in Nat /\ n - 1 >= 1 /\ DOMAIN stack = 1 .. n
        /\ pc' = "search" /\ stack' = SubSeq(stack, 1, n - 1)
        /\ visited' = visited \ {stack[n].asset}
    <3>1. Hops = n - 1 /\ Top = stack[n]
      BY DEF Hops, Top
    <3>2. n \in Nat /\ n - 1 >= 1 /\ DOMAIN stack = 1 .. n
      BY <1>1, <1>3, <3>1
    <3> QED BY <1>3, <3>1, <3>2 DEF Pop
  <2>2. /\ stack' \in Seq(Frame) /\ Len(stack') = n - 1 /\ DOMAIN stack' = 1 .. n - 1
        /\ \A k \in 1 .. n - 1 : stack'[k] = stack[k]
    BY <1>1, <2>1
  <2> HIDE DEF n
  <2>3. 1 .. n - 1 \subseteq 1 .. n /\ n \in 1 .. n /\ n \notin 1 .. n - 1
        /\ \A k \in 1 .. n : k = n \/ k \in 1 .. n - 1
    BY <2>1
  <2>4. \A j, k \in DOMAIN stack' :
          stack'[j].asset = stack'[k].asset /\ stack'[j].asset # Root => j = k
    BY <1>1, <2>1, <2>2, <2>3
  <2>5. visited' \ {Root} = {stack'[k].asset : k \in DOMAIN stack'} \ {Root}
    <3>1. ASSUME NEW a, a \in visited' \ {Root}
          PROVE  a \in {stack'[k].asset : k \in DOMAIN stack'}
      <4>1. a \in visited \ {Root} /\ a # stack[n].asset
        BY <2>1, <3>1
      <4>2. PICK k \in DOMAIN stack : a = stack[k].asset
        BY <1>1, <4>1
      <4>3. k \in 1 .. n - 1
        BY <2>1, <2>3, <4>1, <4>2
      <4> QED BY <2>2, <4>2, <4>3
    <3>2. ASSUME NEW k \in DOMAIN stack', stack'[k].asset # Root
          PROVE  stack'[k].asset \in visited'
      <4>1. k \in DOMAIN stack /\ k # n /\ stack'[k].asset = stack[k].asset
        BY <2>1, <2>2, <2>3
      <4>2. stack[k].asset # stack[n].asset
        BY <1>1, <2>1, <2>3, <3>2, <4>1
      <4> QED BY <1>1, <2>1, <3>2, <4>1, <4>2
    <3> QED BY <3>1, <3>2
  <2> QED BY <1>1, <2>1, <2>2, <2>4, <2>5 DEF SearchInv, Places
<1> QED BY <1>2, <1>3

\* Following an edge puts an asset on top that no frame is of, or the root.
LEMMA FollowKeeps ==
  ASSUME IInv, NEW i \in DOMAIN edges, Follow(i)
  PROVE  SearchInv' /\ stack' \in Seq(Frame) /\ visited' \subseteq Assets
<1>1. /\ stack \in Seq(Frame) /\ visited \subseteq Assets
      /\ Len(stack) >= 1 /\ Len(stack) \in Nat /\ DOMAIN stack = 1 .. Len(stack)
      /\ \A j, k \in DOMAIN stack :
           stack[j].asset = stack[k].asset /\ stack[j].asset # Root => j = k
      /\ visited \ {Root} = {stack[k].asset : k \in DOMAIN stack} \ {Root}
  BY TypeParts DEF IInv, SearchInv, SearchTypes, Follow
<1>2. edges[i] \in Edge /\ i \in Nat
  BY TypeParts DEF IInv, GraphTypes
<1>3. edges[i].to \in Assets /\ edges[i].weight \in Int
  BY <1>2, CycleAssumption DEF Edge
<1> DEFINE n == Len(stack)
           low == [stack EXCEPT ![n].next = i + 1]
           new == [asset |-> edges[i].to, next |-> 1, via |-> i,
                   weight |-> Top.weight + edges[i].weight]
<1>4. n \in DOMAIN stack /\ stack[n] \in Frame /\ Top = stack[n]
  BY <1>1 DEF Top
<1>5. new \in Frame /\ new.asset = edges[i].to
  BY <1>2, <1>3, <1>4 DEF Frame
<1>6. /\ low \in Seq(Frame) /\ Len(low) = n
      /\ \A k \in 1 .. n : low[k].asset = stack[k].asset
  <2>1. [stack[n] EXCEPT !.next = i + 1] \in Frame
        /\ [stack[n] EXCEPT !.next = i + 1].asset = stack[n].asset
    BY <1>2, <1>4 DEF Frame
  <2>2. low = [stack EXCEPT ![n] = [stack[n] EXCEPT !.next = i + 1]]
    OBVIOUS
  <2>3. low \in Seq(Frame) /\ Len(low) = n
    BY <1>1, <1>4, <2>1, <2>2
  <2>4. \A k \in 1 .. n : low[k].asset = stack[k].asset
    BY <1>1, <1>4, <2>1, <2>2
  <2> QED BY <2>3, <2>4
<1>7. /\ pc' = "search" /\ stack' = Append(low, new) /\ visited' = visited \cup {edges[i].to}
      /\ edges[i].to = Root \/ edges[i].to \notin visited
  BY DEF Follow, Eligible
<1> HIDE DEF low, new
<1>8. /\ stack' \in Seq(Frame) /\ Len(stack') = n + 1 /\ DOMAIN stack' = 1 .. n + 1
      /\ stack'[n + 1].asset = edges[i].to
      /\ \A k \in 1 .. n : stack'[k].asset = stack[k].asset
  BY <1>1, <1>5, <1>6, <1>7
<1> HIDE DEF n
<1>9. \A k \in 1 .. n : stack[k].asset # Root => stack[k].asset \in visited
  BY <1>1 DEF n
<1>10. n \in Nat /\ n >= 1 /\ DOMAIN stack = 1 .. n
  BY <1>1 DEF n
<1>11. ASSUME NEW j \in DOMAIN stack', NEW k \in DOMAIN stack',
              stack'[j].asset = stack'[k].asset, stack'[j].asset # Root
       PROVE  j = k
  <2>1. CASE j = n + 1 /\ k # n + 1
    <3>1. k \in 1 .. n
      BY <1>8, <1>10, <2>1
    <3> QED BY <1>7, <1>8, <1>9, <1>11, <2>1, <3>1
  <2>2. CASE k = n + 1 /\ j # n + 1
    <3>1. j \in 1 .. n
      BY <1>8, <1>10, <2>2
    <3> QED BY <1>7, <1>8, <1>9, <1>11, <2>2, <3>1
  <2>3. CASE j # n + 1 /\ k # n + 1
    <3>1. j \in 1 .. n /\ k \in 1 .. n
      BY <1>8, <1>10, <2>3
    <3> QED BY <1>1, <1>8, <1>10, <1>11, <3>1
  <2> QED BY <2>1, <2>2, <2>3
<1>12. visited' \ {Root} = {stack'[k].asset : k \in DOMAIN stack'} \ {Root}
  <2>1. ASSUME NEW a \in visited', a # Root
        PROVE  \E k \in DOMAIN stack' : a = stack'[k].asset
    <3>1. CASE a = edges[i].to
      BY <1>8, <1>10, <3>1
    <3>2. CASE a \in visited
      <4>1. PICK k \in DOMAIN stack : a = stack[k].asset
        BY <1>1, <2>1, <3>2
      <4>2. k \in 1 .. n /\ k \in 1 .. n + 1
        BY <1>10, <4>1
      <4> QED BY <1>8, <4>1, <4>2
    <3> QED BY <1>7, <2>1, <3>1, <3>2
  <2>2. ASSUME NEW k \in DOMAIN stack', stack'[k].asset # Root
        PROVE  stack'[k].asset \in visited'
    <3>1. CASE k = n + 1
      BY <1>7, <1>8, <3>1
    <3>2. CASE k # n + 1
      <4>1. k \in 1 .. n
        BY <1>8, <1>10, <3>2
      <4> QED BY <1>7, <1>8, <1>9, <2>2, <4>1
    <3> QED BY <3>1, <3>2
  <2> QED BY <2>1, <2>2
<1>13. Len(stack') >= 1
  BY <1>8, <1>10
<1> QED BY <1>1, <1>3, <1>7, <1>8, <1>11, <1>12, <1>13 DEF SearchInv

LEMMA SearchStepInv == IInv /\ SearchStep => TypeOK' /\ SearchInv'
<1> SUFFICES ASSUME IInv, SearchStep PROVE TypeOK' /\ SearchInv'
  OBVIOUS
<1>1. GraphTypes /\ DetectTypes /\ SearchTypes /\ pc \in Places /\ SearchInv
  BY TypeParts DEF IInv
<1>2. GraphTypes' /\ DetectTypes'
  BY SearchStepDetect
<1> SUFFICES SearchTypes' /\ pc' \in Places /\ SearchInv'
  BY <1>2, TypeParts
<1>3. ASSUME NEW h \in HopLimits, StartSearch(h) PROVE SearchTypes' /\ pc' \in Places /\ SearchInv'
  <2> DEFINE f == [asset |-> Root, next |-> 1, via |-> 0, weight |-> 0]
  <2>1. f \in Frame /\ f.asset = Root /\ h \in Nat
    BY CycleAssumption DEF Frame
  <2>2. /\ stack' = << f >> /\ maxHops' = h /\ visited' = {Root}
        /\ candidates' = candidates /\ pc' = "search"
    BY <1>3 DEF StartSearch
  <2> HIDE DEF f
  <2>3. stack' \in Seq(Frame) /\ Len(stack') = 1 /\ DOMAIN stack' = {1} /\ stack'[1].asset = Root
    BY <2>1, <2>2
  <2>4. SearchInv'
    BY <2>2, <2>3 DEF SearchInv
  <2> QED BY <1>1, <2>1, <2>2, <2>3, <2>4, CycleAssumption DEF SearchTypes, Places
<1>4. CASE CloseCycle
  <2>1. SearchInv' /\ stack' \in Seq(Frame) /\ visited' \subseteq Assets /\ pc' \in Places
    BY <1>4, PopKeeps DEF CloseCycle
  <2> DEFINE legs == [h \in 1 .. Hops |-> stack[h + 1].via]
             kept == [legs |-> legs, weight |-> Top.weight]
  <2>2. Hops \in Nat /\ Hops + 1 = Len(stack) /\ stack \in Seq(Frame) /\ Hops + 1 \in 1 .. Len(stack)
    BY <1>1, <1>4 DEF CloseCycle, SearchInv, SearchTypes, Hops
  <2>3. \A k \in 1 .. Hops + 1 : stack[k] \in Frame
    BY <2>2
  <2>4. kept \in Candidate
    <3>1. ASSUME NEW h \in 1 .. Hops PROVE stack[h + 1].via \in Nat
      <4>1. h + 1 \in 1 .. Hops + 1
        BY <2>2
      <4> QED BY <2>3, <4>1 DEF Frame
    <3>2. legs \in Seq(Nat)
      BY <2>2, <3>1
    <3>3. Top.weight \in Int
      BY <2>2, <2>3 DEF Top, Frame
    <3> HIDE DEF legs
    <3> QED BY <3>2, <3>3 DEF Candidate
  <2>5. candidates' = candidates \/ candidates' = Append(candidates, kept)
    BY <1>4 DEF CloseCycle
  <2> HIDE DEF kept
  <2>6. candidates' \in Seq(Candidate)
    BY <1>1, <2>4, <2>5, AppendProperties DEF SearchTypes
  <2>7. maxHops' = maxHops
    BY <1>4 DEF CloseCycle
  <2> QED BY <1>1, <2>1, <2>6, <2>7 DEF SearchTypes
<1>5. CASE Backtrack
  <2>1. SearchInv' /\ stack' \in Seq(Frame) /\ visited' \subseteq Assets /\ pc' \in Places
    BY <1>5, PopKeeps DEF Backtrack
  <2>2. \/ candidates' = candidates
        \/ \E p \in [DOMAIN candidates -> DOMAIN candidates] :
             candidates' = [i \in DOMAIN candidates |-> candidates[p[i]]]
    BY <1>5 DEF Backtrack
  <2>3. candidates \in Seq(Candidate)
    BY <1>1 DEF SearchTypes
  <2>4. ASSUME NEW p \in [DOMAIN candidates -> DOMAIN candidates],
               candidates' = [i \in DOMAIN candidates |-> candidates[p[i]]]
        PROVE  candidates' \in Seq(Candidate)
    <3>1. Len(candidates) \in Nat /\ DOMAIN candidates = 1 .. Len(candidates)
      BY <2>3
    <3>2. \A i \in 1 .. Len(candidates) : candidates[p[i]] \in Candidate
      BY <2>3, <3>1
    <3> QED BY <2>4, <3>1, <3>2
  <2>5. candidates' \in Seq(Candidate)
    BY <2>2, <2>3, <2>4
  <2>6. maxHops' = maxHops
    BY <1>5 DEF Backtrack
  <2> QED BY <1>1, <2>1, <2>5, <2>6 DEF SearchTypes
<1>6. ASSUME NEW i \in DOMAIN edges, Follow(i) PROVE SearchTypes' /\ pc' \in Places /\ SearchInv'
  <2>1. SearchInv' /\ stack' \in Seq(Frame) /\ visited' \subseteq Assets
    BY <1>6, FollowKeeps
  <2>2. maxHops' = maxHops /\ candidates' = candidates /\ pc' = pc
    BY <1>6 DEF Follow
  <2> QED BY <1>1, <2>1, <2>2 DEF SearchTypes
<1> QED BY <1>3, <1>4, <1>5, <1>6 DEF SearchStep

-----------------------------------------------------------------------------

LEMMA ReturnInv == IInv /\ Return => IInv'
<1> SUFFICES ASSUME IInv, Return PROVE IInv'
  OBVIOUS
<1>1. GraphTypes
  BY TypeParts DEF IInv
<1>2. pc' = "idle" /\ UNCHANGED graph
  BY DEF Return
<1>3. DetectTypes' /\ SearchTypes'
  BY DEF Return, DetectTypes, SearchTypes, Blank
<1>4. PredEdges'
  BY DEF Return, PredEdges, Blank
<1>5. DetectInv'
  BY <1>4 DEF Return, DetectInv, ReportedIsCycle, Blank
<1>6. GraphTypes' /\ pc' \in Places /\ SearchInv'
  BY <1>1, <1>2 DEF GraphTypes, graph, Places, SearchInv
<1> QED BY <1>3, <1>5, <1>6, TypeParts DEF IInv

LEMMA InitInv == Init => IInv
<1> SUFFICES ASSUME Init PROVE IInv
  OBVIOUS
<1>1. GraphTypes /\ DetectTypes /\ SearchTypes /\ pc \in Places
  BY DEF Init, GraphTypes, DetectTypes, SearchTypes, Blank, Places
<1>2. DetectInv /\ SearchInv
  BY DEF Init, DetectInv, SearchInv, PredEdges, ReportedIsCycle, Blank
<1> QED BY <1>1, <1>2, TypeParts DEF IInv

LEMMA StutterInv == IInv /\ UNCHANGED vars => IInv'
<1> SUFFICES ASSUME IInv, UNCHANGED vars PROVE IInv'
  OBVIOUS
<1>1. GraphTypes' /\ DetectTypes' /\ SearchTypes' /\ pc' \in Places
  BY TypeParts DEF IInv, vars, GraphTypes, DetectTypes, SearchTypes
<1>2. DetectInv' /\ SearchInv'
  BY DEF IInv, vars, DetectInv, SearchInv, PredEdges, ReportedIsCycle
<1> QED BY <1>1, <1>2, TypeParts DEF IInv

LEMMA NextInv == IInv /\ Next => IInv'
<1> SUFFICES ASSUME IInv, Next PROVE IInv'
  OBVIOUS
<1>1. CASE GraphStep
  BY <1>1, GraphStepInv
<1>2. CASE DetectStep
  BY <1>2, DetectStepType, DetectStepInv DEF IInv
<1>3. CASE SearchStep
  BY <1>3, SearchStepDetect, SearchStepInv DEF IInv
<1>4. CASE Return
  BY <1>4, ReturnInv
<1> QED BY <1>1, <1>2, <1>3, <1>4, Steps

LEMMA Invariance == Spec => []IInv
<1>1. IInv /\ [Next]_vars => IInv'
  BY NextInv, StutterInv
<1> QED BY <1>1, InitInv, PTL DEF Spec

-----------------------------------------------------------------------------
(* Induction and sums *)

\* Every set of naturals that is not empty has a least element: what stands in for
\* induction below, as the least counterexample.
LEMMA LeastNat == ASSUME NEW T \in SUBSET Nat, T # {}
                  PROVE  \E n \in T : \A m \in T : n <= m
<1> DEFINE R == OpToRel(<, Nat)
<1>1. IsWellFoundedOn(R, Nat)
  BY NatLessThanWellFounded
<1>2. \A x, y \in Nat : x < y => <<x, y>> \in R
  BY DEF OpToRel
<1> HIDE DEF R
<1>3. PICK n \in T : \A y \in T : ~ (<<y, n>> \in R)
  BY <1>1, WFMin
<1>4. ASSUME NEW m \in T PROVE n <= m
  <2>1. m \in Nat /\ n \in Nat /\ ~ (<<m, n>> \in R)
    BY <1>3
  <2>2. ~ (m < n)
    BY <1>2, <2>1
  <2> QED BY <2>1, <2>2
<1> QED BY <1>4

\* A set that holds 0 and with each number before N the next holds all up to N.
LEMMA UpTo == ASSUME NEW N \in Nat, NEW S, 0 \in S,
                     \A n \in 0 .. N - 1 : n \in S => n + 1 \in S
              PROVE  \A n \in 0 .. N : n \in S
<1> DEFINE T == {n \in 0 .. N : n \notin S}
<1> SUFFICES ASSUME T # {} PROVE FALSE
  OBVIOUS
<1>1. PICK n \in T : \A m \in T : n <= m
  <2>1. T \in SUBSET Nat
    OBVIOUS
  <2> HIDE DEF T
  <2> QED BY <2>1, LeastNat
<1>2. n \in 0 .. N /\ n \notin S /\ n # 0
  BY <1>1
<1>3. n - 1 \in 0 .. N - 1 /\ ~ (n <= n - 1)
  BY <1>2
<1>4. n - 1 \in S
  BY <1>1, <1>3
<1> QED BY <1>2, <1>3, <1>4

\* The sums of the first numbers of w.
IsPrefixSum(S, w, N) ==
  /\ S \in [0 .. N -> Int] /\ S[0] = 0
  /\ \A n \in 1 .. N : S[n] = S[n - 1] + w[n]

LEMMA PrefixSumExists == ASSUME NEW N \in Nat, NEW w \in [1 .. N -> Int]
                         PROVE  \E S : IsPrefixSum(S, w, N)
<1> DEFINE D == {n \in 0 .. N : \E S : IsPrefixSum(S, w, n)}
<1>1. 0 \in D
  <2> DEFINE S == [i \in 0 .. 0 |-> 0]
  <2>1. IsPrefixSum(S, w, 0)
    BY DEF IsPrefixSum
  <2> QED BY <2>1
<1>2. ASSUME NEW n \in 0 .. N - 1, n \in D PROVE n + 1 \in D
  <2>1. PICK S : IsPrefixSum(S, w, n)
    BY <1>2
  <2> DEFINE G == [i \in 0 .. n + 1 |-> IF i = n + 1 THEN S[n] + w[n + 1] ELSE S[i]]
  <2>2. n \in Nat /\ n + 1 \in 1 .. N /\ w[n + 1] \in Int /\ S[n] \in Int
    BY <2>1 DEF IsPrefixSum
  <2>3. G \in [0 .. n + 1 -> Int] /\ G[0] = 0
    BY <2>1, <2>2 DEF IsPrefixSum
  <2>4. ASSUME NEW i \in 1 .. n + 1 PROVE G[i] = G[i - 1] + w[i]
    <3>1. CASE i = n + 1
      BY <2>2, <3>1
    <3>2. CASE i # n + 1
      <4>1. i \in 1 .. n /\ i - 1 \in 0 .. n + 1 /\ i - 1 # n + 1
        BY <2>2, <3>2
      <4> QED BY <2>1, <2>2, <4>1 DEF IsPrefixSum
    <3> QED BY <3>1, <3>2
  <2>5. IsPrefixSum(G, w, n + 1)
    <3> HIDE DEF G
    <3> QED BY <2>3, <2>4 DEF IsPrefixSum
  <2> QED BY <2>2, <2>5
<1>3. \A n \in 0 .. N : n \in D
  <2> HIDE DEF D
  <2> QED BY <1>1, <1>2, UpTo
<1> QED BY <1>3

LEMMA EdgeTypes ==
  ASSUME edges \in Seq(Edge), NEW k \in DOMAIN edges
  PROVE  edges[k].from \in Assets /\ edges[k].to \in Assets /\ edges[k].weight \in Int
<1>1. edges[k] \in Edge
  OBVIOUS
<1> QED BY <1>1, CycleAssumption DEF Edge

\* The weight of a walk is the last of its prefix sums.
LEMMA WeightIsSum ==
  ASSUME NEW N \in Nat, NEW c \in [1 .. N -> DOMAIN edges], edges \in Seq(Edge)
  PROVE  \E S : /\ IsPrefixSum(S, [n \in 1 .. N |-> edges[c[n]].weight], N)
                /\ WeightOf(c) = S[N]
<1> DEFINE w == [n \in 1 .. N |-> edges[c[n]].weight]
<1>1. Len(c) = N
  OBVIOUS
<1>2. w \in [1 .. N -> Int]
  <2>1. \A k \in DOMAIN edges : edges[k].weight \in Int
    BY EdgeTypes
  <2> QED BY <2>1
<1>3. PICK S : IsPrefixSum(S, w, N)
  <2> HIDE DEF w
  <2> QED BY <1>2, PrefixSumExists
<1> DEFINE F(g) == [n \in 0 .. N |-> IF n = 0 THEN 0 ELSE g[n - 1] + edges[c[n]].weight]
           C == CHOOSE g : g = F(g)
<1>4. S = F(S)
  <2>1. \A n \in 1 .. N : w[n] = edges[c[n]].weight
    OBVIOUS
  <2> HIDE DEF w
  <2> QED BY <1>3, <2>1 DEF IsPrefixSum
<1>5. C = F(C)
  <2> HIDE DEF F
  <2> QED BY <1>4
<1>6. WeightOf(c) = C[N]
  BY <1>1 DEF WeightOf
<1>7. IsPrefixSum(C, w, N)
  <2> DEFINE D == {n \in 0 .. N : C[n] = S[n]}
  <2> HIDE DEF C
  <2>1. C[0] = 0 /\ \A n \in 1 .. N : C[n] = C[n - 1] + w[n]
    BY <1>5
  <2>2. 0 \in D
    BY <1>3, <2>1 DEF IsPrefixSum
  <2>3. ASSUME NEW n \in 0 .. N - 1, n \in D PROVE n + 1 \in D
    <3>1. n + 1 \in 1 .. N /\ (n + 1) - 1 = n
      OBVIOUS
    <3>2. C[n + 1] = C[n] + w[n + 1] /\ S[n + 1] = S[n] + w[n + 1]
      BY <1>3, <2>1, <3>1 DEF IsPrefixSum
    <3> QED BY <2>3, <3>1, <3>2
  <2>4. \A n \in 0 .. N : n \in D
    <3> HIDE DEF D
    <3> QED BY <2>2, <2>3, UpTo
  <2>5. C \in [0 .. N -> Int]
    <3>1. C = [n \in 0 .. N |-> C[n]]
      BY <1>5
    <3>2. \A n \in 0 .. N : C[n] \in Int
      BY <1>3, <2>4 DEF IsPrefixSum
    <3> QED BY <3>1, <3>2
  <2> HIDE DEF w
  <2> QED BY <2>1, <2>5 DEF IsPrefixSum
<1> HIDE DEF w
<1> QED BY <1>6, <1>7 DEF w

\* Steps that cost no more than a potential rises, one of them less, sum up to less.
LEMMA StrictSum ==
  ASSUME NEW N \in Nat, NEW w, NEW p, NEW S, IsPrefixSum(S, w, N),
         \A i \in 1 .. N : w[i] \in Int,
         \A i \in 1 .. N + 1 : p[i] \in Int,
         \A i \in 1 .. N : w[i] <= p[i + 1] - p[i],
         NEW m \in 1 .. N, w[m] < p[m + 1] - p[m]
  PROVE  S[N] < p[N + 1] - p[1]
<1> DEFINE D == {n \in 0 .. N : IF n < m THEN S[n] <= p[n + 1] - p[1]
                                         ELSE S[n] < p[n + 1] - p[1]}
<1>1. 0 \in D
  <2>1. S[0] = 0 /\ p[1] \in Int /\ 0 < m
    BY DEF IsPrefixSum
  <2>2. S[0] <= p[0 + 1] - p[1]
    BY <2>1
  <2> QED BY <2>1, <2>2
<1>2. ASSUME NEW n \in 0 .. N - 1, n \in D PROVE n + 1 \in D
  <2> DEFINE k == n + 1
  <2>1. /\ k \in Int /\ n \in Int /\ k \in 1 .. N /\ n = k - 1
        /\ k \in 1 .. N + 1 /\ k + 1 \in 1 .. N + 1 /\ 1 \in 1 .. N + 1
    OBVIOUS
  <2>2. S[k] = S[n] + w[k] /\ S[n] \in Int /\ w[k] \in Int /\ p[k] \in Int /\ p[k + 1] \in Int
        /\ p[1] \in Int
    <3> HIDE DEF k
    <3>1. S[k] = S[k - 1] + w[k] /\ S[k - 1] \in Int
      BY <2>1 DEF IsPrefixSum
    <3>2. w[k] \in Int /\ p[k] \in Int /\ p[k + 1] \in Int /\ p[1] \in Int
      BY <2>1
    <3> QED BY <2>1, <3>1, <3>2
  <2>3. IF n < m THEN S[n] <= p[k] - p[1] ELSE S[n] < p[k] - p[1]
    BY <1>2
  <2>4. w[k] <= p[k + 1] - p[k] /\ (k = m => w[k] < p[k + 1] - p[k])
    <3> HIDE DEF k
    <3> QED BY <2>1
  <2> HIDE DEF k
  <2>5. IF k < m THEN S[k] <= p[k + 1] - p[1] ELSE S[k] < p[k + 1] - p[1]
    <3>1. CASE k < m
      BY <2>1, <2>2, <2>3, <2>4, <3>1
    <3>2. CASE k = m
      BY <2>1, <2>2, <2>3, <2>4, <3>2
    <3>3. CASE k > m
      BY <2>1, <2>2, <2>3, <2>4, <3>3
    <3> QED BY <2>1, <3>1, <3>2, <3>3
  <2> QED BY <2>1, <2>5 DEF k
<1>3. \A n \in 0 .. N : n \in D
  <2> HIDE DEF D
  <2> QED BY <1>1, <1>2, UpTo
<1> QED BY <1>3

\* Steps that cost no less than a potential rises but for t sum up to no less but for
\* t each.
LEMMA SlackSum ==
  ASSUME NEW N \in Nat, NEW w, NEW p, NEW S, IsPrefixSum(S, w, N),
         NEW t \in Int,
         \A i \in 1 .. N : w[i] \in Int,
         \A i \in 1 .. N + 1 : p[i] \in Int,
         \A i \in 1 .. N : w[i] >= p[i + 1] - p[i] - t
  PROVE  S[N] >= p[N + 1] - p[1] - t * N
<1> DEFINE D == {n \in 0 .. N : S[n] >= p[n + 1] - p[1] - t * n}
<1>1. 0 \in D
  BY DEF IsPrefixSum
<1>2. ASSUME NEW n \in 0 .. N - 1, n \in D PROVE n + 1 \in D
  <2> DEFINE k == n + 1
  <2>1. /\ k \in Int /\ n \in Int /\ k \in 1 .. N /\ n = k - 1
        /\ k \in 1 .. N + 1 /\ k + 1 \in 1 .. N + 1 /\ 1 \in 1 .. N + 1
    OBVIOUS
  <2>2. S[k] = S[n] + w[k] /\ S[n] \in Int /\ w[k] \in Int /\ p[k] \in Int /\ p[k + 1] \in Int
        /\ p[1] \in Int
    <3> HIDE DEF k
    <3> QED BY <2>1 DEF IsPrefixSum
  <2>3. S[n] >= p[k] - p[1] - t * n
    BY <1>2
  <2>4. w[k] >= p[k + 1] - p[k] - t
    <3> HIDE DEF k
    <3> QED BY <2>1
  <2>5. t * k = t * n + t /\ t * n \in Int
    OBVIOUS
  <2> HIDE DEF k
  <2>6. S[k] >= p[k + 1] - p[1] - t * k
    BY <2>2, <2>3, <2>4, <2>5
  <2> QED BY <2>1, <2>6 DEF k
<1>3. \A n \in 0 .. N : n \in D
  <2> HIDE DEF D
  <2> QED BY <1>1, <1>2, UpTo
<1> QED BY <1>3

-----------------------------------------------------------------------------
(* The potential of the tables *)

\* No edge is from an asset to itself.
NoLoops == \A i \in DOMAIN edges : edges[i].from # edges[i].to

\* Edge k leads to v from its predecessor, with slack to spare.
Leads(k, v, slack) ==
  /\ edges[k].from = pred[v] /\ edges[k].to = v
  /\ dist[v] # Infinity /\ dist[pred[v]] # Infinity
  /\ dist[pred[v]] + edges[k].weight <= dist[v] - slack

\* Distances only fall, so the edge that set a predecessor still justifies it.
Potential == \A v \in Assets : pred[v] # Null => \E k \in DOMAIN edges : Leads(k, v, 0)

\* Predecessors map the assets of C onto themselves.
Loop(C) ==
  /\ C # {} /\ \A v \in C : pred[v] \in C
  /\ \A u \in C : \E v \in C : pred[v] = u

\* And where they form a loop, one edge of it has slack: the relaxation that closed the
\* loop lowered an asset under its successor.
StrictLoops ==
  \A C \in SUBSET Assets : Loop(C) => \E v \in C, k \in DOMAIN edges : Leads(k, v, 1)

PotentialInv == NoLoops /\ Potential /\ StrictLoops

\* Only a change of the graph, the start of a detection, a relaxation and a return
\* touch the tables.
LEMMA TablesKept ==
  Next => GraphStep \/ StartDetect \/ RelaxEdge \/ Return \/ UNCHANGED <<edges, dist, pred>>
<1> SUFFICES ASSUME Next PROVE GraphStep \/ StartDetect \/ RelaxEdge \/ Return
                               \/ UNCHANGED <<edges, dist, pred>>
  OBVIOUS
<1>1. CASE SearchStep
  BY <1>1, SearchStepFrame DEF graph, detection, tables
<1>2. CASE DetectStep
  BY <1>2 DEF DetectStep, EndRelax, CheckEdge, EndCheck, Seek, SeekInVain, SeekSucceeds, Collect,
              Report, graph, detection, tables
<1> QED BY <1>1, <1>2, Steps

\* Tables without a predecessor have nothing to justify.
LEMMA BlankTablesNext ==
  ASSUME pred' = Blank(Null)
  PROVE  Potential' /\ StrictLoops'
<1>1. \A v \in Assets : pred'[v] = Null
  BY DEF Blank
<1>2. Potential'
  BY <1>1 DEF Potential
<1>3. \A C \in SUBSET Assets : ~ Loop(C)'
  BY <1>1, CycleAssumption DEF Loop
<1> QED BY <1>2, <1>3 DEF StrictLoops

\* What is left without an edge are edges of the graph.
LEMMA WithoutEdges ==
  ASSUME edges \in Seq(Edge), NEW i \in DOMAIN edges, NEW k \in DOMAIN Without(i)
  PROVE  \E j \in DOMAIN edges : Without(i)[k] = edges[j]
<1>1. Len(edges) \in Nat /\ DOMAIN edges = 1 .. Len(edges) /\ i \in 1 .. Len(edges)
  OBVIOUS
<1> DEFINE s == SubSeq(edges, 1, i - 1)
           t == SubSeq(edges, i + 1, Len(edges))
<1>2. /\ s \in Seq(Edge) /\ Len(s) = i - 1 /\ \A j \in 1 .. i - 1 : s[j] = edges[j]
      /\ t \in Seq(Edge) /\ Len(t) = Len(edges) - i
      /\ \A j \in 1 .. Len(edges) - i : t[j] = edges[i + j]
  BY <1>1
<1>3. Without(i) = s \o t
  BY DEF Without
<1> HIDE DEF s, t
<1>4. /\ Len(Without(i)) = (i - 1) + (Len(edges) - i)
      /\ \A j \in 1 .. (i - 1) + (Len(edges) - i) :
           Without(i)[j] = IF j <= i - 1 THEN s[j] ELSE t[j - (i - 1)]
  <2>1. /\ Len(s \o t) = Len(s) + Len(t)
        /\ \A j \in 1 .. Len(s) + Len(t) :
             (s \o t)[j] = IF j <= Len(s) THEN s[j] ELSE t[j - Len(s)]
    BY <1>2, ConcatProperties, Zenon
  <2>2. Len(s) = i - 1 /\ Len(t) = Len(edges) - i
    BY <1>2
  <2> QED BY <1>3, <2>1, <2>2, Zenon
<1>5. Without(i) \in Seq(Edge)
  BY <1>2, <1>3, ConcatProperties
<1>6. k \in 1 .. (i - 1) + (Len(edges) - i)
  BY <1>4, <1>5
<1>7. CASE k <= i - 1
  <2>1. k \in 1 .. i - 1 /\ k \in 1 .. Len(edges)
    BY <1>1, <1>6, <1>7
  <2> QED BY <1>1, <1>2, <1>4, <1>6, <1>7, <2>1
<1>8. CASE k > i - 1
  <2>1. k - (i - 1) \in 1 .. Len(edges) - i /\ i + (k - (i - 1)) \in 1 .. Len(edges)
    BY <1>1, <1>6, <1>8
  <2>2. Without(i)[k] = t[k - (i - 1)]
    BY <1>1, <1>4, <1>6, <1>8
  <2> QED BY <1>1, <1>2, <2>1, <2>2
<1> QED BY <1>1, <1>6, <1>7, <1>8

LEMMA GraphStepNoLoops == IInv /\ NoLoops /\ GraphStep => NoLoops'
<1> SUFFICES ASSUME IInv, NoLoops, GraphStep PROVE NoLoops'
  OBVIOUS
<1>1. edges \in Seq(Edge)
  BY DEF IInv, TypeOK
<1>2. ASSUME NEW i \in DOMAIN edges, NEW k \in DOMAIN Without(i)
      PROVE  Without(i)[k].from # Without(i)[k].to
  BY <1>1, <1>2, WithoutEdges DEF NoLoops
<1>3. ASSUME NEW a \in Assets, AddNode(a) PROVE NoLoops'
  BY <1>3 DEF AddNode, NoLoops
<1>4. ASSUME NEW l \in Links, NEW w \in Weights,
             AddEdge([from |-> l[1], to |-> l[2], venue |-> l[3], weight |-> w])
      PROVE  NoLoops'
  <2> DEFINE e == [from |-> l[1], to |-> l[2], venue |-> l[3], weight |-> w]
  <2>1. e \in Edge /\ e.from # e.to
    BY CycleAssumption DEF Edge
  <2>2. AddEdge(e)
    BY <1>4
  <2> HIDE DEF e
  <2>3. edges' = Append(edges, e) \/ \E i \in DOMAIN edges : edges' = Append(Without(i), e)
    BY <2>2 DEF AddEdge
  <2>4. ASSUME NEW s \in Seq(Edge), \A k \in DOMAIN s : s[k].from # s[k].to,
               edges' = Append(s, e)
        PROVE  NoLoops'
    BY <2>1, <2>4 DEF NoLoops
  <2>5. \A i \in DOMAIN edges : Without(i) \in Seq(Edge)
    BY <1>1, WithoutType
  <2> QED BY <1>1, <1>2, <2>3, <2>4, <2>5 DEF NoLoops
<1>5. ASSUME NEW i \in DOMAIN edges, RemoveEdge(i) PROVE NoLoops'
  BY <1>2, <1>5 DEF RemoveEdge, NoLoops
<1>6. CASE Clear
  BY <1>6 DEF Clear, NoLoops
<1> QED BY <1>3, <1>4, <1>5, <1>6 DEF GraphStep

\* What a relaxation does.
LEMMA RelaxEffect ==
  ASSUME IInv, NoLoops, RelaxEdge
  PROVE  \/ UNCHANGED <<edges, dist, pred>>
         \/ \E k \in DOMAIN edges, u, v \in Assets, d \in Int :
              /\ edges' = edges /\ edges[k].from = u /\ edges[k].to = v /\ u # v
              /\ dist[u] \in Int /\ d = dist[u] + edges[k].weight
              /\ dist[v] = Infinity \/ d < dist[v]
              /\ dist' = [dist EXCEPT ![v] = d] /\ pred' = [pred EXCEPT ![v] = u]
<1>1. edges \in Seq(Edge) /\ at \in DOMAIN edges /\ dist \in [Assets -> Int \cup {Infinity}]
  BY DEF IInv, TypeOK, DetectInv, RelaxEdge
<1> DEFINE e == edges[at]
<1>2. e.from \in Assets /\ e.to \in Assets /\ e.weight \in Int /\ e.from # e.to
  BY <1>1, EdgeTypes DEF NoLoops
<1>3. edges' = edges
  BY DEF RelaxEdge, graph
<1>4. CASE Shortens(e, 0)
  <2>1. dist[e.from] \in Int /\ dist[e.from] + e.weight \in Int
    BY <1>1, <1>2, <1>4 DEF Shortens
  <2>2. dist[e.to] = Infinity \/ dist[e.from] + e.weight < dist[e.to]
    <3>1. CASE dist[e.to] # Infinity
      <4>1. dist[e.to] \in Int
        BY <1>1, <1>2, <3>1
      <4>2. dist[e.from] + e.weight < dist[e.to] - 0
        BY <1>4, <3>1 DEF Shortens
      <4> QED BY <2>1, <4>1, <4>2
    <3> QED BY <3>1
  <2>3. dist' = [dist EXCEPT ![e.to] = dist[e.from] + e.weight]
        /\ pred' = [pred EXCEPT ![e.to] = e.from]
    BY <1>4 DEF RelaxEdge
  <2> HIDE DEF e
  <2> QED BY <1>1, <1>2, <1>3, <2>1, <2>2, <2>3 DEF e
<1>5. CASE ~ Shortens(e, 0)
  BY <1>3, <1>5 DEF RelaxEdge, tables
<1> QED BY <1>4, <1>5

LEMMA RelaxPotential == IInv /\ PotentialInv /\ RelaxEdge => PotentialInv'
<1> SUFFICES ASSUME IInv, PotentialInv, RelaxEdge PROVE PotentialInv'
  OBVIOUS
<1>1. /\ edges \in Seq(Edge) /\ dist \in [Assets -> Int \cup {Infinity}]
      /\ pred \in [Assets -> Assets \cup {Null}]
      /\ NoLoops /\ Potential /\ StrictLoops
  BY DEF IInv, TypeOK, PotentialInv
<1>2. CASE UNCHANGED <<edges, dist, pred>>
  BY <1>1, <1>2 DEF PotentialInv, NoLoops, Potential, StrictLoops, Leads, Loop
<1>3. ASSUME NEW k \in DOMAIN edges, NEW u \in Assets, NEW v \in Assets, NEW d \in Int,
             edges' = edges, edges[k].from = u, edges[k].to = v, u # v,
             dist[u] \in Int, d = dist[u] + edges[k].weight,
             dist[v] = Infinity \/ d < dist[v],
             dist' = [dist EXCEPT ![v] = d], pred' = [pred EXCEPT ![v] = u]
      PROVE  PotentialInv'
  <2>1. /\ dist'[v] = d /\ pred'[v] = u /\ Infinity \notin Int
        /\ \A x \in Assets : x # v => dist'[x] = dist[x] /\ pred'[x] = pred[x]
    BY <1>1, <1>3, CycleAssumption
  <2>2. Leads(k, v, 0)'
    BY <1>3, <2>1 DEF Leads
  \* An asset whose predecessor is the one that falls gains slack.
  <2>3. ASSUME NEW x \in Assets, x # v, pred[x] # Null
        PROVE  \E j \in DOMAIN edges : Leads(j, x, 0)' /\ (pred[x] = v => Leads(j, x, 1)')
    <3>1. PICK j \in DOMAIN edges : Leads(j, x, 0)
      BY <1>1, <2>3 DEF Potential
    <3>2. pred[x] \in Assets /\ edges[j].weight \in Int
      BY <1>1, <2>3, EdgeTypes
    <3>3. dist[x] \in Int /\ dist[pred[x]] \in Int /\ dist[pred[x]] + edges[j].weight <= dist[x]
      BY <1>1, <2>3, <3>1, <3>2 DEF Leads
    <3>4. CASE pred[x] = v
      <4>1. d < dist[v] /\ dist[v] \in Int
        BY <1>3, <3>3, <3>4, CycleAssumption
      <4>2. d + edges[j].weight <= dist[x] - 1
        BY <3>2, <3>3, <3>4, <4>1
      <4>3. edges'[j].from = pred'[x] /\ edges'[j].to = x
        BY <1>3, <2>1, <2>3, <3>1 DEF Leads
      <4>4. dist'[x] = dist[x] /\ dist'[pred'[x]] = d /\ dist'[x] # Infinity
        BY <2>1, <2>3, <3>3, <3>4
      <4>5. d + edges[j].weight <= dist[x] - 0
        BY <3>2, <3>3, <4>2
      <4>6. Leads(j, x, 0)' /\ Leads(j, x, 1)'
        BY <1>3, <2>1, <4>2, <4>3, <4>4, <4>5 DEF Leads
      <4> QED BY <4>6
    <3>5. CASE pred[x] # v
      <4>1. Leads(j, x, 0)'
        BY <1>3, <2>1, <2>3, <3>1, <3>2, <3>5 DEF Leads
      <4> QED BY <3>5, <4>1
    <3> QED BY <3>4, <3>5
  <2>4. Potential'
    <3> SUFFICES ASSUME NEW x \in Assets, pred'[x] # Null
                 PROVE  \E j \in DOMAIN edges' : Leads(j, x, 0)'
      BY DEF Potential
    <3>1. CASE x = v
      BY <1>3, <2>2, <3>1
    <3>2. CASE x # v
      <4>1. \E j \in DOMAIN edges : Leads(j, x, 0)'
        BY <2>1, <2>3, <3>2
      <4> QED BY <1>3, <4>1
    <3> QED BY <3>1, <3>2
  <2>5. StrictLoops'
    <3> SUFFICES ASSUME NEW C \in SUBSET Assets, Loop(C)'
                 PROVE  \E x \in C, j \in DOMAIN edges : Leads(j, x, 1)'
      BY <1>3 DEF StrictLoops
    <3>1. CASE v \in C
      <4>1. PICK x \in C : pred'[x] = v
        BY <3>1 DEF Loop
      <4>2. x \in Assets /\ x # v /\ pred[x] = v /\ pred[x] # Null
        BY <1>3, <2>1, <4>1, CycleAssumption
      <4> QED BY <2>3, <4>2
    <3>2. CASE v \notin C
      <4>1. \A x \in C : x \in Assets /\ x # v /\ pred'[x] = pred[x] /\ dist'[x] = dist[x]
        BY <2>1, <3>2
      <4>2. Loop(C)
        BY <4>1 DEF Loop
      <4>3. PICK x \in C, j \in DOMAIN edges : Leads(j, x, 1)
        BY <1>1, <4>2 DEF StrictLoops
      <4>4. pred[x] \in C
        BY <4>2 DEF Loop
      <4>5. Leads(j, x, 1)'
        BY <1>3, <4>1, <4>3, <4>4 DEF Leads
      <4> QED BY <4>5
    <3> QED BY <3>1, <3>2
  <2>6. NoLoops'
    BY <1>1, <1>3 DEF NoLoops
  <2> QED BY <2>4, <2>5, <2>6 DEF PotentialInv
<1> HIDE DEF PotentialInv
<1> QED BY <1>1, <1>2, <1>3, RelaxEffect

LEMMA PotentialStep == IInv /\ PotentialInv /\ [Next]_vars => PotentialInv'
<1> SUFFICES ASSUME IInv, PotentialInv, [Next]_vars PROVE PotentialInv'
  OBVIOUS
<1>1. CASE UNCHANGED <<edges, dist, pred>>
  BY <1>1 DEF PotentialInv, NoLoops, Potential, StrictLoops, Leads, Loop
<1>2. CASE GraphStep
  <2>1. pred' = Blank(Null)
    BY <1>2 DEF IInv, DetectInv, GraphStep, AddNode, AddEdge, RemoveEdge, Clear, detection, tables
  <2> QED BY <1>2, <2>1, BlankTablesNext, GraphStepNoLoops DEF PotentialInv
<1>3. CASE StartDetect
  <2>1. pred' = Blank(Null) /\ edges' = edges
    BY <1>3 DEF IInv, DetectInv, StartDetect, graph
  <2> QED BY <2>1, BlankTablesNext DEF PotentialInv, NoLoops
<1>4. CASE RelaxEdge
  BY <1>4, RelaxPotential
<1>5. CASE Return
  <2>1. pred' = Blank(Null) /\ edges' = edges
    BY <1>5 DEF Return, graph
  <2> QED BY <2>1, BlankTablesNext DEF PotentialInv, NoLoops
<1>6. CASE UNCHANGED vars
  BY <1>1, <1>6 DEF vars
<1> QED BY <1>1, <1>2, <1>3, <1>4, <1>5, <1>6, TablesKept

-----------------------------------------------------------------------------
(* The reported cycle *)

Distinct(path) == \A i, j \in 1 .. Len(path) : path[i] = path[j] => i = j
Follows(path) == \A i \in 1 .. Len(path) - 1 : path[i + 1] = pred[path[i]]
ClosedLoop(path) ==
  /\ path \in Seq(Assets) /\ Len(path) >= 1
  /\ Distinct(path) /\ Follows(path) /\ pred[path[Len(path)]] = path[1]

\* The trace back goes along a path that repeats nothing; once it closes, the cycle it
\* collects is the beginning of the loop that the path ended in.
TraceInv ==
  /\ pc = "seek" =>
       \E path \in Seq(Assets) :
         /\ Distinct(path) /\ Follows(path)
         /\ seen = {path[i] : i \in 1 .. Len(path)}
         /\ Len(path) >= 1 => curr = pred[path[Len(path)]]
  /\ pc = "collect" =>
       \E loop \in Seq(Assets) :
         /\ ClosedLoop(loop)
         /\ 1 <= Len(cycle) /\ Len(cycle) <= Len(loop)
         /\ \A i \in 1 .. Len(cycle) : cycle[i] = loop[i]
  /\ ReportedGains

\* The turned loop, from its last asset back to its first and on to its last.
Turned(r, path) ==
  /\ Len(r) = Len(path) + 1
  /\ \A i \in 1 .. Len(path) + 1 : r[i] \in Assets
  /\ r[Len(path) + 1] = r[1]
  /\ \A i \in 1 .. Len(path) : r[i] = pred[r[i + 1]]
  /\ \A i, j \in 1 .. Len(path) : r[i] = r[j] => i = j
  /\ {r[i + 1] : i \in 1 .. Len(path)} = {path[i] : i \in 1 .. Len(path)}

LEMMA TurnedLoop ==
  ASSUME NEW path, ClosedLoop(path), NEW r, r = Reverse(Append(path, path[1]))
  PROVE  Turned(r, path)
<1> DEFINE n == Len(path)
           d == Append(path, path[1])
<1>1. /\ n \in Nat /\ n >= 1 /\ \A i \in 1 .. n : path[i] \in Assets
      /\ Distinct(path) /\ Follows(path) /\ pred[path[n]] = path[1]
  BY DEF ClosedLoop
<1>2. /\ Len(d) = n + 1 /\ d[n + 1] = path[1]
      /\ \A i \in 1 .. n : d[i] = path[i]
  BY <1>1 DEF ClosedLoop
<1>3. \A i \in 1 .. n : d[i + 1] = pred[d[i]]
  <2> SUFFICES ASSUME NEW i \in 1 .. n PROVE d[i + 1] = pred[d[i]]
    OBVIOUS
  <2>1. CASE i = n
    BY <1>1, <1>2, <2>1
  <2>2. CASE i # n
    <3>1. i \in 1 .. Len(path) - 1 /\ i + 1 \in 1 .. n
      BY <1>1, <2>2
    <3> QED BY <1>1, <1>2, <3>1 DEF Follows
  <2> QED BY <2>1, <2>2
<1> HIDE DEF d
<1>4. r = [j \in 1 .. n + 1 |-> d[n + 1 - j + 1]]
  BY <1>1, <1>2 DEF Reverse, d
<1> HIDE DEF n
<1>5. Len(r) = n + 1 /\ \A j \in 1 .. n + 1 : r[j] = d[n + 2 - j]
  BY <1>1, <1>4
<1>6. \A i \in 1 .. n + 1 : d[i] \in Assets
  BY <1>1, <1>2
<1>7. \A i \in 1 .. n + 1 : r[i] \in Assets
  <2> SUFFICES ASSUME NEW i \in 1 .. n + 1 PROVE r[i] \in Assets
    OBVIOUS
  <2>1. n + 2 - i \in 1 .. n + 1
    BY <1>1
  <2> QED BY <1>5, <1>6, <2>1
<1>8. r[n + 1] = r[1]
  BY <1>1, <1>2, <1>5
<1>9. ASSUME NEW i \in 1 .. n PROVE r[i] = pred[r[i + 1]]
  <2>1. n + 1 - i \in 1 .. n /\ r[i + 1] = d[n + 1 - i] /\ r[i] = d[(n + 1 - i) + 1]
    BY <1>1, <1>5
  <2> QED BY <1>3, <2>1
<1>10. ASSUME NEW i \in 1 .. n, NEW j \in 1 .. n, r[i] = r[j] PROVE i = j
  <2> DEFINE q(x) == IF x = 1 THEN 1 ELSE n + 2 - x
  <2>1. ASSUME NEW x \in 1 .. n PROVE q(x) \in 1 .. n /\ r[x] = path[q(x)]
    BY <1>1, <1>2, <1>5
  <2>2. path[q(i)] = path[q(j)] /\ q(i) \in 1 .. n /\ q(j) \in 1 .. n
    BY <1>10, <2>1
  <2>3. q(i) = q(j)
    <3> HIDE DEF q
    <3> QED BY <1>1, <2>2 DEF Distinct, n
  <2> QED BY <1>1, <2>3
<1>11. \A i \in 1 .. n : n + 1 - i \in 1 .. n /\ r[(n + 1 - i) + 1] = path[i]
                         /\ r[i + 1] = path[n + 1 - i]
  BY <1>1, <1>2, <1>5
<1>12. {r[i + 1] : i \in 1 .. n} = {path[i] : i \in 1 .. n}
  <2>1. ASSUME NEW i \in 1 .. n PROVE r[i + 1] \in {path[j] : j \in 1 .. n}
    BY <1>11
  <2>2. ASSUME NEW i \in 1 .. n PROVE path[i] \in {r[j + 1] : j \in 1 .. n}
    BY <1>11
  <2> QED BY <2>1, <2>2
<1> QED BY <1>5, <1>7, <1>8, <1>9, <1>10, <1>12 DEF n, Turned

\* Some simple cycle of edges goes along r and gains.
Gains(r) ==
  \E c \in SimpleCycles(Cardinality(Assets)) :
    /\ Len(c) = Len(r) - 1
    /\ \A i \in DOMAIN c : edges[c[i]].from = r[i]
    /\ WeightOf(c) < 0

\* A loop of predecessors is a simple cycle of edges that gains.
LEMMA LoopGains ==
  ASSUME IInv, PotentialInv, NEW path, ClosedLoop(path), NEW r,
         r = Reverse(Append(path, path[1]))
  PROVE  Gains(r)
<1>0. Turned(r, path)
  BY TurnedLoop
<1> DEFINE n == Len(path)
           C == {path[i] : i \in 1 .. n}
<1>1. /\ n \in Nat /\ n >= 1 /\ \A i \in 1 .. n : path[i] \in Assets
      /\ edges \in Seq(Edge) /\ dist \in [Assets -> Int \cup {Infinity}]
      /\ NoLoops /\ Potential /\ StrictLoops
  BY DEF ClosedLoop, IInv, TypeOK, PotentialInv
<1>2. /\ Len(r) = n + 1
      /\ \A i \in 1 .. n + 1 : r[i] \in Assets
      /\ r[n + 1] = r[1]
      /\ \A i \in 1 .. n : r[i] = pred[r[i + 1]]
      /\ \A i, j \in 1 .. n : r[i] = r[j] => i = j
      /\ {r[i + 1] : i \in 1 .. n} = C
  BY <1>0 DEF Turned
<1> HIDE DEF n, C
<1>3. \A i \in 1 .. n : i + 1 \in 1 .. n + 1 /\ i \in 1 .. n + 1
  BY <1>1
<1>4. Loop(C) /\ C \in SUBSET Assets
  <2>1. C \in SUBSET Assets /\ C # {}
    BY <1>1 DEF C
  <2>2. \A i \in 1 .. n : r[i] \in C
    <3> SUFFICES ASSUME NEW i \in 1 .. n PROVE r[i] \in C
      OBVIOUS
    <3>1. CASE i = 1
      BY <1>1, <1>2, <3>1
    <3>2. CASE i # 1
      <4>1. i - 1 \in 1 .. n /\ i = (i - 1) + 1
        BY <1>1, <3>2
      <4> QED BY <1>2, <4>1
    <3> QED BY <3>1, <3>2
  <2>3. ASSUME NEW v \in C PROVE pred[v] \in C
    <3>1. PICK i \in 1 .. n : v = r[i + 1]
      BY <1>2
    <3> QED BY <1>2, <2>2, <3>1
  <2>4. ASSUME NEW u \in C PROVE \E v \in C : pred[v] = u
    <3>1. PICK i \in 1 .. n : u = r[i + 1]
      BY <1>2
    <3>2. CASE i = n
      <4>1. u = r[1] /\ 1 \in 1 .. n /\ r[1 + 1] \in C
        BY <1>1, <1>2, <3>1, <3>2
      <4> QED BY <1>2, <4>1
    <3>3. CASE i # n
      <4>1. i + 1 \in 1 .. n
        BY <1>1, <3>3
      <4>2. r[(i + 1) + 1] \in C /\ pred[r[(i + 1) + 1]] = u
        BY <1>2, <3>1, <4>1
      <4> QED BY <4>2
    <3> QED BY <3>2, <3>3
  <2> QED BY <2>1, <2>3, <2>4 DEF Loop
<1>5. PICK v \in C, k0 \in DOMAIN edges : Leads(k0, v, 1)
  BY <1>1, <1>4 DEF StrictLoops
<1>6. PICK m \in 1 .. n : r[m + 1] = v
  BY <1>2
<1> DEFINE c == [i \in 1 .. n |-> IF i = m THEN k0
                                  ELSE CHOOSE k \in DOMAIN edges : Leads(k, r[i + 1], 0)]
<1>7. ASSUME NEW i \in 1 .. n
      PROVE  c[i] \in DOMAIN edges /\ Leads(c[i], r[i + 1], IF i = m THEN 1 ELSE 0)
  <2>1. CASE i = m
    BY <1>5, <1>6, <2>1
  <2>2. CASE i # m
    <3>1. r[i + 1] \in Assets /\ pred[r[i + 1]] = r[i] /\ r[i] \in Assets
      BY <1>2, <1>3
    <3>2. \E k \in DOMAIN edges : Leads(k, r[i + 1], 0)
      BY <1>1, <3>1, CycleAssumption DEF Potential
    <3>3. c[i] = CHOOSE k \in DOMAIN edges : Leads(k, r[i + 1], 0)
      BY <2>2
    <3> HIDE DEF c
    <3>4. c[i] \in DOMAIN edges /\ Leads(c[i], r[i + 1], 0)
      BY <3>2, <3>3
    <3> QED BY <2>2, <3>4
  <2> QED BY <2>1, <2>2
<1>8. c \in [1 .. n -> DOMAIN edges] /\ Len(c) = n /\ DOMAIN c = 1 .. n
  <2>1. c = [i \in 1 .. n |-> c[i]]
    OBVIOUS
  <2> HIDE DEF c
  <2> QED BY <1>1, <1>7, <2>1
<1> HIDE DEF c
<1>9. ASSUME NEW i \in 1 .. n
      PROVE  edges[c[i]].from = r[i] /\ edges[c[i]].to = r[i + 1]
  BY <1>2, <1>7 DEF Leads
<1> DEFINE w == [i \in 1 .. n |-> edges[c[i]].weight]
           p == [i \in 1 .. n + 1 |-> dist[r[i]]]
<1>10. ASSUME NEW i \in 1 .. n
       PROVE  /\ w[i] \in Int /\ p[i] \in Int /\ p[i + 1] \in Int
              /\ p[i] + w[i] <= p[i + 1] - (IF i = m THEN 1 ELSE 0)
  <2>1. w[i] = edges[c[i]].weight /\ p[i] = dist[r[i]] /\ p[i + 1] = dist[r[i + 1]]
    BY <1>3
  <2>2. w[i] \in Int
    BY <1>1, <1>7, <2>1, EdgeTypes
  <2>3. dist[r[i]] # Infinity /\ dist[r[i + 1]] # Infinity
        /\ dist[r[i]] + edges[c[i]].weight <= dist[r[i + 1]] - (IF i = m THEN 1 ELSE 0)
    BY <1>2, <1>7 DEF Leads
  <2>4. dist[r[i]] \in Int /\ dist[r[i + 1]] \in Int
    BY <1>1, <1>2, <1>3, <2>3
  <2> HIDE DEF w, p
  <2> QED BY <2>1, <2>2, <2>3, <2>4
<1>11. PICK S : IsPrefixSum(S, w, n) /\ WeightOf(c) = S[n]
  BY <1>1, <1>8, WeightIsSum
<1>12. p[n + 1] = p[1] /\ p[1] \in Int
  <2>1. 1 \in 1 .. n /\ 1 \in 1 .. n + 1 /\ n + 1 \in 1 .. n + 1
    BY <1>1
  <2>2. p[1] = dist[r[1]] /\ p[n + 1] = dist[r[n + 1]]
    BY <2>1
  <2>3. p[1] \in Int
    BY <1>10, <2>1
  <2> QED BY <1>2, <2>2, <2>3
<1> HIDE DEF w, p
<1>13. S[n] < p[n + 1] - p[1]
  <2>1. \A i \in 1 .. n : w[i] \in Int
    BY <1>10
  <2>2. \A i \in 1 .. n + 1 : p[i] \in Int
    <3> SUFFICES ASSUME NEW i \in 1 .. n + 1 PROVE p[i] \in Int
      OBVIOUS
    <3>1. CASE i = n + 1
      BY <1>12, <3>1
    <3>2. CASE i # n + 1
      <4>1. i \in 1 .. n
        BY <1>1, <3>2
      <4> QED BY <1>10, <4>1
    <3> QED BY <3>1, <3>2
  <2>3. \A i \in 1 .. n : w[i] <= p[i + 1] - p[i]
    BY <1>10
  <2>4. w[m] < p[m + 1] - p[m]
    BY <1>10
  <2> QED BY <1>1, <1>11, <2>1, <2>2, <2>3, <2>4, StrictSum
<1>14. WeightOf(c) < 0
  BY <1>11, <1>12, <1>13
<1>15. n <= Cardinality(Assets) /\ Cardinality(Assets) \in Nat
  <2> DEFINE f == [i \in 1 .. n |-> r[i]]
  <2>1. f \in [1 .. n -> Assets] /\ \A i, j \in 1 .. n : f[i] = f[j] => i = j
    BY <1>2, <1>3
  <2> HIDE DEF f
  <2>2. f \in Injection(1 .. n, Assets)
    BY <2>1, Fun_IsInj
  <2>3. Cardinality(1 .. n) <= Cardinality(Assets)
    BY <2>2, FS_Injection, CycleAssumption
  <2>4. Cardinality(1 .. n) = n
    BY <1>1, FS_Interval
  <2>5. Cardinality(Assets) \in Nat
    BY FS_CardinalityType, CycleAssumption
  <2> QED BY <2>3, <2>4, <2>5
<1>16. n # 1
  BY <1>1, <1>2, <1>7, <1>9 DEF NoLoops
<1>17. c \in SimpleCycles(Cardinality(Assets))
  <2>1. n \in 2 .. Cardinality(Assets)
    BY <1>1, <1>15, <1>16
  <2>2. ASSUME NEW i \in 1 .. n
        PROVE  edges[c[i]].to = edges[c[IF i = n THEN 1 ELSE i + 1]].from
    <3>1. CASE i = n
      <4>1. 1 \in 1 .. n
        BY <1>1
      <4> QED BY <1>2, <1>9, <3>1, <4>1
    <3>2. CASE i # n
      <4>1. i + 1 \in 1 .. n
        BY <1>1, <3>2
      <4> QED BY <1>9, <3>2, <4>1
    <3> QED BY <3>1, <3>2
  <2>3. \A i, j \in 1 .. n : edges[c[i]].from = edges[c[j]].from => i = j
    BY <1>2, <1>9
  <2> QED BY <1>8, <2>1, <2>2, <2>3 DEF SimpleCycles
<1>18. Len(c) = Len(r) - 1
  BY <1>1, <1>2, <1>8
<1>19. \A i \in DOMAIN c : edges[c[i]].from = r[i]
  BY <1>8, <1>9
<1> QED BY <1>14, <1>17, <1>18, <1>19 DEF Gains

\* Cycles and their weights are those of the graph, whatever else changes.
LEMMA SameCycles ==
  ASSUME edges' = edges
  PROVE  /\ \A n : SimpleCycles(n)' = SimpleCycles(n)
         /\ \A c : WeightOf(c)' = WeightOf(c)
<1>1. ASSUME NEW CONSTANT n PROVE SimpleCycles(n)' = SimpleCycles(n)
  BY DEF SimpleCycles
<1>2. ASSUME NEW CONSTANT c PROVE WeightOf(c)' = WeightOf(c)
  BY DEF WeightOf
<1> QED BY <1>1, <1>2

LEMMA SeekPath ==
  ASSUME IInv, TraceInv, Seek
  PROVE  TraceInv'
<1>1. PICK path \in Seq(Assets) :
        /\ Distinct(path) /\ Follows(path)
        /\ seen = {path[i] : i \in 1 .. Len(path)}
        /\ Len(path) >= 1 => curr = pred[path[Len(path)]]
  BY DEF TraceInv, Seek
<1>2. /\ curr \in Assets /\ curr \notin seen /\ seen' = seen \cup {curr} /\ curr' = pred[curr]
      /\ pred' = pred /\ pc' = "seek"
  BY CycleAssumption DEF Seek, tables, IInv, TypeOK
<1> DEFINE n == Len(path)
<1> PICK long : long = Append(path, curr)
  OBVIOUS
<1>3. /\ long \in Seq(Assets) /\ Len(long) = n + 1 /\ n \in Nat
      /\ long[n + 1] = curr /\ \A i \in 1 .. n : long[i] = path[i]
  BY <1>1, <1>2
<1> HIDE DEF n
<1>4. Distinct(long)
  <2> SUFFICES ASSUME NEW i \in 1 .. n + 1, NEW j \in 1 .. n + 1, long[i] = long[j] PROVE i = j
    BY <1>3 DEF Distinct
  <2>1. \A k \in 1 .. n + 1 : k = n + 1 \/ k \in 1 .. n
    BY <1>3
  <2>2. \A k \in 1 .. n : long[k] \in seen
    BY <1>1, <1>3 DEF n
  <2>3. CASE i \in 1 .. n /\ j \in 1 .. n
    BY <1>1, <1>3, <2>3 DEF Distinct, n
  <2> QED BY <1>2, <1>3, <2>1, <2>2, <2>3
<1>5. \A i \in 1 .. (n + 1) - 1 : long[i + 1] = pred[long[i]]
  <2> SUFFICES ASSUME NEW i \in 1 .. n PROVE long[i + 1] = pred[long[i]]
    BY <1>3
  <2>1. CASE i = n
    BY <1>1, <1>3, <2>1 DEF n
  <2>2. CASE i # n
    <3>1. i \in 1 .. n - 1 /\ i + 1 \in 1 .. n
      BY <1>3, <2>2
    <3> QED BY <1>1, <1>3, <3>1 DEF Follows, n
  <2> QED BY <2>1, <2>2
<1>6. seen' = {long[i] : i \in 1 .. n + 1}
  <2>1. ASSUME NEW a \in seen' PROVE \E i \in 1 .. n + 1 : a = long[i]
    <3>1. CASE a = curr
      <4>1. n + 1 \in 1 .. n + 1
        BY <1>3
      <4> QED BY <1>3, <3>1, <4>1
    <3>2. CASE a \in seen
      <4>1. PICK i \in 1 .. n : a = path[i]
        BY <1>1, <3>2 DEF n
      <4>2. i \in 1 .. n + 1
        BY <1>3
      <4> QED BY <1>3, <4>1, <4>2
    <3> QED BY <1>2, <2>1, <3>1, <3>2
  <2>2. ASSUME NEW i \in 1 .. n + 1 PROVE long[i] \in seen'
    <3>1. CASE i = n + 1
      BY <1>2, <1>3, <3>1
    <3>2. CASE i # n + 1
      <4>1. i \in 1 .. n
        BY <1>3, <3>2
      <4> QED BY <1>1, <1>2, <1>3, <4>1 DEF n
    <3> QED BY <3>1, <3>2
  <2> QED BY <2>1, <2>2
<1>7. Follows(long)'
  BY <1>2, <1>3, <1>5 DEF Follows
<1>8. ReportedGains'
  BY <1>2 DEF ReportedGains
<1>9. Len(long) >= 1 => curr' = pred'[long[Len(long)]]
  BY <1>2, <1>3
<1>10. seen' = {long[i] : i \in 1 .. Len(long)}
  BY <1>3, <1>6
<1> QED BY <1>2, <1>3, <1>4, <1>7, <1>8, <1>9, <1>10 DEF TraceInv

\* Where the trace closes, its path from there on is a loop.
LEMMA SeekLoop ==
  ASSUME IInv, TraceInv, SeekSucceeds
  PROVE  TraceInv'
<1>1. PICK path \in Seq(Assets) :
        /\ Distinct(path) /\ Follows(path)
        /\ seen = {path[i] : i \in 1 .. Len(path)}
        /\ Len(path) >= 1 => curr = pred[path[Len(path)]]
  BY DEF TraceInv, SeekSucceeds
<1>2. /\ curr \in Assets /\ curr \in seen /\ cycle' = <<curr>> /\ pred' = pred
      /\ pc' = "collect"
  BY CycleAssumption DEF SeekSucceeds, tables, IInv, TypeOK
<1>3. PICK j \in 1 .. Len(path) : curr = path[j]
  BY <1>1, <1>2
<1> DEFINE n == Len(path)
           m == Len(path) - j + 1
           loop == SubSeq(path, j, Len(path))
<1>4. /\ n \in Nat /\ m \in Nat /\ m >= 1 /\ m = n - j + 1 /\ j \in 1 .. n
      /\ loop \in Seq(Assets) /\ Len(loop) = m
      /\ \A i \in 1 .. m : loop[i] = path[j + i - 1]
  BY <1>1
<1> HIDE DEF n, m, loop
<1>5. \A i \in 1 .. m : j + i - 1 \in 1 .. n
  BY <1>4
<1>6. Distinct(loop)
  <2> SUFFICES ASSUME NEW x \in 1 .. m, NEW y \in 1 .. m, loop[x] = loop[y] PROVE x = y
    BY <1>4 DEF Distinct
  <2>1. path[j + x - 1] = path[j + y - 1] /\ j + x - 1 \in 1 .. n /\ j + y - 1 \in 1 .. n
    BY <1>4, <1>5
  <2>2. j + x - 1 = j + y - 1
    BY <1>1, <2>1 DEF Distinct, n
  <2> QED BY <1>4, <2>2
<1>7. \A i \in 1 .. m - 1 : loop[i + 1] = pred[loop[i]]
  <2> SUFFICES ASSUME NEW i \in 1 .. m - 1 PROVE loop[i + 1] = pred[loop[i]]
    OBVIOUS
  <2>1. /\ i \in 1 .. m /\ i + 1 \in 1 .. m /\ j + i - 1 \in 1 .. n - 1
        /\ j + (i + 1) - 1 = (j + i - 1) + 1
    BY <1>4
  <2> QED BY <1>1, <1>4, <2>1 DEF Follows, n
<1>8. loop[1] = curr /\ pred[loop[m]] = curr
  <2>1. 1 \in 1 .. m /\ m \in 1 .. m /\ j + 1 - 1 = j /\ j + m - 1 = n /\ n >= 1
    BY <1>4
  <2>2. loop[1] = path[j] /\ loop[m] = path[n]
    BY <1>4, <2>1
  <2> QED BY <1>1, <1>3, <2>1, <2>2 DEF n
<1>9. ClosedLoop(loop)'
  BY <1>2, <1>4, <1>6, <1>7, <1>8 DEF ClosedLoop, Follows, Distinct
<1>10. ReportedGains'
  BY <1>2 DEF ReportedGains
<1>11. Len(cycle') = 1 /\ cycle'[1] = loop[1] /\ 1 <= Len(loop)
  BY <1>2, <1>4, <1>8
<1>12. \A i \in 1 .. Len(cycle') : cycle'[i] = loop[i]
  BY <1>11
<1> QED BY <1>2, <1>4, <1>9, <1>10, <1>11, <1>12 DEF TraceInv

\* What curr is while the cycle is collected: the next of the loop.
LEMMA NextOfLoop ==
  ASSUME IInv, TraceInv, pc = "collect"
  PROVE  \E loop \in Seq(Assets) :
           /\ ClosedLoop(loop)
           /\ Len(cycle) \in 1 .. Len(loop)
           /\ \A i \in 1 .. Len(cycle) : cycle[i] = loop[i]
           /\ curr = IF Len(cycle) = Len(loop) THEN loop[1] ELSE loop[Len(cycle) + 1]
           /\ curr \in Assets
<1>1. PICK loop \in Seq(Assets) :
        /\ ClosedLoop(loop)
        /\ 1 <= Len(cycle) /\ Len(cycle) <= Len(loop)
        /\ \A i \in 1 .. Len(cycle) : cycle[i] = loop[i]
  BY DEF TraceInv
<1>2. cycle \in Seq(Assets) /\ curr = pred[cycle[Len(cycle)]]
  BY DEF IInv, TypeOK, DetectInv
<1>3. Len(cycle) \in 1 .. Len(loop) /\ Len(loop) \in Nat
  BY <1>1, <1>2
<1>4. curr = pred[loop[Len(cycle)]]
  <2>1. Len(cycle) \in 1 .. Len(cycle)
    BY <1>1, <1>2
  <2> QED BY <1>1, <1>2, <2>1
<1>5. CASE Len(cycle) = Len(loop)
  BY <1>1, <1>3, <1>4, <1>5 DEF ClosedLoop
<1>6. CASE Len(cycle) # Len(loop)
  <2>1. Len(cycle) \in 1 .. Len(loop) - 1 /\ Len(cycle) + 1 \in 1 .. Len(loop)
    BY <1>3, <1>6
  <2> QED BY <1>1, <1>3, <1>4, <1>6, <2>1 DEF ClosedLoop, Follows
<1> QED BY <1>1, <1>3, <1>5, <1>6

LEMMA CollectLoop ==
  ASSUME IInv, TraceInv, Collect
  PROVE  TraceInv'
<1>1. PICK loop \in Seq(Assets) :
        /\ ClosedLoop(loop)
        /\ Len(cycle) \in 1 .. Len(loop)
        /\ \A i \in 1 .. Len(cycle) : cycle[i] = loop[i]
        /\ curr = IF Len(cycle) = Len(loop) THEN loop[1] ELSE loop[Len(cycle) + 1]
        /\ curr \in Assets
  BY NextOfLoop DEF Collect
<1>2. /\ cycle \in Seq(Assets) /\ curr # cycle[1] /\ cycle' = Append(cycle, curr)
      /\ pred' = pred /\ pc' = "collect"
  BY DEF Collect, tables, IInv, TypeOK
<1>3. Len(cycle) # Len(loop) /\ Len(loop) \in Nat /\ Len(cycle) \in Nat
  BY <1>1, <1>2
<1>4. /\ Len(cycle') = Len(cycle) + 1 /\ cycle'[Len(cycle) + 1] = curr
      /\ \A i \in 1 .. Len(cycle) : cycle'[i] = cycle[i]
  BY <1>1, <1>2
<1>5. 1 <= Len(cycle') /\ Len(cycle') <= Len(loop)
  BY <1>1, <1>3, <1>4
<1>6. \A i \in 1 .. Len(cycle') : cycle'[i] = loop[i]
  <2> SUFFICES ASSUME NEW i \in 1 .. Len(cycle) + 1 PROVE cycle'[i] = loop[i]
    BY <1>4
  <2>1. CASE i = Len(cycle) + 1
    BY <1>1, <1>3, <1>4, <2>1
  <2>2. CASE i # Len(cycle) + 1
    <3>1. i \in 1 .. Len(cycle)
      BY <1>3, <2>2
    <3> QED BY <1>1, <1>4, <3>1
  <2> QED BY <2>1, <2>2
<1>7. ClosedLoop(loop)'
  BY <1>1, <1>2 DEF ClosedLoop, Follows, Distinct
<1>8. ReportedGains'
  BY <1>2 DEF ReportedGains
<1> QED BY <1>1, <1>2, <1>5, <1>6, <1>7, <1>8 DEF TraceInv

LEMMA ReportGains ==
  ASSUME IInv, PotentialInv, TraceInv, Report
  PROVE  TraceInv'
<1>1. PICK loop \in Seq(Assets) :
        /\ ClosedLoop(loop)
        /\ Len(cycle) \in 1 .. Len(loop)
        /\ \A i \in 1 .. Len(cycle) : cycle[i] = loop[i]
        /\ curr = IF Len(cycle) = Len(loop) THEN loop[1] ELSE loop[Len(cycle) + 1]
        /\ curr \in Assets
  BY NextOfLoop DEF Report
<1>2. /\ cycle \in Seq(Assets) /\ curr = cycle[1] /\ edges' = edges /\ pc' = "detected"
      /\ cycles' = << Reverse(Append(cycle, cycle[1])) >>
  BY <1>1, CycleAssumption DEF Report, graph, IInv, TypeOK, DetectInv
<1>3. Len(cycle) = Len(loop)
  <2>1. /\ Len(loop) \in Nat /\ Len(cycle) \in Nat /\ 1 \in 1 .. Len(loop)
        /\ cycle[1] = loop[1]
    BY <1>1, <1>2
  <2>2. CASE Len(cycle) # Len(loop)
    <3>1. Len(cycle) + 1 \in 1 .. Len(loop) /\ Len(cycle) + 1 # 1
      BY <1>1, <2>1, <2>2
    <3>2. loop[Len(cycle) + 1] = loop[1]
      BY <1>1, <1>2, <2>1, <2>2
    <3> QED BY <1>1, <2>1, <3>1, <3>2 DEF ClosedLoop, Distinct
  <2> QED BY <2>2
<1>4. cycle = loop
  BY <1>1, <1>2, <1>3
<1> DEFINE r == Reverse(Append(cycle, cycle[1]))
<1>5. Gains(r)
  <2> HIDE DEF r
  <2>1. r = Reverse(Append(loop, loop[1]))
    BY <1>4 DEF r
  <2> QED BY <1>1, <2>1, LoopGains
<1> HIDE DEF r
<1>6. cycles' = << r >>
  BY <1>2 DEF r
<1>7. PICK c \in SimpleCycles(Cardinality(Assets)) :
           /\ Len(c) = Len(r) - 1
           /\ \A i \in DOMAIN c : edges[c[i]].from = r[i]
           /\ WeightOf(c) < 0
  BY <1>5 DEF Gains
<1>8. c \in SimpleCycles(Cardinality(Assets))' /\ WeightOf(c)' < 0
      /\ \A i \in DOMAIN c : edges'[c[i]].from = r[i]
  BY <1>2, <1>7, SameCycles
<1>9. ReportedGains'
  <2> SUFFICES ASSUME NEW n \in DOMAIN cycles'
               PROVE  \E x \in SimpleCycles(Cardinality(Assets))' :
                        /\ Len(x) = Len(cycles'[n]) - 1
                        /\ \A i \in DOMAIN x : edges'[x[i]].from = cycles'[n][i]
                        /\ WeightOf(x)' < 0
    BY DEF ReportedGains
  <2>1. cycles'[n] = r
    BY <1>6
  <2> QED BY <1>7, <1>8, <2>1
<1> QED BY <1>2, <1>9 DEF TraceInv

LEMMA TraceStep == IInv /\ PotentialInv /\ TraceInv /\ [Next]_vars => TraceInv'
<1> SUFFICES ASSUME IInv, PotentialInv, TraceInv, [Next]_vars PROVE TraceInv'
  OBVIOUS
\* Where no trace runs and nothing is reported there is nothing to show.
<1>1. ASSUME pc' \notin {"seek", "collect"}, pc' # "detected" \/ cycles' = << >>
      PROVE  TraceInv'
  BY <1>1 DEF TraceInv, ReportedGains
<1>2. CASE GraphStep
  <2>1. pc' = "idle"
    BY <1>2 DEF GraphStep, AddNode, AddEdge, RemoveEdge, Clear
  <2> QED BY <1>1, <2>1
<1>3. CASE SearchStep
  <2>1. pc' \in {"search", "searched"}
    BY <1>3 DEF SearchStep, StartSearch, CloseCycle, Backtrack, Follow, Pop
  <2> QED BY <1>1, <2>1
<1>4. CASE Return
  <2>1. pc' = "idle"
    BY <1>4 DEF Return
  <2> QED BY <1>1, <2>1
<1>5. CASE StartDetect \/ RelaxEdge \/ EndRelax
  <2>1. pc' \in {"relax", "check"}
    BY <1>5 DEF StartDetect, RelaxEdge, EndRelax
  <2> QED BY <1>1, <2>1
<1>6. CASE EndCheck \/ SeekInVain
  <2>1. pc' = "detected" /\ cycles' = << >>
    BY <1>6 DEF EndCheck, SeekInVain, IInv, DetectInv, detection
  <2> QED BY <1>1, <2>1
<1>7. CASE CheckEdge
  <2>1. CASE pc' = "check"
    BY <1>1, <2>1
  <2>2. CASE pc' = "seek"
    <3>1. seen' = {}
      BY <1>7 DEF CheckEdge, IInv, DetectInv
    <3> PICK path : path = << >>
      OBVIOUS
    <3>2. path \in Seq(Assets) /\ Len(path) = 0
      OBVIOUS
    <3>4. Distinct(path) /\ Follows(path)' /\ seen' = {path[i] : i \in 1 .. Len(path)}
      BY <3>1, <3>2 DEF Distinct, Follows
    <3>3. ReportedGains'
      BY <2>2 DEF ReportedGains
    <3>5. Len(path) >= 1 => curr' = pred'[path[Len(path)]]
      BY <3>2
    <3>6. \E p \in Seq(Assets) :
            /\ Distinct(p) /\ Follows(p)'
            /\ seen' = {p[i] : i \in 1 .. Len(p)}
            /\ Len(p) >= 1 => curr' = pred'[p[Len(p)]]
      BY <3>2, <3>4, <3>5
    <3> QED BY <2>2, <3>3, <3>6 DEF TraceInv
  <2> QED BY <1>7, <2>1, <2>2 DEF CheckEdge
<1>8. CASE Seek \/ SeekSucceeds \/ Collect \/ Report
  BY <1>8, SeekPath, SeekLoop, CollectLoop, ReportGains
<1>9. CASE UNCHANGED vars
  BY <1>9, SameCycles DEF vars, TraceInv, ReportedGains, ClosedLoop, Follows
<1> QED BY <1>2, <1>3, <1>4, <1>5, <1>6, <1>7, <1>8, <1>9, Steps DEF DetectStep

-----------------------------------------------------------------------------
(* Silence *)

\* The root has a distance while a detection runs, its check starts at the first edge,
\* and where it reports nothing without a trace it has been past every edge.
QuietInv ==
  /\ pc \in {"relax", "check", "seek", "collect", "detected"} => dist[Root] # Infinity
  /\ pc = "relax" => at = 1 \/ pass < Cardinality(nodes) - 1
  /\ pc = "check" => \A i \in 1 .. at - 1 : ~ Shortens(edges[i], Tolerance)
  /\ pc = "seek" /\ curr = Null => seen # {}
  /\ pc = "collect" => seen # {}
  /\ pc = "detected" /\ seen = {} => \A i \in DOMAIN edges : ~ Shortens(edges[i], Tolerance)

LEMMA QuietStep == IInv /\ PotentialInv /\ QuietInv /\ [Next]_vars => QuietInv'
<1> SUFFICES ASSUME IInv, PotentialInv, QuietInv, [Next]_vars PROVE QuietInv'
  OBVIOUS
<1>1. ASSUME pc' \in {"idle", "search", "searched"} PROVE QuietInv'
  BY <1>1 DEF QuietInv
<1>2. CASE GraphStep
  BY <1>1, <1>2 DEF GraphStep, AddNode, AddEdge, RemoveEdge, Clear
<1>3. CASE SearchStep
  BY <1>1, <1>3 DEF SearchStep, StartSearch, CloseCycle, Backtrack, Follow, Pop
<1>4. CASE Return
  BY <1>1, <1>4 DEF Return
<1>5. CASE StartDetect
  <2>1. pc' = "relax" /\ at' = 1 /\ dist'[Root] = 0
    BY <1>5, CycleAssumption DEF StartDetect, IInv, TypeOK, DetectInv
  <2> QED BY <2>1, CycleAssumption DEF QuietInv
<1>6. CASE RelaxEdge
  <2>1. pc = "relax" /\ pc' = "relax" /\ nodes' = nodes /\ pass < Cardinality(nodes) - 1
        /\ (at' = 1 \/ pass' = pass)
    BY <1>6 DEF RelaxEdge, graph
  <2>2. dist'[Root] # Infinity
    <3>1. dist[Root] # Infinity /\ dist \in [Assets -> Int \cup {Infinity}]
      BY <2>1 DEF QuietInv, IInv, TypeOK
    <3>2. CASE UNCHANGED <<edges, dist, pred>>
      BY <3>1, <3>2
    <3>3. ASSUME NEW v \in Assets, NEW d \in Int, dist' = [dist EXCEPT ![v] = d]
          PROVE  dist'[Root] # Infinity
      BY <3>1, <3>3, CycleAssumption
    <3> QED BY <1>6, <3>2, <3>3, RelaxEffect DEF PotentialInv
  <2> QED BY <2>1, <2>2 DEF QuietInv
<1>7. CASE EndRelax
  <2>1. /\ pc = "relax" /\ pc' = "check" /\ dist' = dist /\ at' = at
        /\ ~ (pass < Cardinality(nodes) - 1)
    <3>1. pass \in Nat /\ Cardinality(nodes) \in Nat
      BY FS_Subset, FS_CardinalityType, CycleAssumption DEF IInv, TypeOK
    <3> QED BY <1>7, <3>1 DEF EndRelax, tables
  <2>2. at' = 1
    BY <2>1 DEF QuietInv
  <2> QED BY <2>1, <2>2 DEF QuietInv
<1>8. CASE CheckEdge
  <2>1. /\ pc = "check" /\ dist' = dist /\ edges' = edges /\ at \in Nat
    BY <1>8 DEF CheckEdge, tables, graph, IInv, TypeOK
  <2>2. CASE Shortens(edges[at], Tolerance)
    <3>1. edges[at].to \in Assets
      BY <1>8, EdgeTypes DEF CheckEdge, IInv, TypeOK
    <3>2. pc' = "seek" /\ curr' # Null
      BY <1>8, <2>2, <3>1, CycleAssumption DEF CheckEdge
    <3> QED BY <2>1, <3>2 DEF QuietInv
  <2>3. CASE ~ Shortens(edges[at], Tolerance)
    <3>1. pc' = "check" /\ at' = at + 1
      BY <1>8, <2>3 DEF CheckEdge
    <3>2. \A i \in 1 .. at' - 1 : i = at \/ i \in 1 .. at - 1
      BY <2>1, <3>1
    <3>3. \A i \in 1 .. at' - 1 : ~ Shortens(edges[i], Tolerance)
      BY <2>1, <2>3, <3>2 DEF QuietInv
    <3>4. \A i \in 1 .. at' - 1 : ~ Shortens(edges[i], Tolerance)'
      BY <2>1, <3>3 DEF Shortens
    <3> QED BY <2>1, <3>1, <3>4 DEF QuietInv
  <2> QED BY <2>2, <2>3
<1>9. CASE EndCheck
  <2>1. /\ pc = "check" /\ pc' = "detected" /\ dist' = dist /\ edges' = edges
        /\ \A i \in DOMAIN edges : i \in 1 .. at - 1
    <3>1. edges \in Seq(Edge) /\ at \in Nat
      BY DEF IInv, TypeOK
    <3> QED BY <1>9, <3>1 DEF EndCheck, graph, detection, tables
  <2> QED BY <2>1 DEF QuietInv, Shortens
<1>10. CASE Seek
  BY <1>10 DEF Seek, QuietInv, tables
<1>11. CASE SeekInVain
  BY <1>11 DEF SeekInVain, QuietInv, detection, tables, trace
<1>12. CASE SeekSucceeds \/ Collect \/ Report
  BY <1>12 DEF SeekSucceeds, Collect, Report, QuietInv, tables, trace
<1>13. CASE UNCHANGED vars
  BY <1>13 DEF vars, QuietInv, Shortens
<1> QED BY <1>2, <1>3, <1>4, <1>5, <1>6, <1>7, <1>8, <1>9, <1>10, <1>11, <1>12, <1>13, Steps
        DEF DetectStep

\* What a path of edges that shorten nothing implies for a simple cycle.
LEMMA QuietIsSafe == IInv /\ QuietInv => SilenceIsSafe
<1> SUFFICES ASSUME IInv, QuietInv, pc = "detected", seen = {},
                    NEW c \in SimpleCycles(Cardinality(Assets)), Losing(c)
             PROVE  FALSE
  BY DEF SilenceIsSafe
<1>1. /\ edges \in Seq(Edge) /\ dist \in [Assets -> Int \cup {Infinity}]
      /\ dist[Root] # Infinity /\ \A i \in DOMAIN edges : ~ Shortens(edges[i], Tolerance)
  BY DEF QuietInv, IInv, TypeOK
<1> DEFINE Finite == {a \in Assets : dist[a] # Infinity}
<1>2. ASSUME NEW i \in DOMAIN edges, edges[i].from \in Finite
      PROVE  /\ edges[i].to \in Finite
             /\ dist[edges[i].from] + edges[i].weight >= dist[edges[i].to] - Tolerance
  <2>1. edges[i].from \in Assets /\ edges[i].to \in Assets /\ edges[i].weight \in Int
    BY <1>1, EdgeTypes
  <2>2. /\ dist[edges[i].to] # Infinity
        /\ ~ (dist[edges[i].from] + edges[i].weight < dist[edges[i].to] - Tolerance)
    BY <1>1, <1>2 DEF Shortens
  <2>3. dist[edges[i].from] \in Int /\ dist[edges[i].to] \in Int /\ Tolerance \in Int
    BY <1>1, <1>2, <2>1, <2>2, CycleAssumption
  <2> QED BY <2>1, <2>2, <2>3
<1>3. Reachable \subseteq Finite
  BY <1>1, <1>2, CycleAssumption DEF Reachable
<1> HIDE DEF Finite
<1>4. PICK n \in 2 .. Cardinality(Assets) :
        /\ c \in [1 .. n -> DOMAIN edges]
        /\ \A i \in 1 .. n : edges[c[i]].to = edges[c[IF i = n THEN 1 ELSE i + 1]].from
  <2>1. PICK n \in 2 .. Cardinality(Assets) : c \in [1 .. n -> DOMAIN edges]
    BY DEF SimpleCycles
  <2>2. Len(c) = n /\ DOMAIN c = 1 .. n
    <3>1. Cardinality(Assets) \in Nat
      BY FS_CardinalityType, CycleAssumption
    <3> QED BY <2>1, <3>1
  <2> QED BY <2>1, <2>2 DEF SimpleCycles
<1>5. n \in Nat /\ n >= 2 /\ Len(c) = n
  <2>1. Cardinality(Assets) \in Nat
    BY FS_CardinalityType, CycleAssumption
  <2> QED BY <1>4, <2>1
<1> DEFINE from(i) == edges[c[i]].from
<1>6. \A i \in 1 .. n : from(i) \in Finite
  <2> DEFINE D == {k \in 0 .. n - 1 : from(k + 1) \in Finite}
  <2>1. 0 \in D
    BY <1>3, <1>5 DEF Losing
  <2>2. ASSUME NEW k \in 0 .. (n - 1) - 1, k \in D PROVE k + 1 \in D
    <3>1. k + 1 \in 1 .. n /\ k + 1 # n /\ k + 1 \in 0 .. n - 1 /\ (k + 1) + 1 \in 1 .. n
      BY <1>5
    <3>2. from((k + 1) + 1) = edges[c[k + 1]].to
      BY <1>4, <3>1
    <3>3. c[k + 1] \in DOMAIN edges /\ edges[c[k + 1]].from \in Finite
      BY <1>4, <2>2, <3>1
    <3> QED BY <1>2, <3>1, <3>2, <3>3
  <2>3. \A k \in 0 .. n - 1 : k \in D
    <3>1. n - 1 \in Nat
      BY <1>5
    <3> HIDE DEF D
    <3> QED BY <2>1, <2>2, <3>1, UpTo
  <2>4. ASSUME NEW i \in 1 .. n PROVE from(i) \in Finite
    <3>1. i - 1 \in 0 .. n - 1 /\ (i - 1) + 1 = i
      BY <1>5
    <3>2. i - 1 \in D
      BY <2>3, <3>1
    <3> QED BY <3>1, <3>2
  <2> QED BY <2>4
<1> DEFINE w == [i \in 1 .. n |-> edges[c[i]].weight]
           p == [i \in 1 .. n + 1 |-> dist[from(IF i = n + 1 THEN 1 ELSE i)]]
<1>7. PICK S : IsPrefixSum(S, w, n) /\ WeightOf(c) = S[n]
  BY <1>1, <1>4, <1>5, WeightIsSum
<1>8. ASSUME NEW i \in 1 .. n
      PROVE  w[i] \in Int /\ w[i] >= p[i + 1] - p[i] - Tolerance /\ p[i] \in Int
  <2>1. /\ c[i] \in DOMAIN edges /\ from(i) \in Finite
        /\ edges[c[i]].to = from(IF i = n THEN 1 ELSE i + 1)
    BY <1>4, <1>6
  <2>2. w[i] = edges[c[i]].weight /\ p[i] = dist[from(i)] /\ p[i + 1] = dist[edges[c[i]].to]
    <3>1. i \in 1 .. n + 1 /\ i + 1 \in 1 .. n + 1 /\ i # n + 1 /\ (i + 1 = n + 1 <=> i = n)
      BY <1>5
    <3> QED BY <2>1, <3>1
  <2>3. /\ edges[c[i]].to \in Finite
        /\ dist[from(i)] + edges[c[i]].weight >= dist[edges[c[i]].to] - Tolerance
    BY <1>2, <2>1
  <2>4. dist[from(i)] \in Int /\ dist[edges[c[i]].to] \in Int /\ edges[c[i]].weight \in Int
        /\ Tolerance \in Int
    BY <1>1, <2>1, <2>3, EdgeTypes, CycleAssumption DEF Finite
  <2> HIDE DEF w, p
  <2> QED BY <2>2, <2>3, <2>4
<1>9. p[n + 1] = p[1] /\ p[1] \in Int /\ \A i \in 1 .. n + 1 : p[i] \in Int
  <2>1. 1 \in 1 .. n /\ 1 \in 1 .. n + 1 /\ n + 1 \in 1 .. n + 1 /\ 1 # n + 1
        /\ \A i \in 1 .. n + 1 : i = n + 1 \/ i \in 1 .. n
    BY <1>5
  <2>2. p[n + 1] = p[1]
    BY <2>1
  <2> HIDE DEF p
  <2> QED BY <1>8, <2>1, <2>2
<1> HIDE DEF w, p
<1>10. S[n] >= p[n + 1] - p[1] - Tolerance * n
  <2>1. Tolerance \in Int /\ n \in Nat /\ IsPrefixSum(S, w, n)
    BY <1>5, <1>7, CycleAssumption
  <2>2. \A i \in 1 .. n : w[i] \in Int
    BY <1>8
  <2>3. \A i \in 1 .. n + 1 : p[i] \in Int
    BY <1>9
  <2>4. \A i \in 1 .. n : w[i] >= p[i + 1] - p[i] - Tolerance
    BY <1>8
  <2> QED BY <2>1, <2>2, <2>3, <2>4, SlackSum
<1>11. S[n] >= - (Tolerance * n) /\ Tolerance * n \in Int /\ S[n] \in Int
  <2>1. Tolerance \in Int /\ n \in Int /\ S[n] \in Int
    BY <1>5, <1>7, CycleAssumption DEF IsPrefixSum
  <2>2. Tolerance * n \in Int
    BY <2>1
  <2> QED BY <1>9, <1>10, <2>1, <2>2
<1>12. S[n] < - Tolerance * n
  BY <1>5, <1>7 DEF Losing
<1>13. (- Tolerance) * n = - (Tolerance * n)
  BY <1>5, CycleAssumption
<1> QED BY <1>11, <1>12, <1>13

-----------------------------------------------------------------------------
(* What the depth-first search has found *)

\* The frames s go along edges of the graph, from the root and not back to it below
\* the top; each stands past the edge that the next one came by.
Path(s) ==
  /\ s[1].asset = Root /\ s[1].weight = 0
  /\ \A k \in 2 .. Len(s) - 1 : s[k].asset # Root
  /\ \A k \in 2 .. Len(s) :
       /\ s[k].via \in DOMAIN edges
       /\ edges[s[k].via].from = s[k - 1].asset
       /\ edges[s[k].via].to = s[k].asset
       /\ s[k].weight = s[k - 1].weight + edges[s[k].via].weight
       /\ s[k - 1].next = s[k].via + 1

PathInv == pc = "search" => Path(stack) /\ Len(stack) <= maxHops + 1

LEMMA StackTypes ==
  ASSUME IInv, pc = "search"
  PROVE  /\ Len(stack) \in Nat /\ Len(stack) >= 1 /\ DOMAIN stack = 1 .. Len(stack)
         /\ Top = stack[Len(stack)] /\ Hops = Len(stack) - 1 /\ maxHops \in Nat
         /\ \A k \in 1 .. Len(stack) :
              /\ stack[k].asset \in Assets /\ stack[k].next \in Nat /\ stack[k].next >= 1
              /\ stack[k].via \in Nat /\ stack[k].weight \in Int
<1>1. stack \in Seq(Frame) /\ Len(stack) >= 1 /\ maxHops \in Nat
  BY DEF IInv, TypeOK, SearchInv
<1>2. \A k \in 1 .. Len(stack) : stack[k] \in Frame
  BY <1>1
<1> QED BY <1>1, <1>2 DEF Frame, Top, Hops

\* A return takes the frame on top away, and the first frame's ends the search.
LEMMA PopShape ==
  ASSUME IInv, pc = "search", Pop
  PROVE  /\ Hops = 0 => pc' = "searched"
         /\ Hops # 0 =>
              /\ pc' = "search" /\ Len(stack') = Len(stack) - 1 /\ Len(stack) >= 2
              /\ \A k \in 1 .. Len(stack) - 1 : stack'[k] = stack[k]
<1>1. stack \in Seq(Frame) /\ Len(stack) \in Nat /\ Len(stack) >= 1 /\ Hops = Len(stack) - 1
  BY StackTypes DEF IInv, TypeOK
<1>2. CASE Hops = 0
  BY <1>2 DEF Pop
<1>3. CASE Hops # 0
  <2>1. pc' = "search" /\ stack' = SubSeq(stack, 1, Len(stack) - 1) /\ Len(stack) >= 2
    BY <1>1, <1>3 DEF Pop
  <2> QED BY <1>1, <1>3, <2>1
<1> QED BY <1>2, <1>3

\* Following an edge puts a frame on top, and the one below past the edge.
LEMMA FollowShape ==
  ASSUME IInv, NEW i \in DOMAIN edges, Follow(i), NEW n, n = Len(stack)
  PROVE  /\ Len(stack') = n + 1
         /\ \A k \in 1 .. n - 1 : stack'[k] = stack[k]
         /\ stack'[n].asset = stack[n].asset /\ stack'[n].weight = stack[n].weight
         /\ stack'[n].via = stack[n].via /\ stack'[n].next = i + 1
         /\ stack'[n + 1].asset = edges[i].to /\ stack'[n + 1].via = i
         /\ stack'[n + 1].next = 1
         /\ stack'[n + 1].weight = stack[n].weight + edges[i].weight
<1> DEFINE low == [stack EXCEPT ![n].next = i + 1]
           new == [asset |-> edges[i].to, next |-> 1, via |-> i,
                   weight |-> Top.weight + edges[i].weight]
           f == [stack[n] EXCEPT !.next = i + 1]
<1>1. /\ stack \in Seq(Frame) /\ n \in Nat /\ n >= 1 /\ DOMAIN stack = 1 .. n
      /\ Top = stack[n] /\ stack[n] \in Frame /\ edges \in Seq(Edge)
  <2>1. stack \in Seq(Frame) /\ n \in Nat /\ n >= 1 /\ DOMAIN stack = 1 .. n /\ Top = stack[n]
    BY StackTypes DEF Follow, IInv, TypeOK
  <2> QED BY <2>1 DEF IInv, TypeOK
<1>2. stack' = Append(low, new)
  BY DEF Follow
<1>3. /\ f \in Frame /\ f.asset = stack[n].asset /\ f.weight = stack[n].weight
      /\ f.via = stack[n].via /\ f.next = i + 1
  BY <1>1 DEF Frame
<1>4. /\ new \in Frame /\ new.asset = edges[i].to /\ new.via = i /\ new.next = 1
      /\ new.weight = stack[n].weight + edges[i].weight
  <2>1. stack[n].weight \in Int /\ i \in Nat
    BY <1>1 DEF Frame
  <2> QED BY <1>1, <2>1, EdgeTypes DEF Frame
<1>5. low = [stack EXCEPT ![n] = f]
  OBVIOUS
<1> HIDE DEF low, new, f
<1>6. low \in Seq(Frame) /\ Len(low) = n /\ low[n] = f /\ \A k \in 1 .. n - 1 : low[k] = stack[k]
  BY <1>1, <1>3, <1>5
<1>7. Len(stack') = n + 1 /\ stack'[n + 1] = new /\ \A k \in 1 .. n : stack'[k] = low[k]
  BY <1>1, <1>2, <1>4, <1>6
<1>8. n \in 1 .. n /\ \A k \in 1 .. n - 1 : k \in 1 .. n
  BY <1>1
<1>9. \A k \in 1 .. n - 1 : stack'[k] = stack[k]
  BY <1>6, <1>7, <1>8
<1>10. stack'[n] = f
  BY <1>6, <1>7, <1>8
<1> QED BY <1>3, <1>4, <1>7, <1>9, <1>10

LEMMA PathPop ==
  ASSUME IInv, PathInv, pc = "search", Pop, UNCHANGED <<edges, maxHops>>
  PROVE  PathInv'
<1>1. CASE Hops = 0
  BY <1>1, PopShape DEF PathInv
<1>2. CASE Hops # 0
  <2> DEFINE n == Len(stack)
  <2>1. /\ n \in Nat /\ n >= 2 /\ Len(stack') = n - 1 /\ maxHops \in Nat /\ n <= maxHops + 1
        /\ \A k \in 1 .. n - 1 : stack'[k] = stack[k]
    BY <1>2, PopShape, StackTypes DEF PathInv
  <2>2. Path(stack)
    BY DEF PathInv
  <2> HIDE DEF n
  <2>3. /\ 1 \in 1 .. n - 1 /\ \A k \in 2 .. n - 2 : k \in 2 .. n - 1 /\ k \in 1 .. n - 1
        /\ \A k \in 2 .. n - 1 : k \in 2 .. n /\ k \in 1 .. n - 1 /\ k - 1 \in 1 .. n - 1
    BY <2>1
  <2>4. Path(stack)'
    <3>1. stack'[1].asset = Root /\ stack'[1].weight = 0
      BY <2>1, <2>2, <2>3 DEF Path
    <3>2. \A k \in 2 .. n - 2 : stack'[k].asset # Root
      BY <2>1, <2>2, <2>3 DEF Path, n
    <3>3. \A k \in 2 .. n - 1 :
            /\ stack'[k].via \in DOMAIN edges
            /\ edges[stack'[k].via].from = stack'[k - 1].asset
            /\ edges[stack'[k].via].to = stack'[k].asset
            /\ stack'[k].weight = stack'[k - 1].weight + edges[stack'[k].via].weight
            /\ stack'[k - 1].next = stack'[k].via + 1
      BY <2>1, <2>2, <2>3 DEF Path, n
    <3>4. Len(stack') - 1 = n - 2
      BY <2>1
    <3> QED BY <2>1, <3>1, <3>2, <3>3, <3>4 DEF Path
  <2> QED BY <2>1, <2>4 DEF PathInv
<1> QED BY <1>1, <1>2

LEMMA PathFollow ==
  ASSUME IInv, PotentialInv, PathInv, NEW i \in DOMAIN edges, Follow(i)
  PROVE  PathInv'
<1> DEFINE n == Len(stack)
<1>1. /\ pc = "search" /\ pc' = "search" /\ edges' = edges /\ maxHops' = maxHops
      /\ ~ Closed /\ Hops < maxHops /\ edges[i].from = Top.asset
  BY DEF Follow, Eligible, graph
<1>2. /\ n \in Nat /\ n >= 1 /\ maxHops \in Nat /\ Top = stack[n] /\ Hops = n - 1
  BY <1>1, StackTypes
<1>3. Path(stack) /\ NoLoops
  BY <1>1 DEF PathInv, PotentialInv
<1>4. /\ Len(stack') = n + 1
      /\ \A k \in 1 .. n - 1 : stack'[k] = stack[k]
      /\ stack'[n].asset = stack[n].asset /\ stack'[n].weight = stack[n].weight
      /\ stack'[n].via = stack[n].via /\ stack'[n].next = i + 1
      /\ stack'[n + 1].asset = edges[i].to /\ stack'[n + 1].via = i
      /\ stack'[n + 1].weight = stack[n].weight + edges[i].weight
  BY FollowShape
<1> HIDE DEF n
<1>5. n >= 2 => stack[n].asset # Root
  <2>1. CASE n >= 3
    BY <1>1, <1>2, <2>1 DEF Closed
  <2>2. CASE n = 2
    BY <1>3, <2>2 DEF Path, NoLoops, n
  <2> QED BY <1>2, <2>1, <2>2
<1>6. \A k \in 1 .. n : /\ stack'[k].asset = stack[k].asset
                        /\ stack'[k].weight = stack[k].weight
                        /\ stack'[k].via = stack[k].via
  <2>1. \A k \in 1 .. n : k = n \/ k \in 1 .. n - 1
    BY <1>2
  <2> QED BY <1>4, <2>1
<1>7. stack'[1].asset = Root /\ stack'[1].weight = 0
  <2>1. 1 \in 1 .. n
    BY <1>2
  <2> QED BY <1>3, <1>6, <2>1 DEF Path
<1>8. ASSUME NEW k \in 2 .. n PROVE stack'[k].asset # Root
  <2>1. k \in 1 .. n /\ n >= 2 /\ (k = n \/ k \in 2 .. n - 1)
    BY <1>2
  <2> QED BY <1>3, <1>5, <1>6, <2>1 DEF Path, n
<1>9. ASSUME NEW k \in 2 .. n + 1
      PROVE  /\ stack'[k].via \in DOMAIN edges
             /\ edges[stack'[k].via].from = stack'[k - 1].asset
             /\ edges[stack'[k].via].to = stack'[k].asset
             /\ stack'[k].weight = stack'[k - 1].weight + edges[stack'[k].via].weight
             /\ stack'[k - 1].next = stack'[k].via + 1
  <2>1. CASE k = n + 1
    <3>1. (n + 1) - 1 = n /\ n \in 1 .. n
      BY <1>2
    <3> QED BY <1>1, <1>2, <1>4, <2>1, <3>1
  <2>2. CASE k # n + 1
    <3>1. k \in 2 .. n /\ k \in 1 .. n /\ k - 1 \in 1 .. n /\ k - 1 \in 1 .. n - 1
      BY <1>2, <2>2
    <3>2. /\ stack[k].via \in DOMAIN edges
          /\ edges[stack[k].via].from = stack[k - 1].asset
          /\ edges[stack[k].via].to = stack[k].asset
          /\ stack[k].weight = stack[k - 1].weight + edges[stack[k].via].weight
          /\ stack[k - 1].next = stack[k].via + 1
      BY <1>3, <3>1 DEF Path, n
    <3> QED BY <1>4, <1>6, <3>1, <3>2
  <2> QED BY <2>1, <2>2
<1>10. Len(stack') - 1 = n
  BY <1>2, <1>4
<1>11. Path(stack)'
  BY <1>1, <1>4, <1>7, <1>8, <1>9, <1>10 DEF Path
<1>12. Len(stack') <= maxHops' + 1
  BY <1>1, <1>2, <1>4
<1> QED BY <1>11, <1>12 DEF PathInv

LEMMA PathStep == IInv /\ PotentialInv /\ PathInv /\ [Next]_vars => PathInv'
<1> SUFFICES ASSUME IInv, PotentialInv, PathInv, [Next]_vars PROVE PathInv'
  OBVIOUS
<1>1. ASSUME pc' # "search" PROVE PathInv'
  BY <1>1 DEF PathInv
<1>2. CASE GraphStep
  BY <1>1, <1>2 DEF GraphStep, AddNode, AddEdge, RemoveEdge, Clear
<1>3. CASE DetectStep
  BY <1>1, <1>3 DEF DetectStep, StartDetect, RelaxEdge, EndRelax, CheckEdge, EndCheck, Seek,
                    SeekInVain, SeekSucceeds, Collect, Report
<1>4. CASE Return
  BY <1>1, <1>4 DEF Return
<1>5. ASSUME NEW h \in HopLimits, StartSearch(h) PROVE PathInv'
  <2>1. /\ stack' = <<[asset |-> Root, next |-> 1, via |-> 0, weight |-> 0]>>
        /\ maxHops' = h /\ h \in Nat
    BY <1>5, CycleAssumption DEF StartSearch
  <2>2. Len(stack') = 1 /\ stack'[1].asset = Root /\ stack'[1].weight = 0
    BY <2>1
  <2>3. Path(stack)'
    BY <2>2 DEF Path
  <2> QED BY <2>1, <2>2, <2>3 DEF PathInv
<1>6. CASE CloseCycle \/ Backtrack
  BY <1>6, PathPop DEF CloseCycle, Backtrack, graph
<1>7. ASSUME NEW i \in DOMAIN edges, Follow(i) PROVE PathInv'
  BY <1>7, PathFollow
<1>8. CASE UNCHANGED vars
  BY <1>8 DEF vars, PathInv, Path
<1> QED BY <1>2, <1>3, <1>4, <1>5, <1>6, <1>7, <1>8, Steps DEF SearchStep

\* Up to which edge the loop of frame k has come, those on top of it aside.
Bound(s, k) == IF k = Len(s) THEN s[k].next ELSE s[k + 1].via

\* c starts along the edges that the first k frames came by.
Along(s, c, k) == k - 1 <= Len(c) /\ \A j \in 1 .. k - 1 : c[j] = s[j + 1].via

\* The search is past c, at the frame where c leaves the path; below the top, in Below.
Tried(s, c) == \E k \in 1 .. Len(s) : k <= Len(c) /\ Along(s, c, k) /\ c[k] < Bound(s, k)
Below(s, c) == \E k \in 1 .. Len(s) - 1 : k <= Len(c) /\ Along(s, c, k) /\ c[k] < s[k + 1].via

\* What a search is to find, and a result that holds just what is in T.
Profitable == {c \in SimpleCycles(maxHops) : edges[c[1]].from = Root /\ - WeightOf(c) >= MinGain}
Holds(cs, T) ==
  /\ {cs[n].legs : n \in DOMAIN cs} = T
  /\ \A n \in DOMAIN cs : cs[n].weight = WeightOf(cs[n].legs)
  /\ \A m, n \in DOMAIN cs : cs[m].legs = cs[n].legs => m = n

\* At any time the search has found what it is past, and nothing else.
FoundInv ==
  /\ pc \notin {"search", "searched"} => candidates = << >>
  /\ pc = "search" => Holds(candidates, {c \in Profitable : Tried(stack, c)})
  /\ SearchIsExact

LEMMA CycleForm ==
  ASSUME NEW m, NEW c \in SimpleCycles(m)
  PROVE  /\ Len(c) \in 2 .. m /\ c \in [1 .. Len(c) -> DOMAIN edges]
         /\ \A i \in 1 .. Len(c) :
              edges[c[i]].to = edges[c[IF i = Len(c) THEN 1 ELSE i + 1]].from
         /\ \A i, j \in 1 .. Len(c) : edges[c[i]].from = edges[c[j]].from => i = j
<1>1. PICK n \in 2 .. m : c \in [1 .. n -> DOMAIN edges]
  BY DEF SimpleCycles
<1>2. Len(c) = n /\ DOMAIN c = 1 .. n
  BY <1>1
<1> QED BY <1>1, <1>2 DEF SimpleCycles

\* A cycle that starts along the path visits the assets of its frames.
LEMMA AlongAssets ==
  ASSUME IInv, PathInv, pc = "search", NEW c \in SimpleCycles(maxHops), edges[c[1]].from = Root,
         NEW k \in 1 .. Len(stack), k <= Len(c), Along(stack, c, k)
  PROVE  \A j \in 1 .. k : edges[c[j]].from = stack[j].asset
<1> SUFFICES ASSUME NEW j \in 1 .. k PROVE edges[c[j]].from = stack[j].asset
  OBVIOUS
<1>1. Path(stack) /\ Len(stack) \in Nat /\ Len(c) \in Nat /\ k \in Nat
  BY StackTypes, CycleForm DEF PathInv
<1>2. CASE j = 1
  BY <1>1, <1>2 DEF Path
<1>3. CASE j # 1
  <2>1. /\ j - 1 \in 1 .. k - 1 /\ (j - 1) + 1 = j /\ j \in 2 .. Len(stack)
        /\ j - 1 \in 1 .. Len(c) /\ j - 1 # Len(c)
    BY <1>1, <1>3
  <2>2. c[j - 1] = stack[j].via
    BY <2>1 DEF Along
  <2>3. edges[c[j - 1]].to = edges[c[j]].from
    BY <2>1, CycleForm
  <2> QED BY <1>1, <2>1, <2>2, <2>3 DEF Path
<1> QED BY <1>2, <1>3

\* The next edge of a cycle that starts along the whole path is one that the frame on
\* top may take.
LEMMA NextOfCycle ==
  ASSUME IInv, PathInv, pc = "search", NEW c \in SimpleCycles(maxHops), edges[c[1]].from = Root,
         NEW n, n = Len(stack), n <= Len(c), Along(stack, c, n)
  PROVE  /\ c[n] \in DOMAIN edges /\ c[n] \in Nat /\ edges[c[n]].from = Top.asset
         /\ edges[c[n]].to = Root \/ edges[c[n]].to \notin visited
<1>1. /\ n \in Nat /\ n >= 1 /\ n \in 1 .. n /\ Top = stack[n] /\ Len(c) \in Nat
      /\ DOMAIN stack = 1 .. n /\ edges \in Seq(Edge)
  BY StackTypes, CycleForm DEF IInv, TypeOK
<1>2. \A j \in 1 .. n : edges[c[j]].from = stack[j].asset
  BY <1>1, AlongAssets
<1>3. c[n] \in DOMAIN edges /\ c[n] \in Nat
  BY <1>1, CycleForm
<1>4. CASE n = Len(c)
  <2>1. edges[c[n]].to = edges[c[1]].from
    BY <1>1, <1>4, CycleForm
  <2> QED BY <1>1, <1>2, <1>3, <2>1
<1>5. CASE n # Len(c)
  <2>1. n + 1 \in 1 .. Len(c) /\ n \in 1 .. Len(c) /\ n + 1 \notin 1 .. n
        /\ \A k \in 1 .. n : k \in 1 .. Len(c)
    BY <1>1, <1>5
  <2>2. edges[c[n]].to = edges[c[n + 1]].from
    BY <1>5, <2>1, CycleForm
  <2>3. \A k \in 1 .. n : stack[k].asset # edges[c[n + 1]].from
    <3>1. ASSUME NEW k \in 1 .. n PROVE edges[c[k]].from # edges[c[n + 1]].from
      BY <2>1, CycleForm
    <3> QED BY <1>2, <3>1
  <2>4. visited \ {Root} = {stack[k].asset : k \in 1 .. n} \ {Root}
    BY <1>1 DEF IInv, SearchInv
  <2> QED BY <1>1, <1>2, <1>3, <2>2, <2>3, <2>4
<1> QED BY <1>4, <1>5

\* What a search is past, by the frame on top and those below it.
LEMMA TriedSplit ==
  ASSUME IInv, pc = "search", NEW c
  PROVE  Tried(stack, c) <=>
           \/ Below(stack, c)
           \/ /\ Len(stack) <= Len(c) /\ Along(stack, c, Len(stack))
              /\ c[Len(stack)] < Top.next
<1>1. /\ Len(stack) \in Nat /\ Len(stack) \in 1 .. Len(stack) /\ Top = stack[Len(stack)]
      /\ \A k \in 1 .. Len(stack) : k # Len(stack) <=> k \in 1 .. Len(stack) - 1
      /\ \A k \in 1 .. Len(stack) - 1 : k \in 1 .. Len(stack)
  <2>1. Len(stack) \in Nat /\ Len(stack) >= 1 /\ Top = stack[Len(stack)]
    BY StackTypes
  <2> QED BY <2>1
<1> QED BY <1>1 DEF Tried, Below, Bound

LEMMA TriedPop ==
  ASSUME IInv, PathInv, pc = "search", Pop, Hops # 0, NEW c, Len(c) \in Nat,
         \A k \in 1 .. Len(c) : c[k] \in Nat
  PROVE  Tried(stack', c) <=> Below(stack, c) \/ Along(stack, c, Len(stack))
<1> DEFINE n == Len(stack)
           s == stack'
<1>1. /\ n \in Nat /\ n >= 2 /\ Len(s) = n - 1 /\ Path(stack)
      /\ \A k \in 1 .. n - 1 : s[k] = stack[k]
  BY PopShape, StackTypes DEF PathInv
<1>2. /\ n - 1 \in 1 .. n - 1 /\ n \in 2 .. n /\ (n - 1) + 1 = n
      /\ \A k \in 1 .. n - 1 : k # n - 1 => k \in 1 .. n - 2 /\ k + 1 \in 1 .. n - 1
      /\ \A k \in 1 .. n - 2 : k \in 1 .. n - 1 /\ k # n - 1 /\ k + 1 \in 1 .. n - 1
      /\ \A k \in 1 .. n - 1 : \A j \in 1 .. k - 1 : j + 1 \in 1 .. n - 1
  BY <1>1
<1> HIDE DEF n, s
<1>3. \A k \in 1 .. n - 1 : Along(s, c, k) <=> Along(stack, c, k)
  BY <1>1, <1>2 DEF Along
<1>4. stack[n].via \in Nat /\ s[n - 1].next = stack[n].via + 1
  <2>1. stack[n].via \in Nat
    <3>1. n \in 1 .. Len(stack)
      BY <1>1 DEF n
    <3> QED BY <3>1, StackTypes
  <2>2. stack[n - 1].next = stack[n].via + 1
    BY <1>1, <1>2 DEF Path, n
  <2> QED BY <1>1, <1>2, <2>1, <2>2
<1>5. Along(stack, c, n) <=> n - 1 <= Len(c) /\ Along(stack, c, n - 1) /\ c[n - 1] = stack[n].via
  <2>1. \A j \in 1 .. n - 1 : j = n - 1 \/ j \in 1 .. (n - 1) - 1
    BY <1>1
  <2>2. \A j \in 1 .. (n - 1) - 1 : j \in 1 .. n - 1
    BY <1>1
  <2>3. n - 1 <= Len(c) => (n - 1) - 1 <= Len(c)
    BY <1>1
  <2> QED BY <1>2, <2>1, <2>2, <2>3 DEF Along
<1>6. Tried(s, c) <=>
        \/ \E k \in 1 .. n - 2 : k <= Len(c) /\ Along(stack, c, k) /\ c[k] < stack[k + 1].via
        \/ n - 1 <= Len(c) /\ Along(stack, c, n - 1) /\ c[n - 1] < stack[n].via + 1
  <2>1. Bound(s, n - 1) = stack[n].via + 1
    BY <1>1, <1>4 DEF Bound
  <2>2. \A k \in 1 .. n - 2 : Bound(s, k) = stack[k + 1].via
    BY <1>1, <1>2 DEF Bound
  <2>3. Tried(s, c) <=> \E k \in 1 .. n - 1 : k <= Len(c) /\ Along(stack, c, k)
                                              /\ c[k] < Bound(s, k)
    BY <1>1, <1>3 DEF Tried
  <2> QED BY <1>2, <2>1, <2>2, <2>3
<1>7. Below(stack, c) <=>
        \/ \E k \in 1 .. n - 2 : k <= Len(c) /\ Along(stack, c, k) /\ c[k] < stack[k + 1].via
        \/ n - 1 <= Len(c) /\ Along(stack, c, n - 1) /\ c[n - 1] < stack[n].via
  <2>1. Below(stack, c) <=> \E k \in 1 .. n - 1 : k <= Len(c) /\ Along(stack, c, k)
                                                  /\ c[k] < stack[k + 1].via
    BY DEF Below, n
  <2> QED BY <1>2, <2>1
<1>8. n - 1 <= Len(c) => c[n - 1] \in Nat
  <2>1. n - 1 <= Len(c) => n - 1 \in 1 .. Len(c)
    BY <1>1
  <2> QED BY <2>1
<1>9. n - 1 <= Len(c) => (c[n - 1] < stack[n].via + 1
                          <=> c[n - 1] < stack[n].via \/ c[n - 1] = stack[n].via)
  BY <1>4, <1>8
<1>10. Tried(s, c) <=> Below(stack, c) \/ Along(stack, c, n)
  BY <1>5, <1>6, <1>7, <1>9
<1> QED BY <1>10 DEF n, s

LEMMA TriedFollow ==
  ASSUME IInv, NEW i \in DOMAIN edges, Follow(i), NEW c, Len(c) \in Nat,
         \A k \in 1 .. Len(c) : c[k] \in Nat \ {0}
  PROVE  Tried(stack', c) <=>
           \/ Below(stack, c)
           \/ Len(stack) <= Len(c) /\ Along(stack, c, Len(stack)) /\ c[Len(stack)] < i
<1> DEFINE n == Len(stack)
           s == stack'
<1>1. /\ n \in Nat /\ n >= 1 /\ Len(s) = n + 1
      /\ \A k \in 1 .. n - 1 : s[k] = stack[k]
      /\ s[n].via = stack[n].via /\ s[n + 1].via = i /\ s[n + 1].next = 1
  BY FollowShape, StackTypes DEF Follow
<1>2. /\ n \in 1 .. n /\ \A k \in 1 .. n + 1 : k = n + 1 \/ k = n \/ k \in 1 .. n - 1
      /\ \A k \in 1 .. n - 1 : k \in 1 .. n + 1 /\ k # n + 1 /\ (k + 1 = n \/ k + 1 \in 1 .. n - 1)
      /\ \A k \in 1 .. n : \A j \in 1 .. k - 1 : j + 1 = n \/ j + 1 \in 1 .. n - 1
      /\ n \in 1 .. n + 1 /\ n # n + 1 /\ \A k \in 1 .. n - 1 : k \in 1 .. n
  BY <1>1
<1> HIDE DEF n, s
<1>3. \A k \in 1 .. n : Along(s, c, k) <=> Along(stack, c, k)
  BY <1>1, <1>2 DEF Along
<1>4. \A k \in 1 .. n - 1 : Bound(s, k) = stack[k + 1].via
  BY <1>1, <1>2 DEF Bound
<1>5. Bound(s, n) = i /\ Bound(s, n + 1) = 1
  BY <1>1, <1>2 DEF Bound
<1>6. ~ (n + 1 <= Len(c) /\ c[n + 1] < 1)
  <2>1. n + 1 <= Len(c) => n + 1 \in 1 .. Len(c)
    BY <1>1
  <2>2. n + 1 <= Len(c) => c[n + 1] \in Nat \ {0}
    BY <2>1
  <2> QED BY <2>2
<1>7. Tried(s, c) <=>
        \/ \E k \in 1 .. n - 1 : k <= Len(c) /\ Along(stack, c, k) /\ c[k] < stack[k + 1].via
        \/ n <= Len(c) /\ Along(stack, c, n) /\ c[n] < i
  <2>1. Tried(s, c) <=> \E k \in 1 .. n + 1 : k <= Len(c) /\ Along(s, c, k) /\ c[k] < Bound(s, k)
    BY <1>1 DEF Tried
  <2>2. Tried(s, c) <=> \/ \E k \in 1 .. n - 1 : k <= Len(c) /\ Along(s, c, k) /\ c[k] < Bound(s, k)
                        \/ n <= Len(c) /\ Along(s, c, n) /\ c[n] < Bound(s, n)
    BY <1>2, <1>5, <1>6, <2>1
  <2> QED BY <1>2, <1>3, <1>4, <1>5, <2>2
<1> QED BY <1>7 DEF n, s, Below

LEMMA ProfitableForm ==
  ASSUME IInv, NEW c \in Profitable
  PROVE  /\ c \in SimpleCycles(maxHops) /\ edges[c[1]].from = Root
         /\ Len(c) \in Nat /\ Len(c) >= 2 /\ Len(c) <= maxHops /\ maxHops \in Nat
         /\ \A k \in 1 .. Len(c) : c[k] \in Nat \ {0}
<1>1. c \in SimpleCycles(maxHops) /\ edges[c[1]].from = Root
  BY DEF Profitable
<1>2. maxHops \in Nat /\ edges \in Seq(Edge)
  BY DEF IInv, TypeOK
<1>3. \A k \in DOMAIN edges : k \in Nat \ {0}
  BY <1>2
<1> QED BY <1>1, <1>2, <1>3, CycleForm

LEMMA SameProfitable ==
  ASSUME edges' = edges, maxHops' = maxHops
  PROVE  Profitable' = Profitable /\ \A cs, T : Holds(cs, T)' <=> Holds(cs, T)
<1>1. Profitable' = Profitable
  <2>1. SimpleCycles(maxHops)' = SimpleCycles(maxHops)
    BY DEF SimpleCycles
  <2> QED BY <2>1, SameCycles DEF Profitable
<1>2. ASSUME NEW CONSTANT cs, NEW CONSTANT T PROVE Holds(cs, T)' <=> Holds(cs, T)
  BY SameCycles DEF Holds
<1> QED BY <1>1, <1>2

\* A frame whose loop is over has been past all that goes on from it.
LEMMA Exhausted ==
  ASSUME IInv, PathInv, pc = "search", ~ Closed,
         Hops = maxHops \/ \A i \in DOMAIN edges : ~ Eligible(i),
         NEW c \in Profitable, Along(stack, c, Len(stack))
  PROVE  Len(stack) <= Len(c) /\ c[Len(stack)] < Top.next
<1> DEFINE n == Len(stack)
<1>1. /\ n \in Nat /\ n >= 1 /\ Top = stack[n] /\ Hops = n - 1 /\ Path(stack)
      /\ Top.next \in Nat
  <2>1. n \in Nat /\ n >= 1 /\ Top = stack[n] /\ Hops = n - 1
    BY StackTypes
  <2>2. n \in 1 .. Len(stack)
    BY <2>1
  <2> QED BY <2>1, <2>2, StackTypes DEF PathInv
<1>2. /\ c \in SimpleCycles(maxHops) /\ edges[c[1]].from = Root
      /\ Len(c) \in Nat /\ Len(c) >= 2 /\ Len(c) <= maxHops
  BY ProfitableForm
<1> HIDE DEF n
<1>3. n <= Len(c)
  <2> SUFFICES ASSUME Len(c) = n - 1 PROVE FALSE
    BY <1>1, <1>2 DEF Along, n
  <2>1. /\ n - 1 \in 1 .. n - 1 /\ n - 1 \in 1 .. Len(c) /\ n \in 2 .. n /\ (n - 1) + 1 = n
        /\ n >= 3
    BY <1>1, <1>2
  <2>2. c[n - 1] = stack[n].via
    BY <2>1 DEF Along, n
  <2>3. edges[c[n - 1]].to = Root
    BY <1>2, <2>1, CycleForm
  <2>4. edges[stack[n].via].to = stack[n].asset
    BY <1>1, <2>1 DEF Path, n
  <2> QED BY <1>1, <2>1, <2>2, <2>3, <2>4 DEF Closed
<1>4. Hops # maxHops
  BY <1>1, <1>2, <1>3
<1>5. /\ c[n] \in DOMAIN edges /\ c[n] \in Nat /\ edges[c[n]].from = Top.asset
      /\ edges[c[n]].to = Root \/ edges[c[n]].to \notin visited
  BY <1>2, <1>3, NextOfCycle DEF n
<1>6. c[n] < Top.next
  BY <1>1, <1>4, <1>5 DEF Eligible
<1> QED BY <1>3, <1>6 DEF n

\* The path of a closed cycle.
Legs == [h \in 1 .. Hops |-> stack[h + 1].via]

\* It is a simple cycle through the root with the weight of the frame on top.
LEMMA ClosedPath ==
  ASSUME IInv, PathInv, pc = "search", Closed
  PROVE  /\ Legs \in SimpleCycles(maxHops) /\ edges[Legs[1]].from = Root
         /\ WeightOf(Legs) = Top.weight
<1> DEFINE n == Len(stack)
           c == Legs
<1>1. /\ n \in Nat /\ n >= 3 /\ Top = stack[n] /\ Hops = n - 1 /\ n <= maxHops + 1
      /\ maxHops \in Nat /\ Path(stack) /\ stack[n].asset = Root /\ edges \in Seq(Edge)
      /\ DOMAIN stack = 1 .. n
  BY StackTypes DEF PathInv, Closed, IInv, TypeOK
<1>2. c = [h \in 1 .. n - 1 |-> stack[h + 1].via]
  BY <1>1 DEF Legs
<1> HIDE DEF c, n
<1>3. ASSUME NEW h \in 1 .. n - 1
      PROVE  /\ c[h] = stack[h + 1].via /\ c[h] \in DOMAIN edges
             /\ edges[c[h]].from = stack[h].asset /\ edges[c[h]].to = stack[h + 1].asset
             /\ stack[h + 1].weight = stack[h].weight + edges[c[h]].weight
  <2>1. h + 1 \in 2 .. n /\ (h + 1) - 1 = h
    BY <1>1
  <2>2. c[h] = stack[h + 1].via
    BY <1>2
  <2> QED BY <1>1, <2>1, <2>2 DEF Path, n
<1>4. c \in [1 .. n - 1 -> DOMAIN edges] /\ Len(c) = n - 1 /\ DOMAIN c = 1 .. n - 1
  <2>1. c = [h \in 1 .. n - 1 |-> c[h]]
    BY <1>2
  <2> QED BY <1>1, <1>3, <2>1
<1>5. edges[c[1]].from = Root /\ 1 \in 1 .. n - 1
  <2>1. 1 \in 1 .. n - 1
    BY <1>1
  <2> QED BY <1>1, <1>3, <2>1 DEF Path
<1>6. ASSUME NEW i \in 1 .. n - 1
      PROVE  edges[c[i]].to = edges[c[IF i = n - 1 THEN 1 ELSE i + 1]].from
  <2>1. CASE i = n - 1
    <3>1. i + 1 = n
      BY <1>1, <2>1
    <3> QED BY <1>1, <1>3, <1>5, <2>1, <3>1
  <2>2. CASE i # n - 1
    <3>1. i + 1 \in 1 .. n - 1
      BY <1>1, <2>2
    <3> QED BY <1>3, <2>2, <3>1
  <2> QED BY <2>1, <2>2
<1>7. ASSUME NEW i \in 1 .. n - 1, NEW j \in 1 .. n - 1, edges[c[i]].from = edges[c[j]].from
      PROVE  i = j
  <2>1. stack[i].asset = stack[j].asset /\ i \in DOMAIN stack /\ j \in DOMAIN stack
    BY <1>1, <1>3, <1>7
  <2>2. CASE stack[i].asset # Root
    BY <2>1, <2>2 DEF IInv, SearchInv
  <2>3. CASE stack[i].asset = Root
    <3>1. \A k \in 1 .. n - 1 : k = 1 \/ k \in 2 .. n - 1
      BY <1>1
    <3>2. \A k \in 2 .. n - 1 : stack[k].asset # Root
      BY <1>1 DEF Path, n
    <3> QED BY <2>1, <2>3, <3>1, <3>2
  <2> QED BY <2>2, <2>3
<1>8. c \in SimpleCycles(maxHops)
  <2>1. n - 1 \in 2 .. maxHops
    BY <1>1
  <2> QED BY <1>4, <1>6, <1>7, <2>1 DEF SimpleCycles
<1>9. WeightOf(c) = stack[n].weight
  <2> DEFINE w == [h \in 1 .. n - 1 |-> edges[c[h]].weight]
  <2>1. PICK S : IsPrefixSum(S, w, n - 1) /\ WeightOf(c) = S[n - 1]
    <3>1. n - 1 \in Nat
      BY <1>1
    <3> QED BY <1>1, <1>4, <3>1, WeightIsSum
  <2> DEFINE D == {k \in 0 .. n - 1 : S[k] = stack[k + 1].weight}
  <2>2. 0 \in D
    BY <1>1, <2>1 DEF Path, IsPrefixSum
  <2>3. ASSUME NEW k \in 0 .. (n - 1) - 1, k \in D PROVE k + 1 \in D
    <3>1. k + 1 \in 1 .. n - 1 /\ (k + 1) - 1 = k /\ k + 1 \in 0 .. n - 1
      BY <1>1
    <3>2. w[k + 1] = edges[c[k + 1]].weight
      BY <3>1
    <3>3. S[k + 1] = S[k] + w[k + 1]
      <4> HIDE DEF w
      <4> QED BY <2>1, <3>1 DEF IsPrefixSum
    <3>4. S[k] = stack[k + 1].weight
      BY <2>3
    <3>5. stack[(k + 1) + 1].weight = stack[k + 1].weight + edges[c[k + 1]].weight
      BY <1>3, <3>1
    <3> HIDE DEF w
    <3> QED BY <3>1, <3>2, <3>3, <3>4, <3>5
  <2>4. \A k \in 0 .. n - 1 : k \in D
    <3>1. n - 1 \in Nat
      BY <1>1
    <3> HIDE DEF D
    <3> QED BY <2>2, <2>3, <3>1, UpTo
  <2>5. n - 1 \in 0 .. n - 1 /\ (n - 1) + 1 = n
    BY <1>1
  <2> HIDE DEF w
  <2> QED BY <2>1, <2>4, <2>5
<1> QED BY <1>1, <1>5, <1>8, <1>9 DEF c

\* Where a cycle closes no other goes on.
LEMMA OnlyLegs ==
  ASSUME IInv, PathInv, pc = "search", Closed, NEW c \in Profitable
  PROVE  Along(stack, c, Len(stack)) <=> c = Legs
<1> DEFINE n == Len(stack)
<1>1. n \in Nat /\ n >= 3 /\ Top = stack[n] /\ Hops = n - 1 /\ Top.asset = Root
  BY StackTypes DEF Closed
<1>2. Legs = [h \in 1 .. n - 1 |-> stack[h + 1].via] /\ Len(Legs) = n - 1
  BY <1>1 DEF Legs
<1>3. /\ c \in SimpleCycles(maxHops) /\ edges[c[1]].from = Root
      /\ Len(c) \in Nat /\ Len(c) >= 2
  BY ProfitableForm
<1> HIDE DEF n
<1>4. ASSUME c = Legs PROVE Along(stack, c, n)
  BY <1>1, <1>2, <1>4 DEF Along
<1>5. ASSUME Along(stack, c, n) PROVE c = Legs
  <2>1. Len(c) = n - 1
    <3> SUFFICES ASSUME n <= Len(c) PROVE FALSE
      BY <1>1, <1>3, <1>5 DEF Along
    <3>1. edges[c[n]].from = edges[c[1]].from
      BY <1>1, <1>3, <1>5, NextOfCycle DEF n
    <3>2. n \in 1 .. Len(c) /\ 1 \in 1 .. Len(c) /\ n # 1
      BY <1>1, <1>3
    <3> QED BY <1>3, <3>1, <3>2, CycleForm
  <2>2. c = [h \in 1 .. n - 1 |-> c[h]]
    BY <1>3, <2>1, CycleForm
  <2>3. \A h \in 1 .. n - 1 : c[h] = stack[h + 1].via
    BY <1>5 DEF Along
  <2> QED BY <1>2, <2>2, <2>3
<1> QED BY <1>4, <1>5 DEF n

\* The path of a closed cycle was not tried before.
LEMMA LegsAreNew ==
  ASSUME IInv, PathInv, pc = "search", Closed
  PROVE  ~ Tried(stack, Legs)
<1> DEFINE n == Len(stack)
<1>1. n \in Nat /\ n >= 3 /\ Hops = n - 1 /\ \A k \in 1 .. n : stack[k].via \in Nat
  BY StackTypes DEF Closed
<1>2. Legs = [h \in 1 .. n - 1 |-> stack[h + 1].via] /\ Len(Legs) = n - 1
  BY <1>1 DEF Legs
<1>3. \A k \in 1 .. n - 1 : ~ (Legs[k] < stack[k + 1].via)
  <2> SUFFICES ASSUME NEW k \in 1 .. n - 1 PROVE ~ (Legs[k] < stack[k + 1].via)
    OBVIOUS
  <2>1. k + 1 \in 1 .. n /\ Legs[k] = stack[k + 1].via
    BY <1>1, <1>2
  <2>2. stack[k + 1].via \in Nat
    BY <1>1, <2>1
  <2> QED BY <2>1, <2>2
<1>4. ~ Below(stack, Legs)
  BY <1>3 DEF Below
<1>5. ~ (n <= Len(Legs))
  BY <1>1, <1>2
<1> QED BY <1>4, <1>5, TriedSplit

\* A result that holds just T, with one more that was not in it.
LEMMA HoldsMore ==
  ASSUME NEW cs, NEW X, cs \in Seq(X), NEW T, Holds(cs, T), NEW r, r.legs \notin T,
         r.weight = WeightOf(r.legs)
  PROVE  Holds(Append(cs, r), T \cup {r.legs})
<1> PICK N \in Nat : N = Len(cs)
  OBVIOUS
<1> PICK ds : ds = Append(cs, r)
  OBVIOUS
<1>1. /\ DOMAIN cs = 1 .. N /\ DOMAIN ds = 1 .. N + 1 /\ ds[N + 1] = r
      /\ \A n \in 1 .. N : ds[n] = cs[n]
  <2>1. cs \in Seq(X \cup {r})
    OBVIOUS
  <2> QED BY <2>1
<1>2. N + 1 \in 1 .. N + 1 /\ \A n \in 1 .. N + 1 : n = N + 1 \/ n \in 1 .. N
  OBVIOUS
<1>3. \A n \in 1 .. N : n \in 1 .. N + 1
  OBVIOUS
<1>4. \A n \in 1 .. N : cs[n].legs \in T
  BY <1>1 DEF Holds
<1>5. {ds[n].legs : n \in 1 .. N + 1} = T \cup {r.legs}
  <2>1. ASSUME NEW n \in 1 .. N + 1 PROVE ds[n].legs \in T \cup {r.legs}
    BY <1>1, <1>2, <1>4
  <2>2. ASSUME NEW t \in T PROVE t \in {ds[n].legs : n \in 1 .. N + 1}
    <3>1. PICK n \in 1 .. N : t = cs[n].legs
      BY <1>1 DEF Holds
    <3> QED BY <1>1, <1>3, <3>1
  <2>3. r.legs \in {ds[n].legs : n \in 1 .. N + 1}
    BY <1>1, <1>2
  <2> QED BY <2>1, <2>2, <2>3
<1>6. \A n \in 1 .. N + 1 : ds[n].weight = WeightOf(ds[n].legs)
  <2> SUFFICES ASSUME NEW n \in 1 .. N + 1 PROVE ds[n].weight = WeightOf(ds[n].legs)
    OBVIOUS
  <2>1. CASE n = N + 1
    BY <1>1, <2>1
  <2>2. CASE n \in 1 .. N
    BY <1>1, <2>2 DEF Holds
  <2> QED BY <1>2, <2>1, <2>2
<1>7. \A m, n \in 1 .. N + 1 : ds[m].legs = ds[n].legs => m = n
  <2> SUFFICES ASSUME NEW m \in 1 .. N + 1, NEW n \in 1 .. N + 1, ds[m].legs = ds[n].legs
               PROVE  m = n
    OBVIOUS
  <2>1. CASE m \in 1 .. N /\ n \in 1 .. N
    BY <1>1, <2>1 DEF Holds
  <2>2. CASE m = N + 1 /\ n \in 1 .. N
    BY <1>1, <1>4, <2>2
  <2>3. CASE m \in 1 .. N /\ n = N + 1
    BY <1>1, <1>4, <2>3
  <2> QED BY <1>2, <2>1, <2>2, <2>3
<1> QED BY <1>1, <1>5, <1>6, <1>7 DEF Holds

\* Sorting a result neither drops nor doubles a cycle.
LEMMA HoldsSorted ==
  ASSUME candidates \in Seq(Candidate), NEW T, Holds(candidates, T),
         NEW p \in [DOMAIN candidates -> DOMAIN candidates], Ranks(p)
  PROVE  Holds([i \in DOMAIN candidates |-> candidates[p[i]]], T)
<1> DEFINE D == DOMAIN candidates
           ds == [i \in D |-> candidates[p[i]]]
<1>1. /\ Len(candidates) \in Nat /\ D = 1 .. Len(candidates)
      /\ \A i \in D : candidates[i].weight \in Int
  <2>1. \A i \in D : candidates[i] \in Candidate
    OBVIOUS
  <2> QED BY <2>1 DEF Candidate
<1> HIDE DEF D
<1>2. ASSUME NEW i \in D, NEW j \in D, p[i] = p[j] PROVE i = j
  <2>1. \A x, y \in D : x < y => p[x] # p[y]
    <3> SUFFICES ASSUME NEW x \in D, NEW y \in D, x < y, p[x] = p[y] PROVE FALSE
      OBVIOUS
    <3>1. /\ p[x] \in D /\ p[x] \in Int
          /\ candidates[p[x]].weight \in Int
      BY <1>1 DEF D
    <3>2. \/ candidates[p[x]].weight < candidates[p[y]].weight
          \/ p[x] < p[y]
      BY DEF Ranks, D
    <3> QED BY <3>1, <3>2
  <2>2. i \in Int /\ j \in Int
    BY <1>1
  <2> QED BY <1>2, <2>1, <2>2
<1>3. p \in Injection(D, D)
  BY <1>2, Fun_IsInj DEF D
<1>4. p \in Surjection(D, D)
  <2>1. IsFiniteSet(D)
    BY <1>1, FS_Interval
  <2> QED BY <1>3, <2>1, FS_Injection
<1>5. \A t \in D : \E s \in D : p[s] = t
  BY <1>4, Fun_SurjectionProperties
<1>6. DOMAIN ds = D /\ \A i \in D : ds[i] = candidates[p[i]] /\ p[i] \in D
  BY DEF D
<1> HIDE DEF ds
<1>7. {ds[n].legs : n \in D} = T
  <2>1. ASSUME NEW n \in D PROVE ds[n].legs \in T
    BY <1>6 DEF Holds, D
  <2>2. ASSUME NEW t \in T PROVE t \in {ds[n].legs : n \in D}
    <3>1. PICK n \in D : t = candidates[n].legs
      BY DEF Holds, D
    <3>2. PICK m \in D : p[m] = n
      BY <1>5
    <3> QED BY <1>6, <3>1, <3>2
  <2> QED BY <2>1, <2>2
<1>8. \A n \in D : ds[n].weight = WeightOf(ds[n].legs)
  BY <1>6 DEF Holds, D
<1>9. \A m, n \in D : ds[m].legs = ds[n].legs => m = n
  BY <1>2, <1>6 DEF Holds, D
<1>10. Holds(ds, T)
  BY <1>6, <1>7, <1>8, <1>9 DEF Holds
<1> QED BY <1>10 DEF ds, D

LEMMA FoundNext ==
  ASSUME edges' = edges, maxHops' = maxHops
  PROVE  /\ Holds(candidates, {c \in Profitable : Tried(stack, c)})'
              <=> Holds(candidates', {c \in Profitable : Tried(stack', c)})
         /\ Holds(candidates, Profitable)' <=> Holds(candidates', Profitable)
  BY SameProfitable, SameCycles DEF Holds, Tried, Along, Bound

LEMMA FoundClose == IInv /\ PathInv /\ FoundInv /\ CloseCycle => FoundInv'
<1> SUFFICES ASSUME IInv, PathInv, FoundInv, CloseCycle PROVE FoundInv'
  OBVIOUS
<1>1. /\ pc = "search" /\ Closed /\ Pop /\ edges' = edges /\ maxHops' = maxHops
      /\ Hops # 0 /\ candidates \in Seq(Candidate)
  BY StackTypes DEF CloseCycle, Closed, graph, IInv, TypeOK
<1>2. pc' = "search"
  BY <1>1, PopShape
<1> DEFINE T == {c \in Profitable : Tried(stack, c)}
           U == {c \in Profitable : Tried(stack', c)}
           r == [legs |-> Legs, weight |-> Top.weight]
<1>3. Holds(candidates, T)
  BY <1>1 DEF FoundInv
<1>4. \A c \in Profitable : Tried(stack', c) <=> Tried(stack, c) \/ c = Legs
  <2> SUFFICES ASSUME NEW c \in Profitable
               PROVE  Tried(stack', c) <=> Tried(stack, c) \/ c = Legs
    OBVIOUS
  <2>1. Len(c) \in Nat /\ \A k \in 1 .. Len(c) : c[k] \in Nat
    BY ProfitableForm
  <2>2. Tried(stack', c) <=> Below(stack, c) \/ Along(stack, c, Len(stack))
    BY <1>1, <2>1, TriedPop
  <2>3. Along(stack, c, Len(stack)) <=> c = Legs
    BY <1>1, OnlyLegs
  <2>4. Tried(stack, c) => Below(stack, c) \/ c = Legs
    BY <1>1, <2>3, TriedSplit
  <2>5. Below(stack, c) => Tried(stack, c)
    BY <1>1, TriedSplit
  <2> QED BY <2>2, <2>3, <2>4, <2>5
<1>5. Legs \notin T /\ (Legs \in Profitable <=> - Top.weight >= MinGain)
      /\ Top.weight = WeightOf(Legs)
  BY <1>1, ClosedPath, LegsAreNew DEF Profitable
<1>6. candidates' = IF - Top.weight >= MinGain THEN Append(candidates, r) ELSE candidates
  BY DEF CloseCycle, Legs
<1>7. U = IF - Top.weight >= MinGain THEN T \cup {Legs} ELSE T
  BY <1>4, <1>5
<1>8. r.legs = Legs /\ r.weight = Top.weight
  OBVIOUS
<1>9. Holds(candidates', U)
  <2> HIDE DEF T, U, r
  <2>1. CASE - Top.weight >= MinGain
    <3>1. Holds(Append(candidates, r), T \cup {r.legs})
      BY <1>1, <1>3, <1>5, <1>8, HoldsMore
    <3> QED BY <1>6, <1>7, <1>8, <2>1, <3>1
  <2>2. CASE ~ (- Top.weight >= MinGain)
    BY <1>3, <1>6, <1>7, <2>2
  <2> QED BY <2>1, <2>2
<1> QED BY <1>1, <1>2, <1>9, FoundNext DEF FoundInv, SearchIsExact

LEMMA FoundFollow ==
  ASSUME IInv, PathInv, FoundInv, NEW i \in DOMAIN edges, Follow(i)
  PROVE  FoundInv'
<1>1. /\ pc = "search" /\ pc' = "search" /\ edges' = edges /\ maxHops' = maxHops
      /\ candidates' = candidates /\ Eligible(i) /\ \A j \in 1 .. i - 1 : ~ Eligible(j)
      /\ i \in Nat /\ edges \in Seq(Edge)
  BY DEF Follow, graph, IInv, TypeOK
<1> PICK n : n = Len(stack)
  OBVIOUS
<1>2. n \in Nat /\ n >= 1 /\ Top = stack[n] /\ Top.next \in Nat
  <2>1. n \in Nat /\ n >= 1 /\ Top = stack[n] /\ n \in 1 .. Len(stack)
    BY <1>1, StackTypes
  <2> QED BY <1>1, <2>1, StackTypes
<1>3. \A c \in Profitable : Tried(stack', c) <=> Tried(stack, c)
  <2> SUFFICES ASSUME NEW c \in Profitable PROVE Tried(stack', c) <=> Tried(stack, c)
    OBVIOUS
  <2>1. /\ c \in SimpleCycles(maxHops) /\ edges[c[1]].from = Root /\ Len(c) \in Nat
        /\ \A k \in 1 .. Len(c) : c[k] \in Nat \ {0}
    BY ProfitableForm
  <2>2. ASSUME n <= Len(c), Along(stack, c, n) PROVE c[n] < i <=> c[n] < Top.next
    <3>1. /\ c[n] \in DOMAIN edges /\ c[n] \in Nat /\ edges[c[n]].from = Top.asset
          /\ edges[c[n]].to = Root \/ edges[c[n]].to \notin visited
      BY <1>1, <2>1, <2>2, NextOfCycle
    <3>2. i >= Top.next
      BY <1>1 DEF Eligible
    <3>3. c[n] < i => ~ Eligible(c[n])
      <4>1. c[n] \in Nat \ {0}
        BY <1>2, <2>1, <2>2
      <4>2. c[n] < i => c[n] \in 1 .. i - 1
        BY <1>1, <4>1
      <4> QED BY <1>1, <4>2
    <3>4. c[n] >= Top.next => Eligible(c[n])
      BY <3>1 DEF Eligible
    <3> QED BY <1>1, <1>2, <3>1, <3>2, <3>3, <3>4
  <2>3. Tried(stack', c) <=> Below(stack, c) \/ (n <= Len(c) /\ Along(stack, c, n) /\ c[n] < i)
    BY <2>1, TriedFollow
  <2>4. Tried(stack, c) <=> \/ Below(stack, c)
                            \/ n <= Len(c) /\ Along(stack, c, n) /\ c[n] < Top.next
    BY <1>1, TriedSplit
  <2> QED BY <2>2, <2>3, <2>4
<1>4. {c \in Profitable : Tried(stack', c)} = {c \in Profitable : Tried(stack, c)}
  BY <1>3
<1>5. Holds(candidates', {c \in Profitable : Tried(stack', c)})
  BY <1>1, <1>4 DEF FoundInv
<1> QED BY <1>1, <1>5, FoundNext DEF FoundInv, SearchIsExact

LEMMA FoundBacktrack == IInv /\ PathInv /\ FoundInv /\ Backtrack => FoundInv'
<1> SUFFICES ASSUME IInv, PathInv, FoundInv, Backtrack PROVE FoundInv'
  OBVIOUS
<1>1. /\ pc = "search" /\ ~ Closed /\ Pop /\ edges' = edges /\ maxHops' = maxHops
      /\ Hops = maxHops \/ \A i \in DOMAIN edges : ~ Eligible(i)
      /\ candidates \in Seq(Candidate)
  BY DEF Backtrack, graph, IInv, TypeOK
<1> PICK n : n = Len(stack)
  OBVIOUS
<1>2. Holds(candidates, {c \in Profitable : Tried(stack, c)})
  BY <1>1 DEF FoundInv
<1>3. \A c \in Profitable : Along(stack, c, n) => n <= Len(c) /\ c[n] < Top.next
  BY <1>1, Exhausted
<1>4. CASE Hops # 0
  <2>1. pc' = "search" /\ candidates' = candidates
    BY <1>1, <1>4, PopShape DEF Backtrack
  <2>2. \A c \in Profitable : Tried(stack', c) <=> Tried(stack, c)
    <3> SUFFICES ASSUME NEW c \in Profitable PROVE Tried(stack', c) <=> Tried(stack, c)
      OBVIOUS
    <3>1. Len(c) \in Nat /\ \A k \in 1 .. Len(c) : c[k] \in Nat
      BY ProfitableForm
    <3>2. Tried(stack', c) <=> Below(stack, c) \/ Along(stack, c, n)
      BY <1>1, <1>4, <3>1, TriedPop
    <3>3. Tried(stack, c) <=> \/ Below(stack, c)
                              \/ n <= Len(c) /\ Along(stack, c, n) /\ c[n] < Top.next
      BY <1>1, TriedSplit
    <3> QED BY <1>3, <3>2, <3>3
  <2>3. {c \in Profitable : Tried(stack', c)} = {c \in Profitable : Tried(stack, c)}
    BY <2>2
  <2>4. Holds(candidates', {c \in Profitable : Tried(stack', c)})
    BY <1>2, <2>1, <2>3
  <2> QED BY <1>1, <2>1, <2>4, FoundNext DEF FoundInv, SearchIsExact
<1>5. CASE Hops = 0
  <2>1. pc' = "searched"
    BY <1>1, <1>5, PopShape
  <2>0. n = 1
    <3>1. Len(stack) \in Nat /\ Hops = Len(stack) - 1
      BY <1>1, StackTypes
    <3>2. \A m \in Nat : 0 = m - 1 => m = 1
      OBVIOUS
    <3> QED BY <1>5, <3>1, <3>2, Zenon
  <2>2. {c \in Profitable : Tried(stack, c)} = Profitable
    <3> SUFFICES ASSUME NEW c \in Profitable PROVE Tried(stack, c)
      OBVIOUS
    <3>1. n = 1 /\ Len(c) \in Nat
      BY <2>0, ProfitableForm
    <3>2. Along(stack, c, n)
      BY <3>1 DEF Along
    <3> QED BY <1>1, <1>3, <3>2, TriedSplit
  <2>3. PICK p \in [DOMAIN candidates -> DOMAIN candidates] :
          Ranks(p) /\ candidates' = [i \in DOMAIN candidates |-> candidates[p[i]]]
    BY <1>5 DEF Backtrack
  <2>4. Holds(candidates', Profitable)
    BY <1>1, <1>2, <2>2, <2>3, HoldsSorted
  <2>5. Holds(candidates, Profitable)'
    BY <1>1, <2>4, FoundNext
  <2>6. SearchIsExact'
    BY <2>5 DEF Holds, Profitable, SearchIsExact
  <2> QED BY <2>1, <2>6 DEF FoundInv
<1> QED BY <1>4, <1>5

LEMMA FoundStep == IInv /\ PathInv /\ FoundInv /\ [Next]_vars => FoundInv'
<1> SUFFICES ASSUME IInv, PathInv, FoundInv, [Next]_vars PROVE FoundInv'
  OBVIOUS
<1>1. ASSUME pc' \notin {"search", "searched"}, candidates' = << >> PROVE FoundInv'
  BY <1>1 DEF FoundInv, SearchIsExact
<1>2. CASE GraphStep
  BY <1>1, <1>2 DEF GraphStep, AddNode, AddEdge, RemoveEdge, Clear, search, FoundInv
<1>3. CASE DetectStep
  BY <1>1, <1>3 DEF DetectStep, StartDetect, RelaxEdge, EndRelax, CheckEdge, EndCheck, Seek,
                    SeekInVain, SeekSucceeds, Collect, Report, search, FoundInv
<1>4. CASE Return
  BY <1>1, <1>4 DEF Return
<1>5. ASSUME NEW h \in HopLimits, StartSearch(h) PROVE FoundInv'
  <2>1. /\ pc' = "search" /\ candidates' = << >>
        /\ stack' = <<[asset |-> Root, next |-> 1, via |-> 0, weight |-> 0]>>
        /\ edges' = edges /\ edges \in Seq(Edge)
    BY <1>5 DEF StartSearch, FoundInv, graph, IInv, TypeOK
  <2>2. Len(stack') = 1 /\ stack'[1].next = 1
    BY <2>1
  <2>3. ASSUME NEW c \in Profitable' PROVE ~ Tried(stack', c)
    <3>1. c \in SimpleCycles(maxHops')
      BY <2>1, <2>3, SameCycles DEF Profitable
    <3>2. Len(c) \in 2 .. maxHops' /\ c \in [1 .. Len(c) -> DOMAIN edges]
      BY <3>1, CycleForm
    <3>3. 1 \in 1 .. Len(c) /\ \A k \in DOMAIN edges : k \in Nat \ {0}
      BY <2>1, <3>2
    <3>4. ~ (c[1] < 1)
      <4>1. c[1] \in Nat \ {0}
        BY <3>2, <3>3
      <4> QED BY <4>1
    <3> QED BY <2>2, <3>4 DEF Tried, Bound
  <2>4. {c \in Profitable' : Tried(stack', c)} = {}
    BY <2>3
  <2>5. Holds(candidates, {c \in Profitable : Tried(stack, c)})'
    <3>1. {c \in Profitable : Tried(stack, c)}' = {}
      BY <2>4 DEF Tried, Along, Bound
    <3> QED BY <2>1, <3>1 DEF Holds
  <2> QED BY <2>1, <2>5 DEF FoundInv, SearchIsExact
<1>6. CASE CloseCycle
  BY <1>6, FoundClose
<1>7. CASE Backtrack
  BY <1>7, FoundBacktrack
<1>8. ASSUME NEW i \in DOMAIN edges, Follow(i) PROVE FoundInv'
  BY <1>8, FoundFollow
<1>9. CASE UNCHANGED vars
  <2>1. /\ pc' = pc /\ candidates' = candidates /\ stack' = stack /\ edges' = edges
        /\ maxHops' = maxHops
    BY <1>9 DEF vars
  <2>2. Holds(candidates, {c \in Profitable : Tried(stack, c)})'
        <=> Holds(candidates, {c \in Profitable : Tried(stack, c)})
    BY <2>1, FoundNext
  <2>3. Holds(candidates, Profitable)' <=> Holds(candidates, Profitable)
    BY <2>1, FoundNext
  <2>4. SearchIsExact' <=> SearchIsExact
    BY <2>1, <2>3 DEF SearchIsExact, Holds, Profitable
  <2> QED BY <2>1, <2>2, <2>4 DEF FoundInv
<1> QED BY <1>2, <1>3, <1>4, <1>5, <1>6, <1>7, <1>8, <1>9, Steps DEF SearchStep

-----------------------------------------------------------------------------
(* The layers *)

\* What holds throughout: one layer on the other.
Layers == IInv /\ PotentialInv /\ TraceInv /\ QuietInv /\ PathInv /\ FoundInv

LEMMA InitLayers == Init => Layers
<1> SUFFICES ASSUME Init PROVE Layers
  OBVIOUS
<1>1. IInv
  BY InitInv
<1>2. PotentialInv
  <2>1. NoLoops
    BY DEF Init, NoLoops
  <2>2. \A v \in Assets : pred[v] = Null
    BY DEF Init, Blank
  <2>3. \A C \in SUBSET Assets : ~ Loop(C)
    BY <2>2, CycleAssumption DEF Loop
  <2> QED BY <2>1, <2>2, <2>3 DEF PotentialInv, Potential, StrictLoops
<1>3. TraceInv /\ QuietInv /\ PathInv
  BY DEF Init, TraceInv, ReportedGains, QuietInv, PathInv
<1>4. FoundInv
  BY DEF Init, FoundInv, SearchIsExact
<1> QED BY <1>1, <1>2, <1>3, <1>4 DEF Layers

LEMMA LayersInvariance == Spec => []Layers
<1>1. Layers /\ [Next]_vars => Layers'
  <2> SUFFICES ASSUME Layers, [Next]_vars PROVE Layers'
    OBVIOUS
  <2>1. IInv'
    BY NextInv, StutterInv DEF Layers
  <2>2. PotentialInv'
    BY PotentialStep DEF Layers
  <2>3. TraceInv' /\ QuietInv'
    BY TraceStep, QuietStep DEF Layers
  <2>4. PathInv' /\ FoundInv'
    BY PathStep, FoundStep DEF Layers
  <2> QED BY <2>1, <2>2, <2>3, <2>4 DEF Layers
<1> QED BY <1>1, InitLayers, PTL DEF Spec

-----------------------------------------------------------------------------
(* Calls end *)

\* A step of detectNegativeCycles goes on to a later place, or moves on in its loop.
Onward == {<<"relax", "check">>, <<"check", "seek">>, <<"check", "detected">>,
           <<"seek", "collect">>, <<"seek", "detected">>, <<"collect", "detected">>}
DetectionAdvances ==
  \/ <<pc, pc'>> \in Onward
  \/ /\ pc = "relax" /\ pc' = pc
     /\ pass' > pass \/ (pass' = pass /\ at' > at)
  \/ pc = "check" /\ pc' = pc /\ at' > at
  \/ pc = "seek" /\ pc' = pc /\ seen \subseteq seen' /\ seen' # seen
  \/ pc = "collect" /\ pc' = pc /\ Len(cycle') > Len(cycle)

\* t comes after s in the order of a depth-first search: the first frame by which they
\* differ is further in its loop, or has returned.
Further(s, t) ==
  \E k \in 1 .. Len(s) :
    /\ k - 1 <= Len(t) /\ \A j \in 1 .. k - 1 : t[j].next = s[j].next
    /\ k <= Len(t) => t[k].next > s[k].next
SearchAdvances ==
  pc = "search" /\ pc' \in {"search", "searched"} /\ maxHops' = maxHops /\ Further(stack, stack')

\* Every step of a call moves on, in one of these orders, and leaves alone what bounds it.
CallAdvances ==
  Step => \/ pc' = "idle"
          \/ UNCHANGED graph /\ (DetectionAdvances \/ SearchAdvances)

\* How far a call can come.
CallIsBounded ==
  /\ pc = "relax" => pass <= Cardinality(nodes) /\ at <= Len(edges)
  /\ pc = "check" => at <= Len(edges) + 1
  /\ pc = "collect" => Len(cycle) <= Cardinality(Assets)
  /\ pc = "search" =>
       Len(stack) <= maxHops + 1 /\ \A k \in 1 .. Len(stack) : stack[k].next <= Len(edges) + 1

\* Its loops start at their beginning and do not run over.
LoopInv ==
  /\ pc \in {"idle", "search", "searched"} => pass = 0
  /\ pc = "relax" => pass <= Cardinality(nodes)
  /\ pc = "check" => at <= Len(edges) + 1
  /\ pc = "search" => \A k \in 1 .. Len(stack) : stack[k].next <= Len(edges) + 1

LEMMA NodesFinite == IInv => Cardinality(nodes) \in Nat
  BY FS_Subset, FS_CardinalityType, CycleAssumption DEF IInv, TypeOK

LEMMA LoopStep == IInv /\ LoopInv /\ [Next]_vars => LoopInv'
<1> SUFFICES ASSUME IInv, LoopInv, [Next]_vars PROVE LoopInv'
  OBVIOUS
<1>0. edges \in Seq(Edge) /\ Len(edges) \in Nat /\ DOMAIN edges = 1 .. Len(edges)
      /\ pass \in Nat /\ at \in Nat
  BY DEF IInv, TypeOK
<1>1. CASE GraphStep
  BY <1>1 DEF GraphStep, AddNode, AddEdge, RemoveEdge, Clear, detection, LoopInv
<1>2. CASE StartDetect
  BY <1>2, NodesFinite DEF StartDetect, LoopInv, graph
<1>3. CASE RelaxEdge
  <2>1. pc' = "relax" /\ nodes' = nodes /\ pass < Cardinality(nodes) - 1 /\ pass' \in {pass, pass + 1}
    BY <1>0, <1>3 DEF RelaxEdge, graph
  <2> QED BY <1>0, <2>1, NodesFinite DEF LoopInv
<1>4. CASE EndRelax
  <2>1. pc' = "check" /\ at' = at /\ edges' = edges /\ at \in DOMAIN edges
    BY <1>4 DEF EndRelax, graph, IInv, DetectInv
  <2> QED BY <1>0, <2>1 DEF LoopInv
<1>5. CASE CheckEdge
  <2>1. pc' \in {"check", "seek"} /\ edges' = edges /\ at <= Len(edges) /\ at' \in {at, at + 1}
    BY <1>5 DEF CheckEdge, graph
  <2> QED BY <1>0, <2>1 DEF LoopInv
<1>6. CASE EndCheck \/ Seek \/ SeekInVain \/ SeekSucceeds \/ Collect \/ Report
  <2>1. pc' \in {"seek", "collect", "detected"}
    BY <1>6 DEF EndCheck, Seek, SeekInVain, SeekSucceeds, Collect, Report
  <2> QED BY <2>1 DEF LoopInv
<1>7. CASE Return
  BY <1>7 DEF Return, LoopInv
<1>8. ASSUME NEW h \in HopLimits, StartSearch(h) PROVE LoopInv'
  <2>1. /\ stack' = <<[asset |-> Root, next |-> 1, via |-> 0, weight |-> 0]>>
        /\ pc = "idle" /\ pc' = "search" /\ pass' = pass /\ edges' = edges
    BY <1>8 DEF StartSearch, graph, detection
  <2>2. Len(stack') = 1 /\ stack'[1].next = 1
    BY <2>1
  <2>3. \A k \in 1 .. Len(stack') : stack'[k].next <= Len(edges) + 1
    BY <1>0, <2>2
  <2> QED BY <2>1, <2>3 DEF LoopInv
<1>9. CASE CloseCycle \/ Backtrack
  <2>1. pc = "search" /\ Pop /\ edges' = edges /\ pass' = pass
    BY <1>9 DEF CloseCycle, Backtrack, graph, detection
  <2>2. CASE Hops = 0
    <3>1. pc' = "searched"
      BY <2>1, <2>2, PopShape
    <3> QED BY <2>1, <3>1 DEF LoopInv
  <2>3. CASE Hops # 0
    <3>1. /\ pc' = "search" /\ Len(stack') = Len(stack) - 1 /\ Len(stack) \in Nat
          /\ \A k \in 1 .. Len(stack) - 1 : stack'[k] = stack[k]
      BY <2>1, <2>3, PopShape, StackTypes
    <3>2. \A k \in 1 .. Len(stack') : stack'[k].next <= Len(edges) + 1
      BY <2>1, <3>1 DEF LoopInv
    <3> QED BY <2>1, <3>1, <3>2 DEF LoopInv
  <2> QED BY <2>2, <2>3
<1>10. ASSUME NEW i \in DOMAIN edges, Follow(i) PROVE LoopInv'
  <2>1. pc = "search" /\ pc' = pc /\ edges' = edges /\ pass' = pass
    BY <1>10 DEF Follow, graph, detection
  <2>2. PICK n : n = Len(stack)
    OBVIOUS
  <2>3. /\ n \in Nat /\ Len(stack') = n + 1
        /\ \A k \in 1 .. n - 1 : stack'[k] = stack[k]
        /\ stack'[n].next = i + 1 /\ stack'[n + 1].next = 1
    BY <1>10, <2>1, <2>2, FollowShape, StackTypes
  <2>4. ASSUME NEW k \in 1 .. Len(stack') PROVE stack'[k].next <= Len(edges) + 1
    <3>1. CASE k \in 1 .. n - 1
      BY <2>1, <2>2, <2>3, <3>1 DEF LoopInv
    <3>2. CASE k = n
      BY <1>0, <2>3, <3>2
    <3>3. CASE k = n + 1
      BY <1>0, <2>3, <3>3
    <3> QED BY <2>3, <3>1, <3>2, <3>3
  <2> QED BY <2>1, <2>4 DEF LoopInv
<1>11. CASE UNCHANGED vars
  BY <1>11 DEF vars, LoopInv
<1> QED BY <1>1, <1>2, <1>3, <1>4, <1>5, <1>6, <1>7, <1>8, <1>9, <1>10, <1>11, Steps
           DEF DetectStep, SearchStep

\* The cycle is collected along a loop that repeats no asset.
LEMMA LoopIsShort ==
  ASSUME NEW path, ClosedLoop(path)
  PROVE  Len(path) <= Cardinality(Assets)
<1>1. PICK n : n = Len(path)
  OBVIOUS
<1>2. n \in Nat /\ Distinct(path) /\ \A i \in 1 .. n : path[i] \in Assets
  BY <1>1 DEF ClosedLoop
<1> DEFINE f == [i \in 1 .. n |-> path[i]]
<1>3. f \in Injection(1 .. n, Assets)
  BY <1>1, <1>2 DEF Distinct, Injection, IsInjective
<1>4. Cardinality(1 .. n) <= Cardinality(Assets)
  BY <1>3, FS_Injection, CycleAssumption
<1>5. Cardinality(1 .. n) = n
  BY <1>2, FS_Interval
<1> QED BY <1>1, <1>4, <1>5

LEMMA BoundsHold == Layers /\ LoopInv => CallIsBounded
<1> SUFFICES ASSUME Layers, LoopInv PROVE CallIsBounded
  OBVIOUS
<1>1. pc = "relax" => at <= Len(edges)
  BY DEF Layers, IInv, DetectInv, TypeOK
<1>2. ASSUME pc = "collect" PROVE Len(cycle) <= Cardinality(Assets)
  <2>1. PICK loop \in Seq(Assets) : ClosedLoop(loop) /\ Len(cycle) \in 1 .. Len(loop)
    BY <1>2, NextOfLoop DEF Layers
  <2>2. Len(loop) <= Cardinality(Assets) /\ Cardinality(Assets) \in Nat
    BY <2>1, LoopIsShort, FS_CardinalityType, CycleAssumption
  <2> QED BY <2>1, <2>2
<1> QED BY <1>1, <1>2 DEF CallIsBounded, LoopInv, Layers, PathInv

LEMMA StepAdvances == IInv /\ PathInv /\ Step => CallAdvances
<1> SUFFICES ASSUME IInv, PathInv, Step
             PROVE  \/ pc' = "idle"
                    \/ UNCHANGED graph /\ (DetectionAdvances \/ SearchAdvances)
  BY DEF CallAdvances
<1>0. pass \in Nat /\ at \in Nat /\ cycle \in Seq(Assets) /\ curr \in Assets \cup {Null}
  BY DEF IInv, TypeOK
<1>1. CASE RelaxEdge
  <2>1. /\ pc = "relax" /\ pc' = pc /\ UNCHANGED graph
        /\ (pass' = pass /\ at' = at + 1) \/ pass' = pass + 1
    BY <1>1 DEF RelaxEdge
  <2> QED BY <1>0, <2>1 DEF DetectionAdvances
<1>2. CASE EndRelax \/ EndCheck \/ SeekInVain \/ SeekSucceeds \/ Report
  <2>1. <<pc, pc'>> \in Onward /\ UNCHANGED graph
    BY <1>2 DEF EndRelax, EndCheck, SeekInVain, SeekSucceeds, Report, Onward
  <2> QED BY <2>1 DEF DetectionAdvances
<1>3. CASE CheckEdge
  <2>1. UNCHANGED graph /\ pc = "check" /\ (pc' = "seek" \/ (pc' = pc /\ at' = at + 1))
    BY <1>3 DEF CheckEdge
  <2> QED BY <1>0, <2>1 DEF DetectionAdvances, Onward
<1>4. CASE Seek
  <2>1. UNCHANGED graph /\ pc = "seek" /\ pc' = pc /\ seen' = seen \cup {curr} /\ curr \notin seen
    BY <1>4 DEF Seek
  <2> QED BY <2>1 DEF DetectionAdvances
<1>5. CASE Collect
  <2>1. UNCHANGED graph /\ pc = "collect" /\ pc' = pc /\ cycle' = Append(cycle, curr)
        /\ curr \in Assets
    BY <1>0, <1>5 DEF Collect
  <2>2. Len(cycle') = Len(cycle) + 1 /\ Len(cycle) \in Nat
    BY <1>0, <2>1
  <2> QED BY <2>1, <2>2 DEF DetectionAdvances
<1>6. CASE CloseCycle \/ Backtrack
  <2>1. pc = "search" /\ Pop /\ UNCHANGED graph /\ maxHops' = maxHops
    BY <1>6 DEF CloseCycle, Backtrack
  <2>2. PICK n : n = Len(stack)
    OBVIOUS
  <2>3. n \in Nat /\ n >= 1
    BY <2>1, <2>2, StackTypes
  <2>4. pc' \in {"search", "searched"} /\ Len(stack') = n - 1
        /\ \A k \in 1 .. n - 1 : stack'[k] = stack[k]
    <3>1. CASE Hops = 0
      <4>1. pc' = "searched" /\ stack' = << >>
        BY <2>1, <3>1 DEF Pop
      <4>2. 0 = n - 1
        BY <2>1, <2>2, <3>1, StackTypes, Zenon
      <4>3. n = 1
        BY <2>3, <4>2
      <4> QED BY <4>1, <4>3
    <3>2. CASE Hops # 0
      BY <2>1, <2>2, <3>2, PopShape
    <3> QED BY <3>1, <3>2
  <2>5. Further(stack, stack')
    <3>1. n \in 1 .. n /\ n - 1 <= n - 1 /\ ~ (n <= n - 1)
      BY <2>3
    <3> QED BY <2>2, <2>4, <3>1 DEF Further
  <2> QED BY <2>1, <2>4, <2>5 DEF SearchAdvances
<1>7. ASSUME NEW i \in DOMAIN edges, Follow(i)
      PROVE  UNCHANGED graph /\ SearchAdvances
  <2>1. pc = "search" /\ pc' = pc /\ UNCHANGED graph /\ maxHops' = maxHops /\ i >= Top.next
    BY <1>7 DEF Follow, Eligible
  <2>2. PICK n : n = Len(stack)
    OBVIOUS
  <2>3. /\ n \in Nat /\ n >= 1 /\ Len(stack') = n + 1
        /\ \A k \in 1 .. n - 1 : stack'[k] = stack[k]
        /\ stack'[n].next = i + 1 /\ Top = stack[n] /\ stack[n].next \in Nat /\ i \in Nat
    <3>1. n \in Nat /\ n >= 1 /\ Top = stack[n] /\ stack[n].next \in Nat
      BY <2>1, <2>2, StackTypes
    <3>2. i \in Nat
      BY DEF IInv, TypeOK
    <3> QED BY <1>7, <2>2, <3>1, <3>2, FollowShape
  <2>4. stack'[n].next > stack[n].next
    BY <2>1, <2>3
  <2>5. Further(stack, stack')
    <3>1. n \in 1 .. n /\ n - 1 <= n + 1
      BY <2>3
    <3> QED BY <2>2, <2>3, <2>4, <3>1 DEF Further
  <2> QED BY <2>1, <2>5 DEF SearchAdvances
<1>8. CASE Return
  BY <1>8 DEF Return
<1> QED BY <1>1, <1>2, <1>3, <1>4, <1>5, <1>6, <1>7, <1>8 DEF Step

-----------------------------------------------------------------------------
(* The theorems *)

\* Every variable keeps its type, in particular the cycles reported name assets only.
THEOREM TypeCorrect == Spec => []TypeOK
<1>1. IInv => TypeOK
  BY DEF IInv
<1> QED BY <1>1, Invariance, PTL

\* Whatever the graph and the order of its edges, detectNegativeCycles reports only
\* closed walks of the graph: the trace back never runs out inside a cycle.
THEOREM ReportedIsCycleCorrect == Spec => []ReportedIsCycle
<1>1. IInv => ReportedIsCycle
  BY DEF IInv, DetectInv
<1> QED BY <1>1, Invariance, PTL

\* The visited set that every call of dfs adds to and deletes from holds the path's
\* assets, for any limit of hops.
THEOREM VisitedIsPathCorrect == Spec => []VisitedIsPath
<1>1. IInv => VisitedIsPath
  BY DEF IInv, SearchInv, VisitedIsPath
<1> QED BY <1>1, Invariance, PTL

\* What detectNegativeCycles reports gains: the legs of a reported cycle are those of
\* a simple cycle of edges whose weights sum up to less than nothing, although the
\* distances they were found by have changed in place since.
THEOREM ReportedGainsCorrect == Spec => []ReportedGains
<1>1. Layers => ReportedGains
  BY DEF Layers, TraceInv
<1> QED BY <1>1, LayersInvariance, PTL

\* A detection whose check loop passes every edge was right to say nothing, on any
\* graph: no simple cycle within reach of the root gains more than the tolerance of its
\* edges.
THEOREM SilenceIsSafeCorrect == Spec => []SilenceIsSafe
<1>1. Layers => SilenceIsSafe
  BY QuietIsSafe DEF Layers
<1> QED BY <1>1, LayersInvariance, PTL

\* findProfitableCycles is exact: on any graph and for any limit of hops it returns each
\* simple cycle through the root that gains enough once, with its weight, and no other.
THEOREM SearchIsExactCorrect == Spec => []SearchIsExact
<1>1. Layers => SearchIsExact
  BY DEF Layers, FoundInv
<1> QED BY <1>1, LayersInvariance, PTL

\* What keeps a call from running for ever, on any graph: each of its steps moves on, in an
\* order in which it can come only so far.  The trace collects no more than all assets,
\* so the loop along the predecessors closes, and the frames of the depth-first search,
\* read from the first to the last, only go up.
THEOREM CallsRunOut == Spec => []CallIsBounded /\ [][CallAdvances]_vars
<1>1. Init => Layers /\ LoopInv
  BY InitLayers DEF Init, LoopInv
<1>2. LoopInv /\ Layers /\ [Next]_vars => LoopInv'
  BY LoopStep DEF Layers
<1>3. Layers /\ [Next]_vars => [CallAdvances]_vars
  <2>1. Layers /\ Next => CallAdvances
    BY StepAdvances DEF CallAdvances, Layers
  <2> QED BY <2>1
<1>4. Layers /\ LoopInv => CallIsBounded
  BY BoundsHold
<1> QED BY <1>1, <1>2, <1>3, <1>4, LayersInvariance, PTL DEF Spec
=============================================================================
