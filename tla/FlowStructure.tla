--------------------------- MODULE FlowStructure ---------------------------
(***************************************************************************)
(* What SeaCurrent finds in the structure of a region: a double cover of   *)
(* its flow graph by cycles (src/seacurrent/cdc.ts) and a modulo schedule  *)
(* of a pipelined loop (src/seacurrent/schedule.ts).                       *)
(***************************************************************************)
EXTENDS Integers, SequencesExt, TLC

-----------------------------------------------------------------------------
(* The cycle double cover of the undirected shadow of a flow graph: every  *)
(* edge that is no bridge in exactly two cycles, whose layer labels differ *)
(* where cycles overlap.                                                   *)
(*                                                                         *)
(* Edges keep the position they have in the flow graph as their name; the  *)
(* search numbers the covered ones afresh.                                 *)

CdcLabels == 8

Other(e, node) == IF e.source = node THEN e.destination ELSE e.source
\* A self loop is listed once for each of its ends.
Incident(edges, node) ==
  FlattenSeq([i \in DOMAIN edges |->
    (IF edges[i].source = node THEN <<i>> ELSE <<>>)
      \o (IF edges[i].destination = node THEN <<i>> ELSE <<>>)])

-----------------------------------------------------------------------------
(* findBridges: Tarjan's walk, one edge or one return per step.  A state   *)
(* is [found, low, clock, bridges]; an edge back over the edge walked in   *)
(* by is skipped, a parallel edge is not.                                  *)

Least(a, b) == IF a < b THEN a ELSE b

RECURSIVE Visit(_, _, _, _), VisitEdges(_, _, _, _, _)
Visit(edges, node, by, st) ==
  VisitEdges(edges, node, by, Incident(edges, node),
             [st EXCEPT !.found = @ @@ (node :> st.clock), !.low = @ @@ (node :> st.clock),
                        !.clock = @ + 1])
\* The way back is recognized by the node it leads to.
VisitOtherNodes(edges, node, by, pending, st) ==
  IF pending = <<>> THEN st
  ELSE LET i == Head(pending)
           next == Other(edges[i], node) IN
       VisitEdges(edges, node, by, Tail(pending),
         CASE by # 0 /\ next = Other(edges[by], node) -> st
           [] next \in DOMAIN st.found -> [st EXCEPT !.low[node] = Least(@, st.found[next])]
           [] OTHER ->
                LET below == Visit(edges, next, i, st) IN
                [below EXCEPT !.low[node] = Least(@, below.low[next]),
                              !.bridges = IF below.low[next] > below.found[node]
                                          THEN @ \cup {i} ELSE @])
VisitEdges(edges, node, by, pending, st) ==
  IF pending = <<>> THEN st
  ELSE LET i == Head(pending)
           next == Other(edges[i], node) IN
       VisitEdges(edges, node, by, Tail(pending),
         CASE i = by -> st
           [] next \in DOMAIN st.found -> [st EXCEPT !.low[node] = Least(@, st.found[next])]
           [] OTHER ->
                LET below == Visit(edges, next, i, st) IN
                [below EXCEPT !.low[node] = Least(@, below.low[next]),
                              !.bridges = IF below.low[next] > below.found[node]
                                          THEN @ \cup {i} ELSE @])

FindBridges(nodes, edges) ==
  FoldLeft(LAMBDA st, node : IF node \in DOMAIN st.found THEN st ELSE Visit(edges, node, 0, st),
           [found |-> <<>>, low |-> <<>>, clock |-> 0, bridges |-> {}], nodes).bridges

-----------------------------------------------------------------------------
(* Candidate cycles: the shortest way around each edge, within a budget    *)

\* shortestPath: breadth first; [via, seen, queue, left] where via names the
\* edge each node was reached by.  A step is spent on each edge indexed and on
\* each edge looked at; a search that runs out finds nothing.
RECURSIVE Search(_, _, _, _), Scan(_, _, _, _)
Search(edges, adjacent, goal, st) ==
  IF st.left < 0 \/ st.queue = <<>> \/ Head(st.queue) = goal THEN st
  ELSE Search(edges, adjacent, goal,
              Scan(edges, Head(st.queue), adjacent[Head(st.queue)],
                   [st EXCEPT !.queue = Tail(@)]))
Scan(edges, node, pending, st) ==
  IF pending = <<>> \/ st.left < 0 THEN st
  ELSE LET i == Head(pending)
           next == Other(edges[i], node)
           spent == [st EXCEPT !.left = @ - 1] IN
       Scan(edges, node, Tail(pending),
            IF spent.left < 0 \/ next \in spent.seen THEN spent
            ELSE [spent EXCEPT !.seen = @ \cup {next}, !.via = @ @@ (next :> i),
                               !.queue = Append(@, next)])

\* The edges back from a node to the start of the search.
RECURSIVE Back(_, _, _, _)
Back(edges, via, node, start) ==
  IF node = start THEN {}
  ELSE {via[node]} \cup Back(edges, via, Other(edges[via[node]], node), start)

\* [path, left]: a path of {} is none, a search that ran out leaves nothing.
AroundEdge(nodes, edges, i, left) ==
  LET e == edges[i]
      adjacent == [n \in Range(nodes) |-> SelectSeq(Incident(edges, n), LAMBDA j : j # i)]
      st == Search(edges, adjacent, e.destination,
                   [via |-> <<>>, seen |-> {e.source}, queue |-> <<e.source>>,
                    left |-> left - Len(edges)]) IN
  CASE st.left < 0 -> [path |-> {}, reached |-> FALSE, left |-> 0]
    [] e.destination \in st.seen ->
         [path |-> Back(edges, st.via, e.destination, e.source), reached |-> TRUE, left |-> st.left]
    [] OTHER -> [path |-> {}, reached |-> FALSE, left |-> st.left]

\* enumerateCandidates: [cycles, left]; a cycle found again is kept once.
Kept(cycles, i, around) ==
  [cycles |-> IF ~around.reached \/ Contains(cycles, around.path \cup {i}) THEN cycles
              ELSE Append(cycles, around.path \cup {i}),
   left |-> around.left]
EnumerateCandidates(nodes, edges, maxCycles, budget) ==
  FoldLeft(LAMBDA st, i :
             IF Len(st.cycles) >= maxCycles \/ st.left <= 0 THEN st
             ELSE Kept(st.cycles, i, AroundEdge(nodes, edges, i, st.left)),
           [cycles |-> <<>>, left |-> budget], [i \in DOMAIN edges |-> i])

\* Candidates sort by the text of their sorted edges: the first edge one of
\* two has alone decides, unless the other has come to its end.
FirstAlone(c, d) == LET alone == (c \ d) \cup (d \ c) IN CHOOSE i \in alone : \A j \in alone : i <= j
GoesOnAfter(c, i) == \E j \in c : j > i
TextBefore(c, d) ==
  c # d /\ LET i == FirstAlone(c, d) IN IF i \in c THEN GoesOnAfter(d, i) ELSE ~GoesOnAfter(c, i)
Listed(cycles) == SortSeq(cycles, TextBefore)

-----------------------------------------------------------------------------
(* selectDoubleCover: depth first over the edge with the fewest candidates *)
(* among those not yet covered twice; each try costs a step                *)

Times(chosen, candidates, i) == Len(SelectSeq(chosen, LAMBDA c : i \in candidates[c]))
Containing(candidates, i) ==
  SelectSeq([c \in DOMAIN candidates |-> c], LAMBDA c : i \in candidates[c])

NextTarget(edges, candidates, chosen) ==
  LET open == {i \in DOMAIN edges : Times(chosen, candidates, i) < 2}
      choices(i) == Len(Containing(candidates, i)) IN
  IF open = {} THEN 0
  ELSE CHOOSE i \in open : \A j \in open :
         choices(i) < choices(j) \/ (choices(i) = choices(j) /\ i <= j)

Fits(candidates, chosen, c) == \A i \in candidates[c] : Times(chosen, candidates, i) < 2

\* The candidates of an open frame that are still to be tried, with the
\* frames below it; [status, chosen] at the end.
RECURSIVE Advance(_, _, _, _, _, _)
Advance(edges, candidates, chosen, frames, steps, maxCycles) ==
  IF steps = 0 THEN [found |-> FALSE, chosen |-> <<>>]
  ELSE
    LET target == NextTarget(edges, candidates, chosen)
        \* A frame lists what is left of its choices.
        first(choices, sofar) == SelectInSeq(choices, LAMBDA c : Fits(candidates, sofar, c))
        opened == IF Len(chosen) < maxCycles THEN Append(frames, Containing(candidates, target))
                  ELSE frames
        \* rewindCoverFrames: drop frames until one has a candidate that fits;
        \* what frames below the last have applied is all but the last choice.
        RECURSIVE Rewind(_, _)
        Rewind(fs, sofar) ==
          IF fs = <<>> THEN [frames |-> <<>>, chosen |-> <<>>, ok |-> FALSE]
          ELSE LET at == first(Last(fs), sofar) IN
               IF at # 0
               THEN [frames |-> Append(Front(fs), SubSeq(Last(fs), at + 1, Len(Last(fs)))),
                     chosen |-> Append(sofar, Last(fs)[at]), ok |-> TRUE]
               ELSE Rewind(Front(fs), IF sofar = <<>> THEN <<>> ELSE Front(sofar)) IN
    IF target = 0 THEN [found |-> TRUE, chosen |-> chosen]
    ELSE LET moved == IF opened = frames
                      THEN Rewind(frames, IF chosen = <<>> THEN <<>> ELSE Front(chosen))
                      ELSE Rewind(opened, chosen) IN
         IF ~moved.ok THEN [found |-> FALSE, chosen |-> <<>>]
         ELSE Advance(edges, candidates, moved.chosen, moved.frames, steps - 1, maxCycles)

SelectDoubleCover(edges, candidates, maxSteps, maxCycles) ==
  Advance(edges, candidates, <<>>, <<>>, maxSteps, maxCycles)

-----------------------------------------------------------------------------
(* colorCycles: greedy labels, the most conflicting cycles first           *)

Overlap(cycles, c, d) == cycles[c] \cap cycles[d] # {}
Conflicts(cycles, c) == Cardinality({d \in DOMAIN cycles : d # c /\ Overlap(cycles, c, d)})

\* -1 is no label yet.
ColorCycles(cycles, maxLabels) ==
  FoldLeft(LAMBDA labels, c :
             LET free == {l \in 0..(maxLabels - 1) :
                            \A d \in DOMAIN cycles : labels[d] = l => ~Overlap(cycles, c, d)} IN
             [labels EXCEPT ![c] = IF free = {} THEN -1 ELSE CHOOSE l \in free : \A m \in free : l <= m],
           [c \in DOMAIN cycles |-> -1],
           SortSeq([c \in DOMAIN cycles |-> c],
             LAMBDA c, d : \/ Conflicts(cycles, c) > Conflicts(cycles, d)
                           \/ Conflicts(cycles, c) = Conflicts(cycles, d) /\ c < d))

-----------------------------------------------------------------------------
(* Verification and the plan.  A cover is [status, cycles, covered], a     *)
(* cycle [label, edges] with the edges by position in the flow graph.      *)

\* verifySeaCurrentCover.
DegreeTwo(cfg, cycle) ==
  \A i \in cycle.edges : \A n \in {cfg.edges[i].source, cfg.edges[i].destination} :
    FoldSet(LAMBDA j, d : d + (IF cfg.edges[j].source = n THEN 1 ELSE 0)
                            + (IF cfg.edges[j].destination = n THEN 1 ELSE 0),
            0, cycle.edges) = 2

RECURSIVE Grown(_, _, _)
Grown(cfg, edges, nodes) ==
  LET more == nodes \cup UNION {{cfg.edges[i].source, cfg.edges[i].destination} :
                i \in {j \in edges : {cfg.edges[j].source, cfg.edges[j].destination} \cap nodes # {}}}
  IN IF more = nodes THEN nodes ELSE Grown(cfg, edges, more)
CycleIsConnected(cfg, cycle) ==
  LET first == CHOOSE i \in cycle.edges : TRUE
      nodes == Grown(cfg, cycle.edges, {cfg.edges[first].source}) IN
  \A i \in cycle.edges : cfg.edges[i].source \in nodes

VerifyCover(cfg, cover) ==
  LET through(i) == {c \in DOMAIN cover.cycles : i \in cover.cycles[c].edges} IN
  /\ \A c \in DOMAIN cover.cycles :
       /\ cover.cycles[c].label \in 0..(CdcLabels - 1)
       /\ Cardinality(cover.cycles[c].edges) >= 2
       /\ DegreeTwo(cfg, cover.cycles[c]) /\ CycleIsConnected(cfg, cover.cycles[c])
  /\ \A i \in cover.covered :
       /\ Cardinality(through(i)) = 2
       /\ Cardinality({cover.cycles[c].label : c \in through(i)}) = 2
  /\ \A c \in DOMAIN cover.cycles : cover.cycles[c].edges \subseteq cover.covered

Unavailable(covered) == [status |-> "unavailable", cycles |-> <<>>, covered |-> covered]

\* planSeaCurrentCover, stage by stage: the cover of the labelled cycles, the
\* cycles of the selected candidates, the candidates of the edges kept.
CoverOf(cfg, kept, cycles, labels) ==
  LET cover == [status |-> "verified", covered |-> Range(kept),
                cycles |-> [c \in DOMAIN cycles |->
                              [label |-> labels[c], edges |-> {kept[i] : i \in cycles[c]}]]] IN
  IF -1 \notin Range(labels) /\ VerifyCover(cfg, cover) THEN cover ELSE Unavailable(Range(kept))

Labelled(cfg, kept, cycles) == CoverOf(cfg, kept, cycles, ColorCycles(cycles, CdcLabels))

CoverSelected(cfg, kept, candidates, selected) ==
  IF ~selected.found THEN Unavailable(Range(kept))
  ELSE Labelled(cfg, kept,
                [c \in DOMAIN selected.chosen |-> candidates[selected.chosen[c]]])

CoverFrom(cfg, kept, edges, candidates, left, maxCycles) ==
  CoverSelected(cfg, kept, candidates, SelectDoubleCover(edges, candidates, left, maxCycles))

CoverKept(cfg, kept, edges, maxSearchSteps, maxCycles) ==
  LET found == EnumerateCandidates(cfg.nodes, edges, maxCycles, maxSearchSteps) IN
  IF kept = <<>> THEN [status |-> "verified", cycles |-> <<>>, covered |-> {}]
  ELSE CoverFrom(cfg, kept, edges, Listed(found.cycles), found.left, maxCycles)

CoverWithout(cfg, kept, maxSearchSteps, maxCycles) ==
  CoverKept(cfg, kept, [i \in DOMAIN kept |-> cfg.edges[kept[i]]], maxSearchSteps, maxCycles)

NonBridges(cfg, bridges) == SelectSeq([i \in DOMAIN cfg.edges |-> i], LAMBDA i : i \notin bridges)

PlanCover(cfg, maxSearchSteps, maxCycles) ==
  CoverWithout(cfg, NonBridges(cfg, FindBridges(cfg.nodes, cfg.edges)), maxSearchSteps, maxCycles)

-----------------------------------------------------------------------------
(* Modulo schedules for pipelined regions: starts that satisfy the         *)
(* dependences, moved to free resource slots, and kept only when the whole *)
(* result verifies.                                                        *)
(*                                                                         *)
(* graph: [operations, dependences], a dependence [source, destination,    *)
(* latency, distance].  target: [latency, uses, capacity, fits]: per       *)
(* operation its latency and the units of each resource it takes, per      *)
(* resource its capacity, and whether the registers suffice.               *)

LOCAL Larger(a, b) == IF a > b THEN a ELSE b
Ceiling(a, b) == (a + b - 1) \div b

EffectiveLatency(target, d) == Larger(d.latency, target.latency[d.source])
Required(target, d, ii) == EffectiveLatency(target, d) - ii * d.distance

\* recurrenceLowerBound, one dependence at a time.
RecurrenceMII(graph, target) ==
  FoldLeft(LAMBDA least, d :
             IF d.distance = 0 THEN least
             ELSE Larger(least, Ceiling(EffectiveLatency(target, d), d.distance)),
           1, graph.dependences)

Demand(graph, target, resource) ==
  FoldLeft(LAMBDA sum, o : sum + target.uses[o][resource], 0, graph.operations)

\* resourceLowerBound; a resource nothing uses is never asked about.
ResourceMII(graph, target) ==
  FoldSet(LAMBDA r, least : Larger(least, Ceiling(Demand(graph, target, r), target.capacity[r])),
          1, {r \in DOMAIN target.capacity : Demand(graph, target, r) > 0})

\* solveDifferenceConstraints: a round relaxes every dependence in order; an
\* update in the last round means no starts satisfy them.
Relax(target, ii, starts, d) ==
  LET required == starts[d.source] + Required(target, d, ii) IN
  IF starts[d.destination] < required THEN [starts EXCEPT ![d.destination] = required] ELSE starts

RECURSIVE Rounds(_, _, _, _, _)
Rounds(graph, target, ii, starts, left) ==
  IF left = 0 THEN <<>>
  ELSE LET relaxed == FoldLeft(LAMBDA st, d : Relax(target, ii, st, d), starts, graph.dependences) IN
       IF relaxed = starts THEN <<starts>>
       ELSE Rounds(graph, target, ii, relaxed, left - 1)

\* <<>> for none; starts only ever grow from 0, so none is negative.
SolveDifferenceConstraints(graph, target, ii) ==
  Rounds(graph, target, ii, [o \in Range(graph.operations) |-> 0], Len(graph.operations))

\* placeResources, in the order of the starts: the first of ii slots that is
\* free; an operation that finds none stays put and reserves nothing.
\* Only the first iteration is asked about.
InUseOnce(target, placed, reserved, resource, slot, ii) ==
  FoldSet(LAMBDA o, sum : sum + (IF placed[o] = slot THEN target.uses[o][resource] ELSE 0),
          0, reserved)
InUse(target, placed, reserved, resource, slot, ii) ==
  FoldSet(LAMBDA o, sum : sum + (IF placed[o] % ii = slot THEN target.uses[o][resource] ELSE 0),
          0, reserved)
SlotAvailable(target, st, o, start, ii) ==
  \A r \in DOMAIN target.capacity :
    target.uses[o][r] > 0 =>
      InUse(target, st.placed, st.reserved, r, start % ii, ii) + target.uses[o][r]
        <= target.capacity[r]

PlaceResources(graph, starts, ii, target) ==
  FoldLeft(LAMBDA st, o :
             LET free == {k \in 0..(ii - 1) : SlotAvailable(target, st, o, starts[o] + k, ii)} IN
             IF free = {} THEN st
             ELSE [placed |-> [st.placed EXCEPT ![o] = @ + (CHOOSE k \in free : \A l \in free : k <= l)],
                   reserved |-> st.reserved \cup {o}],
           [placed |-> starts, reserved |-> {}],
           SortSeq(graph.operations,
             LAMBDA o, p : starts[o] < starts[p] \/ (starts[o] = starts[p] /\ o < p))).placed

VerifySchedule(graph, target, ii, starts) ==
  /\ \A i \in DOMAIN graph.dependences :
       LET d == graph.dependences[i] IN
       starts[d.destination] - starts[d.source] >= Required(target, d, ii)
  /\ \A r \in DOMAIN target.capacity, slot \in 0..(ii - 1) :
       InUse(target, starts, Range(graph.operations), r, slot, ii) <= target.capacity[r]
  /\ target.fits

\* buildSeaCurrentSchedule: <<>> for none, else the schedule.
Verified(graph, target, ii, placed) ==
  IF VerifySchedule(graph, target, ii, placed) THEN <<[ii |-> ii, starts |-> placed]>> ELSE <<>>
Attempt(graph, target, ii, starts) ==
  IF starts = <<>> THEN <<>>
  ELSE Verified(graph, target, ii, PlaceResources(graph, starts[1], ii, target))

RECURSIVE Attempts(_, _, _, _, _)
Attempts(graph, target, ii, limit, found) ==
  IF found # <<>> \/ ii > limit THEN found
  ELSE Attempts(graph, target, ii + 1, limit,
                Attempt(graph, target, ii, SolveDifferenceConstraints(graph, target, ii)))
Scheduled(graph, target, minimum, maxII) ==
  Attempts(graph, target, minimum, Larger(minimum, maxII), <<>>)
BuildSchedule(graph, target, maxII) ==
  Scheduled(graph, target, Larger(RecurrenceMII(graph, target), ResourceMII(graph, target)), maxII)
=============================================================================
