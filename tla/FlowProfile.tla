----------------------------- MODULE FlowProfile ----------------------------
(***************************************************************************)
(* Where SeaCurrent puts its counters.  Edges (src/seacurrent/             *)
(* exact-profile.ts): off a spanning tree of the flow graph closed through *)
(* a super exit, heaviest edges in the tree.  Paths (src/seacurrent/       *)
(* path-profile.ts): an increment per edge, so that the sum along a path   *)
(* of an acyclic graph is its Ball-Larus number.                           *)
(*                                                                         *)
(* A flow graph is [nodes, edges, entry, exits]; an edge is [source,       *)
(* destination, probability (a percentage), cost, ...], named by its       *)
(* position, and sites[edge] the costs of its legal counter sites.         *)
(***************************************************************************)
EXTENDS Integers, SequencesExt, TLC

SuperExit == <<"super exit">>
VirtualWeight == 1000000

\* validateSeaCurrentCFG; edges are positions, so their names cannot clash.
ValidFlowGraph(cfg) ==
  LET nodes == Range(cfg.nodes) IN
  /\ cfg.nodes # <<>> /\ IsInjective(cfg.nodes)
  /\ cfg.entry \in nodes
  /\ cfg.exits # <<>> /\ IsInjective(cfg.exits) /\ Range(cfg.exits) \subseteq nodes
  /\ \A i \in DOMAIN cfg.edges :
       /\ {cfg.edges[i].source, cfg.edges[i].destination} \subseteq nodes
       /\ cfg.edges[i].probability \in 0..100 /\ cfg.edges[i].cost >= 0

-----------------------------------------------------------------------------
(* The closed graph: real edges, one virtual edge per exit, one back       *)

Virtual(source, destination) ==
  [source |-> source, destination |-> destination, weight |-> VirtualWeight, virtual |-> TRUE]

\* costs: the branch cost of every edge.
CloseFlowGraph(cfg, costs) ==
  [i \in DOMAIN cfg.edges |->
     [source |-> cfg.edges[i].source, destination |-> cfg.edges[i].destination, virtual |-> FALSE,
      weight |-> (cfg.edges[i].cost + costs[i]) * (100 + cfg.edges[i].probability)]]
    \o [i \in DOMAIN cfg.exits |-> Virtual(cfg.exits[i], SuperExit)]
    \o <<Virtual(SuperExit, cfg.entry)>>

\* compareTreeWeight: heavier first, then by name; a virtual name sorts first.
Precedes(closed, i, j) ==
  \/ closed[i].weight > closed[j].weight
  \/ /\ closed[i].weight = closed[j].weight
     /\ \/ closed[i].virtual /\ ~closed[j].virtual
        \/ closed[i].virtual = closed[j].virtual /\ i < j

\* DisjointSets: the partition alone, the trees that hold it left out.
SetOf(sets, node) == CHOOSE s \in sets : node \in s
Union(sets, a, b) == (sets \ {SetOf(sets, a), SetOf(sets, b)})
                       \cup {SetOf(sets, a) \cup SetOf(sets, b)}

\* Kruskal's walk over the ordered edges: [sets, tree].
SpanningTree(closed, nodes) ==
  FoldLeft(LAMBDA st, i :
             LET e == closed[i] IN
             IF SetOf(st.sets, e.source) = SetOf(st.sets, e.destination) THEN st
             ELSE [sets |-> Union(st.sets, e.source, e.destination), tree |-> st.tree \cup {i}],
           [sets |-> {{n} : n \in nodes}, tree |-> {}],
           SortSeq([i \in DOMAIN closed |-> i], LAMBDA i, j : Precedes(closed, i, j)))

CheapestSite(sites) == CHOOSE s \in sites : \A t \in sites : s <= t

\* An edge without a legal site goes without a counter.
PlanLegalSites(cfg, closed, spanning, offTree, sites) ==
  LET legal == SelectSeq(offTree, LAMBDA i : ~closed[i].virtual /\ sites[i] # {}) IN
  [status |-> "exact", tree |-> spanning.tree \cap DOMAIN cfg.edges,
   counters |-> [i \in DOMAIN legal |->
                   [edge |-> legal[i], site |-> CheapestSite(sites[legal[i]])]]]

\* planExactEdgeProfile over the closed graph; counters are [edge, site].
PlanOffTree(cfg, closed, spanning, offTree, sites) ==
  LET lost == \E i \in Range(offTree) : closed[i].virtual \/ sites[i] = {}
      connected == Cardinality(spanning.sets) = 1
      nodeCount == Len(cfg.nodes) + 1
      cycleRank == IF connected THEN Len(closed) - nodeCount + 1 ELSE 0
      rank == nodeCount - Cardinality(spanning.sets) + Len(offTree) IN
  IF \/ lost \/ ~connected \/ Cardinality(spanning.tree) # nodeCount - 1
     \/ Len(offTree) # cycleRank \/ rank # Len(closed)
  THEN [status |-> "unavailable", tree |-> {}, counters |-> <<>>]
  ELSE [status |-> "exact", tree |-> spanning.tree \cap DOMAIN cfg.edges,
        counters |-> [i \in DOMAIN offTree |->
                        [edge |-> offTree[i], site |-> CheapestSite(sites[offTree[i]])]]]

PlanOver(cfg, closed, spanning, sites) ==
  PlanOffTree(cfg, closed, spanning, SelectSeq([i \in DOMAIN closed |-> i], LAMBDA i : i \notin spanning.tree),
              sites)

PlanClosed(cfg, closed, sites) ==
  PlanOver(cfg, closed, SpanningTree(closed, Range(cfg.nodes) \cup {SuperExit}), sites)

PlanExactEdgeProfile(cfg, costs, sites) ==
  PlanClosed(cfg, CloseFlowGraph(cfg, costs), sites)

-----------------------------------------------------------------------------
(* Path numbers                                                            *)

\* topologicalOrder: sources first, in the order nodes become ready; shorter
\* than the node list when the graph has a cycle.
RECURSIVE Ready(_, _, _)
Ready(cfg, indegree, queue) ==
  LET fresh == {n \in Range(cfg.nodes) \ Range(queue) : indegree[n] = 0} IN
  IF fresh = {} THEN queue
  ELSE LET node == CHOOSE n \in fresh : TRUE IN
       Ready(cfg,
             [n \in DOMAIN indegree |-> indegree[n]
                - Cardinality({i \in DOMAIN cfg.edges :
                     cfg.edges[i].source = node /\ cfg.edges[i].destination = n})],
             Append(queue, node))
TopologicalOrder(cfg) ==
  Ready(cfg,
        [n \in Range(cfg.nodes) |-> Cardinality({i \in DOMAIN cfg.edges : cfg.edges[i].destination = n})],
        <<>>)

\* outgoingEdges, in the order of their names.
Outgoing(cfg, node) ==
  SelectSeq([i \in DOMAIN cfg.edges |-> i], LAMBDA i : cfg.edges[i].source = node)

\* countPaths, from the last node of the order back; an exit ends its paths,
\* and counts stop growing at the cap.
Capped(a, cap) == IF a > cap THEN cap ELSE a
CountPaths(cfg, order, cap) ==
  FoldRight(LAMBDA node, counts :
              [counts EXCEPT ![node] =
                 IF node \in Range(cfg.exits) THEN 1
                 ELSE FoldLeft(LAMBDA n, i : Capped(n + counts[cfg.edges[i].destination], cap),
                               0, Outgoing(cfg, node))],
            order, [n \in Range(cfg.nodes) |-> 0])

\* buildIncrements: an edge adds the paths of its earlier siblings.
Increments(cfg, counts) ==
  [i \in DOMAIN cfg.edges |->
     FoldLeft(LAMBDA n, j : n + counts[cfg.edges[j].destination], 0,
              SelectSeq(Outgoing(cfg, cfg.edges[i].source), LAMBDA j : j < i))]

RECURSIVE PowerAtLeast(_, _)
PowerAtLeast(limit, p) == IF p >= limit THEN p ELSE PowerAtLeast(limit, 2 * p)

\* Sparse: how many times the bucket budget sparse storage may hold.
ChooseStorage(pathCount, maxBuckets, sparse) ==
  CASE pathCount <= maxBuckets ->
         [kind |-> "exact", size |-> IF pathCount = 0 THEN 1 ELSE pathCount]
    [] pathCount <= maxBuckets * sparse -> [kind |-> "sparse", size |-> maxBuckets]
    [] OTHER -> [kind |-> "count-min", size |-> PowerAtLeast(maxBuckets * 2, 1)]

EdgeFallback == [kind |-> "edge-fallback", size |-> 0]

NoNumbers(pathCount) ==
  [selected |-> FALSE, pathCount |-> pathCount, increments |-> <<>>, storage |-> EdgeFallback]
Numbered(cfg, counts, maxBuckets, sparse, selected) ==
  IF ~selected THEN NoNumbers(counts[cfg.entry])
  ELSE [selected |-> TRUE, pathCount |-> counts[cfg.entry], increments |-> Increments(cfg, counts),
        storage |-> ChooseStorage(counts[cfg.entry], maxBuckets, sparse)]
Ordered(cfg, order, maxBuckets, sparse, selected) ==
  IF Len(order) # Len(cfg.nodes) THEN NoNumbers(0)
  ELSE Numbered(cfg, CountPaths(cfg, order, maxBuckets * sparse + 1), maxBuckets, sparse, selected)

PlanBallLarusPaths(cfg, maxBuckets, sparse, selected) ==
  Ordered(cfg, TopologicalOrder(cfg), maxBuckets, sparse, selected)
=============================================================================
