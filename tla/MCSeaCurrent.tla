---------------------------- MODULE MCSeaCurrent ----------------------------
(***************************************************************************)
(* SeaCurrent for TLC.  A behaviour is a session with the control plane    *)
(* over a few predicate graphs, or a look at what the planner's algorithms *)
(* make of one small graph (the topic, which never changes).               *)
(***************************************************************************)
EXTENDS SeaCurrent

CONSTANTS MaxSteps   \* operations in a session

VARIABLES topic, steps
mcVars == <<vars, topic, steps>>

-----------------------------------------------------------------------------
(* Graphs, worlds and options                                              *)

Test(atom) == [tag |-> "Test", atom |-> atom, opaque |-> FALSE]
Opaque(atom) == [tag |-> "Test", atom |-> atom, opaque |-> TRUE]
Region(nodes) == [nodes |-> nodes, result |-> Len(nodes)]
Field(key, presence, graph, cost, opaque) ==
  [key |-> key, presence |-> presence, graph |-> graph, cost |-> cost, opaque |-> opaque]

\* The shape of one source, around a callback, with a graph used twice.
Shaped(callback) ==
  Region(<<Test("a"),
           [tag |-> "Shape", entries |-> <<
              Field(1, "required", "x", 1, FALSE), Field(2, "required", "y", 2, FALSE),
              Field(3, "required", callback, 1, TRUE),
              Field(4, "optional", "y", 2, FALSE), Field(5, "optional", "x", 1, FALSE)>>],
           [tag |-> "Or", values |-> <<1, 2>>], [tag |-> "Return", value |-> 3]>>)

Chain(n) == Region(<<Test("a")>> \o [i \in 1..n |-> [tag |-> "Not", value |-> i]])

MCGraphs ==
  [first |-> Shaped("called"), twin |-> Shaped("called"), other |-> Shaped("asked"),
   deep |-> Chain(4),
   x |-> Region(<<Test("p")>>),
   y |-> Region(<<Test("q"), Test("p"), [tag |-> "Not", value |-> 2],
                  [tag |-> "And", values |-> <<1, 3>>], [tag |-> "Const", holds |-> FALSE],
                  [tag |-> "Or", values |-> <<4, 5, 1>>]>>),
   called |-> Region(<<Opaque("f")>>), asked |-> Region(<<Opaque("g")>>)]
MCSources == {"first", "twin", "other", "deep"}
MCTargets == [plain |-> 1, steep |-> 30]
MCHome == [target |-> "plain", steps |-> 40, cycles |-> 8]

MCWorlds == {[holds |-> {"p", "q", "f", "g"}, absent |-> {}],
           [holds |-> {"p", "f", "g"}, absent |-> {4}],
           [holds |-> {"q", "f"}, absent |-> {5}],
           [holds |-> {"a"}, absent |-> {}],
           [holds |-> {"q", "f", "g"}, absent |-> {4, 5}]}
Cut == CHOOSE w \in Worlds : w.absent = {} /\ "q" \in w.holds

MCOptions == [target : DOMAIN Targets, steps : {1, 40}, cycles : {8}]

-----------------------------------------------------------------------------
(* Small flow graphs and loops                                             *)

Names(n) == [i \in 1..n |-> <<"n", i>>]
Flow(n, ends, pairs) ==
  [nodes |-> Names(n), entry |-> <<"n", 1>>, exits |-> ends,
   edges |-> [i \in DOMAIN pairs |->
     [source |-> <<"n", pairs[i][1]>>, destination |-> <<"n", pairs[i][2]>>, predicate |-> "true",
      probability |-> (37 * i) % 100, cost |-> i % 3]]]

\* Every multigraph of three nodes and up to four edges, and orientations of
\* the complete graph of four nodes.
Ascending(m, k) == {s \in [1..k -> 1..m] : \A i \in 1..(k - 1) : s[i] <= s[i + 1]}
Pairs3 == [p \in 1..9 |-> <<((p - 1) \div 3) + 1, ((p - 1) % 3) + 1>>]
Flows3 == {Flow(3, ends, [i \in DOMAIN s |-> Pairs3[s[i]]]) :
             ends \in {<<<<"n", 3>>>>, <<<<"n", 2>>, <<"n", 3>>>>}, s \in UNION {Ascending(9, k) : k \in 2..4}}
Sides4 == <<<<1, 2>>, <<1, 3>>, <<1, 4>>, <<2, 3>>, <<2, 4>>, <<3, 4>>>>
Flows4 == {Flow(4, <<<<"n", 4>>>>, [i \in 1..6 |-> IF i \in turned THEN <<Sides4[i][2], Sides4[i][1]>>
                                             ELSE Sides4[i]]) :
             turned \in SUBSET {2, 4, 5, 6}}

Loop(dependences, uses) ==
  [graph |-> [operations |-> <<1, 2, 3>>, dependences |-> dependences],
   target |-> [latency |-> [o \in 1..3 |-> IF o = 2 THEN 2 ELSE 1],
               uses |-> [o \in 1..3 |-> [r \in {"unit"} |-> uses[o]]],
               capacity |-> [r \in {"unit"} |-> 2], fits |-> TRUE]]
Dependences == {[source |-> s, destination |-> d, latency |-> l, distance |-> k] :
                  s \in 1..3, d \in 1..3, l \in {1, 3}, k \in 0..1}
Loops == {Loop(<<[source |-> 1, destination |-> 2, latency |-> l, distance |-> 0], d, e>>, uses) :
            d \in Dependences, e \in {e \in Dependences : e.source = 3 /\ e.latency = 1},
            l \in {1, 3}, uses \in {<<2, 1, 1>>, <<1, 2, 2>>}}

-----------------------------------------------------------------------------
MCInit ==
  /\ Init
  /\ steps = 0
  /\ topic \in {[kind |-> "profiles"], [kind |-> "cache"]}
                 \cup {[kind |-> "flow", cfg |-> cfg] : cfg \in Flows3 \cup Flows4}
                 \cup {[kind |-> "loop", loop |-> loop] : loop \in Loops}

\* A profiling session works with two sources of the same structure and one
\* of another, and bounds the runs that are counted.
Profiled == {"first", "twin"}
ProfileStep ==
  \/ \E s \in Profiled : Compile(s)
  \/ \E s \in {"first"}, w \in Worlds : Run(s, w)
  \/ \E s \in {"first"}, hostile \in BOOLEAN : Interrupt(s, Cut, hostile)
  \/ \E s \in Profiled : Snapshot(s)
  \/ \E s \in {"first"} : Reset(s)
  \/ \E s \in Sources \ {"deep"}, from \in Profiled : Optimize(s, from)

CacheStep ==
  \/ \E s \in Sources, options \in Options : Plan(s, options)
  \/ \E id \in {<<>>, <<1>>} : Invalidate(id)
  \/ Clear

MCNext ==
  /\ steps < MaxSteps
  /\ steps' = steps + 1
  /\ UNCHANGED topic
  /\ \/ topic.kind = "profiles" /\ ProfileStep
     \/ topic.kind = "cache" /\ CacheStep

MCSpec == MCInit /\ [][MCNext]_mcVars

-----------------------------------------------------------------------------
(* Properties of a session                                                 *)

\* The distinct members of seq, each at its last place.
LastUses(seq) ==
  LET last == SelectSeq([i \in DOMAIN seq |-> i],
                        LAMBDA i : \A j \in (i + 1)..Len(seq) : seq[j] # seq[i]) IN
  [k \in DOMAIN last |-> seq[last[k]]]
Newest(seq, n) == IF Len(seq) <= n THEN seq ELSE SubSeq(seq, Len(seq) - n + 1, Len(seq))
KeysOf(entries) == [i \in DOMAIN entries |-> entries[i].key]
Asked(s, options) ==
  [i \in DOMAIN RegionsOf[s] |->
     CacheKey(RegionsOf[s][i].id, Hash[RegionsOf[s][i].graph], options)]
\* What planning leaves in the cache is what was asked for last, hits and misses alike,
\* in the order of the last requests (src/seacurrent/cache.ts:66): neither a read that
\* fails to promote nor a full cache, where one plan may ask for more regions than fit,
\* drops an analysis that was used after one it keeps.  And what the plan finds there is
\* the analysis that would be made afresh for its regions and options.
RecentlyUsedKept ==
  [][\A s \in Sources, options \in Options :
       Plan(s, options) =>
         /\ AnalysisFreshFor(s, options)
         /\ KeysOf(cache') = Newest(LastUses(KeysOf(cache) \o Asked(s, options)), MaxCacheEntries)]_mcVars

-----------------------------------------------------------------------------
(* Properties of a flow graph                                              *)

Balanced(cfg, closed, flow) ==
  \A n \in Range(cfg.nodes) \cup {EP!SuperExit} :
    FoldSet(LAMBDA i, sum : sum + (IF closed[i].source = n THEN flow[i] ELSE 0)
                              - (IF closed[i].destination = n THEN flow[i] ELSE 0),
            0, DOMAIN closed) = 0

\* No flow around the closed graph but none at all goes past every counter.
CountersDetermine(cfg, exact, closed, counted) ==
  exact =>
    \A some \in [DOMAIN closed \ counted -> {-1, 0, 1}] :
      Balanced(cfg, closed, [i \in DOMAIN closed |-> IF i \in counted THEN 0 ELSE some[i]])
        => \A i \in DOMAIN some : some[i] = 0

PlanDetermines(cfg, plan) ==
  CountersDetermine(cfg, plan.status = "exact", EP!CloseFlowGraph(cfg, [i \in DOMAIN cfg.edges |-> cfg.edges[i].cost]),
                    {plan.counters[i].edge : i \in DOMAIN plan.counters})
CountersTell(cfg) ==
  \A bare \in 0..2 :
    PlanDetermines(cfg, EP!PlanExactEdgeProfile(cfg, [i \in DOMAIN cfg.edges |-> cfg.edges[i].cost],
                          [i \in DOMAIN cfg.edges |-> IF i = bare THEN {} ELSE {1}]))

\* Paths from a node to the first exit they meet, as sequences of edges.
RECURSIVE PathsFrom(_, _)
PathsFrom(cfg, node) ==
  IF node \in Range(cfg.exits) THEN {<<>>}
  ELSE UNION {{<<i>> \o p : p \in PathsFrom(cfg, cfg.edges[i].destination)} :
                i \in {i \in DOMAIN cfg.edges : cfg.edges[i].source = node}}

NumbersPaths(cfg, plan, paths) ==
  /\ {FoldLeft(LAMBDA sum, i : sum + plan.increments[i], 0, p) : p \in paths}
       = 0..(plan.pathCount - 1)
  /\ Cardinality(paths) = plan.pathCount
NumbersExactly(cfg, plan) ==
  plan.storage.kind = "exact" => NumbersPaths(cfg, plan, PathsFrom(cfg, cfg.entry))

\* The counters of an exact plan tell the count of every edge: two flows through
\* the graph that agree on the counters are the same.  Where an edge has no
\* legal site for a counter, either it needs none or there is no exact plan.
\* And exact path storage has one bucket per path: the increments along the paths
\* from the entry to an exit add up to different numbers, without gaps.
CountersDetermineFlow ==
  topic.kind = "flow" =>
    /\ CountersTell(topic.cfg)
    /\ NumbersExactly(topic.cfg, EP!PlanBallLarusPaths(topic.cfg, 8, 4, TRUE))

\* Nodes an undirected walk over some edges can reach.
RECURSIVE Reach(_, _, _)
Reach(cfg, edges, nodes) ==
  LET ends(i) == {cfg.edges[i].source, cfg.edges[i].destination}
      more == nodes \cup UNION {ends(i) : i \in {i \in edges : ends(i) \cap nodes # {}}} IN
  IF more = nodes THEN nodes ELSE Reach(cfg, edges, more)
OnCycle(cfg, edges, i) == cfg.edges[i].destination \in Reach(cfg, edges \ {i}, {cfg.edges[i].source})

IsDoubleCover(cfg, cover) ==
  LET through(i) == {c \in DOMAIN cover.cycles : i \in cover.cycles[c].edges} IN
  /\ cover.covered = {i \in DOMAIN cfg.edges : OnCycle(cfg, DOMAIN cfg.edges, i)}
  /\ \A i \in cover.covered :
       Cardinality(through(i)) = 2 /\ Cardinality({cover.cycles[c].label : c \in through(i)}) = 2
  /\ \A c \in DOMAIN cover.cycles : LET circuit == cover.cycles[c].edges IN
       \A i \in circuit : OnCycle(cfg, circuit, i)
         /\ \A j \in circuit \ {i} : ~OnCycle(cfg, circuit \ {i}, j)
CoversTwice(cfg, cover) == cover.status = "verified" => IsDoubleCover(cfg, cover)
\* Search budgets that end among the candidates, during the selection, or not at all.
SearchBudgets == {8, 22, 28, 33, 38, 200}
\* A verified cover covers exactly the edges that lie on a cycle, each by two
\* circuits of different labels; in a circuit each edge is closed by the rest
\* and no smaller part of it is a circuit.  So it is wherever the search ran out
\* of steps (src/seacurrent/cdc.ts:379): no half of a cover is called verified.
CoverIsDouble ==
  topic.kind = "flow" =>
    \A budget \in SearchBudgets : CoversTwice(topic.cfg, FS!PlanCover(topic.cfg, budget, 16))

-----------------------------------------------------------------------------
(* Properties of a loop                                                    *)

Runs == (1..3) \X (0..3)
RunsLoop(graph, target, schedule) ==
  LET start(o, i) == schedule.starts[o] + i * schedule.ii
      busy(t) == FoldSet(LAMBDA run, sum : sum + target.uses[run[1]]["unit"], 0,
                         {run \in Runs : start(run[1], run[2]) = t}) IN
  /\ \A d \in Range(graph.dependences), i \in 0..3 :
       i + d.distance \in 0..3 =>
         start(d.destination, i + d.distance) >= start(d.source, i) + FS!EffectiveLatency(target, d)
  /\ \A run \in Runs : busy(start(run[1], run[2])) <= target.capacity["unit"]
FoundRuns(loop, found) == found # <<>> => RunsLoop(loop.graph, loop.target, found[1])
\* A schedule repeated every II steps runs the loop: in four iterations every
\* operation starts after what it depends on, in its own iteration or an
\* earlier one, and no step needs more of a resource than there is.
ScheduleHolds ==
  topic.kind = "loop" =>
    FoundRuns(topic.loop, FS!BuildSchedule(topic.loop.graph, topic.loop.target, 8))
=============================================================================
