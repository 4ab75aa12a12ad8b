----------------------------- MODULE SeaCurrent -----------------------------
(***************************************************************************)
(* The SeaCurrent control plane: the planner and its cache of region       *)
(* analyses (src/seacurrent/planner.ts, cache.ts, builder.ts) and the      *)
(* bridge that compiles instrumented predicates, reads their profiles and  *)
(* lowers the object orders they select (src/seacurrent/aot and            *)
(* src/seacurrent/typesea-transform.ts).                                   *)
(*                                                                         *)
(* A source names the root of its predicate graph.  A world says which     *)
(* atoms hold and which keys are absent.  A structural hash is the graph   *)
(* it is the hash of, an analysis stands for what it was made from.        *)
(***************************************************************************)
EXTENDS ControlProgram, TLC

EP == INSTANCE FlowProfile
FS == INSTANCE FlowStructure

CONSTANTS
  Graphs,          \* graph name |-> region of ControlProgram
  Sources,         \* roots
  Targets,         \* target key |-> what a branch costs when it rejects
  Home,            \* [target, steps, cycles]: the builder's own options
  Options,         \* the options planner.plan is called with, Home among them
  Worlds,          \* the values predicates are run on
  MaxCacheEntries,
  MaxCount,        \* the exact integer range of a counter
  MinSamples,      \* how many runs make a measurement, and
  MinImprovement   \* how much cost makes an order worth having

VARIABLES
  cache,       \* entries [key, analysis], the least recently used first
  compiled,    \* source |-> <<>> or <<[manifest, tables]>>
  truth,       \* source |-> per region what its runs did since the tables were zero
  artifacts,   \* source |-> <<>> or <<[artifact, truth]>>: the last snapshot
  optimized    \* source |-> <<>> or <<[graphs, profiles, truth]>>

vars == <<cache, compiled, truth, artifacts, optimized>>

-----------------------------------------------------------------------------
(* Profile-guided order of object entries (typesea-transform.ts), on top   *)
(* of the static order of src/compile/object-order.ts.                     *)
(*                                                                         *)
(* An entry is [key, presence, graph, cost, opaque]: opaque when its graph *)
(* runs user code.  profiles[graph] is <<>> or what was measured,          *)
(* <<[frequency, accepted, rejected, uncertainty]>>.  Probabilities are in *)
(* thousandths, uncertainty in percent.                                    *)

Larger(a, b) == IF a > b THEN a ELSE b

\* Every entry is as good as any other.
MovableAnyway(entry) == entry.cost >= 0
Schedulable(entry) == ~entry.opaque

-----------------------------------------------------------------------------
(* scheduleObjectShapeEntries: each run of schedulable entries is sorted,  *)
(* required before optional, then cheapest first, then as written          *)

\* The first position after i whose entry is not like the one at i.
RunEnd(entries, i, alike(_)) ==
  LET others == {j \in i..Len(entries) : ~alike(entries[j])} IN
  IF others = {} THEN Len(entries) + 1 ELSE CHOOSE j \in others : \A k \in others : j <= k

Optionality(e) == IF e.presence = "optional" THEN 1 ELSE 0
Ahead(entries, i, j) ==
  LET a == entries[i]
      b == entries[j] IN
  \/ Optionality(a) < Optionality(b)
  \/ Optionality(a) = Optionality(b) /\ (a.cost < b.cost \/ (a.cost = b.cost /\ i < j))

RECURSIVE ScheduledFrom(_, _)
ScheduledFrom(entries, i) ==
  IF i > Len(entries) THEN <<>>
  ELSE IF ~Schedulable(entries[i]) THEN <<entries[i]>> \o ScheduledFrom(entries, i + 1)
  ELSE LET end == RunEnd(entries, i, Schedulable)
           order == SortSeq([k \in 1..(end - i) |-> i + k - 1], LAMBDA a, b : Ahead(entries, a, b)) IN
       [k \in DOMAIN order |-> entries[order[k]]] \o ScheduledFrom(entries, end)
ScheduleEntries(entries) == ScheduledFrom(entries, 1)

-----------------------------------------------------------------------------
(* Measurements                                                            *)

Prior == 10

\* measureEntry: [observed, probability, score].
Unobserved == [observed |-> FALSE, probability |-> Prior, score |-> 0]
Trusted(p) == p.frequency >= MinSamples /\ p.accepted + p.rejected = p.frequency
Confidence(p) == ((100 - p.uncertainty) * 10 * p.frequency) \div (p.frequency + MinSamples)
Empirical(p) == (1000 * (2 * p.rejected + 1)) \div (2 * (p.frequency + 1))
Mixed(empirical, confidence) == (empirical * confidence + Prior * (1000 - confidence)) \div 1000
Scored(entry, probability) ==
  [observed |-> TRUE, probability |-> probability, score |-> (1000000 * entry.cost) \div probability]
Measure(entry, known) ==
  IF known = <<>> \/ ~Trusted(known[1]) THEN Unobserved
  ELSE Scored(entry, Larger(1, Mixed(Empirical(known[1]), Confidence(known[1]))))
Measured(entries, profiles) == [i \in DOMAIN entries |-> Measure(entries[i], profiles[entries[i].graph])]

\* expectedObjectCost, in thousandths.
ExpectedCost(entries, measured) ==
  FoldLeft(LAMBDA st, i :
             [cost |-> st.cost + st.reach * entries[i].cost,
              reach |-> (st.reach * (1000 - measured[i].probability)) \div 1000],
           [cost |-> 0, reach |-> 1000], [i \in DOMAIN entries |-> i]).cost

\* reorderObservedPositions: the measured entries of a run trade places.
Placed(entries, positions, order) ==
  [i \in DOMAIN entries |->
     IF i \in Range(positions)
     THEN entries[order[CHOOSE k \in DOMAIN positions : positions[k] = i]] ELSE entries[i]]
Better(entries, measured, i, j) ==
  \/ measured[i].score < measured[j].score
  \/ measured[i].score = measured[j].score /\ entries[i].key < entries[j].key
Reordered(entries, measured, positions) ==
  Placed(entries, positions, SortSeq(positions, LAMBDA i, j : Better(entries, measured, i, j)))
ReorderedRun(entries, measured, from, end) ==
  Reordered(entries, measured,
            SelectSeq([i \in DOMAIN entries |-> i],
                      LAMBDA i : i \in from..(end - 1) /\ measured[i].observed))

\* Runs of one presence; only schedulable entries move.
SameMovableClass(entry, first) == Schedulable(entry) /\ entry.presence = first.presence

RECURSIVE ReorderedFrom(_, _, _)
ReorderedFrom(entries, i, profiles) ==
  CASE i > Len(entries) -> entries
    [] ~Schedulable(entries[i]) -> ReorderedFrom(entries, i + 1, profiles)
    [] OTHER -> LET end == RunEnd(entries, i, LAMBDA e : SameMovableClass(e, entries[i])) IN
                ReorderedFrom(ReorderedRun(entries, Measured(entries, profiles), i, end), end, profiles)

\* analyzeObjectOrder: <<>> or <<[keys, before, after]>>.
OrderAnalysis(baseline, moved, before, after) ==
  IF moved = baseline \/ after >= before THEN <<>>
  ELSE <<[keys |-> [i \in DOMAIN moved |-> moved[i].key], before |-> before, after |-> after]>>
Compared(baseline, moved, profiles) ==
  OrderAnalysis(baseline, moved, ExpectedCost(baseline, Measured(baseline, profiles)),
                ExpectedCost(moved, Measured(moved, profiles)))
AnalyzeScheduled(baseline, profiles) ==
  Compared(baseline, ReorderedFrom(baseline, 1, profiles), profiles)
AnalyzeOrder(entries, profiles) == AnalyzeScheduled(ScheduleEntries(entries), profiles)

-----------------------------------------------------------------------------
(* Directives: node |-> keys                                               *)

\* supportedTransforms: one candidate for all the shapes of a region.
Candidate(analyses, before, after) ==
  IF DOMAIN analyses = {} \/ before - after < MinImprovement THEN {}
  ELSE {[directives |-> [n \in DOMAIN analyses |-> analyses[n][1].keys],
         before |-> before, after |-> after]}
CandidateOf(analyses) ==
  Candidate(analyses, FoldSet(LAMBDA n, sum : sum + analyses[n][1].before, 0, DOMAIN analyses),
            FoldSet(LAMBDA n, sum : sum + analyses[n][1].after, 0, DOMAIN analyses))
Improving(analyses) ==
  CandidateOf([n \in {n \in DOMAIN analyses : analyses[n] # <<>>} |-> analyses[n]])
SupportedTransforms(g, profiles) ==
  Improving([n \in DOMAIN g.nodes |->
    IF g.nodes[n].tag = "Shape" THEN AnalyzeOrder(g.nodes[n].entries, profiles) ELSE <<>>])

\* orderEntriesByKeys: <<>> unless the keys are those of the entries.
OrderByKeys(entries, keys) ==
  IF \/ Len(entries) # Len(keys) \/ Cardinality({e.key : e \in Range(entries)}) # Len(entries)
     \/ Range(keys) # {e.key : e \in Range(entries)}
  THEN <<>>
  ELSE <<[i \in DOMAIN keys |-> CHOOSE e \in Range(entries) : e.key = keys[i]]>>

\* verifyObjectOrderDirective: entries move only among their own kind.
VerifyOrdered(baseline, ordered) ==
  /\ ordered # <<>>
  /\ \A i \in DOMAIN baseline :
       baseline[i] # ordered[1][i] =>
         /\ baseline[i].presence = ordered[1][i].presence
         /\ Schedulable(baseline[i]) /\ Schedulable(ordered[1][i])

VerifyScheduled(baseline, keys) == VerifyOrdered(baseline, OrderByKeys(baseline, keys))
VerifyDirective(entries, keys) == VerifyScheduled(ScheduleEntries(entries), keys)

VerifyTransform(g, candidate) ==
  /\ candidate.after < candidate.before
  /\ \A n \in DOMAIN candidate.directives :
       g.nodes[n].tag = "Shape" /\ VerifyDirective(g.nodes[n].entries, candidate.directives[n])

\* rewriteGraph of one region: every shape ends in its static order or in
\* the order selected for it.
Reorder(baseline, selected) ==
  LET ordered == IF selected = <<>> THEN <<>> ELSE OrderByKeys(baseline, selected) IN
  IF ordered = <<>> THEN baseline ELSE ordered[1]
RewriteNode(node, selected) ==
  IF node.tag # "Shape" THEN node
  ELSE [node EXCEPT !.entries = Reorder(ScheduleEntries(node.entries), selected)]
RewriteGraph(g, directives) ==
  [g EXCEPT !.nodes = [n \in DOMAIN g.nodes |->
     RewriteNode(g.nodes[n], IF n \in DOMAIN directives THEN directives[n] ELSE <<>>)]]

-----------------------------------------------------------------------------
(* Regions and their analyses                                              *)

RegionsOf == [s \in Sources |-> Regions(Graphs, s)]
\* The position of the region of each graph, 0 for none.
RegionIndex == [s \in Sources, g \in DOMAIN Graphs |->
                  SelectInSeq(RegionsOf[s], LAMBDA r : r.graph = g)]
Program == [g \in DOMAIN Graphs |-> BuildControl(Graphs[g])]

\* What the structural hash covers: a region with its child graphs in place.
RECURSIVE StructuralHash(_)
StructuralHash(g) ==
  [result |-> Graphs[g].result,
   nodes |-> [i \in DOMAIN Graphs[g].nodes |->
     LET node == Graphs[g].nodes[i] IN
     IF node.tag # "Shape" THEN node
     ELSE [tag |-> "Shape",
           entries |-> [k \in DOMAIN node.entries |->
             LET e == node.entries[k] IN
             <<e.key, e.presence, e.cost, StructuralHash(e.graph)>>]]]]

\* buildDependenceGraph of a predicate region has no loop, so only its
\* operations matter to a target without scheduling: it is left out.
AnalyzeRegion(g, options) ==
  LET cfg == Program[g]
      costs == [i \in DOMAIN cfg.edges |-> IF cfg.edges[i].predicate = "false"
                                            THEN Targets[options.target] ELSE cfg.edges[i].cost] IN
  IF ~EP!ValidFlowGraph(cfg)
  THEN [valid |-> FALSE, exactProfile |-> [status |-> "unavailable", tree |-> {}, counters |-> <<>>],
        cover |-> FS!Unavailable({})]
  ELSE [valid |-> TRUE,
        exactProfile |-> EP!PlanExactEdgeProfile(cfg, costs, [i \in DOMAIN cfg.edges |-> {cfg.edges[i].cost}]),
        cover |-> FS!PlanCover(cfg, options.steps, options.cycles)]

Hash == [g \in DOMAIN Graphs |-> StructuralHash(g)]
Analysis == [g \in DOMAIN Graphs, options \in Options |-> AnalyzeRegion(g, options)]

CacheKey(id, hash, options) == <<options.target, id, hash, options.steps, options.cycles>>

-----------------------------------------------------------------------------
(* SeaCurrentIncrementalCache: entries promoted when read, evicted oldest  *)
(* first                                                                   *)

Lookup(entries, key) == SelectInSeq(entries, LAMBDA e : e.key = key)

\* Mutant: reading an entry does not promote it.
GetInPlace(entries, key) == entries

Get(entries, key) ==
  LET at == Lookup(entries, key) IN
  IF at = 0 THEN entries ELSE Append(RemoveAt(entries, at), entries[at])

Set(entries, key, analysis) ==
  LET at == Lookup(entries, key)
      others == IF at = 0 THEN entries ELSE RemoveAt(entries, at)
      grown == Append(others, [key |-> key, analysis |-> analysis]) IN
  IF Len(grown) > MaxCacheEntries THEN Tail(grown) ELSE grown

\* invalidateRegion: every generation of one region id.
InvalidateRegion(entries, id) ==
  SelectSeq(entries, LAMBDA e : e.key[2] # id)

\* SeaCurrentPlanner.plan as far as the cache goes: [entries, regions], a
\* region [id, graph, hash, analysis].
PlanRegion(st, region, options) ==
  LET hash == Hash[region.graph]
      key == CacheKey(region.id, hash, options)
      at == Lookup(st.entries, key)
      made == [graph |-> region.graph, options |-> options] IN
  IF at # 0
  THEN [entries |-> Get(st.entries, key),
        regions |-> Append(st.regions, [id |-> region.id, graph |-> region.graph, hash |-> hash,
                                        analysis |-> st.entries[at].analysis])]
  ELSE [entries |-> Set(st.entries, key, made),
        regions |-> Append(st.regions, [id |-> region.id, graph |-> region.graph, hash |-> hash,
                                        analysis |-> made])]

PlanOf(entries, s, options) ==
  FoldLeft(LAMBDA st, region : PlanRegion(st, region, options),
           [entries |-> entries, regions |-> <<>>], RegionsOf[s])

Reused(analysis) == Analysis[analysis.graph, analysis.options]

-----------------------------------------------------------------------------
(* buildSeaCurrentInstrumentationLayout: a slot per counted edge, then two *)
(* for the outcomes, region after region                                   *)

CountersIn(exact) == IF exact.status = "exact" THEN exact.counters ELSE <<>>
CountersOf(region) == CountersIn(Reused(region.analysis).exactProfile)

LayCounters(st, region, counters) ==
  LET outcomes == st.slots + Len(counters) IN
  [slots |-> outcomes + 2,
   regions |-> Append(st.regions,
     [id |-> region.id, hash |-> region.hash,
      frequencySlot |-> Len(st.regions) + 1,
      counters |-> [i \in DOMAIN counters |->
                      [edge |-> counters[i].edge, slot |-> st.slots + i]],
      acceptedSlot |-> outcomes + 1, rejectedSlot |-> outcomes + 2])]

LayRegion(st, region) == LayCounters(st, region, CountersOf(region))

\* The profile id is a hash of all the rest.
Manifest(laid, options) ==
  [profileId |-> <<options.target, laid.regions>>, targetKey |-> options.target,
   regions |-> laid.regions, counterSlots |-> laid.slots]

Layout(regions, options) ==
  Manifest(FoldLeft(LayRegion, [slots |-> 0, regions |-> <<>>], regions), options)

ZeroTables(manifest) ==
  [counters |-> [i \in 1..manifest.counterSlots |-> 0],
   frequencies |-> [i \in DOMAIN manifest.regions |-> 0], overflow |-> FALSE]

-----------------------------------------------------------------------------
(* A run of a predicate as a sequence of events: a region entered, an edge *)
(* statement, a call of user code, an outcome                              *)

RECURSIVE Accepts(_, _, _)
EntryAccepts(graphs, e, w) ==
  IF e.key \in w.absent THEN e.presence = "optional" ELSE Accepts(graphs, e.graph, w)
LeafAnswers(graphs, g, w) ==
  [id \in DOMAIN graphs[g].nodes |->
     LET node == graphs[g].nodes[id] IN
     CASE node.tag = "Test" -> node.atom \in w.holds
       [] node.tag = "Shape" -> \A i \in DOMAIN node.entries : EntryAccepts(graphs, node.entries[i], w)
       [] OTHER -> FALSE]
Accepts(graphs, g, w) ==
  Check(graphs[g], graphs[g].result, LeafAnswers(graphs, g, w), [passed |-> TRUE, trace |-> <<>>]).passed

\* The entries of a shape in the order they are checked: its static order, or
\* the order in the graph once it was lowered.
Order(entries, graphOrder) == IF graphOrder THEN entries ELSE ScheduleEntries(entries)

\* The events of a region under its control programs; a shape runs the regions
\* of its entries until one fails.
RECURSIVE Events(_, _, _, _, _), EntryEvents(_, _, _, _, _, _)
EntryEvents(graphs, programs, entries, i, w, graphOrder) ==
  IF i > Len(entries) THEN <<>>
  ELSE LET e == entries[i] IN
       IF e.key \in w.absent
       THEN IF e.presence = "optional"
            THEN EntryEvents(graphs, programs, entries, i + 1, w, graphOrder) ELSE <<>>
       ELSE Events(graphs, programs, e.graph, w, graphOrder)
              \o (IF Accepts(graphs, e.graph, w)
                  THEN EntryEvents(graphs, programs, entries, i + 1, w, graphOrder) ELSE <<>>)
Events(graphs, programs, g, w, graphOrder) ==
  LET run == InstrumentedRegion(graphs[g], programs[g], LeafAnswers(graphs, g, w))
      leafEvents(id) ==
        LET node == graphs[g].nodes[id] IN
        CASE node.tag = "Shape" ->
               EntryEvents(graphs, programs, Order(node.entries, graphOrder), 1, w, graphOrder)
          [] node.tag = "Test" /\ node.opaque -> <<[kind |-> "call", of |-> node.atom]>>
          [] OTHER -> <<[kind |-> "test", of |-> g]>> IN
  <<[kind |-> "enter", of |-> g]>>
    \o FlattenSeq([k \in DOMAIN run.trace |->
         IF run.trace[k][1] = "edge" THEN <<[kind |-> "edge", of |-> g, edge |-> run.trace[k][2]]>>
         ELSE leafEvents(run.trace[k][2])])
    \o <<[kind |-> IF run.passed THEN "accept" ELSE "reject", of |-> g]>>

EventsOf == [s \in Sources, w \in Worlds |-> Events(Graphs, Program, s, w, FALSE)]
Calls(events) == SelectSeq(events, LAMBDA e : e.kind = "call")

\* emitSaturatingIncrement.
Increment(tables, table, slot) ==
  IF tables[table][slot] < MaxCount THEN [tables EXCEPT ![table][slot] = @ + 1]
  ELSE [tables EXCEPT !.overflow = TRUE]

\* The statement an event runs; only the first region of a graph is counted.
Record(s, manifest, tables, event) ==
  IF event.kind \in {"call", "test"} THEN tables
  ELSE LET region == manifest.regions[RegionIndex[s, event.of]] IN
       CASE event.kind = "enter" -> Increment(tables, "frequencies", region.frequencySlot)
         [] event.kind = "accept" -> Increment(tables, "counters", region.acceptedSlot)
         [] event.kind = "reject" -> Increment(tables, "counters", region.rejectedSlot)
         [] OTHER ->
              FoldLeft(LAMBDA ts, c : IF c.edge = event.edge THEN Increment(ts, "counters", c.slot)
                                      ELSE ts, tables, region.counters)

RecordAll(s, manifest, tables, events) ==
  FoldLeft(LAMBDA ts, e : Record(s, manifest, ts, e), tables, events)

-----------------------------------------------------------------------------
(* What really happened: the walk through the flow graph of each region    *)
(* that a run goes through, from its leaves alone                          *)

NoTruth(s) == [i \in DOMAIN RegionsOf[s] |->
                 [frequency |-> 0, accepted |-> 0, rejected |-> 0,
                  edges |-> [e \in DOMAIN Program[RegionsOf[s][i].graph].edges |-> 0]]]

\* The edges taken from a node of the flow graph to an exit.
RECURSIVE Walk(_, _, _)
Walk(program, leaf, node) ==
  IF node \in {Accept, Reject} THEN {}
  ELSE LET b == CHOOSE b \in Range(program.branches) : Operation(b.path) = node
           edge == IF leaf[b.node] THEN b.yes ELSE b.no IN
       {edge} \cup Walk(program, leaf, program.edges[edge].destination)

Taken(program, leaf) ==
  {EntryEdge(program)} \cup Walk(program, leaf, program.edges[EntryEdge(program)].destination)
TakenBy == [g \in DOMAIN Graphs, w \in Worlds |-> Taken(Program[g], LeafAnswers(Graphs, g, w))]
AcceptedBy == [g \in DOMAIN Graphs, w \in Worlds |-> Accepts(Graphs, g, w)]

\* How often one run enters each region, from the order entries are checked in.
Entered == [s \in Sources, w \in Worlds, g \in DOMAIN Graphs |->
              Len(SelectSeq(EventsOf[s, w], LAMBDA e : e.kind = "enter" /\ e.of = g))]

Added(known, g, w, n) ==
  [frequency |-> known.frequency + n,
   accepted |-> known.accepted + (IF AcceptedBy[g, w] THEN n ELSE 0),
   rejected |-> known.rejected + (IF AcceptedBy[g, w] THEN 0 ELSE n),
   edges |-> [e \in DOMAIN known.edges |-> known.edges[e] + (IF e \in TakenBy[g, w] THEN n ELSE 0)]]
AddTruth(s, known, w) ==
  [i \in DOMAIN known |->
     Added(known[i], RegionsOf[s][i].graph, w, Entered[s, w, RegionsOf[s][i].graph])]

-----------------------------------------------------------------------------
(* Profiles: snapshots, their admission and what is lowered from them      *)

ArtifactOf(manifest, tables) ==
  [profileId |-> manifest.profileId, targetKey |-> manifest.targetKey, overflow |-> tables.overflow,
   regions |-> [i \in DOMAIN manifest.regions |->
     LET r == manifest.regions[i] IN
     [id |-> r.id, hash |-> r.hash, frequency |-> tables.frequencies[r.frequencySlot],
      accepted |-> tables.counters[r.acceptedSlot], rejected |-> tables.counters[r.rejectedSlot],
      edges |-> [k \in DOMAIN r.counters |->
                   [edge |-> r.counters[k].edge, count |-> tables.counters[r.counters[k].slot]]]]]]

\* A run that was cut short is counted too.
CompleteAtMost(region) == region.accepted + region.rejected <= region.frequency
Complete(region) == region.accepted + region.rejected = region.frequency

\* ingestSeaCurrentProfile: every region must match its manifest.
Admitted(manifest, artifact) ==
  /\ artifact.profileId = manifest.profileId
  /\ artifact.targetKey = manifest.targetKey
  /\ ~artifact.overflow
  /\ Len(artifact.regions) = Len(manifest.regions)
  /\ \A i \in DOMAIN manifest.regions :
       \E k \in DOMAIN artifact.regions :
         /\ artifact.regions[k].id = manifest.regions[i].id
         /\ artifact.regions[k].hash = manifest.regions[i].hash
         /\ Complete(artifact.regions[k])
         /\ [j \in DOMAIN artifact.regions[k].edges |-> artifact.regions[k].edges[j].edge]
              = [j \in DOMAIN manifest.regions[i].counters |-> manifest.regions[i].counters[j].edge]

\* What each graph is known to do, from the admitted regions.
ProfileOf(s, artifact) ==
  [g \in DOMAIN Graphs |->
     LET at == RegionIndex[s, g] IN
     IF at = 0 THEN <<>>
     ELSE LET r == CHOOSE r \in Range(artifact.regions) : r.id = RegionsOf[s][at].id IN
          <<[frequency |-> r.frequency, accepted |-> r.accepted, rejected |-> r.rejected,
             uncertainty |-> 0]>>]

\* selectTransform: the benefit is what the frequency multiplies.
Directives(g, profiles) ==
  LET found == {c \in SupportedTransforms(Graphs[g], profiles) :
                  profiles[g][1].frequency * (c.before - c.after) > 0
                  /\ VerifyTransform(Graphs[g], c)} IN
  IF found = {} THEN <<>> ELSE (CHOOSE c \in found : TRUE).directives

\* transformations.lower: the regions of the source, all graphs rewritten.
Lower(s, profiles) ==
  [g \in DOMAIN Graphs |->
     IF RegionIndex[s, g] = 0 THEN Graphs[g]
     ELSE RewriteGraph(Graphs[g], Directives(g, profiles))]

-----------------------------------------------------------------------------
Init ==
  /\ cache = <<>>
  /\ compiled = [s \in Sources |-> <<>>]
  /\ truth = [s \in Sources |-> NoTruth(s)]
  /\ artifacts = [s \in Sources |-> <<>>]
  /\ optimized = [s \in Sources |-> <<>>]

\* bridge.compile: plan, lay out, and start from zero tables.
Compile(s) ==
  /\ \E planned \in {PlanOf(cache, s, Home)} :
       \E manifest \in {Layout(planned.regions, Home)} :
         /\ cache' = planned.entries
         /\ compiled' = [compiled EXCEPT ![s] =
              <<[manifest |-> manifest, tables |-> ZeroTables(manifest)]>>]
  /\ truth' = [truth EXCEPT ![s] = NoTruth(s)]
  /\ UNCHANGED <<artifacts, optimized>>

Tables(s, tables) == compiled' = [compiled EXCEPT ![s][1].tables = tables]

\* The instrumented predicate runs to its end.
Run(s, w) ==
  /\ compiled[s] # <<>>
  /\ Tables(s, RecordAll(s, compiled[s][1].manifest, compiled[s][1].tables, EventsOf[s, w]))
  /\ truth' = [truth EXCEPT ![s] = AddTruth(s, @, w)]
  /\ UNCHANGED <<cache, artifacts, optimized>>

\* closeHostileInputBoundary: reading the value or user code throws; for a
\* value that cannot be inspected the answer is FALSE and the tables are
\* poisoned, else the error goes on.
Interrupt(s, w, hostile) ==
  /\ compiled[s] # <<>>
  /\ \E k \in {k \in DOMAIN EventsOf[s, w] : EventsOf[s, w][k].kind \in {"call", "test"}} :
       LET partial == RecordAll(s, compiled[s][1].manifest, compiled[s][1].tables,
                                SubSeq(EventsOf[s, w], 1, k - 1)) IN
       Tables(s, IF hostile THEN [partial EXCEPT !.overflow = TRUE] ELSE partial)
  /\ UNCHANGED <<cache, truth, artifacts, optimized>>

Snapshot(s) ==
  /\ compiled[s] # <<>>
  /\ artifacts' = [artifacts EXCEPT ![s] =
       <<[artifact |-> ArtifactOf(compiled[s][1].manifest, compiled[s][1].tables),
          truth |-> truth[s]]>>]
  /\ UNCHANGED <<cache, compiled, truth, optimized>>

Reset(s) ==
  /\ compiled[s] # <<>>
  /\ Tables(s, ZeroTables(compiled[s][1].manifest))
  /\ truth' = [truth EXCEPT ![s] = NoTruth(s)]
  /\ UNCHANGED <<cache, artifacts, optimized>>

\* bridge.optimize in safe mode: plan again, admit the profile, plan with it.
Optimize(s, from) ==
  /\ artifacts[from] # <<>>
  /\ \E planned \in {PlanOf(cache, s, Home)}, told \in {artifacts[from][1]} :
       IF Admitted(Layout(planned.regions, Home), told.artifact)
       THEN /\ cache' = PlanOf(planned.entries, s, Home).entries
            /\ optimized' = [optimized EXCEPT ![s] =
                 <<[graphs |-> Lower(s, ProfileOf(s, told.artifact)),
                    artifact |-> told.artifact, truth |-> told.truth]>>]
       ELSE cache' = planned.entries /\ UNCHANGED optimized
  /\ UNCHANGED <<compiled, truth, artifacts>>

\* planner.plan with other targets and budgets on the builder's planner.
Plan(s, options) ==
  /\ cache' = PlanOf(cache, s, options).entries
  /\ UNCHANGED <<compiled, truth, artifacts, optimized>>

Invalidate(id) ==
  /\ cache' = InvalidateRegion(cache, id)
  /\ UNCHANGED <<compiled, truth, artifacts, optimized>>

Clear == cache' = <<>> /\ UNCHANGED <<compiled, truth, artifacts, optimized>>

-----------------------------------------------------------------------------
(* Properties                                                              *)

\* Whoever plans a region with whatever options is given the analysis that
\* would be made for exactly this region and these options.
AnalysisFreshFor(s, options) ==
  \A r \in Range(RegionsOf[s]) :
    LET at == Lookup(cache, CacheKey(r.id, Hash[r.graph], options)) IN
    at # 0 => Reused(cache[at].analysis) = Analysis[r.graph, options]

\* A profile that is admitted tells, region by region, how often the program
\* really went through the region and each counted edge of it: no run that was
\* cut short, no saturated counter and no other program is in its counts.
ProfileIsTruth ==
  \A s \in Sources : optimized[s] # <<>> =>
    \A i \in DOMAIN optimized[s][1].truth :
      LET told == optimized[s][1].artifact.regions[i]
          real == optimized[s][1].truth[i] IN
      /\ told.frequency = real.frequency /\ told.accepted = real.accepted
      /\ \A k \in DOMAIN told.edges : told.edges[k].count = real.edges[told.edges[k].edge]

AgreesOn(graphs, s, w) ==
  /\ Accepts(graphs, s, w) = AcceptedBy[s, w]
  /\ Calls(Events(graphs, Program, s, w, TRUE)) = Calls(EventsOf[s, w])
\* The predicate lowered from a profile answers every value as the source does
\* and calls the same user code in the same order.
OptimizedAgrees ==
  \A s \in Sources, w \in Worlds : optimized[s] # <<>> => AgreesOn(optimized[s][1].graphs, s, w)
=============================================================================
