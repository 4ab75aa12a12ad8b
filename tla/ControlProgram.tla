--------------------------- MODULE ControlProgram ---------------------------
(***************************************************************************)
(* The control flow SeaCurrent reads off a predicate graph                 *)
(* (src/seacurrent/typesea-adapter.ts), and the instrumented predicate     *)
(* emitted from the same graph (src/compile/graph-predicate.ts), which     *)
(* names control edges by the paths both sides build.                      *)
(*                                                                         *)
(* A region is [nodes, result]; a node is Const, Return, Not, And, Or, a   *)
(* Test of an atom, or a Shape whose entries are regions of their own.  A  *)
(* world says which atoms hold.                                            *)
(***************************************************************************)
EXTENDS Integers, SequencesExt

CONSTANTS MaxExpanded   \* maxExpandedNodes: how deep control is expanded

-----------------------------------------------------------------------------
(* Control paths and the nodes they name                                   *)

Entry == <<"entry">>
Accept == <<"accept">>
Reject == <<"reject">>
Operation(path) == <<"op">> \o path

BooleanNodes == {"Const", "Return", "Not", "And", "Or"}

\* Control edges weigh what their counter costs by how likely they are taken.
Edge(source, destination, predicate, probability) ==
  [source |-> source, destination |-> destination, predicate |-> predicate,
   probability |-> probability, cost |-> 1]

PushEdge(st, edge) == [st EXCEPT !.edges = Append(@, edge)]

EmitLeaf(st, id, onTrue, onFalse, path) ==
  LET at == Operation(path)
      said == Len(st.edges) IN
  [at |-> at,
   edges |-> st.edges \o <<Edge(at, onTrue, "true", 95), Edge(at, onFalse, "false", 5)>>,
   branches |-> Append(st.branches,
                       [path |-> path, node |-> id, yes |-> said + 1, no |-> said + 2])]

\* And and Or emit their operands from the last one back: each continues to
\* the one after it on the outcome that does not decide.
RECURSIVE EmitControl(_, _, _, _, _, _, _), EmitFold(_, _, _, _, _, _, _)
EmitControl(g, id, onTrue, onFalse, depth, path, st) ==
  LET node == g.nodes[id] IN
  CASE depth >= MaxExpanded \/ node.tag \notin BooleanNodes ->
         EmitLeaf(st, id, onTrue, onFalse, path)
    [] node.tag = "Return" -> EmitControl(g, node.value, onTrue, onFalse, depth + 1, path, st)
    [] node.tag = "Const" -> [st EXCEPT !.at = IF node.holds THEN onTrue ELSE onFalse]
    [] node.tag = "Not" ->
         EmitControl(g, node.value, onFalse, onTrue, depth + 1, Append(path, <<"n">>), st)
    [] node.tag = "And" -> EmitFold(g, node, Len(node.values), onFalse, depth, path,
                                    [st EXCEPT !.at = onTrue])
    [] OTHER -> EmitFold(g, node, Len(node.values), onTrue, depth, path,
                         [st EXCEPT !.at = onFalse])
EmitFold(g, node, i, decided, depth, path, st) ==
  IF i = 0 THEN st
  ELSE LET step == Append(path, <<IF node.tag = "And" THEN "a" ELSE "o", i>>) IN
       EmitFold(g, node, i - 1, decided, depth, path,
                IF node.tag = "And"
                THEN EmitControl(g, node.values[i], st.at, decided, depth + 1, step, st)
                ELSE EmitControl(g, node.values[i], decided, st.at, depth + 1, step, st))

\* The control program of a region: its flow graph, the entry edge last.
BuildControl(g) ==
  LET first == EmitControl(g, g.result, Accept, Reject, 0, <<>>,
                           [at |-> Accept, edges |-> <<>>, branches |-> <<>>])
      st == PushEdge(first, Edge(Entry, first.at, "entry", 100)) IN
  [nodes |-> <<Entry, Accept, Reject>>
               \o [i \in DOMAIN first.branches |-> Operation(first.branches[i].path)],
   edges |-> st.edges, entry |-> Entry, exits |-> <<Accept, Reject>>,
   branches |-> first.branches]

EntryEdge(program) == Len(program.edges)

-----------------------------------------------------------------------------
(* The regions of a program, by the position of the child graphs           *)

ChildGraphs(node) ==
  IF node.tag = "Shape" THEN [i \in DOMAIN node.entries |-> node.entries[i].graph] ELSE <<>>

\* A graph met again is not enumerated again.
RECURSIVE EnumerateRegions(_, _, _)
EnumerateRegions(graphs, pending, found) ==
  CASE pending = <<>> -> found
    [] \E i \in DOMAIN found : found[i].graph = Head(pending).graph ->
         EnumerateRegions(graphs, Tail(pending), found)
    [] OTHER ->
         LET next == Head(pending)
             children == FlattenSeq([i \in DOMAIN graphs[next.graph].nodes |->
                                       ChildGraphs(graphs[next.graph].nodes[i])]) IN
         EnumerateRegions(graphs,
           [i \in DOMAIN children |-> [graph |-> children[i], id |-> Append(next.id, i)]]
             \o Tail(pending),
           Append(found, next))
Regions(graphs, root) == EnumerateRegions(graphs, <<[graph |-> root, id |-> <<>>]>>, <<>>)

-----------------------------------------------------------------------------
(* The instrumented predicate: what it answers and the control edges whose *)
(* statements it runs on the way                                           *)

\* instrumentation.branch and .statement: edges are found by path.
BranchAt(program, path) == {b \in Range(program.branches) : b.path = path}
IsBranch(program, path, id) == \E b \in BranchAt(program, path) : b.node = id
EdgeStatement(program, path, outcome) ==
  LET found == BranchAt(program, path) IN
  IF found = {} THEN <<>>
  ELSE LET b == CHOOSE b \in found : TRUE IN <<<<"edge", IF outcome THEN b.yes ELSE b.no>>>>

\* A run is [passed, trace]: the leaves evaluated, <<"leaf", node>>, and the
\* control edges whose statements ran, <<"edge", position>>, in order.
Ran(st, program, path) ==
  [st EXCEPT !.trace = @ \o EdgeStatement(program, path, st.passed)]

\* The ordinary check of a node, in the order the folds evaluate.
RECURSIVE Check(_, _, _, _), CheckFold(_, _, _, _, _)
Check(g, id, leaf, st) ==
  LET node == g.nodes[id] IN
  CASE node.tag = "Const" -> [st EXCEPT !.passed = node.holds]
    [] node.tag = "Return" -> Check(g, node.value, leaf, st)
    [] node.tag = "Not" ->
         LET checked == Check(g, node.value, leaf, st) IN [checked EXCEPT !.passed = ~@]
    [] node.tag \in {"And", "Or"} ->
         CheckFold(g, node, 1, leaf, [st EXCEPT !.passed = node.tag = "And"])
    [] OTHER -> [st EXCEPT !.passed = leaf[id], !.trace = Append(@, <<"leaf", id>>)]
CheckFold(g, node, i, leaf, st) ==
  IF i > Len(node.values) \/ st.passed # (node.tag = "And") THEN st
  ELSE CheckFold(g, node, i + 1, leaf, Check(g, node.values[i], leaf, st))

\* A branch of the plan is a leaf here too; And stops at the first failure, Or
\* at the first success, Not swaps them.
RECURSIVE InstrumentedGuard(_, _, _, _, _, _), InstrumentedFold(_, _, _, _, _, _, _)
InstrumentedGuard(g, program, id, path, leaf, st) ==
  LET node == g.nodes[id] IN
  CASE IsBranch(program, path, id) \/ node.tag \notin BooleanNodes ->
         Ran(Check(g, id, leaf, st), program, path)
    [] node.tag = "Const" -> [st EXCEPT !.passed = node.holds]
    [] node.tag = "Return" -> InstrumentedGuard(g, program, node.value, path, leaf, st)
    [] node.tag = "Not" ->
         LET probed == InstrumentedGuard(g, program, node.value, Append(path, <<"n">>), leaf, st)
         IN [probed EXCEPT !.passed = ~@]
    [] OTHER -> InstrumentedFold(g, program, node, 1, path, leaf,
                                 [st EXCEPT !.passed = node.tag = "And"])
InstrumentedFold(g, program, node, i, path, leaf, st) ==
  IF i > Len(node.values) \/ st.passed # (node.tag = "And") THEN st
  ELSE InstrumentedFold(g, program, node, i + 1, path, leaf,
         InstrumentedGuard(g, program, node.values[i],
           Append(path, <<IF node.tag = "And" THEN "a" ELSE "o", i>>), leaf, st))

\* One run of an instrumented region, from its entry edge.
InstrumentedRegion(g, program, leaf) ==
  InstrumentedGuard(g, program, g.result, <<>>, leaf,
                    [passed |-> TRUE, trace |-> <<<<"edge", EntryEdge(program)>>>>])
=============================================================================
