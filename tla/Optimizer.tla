----------------------------- MODULE Optimizer -----------------------------
(***************************************************************************)
(* The passes of the graph optimizer (src/optimize): constant folding,     *)
(* the peephole pass, the specialization of domains, and compaction.  Each *)
(* is an operator from graphs to graphs.                                   *)
(***************************************************************************)
EXTENDS GraphIR

-----------------------------------------------------------------------------
(* What a rule decides for one node: the node to store, and what all uses  *)
(* of it become: itself (<<>>), a constant, or another node.               *)

Keep(n) == [node |-> n, const |-> {}, id |-> {}]
ToConst(n, v) == [node |-> n, const |-> {v}, id |-> {}]
ToNode(n, id) == [node |-> n, const |-> {}, id |-> {id}]

IsConst(nodes, id) == nodes[id].op = "Const"

\* readConst on every operand, for a node whose operands are all constants.
LiteralHeap == [v \in Value |-> [kind |-> "atom"]]
ConstOperands(nodes, n) == \A i \in DOMAIN n.deps : IsConst(nodes, n.deps[i])

FoldScalar(n, nodes) ==
  IF ~ConstOperands(nodes, n) THEN Keep(n)
  ELSE CASE n.op = "GetProp" -> ToConst(n, Undefined)
         [] n.op \in {"HasOwn", "HasOwnData", "StrictKeys", "ArrayEvery", "TupleItems",
                      "RecordEvery", "DiscriminantDispatch"} -> ToConst(n, False)
         [] n.op \in {"Is", "Not", "Equals", "Gte", "Lte", "StringMin", "StringMax",
                      "Regex"} ->
              ToConst(n, Applied(LiteralHeap, n,
                                 [i \in DOMAIN n.deps |-> nodes[n.deps[i]].arg]))
         [] OTHER -> Keep(n)

-----------------------------------------------------------------------------
(* Conjunctions and disjunctions                                           *)

RECURSIVE Flatten(_, _, _)
Flatten(ids, nodes, op) ==
  IF ids = <<>> THEN <<>>
  ELSE LET n == nodes[Head(ids)] IN
       (IF n.op = op THEN Flatten(n.deps, nodes, op) ELSE <<Head(ids)>>)
       \o Flatten(Tail(ids), nodes, op)

Barrier == Pushed \ {"Return"}

\* The operands up to the first constant that decides the answer; that one is
\* kept after a barrier, and decides at once (<<>>, decided) before any.
Scanned(ids, nodes, op) ==
  LET decides(i) == /\ IsConst(nodes, ids[i])
                    /\ (nodes[ids[i]].arg = True) # (op = "And")
      decisive == {i \in DOMAIN ids : decides(i)}
      first == CHOOSE i \in decisive : \A j \in decisive : i <= j
      open(seq) == SelectSeq(seq, LAMBDA id : ~IsConst(nodes, id))
      before == IF decisive = {} THEN ids ELSE SubSeq(ids, 1, first - 1)
      barrier == \E i \in DOMAIN before : nodes[before[i]].op \in Barrier
  IN  CASE decisive = {} -> [decided |-> FALSE, ids |-> open(ids)]
        [] barrier -> [decided |-> FALSE, ids |-> Append(open(before), ids[first])]
        [] OTHER -> [decided |-> TRUE, ids |-> <<>>]

RECURSIVE ComplementSafe(_, _)
ComplementSafe(id, nodes) ==
  LET n == nodes[id] IN
  CASE n.op = "Const" -> n.arg \in {True, False}
    [] n.op \in {"Is", "Equals", "Gte", "Lte", "StringMin", "StringMax", "Regex",
                 "HasOwn", "HasOwnData", "StrictKeys"} -> TRUE
    [] n.op \in {"Not", "And", "Or"} ->
         \A i \in DOMAIN n.deps : ComplementSafe(n.deps[i], nodes)
    [] OTHER -> FALSE

\* An operand and its negation are both among the operands.
Complement(id, kept, nodes) ==
  LET negated(k) == IF nodes[k].op = "Not" THEN {nodes[k].deps[1]} ELSE {} IN
  IF negated(id) # {}
    THEN \E k \in negated(id) :
           /\ ComplementSafe(k, nodes) /\ k \in kept /\ nodes[k].op # "Not"
    ELSE ComplementSafe(id, nodes) /\ \E k \in kept : id \in negated(k)

\* simplifyAndValues, simplifyOrValues: duplicates, absorption, complements.
RECURSIVE Simplified(_, _, _, _)
Simplified(ids, nodes, op, kept) ==
  LET id == Head(ids)
      dual == IF op = "And" THEN "Or" ELSE "And"
      absorbed == /\ nodes[id].op = dual
                  /\ Range(nodes[id].deps) \cap Range(kept) # {}
  IN  IF ids = <<>> THEN [decided |-> FALSE, ids |-> kept]
      ELSE IF id \in Range(kept) \/ absorbed
        THEN Simplified(Tail(ids), nodes, op, kept)
      ELSE IF Complement(id, Range(kept), nodes) THEN [decided |-> TRUE, ids |-> <<>>]
      ELSE Simplified(Tail(ids), nodes, op, Append(kept, id))

\* findPurePrefixEnd: constraints are compared before the first of these only.
Impure == (Barrier \cup {"And", "Or"}) \ {"PrimitiveUnion"}

\* Mutant: constraints are compared across the whole conjunction.
WholePrefix(ids, nodes) == {i \in DOMAIN ids : nodes[ids[i]].op \notin Impure}

PurePrefix(ids, nodes) ==
  {i \in DOMAIN ids : \A j \in 1..i : nodes[ids[j]].op \notin Impure}

\* What a constraint says: the value it is on, the kind of fact, and its limit.
Fact(id, nodes) ==
  LET n == nodes[id]
      bounded == nodes[n.deps[2]] IN
  CASE n.op = "Is" -> {[on |-> n.deps[1], kind |-> "type",
                        limit |-> IF n.arg = "integer" THEN 1 ELSE 0,
                        of |-> IF n.arg = "integer" THEN "number" ELSE n.arg]}
    [] n.op \in {"StringMin", "StringMax"} ->
         {[on |-> n.deps[1], kind |-> IF n.op = "StringMin" THEN "min" ELSE "max",
           limit |-> n.arg, of |-> "length"]}
    [] n.op \in {"Gte", "Lte"} ->
         IF bounded.op = "Const" /\ IsTest(LiteralHeap, "number", bounded.arg)
           THEN {[on |-> n.deps[1], kind |-> IF n.op = "Gte" THEN "min" ELSE "max",
                  limit |-> Measure[bounded.arg], of |-> "magnitude"]}
           ELSE {}
    [] OTHER -> {}

Contradict(f, g) ==
  /\ f.on = g.on
  /\ \/ f.kind = "type" /\ g.kind = "type" /\ f.of # g.of
     \/ f.kind = "min" /\ g.kind = "max" /\ f.of = g.of /\ f.limit > g.limit

\* Fact f, at i, says no more than fact g, at j.
Redundant(f, i, g, j) ==
  /\ i # j /\ f.on = g.on /\ f.kind = g.kind /\ f.of = g.of
  /\ CASE f.kind = "type" -> f.limit < g.limit \/ (f.limit = g.limit /\ j < i)
       [] f.kind = "min"  -> f.limit < g.limit \/ (f.limit = g.limit /\ i < j)
       [] f.kind = "max"  -> f.limit > g.limit \/ (f.limit = g.limit /\ i < j)

Canonical(ids, nodes) ==
  LET pure == PurePrefix(ids, nodes)
      facts == UNION {{<<i, f>> : f \in Fact(ids[i], nodes)} : i \in pure}
      dropped == {p[1] : p \in {q \in facts :
                    \E r \in facts : Redundant(q[2], q[1], r[2], r[1])}}
      left == SelectSeq([i \in DOMAIN ids |-> i], LAMBDA i : i \notin dropped)
  IN  [decided |-> \E p, q \in facts : Contradict(p[2], q[2]),
       ids |-> Explicit([i \in DOMAIN left |-> ids[left[i]]])]

\* foldAnd, foldOr.
FoldBoolean(n, nodes) ==
  LET unit == IF n.op = "And" THEN True ELSE False
      zero == IF n.op = "And" THEN False ELSE True
      finish(r) == CASE r.decided -> ToConst(n, zero)
                     [] ~r.decided /\ r.ids = <<>> -> ToConst(n, unit)
                     [] ~r.decided /\ Len(r.ids) = 1 -> ToNode(n, r.ids[1])
                     [] OTHER -> Keep([n EXCEPT !.deps = r.ids])
      canonical(r) == IF r.decided \/ n.op = "Or" THEN r ELSE Canonical(r.ids, nodes)
      simplified(r) == IF r.decided THEN r ELSE Simplified(r.ids, nodes, n.op, <<>>)
  IN  finish(canonical(simplified(Scanned(Flatten(n.deps, nodes, n.op), nodes, n.op))))

FoldNode(n, nodes) ==
  IF n.op \in {"And", "Or"} THEN FoldBoolean(n, nodes) ELSE FoldScalar(n, nodes)

-----------------------------------------------------------------------------
(* The peephole pass drops the branches of a dispatch that cannot accept.  *)

LiveBranches(op, branches) ==
  SelectSeq(branches,
            LAMBDA b : /\ ConstantResult(b.graph) # {False}
                       /\ op = "DiscriminantDispatch" \/ b.mask # {})

PeepholeNode(n) ==
  IF n.op \notin Dispatch THEN Keep(n)
  ELSE LET live == LiveBranches(n.op, n.arg.branches) IN
       IF live = <<>> THEN ToConst(n, False)
       ELSE Keep([n EXCEPT !.arg.branches = live])

-----------------------------------------------------------------------------
(* Specialization to the types a branch is entered with                    *)

\* Mutant: a numeric test on numbers is taken to hold, as the other tests are.
MaskIsExact(n, mask) ==
  LET type == IF n.arg = "integer" THEN "number" ELSE n.arg IN
  CASE type \notin mask -> ToConst(n, False)
    [] mask = {type} -> ToConst(n, True)
    [] OTHER -> Keep(n)

\* specializeUnaryType, specializeNumericType.
MaskIs(n, mask) ==
  LET type == IF n.arg = "integer" THEN "number" ELSE n.arg IN
  CASE type \notin mask -> ToConst(n, False)
    [] mask = {type} /\ type # "number" -> ToConst(n, True)
    [] OTHER -> Keep(n)

\* The type a node's operand must have for the node to be true, if it has one.
RequiredType(n, nodes) ==
  LET literal == nodes[n.deps[2]] IN
  CASE n.op \in {"StringMin", "StringMax", "Regex"} -> {"string"}
    [] n.op \in {"ArrayEvery", "TupleItems"} -> {"array"}
    [] n.op \in {"RecordEvery", "ObjectShape", "DiscriminantDispatch",
                 "PresenceDispatch"} -> {"object"}
    [] n.op \in {"Gte", "Lte"} /\ literal.op = "Const" ->
         {Primitive[literal.arg]} \cap {"number", "bigint"}
    [] n.op = "Equals" /\ literal.op = "Const" -> {Primitive[literal.arg]}
    [] OTHER -> {}

MaskNode(n, nodes, mask) ==
  LET required == RequiredType(n, nodes)
      onParam == n.deps # <<>> /\ nodes[n.deps[1]].op = "Param" IN
  CASE ~onParam -> Keep(n)
    [] n.op = "Is" -> MaskIs(n, mask)
    [] required # {} /\ required \cap mask = {} -> ToConst(n, False)
    [] OTHER -> Keep(n)

-----------------------------------------------------------------------------
(* A pass visits the nodes in order, redirecting the uses of each.         *)

RECURSIVE Resolve(_, _)
Resolve(id, aliases) == IF aliases[id] = id THEN id ELSE Resolve(aliases[id], aliases)

RewriteDeps(n, aliases) ==
  [n EXCEPT !.deps = Explicit([i \in DOMAIN n.deps |-> Resolve(n.deps[i], aliases)])]

ConstNode(v) == [op |-> "Const", deps |-> <<>>, arg |-> v]

\* ensureConst: the first constant equal to v, or a new node.
EnsureConst(nodes, v) ==
  LET twins == {i \in DOMAIN nodes : nodes[i].op = "Const" /\ nodes[i].arg = v} IN
  IF twins = {} THEN [nodes |-> Append(nodes, ConstNode(v)), id |-> Len(nodes) + 1]
  ELSE [nodes |-> nodes, id |-> CHOOSE i \in twins : \A j \in twins : i <= j]

Ruled(rule, n, nodes) ==
  CASE rule.pass = "fold" -> FoldNode(n, nodes)
    [] rule.pass = "peephole" -> PeepholeNode(n)
    [] rule.pass = "mask" -> MaskNode(n, nodes, rule.mask)

\* One node of a pass: st is [nodes, aliases, changed].
Visit(rule, i, st) ==
  LET redirected(outcome) ==
        LET const == EnsureConst(st.nodes, CHOOSE v \in outcome.const : TRUE)
            nodes == IF outcome.const = {} THEN st.nodes ELSE const.nodes
            target == CASE outcome.const # {} -> const.id
                        [] outcome.id # {} -> CHOOSE id \in outcome.id : TRUE
                        [] OTHER -> i
            grown == st.aliases \o [k \in 1..(Len(nodes) - Len(st.nodes)) |->
                                      Len(st.nodes) + k]
        IN  [nodes |-> [nodes EXCEPT ![i] = outcome.node],
             aliases |-> [grown EXCEPT ![i] = target],
             changed |-> st.changed \/ target # i]
  IN  redirected(Ruled(rule, RewriteDeps(st.nodes[i], st.aliases), st.nodes))

RECURSIVE VisitFrom(_, _, _, _)
VisitFrom(rule, i, last, st) ==
  IF i > last THEN st ELSE VisitFrom(rule, i + 1, last, Visit(rule, i, st))

Rewritten(g, st) ==
  [changed |-> st.changed,
   nodes |-> Explicit([i \in DOMAIN st.nodes |-> RewriteDeps(st.nodes[i], st.aliases)]),
   result |-> Resolve(g.result, st.aliases)]

RunPass(rule, g) ==
  LET done == VisitFrom(rule, 1, Len(g.nodes),
                        [nodes |-> g.nodes, aliases |-> [i \in DOMAIN g.nodes |-> i],
                         changed |-> FALSE])
  IN  Rewritten(g, done)

FoldConstants(g) == RunPass([pass |-> "fold"], g)
PeepholeGraph(g) == RunPass([pass |-> "peephole"], g)

\* remapNode, with the new number of every node that is kept.
Moved(n, rank) == [n EXCEPT !.deps = Explicit([k \in DOMAIN n.deps |-> rank[n.deps[k]]])]

\* compactReachable keeps the order of the nodes it keeps.
CompactTo(g, reachable) ==
  LET rank == [i \in reachable |-> Cardinality({j \in reachable : j <= i})]
      order == SelectSeq([i \in DOMAIN g.nodes |-> i], LAMBDA i : i \in reachable)
  IN  [nodes |-> Explicit([i \in DOMAIN order |-> Moved(g.nodes[order[i]], rank)]),
       result |-> rank[g.result]]
CompactReachable(g) == CompactTo(g, DependsOn(g, {1, g.result}))

\* optimizeGraphForMask: nothing else runs when no node was specialized.
IfChanged(done, g) ==
  IF done.changed THEN CompactReachable(PeepholeGraph(FoldConstants(done))) ELSE g
ForMask(g, mask) ==
  IfChanged(RunPass([pass |-> "mask", mask |-> mask], g), g)

\* A conjunction that iterates a value needs no test that it can be iterated.
DropGuards(n, nodes) ==
  LET iterates(test, on) ==
        \E i \in DOMAIN n.deps :
          LET other == nodes[n.deps[i]] IN
          /\ other.op \in IF test = "array" THEN {"ArrayEvery", "TupleItems"}
                          ELSE IF test = "object" THEN {"RecordEvery"} ELSE {}
          /\ other.deps[1] = on
      implied(id) == nodes[id].op = "Is" /\ iterates(nodes[id].arg, nodes[id].deps[1])
  IN  [n EXCEPT !.deps = SelectSeq(@, LAMBDA id : ~implied(id))]

RECURSIVE SpecializeDomains(_)
SpecializeNode(n, nodes) ==
  LET each(graphs) == Explicit([i \in DOMAIN graphs |-> SpecializeDomains(graphs[i])])
      within(items) ==
        Explicit([i \in DOMAIN items |-> [items[i] EXCEPT !.graph = SpecializeDomains(@)]]) IN
  CASE n.op = "And" -> DropGuards(n, nodes)
    [] n.op \in {"ArrayEvery", "RecordEvery"} ->
         [n EXCEPT !.arg.graph = SpecializeDomains(@)]
    [] n.op = "TupleItems" -> [n EXCEPT !.arg.graphs = each(@)]
    [] n.op = "DiscriminantDispatch" -> [n EXCEPT !.arg.branches = within(@)]
    [] n.op = "ObjectShape" ->
         [n EXCEPT !.arg.entries = within(@), !.arg.catchallGraph = each(@)]
    [] n.op \in Dispatch ->
         [n EXCEPT !.arg.branches =
            Explicit([i \in DOMAIN @ |->
               [@[i] EXCEPT !.graph = ForMask(SpecializeDomains(@), n.arg.branches[i].mask)]])]
    [] OTHER -> n

SpecializeDomains(g) ==
  [g EXCEPT !.nodes = Explicit([i \in DOMAIN @ |-> SpecializeNode(@[i], g.nodes)])]

OptimizeGraph(g) ==
  CompactReachable(SpecializeDomains(PeepholeGraph(FoldConstants(g))))
=============================================================================
