------------------------------ MODULE GraphIR ------------------------------
(***************************************************************************)
(* The graph a schema is lowered to (src/ir): a sequence of nodes that     *)
(* refer to each other by position, built with value numbering, and what   *)
(* an evaluation of it answers (src/plan/predicate.ts).                    *)
(*                                                                         *)
(* A node is [op, deps, arg]: deps the operands, arg what the operation    *)
(* carries besides them (a type, a bound, child graphs...).                *)
(***************************************************************************)
EXTENDS SchemaDenotation, SequencesExt

CONSTANTS
  True, False,   \* the JavaScript booleans
  NaN,
  Primitive,     \* [Value -> "string", "number", ...], of the atoms
  Measure,       \* [Value -> Int], the magnitude of a number, the length of a string
  Unbounded,     \* the infinite numbers
  Whole,         \* the integers
  Leaf           \* [Schema -> how a Scalar schema is built], see LeafAccepts

GraphIRAssumption ==
  /\ {True, False, NaN} \cup Unbounded \cup Whole \subseteq Value
  /\ Primitive[True] = "boolean" /\ Primitive[False] = "boolean"
  /\ \A v \in {NaN} \cup Unbounded \cup Whole : Primitive[v] = "number"

-----------------------------------------------------------------------------
(* Types and elementary tests                                              *)

Bool(b) == IF b THEN True ELSE False

TypeOf(h, v) ==
  CASE h[v].kind = "array" -> "array"
    [] h[v].kind \in {"record", "map", "set"} -> "object"
    [] h[v].kind = "function" -> "function"
    [] OTHER -> Primitive[v]

Primitives == {"string", "number", "boolean", "bigint", "symbol", "undefined", "null"}
AnyType == Primitives \cup {"array", "object", "function"}

\* The unary predicates: one of each type but "function", and "integer".
IsTest(h, test, v) ==
  CASE test = "number"  -> TypeOf(h, v) = "number" /\ v \notin {NaN} \cup Unbounded
    [] test = "integer" -> v \in Whole
    [] OTHER -> TypeOf(h, v) = test

Ordered(h, l, r) ==
  /\ TypeOf(h, l) = TypeOf(h, r) /\ TypeOf(h, l) \in {"number", "bigint"}
  /\ NaN \notin {l, r}

-----------------------------------------------------------------------------
(* How leaf schemas are built: [kind, value, checks], a check [op, arg].   *)

\* What the kernel accepts for a leaf, check by check.
LeafAccepts(h, leaf, v) ==
  LET holds(c) ==
        CASE c.op = "integer" -> v \in Whole
          [] c.op = "min" -> Measure[v] >= c.arg
          [] c.op = "max" -> Measure[v] <= c.arg
          [] c.op = "regex" -> v \in c.arg
          [] c.op = "gte" -> Measure[v] >= Measure[c.arg]
          [] c.op = "lte" -> Measure[v] <= Measure[c.arg]
          [] c.op = "gt"  -> Measure[v] > Measure[c.arg]
          [] c.op = "lt"  -> Measure[v] < Measure[c.arg]
          [] c.op = "multipleOf" -> v \in Leaf[c.arg].value
  IN  CASE leaf.kind = "unknown" -> TRUE
        [] leaf.kind = "never" -> FALSE
        [] leaf.kind = "literal" -> v = leaf.value
        [] leaf.kind \in {"instance", "multiple"} -> v \in leaf.value
        [] OTHER -> /\ IsTest(h, leaf.kind, v)
                    /\ \A i \in DOMAIN leaf.checks : holds(leaf.checks[i])

\* The sequence f, element by element: TLC otherwise keeps a function as its
\* expression and evaluates it again at every use.
Explicit(f) == SubSeq(f, 1, Len(f))

-----------------------------------------------------------------------------
(* Building a graph.  A schema is first written as a term; Build numbers   *)
(* its nodes in postorder, giving equal interned nodes one number.         *)

Term(op, args, arg) == [op |-> op, args |-> args, arg |-> arg]
Start == Term("Start", <<>>, <<>>)
Param == Term("Param", <<>>, <<>>)
Const(v) == Term("Const", <<>>, v)
Is(test) == Term("Is", <<Param>>, test)
NotTerm(t) == Term("Not", <<t>>, <<>>)
AndTerm(terms) ==
  CASE Len(terms) = 0 -> Const(True)
    [] Len(terms) = 1 -> terms[1]
    [] OTHER -> Term("And", terms, <<>>)
OrTerm(terms) ==
  CASE Len(terms) = 0 -> Const(False)
    [] Len(terms) = 1 -> terms[1]
    [] OTHER -> Term("Or", terms, <<>>)

\* Nodes that hold child graphs or schemas are pushed, never shared.
Pushed ==
  {"ArrayEvery", "TupleItems", "RecordEvery", "DiscriminantDispatch", "PresenceDispatch",
   "ObjectShape", "UnionDispatch", "PrimitiveUnion", "SchemaCheck", "Return"}

Same(n, m) == n.op = m.op /\ n = m

Place(n, nodes) ==
  LET twins == {i \in DOMAIN nodes : Same(nodes[i], n)} IN
  IF n.op \notin Pushed /\ twins # {}
    THEN [nodes |-> nodes, ids |-> <<CHOOSE i \in twins : TRUE>>]
    ELSE [nodes |-> Append(nodes, n), ids |-> <<Len(nodes) + 1>>]

RECURSIVE Build(_, _), BuildAll(_, _, _)
Build(nodes, t) ==
  LET built == BuildAll(nodes, t.args, <<>>) IN
  Place([op |-> t.op, deps |-> built.ids, arg |-> t.arg], built.nodes)
BuildAll(nodes, terms, ids) ==
  IF terms = <<>> THEN [nodes |-> nodes, ids |-> ids]
  ELSE LET first == Build(nodes, Head(terms)) IN
       BuildAll(first.nodes, Tail(terms), ids \o first.ids)

\* GraphBuilder: start, param, the predicate, return.
BuildGraph(t) ==
  LET built == BuildAll(<<>>, <<Start, Param, t>>, <<>>)
      done == Place([op |-> "Return", deps |-> <<built.ids[1], built.ids[3]>>,
                     arg |-> <<>>], built.nodes)
  IN  [nodes |-> done.nodes, result |-> done.ids[1]]

-----------------------------------------------------------------------------
(* isGraphValue: what every graph that enters the optimizer satisfies.     *)

Arity(op) ==
  CASE op \in {"Start", "Param", "Const"} -> 0
    [] op \in {"Equals", "Gte", "Lte", "Return"} -> 2
    [] OTHER -> 1

RECURSIVE DependsOn(_, _)
DependsOn(g, ids) ==
  LET more == ids \cup UNION {Range(g.nodes[i].deps) : i \in ids} IN
  IF more = ids THEN ids ELSE DependsOn(g, more)

Dispatch == {"DiscriminantDispatch", "PresenceDispatch", "UnionDispatch", "PrimitiveUnion"}
ChildGraphs(n) ==
  CASE n.op \in {"ArrayEvery", "RecordEvery"} -> {n.arg.graph}
    [] n.op = "TupleItems" -> Range(n.arg.graphs)
    [] n.op = "ObjectShape" -> {e.graph : e \in Range(n.arg.entries)} \cup Range(n.arg.catchallGraph)
    [] n.op \in Dispatch -> {b.graph : b \in Range(n.arg.branches)}
    [] OTHER -> {}

RECURSIVE ValidGraph(_)
ValidNode(n, g) ==
  /\ Range(n.deps) \subseteq DOMAIN g.nodes
  /\ n.op \in {"And", "Or"} \/ Len(n.deps) = Arity(n.op)
  /\ \A child \in ChildGraphs(n) : ValidGraph(child)
ValidGraph(g) ==
  /\ \A i \in DOMAIN g.nodes : ValidNode(g.nodes[i], g)
  /\ g.nodes[1].op = "Start"
  /\ g.result \in DOMAIN g.nodes /\ g.nodes[g.result].op = "Return"
  /\ \A i \in DOMAIN g.nodes : i \notin DependsOn(g, Range(g.nodes[i].deps))

\* readGraphResultBoolean: the answer of a graph that is a boolean constant.
ConstantResult(g) ==
  LET n == g.nodes[g.nodes[g.result].deps[2]] IN
  IF n.op = "Const" THEN {n.arg} \cap {True, False} ELSE {}

-----------------------------------------------------------------------------
(* Evaluation.  A frame holds the memo of one graph, the answer of the     *)
(* last node evaluated, and the schema checks made so far, in order.       *)

Answer(st, v) == [st EXCEPT !.value = v]

\* Object shape without its entries.
ShapeKeysHold(h, shape, v) ==
  LET keys == OwnKeys(h, v) IN
  shape.strict =>
    IF \A i \in DOMAIN shape.entries : shape.entries[i].presence = "required"
      THEN Len(keys) = Len(shape.entries)
      ELSE \A i \in DOMAIN keys : keys[i] \in {e.key : e \in Range(shape.entries)}

\* The (graph, value) pairs a composite node checks, all of which must pass;
\* a failed local check is the pair <<>>.
Children(h, n, v) ==
  LET data(g, slot) == IF IsData(slot) THEN <<g, slot>> ELSE <<>>
      item(g, slot) == IF slot = Accessor THEN <<>>
                       ELSE <<g, IF slot = Missing THEN Undefined ELSE slot>>
      slots == h[v].slots
      keys == EnumKeys(h, v)
      entry(e) == Slot(h, v, e.key)
      checked == SelectSeq(n.arg.entries, LAMBDA e : ~(entry(e) = Missing
                                                        /\ e.presence = "optional"))
  IN  CASE n.op = "ArrayEvery" ->
             IF TypeOf(h, v) # "array" \/ Len(slots) \notin n.arg.lens THEN <<<<>>>>
             ELSE LET read == IF CanAcceptUndefined[n.arg.item]
                                THEN SelectSeq(slots, LAMBDA s : s # Missing) ELSE slots
                  IN  Explicit([i \in DOMAIN read |-> item(n.arg.graph, read[i])])
        [] n.op = "TupleItems" ->
             IF TypeOf(h, v) # "array" \/ Len(slots) # Len(n.arg.graphs) THEN <<<<>>>>
             ELSE Explicit([i \in DOMAIN slots |-> item(n.arg.graphs[i], slots[i])])
        [] n.op = "RecordEvery" ->
             IF TypeOf(h, v) # "object" THEN <<<<>>>>
             ELSE Explicit([i \in DOMAIN keys |-> data(n.arg.graph, Slot(h, v, keys[i]))])
        [] n.op = "ObjectShape" ->
             IF TypeOf(h, v) # "object" THEN <<<<>>>>
             ELSE Explicit([i \in DOMAIN checked |-> data(checked[i].graph, entry(checked[i]))])
                  \o (IF ShapeKeysHold(h, n.arg, v) THEN <<>> ELSE <<<<>>>>)

\* The branches a dispatch node tries in turn, one of which must pass.
Branches(h, n, v) ==
  IF n.op = "DiscriminantDispatch"
    THEN LET slot == IF TypeOf(h, v) = "object" THEN Slot(h, v, n.arg.key) ELSE Missing
         IN  SelectSeq(n.arg.branches, LAMBDA b : b.literal = slot)
    ELSE SelectSeq(n.arg.branches, LAMBDA b : TypeOf(h, v) \in b.mask)

Composite == {"ArrayEvery", "TupleItems", "RecordEvery", "ObjectShape"}

\* The value of a node that needs only the values of its operands.
Applied(h, n, x) ==
  CASE n.op = "GetProp" ->
         LET slot == Slot(h, x[1], n.arg) IN IF IsData(slot) THEN slot ELSE Undefined
    [] n.op = "Is" -> Bool(IsTest(h, n.arg, x[1]))
    [] n.op = "Not" -> Bool(x[1] # True)
    [] n.op = "Equals" -> Bool(x[1] = x[2])
    [] n.op = "Gte" -> Bool(Ordered(h, x[1], x[2]) /\ Measure[x[1]] >= Measure[x[2]])
    [] n.op = "Lte" -> Bool(Ordered(h, x[1], x[2]) /\ Measure[x[1]] <= Measure[x[2]])
    [] n.op = "StringMin" -> Bool(TypeOf(h, x[1]) = "string" /\ Measure[x[1]] >= n.arg)
    [] n.op = "StringMax" -> Bool(TypeOf(h, x[1]) = "string" /\ Measure[x[1]] <= n.arg)
    [] n.op = "Regex" -> Bool(x[1] \in n.arg)
    [] n.op = "HasOwn" -> Bool(Slot(h, x[1], n.arg) # Missing)
    [] n.op = "HasOwnData" -> Bool(IsData(Slot(h, x[1], n.arg)))
    [] n.op = "StrictKeys" ->
         Bool(TypeOf(h, x[1]) = "object" /\ Range(OwnKeys(h, x[1])) \subseteq n.arg)
    [] n.op = "Return" -> x[2]

\* meaning decides the schema checks: the pairs isSchema accepts.
RECURSIVE EvalNode(_, _, _, _, _, _), EvalDeps(_, _, _, _, _, _, _),
          EvalFold(_, _, _, _, _, _, _), EvalEvery(_, _, _, _), EvalSome(_, _, _, _, _),
          EvalOp(_, _, _, _, _, _)

Frame(calls) == [memo |-> <<>>, value |-> Undefined, calls |-> calls]

EvalGraph(h, meaning, g, v, calls) ==
  EvalNode(h, meaning, g, v, g.result, Frame(calls))

EvalNode(h, meaning, g, v, id, st) ==
  IF id \in DOMAIN st.memo THEN Answer(st, st.memo[id])
  ELSE LET after == EvalOp(h, meaning, g, v, g.nodes[id], st) IN
       [after EXCEPT !.memo = (id :> after.value) @@ @]

EvalDeps(h, meaning, g, v, ids, values, st) ==
  IF ids = <<>> THEN [values |-> values, st |-> st]
  ELSE LET first == EvalNode(h, meaning, g, v, Head(ids), st) IN
       EvalDeps(h, meaning, g, v, Tail(ids), Append(values, first.value), first)

\* And stops at the first operand that is not true, Or at the first that is.
EvalFold(h, meaning, g, v, op, ids, st) ==
  IF ids = <<>> THEN Answer(st, Bool(op = "And"))
  ELSE LET first == EvalNode(h, meaning, g, v, Head(ids), st) IN
       IF (first.value = True) # (op = "And") THEN Answer(first, Bool(op = "Or"))
       ELSE EvalFold(h, meaning, g, v, op, Tail(ids), first)

EvalEvery(h, meaning, pairs, st) ==
  IF pairs = <<>> THEN Answer(st, True)
  ELSE IF Head(pairs) = <<>> THEN Answer(st, False)
  ELSE LET child == EvalGraph(h, meaning, Head(pairs)[1], Head(pairs)[2], st.calls)
           after == [st EXCEPT !.calls = child.calls]
       IN  IF child.value # True THEN Answer(after, False)
           ELSE EvalEvery(h, meaning, Tail(pairs), after)

EvalSome(h, meaning, branches, v, st) ==
  IF branches = <<>> THEN Answer(st, False)
  ELSE LET child == EvalGraph(h, meaning, Head(branches).graph, v, st.calls)
           after == [st EXCEPT !.calls = child.calls]
       IN  IF child.value = True THEN Answer(after, True)
           ELSE EvalSome(h, meaning, Tail(branches), v, after)

EvalOp(h, meaning, g, v, n, st) ==
  CASE n.op = "Start" -> Answer(st, True)
    [] n.op = "Param" -> Answer(st, v)
    [] n.op = "Const" -> Answer(st, n.arg)
    [] n.op \in {"And", "Or"} -> EvalFold(h, meaning, g, v, n.op, n.deps, st)
    [] OTHER ->
         LET read == EvalDeps(h, meaning, g, v, n.deps, <<>>, st)
             x == read.values IN
         CASE n.op = "SchemaCheck" ->
                [read.st EXCEPT !.value = Bool(<<n.arg, x[1]>> \in meaning),
                                !.calls = Append(@, <<n.arg, x[1]>>)]
           [] n.op \in Composite ->
                EvalEvery(h, meaning, Children(h, n, x[1]), read.st)
           [] n.op \in Dispatch ->
                EvalSome(h, meaning, Branches(h, n, x[1]), x[1], read.st)
           [] OTHER -> Answer(read.st, Applied(h, n, x))

Evaluate(h, meaning, g, v) == EvalGraph(h, meaning, g, v, <<>>)
Accepts(h, meaning, g, v) == Evaluate(h, meaning, g, v).value = True
=============================================================================
