--------------------------- MODULE CompiledGuard ---------------------------
(***************************************************************************)
(* The predicate compile() generates from an optimized graph               *)
(* (src/compile/graph-predicate.ts): a program of statements, written while *)
(* the emitter keeps what the statements so far have established, and what *)
(* running it answers.  In the modes "unsafe" and "unchecked" properties    *)
(* are read as they are: no descriptor is looked at, and the value of an   *)
(* accessor, which the code would run, is taken for undefined.             *)
(*                                                                         *)
(* Variables are numbers, 1 the value checked; a variable holds a value or *)
(* a property descriptor (a slot), and is in scope in the block that       *)
(* declares it.  An outcome is a tuple.                                    *)
(***************************************************************************)
EXTENDS Lowering

Go == <<"next">>
Accept == <<"true">>
Reject == <<"false">>
Throw == <<"throw">>      \* a ReferenceError or a TypeError
Stray == <<"stray">>      \* a bound compared with a value of another type
Break(label) == <<"break", label>>

Answered(b) == IF b THEN Accept ELSE Reject

-----------------------------------------------------------------------------
(* schemaMustRejectUndefined                                               *)

RECURSIVE MustReject(_)
NodeMustReject(n, leaf) ==
  CASE n.tag = "Scalar" -> /\ leaf.kind # "unknown"
                           /\ leaf.kind = "literal" => leaf.value # Undefined
    [] n.tag \in {"Optional", "Lazy"} -> FALSE
    [] n.tag = "Union" -> \A i \in DOMAIN n.options : MustReject(n.options[i])
    [] n.tag = "Xor" ->
         Cardinality({i \in DOMAIN n.options : CanAcceptUndefined[n.options[i]]}) # 1
    [] n.tag = "Intersection" -> MustReject(n.left) \/ MustReject(n.right)
    [] n.tag \in {"Nullable", "Wrap", "Refine"} -> MustReject(n.inner)
    [] OTHER -> TRUE
MustReject(s) == NodeMustReject(Node[s], Leaf[s])

\* branchKeyMustRejectUndefined, for the key a presence branch is selected by.
KeyMustReject(s, key) ==
  LET hits == SelectSeq(Node[s].entries,
                        LAMBDA e : e.key = key /\ e.presence = "required")
  IN  hits # <<>> /\ MustReject(hits[1].schema)

-----------------------------------------------------------------------------
(* The order of an object's checks (src/compile/object-order.ts)           *)

\* A catchall is not looked into.
EntryGraphs(n) ==
  IF n.op = "ObjectShape" THEN {e.graph : e \in Range(n.arg.entries)} ELSE ChildGraphs(n)

RECURSIVE ContainsCheck(_)
ContainsCheck(g) ==
  \E i \in DOMAIN g.nodes :
    \/ g.nodes[i].op = "SchemaCheck"
    \/ \E child \in EntryGraphs(g.nodes[i]) : ContainsCheck(child)

Cost(op) ==
  CASE op \in {"Start", "Param", "Const", "Return"} -> 0
    [] op \in {"Is", "StringMin", "StringMax", "Gte", "Lte", "Equals"} -> 1
    [] op = "Regex" -> 8
    [] op \in Dispatch \cup {"ObjectShape", "TupleItems"} -> 16
    [] op \in {"ArrayEvery", "RecordEvery"} -> 64
    [] op = "SchemaCheck" -> 128
    [] OTHER -> 2

GraphCost(g) == MapThenSumSet(LAMBDA i : Cost(g.nodes[i].op), DOMAIN g.nodes)

\* scheduleObjectShapeEntries: required before optional, cheap before costly,
\* but never across an entry with a schema check.
Scheduled(entries) ==
  LET fixed == {i \in DOMAIN entries : ContainsCheck(entries[i].graph)}
      rank(i) == <<2 * Cardinality({j \in fixed : j < i}) + (IF i \in fixed THEN 1 ELSE 0),
                   IF entries[i].presence = "optional" THEN 1 ELSE 0,
                   GraphCost(entries[i].graph), i>>
      before(i, j) == LET p == rank(i) q == rank(j) IN
                      \E k \in 1..4 : p[k] < q[k] /\ \A l \in 1..(k - 1) : p[l] = q[l]
      order == SortSeq([i \in DOMAIN entries |-> i], before)
  IN  [i \in DOMAIN order |-> entries[order[i]]]

-----------------------------------------------------------------------------
(* The emitter's state: the statements of the block being written, the one *)
(* around it (outer); slots, the descriptor and value variables of the     *)
(* properties read; guards, the properties shown to be data; literals,     *)
(* their known values; known, the tests shown to hold; temp, the next      *)
(* variable; fail, where a failed check goes; todo, what is left to emit.  *)

Blank(mode) ==
  [mode |-> mode, code |-> <<>>, outer |-> <<>>, slots |-> <<>>, guards |-> {},
   literals |-> {}, known |-> {}, temp |-> 2, fail |-> Reject, todo |-> <<>>]

Unsafe(st) == st.mode # "safe"

Put(st, statement) == [st EXCEPT !.code = Append(@, statement)]
Bind(st, statement) == [Put(st, statement) EXCEPT !.temp = @ + 1]
Learn(st, test, v) == [st EXCEPT !.known = @ \cup {<<test, v>>}]
Require(st, g, id, v) ==
  Put(st, [op |-> "require", on |-> v, graph |-> g, id |-> id, fail |-> st.fail])

\* A block; it ends with the statement that holds it.  What is recorded in it
\* stays recorded after it, unless it is a branch (makeBranchEmitState).
OpenBlock(st) == [st EXCEPT !.code = <<>>, !.outer = <<st>>]

\* Mutant: what a branch establishes is recorded after it.
CloseShared(st, statement, branch) ==
  LET outer == st.outer[1] IN
  [st EXCEPT !.code = Append(outer.code, [statement EXCEPT !.body = st.code]),
             !.outer = outer.outer, !.fail = outer.fail]

CloseBlock(st, statement, branch) ==
  LET outer == st.outer[1]
      code == Append(outer.code, [statement EXCEPT !.body = st.code])
  IN  IF branch THEN [outer EXCEPT !.code = code, !.temp = st.temp, !.todo = st.todo]
      ELSE [st EXCEPT !.code = code, !.outer = outer.outer]

\* emitDataSlotForExpression, emitDataSlotValue.
WithSlot(st, at) ==
  IF at \in DOMAIN st.slots THEN st
  ELSE [Bind(st, [op |-> "describe", to |-> st.temp, on |-> at[2], key |-> at[1]])
          EXCEPT !.slots = (at :> [desc |-> st.temp, value |-> 0]) @@ @]

WithValue(st, at) ==
  IF st.slots[at].value # 0 THEN st
  ELSE [Bind(st, [op |-> "read", to |-> st.temp, on |-> st.slots[at].desc,
                  absent |-> at \notin st.guards])
          EXCEPT !.slots[at].value = st.temp]

\* descriptorNeedsValueProof.
NeedsProof(s) == ~MustReject(s)

\* A descriptor must be there, unless absent, and, if proof, hold a value.
Need(st, desc, absent, proof) ==
  Put(st, [op |-> "need", on |-> desc, absent |-> absent, proof |-> proof,
           fail |-> st.fail])

\* isKnownPredicate, isKnownTypeof, isKnownObject.
Proved(st, test, v) == <<test, v>> \in st.known

\* emitNumberGuard, emitPredicateGuard.
Guard(st, test, v) ==
  IF Proved(st, test, v) THEN st
  ELSE Learn(Put(st, [op |-> "guard", on |-> v, test |-> test, fail |-> st.fail]), test, v)

\* emitArrayGuard, emitObjectGuard.
GuardArray(st, v) == Guard(st, "array", v)
GuardObject(st, v) == Guard(st, "object", v)

Length(st, v, lens) ==
  Put(st, [op |-> "length", on |-> v, lens |-> lens, fail |-> st.fail])

\* The tests of one type, fused into one statement: the type comes first.
FusedPlan(g, ids) ==
  LET op(i) == g.nodes[ids[i]].op
      test(i) == IF op(i) = "Is" THEN g.nodes[ids[i]].arg ELSE ""
      bound(i) == g.nodes[g.nodes[ids[i]].deps[2]]
      finite(i) == bound(i).op = "Const" /\ IsTest(LiteralHeap, "number", bound(i).arg)
      strings == {i \in DOMAIN ids : op(i) \in {"StringMin", "StringMax", "Regex"}
                                     \/ test(i) = "string"}
      numbers == {i \in DOMAIN ids : \/ test(i) \in {"number", "integer"}
                                     \/ op(i) \in {"Gte", "Lte"} /\ finite(i)}
  IN  DOMAIN ids \in {strings, numbers} /\ \E i \in DOMAIN ids : op(i) = "Is"

-----------------------------------------------------------------------------
(* The tasks; one is done by changing the state, other tasks in its place. *)

Doing(st, tasks) == [st EXCEPT !.todo = tasks \o @]

CheckTask(g, id, v) == [do |-> "check", graph |-> g, id |-> id, on |-> v]
GraphTask(g, v) == CheckTask(g, g.result, v)
CheckTasks(g, ids, v) == Explicit([i \in DOMAIN ids |-> CheckTask(g, ids[i], v)])
StopTask(outcome) == [do |-> "stop", outcome |-> outcome]
CloseTask(statement, branch) == [do |-> "close", statement |-> statement, branch |-> branch]
ShapeTask(n, v) == [do |-> "shape", node |-> n, on |-> v]
TailTask(n, v, success) ==
  [do |-> "branch", node |-> n, index |-> 0, on |-> v, success |-> success]

Loop(over, v, desc, except) ==
  CloseTask([op |-> "each", over |-> over, on |-> v, to |-> desc, except |-> except,
             body |-> <<>>], FALSE)
RegionOf(v, mask, label) ==
  [op |-> "region", on |-> v, mask |-> mask, label |-> label, body |-> <<>>]

\* emitStringAndCheck, emitNumberAndCheck, or the operands one by one.
DoAnd(g, ids, v, st) ==
  LET tests == SelectSeq(ids, LAMBDA id : g.nodes[id].op = "Is")
      bounds == SelectSeq(ids, LAMBDA id : g.nodes[id].op # "Is")
      integer == \E i \in DOMAIN tests : g.nodes[tests[i]].arg = "integer" IN
  IF FusedPlan(g, ids)
    THEN Doing(IF integer THEN Learn(st, "number", v) ELSE st,
               CheckTasks(g, tests \o bounds, v))
    ELSE Doing(st, CheckTasks(g, ids, v))

\* What descriptor desc holds is read and checked by graph g.
DoRead(g, desc, absent, st) ==
  IF ConstantResult(g) = {True} THEN st
  ELSE Doing(Bind(st, [op |-> "read", to |-> st.temp, on |-> desc, absent |-> absent]),
             <<GraphTask(g, st.temp)>>)
DoItem(g, desc, absent, proof, st) == DoRead(g, desc, absent, Need(st, desc, absent, proof))

DoLoop(over, v, except, g, proof, st) ==
  DoItem(g, st.temp, FALSE, proof,
         Doing(OpenBlock([st EXCEPT !.temp = @ + 1]), <<Loop(over, v, st.temp, except)>>))

\* The same without a look at the descriptor; nothing to check, no loop.
DoPlainLoop(over, v, except, g, st) ==
  IF ConstantResult(g) = {True} THEN st
  ELSE DoRead(g, st.temp, TRUE,
              Doing(OpenBlock([st EXCEPT !.temp = @ + 1]), <<Loop(over, v, st.temp, except)>>))

\* emitUnsafeArrayEveryCheck: a hole reads as undefined.
DoPlainArray(n, v, st) ==
  LET sized == Length(GuardArray(st, v), v, n.arg.lens) IN
  IF ConstantResult(n.arg.graph) = {False} THEN Length(sized, v, {0})
  ELSE DoPlainLoop("items", v, {}, n.arg.graph, sized)

\* emitArrayEveryCheck.
DoArray(n, v, st) ==
  LET sized == Length(GuardArray(st, v), v, n.arg.lens) IN
  CASE ConstantResult(n.arg.graph) = {False} -> Length(sized, v, {0})
    [] CanAcceptUndefined[n.arg.item] -> DoLoop("present", v, {}, n.arg.graph, TRUE, sized)
    [] OTHER -> DoLoop("items", v, {}, n.arg.graph, NeedsProof(n.arg.item), sized)

\* emitUnsafeTupleItemsCheck, from item i.
DoPlainElement(n, i, v, st) ==
  LET item == Bind(st, [op |-> "item", to |-> st.temp, on |-> v, index |-> i])
      later == [do |-> "element", node |-> n, index |-> i + 1, on |-> v] IN
  CASE i > Len(n.arg.items) -> st
    [] i <= Len(n.arg.items) /\ ConstantResult(n.arg.graphs[i]) = {False} ->
         Doing(st, <<StopTask(st.fail)>>)
    [] OTHER -> DoRead(n.arg.graphs[i], st.temp, TRUE, Doing(item, <<later>>))

\* emitTupleItemsCheck, from item i.
DoElement(n, i, v, st) ==
  LET g == n.arg.graphs[i]
      absent == CanAcceptUndefined[n.arg.items[i]]
      item == Bind(st, [op |-> "item", to |-> st.temp, on |-> v, index |-> i])
      later == [do |-> "element", node |-> n, index |-> i + 1, on |-> v]
  IN  CASE i > Len(n.arg.items) -> st
        [] i <= Len(n.arg.items) /\ ConstantResult(g) = {False} ->
             Doing(st, <<StopTask(st.fail)>>)
        [] OTHER -> DoItem(g, st.temp, absent, absent \/ NeedsProof(n.arg.items[i]),
                           Doing(item, <<later>>))

\* The value at a property, read if it was not, is checked by graph g.
CheckAt(g, at, after, st) == Doing(st, <<GraphTask(g, st.slots[at].value)>> \o after)
DoValue(g, at, after, st) == CheckAt(g, at, after, WithValue([st EXCEPT !.guards = @ \cup {at}], at))

\* An optional entry: the tests are in a block of their own, but what they
\* establish, and the variable of the value, are recorded for the rest.
DoOptional(e, at, st) ==
  LET desc == st.slots[at].desc IN
  DoValue(e.graph, at,
          <<CloseTask([op |-> "present", on |-> desc, body |-> <<>>], FALSE)>>,
          IF NeedsProof(e.schema) THEN Need(OpenBlock(st), desc, TRUE, TRUE)
          ELSE OpenBlock(st))

DoRequired(e, at, st) ==
  CASE at \notin st.guards ->
         DoValue(e.graph, at, <<>>,
                 Need(st, st.slots[at].desc, FALSE, NeedsProof(e.schema)))
    [] at \in st.guards /\ \E l \in LiteralOf(e.schema) : <<at, l>> \in st.literals -> st
    [] OTHER -> DoValue(e.graph, at, <<>>, st)

DoEntry(e, at, st) ==
  IF e.presence = "optional" THEN DoOptional(e, at, WithSlot(st, at))
  ELSE DoRequired(e, at, WithSlot(st, at))

DoShape(n, v, st) ==
  LET shape == n.arg
      allRequired == \A i \in DOMAIN shape.entries : shape.entries[i].presence = "required"
      counts == shape.strict /\ shape.catchall = NoSchema
      keys(when) == IF when THEN <<[do |-> "keys", shape |-> shape, on |-> v]>> ELSE <<>>
      entries == Scheduled(shape.entries)
      rest == IF shape.catchall = NoSchema THEN <<>>
              ELSE <<[do |-> "rest", shape |-> shape, on |-> v]>>
  IN  Doing(GuardObject(st, v),
            keys(counts /\ allRequired)
            \o Explicit([i \in DOMAIN entries |->
                           [do |-> "entry", entry |-> entries[i], on |-> v]])
            \o rest \o keys(counts /\ ~allRequired))

\* emitUnsafeRecordEveryCheck: the enumerable keys, which are the own ones.
DoPlainRecord(n, v, st) ==
  DoPlainLoop("keys", v, {}, n.arg.graph, GuardObject(st, v))

\* emitUnsafeObjectShapeEntries: as written, each value read before it is known
\* to be there, and nothing recorded for the rest.
DoPlainEntry(e, at, st) ==
  LET described == Bind(st, [op |-> "describe", to |-> st.temp, on |-> at[2], key |-> at[1]])
      read == Bind(described, [op |-> "read", to |-> st.temp + 1, on |-> st.temp,
                               absent |-> TRUE])
      test == <<GraphTask(e.graph, st.temp + 1)>> IN
  CASE e.presence = "optional" ->
         Doing(OpenBlock(read),
               Append(test, CloseTask([op |-> "present", on |-> st.temp, body |-> <<>>], TRUE)))
    [] e.presence # "optional" /\ CanAcceptUndefined[e.schema] ->
         Doing(Need(read, st.temp, FALSE, FALSE), test)
    [] OTHER -> Doing(read, test)

\* emitUnsafeObjectShapeCatchall: symbols and non-enumerable keys too.
DoPlainRest(shape, v, st) ==
  DoPlainLoop("others", v, {e.key : e \in Range(shape.entries)}, shape.catchallGraph[1], st)

\* emitObjectShapeStrictKeys: unchecked, undeclared keys are allowed; unsafe,
\* those that are not enumerable.
DoPlainKeys(shape, v, st) ==
  IF st.mode = "unchecked" THEN st
  ELSE Put(st, [op |-> "enumerable", on |-> v, fail |-> st.fail,
                keys |-> {e.key : e \in Range(shape.entries)}])

DoPlainShape(n, v, st) ==
  LET entries == n.arg.entries
      others == [shape |-> n.arg, on |-> v] IN
  Doing(GuardObject(st, v),
        Explicit([i \in DOMAIN entries |-> [do |-> "plain entry", entry |-> entries[i], on |-> v]])
        \o (IF n.arg.catchall = NoSchema THEN <<>> ELSE <<[do |-> "plain rest"] @@ others>>)
        \o (IF n.arg.strict /\ n.arg.catchall = NoSchema
              THEN <<[do |-> "plain keys"] @@ others>> ELSE <<>>))

-----------------------------------------------------------------------------
(* Dispatches                                                              *)

\* markUnionMaskRefinement: a guard on one type establishes it.
Refined(st, mask, v) ==
  LET exact == {t \in Primitives \cup {"array", "object"} : mask = {t}} \ {"number"} IN
  [st EXCEPT !.known = @ \cup {<<t, v>> : t \in exact}]

\* A run of primitive options with one mask.  The failure of an option that is
\* alone in its run is the failure of the union, whatever options follow.
Alone(n, i) ==
  /\ n.op = "PrimitiveUnion"
  /\ \A j \in {i - 1, i + 1} \cap DOMAIN n.arg.branches :
       n.arg.branches[j].mask # n.arg.branches[i].mask

\* A property is described, must be there, and is read.
WithProperty(st, at, proof) ==
  [Bind(Need(Bind(st, [op |-> "describe", to |-> st.temp, on |-> at[2], key |-> at[1]]),
             st.temp, FALSE, proof),
        [op |-> "read", to |-> st.temp + 1, on |-> st.temp, absent |-> FALSE])
     EXCEPT !.slots = (at :> [desc |-> st.temp, value |-> st.temp + 1]) @@ @,
            !.guards = @ \cup {at}]

\* A presence branch with a required key reads it first.
WithKey(b, v, st) ==
  IF b.key = <<>> THEN st
  ELSE WithProperty(st, <<b.key[1], v>>, ~KeyMustReject(b.schema, b.key[1]))

\* Unsafe, the branch is only tried when the key is there.
WithPlainKey(b, v, st) ==
  IF b.key = <<>> THEN st
  ELSE Need(Bind(st, [op |-> "describe", to |-> st.temp, on |-> v, key |-> b.key[1]]),
            st.temp, FALSE, FALSE)

\* A branch of a dispatch: its tests in a block that a failure leaves, then
\* success.
Attempt(n, i, v, success, mask, label, inside) ==
  Doing(inside,
        <<GraphTask(n.arg.branches[i].graph, v), StopTask(success),
          CloseTask(RegionOf(v, mask, label), TRUE),
          [TailTask(n, v, success) EXCEPT !.index = i + 1]>>)

Inside(st, fail) == [OpenBlock([st EXCEPT !.temp = @ + 1]) EXCEPT !.fail = fail]

\* emitPresenceDispatchTail, from branch i on.
DoPresence(n, i, v, success, st) ==
  LET b == n.arg.branches[i]
      inside == Inside(st, Break(st.temp)) IN
  Attempt(n, i, v, success, AnyType, st.temp,
          IF Unsafe(st) THEN WithPlainKey(b, v, inside) ELSE WithKey(b, v, inside))

\* emitPrimitiveUnionTail, emitUnionDispatchTail, from branch i on.
DoOption(n, i, v, success, st) ==
  LET mask == n.arg.branches[i].mask
      fail == IF Alone(n, i) THEN st.fail ELSE Break(st.temp) IN
  Attempt(n, i, v, success, mask, st.temp, Refined(Inside(st, fail), mask, v))

\* The tail of a dispatch: a guard, for the last (branch 0), then the branches
\* that may accept.
DoBranch(n, i, v, success, st) ==
  LET b == n.arg.branches[i]
      presence == n.op = "PresenceDispatch"
      dead == (b.mask = {} /\ ~presence) \/ ConstantResult(b.graph) = {False}
      later == [TailTask(n, v, success) EXCEPT !.index = i + 1]
  IN  CASE i = 0 -> Doing(IF presence THEN GuardObject(st, v) ELSE st, <<later>>)
        [] i > Len(n.arg.branches) -> Doing(st, <<StopTask(st.fail)>>)
        [] i \in DOMAIN n.arg.branches /\ dead -> Doing(st, <<later>>)
        [] OTHER -> IF presence THEN DoPresence(n, i, v, success, st)
                    ELSE DoOption(n, i, v, success, st)

\* A dispatch in the middle of a function: success leaves its block.
DoBlock(n, v, st) ==
  Doing(OpenBlock([st EXCEPT !.temp = @ + 1]),
        <<TailTask(n, v, Break(st.temp)),
          CloseTask(RegionOf(v, AnyType, st.temp), FALSE)>>)

\* emitDiscriminantDispatchReturn: the property is described and read, then
\* each literal has a case.
DoSwitch(n, st) ==
  LET at == <<n.arg.key, 1>>
      live == SelectSeq(n.arg.branches, LAMBDA b : ConstantResult(b.graph) # {False})
      cases == Explicit([i \in DOMAIN live |-> [do |-> "case", at |-> at, branch |-> live[i]]])
  IN  Doing(WithProperty(GuardObject(st, 1), at, FALSE), Append(cases, StopTask(Reject)))

DoCase(at, b, st) ==
  Doing([OpenBlock(st) EXCEPT !.literals = @ \cup {<<at, b.literal>>}],
        <<GraphTask(b.graph, 1), StopTask(Accept),
          CloseTask([op |-> "case", on |-> st.slots[at].value, literal |-> b.literal,
                     body |-> <<>>], TRUE)>>)

\* emitUnsafeDiscriminantDispatchReturn: the cases know nothing of the property.
DoPlainSwitch(n, st) ==
  LET read == Bind(Bind(GuardObject(st, 1),
                        [op |-> "describe", to |-> st.temp, on |-> 1, key |-> n.arg.key]),
                   [op |-> "read", to |-> st.temp + 1, on |-> st.temp, absent |-> TRUE])
      live == SelectSeq(n.arg.branches, LAMBDA b : ConstantResult(b.graph) # {False})
      cases == Explicit([i \in DOMAIN live |->
                           [do |-> "plain case", on |-> st.temp + 1, branch |-> live[i]]])
  IN  Doing(read, Append(cases, StopTask(Reject)))

DoPlainCase(on, b, st) ==
  Doing(OpenBlock(st),
        <<GraphTask(b.graph, 1), StopTask(Accept),
          CloseTask([op |-> "case", on |-> on, literal |-> b.literal, body |-> <<>>], TRUE)>>)

-----------------------------------------------------------------------------

\* emitHasDataCheck.
WithData(st, at) ==
  [Need(st, st.slots[at].desc, FALSE, TRUE) EXCEPT !.guards = @ \cup {at}]

\* emitFalseCheck.
DoCheck(g, id, v, st) ==
  LET n == g.nodes[id] IN
  CASE n.op = "Const" -> IF n.arg = True THEN st ELSE Doing(st, <<StopTask(st.fail)>>)
    [] n.op = "Return" -> Doing(st, <<CheckTask(g, n.deps[2], v)>>)
    [] n.op = "And" -> DoAnd(g, n.deps, v, st)
    [] n.op = "ArrayEvery" -> IF Unsafe(st) THEN DoPlainArray(n, v, st) ELSE DoArray(n, v, st)
    [] n.op = "TupleItems" ->
         Doing(Length(GuardArray(st, v), v, {Len(n.arg.items)}),
               <<[do |-> "element", node |-> n, index |-> 1, on |-> v]>>)
    [] n.op = "RecordEvery" ->
         IF Unsafe(st) THEN DoPlainRecord(n, v, st)
         ELSE DoLoop("keys", v, {}, n.arg.graph, NeedsProof(n.arg.item), GuardObject(st, v))
    [] n.op \in {"PrimitiveUnion", "PresenceDispatch"} -> DoBlock(n, v, st)
    [] n.op = "HasOwnData" -> WithData(WithSlot(st, <<n.arg, v>>), <<n.arg, v>>)
    [] n.op = "Is" /\ n.arg # "integer" -> Guard(st, n.arg, v)
    [] n.op = "ObjectShape" -> Doing(st, <<ShapeTask(n, v)>>)
    [] OTHER -> Require(st, g, id, v)

Do(task, st) ==
  CASE task.do = "check" -> DoCheck(task.graph, task.id, task.on, st)
    [] task.do = "stop" -> Put(st, [op |-> "stop", on |-> 1, outcome |-> task.outcome])
    [] task.do = "try" ->
         Put(st, [op |-> "try", on |-> 1, graph |-> task.graph, id |-> task.id])
    [] task.do = "close" -> CloseBlock(st, task.statement, task.branch)
    [] task.do = "element" ->
         IF Unsafe(st) THEN DoPlainElement(task.node, task.index, task.on, st)
         ELSE DoElement(task.node, task.index, task.on, st)
    [] task.do = "shape" ->
         IF Unsafe(st) THEN DoPlainShape(task.node, task.on, st)
         ELSE DoShape(task.node, task.on, st)
    [] task.do = "plain entry" -> DoPlainEntry(task.entry, <<task.entry.key, task.on>>, st)
    [] task.do = "plain rest" -> DoPlainRest(task.shape, task.on, st)
    [] task.do = "plain keys" -> DoPlainKeys(task.shape, task.on, st)
    [] task.do = "plain case" -> DoPlainCase(task.on, task.branch, st)
    [] task.do = "entry" -> DoEntry(task.entry, <<task.entry.key, task.on>>, st)
    [] task.do = "keys" ->
         Put(st, [op |-> "keys", on |-> task.on, shape |-> task.shape, fail |-> st.fail])
    [] task.do = "rest" ->
         DoLoop("others", task.on, {e.key : e \in Range(task.shape.entries)},
                task.shape.catchallGraph[1], NeedsProof(task.shape.catchall), st)
    [] task.do = "branch" -> DoBranch(task.node, task.index, task.on, task.success, st)
    [] task.do = "switch" ->
         IF Unsafe(st) THEN DoPlainSwitch(task.node, st) ELSE DoSwitch(task.node, st)
    [] task.do = "case" -> DoCase(task.at, task.branch, st)

RECURSIVE Emit(_)
Emit(st) ==
  IF st.todo = <<>> THEN st.code
  ELSE Emit(Do(Head(st.todo), [st EXCEPT !.todo = Tail(@)]))

\* The function of a node that is one: emitObjectShapeBody, emitUnionDispatchBody...
NodeTasks(n) ==
  IF n.op = "ObjectShape" THEN <<ShapeTask(n, 1), StopTask(Accept)>>
  ELSE <<TailTask(n, 1, Accept)>>

\* emitGraphReturn.
ReturnTasks(g) ==
  LET id == g.nodes[g.result].deps[2]
      n == g.nodes[id]
      try(i) == [do |-> "try", graph |-> g, id |-> i]
  IN  CASE n.op = "Const" -> <<StopTask(Answered(n.arg = True))>>
        [] n.op = "And" -> Append(CheckTasks(g, n.deps, 1), StopTask(Accept))
        [] n.op = "Or" -> Append(Explicit([i \in DOMAIN n.deps |-> try(n.deps[i])]),
                                 StopTask(Reject))
        [] n.op = "DiscriminantDispatch" -> <<[do |-> "switch", node |-> n]>>
        [] n.op = "ObjectShape" \/ n.op \in Dispatch \ {"DiscriminantDispatch"} -> NodeTasks(n)
        [] OTHER -> <<try(id), StopTask(Reject)>>

Function(g, mode) == Emit(Doing(Blank(mode), ReturnTasks(g)))

-----------------------------------------------------------------------------
(* Execution.  A program, the variables in scope, and the runtime: what    *)
(* the schema checks answer (rt.accepted) and the mode of compilation.  The *)
(* functions of child graphs are emitted as they are called: they depend   *)
(* on nothing else.                                                        *)

\* A bound or a pattern is meant for the type tested before it.
Vouched(h, g, n, x) ==
  CASE n.op \in {"StringMin", "StringMax", "Regex"} -> TypeOf(h, x) = "string"
    [] n.op \in {"Gte", "Lte"} -> TypeOf(h, x) = TypeOf(h, g.nodes[n.deps[2]].arg)
    [] OTHER -> TRUE

\* The calls an expression makes, <<what the function does, argument>>, a failure
\* <<>>: ea and er want data, eu skips the holes, ev takes them for undefined;
\* the other nodes have a function of their own.
CallOn(g, slot) == IF IsData(slot) THEN <<ReturnTasks(g), slot>> ELSE <<>>
CallsOn(g, slots) == [i \in DOMAIN slots |-> CallOn(g, slots[i])]

ArrayCalls(h, n, x) ==
  LET slots == h[x].slots IN
  IF TypeOf(h, x) # "array" \/ Len(slots) \notin n.arg.lens THEN <<<<>>>>
  ELSE CallsOn(n.arg.graph,
               IF CanAcceptUndefined[n.arg.item] THEN SelectSeq(slots, LAMBDA s : s # Missing)
               ELSE slots)

TupleCalls(h, n, x) ==
  LET slots == h[x].slots
      filled(s) == IF s = Missing THEN Undefined ELSE s IN
  IF TypeOf(h, x) # "array" \/ Len(slots) # Len(n.arg.items) THEN <<<<>>>>
  ELSE [i \in DOMAIN slots |-> CallOn(n.arg.graphs[i], filled(slots[i]))]

\* dj: the case of the literal the property holds.
CaseCalls(h, n, x) ==
  LET hits == SelectSeq(n.arg.branches, LAMBDA b : /\ TypeOf(h, x) = "object"
                                                   /\ b.literal = Slot(h, x, n.arg.key)) IN
  IF hits = <<>> THEN <<<<>>>> ELSE <<CallOn(hits[1].graph, x)>>

Calls(h, n, x) ==
  LET keys == EnumKeys(h, x) IN
  CASE n.op = "ArrayEvery" -> ArrayCalls(h, n, x)
    [] n.op = "TupleItems" -> TupleCalls(h, n, x)
    [] n.op = "RecordEvery" ->
         IF TypeOf(h, x) # "object" THEN <<<<>>>>
         ELSE CallsOn(n.arg.graph, [i \in DOMAIN keys |-> Slot(h, x, keys[i])])
    [] n.op = "DiscriminantDispatch" -> CaseCalls(h, n, x)
    [] OTHER -> <<<<NodeTasks(n), x>>>>

\* The first outcome that does not go on.
FirstStop(outs, goes) ==
  LET stops == {i \in DOMAIN outs : outs[i] # goes} IN
  IF stops = {} THEN goes ELSE outs[CHOOSE i \in stops : \A j \in stops : i <= j]

\* The rest of a program runs if the statement before it goes on.
Following(out, rest) == IF out = Go THEN rest ELSE out

RECURSIVE Exec(_, _, _, _), Test(_, _, _, _, _), Outcome(_, _, _, _, _)

\* emitGraphExpression: what the expression of node id answers.
Test(h, rt, g, id, x) ==
  LET n == g.nodes[id]
      outs(ids) == [i \in DOMAIN ids |-> Test(h, rt, g, ids[i], x)]
      negated(out) == CASE out = Accept -> Reject [] out = Reject -> Accept [] OTHER -> out
      ran(calls) == [i \in DOMAIN calls |->
                       IF calls[i] = <<>> THEN Reject
                       ELSE Exec(h, rt, Emit(Doing(Blank(rt.mode), calls[i][1])),
                                 1 :> calls[i][2])]
      operands == IF n.op \in {"Equals", "Gte", "Lte"}
                    THEN <<x, g.nodes[n.deps[2]].arg>> ELSE <<x>>
  IN  CASE n.op = "Const" -> Answered(n.arg = True)
        [] n.op = "And" -> FirstStop(outs(n.deps), Accept)
        [] n.op = "Or" -> FirstStop(outs(n.deps), Reject)
        [] n.op = "Not" -> negated(outs(n.deps)[1])
        [] n.op = "SchemaCheck" -> Answered(<<n.arg, x>> \in rt.accepted)
        [] n.op \in {"ArrayEvery", "TupleItems", "RecordEvery", "ObjectShape"} \cup Dispatch ->
             FirstStop(ran(Calls(h, n, x)), Accept)
        [] OTHER -> IF Vouched(h, g, n, x)
                      THEN Answered(Applied(h, n, operands) = True) ELSE Stray

\* What a loop goes over.
Visited(h, s, x) ==
  LET slotsOf(keys) == [i \in DOMAIN keys |-> Slot(h, x, keys[i])] IN
  CASE s.over = "items" -> h[x].slots
    [] s.over = "present" -> SelectSeq(h[x].slots, LAMBDA slot : slot # Missing)
    [] s.over = "keys" -> slotsOf(EnumKeys(h, x))
    [] s.over = "others" -> slotsOf(SelectSeq(OwnKeys(h, x), LAMBDA k : k \notin s.except))

\* A check of the value or descriptor x: it fails, or the program goes on.
Holding(h, s, x) ==
  CASE s.op = "guard" -> IsTest(h, s.test, x)
    [] s.op = "need" -> (x = Missing => s.absent) /\ (x = Accessor => ~s.proof)
    [] s.op = "length" -> Len(h[x].slots) \in s.lens
    [] s.op = "keys" -> ShapeKeysHold(h, s.shape, x)
    [] s.op = "enumerable" -> Range(EnumKeys(h, x)) \subseteq s.keys

Declaring == {"describe", "item", "read"}
Declared(h, s, x) ==
  CASE s.op = "describe" -> Slot(h, x, s.key)
    [] s.op = "item" -> h[x].slots[s.index]
    [] s.op = "read" -> IF IsData(x) THEN x ELSE Undefined

\* The programs a statement runs, each with a variable it declares (to).
Bodies(h, s, x) ==
  CASE s.op = "each" -> [i \in DOMAIN Visited(h, s, x) |-> s.to :> Visited(h, s, x)[i]]
    [] s.op = "present" -> IF x = Missing THEN <<>> ELSE <<<<>>>>
    [] s.op = "case" -> IF x = s.literal THEN <<<<>>>> ELSE <<>>
    [] s.op = "region" -> IF TypeOf(h, x) \in s.mask THEN <<<<>>>> ELSE <<>>

\* What a test that answers out makes of its statement.
Tested(s, out) ==
  CASE s.op = "require" /\ out = Reject -> s.fail
    [] out = (IF s.op = "require" THEN Accept ELSE Reject) -> Go
    [] OTHER -> out

Outcome(h, rt, s, x, env) ==
  LET inner == FirstStop([i \in DOMAIN Bodies(h, s, x) |->
                            Exec(h, rt, s.body, Bodies(h, s, x)[i] @@ env)], Go) IN
  CASE s.op = "stop" -> s.outcome
    [] s.op = "read" /\ x = Missing /\ ~s.absent -> Throw
    [] s.op \in Declaring /\ ~(s.op = "read" /\ x = Missing /\ ~s.absent) -> Go
    [] s.op \in {"require", "try"} -> Tested(s, Test(h, rt, s.graph, s.id, x))
    [] s.op \in {"guard", "need", "length", "keys", "enumerable"} -> IF Holding(h, s, x) THEN Go ELSE s.fail
    [] s.op \in {"each", "present", "case"} -> inner
    [] s.op = "region" -> IF inner = Break(s.label) THEN Go ELSE inner

Scope(h, s, env) ==
  IF s.op \in Declaring THEN (s.to :> Declared(h, s, env[s.on])) @@ env ELSE env

Exec(h, rt, code, env) ==
  CASE code = <<>> -> Go
    [] code # <<>> /\ Head(code).on \notin DOMAIN env -> Throw
    [] OTHER -> Following(Outcome(h, rt, Head(code), env[Head(code).on], env),
                          Exec(h, rt, Tail(code), Scope(h, Head(code), env)))

\* compile(guard).is(value).
RunGuard(h, rt, code, v) == Exec(h, rt, code, 1 :> v)
=============================================================================
