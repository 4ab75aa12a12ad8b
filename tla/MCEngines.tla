----------------------------- MODULE MCEngines -----------------------------
(***************************************************************************)
(* From a schema to its answers along the graph: lowered, optimized pass   *)
(* by pass, and compiled.  Each step must keep what the graph means.       *)
(*                                                                         *)
(* The instances are at the end: a gallery of values of every type, one    *)
(* schema at least for every way the lowering has, and the small           *)
(* conjunctions and disjunctions a caller can hand to the optimizer.       *)
(***************************************************************************)
EXTENDS CompiledGuard, TLC

CONSTANTS
  Heap,
  Roots,      \* the schemas to lower
  Crafted     \* the terms of the graphs a caller hands to the optimizer

VARIABLES
  root,       \* the schema, or NoSchema for a crafted graph
  source,     \* the graph as it was lowered or handed over
  graph,      \* the graph after the passes so far
  pass,       \* the last pass
  mode,       \* how it is compiled
  code        \* the compiled predicate

vars == <<root, source, graph, pass, mode, code>>

ASSUME EnginesAssumption ==
  /\ GraphIRAssumption
  /\ Roots \subseteq Schema
  /\ \A s \in Schema : Node[s].tag = "Scalar" =>
       Node[s].accepts = {v \in Value : LeafAccepts(Heap, Leaf[s], v)}

-----------------------------------------------------------------------------
(* What the schemas mean; the instances have no cycles.                    *)

RECURSIVE Holds(_, _)
Holds(s, v) ==
  LET items == Items(Heap, s, v)
      calls == {items[i] : i \in {j \in DOMAIN items : items[j].call}} IN
  Accepted(items, Combine(s),
           {<<c.schema, c.value>> : c \in {d \in calls : Holds(d.schema, d.value)}})

Denoted == {p \in Pairs : Holds(p[1], p[2])}

\* CompileOptions.mode.
Modes == {"safe", "unsafe", "unchecked"}

-----------------------------------------------------------------------------

Begin(s, g) ==
  /\ root = s /\ source = g /\ graph = g
  /\ pass = "lowered" /\ mode = "safe" /\ code = <<>>

Init ==
  \/ \E s \in Roots : Begin(s, LowerSchema(s))
  \/ \E t \in Crafted : Begin(NoSchema, BuildGraph(t))

Pass(from, to, next) ==
  /\ pass = from
  /\ pass' = to
  /\ graph' = next
  /\ UNCHANGED <<root, source, mode, code>>

Fold == Pass("lowered", "folded", FoldConstants(graph))
Peephole == Pass("folded", "reduced", PeepholeGraph(graph))
Specialize == Pass("reduced", "specialized", SpecializeDomains(graph))
Compact == Pass("specialized", "optimized", CompactReachable(graph))

Compile ==
  /\ pass = "optimized" /\ root # NoSchema
  /\ pass' = "compiled"
  /\ mode' \in Modes
  /\ code' = Function(graph, mode')
  /\ UNCHANGED <<root, source, graph>>

Next == Fold \/ Peephole \/ Specialize \/ Compact \/ Compile

Spec == Init /\ [][Next]_vars

-----------------------------------------------------------------------------

RECURSIVE HoldsCatchall(_)
HoldsCatchall(g) ==
  \E i \in DOMAIN g.nodes :
    \/ g.nodes[i].op = "ObjectShape" /\ g.nodes[i].arg.catchall # NoSchema
    \/ \E child \in ChildGraphs(g.nodes[i]) : HoldsCatchall(child)

\* The graph a schema is lowered to answers what the schema means, and every
\* pass keeps the answer of the graph for every value: what a rule of the
\* optimizer (folding, absorption, contradiction, redundant bounds, masks,
\* dropped guards) takes out decides nothing.  The optimizer may be handed any
\* valid graph, so this is checked for graphs no schema lowers to as well.
\* Graphs with a catchall have the answer of the graph they came from only:
\* the evaluator of graphs does not look at the catchall.
MeaningKept ==
  \A v \in Value :
    IF pass # "lowered"
    THEN Accepts(Heap, Denoted, graph, v) = Accepts(Heap, Denoted, source, v)
    ELSE root # NoSchema /\ ~HoldsCatchall(graph) =>
           Accepts(Heap, Denoted, graph, v) = (<<root, v>> \in Denoted)

RECURSIVE IsSubsequence(_, _)
IsSubsequence(s, t) ==
  \/ s = <<>>
  \/ /\ t # <<>>
     /\ IsSubsequence(IF Head(s) = Head(t) THEN Tail(s) ELSE s, Tail(t))

\* A pass never makes the graph call a schema check (so a user's predicate) on
\* a value it was not called on before, nor in another order: the barriers of
\* the conjunction rules hold the effects in place.
NoNewCalls ==
  pass # "lowered" =>
    \A v \in Value : IsSubsequence(Evaluate(Heap, Denoted, graph, v).calls,
                                   Evaluate(Heap, Denoted, source, v).calls)

RECURSIVE HoldsStrict(_), Plain(_)
HoldsStrict(g) ==
  \E i \in DOMAIN g.nodes :
    \/ g.nodes[i].op = "ObjectShape" /\ g.nodes[i].arg.strict
    \/ \E child \in ChildGraphs(g.nodes[i]) : HoldsStrict(child)

\* Data as JSON.parse makes it: no accessors, all keys enumerable.
Plain(v) ==
  LET rec == Heap[v]
      parts == Range(rec.slots) \cup {Slot(Heap, v, k) : k \in Range(rec.keys)} IN
  /\ rec.keys = rec.enum
  /\ Accessor \notin parts
  /\ \A part \in parts \ {Missing} : Plain(part)

\* The compiled predicate of a schema returns, without throwing, what the
\* kernel returns: runtime plan and compiled guard agree on every value.  The
\* unsafe modes promise it for plain data only; the unchecked one may also
\* accept undeclared keys where an object is strict, but never rejects more.
CompiledAgrees ==
  pass = "compiled" =>
    \A v \in Value :
      LET answer == RunGuard(Heap, [accepted |-> Denoted, mode |-> mode], code, v) IN
      mode = "safe" \/ Plain(v) =>
        \/ answer = Answered(<<root, v>> \in Denoted)
        \/ mode = "unchecked" /\ HoldsStrict(graph) /\ answer = Accept

-----------------------------------------------------------------------------
(* The gallery                                                             *)

Atom == [kind |-> "atom", keys |-> <<>>, enum |-> <<>>, own |-> <<>>,
         slots |-> <<>>, items |-> <<>>]
Rec(keys, own) == [Atom EXCEPT !.kind = "record", !.keys = keys, !.enum = keys,
                               !.own = own]
Arr(slots) == [Atom EXCEPT !.kind = "array", !.slots = slots]

PrimitiveOf ==
  [undefined |-> "undefined", null |-> "null", true |-> "boolean", false |-> "boolean",
   a |-> "string", b |-> "string", word |-> "string",
   one |-> "number", five |-> "number", half |-> "number", nan |-> "number",
   infinity |-> "number", big |-> "bigint"]
MeasureOf ==
  [a |-> 1, b |-> 1, word |-> 4, one |-> 2, five |-> 10, half |-> 3, nan |-> 0,
   infinity |-> 1000, big |-> 6]                 \* numbers are counted in halves
Atoms == DOMAIN PrimitiveOf
Objects ==
  [empty |-> Rec(<<>>, <<>>),
   aWord |-> Rec(<<"a">>, [a |-> "word"]),
   aUndef |-> Rec(<<"a">>, [a |-> "undefined"]),
   aGet |-> Rec(<<"a">>, [a |-> Accessor]),
   bOne |-> Rec(<<"b">>, [b |-> "one"]),
   abOk |-> Rec(<<"a", "b">>, [a |-> "a", b |-> "five"]),
   abSwap |-> Rec(<<"b", "a">>, [a |-> "b", b |-> "word"]),
   abHide |-> [Rec(<<"a", "b">>, [a |-> "a", b |-> "five"]) EXCEPT !.enum = <<"a">>],
   none |-> Arr(<<>>),
   hole |-> Arr(<<Missing>>),
   words |-> Arr(<<"word", "a">>),
   gap |-> Arr(<<"word", Missing>>),
   undef |-> Arr(<<"undefined">>),
   getter |-> Arr(<<Accessor>>),
   mixed |-> Arr(<<"one", "word">>),
   call |-> [Atom EXCEPT !.kind = "function"]]
HeapOf == [v \in Atoms \cup DOMAIN Objects |-> IF v \in Atoms THEN Atom ELSE Objects[v]]
Values == DOMAIN HeapOf
Keys == {"a", "b"}

-----------------------------------------------------------------------------
(* Leaves                                                                  *)

Chk(op, arg) == [op |-> op, arg |-> arg]
Kind(kind, checks) == [kind |-> kind, value |-> "undefined", checks |-> checks]
Lit(v) == [kind |-> "literal", value |-> v, checks |-> <<>>]
LeafOf ==
  [any |-> Kind("unknown", <<>>),
   never |-> Kind("never", <<>>),
   str |-> Kind("string", <<>>),
   long |-> Kind("string", <<Chk("min", 1), Chk("min", 2), Chk("max", 9)>>),
   nil |-> Kind("string", <<Chk("min", 3), Chk("max", 2)>>),
   vowel |-> Kind("string", <<Chk("regex", {"a"})>>),
   num |-> Kind("number", <<>>),
   int |-> Kind("number", <<Chk("integer", 0), Chk("gte", "one"), Chk("lte", "five")>>),
   open |-> Kind("number", <<Chk("gt", "one"), Chk("lt", "five"), Chk("gte", "one")>>),
   late |-> Kind("number", <<Chk("gte", "one"), Chk("integer", 0)>>),
   twice |-> Kind("number", <<Chk("multipleOf", "even")>>),
   even |-> [kind |-> "multiple", value |-> {"one"}, checks |-> <<>>],
   bool |-> Kind("boolean", <<>>),
   bigs |-> Kind("bigint", <<Chk("gte", "big")>>),
   date |-> [kind |-> "instance", value |-> {"empty"}, checks |-> <<>>],
   litA |-> Lit("a"), litB |-> Lit("b"), lit1 |-> Lit("one"), litU |-> Lit("undefined"),
   yes |-> Lit("true")]

AcceptedBy ==
  [any |-> Values, never |-> {}, str |-> {"a", "b", "word"}, long |-> {"word"},
   nil |-> {}, vowel |-> {"a"}, num |-> {"one", "five", "half"}, int |-> {"one", "five"},
   open |-> {"half"}, late |-> {"one", "five"}, twice |-> {"one"}, even |-> {"one"},
   bool |-> {"true", "false"},
   bigs |-> {"big"}, date |-> {"empty"}, litA |-> {"a"}, litB |-> {"b"},
   lit1 |-> {"one"}, litU |-> {"undefined"}, yes |-> {"true"}]
ScalarOf == [s \in DOMAIN LeafOf |-> [tag |-> "Scalar", accepts |-> AcceptedBy[s]]]

-----------------------------------------------------------------------------
(* Schemas                                                                 *)

Entry(key, schema, presence) ==
  [key |-> key, schema |-> schema, presence |-> presence,
   resolved |-> IF presence = "required" THEN "required" ELSE "optional"]
Object(entries, strict, catchall) ==
  [tag |-> "Object", entries |-> entries, strict |-> strict, catchall |-> catchall]
Open(entries) == Object(entries, FALSE, NoSchema)
Both(left, right) == [tag |-> "Intersection", left |-> left, right |-> right]
Union(options) == [tag |-> "Union", options |-> options]
Inner(tag, inner) == [tag |-> tag, inner |-> inner]
Array(item, lens) == [tag |-> "Array", item |-> item, lens |-> lens]
Tuple(items, rest) == [tag |-> "Tuple", items |-> items, rest |-> rest]
Case(literal, schema) == [literal |-> literal, schema |-> schema]

CompositeOf ==
  [maybe |-> Inner("Optional", "str"), nullable |-> Inner("Nullable", "int"),
   note |-> Inner("Wrap", "maybe"), later |-> [tag |-> "Lazy", target |-> "maybe"],
   fine |-> [tag |-> "Refine", inner |-> "any", when |-> Values,
             predicate |-> {"undefined", "a", "one", "empty", "words"}],
   solid |-> [tag |-> "Refine", inner |-> "any", when |-> Values,
              predicate |-> {"a", "one", "empty", "words"}],
   wary |-> [tag |-> "Xor", options |-> <<"fine", "str">>],
   aWary |-> Open(<<Entry("a", "wary", "required")>>),
   oneOf |-> [tag |-> "Xor", options |-> <<"str", "vowel", "num">>],
   strs |-> Array("str", 0..2), maybes |-> Array("maybe", 1..2),
   nothing |-> Array("never", 0..2), deep |-> Array("strs", 0..1),
   fines |-> Array("fine", 0..2),
   pair |-> Tuple(<<"num", "str">>, NoSchema), lone |-> Tuple(<<"maybe">>, NoSchema),
   noTuple |-> Tuple(<<"never">>, NoSchema), rest |-> Tuple(<<"str">>, "str"),
   dict |-> [tag |-> "Record", key |-> NoSchema, value |-> "bag", required |-> {}],
   keyDict |-> [tag |-> "Record", key |-> "vowel", value |-> "any", required |-> {"a"}],
   bag |-> Union(<<"str", "num", "litU">>),
   prim |-> Union(<<"long", "vowel", "int", "yes", "never">>),
   lits |-> Union(<<"litA", "num", "litB">>),
   some |-> Union(<<"strs", "long", "aAny", "later">>),
   aAny |-> Open(<<Entry("a", "any", "required")>>),
   aStr |-> Open(<<Entry("a", "str", "required")>>),
   aOpt |-> Open(<<Entry("a", "maybe", "optional")>>),
   bOpt |-> Object(<<Entry("b", "num", "optional")>>, TRUE, NoSchema),
   bNum |-> Open(<<Entry("b", "num", "required")>>),
   abStrict |-> Object(<<Entry("a", "solid", "required"), Entry("b", "num", "required")>>,
                       TRUE, NoSchema),
   abDefer |-> Object(<<Entry("a", "long", "deferred"), Entry("b", "any", "required")>>,
                      TRUE, NoSchema),
   bRest |-> Object(<<Entry("b", "any", "optional")>>, FALSE, "str"),
   tagA |-> Open(<<Entry("a", "litA", "required"), Entry("b", "num", "optional")>>),
   tagB |-> Open(<<Entry("b", "str", "required"), Entry("a", "litB", "required")>>),
   tagU |-> Open(<<Entry("a", "yes", "required")>>),
   tagged |-> Union(<<"tagA", "tagB">>),
   present |-> Union(<<"aStr", "bNum", "bOpt">>),
   shapes |-> Both("aOpt", "aAny"), wide |-> Both("aAny", "bNum"),
   meet |-> Both("prim", "nullable"), same |-> Both("strs", "maybes"),
   select |-> [tag |-> "Discriminated", key |-> "a",
               cases |-> <<Case("b", "tagB"), Case("a", "tagA")>>],
   choose |-> [tag |-> "Discriminated", key |-> "a",
               cases |-> <<Case("true", "tagU"), Case("a", "tagA")>>],
   oneKey |-> [tag |-> "KeyedObject", inner |-> "bRest", keys |-> Keys, exactlyOne |-> TRUE],
   anyKey |-> [tag |-> "KeyedObject", inner |-> "any", keys |-> Keys, exactlyOne |-> FALSE],
   sized |-> [tag |-> "PropertyCount", inner |-> "any", counts |-> {1}],
   nested |-> Open(<<Entry("b", "tagged", "required"), Entry("a", "some", "required")>>)]

NodeOf == ScalarOf @@ CompositeOf
Schemas ==
  {"any", "never", "str", "long", "nil", "vowel", "num", "int", "open", "late", "twice",
   "even", "bool", "bigs", "date", "litA", "litB", "lit1", "litU", "yes", "maybe",
   "nullable", "note", "later", "fine", "solid", "wary", "aWary", "oneOf", "strs", "maybes",
   "nothing", "deep", "fines", "pair", "lone", "noTuple", "rest", "dict", "keyDict",
   "bag", "prim", "lits", "some", "aAny", "aStr", "aOpt", "bOpt", "bNum", "abStrict",
   "abDefer", "bRest", "tagA", "tagB", "tagU", "tagged", "present", "shapes", "wide",
   "meet", "same", "select", "choose", "oneKey", "anyKey", "sized", "nested"}
\* The roots for which an engine is known to disagree, see README, Findings.
Known == {"late", "lits", "fines", "aWary", "shapes"}
RootsOf == Schemas \ (Known \cup {"even"})
PrimitiveRoots == {"lits"}

-----------------------------------------------------------------------------
(* Crafted graphs: conjunctions and disjunctions of two or three operands. *)

Five == Term("Gte", <<Param, Const("five")>>, <<>>)
Operands ==
  {Is("string"), Is("number"), Is("integer"), Five, NotTerm(Five),
   Term("Lte", <<Param, Const("one")>>, <<>>), Term("SchemaCheck", <<Param>>, "fine"),
   Const("true"), Const("false"), OrTerm(<<Is("string"), Is("number")>>),
   AndTerm(<<Is("number"), Five>>)}
CraftedTerms ==
  {Term(op, args, <<>>) : op \in {"And", "Or"},
                         args \in UNION {[1..n -> Operands] : n \in 2..3}}
=============================================================================
