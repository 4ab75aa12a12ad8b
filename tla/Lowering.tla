----------------------------- MODULE Lowering ------------------------------
(***************************************************************************)
(* From a schema to its graph (src/lower).  A schema whose check the       *)
(* graph cannot express is left to the kernel, as a SchemaCheck node; the  *)
(* items of a container and the options of a union are child graphs,       *)
(* optimized as they are lowered.                                          *)
(***************************************************************************)
EXTENDS Optimizer

\* The arrays of the repository's schemas, as the tags of SchemaGraph have them:
\* an Array, Tuple or Record of the kernel, and the leaves built as Leaf says.
Opaque(n) ==
  \/ n.tag \in {"Map", "Set", "Property", "Xor", "PropertyCount", "PropertyNames",
                "PatternProperties", "Lazy", "Refine"}
  \/ n.tag = "Tuple" /\ n.rest # NoSchema
  \/ n.tag = "Record" /\ n.key # NoSchema

NodeLiteral(n, leaf) == IF n.tag = "Scalar" /\ leaf.kind = "literal" THEN {leaf.value} ELSE {}
LiteralOf(s) == NodeLiteral(Node[s], Leaf[s])

\* readRequiredStringLiteral.
RequiredLiteral(e) ==
  IF e.presence = "required" THEN {l \in LiteralOf(e.schema) : Primitive[l] = "string"}
  ELSE {}

\* readObjectDiscriminantLiteral: of the first entry with the key.
LiteralAt(s, key) ==
  LET hits == SelectSeq(Node[s].entries, LAMBDA e : e.key = key) IN
  IF hits = <<>> THEN {} ELSE RequiredLiteral(Head(hits))

\* inferObjectUnionDiscriminant: the keys of the first option, in order, that
\* hold a string literal of their own in every option.
DiscriminantKeys(options) ==
  IF Len(options) < 2 \/ \E i \in DOMAIN options : Node[options[i]].tag # "Object"
    THEN <<>>
    ELSE LET usable(e) ==
               /\ RequiredLiteral(e) # {}
               /\ \A i \in DOMAIN options : LiteralAt(options[i], e.key) # {}
               /\ \A i, j \in DOMAIN options :
                    i # j => LiteralAt(options[i], e.key) # LiteralAt(options[j], e.key)
             found == SelectSeq(Node[options[1]].entries, usable)
         IN  [i \in DOMAIN found |-> found[i].key]

\* schemaUnionMask: the types of the values a schema may accept.
RECURSIVE UnionMask(_)
NodeMask(n, leaf) ==
  CASE n.tag = "Scalar" ->
         (CASE leaf.kind = "unknown" -> AnyType
            [] leaf.kind = "never" -> {}
            [] leaf.kind = "literal" -> {Primitive[leaf.value]}
            [] leaf.kind = "instance" -> {"object"}
            [] OTHER -> {leaf.kind})
    [] n.tag \in {"Array", "Tuple"} -> {"array"}
    [] n.tag = "Optional" -> {"undefined"} \cup UnionMask(n.inner)
    [] n.tag = "Nullable" -> {"null"} \cup UnionMask(n.inner)
    [] n.tag = "Wrap" -> UnionMask(n.inner)
    [] n.tag = "Intersection" -> UnionMask(n.left) \cap UnionMask(n.right)
    [] n.tag \in {"Union", "Xor"} -> UNION {UnionMask(o) : o \in Range(n.options)}
    [] n.tag \in {"Lazy", "Refine"} -> AnyType
    [] OTHER -> {"object"}
UnionMask(s) == NodeMask(Node[s], Leaf[s])

\* readObjectRequiredPresenceKey.
NodePresenceKey(n) ==
  IF n.tag # "Object" THEN <<>>
  ELSE LET required == SelectSeq(n.entries, LAMBDA e : e.presence = "required")
       IN  IF required = <<>> THEN <<>> ELSE <<required[1].key>>
PresenceKey(s) == NodePresenceKey(Node[s])

\* inferObjectUnionPresenceKeys.
HasPresenceKeys(options) ==
  /\ Len(options) >= 2
  /\ \A i \in DOMAIN options : UnionMask(options[i]) = {"object"}
  /\ \E i \in DOMAIN options : PresenceKey(options[i]) # <<>>

IsPrimitiveUnion(options) ==
  LET masks == {UnionMask(options[i]) : i \in DOMAIN options} \ {{}} IN
  masks # {} /\ UNION masks \subseteq Primitives

-----------------------------------------------------------------------------
(* Leaves                                                                  *)

\* A bound is exclusive when it is not reached from the other side.
Exclusive(op, c) == NotTerm(Term(op, <<Param, Const(c.arg)>>, <<>>))

\* One check of a string, number or bigint.
CheckTerm(c) ==
  CASE c.op = "integer" -> Is("integer")
    [] c.op = "min" -> Term("StringMin", <<Param>>, c.arg)
    [] c.op = "max" -> Term("StringMax", <<Param>>, c.arg)
    [] c.op = "regex" -> Term("Regex", <<Param>>, c.arg)
    [] c.op = "gte" -> Term("Gte", <<Param, Const(c.arg)>>, <<>>)
    [] c.op = "lte" -> Term("Lte", <<Param, Const(c.arg)>>, <<>>)
    [] c.op = "gt" -> Exclusive("Lte", c)
    [] c.op = "lt" -> Exclusive("Gte", c)
    [] c.op = "multipleOf" -> Term("SchemaCheck", <<Param>>, c.arg)

LeafTerm(s, leaf) ==
  CASE leaf.kind = "unknown" -> Const(True)
    [] leaf.kind = "never" -> Const(False)
    [] leaf.kind = "literal" -> Term("Equals", <<Param, Const(leaf.value)>>, <<>>)
    [] leaf.kind = "instance" -> Term("SchemaCheck", <<Param>>, s)
    [] OTHER -> AndTerm(<<Is(leaf.kind)>>
                        \o Explicit([i \in DOMAIN leaf.checks |-> CheckTerm(leaf.checks[i])]))

-----------------------------------------------------------------------------
(* Schemas                                                                 *)

\* Some key, or exactly one, holds data.
KeyRuleTerm(n) ==
  LET keys == SetToSeq(n.keys)
      present(i) == Term("HasOwnData", <<Param>>, keys[i])
      only(i) == AndTerm(Explicit([j \in DOMAIN keys |-> IF i = j THEN present(j)
                                                ELSE NotTerm(present(j))]))
  IN  OrTerm(Explicit([i \in DOMAIN keys |-> IF n.exactlyOne THEN only(i) ELSE present(i)]))

\* The schemas a node holds the graphs of.
GraphChildren(n) ==
  CASE Opaque(n) -> {}
    [] n.tag = "Array" -> {n.item}
    [] n.tag = "Tuple" /\ ~Opaque(n) -> Range(n.items)
    [] n.tag = "Record" /\ ~Opaque(n) -> {n.value}
    [] n.tag = "Object" -> {e.schema : e \in Range(n.entries)} \cup ({n.catchall} \ {NoSchema})
    [] n.tag = "Union" -> Range(n.options)
    [] n.tag = "Discriminated" -> {c.schema : c \in Range(n.cases)}
    [] OTHER -> {}

\* In the operators below, graph[c] is the optimized graph of child c.
OptionBranch(s, graph) ==
  [mask |-> UnionMask(s), graph |-> graph[s], key |-> PresenceKey(s), schema |-> s]

DiscriminantTerm(key, literals, options, graph) ==
  Term("DiscriminantDispatch", <<Param>>,
       [key |-> key,
        branches |-> Explicit([i \in DOMAIN options |->
                        [literal |-> literals[i], graph |-> graph[options[i]]]])])

\* A union with the discriminants keys, the first of which selects.
LowerOptions(keys, options, graph) ==
  LET literal(i) == CHOOSE l \in LiteralAt(options[i], Head(keys)) : TRUE
      dispatch == IF IsPrimitiveUnion(options) THEN "PrimitiveUnion"
                  ELSE IF HasPresenceKeys(options) THEN "PresenceDispatch"
                  ELSE "UnionDispatch" IN
  IF keys # <<>>
    THEN DiscriminantTerm(Head(keys), [i \in DOMAIN options |-> literal(i)], options, graph)
    ELSE Term(dispatch, <<Param>>,
              [branches |-> Explicit([i \in DOMAIN options |->
                               OptionBranch(options[i], graph)])])
LowerUnion(options, graph) == LowerOptions(DiscriminantKeys(options), options, graph)

\* String literals select by lookup; others are left to the union.
LowerDiscriminated(n, graph) ==
  LET schemas == [i \in DOMAIN n.cases |-> n.cases[i].schema] IN
  IF \E i \in DOMAIN n.cases : Primitive[n.cases[i].literal] # "string"
    THEN LowerUnion(schemas, graph)
    ELSE DiscriminantTerm(n.key, [i \in DOMAIN n.cases |-> n.cases[i].literal], schemas,
                          graph)

LowerObject(n, graph) ==
  Term("ObjectShape", <<Param>>,
       [entries |-> Explicit([i \in DOMAIN n.entries |->
          LET e == n.entries[i] IN
          [key |-> e.key, schema |-> e.schema, graph |-> graph[e.schema],
           presence |-> IF e.presence = "deferred" THEN e.resolved ELSE e.presence]]),
        strict |-> n.strict,
        catchall |-> n.catchall,
        catchallGraph |-> IF n.catchall = NoSchema THEN <<>>
                          ELSE <<graph[n.catchall]>>])

RECURSIVE LowerTerm(_)
LowerNode(s, n, graph) ==
  CASE n.tag = "Scalar" -> LeafTerm(s, Leaf[s])
    [] Opaque(n) -> Term("SchemaCheck", <<Param>>, s)
    [] n.tag = "Array" ->
         AndTerm(<<Is("array"),
                   Term("ArrayEvery", <<Param>>,
                        [item |-> n.item, lens |-> n.lens, graph |-> graph[n.item]])>>)
    [] n.tag = "Tuple" /\ ~Opaque(n) ->
         AndTerm(<<Is("array"),
                   Term("TupleItems", <<Param>>,
                        [items |-> n.items,
                         graphs |-> Explicit([i \in DOMAIN n.items |-> graph[n.items[i]]])])>>)
    [] n.tag = "Record" /\ ~Opaque(n) ->
         AndTerm(<<Is("object"),
                   Term("RecordEvery", <<Param>>,
                        [item |-> n.value, graph |-> graph[n.value]])>>)
    [] n.tag = "Object" -> LowerObject(n, graph)
    [] n.tag = "Union" -> LowerUnion(n.options, graph)
    [] n.tag = "Intersection" -> AndTerm(<<LowerTerm(n.left), LowerTerm(n.right)>>)
    [] n.tag = "Optional" -> OrTerm(<<Is("undefined"), LowerTerm(n.inner)>>)
    [] n.tag = "Nullable" -> OrTerm(<<Is("null"), LowerTerm(n.inner)>>)
    [] n.tag = "Wrap" -> LowerTerm(n.inner)
    [] n.tag = "Discriminated" -> LowerDiscriminated(n, graph)
    [] n.tag = "KeyedObject" -> AndTerm(<<LowerTerm(n.inner), KeyRuleTerm(n)>>)

\* lowerChildGraph, for every child.
LowerTerm(s) ==
  LowerNode(s, Node[s],
            [c \in GraphChildren(Node[s]) |-> OptimizeGraph(BuildGraph(LowerTerm(c)))])

\* lowerSchema, before any pass.
LowerSchema(s) == BuildGraph(LowerTerm(s))
=============================================================================
