----------------------------- MODULE MCContracts -----------------------------
(***************************************************************************)
(* What is built from contracts, over sets of values: JSON Schema          *)
(* documents of every dialect, written from contracts and read back; and   *)
(* object guards derived from one another, next to what the derivations    *)
(* promise.  A behaviour is about the one or the other.                    *)
(***************************************************************************)
EXTENDS JsonImport, ObjectGuards

Validity == INSTANCE JsonValidity

CONSTANT MaxDerivations   \* bound on the derivations of a guard

VARIABLES
  contract, option, stage, doc, schema, table,   \* documents
  guard, promise, derivations, ended             \* derived guards

documentVars == <<contract, option, stage, doc, schema, table>>
guardVars == <<guard, promise, derivations, ended>>

NoGuard == [tag |-> "none"]
OnDocuments == guard = NoGuard
OnGuards == guard # NoGuard

-----------------------------------------------------------------------------
(* Documents                                                               *)

Keywords == {"$defs", "definitions", "properties", "patternProperties", "items", "prefixItems",
             "additionalItems", "additionalProperties", "propertyNames", "anyOf", "oneOf",
             "allOf", "not", "Schema1", "Schema2", "Schema3", "Schema4"}
Keys == {"a", "b", "x/y", "m~n"}
Texts == Keys \cup {"", "ab", "s", "t"}

MCSizes == [s \in Texts |-> CASE s = "" -> 0 [] s = "ab" -> 2 [] s \in {"x/y", "m~n"} -> 3 [] OTHER -> 1]
MCMatching == ("^a" :> {"a", "ab"}) @@ ("b$" :> {"b", "ab"}) @@ ("email" :> {"x/y"})
MCSpelling ==
  [k \in Keywords |-> <<k>>] @@ ("a" :> <<"a">>) @@ ("b" :> <<"b">>)
    @@ ("x/y" :> <<"x", "/", "y">>) @@ ("m~n" :> <<"m", "~", "n">>) @@ ("^a" :> <<"^", "a">>)
    @@ ("b$" :> <<"b", "$">>)

One == Halves(2)
Scalars == {Null, Truth(TRUE), Truth(FALSE)} \cup {Text(s) : s \in {"", "a", "b", "ab", "x/y"}}
             \cup {Halves(n) : n \in {-2, 0, 1, 2, 4, 6, 12}}
Lists == {List(l) : l \in {<<>>, <<One>>, <<Text("a")>>, <<One, Text("a")>>, <<One, One>>,
                           <<One, Text("a"), One>>, <<Null, One>>, <<One, Text("a"), Null>>}}
Flat == {Fields([a |-> v]) : v \in {One, Null, Text("a"), Halves(1), List(<<One>>)}}
          \cup {Fields([b |-> v]) : v \in {One, Text("a")}}
          \cup {Fields([a |-> v, b |-> w]) : v \in {One, Text("a")}, w \in {One, Null, Text("b")}}
          \cup {Fields("x/y" :> One), Fields("m~n" :> One), Fields(<<>>), Fields("x/y" :> Null),
                Fields("ab" :> One), Fields("ab" :> Text("a"))}
Deep == {Fields([a |-> v]) : v \in {Fields(<<>>), Fields([a |-> Null]), Fields([a |-> One]),
                                    Fields([b |-> One])}}
          \cup {Fields("x/y" :> Fields("x/y" :> v)) : v \in {One, Null, Fields("x/y" :> One)}}
          \cup {Fields([a |-> One, b |-> Fields([a |-> v, b |-> w])]) :
                  v \in {One, Text("a")}, w \in {Null, Fields([a |-> Text("a")])}}
          \cup {List(<<List(<<>>), List(<<v>>)>>) : v \in {One, List(<<>>)}}
          \cup {Fields([a |-> v]) : v \in {Fields("x/y" :> Fields("x/y" :> One)),
                                     List(<<Fields([a |-> List(<<>>)])>>), List(<<List(<<>>)>>),
                                     List(<<Fields([a |-> One])>>),
                                     Fields([a |-> One, b |-> Fields([a |-> One])])}}
Values == Scalars \cup Lists \cup Flat \cup Deep

Str(checks) == StringSchema(checks)
Num(checks) == NumberSchema(checks)
Of(kind) == Check(kind, 0)
AnyString == Str(<<>>)
AnyNumber == Num(<<>>)
Obj(mode, entries) == [tag |-> "Object", entries |-> entries, mode |-> mode]
Req(key, s) == Entry(key, s, "required")
Opt(key, s) == Entry(key, s, "optional")
Arr(item, checks) == [tag |-> "Array", item |-> item, checks |-> checks]
Both(l, r) == [tag |-> "Intersection", left |-> l, right |-> r]
Named(key, s) == [tag |-> "Names", inner |-> s, key |-> key]
Patterned(s, entries, known, allow) ==
  [tag |-> "Patterns", inner |-> s, entries |-> entries, known |-> known, allow |-> allow]
Source(p, s) == [source |-> p, schema |-> s]
Point == Obj("strict", <<Req("a", AnyNumber)>>)
Counted(s, bounds) == bounds @@ Wrapped("Count", s)
StartsWithA == Str(<<[is |-> "regex", source |-> "^a"]>>)

MCLazies ==
  [tree |-> Obj("passthrough", <<Req("a", AnyNumber), Opt("b", Options("Union", <<Literal(Null), Lazy("tree")>>))>>),
   branch |-> Obj("passthrough", <<Req("a", AnyNumber), Opt("b", Wrapped("Nullable", Lazy("branch")))>>),
   path |-> Obj("strict", <<Opt("x/y", Options("Union", <<AnyNumber, Lazy("path")>>))>>),
   nest |-> Arr(Lazy("nest"), <<>>),
   alias |-> Lazy("nest"),
   loop |-> Lazy("loop"),
   keyed |-> Arr(Patterned(Obj("passthrough", <<>>), <<Source("^a", Lazy("keyed"))>>, {}, TRUE), <<>>)]

ScalarContracts == {
  Unknown, Never, Node("Boolean"), Literal(Null), Literal(Text("a")), Literal(One),
  Str(<<Check("min", 1), Check("min", 2), Check("max", 3)>>),
  Str(<<[is |-> "regex", source |-> "^a"]>>),
  Str(<<[is |-> "regex", source |-> "^a"], [is |-> "regex", source |-> "b$"]>>),
  Str(<<[is |-> "format", source |-> "email"], Check("max", 3)>>),
  Str(<<[is |-> "regex", source |-> "^a", flags |-> "i"]>>),
  Num(<<Of("integer"), Check("gte", 2), Check("gt", 2)>>),
  Num(<<Check("gt", 1), Check("gte", 2), Check("lte", 4)>>),
  Num(<<Check("lt", 6), Check("lte", 6)>>), Num(<<Check("multipleOf", 4)>>),
  Wrapped("Undefinedable", AnyString), Wrapped("Nullable", AnyString),
  Wrapped("Nullable", Never), Wrapped("Nullable", Unknown), Wrapped("Brand", AnyNumber), [tag |-> "Refine", inner |-> AnyNumber, holds |-> "one"]}

CompositeContracts == {
  Arr(AnyNumber, <<Check("min", 1), Check("max", 2)>>),
  [tag |-> "Tuple", items |-> <<AnyNumber, AnyString>>],
  [tag |-> "Tuple", items |-> <<AnyNumber, AnyString>>, rest |-> Literal(Null)],
  [tag |-> "Record", value |-> AnyNumber, required |-> {}, loose |-> FALSE],
  [tag |-> "Record", value |-> AnyNumber, required |-> {"a"}, loose |-> FALSE,
   key |-> Str(<<[is |-> "regex", source |-> "^a"]>>)],
  [tag |-> "Record", value |-> AnyNumber, required |-> {}, loose |-> TRUE,
   key |-> Str(<<[is |-> "regex", source |-> "^a"]>>)],
  Obj("strict", <<Req("a", AnyNumber), Opt("b", AnyString)>>),
  Obj("strip", <<Req("a", AnyNumber)>>),
  Obj("passthrough", <<Req("a", AnyNumber)>>) @@ [catchall |-> AnyString],
  Obj("strict", <<Entry("a", [tag |-> "Lazy", name |-> "nest", presence |-> "optional"], "deferred")>>),
  Options("Union", <<AnyNumber, Point, AnyString>>),
  Options("Xor", <<Point, Obj("passthrough", <<Req("a", Num(<<Of("integer")>>))>>)>>),
  Both(Obj("passthrough", <<Req("a", AnyNumber)>>), Obj("passthrough", <<Opt("b", AnyString)>>)),
  [tag |-> "Discriminated", key |-> "a",
   cases |-> <<[literal |-> One, schema |-> Obj("strict", <<Req("a", Literal(One)), Opt("b", AnyNumber)>>)],
               [literal |-> Text("a"), schema |-> Obj("strict", <<Req("a", Literal(Text("a")))>>)]>>],
  [tag |-> "Keyed", inner |-> Obj("passthrough", <<>>), keys |-> <<"a", "b">>, rule |-> "atLeastOne"],
  [tag |-> "Keyed", inner |-> Obj("passthrough", <<>>), keys |-> <<"a", "b">>, rule |-> "exactlyOne"],
  [tag |-> "Count", inner |-> Obj("passthrough", <<>>), min |-> 1, max |-> 1],
  Named(Str(<<[is |-> "regex", source |-> "^a"]>>), Obj("passthrough", <<>>)),
  Patterned(Obj("passthrough", <<Req("a", Unknown)>>), <<Source("^a", AnyNumber)>>, {"a"}, FALSE),
  Patterned(Obj("passthrough", <<>>), <<Source("^a", AnyNumber), Source("b$", AnyString)>>, {}, TRUE)
    @@ [additional |-> AnyNumber]}

SharedContracts == {
  Obj("strict", <<Req("a", Point), Opt("b", Point)>>),
  Obj("strict", <<Opt("x/y", Arr(Point, <<>>)), Opt("m~n", Point), Opt("a", Arr(Point, <<>>))>>),
  Options("Union", <<Point, Arr(Point, <<>>)>>), Both(Never, Never),
  Lazy("tree"), Lazy("path"), Lazy("nest"), Lazy("alias"), Lazy("loop"),
  Obj("strict", <<Opt("a", Lazy("path")), Opt("x/y", Lazy("path"))>>),
  Arr(Lazy("nest"), <<Check("max", 2)>>),
  Obj("strict", <<Req("a", [tag |-> "Metadata", inner |-> Point, id |-> "point"])>>),
  [tag |-> "Metadata", inner |-> Lazy("tree"), id |-> "tree"]}

\* Rules put on an object one over another, the last ones twice, and what the
\* writers are known to get wrong: readers are told in the README.
StackedContracts == {
  Counted(Named(StartsWithA, Obj("passthrough", <<>>)), [min |-> 2]),
  Counted(Counted(Obj("passthrough", <<>>), [min |-> 1]), [max |-> 1]),
  Named(StartsWithA, Patterned(Obj("strip", <<Req("a", AnyNumber)>>), <<Source("b$", AnyString)>>, {"a"}, TRUE)),
  Counted(Point, [max |-> 1]), Options("Union", <<Counted(Point, [max |-> 1]), Arr(Point, <<>>)>>),
  Counted(Counted(Obj("passthrough", <<>>), [min |-> 2]), [min |-> 1]),
  Named(Str(<<Check("max", 1)>>), Named(StartsWithA, Obj("passthrough", <<>>))),
  Patterned(Patterned(Obj("passthrough", <<>>), <<Source("b$", AnyString)>>, {}, TRUE),
            <<Source("^a", AnyNumber)>>, {}, TRUE),
  Patterned(Point, <<Source("b$", AnyString)>>, {"a"}, FALSE)}

RecursiveContracts == {
  Lazy("keyed"), Lazy("branch"), Wrapped("Nullable", Literal(One)), Arr(Lazy("keyed"), <<>>),
  Patterned(Obj("passthrough", <<>>), <<Source("^a", Lazy("nest"))>>, {}, FALSE),
  Patterned(Obj("passthrough", <<Opt("a", Lazy("tree"))>>), <<Source("^a", AnyNumber)>>, {"a"}, TRUE)
    @@ [additional |-> Lazy("tree")],
  Obj("strict", <<Req("a", [tag |-> "Metadata", inner |-> Lazy("tree"), id |-> "tree"])>>),
  Obj("strict", <<Opt("a", [tag |-> "Metadata", inner |-> Arr(Point, <<>>), id |-> "points"]), Opt("b", Point)>>),
  Num(<<Check("multipleOf", 4), Check("multipleOf", 6)>>),
  Options("Xor", <<AnyNumber, Wrapped("Undefinedable", AnyString)>>)}

Contract ==
  ScalarContracts \cup CompositeContracts \cup SharedContracts \cup StackedContracts \cup RecursiveContracts
Option == [target : {"draft-04", "draft-07", "2020-12", "openapi-3.0"}, cycles : {"ref", "throw"},
           reused : {"inline", "ref"}, open : BOOLEAN]

Kind(type) == [type |-> type]
To(name) == [ref |-> <<"#", "/", "$defs", "/", name>>]
Table(f) == "$defs" :> f
RequiredKeys(keys) == [required |-> keys]

Documents == {
  Doc(TRUE), Open, [not |-> Open], [not |-> Doc(FALSE)], [enum |-> <<One, Null, Text("a")>>],
  [enum |-> <<>>], [types |-> <<"string", "null">>], [types |-> <<"integer">>, minimum |-> 2],
  Kind("number") @@ [minimum |-> 2, openMinimum |-> TRUE], Kind("number") @@ [openMaximum |-> TRUE],
  Kind("number") @@ [maximum |-> 4, openMaximum |-> FALSE],
  Kind("string") @@ [minLength |-> 2, maxLength |-> 1], Kind("string") @@ [format |-> "email"],
  Kind("array") @@ [prefixItems |-> <<Kind("number")>>, minItems |-> 1, maxItems |-> 1],
  Kind("object") @@ [properties |-> [a |-> Kind("number"), b |-> To("Schema1")],
                     patternProperties |-> ("^a" :> Kind("integer")), minProperties |-> 1,
                     additionalProperties |-> Kind("string")]
                 @@ Table([Schema1 |-> Kind("string")]) @@ RequiredKeys({"a"}),
  Kind("object") @@ [properties |-> [a |-> Kind("number")], additionalProperties |-> Doc(FALSE),
                     patternProperties |-> ("b$" :> Doc(TRUE))] @@ RequiredKeys({"a"}),
  [anyOf |-> <<To("Schema1"), Kind("string")>>]
    @@ Table([Schema1 |-> To("Schema2"), Schema2 |-> Kind("number")]),
  [oneOf |-> <<Kind("number"), Kind("integer"), Kind("string")>>],
  [allOf |-> <<To("Schema1"), To("Schema1")>>]
    @@ Table([Schema1 |-> Kind("object") @@ [properties |-> [a |-> To("Schema2")]],
              Schema2 |-> Kind("object") @@ [properties |-> [b |-> To("Schema1"), a |-> To("Schema3")]],
              Schema3 |-> Kind("number")]),
  Kind("object") @@ [properties |-> ("x/y" :> [ref |-> <<"#", "/", "properties", "/", "m", "~", "0", "n">>])
                                      @@ ("m~n" :> Kind("number"))],
  Kind("object") @@ [properties |-> [a |-> [ref |-> <<"#">>]], maxProperties |-> 1],
  To("Schema1"), To("Schema1") @@ Kind("number") @@ Table([Schema1 |-> Kind("number")])}

\* The documents whose every keyword the reader looks at, and whose references
\* name schemas of the document itself: the reader takes a pointer to a table
\* for one to a schema, and knows no base but the root.
Deciding == {"const", "enum", "anyOf", "oneOf", "allOf", "not"}
Bookkeeping == {"id", "$defs", "definitions"}
Applies(type) ==
  CASE type = "object" -> {"properties", "patternProperties", "additionalProperties", "required",
                           "propertyNames", "minProperties", "maxProperties"}
    [] type = "array" -> {"items", "itemList", "prefixItems", "additionalItems", "minItems", "maxItems"}
    [] OTHER -> {"minLength", "maxLength", "pattern", "format", "multipleOf", "minimum", "maximum",
                 "exclusiveMinimum", "exclusiveMaximum", "openMinimum", "openMaximum"}

LooksAtAll(d) ==
  LET fields == DOMAIN d \ Bookkeeping IN
  CASE fields \cap (Deciding \cup {"ref"}) # {} -> Cardinality(fields) = 1
    [] "type" \in fields ->
         /\ fields \subseteq {"type"} \cup Applies(d.type)
         /\ Has(d, "required") => Has(d, "properties") /\ d.required \subseteq DOMAIN d.properties
         /\ Has(d, "format") => Has(d, "pattern")
         /\ ~(Has(d, "prefixItems") /\ Has(d, "items"))
         /\ (Has(d, "prefixItems") \/ Has(d, "itemList")) => Has(d, "minItems")
    [] OTHER -> fields \subseteq {"types", "minimum"}

\* The places of a document, and the pointers written in it.
PlacesIn(d) == Validity!PlacesOf(d, <<"#">>)
PointersIn(places) == {place[2].ref : place \in {p \in places : Has(p[2], "ref")}}
\* An identifier below the root is the base of the references below it.
Rebased(places) ==
  \E place \in places :
    place[1] # <<"#">> /\ Has(place[2], "id") /\ PointersIn(PlacesIn(place[2])) # {}
Resolved(places) == PointersIn(places) \subseteq {place[1] : place \in places}

Understood(d) ==
  LET places == PlacesIn(d) IN
  /\ Resolved(places) /\ ~Rebased(places)
  /\ \A place \in places : IsBoolean(place[2]) \/ LooksAtAll(place[2])

-----------------------------------------------------------------------------
(* A contract is exported, and what was written is read back.              *)

InitDocuments ==
  /\ option \in Option
  /\ \/ stage = "given" /\ contract \in Contract /\ doc = Open
     \/ stage = "written" /\ contract = Unknown /\ doc \in Documents
  /\ schema = Unknown /\ table = <<>>

Export ==
  /\ stage = "given"
  /\ doc' = ExportJsonSchema(contract, [lazies |-> MCLazies] @@ option)
  /\ stage' = IF IsRefused(doc') THEN "refused" ELSE "exported"
  /\ UNCHANGED <<contract, option, schema, table>>

Import ==
  /\ stage \in {"written", "exported"}
  /\ schema' = FromJsonSchema(doc)
  /\ table' = LazyTable(doc)
  /\ stage' = IF IsFailed(schema') THEN "failed" ELSE "imported"
  /\ UNCHANGED <<contract, option, doc>>


-----------------------------------------------------------------------------
\* No value tells a contract from a document.
Same(s, lazies, d, target) ==
  LET base == Validity!BaseOf(d, target) IN
  {v \in Values : Accepts(s, v, lazies, {}) # Validity!Valid(d, v, base)} = {}

\* Every value of the contract is one of the document.
Admits(s, lazies, d, target) ==
  LET base == Validity!BaseOf(d, target) IN
  {v \in Values : Accepts(s, v, lazies, {}) /\ ~Validity!Valid(d, v, base)} = {}

\* Every node of a contract, those of its lazy nodes included.
RECURSIVE Nodes(_)
Nodes(seen) ==
  LET below == UNION {IF s.tag = "Lazy" THEN {MCLazies[s.name]} ELSE ToSet(Children(s)) : s \in seen}
  IN  IF below \subseteq seen THEN seen ELSE Nodes(seen \cup below)

\* The keywords each rule of a stack writes next to those of the rules below.
\* A table of patterns also narrows what "additionalProperties" is about.
KeywordsOf(s) ==
  CASE s.tag = "Count" -> DOMAIN s \cap {"min", "max"}
    [] s.tag = "Names" -> {"propertyNames"}
    [] s.tag = "Patterns" -> {"patternProperties", "additionalProperties"}
    [] s.tag = "Object" -> IF s.mode = "strict" \/ Has(s, "catchall") THEN {"additionalProperties"} ELSE {}
Rules == {"Count", "Names", "Patterns"}
RECURSIVE Stack(_)
Stack(s) == IF s.tag \in Rules THEN <<s>> \o Stack(s.inner) ELSE <<s>>
Overwrites(s) ==
  /\ s.tag \in Rules
  /\ \E i \in 2..Len(Stack(s)) : KeywordsOf(s) \cap KeywordsOf(Stack(s)[i]) # {}

\* What keeps an export from being lossless, each with a line in the README.
Places == PlacesIn(doc)
RulesOverwritten == \E s \in Nodes({contract}) : Overwrites(s)
PointsIntoPatterns == \E ref \in PointersIn(Places) : "patternProperties" \in ToSet(ref)
\* In these dialects a reference silences its neighbours, and "nullable" one
\* without a type.
NeighboursIgnored ==
  /\ option.target # "2020-12"
  /\ \E place \in Places :
       \/ Has(place[2], "ref") /\ DOMAIN place[2] \ ({"ref"} \cup Bookkeeping) # {}
       \/ Has(place[2], "nullable") /\ ~Has(place[2], "type") /\ place[2] # [nullable |-> TRUE, enum |-> <<Null>>]
DivisorDropped ==
  \E s \in Nodes({contract}) :
    s.tag = "Number" /\ Cardinality({i \in DOMAIN s.checks : s.checks[i].is = "multipleOf"}) > 1
\* A weaker option of an exclusive union makes the union stricter.
Weakened == option.open /\ IsRefused(ExportJsonSchema(contract, [lazies |-> MCLazies] @@ [option EXCEPT !.open = FALSE]))
WeakenedChoice == Weakened /\ \E s \in Nodes({contract}) : s.tag = "Xor"

Flawed ==
  \/ RulesOverwritten \/ PointsIntoPatterns \/ NeighboursIgnored
  \/ Rebased(Places) \/ DivisorDropped \/ WeakenedChoice

\* "Export succeeds only when TypeSea can represent the contract over
\* JSON-compatible input values without semantic loss" (docs/api.md:1551):
\* every document written accepts exactly the values of its contract, whatever
\* the dialect, the definitions shared, the rules stacked on an object and the
\* references through cycles, but for the flaws named above.  What is only
\* written because a weaker schema was asked for (unrepresentable "any",
\* docs/api.md:1612) still admits every value of the contract.
ExportIsLossless ==
  stage = "exported" /\ ~Flawed =>
    IF Weakened THEN Admits(contract, MCLazies, doc, option.target)
                ELSE Same(contract, MCLazies, doc, option.target)

\* A document whose keywords the reader looks at is read as a contract that
\* accepts exactly the values the document does, through chains of references
\* and cycles between them.
ImportMeansDocument ==
  stage = "imported" /\ Understood(doc) => Same(schema, table, doc, option.target)

-----------------------------------------------------------------------------
(* Guards                                                                   *)

Inner == <<Entry("a", AnyNumber, "required"), Entry("b", AnyString, "optional")>>
Nested == ObjectSchemaFromEntries(Inner, "strict", {})
Maybe(s) == Wrapped("Optional", s)
ExactNum == [tag |-> "Lazy", name |-> "num", presence |-> "optional"]
Self == [tag |-> "Lazy", name |-> "self", presence |-> "optional"]

\* What the getters return, read as entries, and the target of ExactNum.
Lazies ==
  [num |-> AnyNumber,
   self |-> NormalizeObjectEntrySchema(Maybe(ObjectSchemaFromEntries(
              <<Entry("a", Self, "deferred")>>, "strict", {}))).schema]

Shapes == {
  <<Field("a", AnyNumber), Field("b", Maybe(AnyString))>>,
  <<Field("a", Maybe(Wrapped("Undefinedable", AnyNumber))), Field("b", Wrapped("Nullable", Maybe(AnyString)))>>,
  <<Field("a", Nested), Field("b", ExactNum)>>,
  <<Field("a", Self), Field("b", Wrapped("Nullable", ExactNum))>>,
  <<Field("a", Literal(Text("s"))), Field("b", Maybe(AnyNumber))>>}
Extensions == {
  <<Field("b", AnyNumber)>>,
  <<Field("c", Maybe(Wrapped("Brand", Maybe(AnyNumber)))), Field("a", AnyString)>>,
  <<Field("c", [tag |-> "Array", item |-> Nested, checks |-> <<>>])>>}

Predicates == {"few", "plain"}
Others == {
  Refined(Constructed(<<Field("b", AnyNumber), Field("c", Maybe(AnyString))>>, "strict"), "few"),
  Described(Catchall(Constructed(<<Field("c", Unknown)>>, "passthrough"), AnyNumber))}
OtherPromise(g) ==
  IF \E i \in DOMAIN g.shape : g.shape[i].key = "b"
  THEN [fields |-> [b |-> [of |-> AnyNumber, omittable |-> FALSE, deep |-> FALSE],
                    c |-> [of |-> Maybe(AnyString), omittable |-> TRUE, deep |-> FALSE]],
        mode |-> "strict", others |-> {}, kept |-> {"few"}]
  ELSE [fields |-> [c |-> [of |-> Unknown, omittable |-> FALSE, deep |-> FALSE]],
        mode |-> "passthrough", others |-> {AnyNumber}, kept |-> {}]

\* Cases a derived guard is put next to in a discriminated union on "a".
Cases == {
  [literal |-> Text("t"), schema |-> Constructed(<<Field("a", Literal(Text("t")))>>, "strip").schema],
  [literal |-> One, schema |-> Wrapped("Brand",
     Refined(Constructed(<<Field("a", Wrapped("Brand", Literal(One)))>>, "passthrough"), "few").schema)],
  [literal |-> Text("s"), schema |-> Constructed(<<Field("a", Literal(Text("s")))>>, "strip").schema]}

Selections == {<<"a">>, <<"b">>, <<"b", "a">>, <<"c">>}

Present == {One, Text("s"), Text("t"), Null, Undefined, Fields(<<>>), Fields([a |-> One]),
            Fields([b |-> One]), Fields([a |-> Fields(<<>>)])}
Instances ==
  {Fields(<<>>), One} \cup {Fields([a |-> v]) : v \in Present}
    \cup {Fields([a |-> v, b |-> w]) : v \in Present, w \in {One, Text("s"), Null, Undefined}}
    \cup {Fields([b |-> w]) : w \in {One, Text("s"), Null}}
    \cup {Fields([a |-> v, b |-> w, c |-> x]) :
            v \in {One, Text("s"), Fields(<<>>), Fields([a |-> One])}, w \in {One, Text("s")},
            x \in {One, Text("s"), Undefined, List(<<Fields(<<>>)>>), List(<<Fields([a |-> One])>>)}}
    \cup {Fields([a |-> v, c |-> x]) : v \in {One, Text("s")}, x \in {One, Undefined}}
    \cup {Fields([b |-> w, z |-> x]) : w \in {Text("s"), One}, x \in {One, Text("s")}}
    \cup {Fields([a |-> One, b |-> w, z |-> x]) : w \in {Text("s"), One}, x \in {One, Text("s")}}

MCHolding ==
  [one |-> {One},
   few |-> {v \in Instances : v.is = "fields" /\ Cardinality(DOMAIN v.fields) <= 2},
   plain |-> {v \in Instances : v.is = "fields" /\ \A k \in DOMAIN v.fields : v.fields[k].is # "fields"}]

-----------------------------------------------------------------------------
(* What a guard given for a property promises                              *)

RECURSIVE MayBeMissing(_)
MayBeMissing(s) ==
  CASE s.tag = "Optional" -> TRUE
    [] s.tag = "Lazy" -> Has(s, "presence") /\ s.presence = "optional"
    [] s.tag \in Transparent -> MayBeMissing(s.inner)
    [] OTHER -> FALSE

\* An optional wrapper on the spine admits absence, not undefined.
RECURSIVE AdmitsUndefined(_)
AdmitsUndefined(s) ==
  CASE s.tag = "Undefinedable" -> TRUE
    [] s.tag = "Optional" \/ s.tag \in Transparent -> AdmitsUndefined(s.inner)
    [] OTHER -> s = Unknown

\* The verdict with every property of every object omittable.
RECURSIVE Relaxed(_, _)
Relaxed(s, v) ==
  CASE s.tag = "Object" ->
         /\ v.is = "fields"
         /\ \A key \in DOMAIN v.fields :
              \/ \E i \in DOMAIN s.entries :
                   s.entries[i].key = key /\ Relaxed(s.entries[i].schema, v.fields[key])
              \/ key \notin EntryKeys(s.entries) /\ s.mode # "strict"
    [] s.tag = "Array" -> v.is = "list" /\ \A i \in DOMAIN v.list : Relaxed(s.item, v.list[i])
    [] s.tag \in {"Nullable", "Brand", "Optional", "Undefinedable"} ->
         \/ v = Null /\ s.tag = "Nullable"
         \/ v = Undefined /\ s.tag \in {"Optional", "Undefinedable"}
         \/ Relaxed(s.inner, v)
    [] OTHER -> Accepts(s, v, Lazies, {})

Holds(field, v) ==
  CASE v = Undefined -> AdmitsUndefined(field.of)
    [] field.deep -> Relaxed(field.of, v)
    [] OTHER -> Accepts(field.of, v, Lazies, {})

FieldOf(s) == [of |-> s, omittable |-> MayBeMissing(s), deep |-> FALSE]
FieldsOf(shape) ==
  [k \in KeysOf(shape) |->
     FieldOf(shape[CHOOSE i \in DOMAIN shape : shape[i].key = k].schema)]

PromiseHolds(p, v) ==
  /\ v.is = "fields"
  /\ \A k \in DOMAIN p.fields :
       IF k \in DOMAIN v.fields THEN Holds(p.fields[k], v.fields[k]) ELSE p.fields[k].omittable
  /\ \A k \in DOMAIN v.fields \ DOMAIN p.fields :
       IF p.others # {} THEN \A s \in p.others : Accepts(s, v.fields[k], Lazies, {})
                        ELSE p.mode # "strict"
  /\ \A name \in p.kept : v \in Holding[name]

-----------------------------------------------------------------------------
InitGuards ==
  \E shape \in Shapes, mode \in {"strict", "passthrough", "strip"} :
    /\ guard = Constructed(shape, mode)
    /\ promise = [fields |-> FieldsOf(shape), mode |-> mode, others |-> {}, kept |-> {}]
    /\ derivations = 0
    /\ ended = FALSE

Derive(g, p) ==
  /\ guard' = g
  /\ promise' = p
  /\ UNCHANGED ended

DoExtend(shape) ==
  Derive(Extend(guard, shape), [promise EXCEPT !.fields = FieldsOf(shape) @@ @])

DoMerge(other) ==
  LET theirs == OtherPromise(other) IN
  Derive(Merge(guard, other),
         [promise EXCEPT !.fields = theirs.fields @@ @, !.kept = @ \cup theirs.kept,
                         !.others = IF theirs.others # {} THEN theirs.others ELSE @])

DoPick(keys) ==
  CanSelect(guard, keys) /\ Derive(Pick(guard, keys), [promise EXCEPT !.fields = Restrict(@, ToSet(keys))])

DoOmit(keys) ==
  /\ CanSelect(guard, keys)
  /\ Derive(Omit(guard, keys),
            [promise EXCEPT !.fields = Restrict(@, DOMAIN @ \ ToSet(keys))])

\* The fields of the keys, made omittable or not.
WithOmittable(fields, keys, b) ==
  [k \in DOMAIN fields |-> IF k \in keys THEN [fields[k] EXCEPT !.omittable = b] ELSE fields[k]]

DoPartial(keys) ==
  CanSelect(guard, keys) /\ Derive(Partial(guard, keys),
                                   [promise EXCEPT !.fields = WithOmittable(@, ToSet(keys), TRUE)])

DoRequired(keys) ==
  CanSelect(guard, keys) /\ Derive(Required(guard, keys),
                                   [promise EXCEPT !.fields = WithOmittable(@, ToSet(keys), FALSE)])

DoDeepPartial ==
  Derive(DeepPartial(guard),
         [promise EXCEPT !.fields =
            [k \in DOMAIN @ |-> [@[k] EXCEPT !.omittable = TRUE, !.deep = TRUE]]])

DoMode(mode) == Derive(WithMode(guard, mode), [promise EXCEPT !.mode = mode])
DoCatchall(s) == Derive(Catchall(guard, s), [promise EXCEPT !.others = {s}])
DoRefine(name) == Derive(Refined(guard, name), [promise EXCEPT !.kept = @ \cup {name}])
DoDescribe == Derive(Described(guard), promise)

\* A key rule ends the derivation.
DoKeyRule(keys, rule) ==
  /\ CanSelect(guard, keys)
  /\ ended' = TRUE
  /\ guard' = guard @@ [rule |-> rule] @@ [closed |-> KeyedObjectGuard(guard, keys, rule).schema]
  /\ promise' = promise @@ [keys |-> keys]

\* So does a count of the properties, or a schema of their names.
DoConstrain(closed, rule) ==
  /\ CanConstrain(guard.schema)
  /\ ended' = TRUE
  /\ guard' = guard @@ [rule |-> rule] @@ [closed |-> closed]
  /\ promise' = promise @@ [keys |-> <<>>]

\* A discriminated union of the guard and another case ends it too.
DoDispatch(case, named) ==
  LET schemas == <<guard.schema, case.schema>>
      literals == <<Text("s"), case.literal>>
      built == IF named
               THEN NamedCases("a", [i \in 1..2 |-> [literal |-> literals[i], schema |-> schemas[i]]])
               ELSE DiscriminatedUnionFromArray("a", schemas)
  IN  /\ named => literals[1] # literals[2] /\ literals[2].is = "text"
      /\ built # {}
      /\ ended' = TRUE
      /\ guard' = guard @@ [cases |-> schemas, union |-> CHOOSE s \in built : TRUE]
      /\ UNCHANGED promise

Derivation ==
  \/ \E shape \in Extensions : DoExtend(shape)
  \/ \E other \in Others : DoMerge(other)
  \/ \E keys \in Selections : DoPick(keys)
  \/ \E keys \in Selections : DoOmit(keys)
  \/ \E keys \in Selections \cup {AllKeys(guard)} : DoPartial(keys)
  \/ \E keys \in Selections \cup {AllKeys(guard)} : DoRequired(keys)
  \/ DoDeepPartial
  \/ \E mode \in {"strict", "passthrough", "strip"} : DoMode(mode)
  \/ \E s \in {AnyNumber, AnyString} : DoCatchall(s)
  \/ \E name \in Predicates : DoRefine(name)
  \/ DoDescribe
  \/ \E keys \in Selections, rule \in {"atLeastOne", "exactlyOne"} : DoKeyRule(keys, rule)
  \/ DoConstrain(PropertyCountObject(guard, 1, 2).schema, "oneOrTwo")
  \/ DoConstrain(PropertyNamesObject(guard, Options("Union", <<Literal(Text("a")), Literal(Text("b"))>>)).schema, "named")
  \/ \E case \in Cases, named \in BOOLEAN : DoDispatch(case, named)

DeriveGuard ==
  /\ ~ended
  /\ derivations < MaxDerivations
  /\ derivations' = derivations + 1
  /\ Derivation

-----------------------------------------------------------------------------
Init ==
  \/ InitDocuments /\ guard = NoGuard /\ promise = <<>> /\ derivations = 0 /\ ended = TRUE
  \/ /\ InitGuards
     /\ stage = "none" /\ contract = Unknown /\ doc = Open /\ option = <<>>
     /\ schema = Unknown /\ table = <<>>

Next ==
  \/ OnDocuments /\ (Export \/ Import) /\ UNCHANGED guardVars
  \/ OnGuards /\ DeriveGuard /\ UNCHANGED documentVars

Spec == Init /\ [][Next]_<<documentVars, guardVars>>

-----------------------------------------------------------------------------
KeyRuleHolds(v) ==
  Has(guard, "closed") =>
           LET present == {i \in DOMAIN promise.keys : promise.keys[i] \in DOMAIN v.fields} IN
           CASE guard.rule = "atLeastOne" -> present # {}
             [] guard.rule = "exactlyOne" -> Cardinality(present) = 1
             [] guard.rule = "oneOrTwo" -> Cardinality(DOMAIN v.fields) \in 1..2
             [] guard.rule = "named" -> DOMAIN v.fields \subseteq {"a", "b"}

Differing(s, p) ==
  {v \in Instances : Accepts(s, v, Lazies, {}) # (PromiseHolds(p, v) /\ KeyRuleHolds(v))}

Misread(object, again) ==
  {v \in Instances : Accepts(object, v, Lazies, {}) # Accepts(again, v, Lazies, {})}

\* However a guard was derived, it accepts what the derivations promise: no
\* refinement, key or mode of an ancestor is lost or kept by mistake.  And a
\* discriminated union accepts what the plain union of its cases would: the
\* dispatch on one literal never skips a case that would have accepted.
GuardMeansItsHistory ==
  OnGuards =>
    /\ Differing(IF Has(guard, "closed") THEN guard.closed ELSE guard.schema, promise) = {}
    /\ Has(guard, "union") => Misread(guard.union, Options("Union", guard.cases)) = {}
=============================================================================
