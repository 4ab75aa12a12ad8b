----------------------------- MODULE MCServices -----------------------------
(***************************************************************************)
(* Scalar guards and the process-wide tables for TLC.  The topic of a      *)
(* behaviour never changes: one kind of scalar guard, which is built a     *)
(* method at a time and answers values through every engine in any order,  *)
(* or one of the tables.                                                   *)
(***************************************************************************)
EXTENDS ScalarGuards, Stores

CONSTANTS MaxChecks   \* bound on the checks of a guard

VARIABLES
  topic,
  guard,     \* [type, checks, stages, heard]: a guard, and the decoder made by the
             \* same calls, whose checks since its last mapping the guard has
  last,      \* the lastIndex of every stateful expression
  answer     \* the call just made, if any

scalarVars == <<guard, last, answer>>
mcVars == <<topic, guard, last, answer, storesVars>>

ScalarTypes == {"string", "number", "bigint", "date", "file"}
Topics == ScalarTypes \cup {"registry", "cache", "warnings"}

-----------------------------------------------------------------------------
(* The instance                                                            *)

\* /a/g finds an "a" from its start on, /a/y only at it, /^a/ has no state.
MCStateful == {"global", "sticky"}
Ends(first, second, third) == [i \in 0..2 |-> IF i = 0 THEN first ELSE IF i = 1 THEN second ELSE third]
\* Of the texts SeaFlow makes up, samples and runs start with "aa", the security
\* text has its "a" second and the bad format none.
MCMatchEnd ==
  [global |-> [empty |-> Ends(-1, -1, -1), a |-> Ends(1, -1, -1), ba |-> Ends(2, 2, -1), aa |-> Ends(1, 2, -1),
              sample |-> Ends(1, 2, -1), run |-> Ends(1, 2, -1),
              security |-> Ends(2, 2, -1), misspelled |-> Ends(-1, -1, -1)],
   sticky |-> [empty |-> Ends(-1, -1, -1), a |-> Ends(1, -1, -1), ba |-> Ends(-1, 2, -1), aa |-> Ends(1, 2, -1),
              sample |-> Ends(1, 2, -1), run |-> Ends(1, 2, -1),
              security |-> Ends(-1, 2, -1), misspelled |-> Ends(-1, -1, -1)],
   plain  |-> [empty |-> Ends(-1, -1, -1), a |-> Ends(1, -1, -1), ba |-> Ends(-1, -1, -1), aa |-> Ends(1, -1, -1),
              sample |-> Ends(1, -1, -1), run |-> Ends(1, -1, -1),
              security |-> Ends(-1, -1, -1), misspelled |-> Ends(-1, -1, -1)]]
MCSpelled ==
  [uuid |-> {"aa"}, xid |-> {"ba"}, isoDate |-> {"a", "aa"}, isoDateTime |-> {"ba"}, ulid |-> {"ba", "aa"}]
MCRanges ==
  [int32 |-> <<-4, 4>>, uint32 |-> <<0, 6>>, safe |-> <<-6, 6>>, float32 |-> <<-5, 5>>,
   float64 |-> <<-6, 6>>, int64 |-> <<-3, 3>>, uint64 |-> <<0, 4>>]
MCFormatNamed == [global |-> "none", sticky |-> "uuid", plain |-> "hex"]
MCBaseLength == [uuid |-> 2, xid |-> 2, isoDate |-> 1, isoDateTime |-> 2, ulid |-> 2]

Word(text, n) == [type |-> "string", text |-> text, n |-> n, finite |-> TRUE]
MCSeeds == <<Word("empty", 0), Word("a", 1)>>
MCMapped ==
  [trim |-> [empty |-> Word("empty", 0), a |-> Word("a", 1), ba |-> Word("a", 1), aa |-> Word("aa", 2)]]
Image == [top |-> "image", sub |-> "png"]
Mimes == {Image, [top |-> "image", sub |-> "svg"], [top |-> "text", sub |-> "html"]}

ValuesIn(type) ==
  CASE type = "string" -> {Word("empty", 0), Word("a", 1), Word("ba", 2), Word("aa", 2)}
    [] type = "file" -> [type : {"file"}, n : 0..2, mime : Mimes, finite : {TRUE}]
    [] OTHER -> {Typed(type, n) : n \in -3..4}
                  \cup {[Typed(type, 0) EXCEPT !.finite = FALSE] : x \in {type} \ {"bigint"}}
\* What SeaFlow's samples and boundaries are judged against.
Wide(type) ==
  CASE type = "string" -> {Text(n) : n \in 0..4}
    [] type = "file" -> ValuesIn("file")
    [] OTHER -> {Typed(type, n) : n \in -14..14}

Op(method, value, pattern) == [method |-> method, value |-> value, pattern |-> pattern]
Plainly(methods) == {Op(m, 0, "none") : m \in methods}
OpsOf(type) ==
  CASE type = "string" ->
         {Op("min", 2, "none"), Op("min", -1, "none"), Op("max", 1, "none"), Op("length", 2, "none"),
          Op("nonempty", 0, "none"), Op("uuid", 0, "none"), Op("uuid", 0, "plain"),
          Op("xid", 0, "none"), Op("mac", 0, "plain"), Op("isoDate", 0, "none"), Op("isoTime", 0, "plain"),
          Op("isoDateTime", 0, "plain"), Op("ulid", 0, "none"), Op("hash", 0, "plain"), Op("hex", 0, "plain"), Op("includes", 0, "plain")}
           \cup {Op("regex", 0, r) : r \in {"global", "sticky"}}
    [] type = "number" ->
         Plainly({"int", "int32", "uint32", "float32", "float64", "safe", "finite"} \cup Signs)
           \cup {Op(m, n, "none") : m \in {"gte", "max", "gt", "lt"}, n \in {-2, 2, 3}}
           \cup {Op("multipleOf", n, "none") : n \in {0, 2, 4, 3}}
    [] type = "bigint" ->
         Plainly({"int64", "uint64"} \cup Signs)
           \cup {Op(m, n, "none") : m \in {"min", "lte", "gt", "lt"}, n \in {-2, 2}}
           \cup {Op("step", n, "none") : n \in {0, 2, 3, -2}}
    [] type = "date" -> {Op(m, n, "none") : m \in {"min", "max"}, n \in -2..3}
    [] type = "file" ->
         {Op(m, n, "none") : m \in {"min", "max"}, n \in -1..2}
           \cup {Op("mime", p, "none") :
                   p \in {<<>>, <<Image>>, <<Image, Image>>, <<[top |-> "image", sub |-> "*"]>>,
                          <<Image, [top |-> "text", sub |-> "html"]>>}}

MCNames == {<<"isUser">>}
MCNamePrefixes == {<<>>, <<"boot_">>}

-----------------------------------------------------------------------------
(* The engines, as one answer: [ok] or [issues]                            *)

Says(ok, after) == [ok |-> ok, last |-> after]
Reports(issues, after) == [issues |-> issues, last |-> after]

AsyncAnswer(g, v) ==
  CASE g.type = "string" -> AsyncString(g.checks, v, last)
    [] g.type = "number" -> Says(AsyncNumber(g.checks, v), last)
    [] g.type = "bigint" -> Says(AsyncBigInt(g.checks, v), last)
    [] g.type = "date" -> Says(AsyncDate(g.checks, v), last)
    [] g.type = "file" -> Says(AsyncFile(g.checks, v), last)
CompiledAnswer(g, v, depth) ==
  CASE depth = 1 -> EmitLeafCheckAtSegment(g, v, <<>>, "k", last)
    [] depth = 2 -> EmitLeafCheckAtTwoSegments(g, v, <<>>, "j", "k", last)
    [] g.type = "string" -> EmitStringCheck(g.checks, v, <<>>, last)
    [] g.type = "number" -> Reports(EmitNumberCheck(g.checks, v, <<>>), last)
    [] g.type = "bigint" -> Reports(EmitBigIntCheck(g.checks, v, <<>>), last)
    [] OTHER -> OutOfLine(g, v, <<>>, last)
FirstAnswer(g, v) ==
  CASE g.type = "string" -> EmitStringFirst(g.checks, v, <<>>, last)
    [] g.type = "number" -> Reports(EmitNumberFirst(g.checks, v, <<>>), last)
    [] g.type = "bigint" -> Reports(EmitBigIntFirst(g.checks, v, <<>>), last)
    [] g.type = "date" -> Reports(EmitDateFirst(g.checks, v, <<>>), last)
    [] g.type = "file" -> Reports(First(CollectFile(g.checks, v, <<>>, last).issues), last)

PathAt(depth) == CASE depth = 0 -> <<>> [] depth = 1 -> <<"k">> [] depth = 2 -> <<"j", "k">>

-----------------------------------------------------------------------------
(* Actions                                                                 *)

Calling == topic \in ScalarTypes /\ UNCHANGED <<topic, storesVars>>

\* A method call; the constructor validates the new list.
Build(op) ==
  /\ Calling /\ Len(guard.checks) < MaxChecks /\ Len(guard.stages) <= MaxChecks
  /\ Takes(guard.type, op) /\ IsCheckList(Call(guard, op))
  /\ guard' = [Call(guard, op) EXCEPT
                 !.stages = IF guard.type = "file" THEN @ ELSE Append(@, CoerceStage(guard.type, op)),
                 !.heard = @ /\ (op.method \in Deaf => op.pattern = "none")]
  /\ answer' = {} /\ UNCHANGED last

\* A mapping after the decoder's calls, or after the guard's.
Map(stages) ==
  /\ Calling /\ guard.type = "string" /\ Len(guard.stages) <= MaxChecks
  /\ guard' = [guard EXCEPT !.stages = stages, !.checks = <<>>, !.heard = TRUE]
  /\ answer' = {} /\ UNCHANGED last
Transform(name) ==
  \/ Map(Append(guard.stages, Mapping(name)))
  \/ Len(guard.checks) < MaxChecks /\ Map(TransformStringGuard(guard.checks, name))

Values == ValuesIn(guard.type) \cup {Stranger}
Ask(kind, v, depth, limit, said) ==
  /\ last' = said.last
  /\ answer' = {[kind |-> kind, value |-> v, depth |-> depth, limit |-> limit, said |-> said]}
  /\ UNCHANGED guard

IsValue(v) == Calling /\ Ask("kernel", v, 0, 0, IsScalar(guard, v, last))
IsAsync(v) == Calling /\ Ask("async", v, 0, 0, AsyncAnswer(guard, v))
IsCompiled(v, order) ==
  /\ Calling /\ guard.type = "string"
  /\ Ask("compiled", v, 0, 0, CompiledString(guard.checks, order, v, last))
Check(v, limit) == Calling /\ Ask("collector", v, 0, limit, CollectScalar(guard, v, <<>>, last, limit))
CheckCompiled(v, depth) ==
  Calling /\ Ask("compiledCheck", v, depth, Unlimited, CompiledAnswer(guard, v, depth))
Decode(v) ==
  Calling /\ guard.type # "file" /\ Ask("decode", v, 0, Unlimited, ChainedDecode(guard.stages, v, last))
CheckFirst(v) == Calling /\ Ask("first", v, 0, 1, FirstAnswer(guard, v))

\* SeaFlow draws its sample, labels a text and reconciles the label.
SeaFlow(v) ==
  /\ Calling /\ guard.type = "string"
  /\ LET drawn == SampleString(guard.checks, last)
         labelled == MatchesStringChecks(v, guard.checks, drawn.last)
     IN last' = IsScalar(guard, v, labelled.last).last
  /\ answer' = {} /\ UNCHANGED guard

\* A client tests an expression of guard.schema.
ClientTest(check, v) ==
  /\ Calling /\ guard.type = "string" /\ check.is = "regex"
  /\ last' = RegexTest(last, check.regex, v).last
  /\ answer' = {} /\ UNCHANGED guard

Orders(checks) == {p \in [DOMAIN checks -> DOMAIN checks] : \A i \in DOMAIN checks : \E j \in DOMAIN checks : p[j] = i}

ScalarNext ==
  \/ \E op \in OpsOf(guard.type) : Build(op)
  \/ \E v \in Values :
       \/ IsValue(v) \/ IsAsync(v)
       \/ \E order \in Orders(guard.checks) : IsCompiled(v, order)
       \/ \E limit \in {1, Unlimited} : Check(v, limit)
       \/ \E depth \in 0..2 : CheckCompiled(v, depth)
       \/ CheckFirst(v) \/ Decode(v)
  \/ \E name \in DOMAIN Mapped : Transform(name)
  \/ \E v \in ValuesIn("string") :
       SeaFlow(v) \/ \E i \in DOMAIN guard.checks : ClientTest(guard.checks[i], v)

Home == CHOOSE c \in Callsites : TRUE
Elsewhere == UNCHANGED <<topic, scalarVars>>
Init ==
  /\ topic \in Topics
  /\ guard = [type |-> IF topic \in ScalarTypes THEN topic ELSE "string", checks |-> <<>>,
            stages |-> Coerced(topic), heard |-> TRUE]
  /\ last = [r \in Stateful |-> 0] /\ answer = {}
  /\ RegistryInit /\ CacheInit /\ WarningInit

Next ==
  \/ ScalarNext
  \/ topic = "registry" /\ RegistryNext /\ Elsewhere /\ UNCHANGED <<cacheVars, warningVars>>
  \/ topic = "cache" /\ CacheStep(Home) /\ Elsewhere /\ UNCHANGED registryVars
  \/ topic = "warnings" /\ WarningNext /\ Elsewhere /\ UNCHANGED registryVars

Spec == Init /\ [][Next]_mcVars

-----------------------------------------------------------------------------
(* Properties                                                              *)

\* What a check list means, whoever asks and whatever was asked before.
CheckMeans(type, check, v) ==
  CASE type = "string" -> IF check.is = "regex" THEN MatchEnd[check.regex][v.text][0] # NoMatch
                          ELSE StringHolds(check, v)
    [] type = "number" -> NumberHolds(check, v.n)
    [] type = "bigint" -> BigIntHolds(check, v.n)
    [] type = "date" -> DateHolds(check, v.n)
    [] type = "file" -> FileHolds(check, v)
Belongs(g, v) == v.type = g.type /\ (g.type \in {"number", "date"} => v.finite)
Means(g, v) == Belongs(g, v) /\ \A i \in DOMAIN g.checks : CheckMeans(g.type, g.checks[i], v)

IssueOf(g, i, path) ==
  Issue(path, IF g.type = "date" THEN DateCode(g.checks[i]) ELSE Code(g.checks[i]))
IssuesMeant(g, v, path) ==
  IF ~Belongs(g, v) THEN <<Issue(path, TypeCode(g.type))>>
  ELSE LET failed == SelectSeq([i \in DOMAIN g.checks |-> i],
                               LAMBDA i : ~CheckMeans(g.type, g.checks[i], v))
       IN [k \in DOMAIN failed |-> IssueOf(g, failed[k], path)]
Upto(s, n) == SubSeq(s, 1, IF Len(s) < n THEN Len(s) ELSE n)
Limited(a) == a.kind = "first" \/ guard.type \in {"string", "number", "bigint"}

\* What a decoder returns meets every check made since its last mapping.
\* Without one it rejects what the guard rejects, for the first reasons.
DecodesAs(said, g, v) ==
  g.heard =>
    /\ said.issues = <<>> => Means(g, said.value)
    /\ (\A i \in DOMAIN g.stages : g.stages[i].kind # "map") =>
         /\ IsPrefix(said.issues, IssuesMeant(g, v, <<>>))
         /\ said.issues = <<>> => said.value = v

\* Every engine answers a scalar as its checks mean it, and every one that
\* reports issues reports the failed checks in their order up to its limit,
\* whatever calls left in the lastIndex of a shared expression; a coercing
\* decoder agrees with the guard that the same method calls build
\* (evaluate/check-scalar.ts, compile/check-scalar.ts, compile/first.ts,
\* plan/schema-predicate.ts, async-validation/index.ts, decoder/index.ts).
ScalarEnginesAgree ==
  \A a \in answer :
    IF a.kind = "decode" THEN DecodesAs(a.said, guard, a.value)
    ELSE IF a.kind \in {"kernel", "async", "compiled"} THEN a.said.ok = Means(guard, a.value)
    ELSE a.said.issues = Upto(IssuesMeant(guard, a.value, PathAt(a.depth)),
                              IF Limited(a) THEN a.limit ELSE Unlimited)

Above(bound, n) == bound = <<>> \/ n >= bound[1]
Below(bound, n) == bound = <<>> \/ n <= bound[1]
\* The getters of a guard hold of whatever it accepts.
Told(g, v) ==
  CASE g.type = "string" ->
         Above(MinLengthOf(g.checks), v.n) /\ Below(MaxLengthOf(g.checks), v.n)
    [] g.type = "number" ->
         /\ Above(ReadNumberMinValue(g.checks), v.n) /\ Below(ReadNumberMaxValue(g.checks), v.n)
         /\ LET format == NumberFormatOf(g.checks) IN
            format # "none" =>
              /\ v.n \in Ranges[format][1]..Ranges[format][2]
              /\ format \in {"int32", "uint32", "safe"} => IsMultiple(v.n, 2)
    [] g.type = "bigint" ->
         Above(BigIntMinValue(g.checks), v.n) /\ Below(BigIntMaxValue(g.checks), v.n)
    [] g.type = "date" -> Above(MinDate(g.checks), v.n) /\ Below(MaxDate(g.checks), v.n)
    [] g.type = "file" -> TRUE

Has(g, kinds) == \E i \in DOMAIN g.checks : g.checks[i].is \in kinds
Count(g, kind) == Cardinality({i \in DOMAIN g.checks : g.checks[i].is = kind})
\* The lists whose samples SeaFlow gets right, and those whose bad texts and
\* boundaries are bad; the README lists the others.
Sampled(g) ==
  CASE g.type = "string" -> ~Has(g, {"format", "regex"})
    [] g.type = "number" ->
         /\ Count(g, "multipleOf") <= 1
         /\ \A i \in DOMAIN g.checks : g.checks[i].is # "integer" => IsMultiple(g.checks[i].value, 2)
         /\ Has(g, {"integer"}) \/ ~Has(g, {"gt", "lt"})
    [] g.type = "bigint" ->
         /\ Count(g, "multipleOf") <= 1
         /\ Has(g, {"multipleOf"}) => ~Has(g, {"lte", "lt"})
         /\ \A i \in DOMAIN g.checks : g.checks[i].is = "multipleOf" => g.checks[i].value > 0
    [] g.type = "date" -> TRUE
    [] g.type = "file" -> ~Has(g, {"mime"})
Labelled(g) ==
  CASE g.type = "string" -> ~Has(g, {"regex"})
    [] g.type = "number" ->
         \A i \in DOMAIN g.checks : g.checks[i].is = "multipleOf" => ~IsMultiple(2, g.checks[i].value)
    [] g.type = "bigint" ->
         \A i \in DOMAIN g.checks : g.checks[i].is = "multipleOf" => g.checks[i].value \notin {-1, 1}
    [] OTHER -> TRUE
Satisfiable(g) == \E v \in Wide(g.type) : Means(g, v)

\* What a guard tells about itself is true: its getters bound what it
\* accepts; a list the methods build passes the validator that the constructors
\* run (schema/validate.ts); the sample SeaFlow draws is accepted when anything
\* is, and what its solver makes up to be rejected is (seaflow/sample.ts,
\* seaflow/scalar.ts); and every case SeaFlow publishes says of its value what the
\* checks say, wherever the solver guessed wrong and whatever a client, the
\* collector or the solver left in the lastIndex of an expression
\* (seaflow/emit.ts:126, docs/api.md:1078).
SelfDescriptionTrue ==
  topic \in ScalarTypes /\ answer = {} =>
    /\ \A v \in ValuesIn(guard.type) : Means(guard, v) => Told(guard, v)
    /\ \A op \in OpsOf(guard.type) : Takes(guard.type, op) => IsCheckList(Call(guard, op))
    /\ Sampled(guard) /\ Satisfiable(guard) => Means(guard, SampleValidValue(guard, last))
    /\ Labelled(guard) =>
         \A case \in EmitScalarCases(guard, last) :
           ~case.valid /\ case.value # SecurityText => ~Means(guard, case.value)
    /\ \A case \in EmitSchemaCases(guard, last) : case.valid = Means(guard, case.value)
=============================================================================
