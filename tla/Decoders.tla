------------------------------ MODULE Decoders ------------------------------
(***************************************************************************)
(* Decoders and codecs (src/decoder/index.ts): what decode() and encode()  *)
(* of a constructed decoder return for a value.                            *)
(*                                                                         *)
(* A decoder is a tree of the combinators that built it; a lazy decoder    *)
(* names the decoder its resolver returns.  A value is a tree; ref tells   *)
(* objects of the caller from those a run allocates, which are Fresh.      *)
(* Scalars are names: what a guard, a mapping or a predicate does with     *)
(* them is given by sets and functions of names.                           *)
(***************************************************************************)
EXTENDS Naturals, Sequences, FiniteSets
LOCAL INSTANCE SequencesExt
LOCAL INSTANCE FiniteSetsExt

CONSTANTS
  KeyOrder,   \* the property names, in the order own keys are listed
  Lazies,     \* what the resolver of each lazy decoder returns
  Never,      \* a mapping gave TransformNever, or reported an issue
  Fresh, Raw  \* ref of an object a run allocated, of a value without identity

ASSUME DecodersAssumption == Fresh # Raw /\ IsInjective(KeyOrder)

-----------------------------------------------------------------------------
(* Values                                                                   *)

NoOwn == [k \in {} |-> k]
Atom(name) == [kind |-> "atom", name |-> name, own |-> NoOwn, hidden |-> {},
               items |-> <<>>, ref |-> Raw]
Undefined == Atom("undefined")
Null == Atom("null")
Hole == [Atom("hole") EXCEPT !.kind = "hole"]
AccessorOf(getter) == [Atom(getter) EXCEPT !.kind = "accessor"]
Compound(kind, ref) == [Atom("") EXCEPT !.kind = kind, !.ref = ref]
ArrayOf(items, ref) == [Compound("array", ref) EXCEPT !.items = items]
SetOf(items, ref) == [Compound("set", ref) EXCEPT !.items = items]
MapOf(pairs, ref) == [Compound("map", ref) EXCEPT !.items = pairs]
Pair(key, value) == [Compound("pair", Raw) EXCEPT !.items = <<key, value>>]
RecordOf(own, ref) == [Compound("record", ref) EXCEPT !.own = own]

IsRecord(v) == v.kind \in {"record", "map", "set"}
IsData(v) == v.kind # "accessor"
Read(v) == IF v.kind = "hole" THEN Undefined ELSE v
OwnKeys(v) == SelectSeq(KeyOrder, LAMBDA k : k \in DOMAIN v.own)
ListedKeys(v) == SelectSeq(OwnKeys(v), LAMBDA k : k \notin v.hidden)

\* Object.is, and equality of map keys and set members.
Identical(a, b) == a.ref # Fresh /\ a = b

-----------------------------------------------------------------------------
(* Results: an issue is its path                                            *)

Good(v) == [ok |-> TRUE, value |-> v, issues |-> <<>>]
Bad(issues) == [ok |-> FALSE, value |-> Undefined, issues |-> issues]
Here == << <<>> >>
Verdict(accepted, v) == IF accepted THEN Good(v) ELSE Bad(Here)

Prop(k) == <<"key", k>>
Nth(i) == <<"index", i>>
Under(prefix, issues) == [j \in DOMAIN issues |-> prefix \o issues[j]]

-----------------------------------------------------------------------------
(* Leaves: guards, mappings, predicates                                     *)

Accepts(guard, v) == IF v.kind = "atom" THEN v.name \in guard.names ELSE v.kind \in guard.kinds
Mapped(map, v) == IF v.name \in DOMAIN map THEN Atom(map[v.name]) ELSE v

\* A refinement looks at one property of an object, or at the whole scalar.
Subject(p, v) ==
  IF v.kind # "record" THEN v.name
  ELSE IF p.on \in DOMAIN v.own THEN v.own[p.on].name ELSE "undefined"
Meets(p, v) == Subject(p, v) \in p.when => Subject(p, v) \in p.accepts

RECURSIVE PostRun(_, _)
PostRun(predicates, result) ==
  IF ~result.ok \/ predicates = <<>> THEN result
  ELSE PostRun(Tail(predicates),
               IF Meets(Head(predicates), result.value) THEN result ELSE Bad(Here))

-----------------------------------------------------------------------------
(* Which sources have an encode runner                                      *)

RECURSIVE Encodable(_)
Encodable(d) ==
  CASE d.kind \in {"guard", "codec", "invert"} -> TRUE
    [] d.kind \in {"array", "set", "record"} -> Encodable(d.of)
    [] d.kind \in {"tuple", "union"} -> \A i \in DOMAIN d.of : Encodable(d.of[i])
    [] d.kind \in {"rest", "map", "both"} -> Encodable(d.left) /\ Encodable(d.right)
    [] d.kind = "object" -> d.class = "codec"
    [] OTHER -> FALSE

-----------------------------------------------------------------------------
(* Containers: the cells a run visits, in order.  A cell runs a child on an *)
(* input, copies its input, or reports an issue at its place.               *)

Cell(does, at, child, input) ==
  [does |-> does, at |-> at, child |-> child, input |-> input, key |-> at[1][2], absent |-> FALSE]
RunCell(at, child, input) == Cell("run", at, child, input)
CopyCell(k, input) == Cell("copy", <<Prop(k)>>, Lazies, input)
IssueCell(at) == Cell("issue", at, Lazies, Undefined)

IndexedCell(v, i, child) ==
  IF IsData(v.items[i]) THEN RunCell(<<Nth(i - 1)>>, child, Read(v.items[i]))
  ELSE IssueCell(<<Nth(i - 1)>>)
ArrayCells(of, v) == [i \in DOMAIN v.items |-> IndexedCell(v, i, of)]
TupleCells(of, v) == [i \in DOMAIN of |-> IndexedCell(v, i, of[i])]
RestCells(tuple, rest, v) ==
  [i \in DOMAIN v.items |->
     IndexedCell(v, i, IF i <= Len(tuple.of) THEN tuple.of[i] ELSE rest)]
SetCells(of, v) == [i \in DOMAIN v.items |-> RunCell(<<Nth(i - 1)>>, of, v.items[i])]
MapCells(d, v) ==
  FlattenSeq([i \in DOMAIN v.items |->
    <<RunCell(<<Nth(i - 1), Prop("key")>>, d.left, v.items[i].items[1]),
      RunCell(<<Nth(i - 1), Prop("value")>>, d.right, v.items[i].items[2])>>])

RecordCell(d, v, k) ==
  IF k \in d.keys
  THEN IF IsData(v.own[k]) THEN <<RunCell(<<Prop(k)>>, d.of, v.own[k])>>
                           ELSE <<IssueCell(<<Prop(k)>>)>>
  ELSE IF ~d.loose THEN <<IssueCell(<<Prop(k)>>)>>
  ELSE IF IsData(v.own[k]) THEN <<CopyCell(k, v.own[k])>> ELSE <<>>
MissingCells(d, v) ==
  LET missing == SelectSeq(d.required, LAMBDA k : k \notin DOMAIN v.own \ v.hidden)
  IN  [i \in DOMAIN missing |-> IssueCell(<<Prop(missing[i])>>)]
RecordCells(d, v) ==
  LET keys == ListedKeys(v)
  IN  FlattenSeq([i \in DOMAIN keys |-> RecordCell(d, v, keys[i])]) \o MissingCells(d, v)

Declared(d) == {d.fields[i].key : i \in DOMAIN d.fields}
FieldCell(v, f) ==
  IF f.key \notin DOMAIN v.own
  THEN [RunCell(<<Prop(f.key)>>, f.of, Undefined) EXCEPT !.absent = TRUE]
  ELSE IF IsData(v.own[f.key]) THEN RunCell(<<Prop(f.key)>>, f.of, v.own[f.key])
  ELSE IssueCell(<<Prop(f.key)>>)
ExtraCells(d, v) ==
  LET extras == SelectSeq(OwnKeys(v), LAMBDA k : k \notin Declared(d))
  IN  CASE d.mode = "strict" -> [i \in DOMAIN extras |-> IssueCell(<<Prop(extras[i])>>)]
        [] d.mode = "passthrough" ->
             LET data == SelectSeq(extras, LAMBDA k : IsData(v.own[k]))
             IN  [i \in DOMAIN data |-> CopyCell(data[i], v.own[data[i]])]
        [] d.mode = "strip" -> <<>>
ObjectCells(d, v) ==
  [i \in DOMAIN d.fields |-> FieldCell(v, d.fields[i])] \o ExtraCells(d, v)

\* The checks before any child runs.
RightShape(d, v) ==
  CASE d.kind = "array" -> v.kind = "array"
    [] d.kind = "tuple" -> v.kind = "array" /\ Len(v.items) = Len(d.of)
    [] d.kind = "rest" -> v.kind = "array" /\ Len(v.items) >= Len(d.left.of)
    [] d.kind \in {"map", "set"} -> v.kind = d.kind
    [] d.kind \in {"record", "object"} -> IsRecord(v)
Cells(d, v) ==
  CASE d.kind = "array" -> ArrayCells(d.of, v)
    [] d.kind = "tuple" -> TupleCells(d.of, v)
    [] d.kind = "rest" -> RestCells(d.left, d.right, v)
    [] d.kind = "set" -> SetCells(d.of, v)
    [] d.kind = "map" -> MapCells(d, v)
    [] d.kind = "record" -> RecordCells(d, v)
    [] d.kind = "object" -> ObjectCells(d, v)

-----------------------------------------------------------------------------
(* The value a container run allocates from what its cells returned         *)

RECURSIVE AddedAll(_, _)
AddedAll(members, values) ==
  IF values = <<>> THEN members
  ELSE AddedAll(IF \E i \in DOMAIN members : Identical(members[i], Head(values))
                THEN members ELSE Append(members, Head(values)), Tail(values))

RECURSIVE PutAll(_, _)
PutAll(pairs, values) ==
  IF values = <<>> THEN pairs
  ELSE LET old == {i \in DOMAIN pairs : Identical(pairs[i].items[1], values[1])}
           new == Pair(values[1], values[2])
       IN  PutAll(IF old = {} THEN Append(pairs, new)
                  ELSE [pairs EXCEPT ![CHOOSE i \in old : TRUE] = Pair(@.items[1], values[2])],
                  SubSeq(values, 3, Len(values)))

Values(results) == [i \in DOMAIN results |-> results[i].value]
\* An absent field stays absent unless its child made a value for it.
Kept(cells, results) ==
  {i \in DOMAIN cells : ~cells[i].absent \/ results[i].value # Undefined}
KeyedBy(cells, results, kept) ==
  [k \in {cells[i].key : i \in kept} |->
     results[CHOOSE i \in kept : cells[i].key = k].value]
Copied(cells, v) == {cells[i].key : i \in {j \in DOMAIN cells : cells[j].does = "copy"}}
                      \cap v.hidden
Built(d, v, cells, results) ==
  CASE d.kind \in {"array", "tuple", "rest"} -> ArrayOf(Values(results), Fresh)
    [] d.kind = "set" -> SetOf(AddedAll(<<>>, Values(results)), Fresh)
    [] d.kind = "map" -> MapOf(PutAll(<<>>, Values(results)), Fresh)
    [] d.kind \in {"record", "object"} ->
         [RecordOf(KeyedBy(cells, results, Kept(cells, results)), Fresh)
            EXCEPT !.hidden = Copied(cells, v)]

Collected(d, v, cells, results) ==
  LET issues == FlattenSeq([i \in DOMAIN cells |-> Under(cells[i].at, results[i].issues)])
  IN  IF issues # <<>> THEN Bad(issues) ELSE Good(Built(d, v, cells, results))

-----------------------------------------------------------------------------
(* Intersections merge what their two sides returned                        *)

NoMerge == [ok |-> FALSE, value |-> Undefined, issues |-> Here]

RECURSIVE Merge(_, _)
Has(side, k) == k \in DOMAIN side /\ side[k].kind # "hole"
MergeSlot(l, r, k) ==
  IF Has(l, k) /\ Has(r, k) THEN Merge(l[k], r[k])
  ELSE Good(IF Has(l, k) THEN l[k] ELSE r[k])
Merge(l, r) ==
  CASE Identical(l, r) -> Good(l)
    [] ~Identical(l, r) /\ l.kind = "array" /\ r.kind = "array"
                        /\ Len(l.items) = Len(r.items) ->
         LET m == [i \in DOMAIN l.items |-> MergeSlot(l.items, r.items, i)]
         IN  IF \A i \in DOMAIN m : m[i].ok THEN Good(ArrayOf(Values(m), Fresh)) ELSE NoMerge
    [] ~Identical(l, r) /\ l.kind = "record" /\ r.kind = "record" ->
         LET m == [k \in DOMAIN l.own \cup DOMAIN r.own |-> MergeSlot(l.own, r.own, k)]
         IN  IF \A k \in DOMAIN m : m[k].ok
             THEN Good([RecordOf([k \in DOMAIN m |-> m[k].value], Fresh) EXCEPT
                          !.hidden = r.hidden \cup (l.hidden \ DOMAIN r.own)])
             ELSE NoMerge
    [] OTHER -> NoMerge

-----------------------------------------------------------------------------
(* The runners                                                              *)

RECURSIVE Run(_, _, _)
Outcome(cell, encoding) ==
  CASE cell.does = "run" -> Run(cell.child, cell.input, encoding)
    [] cell.does = "copy" -> Good(cell.input)
    [] cell.does = "issue" -> Bad(Here)

RunContainer(d, v, encoding) ==
  IF ~RightShape(d, v) THEN Bad(Here)
  ELSE LET cells == Cells(d, v)
       IN  Collected(d, v, cells, [i \in DOMAIN cells |-> Outcome(cells[i], encoding)])

\* The run of next on what result decoded, mapped.
Chain(result, next, map, encoding) ==
  IF result.ok THEN Run(next, Mapped(map, result.value), encoding) ELSE result

FirstAccepted(results) ==
  LET accepted == {i \in DOMAIN results : results[i].ok}
  IN  IF accepted # {} THEN results[Min(accepted)]
      ELSE Bad(FlattenSeq([i \in DOMAIN results |-> results[i].issues]))

MergeRuns(left, right) ==
  IF ~left.ok THEN left ELSE IF ~right.ok THEN right ELSE Merge(left.value, right.value)

RunCodecSameWay(d, v, encoding) ==
  IF encoding THEN Chain(Run(d.input, v, FALSE), d.output, d.encode, FALSE)
              ELSE Chain(Run(d.input, v, FALSE), d.output, d.decode, FALSE)
\* A codec runs its input decoder, maps, and runs its output decoder; to encode,
\* the other way round: both sides run their decode.
RunCodec(d, v, encoding) ==
  IF encoding THEN Chain(Run(d.output, v, FALSE), d.input, d.encode, FALSE)
              ELSE Chain(Run(d.input, v, FALSE), d.output, d.decode, FALSE)

RunTransform(d, result) ==
  IF ~result.ok THEN result
  ELSE IF Mapped(d.map, result.value).name = Never THEN Bad(Here)
  ELSE Good(Mapped(d.map, result.value))

WithinLength(d, result) ==
  IF result.ok /\ Len(result.value.items) \notin d.lengths THEN Bad(Here) ELSE result

RunOneWay(d, v) ==
  CASE d.kind = "transform" -> RunTransform(d, Run(d.of, v, FALSE))
    [] d.kind = "refine" -> PostRun(<<d.predicate>>, Run(d.of, v, FALSE))
    [] d.kind = "pipe" -> Chain(Run(d.left, v, FALSE), d.right, NoOwn, FALSE)
    [] d.kind = "preprocess" -> Run(d.of, Mapped(d.map, v), FALSE)
    [] d.kind = "optional" -> IF v = Undefined THEN Good(v) ELSE Run(d.of, v, FALSE)
    [] d.kind = "nullable" -> IF v = Null THEN Good(v) ELSE Run(d.of, v, FALSE)
    [] d.kind = "default" -> IF v = Undefined THEN Good(d.fallback) ELSE Run(d.of, v, FALSE)
    [] d.kind = "prefault" -> Run(d.of, IF v = Undefined THEN d.fallback ELSE v, FALSE)
    [] d.kind = "catch" ->
         LET decoded == Run(d.of, v, FALSE)
         IN  IF decoded.ok THEN decoded ELSE Good(d.fallback)
    [] d.kind = "length" -> WithinLength(d, Run(d.of, v, FALSE))
    [] d.kind = "lazy" -> Run(Lazies[d.name], v, FALSE)

Run(d, v, encoding) ==
  CASE d.kind = "guard" -> Verdict(Accepts(d, v), v)
    [] d.kind = "codec" -> RunCodec(d, v, encoding)
    [] d.kind = "invert" -> Run(d.of, v, ~encoding)
    [] d.kind \in {"array", "tuple", "rest", "set", "map", "record"} ->
         RunContainer(d, v, encoding)
    [] d.kind = "object" -> PostRun(d.post, RunContainer(d, v, encoding))
    [] d.kind = "union" -> FirstAccepted([i \in DOMAIN d.of |-> Run(d.of[i], v, encoding)])
    [] d.kind = "both" -> MergeRuns(Run(d.left, v, encoding), Run(d.right, v, encoding))
    [] OTHER -> RunOneWay(d, v)

Decode(d, v) == Run(d, v, FALSE)
Encode(d, v) == Run(d, v, TRUE)
=============================================================================
