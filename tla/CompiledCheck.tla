--------------------------- MODULE CompiledCheck ---------------------------
(***************************************************************************)
(* The diagnostics of compile() (src/compile): besides the predicate, the  *)
(* compiler emits for every schema a function c(v, p, s) that pushes the    *)
(* issues of v, and a function f(v, p) that returns the first one.         *)
(*                                                                         *)
(* The emitted functions share no state: they have neither the recursion   *)
(* guard nor the depth budget of the runtime collector, and hand every     *)
(* schema the emitter does not inline to a check of its own.  Paths are    *)
(* relative to the checked value.                                          *)
(***************************************************************************)
EXTENDS Collector
LOCAL INSTANCE SequencesExt

Under(at, found) == [i \in DOMAIN found |-> [found[i] EXCEPT !.path = at \o @]]

-----------------------------------------------------------------------------
(* What is left to the runtime: d, m and mf, each with a fresh state       *)

Dynamic(n) ==
  \/ n.tag \in {"Map", "Set", "Property", "Xor", "PropertyNames", "PatternProperties",
                "Lazy", "Refine"}
  \/ n.tag = "Tuple" /\ n.rest # NoSchema
  \/ n.tag = "Record" /\ n.key # NoSchema

DynamicCheck(s, v) == Holds(s, v, NewWalk(NoLimit))

\* m appends every issue of that check, mf returns its first.
Taken(found, once) == IF once THEN SubSeq(found, 1, 1) ELSE found
DynamicIssues(s, v, once) ==
  IF DynamicCheck(s, v) THEN <<>>
  ELSE Taken(Explained(s, v, Walk(s, v, NewWalk(NoLimit)).issues), once)

-----------------------------------------------------------------------------
(* The predicate, by what it answers (CompiledGuard has the emitted code), *)
(* and the expression a union tries its options with.  The fast tiers      *)
(* read slots directly and see undefined where there is none; unchecked    *)
(* code drops strict mode as well.                                         *)

Tiers == {"safe", "unsafe", "unchecked"}

Load(slot) == IF slot = Missing THEN Undefined ELSE slot
Presence(e) == IF e.presence = "deferred" THEN e.resolved ELSE e.presence
Lesser(a, b) == IF a < b THEN a ELSE b

FastEntryItem(e, v) ==
  LET slot == Slot(Heap, v, e.key) IN
  IF slot = Missing /\ (Presence(e) = "optional" \/ CanAcceptUndefined[e.schema])
    THEN Check(Presence(e) = "optional") ELSE Call(e.schema, Load(slot))

FastItems(s, v, tier) ==
  LET n == Node[s]
      slots == Heap[v].slots IN
  CASE n.tag = "Array" /\ IsKind("Array", v) ->
         <<Check(Len(slots) \in n.lens)>> \o
         [i \in DOMAIN slots |-> Call(n.item, Load(slots[i]))]
    [] n.tag = "Tuple" /\ IsKind("Tuple", v) ->
         <<Check(Len(slots) = Len(n.items))>> \o
         [i \in 1..Lesser(Len(slots), Len(n.items)) |-> Call(n.items[i], Load(slots[i]))]
    [] n.tag = "Object" /\ IsKind("Object", v) ->
         [i \in DOMAIN n.entries |-> FastEntryItem(n.entries[i], v)] \o
         (IF n.catchall # NoSchema THEN CatchallItems(Heap, n, v)
          ELSE <<Check(n.strict /\ tier = "unsafe" => StrictCheck(Heap, n, v))>>)
    [] OTHER -> Items(Heap, s, v)

RECURSIVE CompiledIs(_, _, _)
CompiledDecide(s, items, tier) ==
  Combined(s, [i \in DOMAIN items |->
    IF items[i].call THEN CompiledIs(items[i].schema, items[i].value, tier) ELSE items[i].ok])
CompiledIs(s, v, tier) ==
  IF Dynamic(Node[s]) \/ Node[s].tag = "PropertyCount" THEN DynamicCheck(s, v)
  ELSE CompiledDecide(s, IF tier = "safe" THEN Items(Heap, s, v) ELSE FastItems(s, v, tier), tier)

RECURSIVE Preflight(_, _, _)
Preflight(s, v, tier) ==
  LET n == Node[s] IN
  CASE n.tag = "Scalar"   -> v \in n.accepts
    [] n.tag = "Optional" -> v = Undefined \/ Preflight(n.inner, v, tier)
    [] n.tag = "Nullable" -> v = Null \/ Preflight(n.inner, v, tier)
    [] n.tag = "Wrap"     -> Preflight(n.inner, v, tier)
    [] n.tag = "Union"    -> \E i \in DOMAIN n.options : Preflight(n.options[i], v, tier)
    [] n.tag = "Intersection" -> Preflight(n.left, v, tier) /\ Preflight(n.right, v, tier)
    [] OTHER -> CompiledIs(s, v, tier)

-----------------------------------------------------------------------------
(* The steps of c, in the order it takes them                              *)

\* A scalar is inlined where the child is checked; for a hole, with undefined
\* in place of the value.
Leaf(s) == Node[s].tag = "Scalar"
Blame(s, v, at) == [Report(at) EXCEPT !.schema = s, !.value = v]
InlineScalar(s, v, at) ==
  LET n == Node[s] IN
  IF v \notin n.typed THEN <<Blame(s, v, at)>>
  ELSE [i \in DOMAIN n.checks |-> IF v \in n.checks[i] THEN Pass ELSE Blame(s, v, at)]
InlineUndefined(s, at) ==
  IF Undefined \in Node[s].typed THEN <<>> ELSE <<Blame(s, Undefined, at)>>

EmittedScalar(s, v) == InlineScalar(s, v, <<>>)

Child(s, v, at) == IF Leaf(s) THEN InlineScalar(s, v, at) ELSE <<Collect(at, s, v)>>
HoleChild(s, at) ==
  IF Leaf(s) THEN InlineUndefined(s, at) ELSE <<Collect(at, s, Undefined)>>
DataChild(s, slot, at) == IF IsData(slot) THEN Child(s, slot, at) ELSE <<Report(at)>>

ArrayLength(n, v) == Require(Len(Heap[v].slots) \in n.lens, <<>>)

EmittedArray(n, v) ==
  LET slots == Heap[v].slots
      item(i) == CASE slots[i] # Missing -> DataChild(n.item, slots[i], <<i>>)
                   [] CanAcceptUndefined[n.item] -> <<>>      \* present keys only
                   [] OTHER -> HoleChild(n.item, <<i>>) IN
  <<ArrayLength(n, v)>> \o FlattenSeq([i \in 1..Len(slots) |-> item(i)])

UnsafeArray(n, v) ==
  <<ArrayLength(n, v)>> \o
  FlattenSeq([i \in DOMAIN Heap[v].slots |-> Child(n.item, Load(Heap[v].slots[i]), <<i>>)])

TupleLength(n, v) == Require(Len(Heap[v].slots) = Len(n.items), <<>>)
Shared(n, v) == 1..Lesser(Len(Heap[v].slots), Len(n.items))

EmittedTuple(n, v) ==
  LET slots == Heap[v].slots
      item(i) == IF slots[i] = Missing THEN HoleChild(n.items[i], <<i>>)
                 ELSE DataChild(n.items[i], slots[i], <<i>>) IN
  <<TupleLength(n, v)>> \o FlattenSeq([i \in Shared(n, v) |-> item(i)])

UnsafeTuple(n, v) ==
  <<TupleLength(n, v)>> \o
  FlattenSeq([i \in Shared(n, v) |-> Child(n.items[i], Load(Heap[v].slots[i]), <<i>>)])

EmittedRecord(n, v) ==
  FlattenSeq([i \in DOMAIN EnumKeys(Heap, v) |->
    LET k == EnumKeys(Heap, v)[i] IN DataChild(n.value, Slot(Heap, v, k), <<k>>)])

UnsafeRecord(n, v) ==
  FlattenSeq([i \in DOMAIN EnumKeys(Heap, v) |->
    LET k == EnumKeys(Heap, v)[i] IN Child(n.value, Slot(Heap, v, k), <<k>>)])

-----------------------------------------------------------------------------
(* The fields of an object: an array, tuple or record of scalars is        *)
(* checked where the object is, the key in front of each of its paths      *)

AtField(s, v, at, steps) ==
  IF ~IsKind(Node[s].tag, v) THEN <<Blame(s, v, at)>>
  ELSE [i \in DOMAIN steps |->
    CASE steps[i].does # "report" -> steps[i]
      [] steps[i].schema = NoSchema -> Blame(s, v, at \o steps[i].at)
      [] OTHER -> [steps[i] EXCEPT !.at = at \o @]]

ArrayAtSegment(s, v, at) == AtField(s, v, at, EmittedArray(Node[s], v))
UnsafeArrayAtSegment(s, v, at) == AtField(s, v, at, UnsafeArray(Node[s], v))
TupleAtSegment(s, v, at) == AtField(s, v, at, EmittedTuple(Node[s], v))
UnsafeTupleAtSegment(s, v, at) == AtField(s, v, at, UnsafeTuple(Node[s], v))
RecordAtSegment(s, v, at) == AtField(s, v, at, EmittedRecord(Node[s], v))
UnsafeRecordAtSegment(s, v, at) == AtField(s, v, at, UnsafeRecord(Node[s], v))

LeavesOnly(n) ==
  CASE n.tag = "Array"  -> Leaf(n.item)
    [] n.tag = "Tuple"  -> n.rest = NoSchema /\ \A i \in DOMAIN n.items : Leaf(n.items[i])
    [] n.tag = "Record" -> n.key = NoSchema /\ Leaf(n.value)
    [] OTHER -> FALSE

CompositeAtSegment(s, v, at, tier) ==
  LET tag == Node[s].tag IN
  CASE tag = "Array"  -> IF tier = "safe" THEN ArrayAtSegment(s, v, at)
                                          ELSE UnsafeArrayAtSegment(s, v, at)
    [] tag = "Tuple"  -> IF tier = "safe" THEN TupleAtSegment(s, v, at)
                                          ELSE UnsafeTupleAtSegment(s, v, at)
    [] tag = "Record" -> IF tier = "safe" THEN RecordAtSegment(s, v, at)
                                          ELSE UnsafeRecordAtSegment(s, v, at)

Field(s, v, at, tier) ==
  IF LeavesOnly(Node[s]) THEN CompositeAtSegment(s, v, at, tier) ELSE Child(s, v, at)

EmittedEntry(e, v) ==
  LET slot == Slot(Heap, v, e.key) IN
  CASE slot = Missing /\ Presence(e) = "optional" -> <<>>
    [] IsData(slot) -> Field(e.schema, slot, <<e.key>>, "safe")
    [] OTHER -> <<Report(<<e.key>>)>>

\* Mutant: the catchall leaves strict mode on.
EmittedExtraStrict(n, v, k) ==
  IF k \in EntryKeys(n) THEN <<>>
  ELSE (IF n.catchall # NoSchema THEN DataChild(n.catchall, Slot(Heap, v, k), <<k>>) ELSE <<>>)
       \o <<Require(~n.strict, <<k>>)>>

EmittedExtra(n, v, k) ==
  CASE k \in EntryKeys(n) -> <<>>
    [] n.catchall # NoSchema ->
         IF IsData(Slot(Heap, v, k)) THEN <<Collect(<<k>>, n.catchall, Slot(Heap, v, k))>>
                                     ELSE <<Report(<<k>>)>>
    [] OTHER -> <<Require(~n.strict, <<k>>)>>

EmittedObject(n, v) ==
  FlattenSeq([i \in DOMAIN n.entries |-> EmittedEntry(n.entries[i], v)]) \o
  FlattenSeq([i \in DOMAIN OwnKeys(Heap, v) |-> EmittedExtra(n, v, OwnKeys(Heap, v)[i])])

\* A required key is looked for only when its schema can accept undefined.
UnsafeEntry(e, v, tier) ==
  LET slot == Slot(Heap, v, e.key) IN
  CASE slot = Missing /\ Presence(e) = "optional" -> <<>>
    [] slot = Missing /\ CanAcceptUndefined[e.schema] -> <<Report(<<e.key>>)>>
    [] OTHER -> Field(e.schema, Load(slot), <<e.key>>, tier)

UnsafeCatchall(n, v) ==
  LET extra == SelectSeq(OwnKeys(Heap, v), LAMBDA k : k \notin EntryKeys(n)) IN
  [i \in DOMAIN extra |-> Collect(<<extra[i]>>, n.catchall, Slot(Heap, v, extra[i]))]

UnsafeStrict(n, v) ==
  LET extra == SelectSeq(EnumKeys(Heap, v), LAMBDA k : k \notin EntryKeys(n)) IN
  [i \in DOMAIN extra |-> Report(<<extra[i]>>)]

UnsafeObject(n, v, tier) ==
  FlattenSeq([i \in DOMAIN n.entries |-> UnsafeEntry(n.entries[i], v, tier)]) \o
  CASE n.catchall # NoSchema -> UnsafeCatchall(n, v)
    [] n.catchall = NoSchema /\ n.strict /\ tier # "unchecked" -> UnsafeStrict(n, v)
    [] OTHER -> <<>>

EmittedDiscriminated(n, v) ==
  LET slot == Slot(Heap, v, n.key)
      hits == {i \in DOMAIN n.cases : n.cases[i].literal = slot} IN
  IF IsData(slot) /\ hits # {}
    THEN <<Collect(<<>>, n.cases[CHOOSE i \in hits : TRUE].schema, v)>>
    ELSE <<Report(<<n.key>>)>>

UnsafeDiscriminated(n, v) ==
  LET hits == {i \in DOMAIN n.cases : n.cases[i].literal = Load(Slot(Heap, v, n.key))} IN
  IF hits = {} THEN <<Report(<<n.key>>)>>
  ELSE <<Collect(<<>>, n.cases[CHOOSE i \in hits : TRUE].schema, v)>>

\* The count of keys is looked at when the inner schema found nothing.
EmittedKeyCount(n, v) ==
  <<Require(IF n.tag = "KeyedObject" THEN KeyRuleHolds(Heap, n, v)
            ELSE Len(EnumKeys(Heap, v)) \in n.counts, <<>>)>>

\* What does not depend on the tier, and is the same in f.
Plainly(n, v, tier) ==
  CASE n.tag = "Union" ->
         <<Require(\E i \in DOMAIN n.options : Preflight(n.options[i], v, tier), <<>>)>>
    [] n.tag = "Intersection" -> <<Collect(<<>>, n.left, v), Collect(<<>>, n.right, v)>>
    [] n.tag \in {"Optional", "Nullable"} ->
         IF v = (IF n.tag = "Optional" THEN Undefined ELSE Null) THEN <<>>
         ELSE <<Collect(<<>>, n.inner, v)>>
    [] n.tag = "Wrap" -> <<Collect(<<>>, n.inner, v)>>
    [] OTHER -> <<Report(<<>>)>>       \* not the kind of value the tag wants

Composite(n, v) == n.tag \in {"Array", "Tuple", "Record", "Object", "Discriminated"} /\ IsKind(n.tag, v)

Emitted(s, v, tier) ==
  LET n == Node[s]
      safe == tier = "safe" IN
  CASE Leaf(s) -> EmittedScalar(s, v)
    [] ~Leaf(s) /\ ~Composite(n, v) -> Plainly(n, v, tier)
    [] OTHER ->
         CASE n.tag = "Array"  -> IF safe THEN EmittedArray(n, v) ELSE UnsafeArray(n, v)
           [] n.tag = "Tuple"  -> IF safe THEN EmittedTuple(n, v) ELSE UnsafeTuple(n, v)
           [] n.tag = "Record" -> IF safe THEN EmittedRecord(n, v) ELSE UnsafeRecord(n, v)
           [] n.tag = "Object" -> IF safe THEN EmittedObject(n, v) ELSE UnsafeObject(n, v, tier)
           [] n.tag = "Discriminated" ->
                IF safe THEN EmittedDiscriminated(n, v) ELSE UnsafeDiscriminated(n, v)

-----------------------------------------------------------------------------
(* The steps of f, emitted apart from those of c: it leaves at the first   *)
(* issue, inlines no child, and calls the f of each.                       *)

\* The type, then each check in its order.
FirstScalar(s, v) ==
  LET n == Node[s]
      failed == {i \in DOMAIN n.checks : v \notin n.checks[i]} IN
  IF v \in n.typed /\ failed = {} THEN <<>> ELSE <<Report(<<>>)>>

FirstChild(s, slot, at) == IF IsData(slot) THEN Collect(at, s, slot) ELSE Report(at)
FirstLoaded(s, slot, at) == Collect(at, s, Load(slot))
FirstArrayLength(n, v) == Require(Len(Heap[v].slots) \in n.lens, <<>>)

FirstArray(n, v) ==
  <<FirstArrayLength(n, v)>> \o
  [i \in DOMAIN Heap[v].slots |->
     LET slot == Heap[v].slots[i] IN
     CASE slot # Missing -> FirstChild(n.item, slot, <<i>>)
       [] CanAcceptUndefined[n.item] -> Pass
       [] OTHER -> FirstLoaded(n.item, slot, <<i>>)]

FirstUnsafeArray(n, v) ==
  <<FirstArrayLength(n, v)>> \o
  [i \in DOMAIN Heap[v].slots |-> FirstLoaded(n.item, Heap[v].slots[i], <<i>>)]

FirstTuple(n, v) ==
  <<TupleLength(n, v)>> \o
  [i \in Shared(n, v) |->
     LET slot == Heap[v].slots[i] IN
     IF slot = Missing THEN FirstLoaded(n.items[i], slot, <<i>>)
                       ELSE FirstChild(n.items[i], slot, <<i>>)]

FirstUnsafeTuple(n, v) ==
  <<TupleLength(n, v)>> \o
  [i \in Shared(n, v) |-> FirstLoaded(n.items[i], Heap[v].slots[i], <<i>>)]

FirstRecord(n, v) ==
  [i \in DOMAIN EnumKeys(Heap, v) |->
     LET k == EnumKeys(Heap, v)[i] IN FirstChild(n.value, Slot(Heap, v, k), <<k>>)]

FirstUnsafeRecord(n, v) ==
  [i \in DOMAIN EnumKeys(Heap, v) |->
     LET k == EnumKeys(Heap, v)[i] IN FirstLoaded(n.value, Slot(Heap, v, k), <<k>>)]

FirstCatchall(n, v) ==
  LET extra == SelectSeq(OwnKeys(Heap, v), LAMBDA k : k \notin EntryKeys(n)) IN
  [i \in DOMAIN extra |-> FirstChild(n.catchall, Slot(Heap, v, extra[i]), <<extra[i]>>)]

FirstObject(n, v) ==
  LET step(e) ==
        LET slot == Slot(Heap, v, e.key) IN
        IF slot = Missing /\ Presence(e) = "optional" THEN Pass
        ELSE FirstChild(e.schema, slot, <<e.key>>)
      extra == SelectSeq(OwnKeys(Heap, v), LAMBDA k : k \notin EntryKeys(n)) IN
  [i \in DOMAIN n.entries |-> step(n.entries[i])] \o
  CASE n.catchall # NoSchema -> FirstCatchall(n, v)
    [] n.catchall = NoSchema /\ n.strict -> [i \in DOMAIN extra |-> Report(<<extra[i]>>)]
    [] OTHER -> <<>>

FirstUnsafeCatchall(n, v) ==
  LET extra == SelectSeq(OwnKeys(Heap, v), LAMBDA k : k \notin EntryKeys(n)) IN
  [i \in DOMAIN extra |-> FirstLoaded(n.catchall, Slot(Heap, v, extra[i]), <<extra[i]>>)]

FirstUnsafeObject(n, v, tier) ==
  LET step(e) ==
        LET slot == Slot(Heap, v, e.key) IN
        CASE slot = Missing /\ Presence(e) = "optional" -> Pass
          [] slot = Missing /\ CanAcceptUndefined[e.schema] -> Report(<<e.key>>)
          [] OTHER -> FirstLoaded(e.schema, slot, <<e.key>>) IN
  [i \in DOMAIN n.entries |-> step(n.entries[i])] \o
  CASE n.catchall # NoSchema -> FirstUnsafeCatchall(n, v)
    [] n.catchall = NoSchema /\ n.strict /\ tier # "unchecked" -> UnsafeStrict(n, v)
    [] OTHER -> <<>>

FirstDiscriminated(n, v) ==
  LET slot == Slot(Heap, v, n.key)
      hits == {i \in DOMAIN n.cases : n.cases[i].literal = slot} IN
  IF ~IsData(slot) \/ hits = {} THEN <<Report(<<n.key>>)>>
  ELSE <<FirstChild(n.cases[CHOOSE i \in hits : TRUE].schema, v, <<>>)>>

FirstUnsafeDiscriminated(n, v) ==
  LET hits == {i \in DOMAIN n.cases : n.cases[i].literal = Load(Slot(Heap, v, n.key))} IN
  IF hits = {} THEN <<Report(<<n.key>>)>>
  ELSE <<FirstLoaded(n.cases[CHOOSE i \in hits : TRUE].schema, v, <<>>)>>

FirstSteps(s, v, tier) ==
  LET n == Node[s]
      safe == tier = "safe" IN
  CASE Leaf(s) -> FirstScalar(s, v)
    [] ~Leaf(s) /\ ~Composite(n, v) -> Plainly(n, v, tier)
    [] OTHER ->
         CASE n.tag = "Array"  -> IF safe THEN FirstArray(n, v) ELSE FirstUnsafeArray(n, v)
           [] n.tag = "Tuple"  -> IF safe THEN FirstTuple(n, v) ELSE FirstUnsafeTuple(n, v)
           [] n.tag = "Record" -> IF safe THEN FirstRecord(n, v) ELSE FirstUnsafeRecord(n, v)
           [] n.tag = "Object" -> IF safe THEN FirstObject(n, v) ELSE FirstUnsafeObject(n, v, tier)
           [] n.tag = "Discriminated" ->
                IF safe THEN FirstDiscriminated(n, v) ELSE FirstUnsafeDiscriminated(n, v)

-----------------------------------------------------------------------------
(* c(v, p, s) takes every step; f(v, p) stops at the first issue            *)

KeyCounted(n) == n.tag \in {"KeyedObject", "PropertyCount"}
Otherwise(found, rest) == IF found # <<>> THEN found ELSE rest

StepIssue(s, v, step) ==
  <<IF step.schema = NoSchema THEN Issue(s, v, step.at, FALSE)
    ELSE Issue(step.schema, step.value, step.at, FALSE)>>

RECURSIVE EmittedIssues(_, _, _)
StepIssues(s, v, step, tier) ==
  CASE step.does = "pass"    -> <<>>
    [] step.does = "report"  -> StepIssue(s, v, step)
    [] step.does = "collect" -> Under(step.at, EmittedIssues(step.schema, step.value, tier))
StepsIssues(s, v, steps, tier) ==
  FlattenSeq([i \in DOMAIN steps |-> StepIssues(s, v, steps[i], tier)])
EmittedIssues(s, v, tier) ==
  CASE Dynamic(Node[s]) -> DynamicIssues(s, v, FALSE)
    [] KeyCounted(Node[s]) ->
         Otherwise(EmittedIssues(Node[s].inner, v, tier),
                   StepsIssues(s, v, EmittedKeyCount(Node[s], v), tier))
    [] OTHER -> StepsIssues(s, v, Emitted(s, v, tier), tier)

RECURSIVE FirstIssue(_, _, _), FirstOfSteps(_, _, _, _)
FirstOfStep(s, v, step, tier) ==
  CASE step.does = "pass"    -> <<>>
    [] step.does = "report"  -> StepIssue(s, v, step)
    [] step.does = "collect" -> Under(step.at, FirstIssue(step.schema, step.value, tier))
FirstOfSteps(s, v, steps, tier) ==
  IF steps = <<>> THEN <<>>
  ELSE Otherwise(FirstOfStep(s, v, Head(steps), tier), FirstOfSteps(s, v, Tail(steps), tier))
FirstIssue(s, v, tier) ==
  CASE Dynamic(Node[s]) -> DynamicIssues(s, v, TRUE)
    [] KeyCounted(Node[s]) ->
         Otherwise(FirstIssue(Node[s].inner, v, tier),
                   FirstOfSteps(s, v, EmittedKeyCount(Node[s], v), tier))
    [] OTHER -> FirstOfSteps(s, v, FirstSteps(s, v, tier), tier)

-----------------------------------------------------------------------------
(* The roots of the bundle: what check() and checkFirst() return           *)

Accept == [ok |-> TRUE, error |-> <<>>]
Refuse(found) == [ok |-> FALSE, error |-> found]

\* A rejected value is refused with whatever c pushed; when f finds nothing in
\* it, checkFirst() accepts it after all.
RootsOf(found) == [check |-> Refuse(found.all),
                  first |-> IF found.one = <<>> THEN Accept ELSE Refuse(found.one)]

Rejected(s, v, tier) ==
  RootsOf([all |-> EmittedIssues(s, v, tier), one |-> FirstIssue(s, v, tier)])

-----------------------------------------------------------------------------
(* Properties                                                              *)

Explains(returned) ==
  /\ returned.check.error # <<>>
  /\ returned.first = Refuse(<<Head(returned.check.error)>>)

Places(found) == {found[i].path : i \in DOMAIN found}

Parts(v) ==
  LET r == Heap[v] IN
  ({r.slots[i] : i \in DOMAIN r.slots} \cup {r.own[k] : k \in DOMAIN r.own} \cup
   (IF r.kind = "map" THEN UNION {{r.items[i][1], r.items[i][2]} : i \in DOMAIN r.items}
    ELSE {r.items[i] : i \in DOMAIN r.items})) \cap Value

\* Values without a reference back to themselves.
RECURSIVE Founded(_)
Founded(known) ==
  LET next == {v \in Value : Parts(v) \subseteq known} IN
  IF next = known THEN known ELSE Founded(next)
LoopFree == Founded({})

\* Values the fast tiers are for: data properties only, all of them enumerable.
PlainPart(v) ==
  LET r == Heap[v] IN
  /\ \A i \in DOMAIN r.slots : r.slots[i] # Accessor
  /\ \A k \in DOMAIN r.own : r.own[k] # Accessor
  /\ r.enum = r.keys
RECURSIVE Trusted(_)
Trusted(known) ==
  LET next == {v \in known : PlainPart(v) /\ Parts(v) \subseteq known} IN
  IF next = known THEN known ELSE Trusted(next)
PlainValues == Trusted(Value)

Faithful(s, v, tier, returned) ==
  /\ v \in LoopFree /\ tier = "safe" => returned.check.error = issues
  /\ v \in LoopFree /\ tier = "unsafe" => Places(returned.check.error) = Places(issues)
  /\ ~CompiledIs(s, v, tier) => Explains(returned)

\* Safe code reports the interpreter's issues at the same paths in the same
\* order, for every value that does not refer back to itself; unsafe code reports
\* at the same paths, for plain values.  In every tier check() gives a reason when
\* the is() of that tier rejects, and checkFirst() gives the first one: the two
\* collectors are emitted apart from each other and from the predicate, and
\* nothing in the bundle falls back on another engine.  (A required key whose
\* opaque schema accepts undefined is not looked for by unsafe code; the
\* instances have none.)
SameDiagnostics ==
  Collected /\ mode = "check" =>
    \A tier \in Tiers :
      tier = "safe" \/ root[2] \in PlainValues =>
        Faithful(root[1], root[2], tier, Rejected(root[1], root[2], tier))

=============================================================================
