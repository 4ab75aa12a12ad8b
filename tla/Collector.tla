----------------------------- MODULE Collector -----------------------------
(***************************************************************************)
(* check() and checkFirst() (src/evaluate/check.ts): the predicate decides, *)
(* and only when it rejects the collector walks the value a second time    *)
(* and reports issues at paths.                                            *)
(*                                                                         *)
(* The predicate runs as the machine of SchemaPredicate.  The collector's  *)
(* walk is big-step: it threads the state the code mutates, the recursion  *)
(* guard, the path stack shared by all calls, and the issue buffer.        *)
(***************************************************************************)
EXTENDS SchemaPredicate
LOCAL INSTANCE SequencesExt

CONSTANT NoLimit   \* state.issueLimit is undefined

VARIABLES
  phase,     \* "predicate", "done"
  mode,      \* "check" or "checkFirst"
  walk,      \* the state of the collector's walk
  issues     \* the error of the result

checkVars == <<vars, phase, mode, walk, issues>>

\* Scalars: typed are the values of the type, checks what each check accepts;
\* bounded says whether the loop over the checks looks at the issue limit.
ASSUME CollectorAssumption ==
  \A s \in Schema : Node[s].tag = "Scalar" =>
    LET n == Node[s] IN
    /\ n.typed \subseteq Value /\ n.bounded \in BOOLEAN
    /\ n.accepts = {v \in n.typed : \A i \in DOMAIN n.checks : v \in n.checks[i]}

-----------------------------------------------------------------------------
(* The predicate the collector itself calls, under the state of its walk    *)

NewWalk(limit) == [active |-> {}, depth |-> 0, path |-> <<>>, issues |-> <<>>,
                   limit |-> limit]

Entered(s, v, st) ==
  [st EXCEPT !.depth = @ + 1,
             !.active = IF IsRef(Heap, v) THEN @ \cup {<<s, v>>} ELSE @]
Left(s, v, st) == [st EXCEPT !.depth = @ - 1, !.active = @ \ {<<s, v>>}]

RECURSIVE Holds(_, _, _)
Combined(s, holds) ==
  CASE Combine(s) = "all" -> \A i \in DOMAIN holds : holds[i]
    [] Combine(s) = "any" -> \E i \in DOMAIN holds : holds[i]
    [] Combine(s) = "one" -> Cardinality({i \in DOMAIN holds : holds[i]}) = 1
Decide(s, items, st) ==
  Combined(s, [i \in DOMAIN items |->
    IF items[i].call THEN Holds(items[i].schema, items[i].value, st) ELSE items[i].ok])
Holds(s, v, st) ==
  IF ~Tracked(s) THEN Decide(s, Items(Heap, s, v), st)
  ELSE \/ <<s, v>> \in st.active
       \/ st.depth < MaxDepth /\ Decide(s, Items(Heap, s, v), Entered(s, v, st))

-----------------------------------------------------------------------------
(* The steps of the collector for one (schema, value)                       *)

\* A step pushes a segment (or none), reports or calls, and pops it again.
Report(at) == [at |-> at, does |-> "report", schema |-> NoSchema, value |-> Undefined]
Collect(at, s, v) == [at |-> at, does |-> "collect", schema |-> s, value |-> v]
Pass == [at |-> <<>>, does |-> "pass", schema |-> NoSchema, value |-> Undefined]
Require(b, at) == IF b THEN Pass ELSE Report(at)
AtSlot(at, s, slot) == IF IsData(slot) THEN Collect(at, s, slot) ELSE Report(at)

\* Holes are passed over when the item can be undefined.
ArraySteps(n, v) ==
  LET slots == Heap[v].slots IN
  <<Require(Len(slots) \in n.lens, <<>>)>> \o
  [i \in 1..Len(slots) |->
     IF slots[i] = Missing
       THEN IF CanAcceptUndefined[n.item] THEN Pass ELSE Collect(<<i>>, n.item, Undefined)
       ELSE AtSlot(<<i>>, n.item, slots[i])]

TupleSteps(n, v) ==
  LET slots == Heap[v].slots
      count == Len(n.items)
      last == IF n.rest = NoSchema /\ Len(slots) > count THEN count ELSE Len(slots)
      item(i) == IF i <= count THEN n.items[i] ELSE n.rest IN
  <<Require(IF n.rest = NoSchema THEN Len(slots) = count ELSE Len(slots) >= count, <<>>)>> \o
  [i \in 1..last |->
     IF slots[i] = Missing THEN Collect(<<i>>, item(i), Undefined)
                           ELSE AtSlot(<<i>>, item(i), slots[i])]

\* Required keys must be enumerable; the loop over the keys finds accessors.
RecordSteps(n, v) ==
  LET keys == EnumKeys(Heap, v)
      required == SetToSeq(n.required)
      enumerable(k) == \E i \in DOMAIN keys : keys[i] = k IN
  [i \in 1..Len(required) |-> Require(enumerable(required[i]), <<required[i]>>)] \o
  [i \in 1..(2 * Len(keys)) |->
     LET k == keys[(i + 1) \div 2] IN
     IF i % 2 = 0 THEN AtSlot(<<k>>, n.value, Slot(Heap, v, k))
     ELSE IF n.key = NoSchema THEN Pass ELSE Collect(<<k>>, n.key, k)]

MapSteps(n, v) ==
  <<Require(Len(Heap[v].items) \in n.lens, <<>>)>> \o
  [i \in 1..(2 * Len(Heap[v].items)) |->
     LET index == (i + 1) \div 2
         pair == Heap[v].items[index] IN
     IF i % 2 = 1 THEN Collect(<<index, "key">>, n.key, pair[1])
                  ELSE Collect(<<index, "value">>, n.value, pair[2])]

SetSteps(n, v) ==
  <<Require(Len(Heap[v].items) \in n.lens, <<>>)>> \o
  [i \in 1..Len(Heap[v].items) |-> Collect(<<i>>, n.item, Heap[v].items[i])]

\* Mutant: a missing entry is reported whatever its presence.
EntryStepRequired(e, v) == AtSlot(<<e.key>>, e.schema, Slot(Heap, v, e.key))

EntryStep(e, v) ==
  LET slot == Slot(Heap, v, e.key)
      presence == IF e.presence = "deferred" THEN e.resolved ELSE e.presence IN
  IF slot = Missing /\ presence = "optional" THEN Pass ELSE AtSlot(<<e.key>>, e.schema, slot)

\* Mutant: only the catchall looks at extra keys.
ExtraStepLoose(n, v, k) ==
  IF k \in EntryKeys(n) \/ n.catchall = NoSchema THEN Pass
  ELSE AtSlot(<<k>>, n.catchall, Slot(Heap, v, k))

\* The catchall sees undeclared keys; strict mode reports them one by one.
ExtraStep(n, v, k) ==
  IF k \in EntryKeys(n) THEN Pass
  ELSE IF n.catchall # NoSchema THEN AtSlot(<<k>>, n.catchall, Slot(Heap, v, k))
  ELSE Require(~n.strict, <<k>>)
ObjectSteps(n, v) ==
  LET keys == OwnKeys(Heap, v) IN
  [i \in 1..Len(n.entries) |-> EntryStep(n.entries[i], v)] \o
  [i \in 1..Len(keys) |-> ExtraStep(n, v, keys[i])]

DiscriminatedSteps(n, v) ==
  LET slot == Slot(Heap, v, n.key)
      hits == {i \in DOMAIN n.cases : n.cases[i].literal = slot} IN
  IF IsData(slot) /\ hits # {}
    THEN <<Collect(<<>>, n.cases[CHOOSE i \in hits : TRUE].schema, v)>>
    ELSE <<Report(<<n.key>>)>>

\* collectPatternPropertyKeyIssues, for every key.
PatternSteps(n, v) ==
  LET keys == EnumKeys(Heap, v)
      width == Len(n.entries) + 1
      step(k, e) ==
        LET matched == \E i \in DOMAIN n.entries : k \in n.entries[i].match IN
        IF e <= Len(n.entries)
          THEN IF k \in n.entries[e].match
                 THEN AtSlot(<<k>>, n.entries[e].schema, Slot(Heap, v, k)) ELSE Pass
        ELSE IF matched \/ k \in n.known THEN Pass
        ELSE IF n.additional # NoSchema THEN AtSlot(<<k>>, n.additional, Slot(Heap, v, k))
        ELSE Require(n.allowAdditional, <<k>>) IN
  [i \in 1..(width * Len(keys)) |->
     step(keys[((i - 1) \div width) + 1], ((i - 1) % width) + 1)]

\* A name the predicate accepts under the walk's guard is passed over.
NameSteps(n, v, st) ==
  LET keys == EnumKeys(Heap, v) IN
  [i \in 1..Len(keys) |->
     IF Holds(n.key, keys[i], st) THEN Pass ELSE Collect(<<keys[i]>>, n.key, keys[i])]

\* What a wrapper adds once its inner schema holds.
OuterSteps(n, v, st) ==
  IF ~IsRecord(Heap, v) THEN <<Report(<<>>)>>
  ELSE CASE n.tag = "KeyedObject"   -> <<Require(KeyRuleHolds(Heap, n, v), <<>>)>>
         [] n.tag = "PropertyCount" ->
              <<Require(Len(EnumKeys(Heap, v)) \in n.counts, <<>>)>>
         [] n.tag = "PropertyNames" -> NameSteps(n, v, st)
         [] n.tag = "PatternProperties" -> PatternSteps(n, v)

IsKind(tag, v) ==
  CASE tag \in {"Array", "Tuple"} -> Heap[v].kind = "array"
    [] tag \in {"Map", "Set"} -> Heap[v].kind = (IF tag = "Map" THEN "map" ELSE "set")
    [] OTHER -> IsRecord(Heap, v)

\* The schemas whose collector stops between steps at the issue limit.
Stops(n) == \/ n.tag \in {"Array", "Tuple", "Record", "Object", "Intersection"}
            \/ n.tag = "Scalar" /\ n.bounded

\* A value of the wrong type is one issue, else every failing check is one.
ScalarSteps(n, v) ==
  IF v \notin n.typed THEN <<Report(<<>>)>>
  ELSE [i \in DOMAIN n.checks |-> Require(v \in n.checks[i], <<>>)]

Steps(s, v) ==
  LET n == Node[s] IN
  CASE n.tag = "Scalar" -> ScalarSteps(n, v)
    [] n.tag = "Intersection" -> <<Collect(<<>>, n.left, v), Collect(<<>>, n.right, v)>>
    [] n.tag \in {"Optional", "Nullable"} ->
         IF v = (IF n.tag = "Optional" THEN Undefined ELSE Null) THEN <<>>
         ELSE <<Collect(<<>>, n.inner, v)>>
    [] n.tag = "Wrap" -> <<Collect(<<>>, n.inner, v)>>
    [] n.tag = "Lazy" -> <<Collect(<<>>, n.target, v)>>
    [] OTHER ->
         IF ~IsKind(n.tag, v) THEN <<Report(<<>>)>>
         ELSE CASE n.tag = "Array"  -> ArraySteps(n, v)
                [] n.tag = "Tuple"  -> TupleSteps(n, v)
                [] n.tag = "Record" -> RecordSteps(n, v)
                [] n.tag = "Map"    -> MapSteps(n, v)
                [] n.tag = "Set"    -> SetSteps(n, v)
                [] n.tag = "Object" -> ObjectSteps(n, v)
                [] n.tag = "Discriminated" -> DiscriminatedSteps(n, v)

-----------------------------------------------------------------------------
(* The walk: collectIssues                                                  *)

\* Mutant: the limit counts the issue about to be found.
AtLimitEarly(st) == st.limit # NoLimit /\ Len(st.issues) + 1 >= st.limit

AtLimit(st) == st.limit # NoLimit /\ Len(st.issues) >= st.limit
Issue(s, v, path, deep) == [schema |-> s, value |-> v, path |-> path, deep |-> deep]
Emit(s, v, deep, st) == [st EXCEPT !.issues = Append(@, Issue(s, v, st.path, deep))]

Pushed(at, st) == [st EXCEPT !.path = @ \o at]
Popped(at, st) == [st EXCEPT !.path = SubSeq(@, 1, Len(@) - Len(at))]

RECURSIVE Walk(_, _, _)
RunStep(s, v, step, st) ==
  CASE step.does = "pass"    -> st
    [] step.does = "report"  -> Popped(step.at, Emit(s, v, FALSE, Pushed(step.at, st)))
    [] step.does = "collect" ->
         Popped(step.at, Walk(step.schema, step.value, Pushed(step.at, st)))

\* The remaining steps, until the issue limit where the tag's loop looks at it.
RECURSIVE RunSteps(_, _, _, _)
RunSteps(s, v, steps, st) ==
  IF (AtLimit(st) /\ Stops(Node[s])) \/ steps = <<>> THEN st
  ELSE RunSteps(s, v, Tail(steps), RunStep(s, v, Head(steps), st))

Grew(before, after) == Len(after.issues) > Len(before.issues)

CollectInner(s, v, st) ==
  LET n == Node[s] IN
  CASE n.tag \in {"Union", "Xor"} -> IF Decide(s, Items(Heap, s, v), st) THEN st ELSE Emit(s, v, FALSE, st)
    [] n.tag \in {"KeyedObject", "PropertyCount", "PropertyNames", "PatternProperties"} ->
         IF Holds(n.inner, v, st) THEN RunSteps(s, v, OuterSteps(n, v, st), st)
                                  ELSE Walk(n.inner, v, st)
    [] n.tag = "Property" ->
         LET based == Walk(n.base, v, st) IN
         IF Grew(st, based) THEN based
         ELSE IF ~HasSlots(Heap, v) THEN Emit(s, v, FALSE, based)
         ELSE RunStep(s, v, AtSlot(<<n.key>>, n.value, Slot(Heap, v, n.key)), based)
    [] n.tag = "Refine" ->
         LET inner == Walk(n.inner, v, st)
             unconditional == n.when = Value IN     \* no `when` was given
         IF \/ unconditional /\ Grew(st, inner)
            \/ v \notin n.when \/ v \in n.predicate
         THEN inner ELSE Emit(s, v, FALSE, inner)
    [] OTHER -> RunSteps(s, v, Steps(s, v), st)

Walk(s, v, st) ==
  IF AtLimit(st) \/ <<s, v>> \in st.active THEN st
  ELSE IF st.depth >= MaxDepth THEN Emit(s, v, TRUE, st)
  ELSE Left(s, v, CollectInner(s, v, Entered(s, v, st)))

\* schemaSupportsBoundedFirst: what a walk limited to one issue may enter.
SupportsFirst ==
  LET opaque(n) == \/ n.tag \in {"Map", "Set", "Property", "Discriminated", "Lazy",
                                 "Refine", "KeyedObject", "PropertyCount",
                                 "PropertyNames", "PatternProperties"}
                   \/ n.tag = "Tuple" /\ n.rest # NoSchema
      children(s) == TrackedChildren(s) \cup
        (IF Node[s].tag = "Object" THEN {Node[s].catchall} ELSE {})
      rounds[k \in 0..Cardinality(Schema)] ==
        IF k = 0 THEN {s \in Schema : opaque(Node[s])}
        ELSE LET previous == rounds[k - 1]
             IN  previous \cup {s \in Schema : children(s) \cap previous # {}}
  IN  Schema \ rounds[Cardinality(Schema)]

-----------------------------------------------------------------------------
(* check() and checkFirst()                                                 *)

CheckInit ==
  /\ Init
  /\ phase = "predicate" /\ mode = "check"
  /\ walk = NewWalk(NoLimit) /\ issues = <<>>

Decided == phase = "predicate" /\ Next /\ UNCHANGED <<phase, mode, walk, issues>>

CollectFrom(limit) == Walk(root[1], root[2], NewWalk(limit))
LimitOf(m) == IF m = "checkFirst" /\ root[1] \in SupportsFirst THEN 1 ELSE NoLimit

\* An empty failure gets a fallback issue; checkFirst() keeps the first one.
Explained(s, v, found) == IF found # <<>> THEN found ELSE <<Issue(s, v, <<>>, FALSE)>>
Published(m, found) ==
  LET explained == Explained(root[1], root[2], found) IN
  IF m = "checkFirst" THEN SubSeq(explained, 1, 1) ELSE explained

\* An accepted value goes to the finalizer, which Finalizer models.
CollectIssues ==
  /\ phase = "predicate" /\ Done /\ result = "reject"
  /\ \E m \in {"check", "checkFirst"} :
       mode' = m /\ walk' = CollectFrom(LimitOf(m)) /\ issues' = Published(m, walk'.issues)
  /\ phase' = "done"
  /\ UNCHANGED vars

CheckNext == Decided \/ CollectIssues

CheckSpec == CheckInit /\ [][CheckNext]_checkVars

-----------------------------------------------------------------------------
(* Properties                                                               *)

Collected == phase = "done"

\* check.ts:137, "so callers never receive an empty failure": the fallback is
\* never what explains a rejection, because the second walk finds, by itself
\* and under its own depth counting, an issue wherever the predicate failed.
\* Exclusive unions are not monotone in the budget and are left out.
RejectionExplained ==
  Collected /\ root[1] \notin ReachesXor => walk.issues # <<>>

\* The path leads from v to the target.  The last segment may name a slot without
\* data, or an extra key: the issue is then about the parent; or a key that fails the
\* schema of the keys.  Map segments come in twos, the index and "key" or "value".
RECURSIVE LeadsTo(_, _, _)
LeadsTo(v, path, target) ==
  \/ path = <<>> /\ v = target
  \/ Len(path) = 1 /\ target \in {v, path[1]}
  \/ /\ Len(path) >= 2 /\ Heap[v].kind = "map" /\ path[1] \notin Key
     /\ LET pair == Heap[v].items[path[1]] IN
          LeadsTo(pair[IF path[2] = "key" THEN 1 ELSE 2], SubSeq(path, 3, Len(path)), target)
  \/ /\ path # <<>> /\ (Heap[v].kind = "map" => path[1] \in Key)
     /\ LET slot == CASE path[1] \in Key -> Slot(Heap, v, path[1])
                      [] Heap[v].kind = "array" -> Heap[v].slots[path[1]]
                      [] OTHER -> Heap[v].items[path[1]] IN
          IF slot = Missing THEN target = Undefined
          ELSE slot # Accessor /\ LeadsTo(slot, Tail(path), target)

\* No false alarm: whatever the collector reports, in unions and below pairs
\* assumed by the recursion guard too, is a pair the schema graph denies, unless
\* the depth budget was met; its path leads there from the checked value; and
\* the walk ends with the guard, the depth and the path it began with.
IssuesAreReal ==
  Collected =>
    /\ \A i \in DOMAIN walk.issues :
         LET issue == walk.issues[i] IN
         /\ issue.deep \/ issue.schema \in ReachesXor
              \/ <<issue.schema, issue.value>> \notin Denoted
         /\ LeadsTo(root[2], issue.path, issue.value)
    /\ walk.path = <<>> /\ walk.active = {} /\ walk.depth = 0

\* docs/api.md:287: checkFirst() returns "the same" failure cut to one issue, the
\* first of check(), although its walk stops early where the schema allows it.
FirstIssueIsFirst ==
  Collected /\ mode = "checkFirst" =>
    LET all == CollectFrom(NoLimit).issues IN
    Len(issues) = 1 /\ (all # <<>> => issues[1] = all[1])
=============================================================================
