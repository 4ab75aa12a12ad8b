----------------------------- MODULE Finalizer -----------------------------
(***************************************************************************)
(* The output of a successful check() (src/evaluate/finalize.ts): objects  *)
(* in strip mode are projected to their declared fields, readonly outputs  *)
(* are frozen, and everything that contains a changed value is cloned.     *)
(*                                                                         *)
(* finalizeValue recurses; here it is a stack machine.  A request is a     *)
(* pending call, an answer the value a call returned, a frame a suspended  *)
(* activation.  New objects take their identities from Fresh, in order.    *)
(***************************************************************************)
EXTENDS SchemaDenotation, TLC

CONSTANTS
  Strip,        \* the object schemas in strip mode
  Readonly,     \* the Wrap schemas that are readonly
  Fresh,        \* identities of objects to be made; bound: their number
  Cases,        \* <<heap, schema, value>>, the calls
  InputFrozen   \* the values that are frozen already

NewValues == {Fresh[i] : i \in DOMAIN Fresh}

ASSUME FinalizerAssumption ==
  /\ Fresh \in Seq(Value) /\ \A i, j \in DOMAIN Fresh : Fresh[i] = Fresh[j] => i = j
  /\ \A s \in Strip : Node[s].tag = "Object" /\ Node[s].catchall = NoSchema
  /\ \A s \in Readonly : Node[s].tag = "Wrap"
  /\ InputFrozen \subseteq Value \ NewValues
  /\ \A c \in Cases : /\ DOMAIN c[1] = Value /\ \A v \in Value : Reflects(c[1][v])
                      /\ c[2] \in Schema /\ c[3] \in Value \ NewValues

VARIABLES
  heap,
  root,         \* the (schema, value) of the call
  request, answer, stack,
  pairs,        \* pairs entered so far: they are never left
  outputs,      \* pairs whose output is known early, and the output
  made,         \* objects made so far
  merged,       \* outputs of merges: from pairs of values
  tasks, fill,  \* merges to be filled, and the one being filled
  marks,        \* objects to freeze at the end
  frozen,
  raw,          \* pairs that were answered with the value itself on a second visit
  read,         \* outputs whose fields were read, with what was read
  done

calls == <<request, answer, stack>>
merging == <<merged, tasks, fill>>
history == <<raw, read>>
vars == <<heap, root, calls, pairs, outputs, made, merging, marks, frozen, history, done>>

-----------------------------------------------------------------------------
(* schemaNeedsFinalization: the same search for every root                  *)

ChildSchemas(s) ==
  LET n == Node[s] IN
  (CASE n.tag \in {"Array", "Set"} -> {n.item}
     [] n.tag = "Tuple"  -> {n.items[i] : i \in DOMAIN n.items} \cup {n.rest}
     [] n.tag \in {"Record", "Map"} -> {n.key, n.value}
     [] n.tag = "Property" -> {n.base, n.value}
     [] n.tag = "Object" -> {n.entries[i].schema : i \in DOMAIN n.entries} \cup {n.catchall}
     [] n.tag \in {"Union", "Xor"} -> Options(s)
     [] n.tag = "Intersection" -> {n.left, n.right}
     [] n.tag = "Discriminated" -> {n.cases[i].schema : i \in DOMAIN n.cases}
     [] n.tag \in {"Optional", "Nullable", "Wrap", "Refine", "KeyedObject",
                   "PropertyCount", "PropertyNames", "PatternProperties"} -> {n.inner}
     [] OTHER -> {}) \ {NoSchema}

NeedsAtOnce == Strip \cup Readonly \cup {s \in Schema : Node[s].tag = "Lazy"}

NeedsFinalization ==
  LET rounds[k \in 0..Cardinality(Schema)] ==
        IF k = 0 THEN NeedsAtOnce
        ELSE LET previous == rounds[k - 1]
             IN  previous \cup {s \in Schema : ChildSchemas(s) \cap previous # {}}
  IN  rounds[Cardinality(Schema)]

-----------------------------------------------------------------------------
(* The places of a container, in the order of the loops                     *)

Place(at, schema) == [at |-> at, schema |-> schema]

Undeclared(h, n, v) == SelectSeq(OwnKeys(h, v), LAMBDA k : k \notin EntryKeys(n))

\* Map entry i holds its key at 2i - 1 and its value at 2i.
Places(h, s, v) ==
  LET n == Node[s]
      every(count, schemaAt(_)) == [i \in 1..count |-> Place(i, schemaAt(i))] IN
  CASE n.tag = "Array" -> every(Len(h[v].slots), LAMBDA i : n.item)
    [] n.tag = "Tuple" ->
         every(IF n.rest = NoSchema THEN Len(n.items) ELSE Len(h[v].slots),
               LAMBDA i : IF i <= Len(n.items) THEN n.items[i] ELSE n.rest)
    [] n.tag = "Map" -> every(2 * Len(h[v].items),
                              LAMBDA i : IF i % 2 = 1 THEN n.key ELSE n.value)
    [] n.tag = "Set" -> every(Len(h[v].items), LAMBDA i : n.item)
    [] n.tag = "Record" ->
         [i \in 1..Len(OwnKeys(h, v)) |-> Place(OwnKeys(h, v)[i], n.value)]
    [] n.tag = "Object" ->
         LET extra == IF n.catchall = NoSchema THEN <<>> ELSE Undeclared(h, n, v) IN
         [i \in 1..Len(n.entries) |-> Place(n.entries[i].key, n.entries[i].schema)]
           \o [i \in 1..Len(extra) |-> Place(extra[i], n.catchall)]

SlotAt(h, s, v, at) ==
  CASE Node[s].tag \in {"Array", "Tuple"} ->
         IF at \in DOMAIN h[v].slots THEN h[v].slots[at] ELSE Missing
    [] Node[s].tag = "Map" -> h[v].items[(at + 1) \div 2][IF at % 2 = 1 THEN 1 ELSE 2]
    [] Node[s].tag = "Set" -> h[v].items[at]
    [] OTHER -> Slot(h, v, at)

\* A clone of v with the values of changed in place of its own.
Clone(h, s, v, changed) ==
  LET now(at, old) == IF at \in DOMAIN changed THEN changed[at] ELSE old IN
  CASE Node[s].tag \in {"Array", "Tuple"} ->
         [h[v] EXCEPT !.slots = [i \in DOMAIN @ |-> now(i, @[i])]]
    [] Node[s].tag = "Map" ->
         [h[v] EXCEPT !.items =
            [i \in DOMAIN @ |-> <<now(2 * i - 1, @[i][1]), now(2 * i, @[i][2])>>]]
    [] Node[s].tag = "Set" -> [h[v] EXCEPT !.items = [i \in DOMAIN @ |-> now(i, @[i])]]
    [] OTHER -> [h[v] EXCEPT !.own = [k \in DOMAIN @ |-> now(k, @[k])]]

ContainerTags == {"Array", "Tuple", "Record", "Map", "Set", "Object"}

\* The test with which a container's function begins.
Holds(h, s, v) ==
  CASE Node[s].tag \in {"Array", "Tuple"} -> h[v].kind = "array"
    [] Node[s].tag = "Map" -> h[v].kind = "map"
    [] Node[s].tag = "Set" -> h[v].kind = "set"
    [] OTHER -> IsRef(h, v) /\ h[v].kind # "array"

-----------------------------------------------------------------------------
(* Calls and returns                                                        *)

NoRequest == <<>>
NoAnswer == Missing
NoChanges == <<>>
Idle == [left |-> Undefined, right |-> Undefined, out |-> Undefined, keys |-> <<>>, next |-> 1]

Blank == [kind |-> "record", keys |-> <<>>, enum |-> <<>>, own |-> <<>>,
          slots |-> <<>>, items |-> <<>>]

\* out is the output under construction, or a value kept across a call.
Frame(op, s, v, places, out) ==
  [op |-> op, schema |-> s, value |-> v, places |-> places, next |-> 1,
   changed |-> NoChanges, out |-> out]

Top == stack[Len(stack)]
Below == SubSeq(stack, 1, Len(stack) - 1)
Called == request # NoRequest
Returned(op) == ~Called /\ answer # NoAnswer /\ stack # <<>> /\ Top.op = op
Resumed(op) == ~Called /\ answer = NoAnswer /\ stack # <<>> /\ Top.op = op

Ask(s, v) == request' = <<s, v>> /\ answer' = NoAnswer
Reply(v) == request' = NoRequest /\ answer' = v
Resume == request' = NoRequest /\ answer' = NoAnswer

NextNew == Fresh[made + 1]
CanMake == made < Len(Fresh)

Init ==
  /\ \E c \in Cases : heap = c[1] /\ root = <<c[2], c[3]>>
  /\ root \in Denotation(heap)
  /\ request = IF root[1] \in NeedsFinalization THEN root ELSE NoRequest
  /\ answer = IF root[1] \in NeedsFinalization THEN NoAnswer ELSE root[2]
  /\ stack = <<>> /\ pairs = {} /\ outputs = <<>> /\ made = 0
  /\ merged = <<>> /\ tasks = <<>> /\ fill = Idle
  /\ marks = {} /\ frozen = InputFrozen
  /\ raw = {} /\ read = {} /\ done = FALSE

-----------------------------------------------------------------------------
(* finalizeValue                                                            *)

Transparent == {"Optional", "Nullable", "Wrap", "KeyedObject", "PropertyCount",
                "PropertyNames", "PatternProperties", "Refine", "Lazy"}

\* The arguments of the call.
schema == request[1]
value == request[2]
tag == Node[schema].tag

IsAbsent == \/ tag = "Optional" /\ value = Undefined
            \/ tag = "Nullable" /\ value = Null

Descend ==
  /\ Called /\ tag \in Transparent \ {"Lazy"}
  /\ IF IsAbsent THEN Reply(value) ELSE Ask(Node[schema].inner, value)
  /\ stack' = IF schema \in Readonly
                THEN Append(stack, Frame("readonly", schema, value, <<>>, value)) ELSE stack
  /\ UNCHANGED <<heap, root, pairs, outputs, made, merging, marks, frozen, history, done>>

ResolveLazy ==
  /\ Called /\ tag = "Lazy"
  /\ Ask(Node[schema].target, value)
  /\ UNCHANGED <<heap, root, stack, pairs, outputs, made, merging, marks, frozen, history, done>>

Structural == Called /\ tag \notin Transparent

ReadOutput ==
  /\ Structural /\ request \in DOMAIN outputs
  /\ Reply(outputs[request])
  /\ UNCHANGED <<heap, root, stack, pairs, outputs, made, merging, marks, frozen, history, done>>

\* enterFinalizePair answers false, also when the first visit has returned.
Revisit ==
  /\ Structural /\ request \notin DOMAIN outputs /\ request \in pairs
  /\ Reply(value)
  /\ raw' = raw \cup {request}
  /\ UNCHANGED <<heap, root, stack, pairs, outputs, made, merging, marks, frozen, read, done>>

\* The fields of these values are read; an output may be filled further afterwards.
Reading(values) == read \cup {<<v, heap[v]>> : v \in values \cap NewValues}

\* finalizeProperty passes parts of outputs on as values, to be read at any depth.
ReadIfOutput ==
  read' = IF value \in NewValues THEN Reading({Fresh[i] : i \in 1..made}) ELSE read

FirstVisit ==
  /\ Structural /\ request \notin DOMAIN outputs \cup pairs
  /\ pairs' = IF IsRef(heap, value) THEN pairs \cup {request} ELSE pairs
  /\ ReadIfOutput

Alternatives(s) ==
  CASE Node[s].tag \in {"Union", "Xor"} -> Node[s].options
    [] Node[s].tag = "Discriminated" ->
         [i \in DOMAIN Node[s].cases |-> Node[s].cases[i].schema]
    [] OTHER -> <<>>

\* The alternatives that accept v, by a predicate call of their own.
Matching(h, s, v) == SelectSeq(Alternatives(s), LAMBDA o : <<o, v>> \in Denotation(h))

\* finalizeFirstMatching, finalizeMatchingCase.
Choose ==
  /\ FirstVisit /\ Alternatives(schema) # <<>>
  /\ LET matching == Matching(heap, schema, value) IN
     IF matching = <<>> THEN Reply(value) ELSE Ask(matching[1], value)
  /\ UNCHANGED <<heap, root, stack, outputs, made, merging, marks, frozen, raw, done>>

\* A scalar, or not the kind of value the container's function handles.
Leaf ==
  /\ FirstVisit
  /\ \/ tag = "Scalar"
     \/ tag \in ContainerTags /\ ~Holds(heap, schema, value)
  /\ Reply(value)
  /\ UNCHANGED <<heap, root, stack, outputs, made, merging, marks, frozen, raw, done>>

Open ==
  /\ FirstVisit /\ tag \in ContainerTags /\ schema \notin Strip
  /\ Holds(heap, schema, value)
  /\ stack' = Append(stack, Frame("clone", schema, value,
                                  Places(heap, schema, value), value))
  /\ Resume
  /\ UNCHANGED <<heap, root, outputs, made, merging, marks, frozen, raw, done>>

\* Mutant: the output becomes known only when it is complete.
EarlyOutputLate(p, output) == outputs

\* A stripped output is known before it is filled.
EarlyOutput(p, output) == (p :> output) @@ outputs

OpenStripped ==
  /\ FirstVisit /\ schema \in Strip /\ Holds(heap, schema, value) /\ CanMake
  /\ heap' = [heap EXCEPT ![NextNew] = Blank]
  /\ made' = made + 1
  /\ outputs' = EarlyOutput(request, NextNew)
  /\ stack' = Append(stack, Frame("strip", schema, value,
                                  Places(heap, schema, value), NextNew))
  /\ Resume
  /\ UNCHANGED <<root, merging, marks, frozen, raw, done>>

\* The two calls of finalizeProperty and finalizeIntersection.
OpenTwo ==
  /\ FirstVisit /\ tag \in {"Property", "Intersection"}
  /\ IF tag = "Property"
       THEN /\ stack' = Append(stack, Frame("base", schema, value, <<>>, value))
            /\ Ask(Node[schema].base, value)
       ELSE /\ stack' = Append(stack, Frame("left", schema, value, <<>>, value))
            /\ Ask(Node[schema].left, value)
  /\ UNCHANGED <<heap, root, outputs, made, merging, marks, frozen, raw, done>>

-----------------------------------------------------------------------------
(* Containers                                                               *)

\* The next place of a container: a call for its data, or nothing.
Visit(op) ==
  /\ Resumed(op) /\ Top.next <= Len(Top.places)
  /\ LET place == Top.places[Top.next]
         slot == SlotAt(heap, Top.schema, Top.value, place.at) IN
     IF IsData(slot)
       THEN Ask(place.schema, slot) /\ UNCHANGED stack
       ELSE UNCHANGED <<request, answer>> /\ stack' = [stack EXCEPT ![Len(stack)].next = @ + 1]
  /\ UNCHANGED <<heap, root, pairs, outputs, made, merging, marks, frozen, history, done>>

VisitPlace == Visit("clone") \/ Visit("strip")

KeepChange ==
  /\ Returned("clone")
  /\ LET at == Top.places[Top.next].at
         old == SlotAt(heap, Top.schema, Top.value, at) IN
     stack' = [stack EXCEPT
       ![Len(stack)].next = @ + 1,
       ![Len(stack)].changed = IF answer = old THEN @ ELSE (at :> answer) @@ @]
  /\ Resume
  /\ UNCHANGED <<heap, root, pairs, outputs, made, merging, marks, frozen, history, done>>

CloseClone ==
  /\ Resumed("clone") /\ Top.next > Len(Top.places)
  /\ IF Top.changed = NoChanges
       THEN Reply(Top.value) /\ UNCHANGED <<heap, made>>
       ELSE /\ CanMake
            /\ heap' = [heap EXCEPT ![NextNew] =
                          Clone(heap, Top.schema, Top.value, Top.changed)]
            /\ made' = made + 1
            /\ Reply(NextNew)
  /\ stack' = Below
  /\ UNCHANGED <<root, pairs, outputs, merging, marks, frozen, history, done>>

\* Object.defineProperty(record, k, ...).
Defined(record, k, slot) ==
  IF record.kind = "array" THEN [record EXCEPT !.slots[k] = slot]
  ELSE [record EXCEPT
          !.own = (k :> slot) @@ @,
          !.keys = IF k \in DOMAIN record.own THEN @ ELSE Append(@, k),
          !.enum = IF k \in DOMAIN record.own THEN @ ELSE Append(@, k)]

DefineField ==
  /\ Returned("strip")
  /\ heap' = [heap EXCEPT ![Top.out] = Defined(@, Top.places[Top.next].at, answer)]
  /\ stack' = [stack EXCEPT ![Len(stack)].next = @ + 1]
  /\ Resume
  /\ UNCHANGED <<root, pairs, outputs, made, merging, marks, frozen, history, done>>

CloseStripped ==
  /\ Resumed("strip") /\ Top.next > Len(Top.places)
  /\ Reply(Top.out)
  /\ stack' = Below
  /\ UNCHANGED <<heap, root, pairs, outputs, made, merging, marks, frozen, history, done>>

-----------------------------------------------------------------------------
(* finalizeProperty                                                         *)

AfterBase ==
  /\ Returned("base")
  /\ LET n == Node[Top.schema]
         slot == IF IsRef(heap, answer) THEN Slot(heap, answer, n.key) ELSE Missing IN
     IF IsData(slot)
       THEN /\ Ask(n.value, slot)
            /\ stack' = Append(Below, Frame("item", Top.schema, answer, <<>>, slot))
       ELSE Reply(answer) /\ stack' = Below
  /\ read' = Reading({answer})
  /\ UNCHANGED <<heap, root, pairs, outputs, made, merging, marks, frozen, raw, done>>

AfterItem ==
  /\ Returned("item")
  /\ IF answer = Top.out
       THEN Reply(Top.value) /\ UNCHANGED <<heap, made>>
       ELSE /\ CanMake
            /\ heap' = [heap EXCEPT ![NextNew] =
                          Clone(heap, Top.schema, Top.value, Node[Top.schema].key :> answer)]
            /\ made' = made + 1
            /\ Reply(NextNew)
  /\ stack' = Below
  /\ UNCHANGED <<root, pairs, outputs, merging, marks, frozen, history, done>>

-----------------------------------------------------------------------------
(* Intersections: finalize-intersection.ts                                  *)

Both(kind, l, r) == heap[l].kind = kind /\ heap[r].kind = kind

Joinable(l, r) ==
  \/ Both("array", l, r) /\ Len(heap[l].slots) = Len(heap[r].slots)
  \/ Both("record", l, r)

\* selectIntersectionOutput: two references may have to be merged in a new object.
Merges(l, r) ==
  /\ l # r /\ IsRef(heap, l) /\ IsRef(heap, r)
  /\ <<l, r>> \notin DOMAIN merged /\ Joinable(l, r)

Selected(l, r) ==
  CASE l = r -> l
    [] ~IsRef(heap, l) \/ ~IsRef(heap, r) -> r
    [] <<l, r>> \in DOMAIN merged -> merged[<<l, r>>]
    [] Merges(l, r) -> NextNew
    [] Both("array", l, r) -> r
    [] heap[l].kind = "array" \/ (heap[l].kind # "record" /\ heap[r].kind = "record") -> l
    [] OTHER -> r

Hollow(l, r) ==
  IF heap[l].kind = "array"
    THEN [Blank EXCEPT !.kind = "array", !.slots = [i \in DOMAIN heap[l].slots |-> Missing]]
    ELSE Blank

\* Reflect.ownKeys of both, without repetition.
KeysOf(l, r) ==
  IF heap[l].kind = "array" THEN [i \in DOMAIN heap[l].slots |-> i]
  ELSE OwnKeys(heap, l) \o SelectSeq(OwnKeys(heap, r), LAMBDA k : k \notin DOMAIN heap[l].own)

Lasting == marks \cup frozen

\* propagateReadonly; arrays of unequal length return before it.
Marked(l, r) ==
  IF /\ IsRef(heap, l) /\ IsRef(heap, r) /\ {l, r} \cap Lasting # {}
     /\ ~(Both("array", l, r) /\ Len(heap[l].slots) # Len(heap[r].slots))
    THEN marks \cup {Selected(l, r)} ELSE marks

\* allocateIntersectionOutput: written to the table before it is filled.
Enqueued(l, r, queue) ==
  IF Merges(l, r)
    THEN Append(queue, [left |-> l, right |-> r, out |-> NextNew,
                        keys |-> KeysOf(l, r), next |-> 1])
    ELSE queue

\* Before they are merged, their fields are read.
ReadBy(l, r) == IF Merges(l, r) THEN Reading({l, r}) ELSE read

Recorded(l, r) ==
  IF Merges(l, r) THEN (<<l, r>> :> NextNew) @@ merged ELSE merged

MadeBy(l, r) == IF Merges(l, r) THEN made + 1 ELSE made
HeapBy(l, r) ==
  IF Merges(l, r) THEN [heap EXCEPT ![NextNew] = Hollow(l, r)] ELSE heap

AfterLeft ==
  /\ Returned("left")
  /\ Ask(Node[Top.schema].right, Top.value)
  /\ stack' = Append(Below, Frame("right", Top.schema, Top.value, <<>>, answer))
  /\ UNCHANGED <<heap, root, pairs, outputs, made, merging, marks, frozen, history, done>>

AfterRight ==
  /\ Returned("right")
  /\ Merges(Top.out, answer) => CanMake
  /\ heap' = HeapBy(Top.out, answer) /\ made' = MadeBy(Top.out, answer)
  /\ merged' = Recorded(Top.out, answer)
  /\ tasks' = Enqueued(Top.out, answer, <<>>) /\ fill' = Idle
  /\ marks' = Marked(Top.out, answer) /\ read' = ReadBy(Top.out, answer)
  /\ stack' = Append(Below, Frame("merge", Top.schema, Top.value, <<>>,
                                  Selected(Top.out, answer)))
  /\ Resume
  /\ UNCHANGED <<root, pairs, outputs, frozen, raw, done>>

Filled == fill.next > Len(fill.keys)

\* Mutant: the task stays in the queue.
TakeTaskKeeping ==
  /\ Resumed("merge") /\ Filled /\ tasks # <<>>
  /\ fill' = tasks[Len(tasks)]
  /\ UNCHANGED <<heap, root, calls, pairs, outputs, made, merged, tasks, marks, frozen, history, done>>

TakeTask ==
  /\ Resumed("merge") /\ Filled /\ tasks # <<>>
  /\ fill' = tasks[Len(tasks)]
  /\ tasks' = SubSeq(tasks, 1, Len(tasks) - 1)
  /\ UNCHANGED <<heap, root, calls, pairs, outputs, made, merged, marks, frozen, history, done>>

SlotIn(v, k) ==
  IF heap[v].kind = "array" THEN heap[v].slots[k] ELSE Slot(heap, v, k)

\* mergeDescriptor: one key of the merge.
MergeKey ==
  /\ Resumed("merge") /\ ~Filled
  /\ LET k == fill.keys[fill.next]
         l == SlotIn(fill.left, k)
         r == SlotIn(fill.right, k)
         define(h, slot) == [h EXCEPT ![fill.out] = Defined(@, k, slot)] IN
     IF IsData(l) /\ IsData(r)
       THEN /\ Merges(l, r) => CanMake
            /\ heap' = define(HeapBy(l, r), Selected(l, r))
            /\ made' = MadeBy(l, r) /\ merged' = Recorded(l, r)
            /\ tasks' = Enqueued(l, r, tasks) /\ marks' = Marked(l, r)
            /\ read' = ReadBy(l, r)
       ELSE /\ heap' = IF l = Missing /\ r = Missing THEN heap
                       ELSE define(heap, IF r = Missing THEN l ELSE r)
            /\ UNCHANGED <<made, merged, tasks, marks, read>>
  /\ fill' = [fill EXCEPT !.next = @ + 1]
  /\ UNCHANGED <<root, calls, pairs, outputs, frozen, raw, done>>

FinishMerge ==
  /\ Resumed("merge") /\ Filled /\ tasks = <<>>
  /\ outputs' = (<<Top.schema, Top.value>> :> Top.out) @@ outputs
  /\ Reply(Top.out)
  /\ stack' = Below
  /\ UNCHANGED <<heap, root, pairs, made, merging, marks, frozen, history, done>>

-----------------------------------------------------------------------------
(* Readonly                                                                 *)

\* Mutant: a readonly output is frozen at once.
MarkReadonlyNow ==
  /\ Returned("readonly")
  /\ frozen' = IF IsRef(heap, answer) THEN frozen \cup {answer} ELSE frozen
  /\ Reply(answer)
  /\ stack' = Below
  /\ UNCHANGED <<heap, root, pairs, outputs, made, merging, marks, history, done>>

MarkReadonly ==
  /\ Returned("readonly")
  /\ marks' = IF IsRef(heap, answer) THEN marks \cup {answer} ELSE marks
  /\ Reply(answer)
  /\ stack' = Below
  /\ UNCHANGED <<heap, root, pairs, outputs, made, merging, frozen, history, done>>

\* freezeIntersectionReadonlyOutputs, then check() returns.
Freeze ==
  /\ ~done /\ ~Called /\ stack = <<>>
  /\ frozen' = frozen \cup marks
  /\ done' = TRUE
  /\ UNCHANGED <<heap, root, calls, pairs, outputs, made, merging, marks, history>>

Next ==
  \/ Descend \/ ResolveLazy \/ ReadOutput \/ Revisit \/ Choose \/ Leaf
  \/ Open \/ OpenStripped \/ OpenTwo \/ VisitPlace \/ KeepChange \/ CloseClone
  \/ DefineField \/ CloseStripped \/ AfterBase \/ AfterItem
  \/ AfterLeft \/ AfterRight \/ TakeTask \/ MergeKey \/ FinishMerge
  \/ MarkReadonly \/ Freeze

Spec == Init /\ [][Next]_vars
\* One synchronous call.
FairSpec == Spec /\ WF_vars(Next)

-----------------------------------------------------------------------------
(* What the output of a call should be, whatever the order and the sharing *)
(* in which finalizeValue visits the value: a relation between a schema, a *)
(* value and its output, the greatest one that respects every schema tag,  *)
(* so that it follows cycles.                                              *)

Live == {v \in Value : \A i \in DOMAIN Fresh : v = Fresh[i] => i <= made}

-----------------------------------------------------------------------------
(* The merge of the outputs of an intersection                              *)

SameSlot(W, l, r, o) ==
  CASE l = Missing -> o = r
    [] r = Missing -> o = l
    [] IsData(l) /\ IsData(r) -> IsData(o) /\ <<l, r, o>> \in W
    [] OTHER -> o = r

MergesTo(W, l, r, o) ==
  CASE l = r -> o = l
    [] ~IsRef(heap, l) \/ ~IsRef(heap, r) -> o = r
    [] Both("record", l, r) ->
         /\ heap[o].kind = "record"
         /\ DOMAIN heap[o].own = DOMAIN heap[l].own \cup DOMAIN heap[r].own
         /\ \A k \in DOMAIN heap[o].own :
              SameSlot(W, Slot(heap, l, k), Slot(heap, r, k), Slot(heap, o, k))
    [] Joinable(l, r) ->
         /\ heap[o].kind = "array" /\ DOMAIN heap[o].slots = DOMAIN heap[l].slots
         /\ \A i \in DOMAIN heap[o].slots :
              SameSlot(W, heap[l].slots[i], heap[r].slots[i], heap[o].slots[i])
    [] heap[l].kind = "array" /\ heap[r].kind # "array" -> o = l
    [] heap[l].kind # "record" /\ heap[r].kind = "record" -> o = l
    [] OTHER -> o = r

Merge ==
  LET narrow[W \in SUBSET (Live \X Live \X Live)] ==
        LET keep(kept) == IF kept = W THEN W ELSE narrow[kept]
        IN  keep({t \in W : MergesTo(W, t[1], t[2], t[3])})
  IN  narrow[Live \X Live \X Live]

-----------------------------------------------------------------------------
(* Projection                                                               *)

\* Slot by slot, outputs of the declared places and the rest unchanged.
PlacesProject(W, s, v, o) ==
  LET places == Places(heap, s, v)
      declared == {places[i].at : i \in DOMAIN places}
      same(at) == SlotAt(heap, s, o, at) = SlotAt(heap, s, v, at) IN
  /\ heap[o].kind = heap[v].kind
  /\ Len(heap[o].slots) = Len(heap[v].slots) /\ Len(heap[o].items) = Len(heap[v].items)
  /\ DOMAIN heap[o].own = DOMAIN heap[v].own
  /\ \A i \in DOMAIN places :
       LET at == places[i].at IN
       IF IsData(SlotAt(heap, s, v, at))
         THEN /\ IsData(SlotAt(heap, s, o, at))
              /\ <<places[i].schema, SlotAt(heap, s, v, at), SlotAt(heap, s, o, at)>> \in W
         ELSE same(at)
  /\ Node[s].tag \in {"Object", "Record"} =>
       \A k \in DOMAIN heap[v].own \ declared : same(k)

\* A new object with the declared data fields and no others.
StripProjects(W, s, v, o) ==
  /\ o # v /\ heap[o].kind = "record"
  /\ DOMAIN heap[o].own = {k \in EntryKeys(Node[s]) : IsData(Slot(heap, v, k))}
  /\ \A i \in DOMAIN Node[s].entries :
       LET e == Node[s].entries[i] IN
       e.key \in DOMAIN heap[o].own =>
         <<e.schema, Slot(heap, v, e.key), Slot(heap, o, e.key)>> \in W

PropertyProjects(W, n, v, o) ==
  \E b \in Live :
    /\ <<n.base, v, b>> \in W
    /\ IF IsRef(heap, b) /\ IsData(Slot(heap, b, n.key))
         THEN /\ heap[o].kind = heap[b].kind
              /\ DOMAIN heap[o].own = DOMAIN heap[b].own
              /\ <<n.value, Slot(heap, b, n.key), Slot(heap, o, n.key)>> \in W
              /\ \A k \in DOMAIN heap[b].own \ {n.key} :
                   Slot(heap, o, k) = Slot(heap, b, k)
         ELSE o = b

ProjectsTo(W, merge, denoted, s, v, o) ==
  LET n == Node[s] IN
  CASE n.tag = "Lazy" -> <<n.target, v, o>> \in W
    [] n.tag = "Optional" /\ v = Undefined -> o = v
    [] n.tag = "Nullable" /\ v = Null -> o = v
    [] n.tag \in Transparent \ {"Lazy"} ->
         /\ <<n.inner, v, o>> \in W
         /\ s \in Readonly /\ IsRef(heap, o) => o \in frozen
    [] Alternatives(s) # <<>> ->
         LET matching == SelectSeq(Alternatives(s), LAMBDA a : <<a, v>> \in denoted) IN
         IF matching = <<>> THEN o = v ELSE <<matching[1], v, o>> \in W
    [] n.tag = "Property" -> PropertyProjects(W, n, v, o)
    [] n.tag = "Intersection" ->
         \E l, r \in Live : /\ <<n.left, v, l>> \in W /\ <<n.right, v, r>> \in W
                            /\ <<l, r, o>> \in merge
    [] n.tag \in ContainerTags /\ Holds(heap, s, v) ->
         IF s \in Strip THEN StripProjects(W, s, v, o)
                        ELSE Holds(heap, s, o) /\ PlacesProject(W, s, v, o)
    [] OTHER -> o = v

Projecting(merge, denoted) ==
  LET narrow[W \in SUBSET (Schema \X Live \X Live)] ==
        LET keep(kept) == IF kept = W THEN W ELSE narrow[kept]
        IN  keep({t \in W : ProjectsTo(W, merge, denoted, t[1], t[2], t[3])})
  IN  narrow[Schema \X Live \X Live]

\* The (schema, value, output) triples of this state.
Projection == Projecting(Merge, Denotation(heap))

-----------------------------------------------------------------------------
(* Properties                                                               *)

\* Objects stay well formed, the guard holds references only, and an output is known
\* early only for a pair that was entered (enterFinalizePair, writeFinalizedOutput).
TypeOK ==
  /\ \A v \in Value : Reflects(heap[v])
  /\ request \in Pairs \cup {NoRequest} /\ answer \in Value \cup {NoAnswer}
  /\ pairs \subseteq Pairs /\ raw \subseteq pairs
  /\ \A p \in pairs : IsRef(heap, p[2])
  /\ DOMAIN outputs \subseteq pairs
  /\ made \in 0..Len(Fresh) /\ marks \cup frozen \subseteq Live
  /\ done => stack = <<>>

\* Each output read by a merge or by finalizeProperty was complete.
ReadsComplete == \A r \in read : heap[r[1]] = r[2]

\* The output is what the schema asks for, also on cycles and shared values, unless
\* a pair was visited twice and its value returned as it was where that is not its
\* output, which never happens to an object in strip mode, or a merge read an output
\* that was filled further afterwards.
OutputProjected ==
  LET projected(projection) ==
        ReadsComplete /\ (\A p \in raw : <<p[1], p[2], p[2]>> \in projection)
          => <<root[1], root[2], answer>> \in projection
  IN  done => (\A p \in raw : p[1] \notin Strip) /\ projected(Projection)

\* docs/api.md:550, "The original input object is not mutated"; and nothing is
\* written to an object after it is frozen, which would throw.
WritesOnlyToOwnOutputs ==
  [][\A v \in Value : heap'[v] # heap[v] => v \in NewValues \ frozen]_vars

\* Every call of finalizeAcceptedValue returns, on cyclic values and recursive schemas too.
Returns == <>done
=============================================================================
