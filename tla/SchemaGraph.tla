---------------------------- MODULE SchemaGraph ----------------------------
(***************************************************************************)
(* Schemas, JavaScript values, and the semantic kernel shared by every     *)
(* TypeSea engine (src/plan/schema-predicate.ts).                          *)
(*                                                                         *)
(* A schema is a node of the graph Node; a value is an identity, and a     *)
(* heap h maps it to what reflection shows of it, so values may be shared  *)
(* and cyclic.  The kernel is pure: for one (schema, value) it determines  *)
(* the sequence of local checks and recursive child calls that the code    *)
(* performs, and how their answers combine.  The engines (SchemaPredicate, *)
(* CheckSchema, AsyncValidation) run those sequences.                      *)
(***************************************************************************)
EXTENDS Integers, Sequences, FiniteSets

CONSTANTS
  Schema,     \* identities of schema nodes
  Value,      \* identities of JavaScript values
  Key,        \* property keys, which are values too
  Node,       \* [Schema -> record with a tag and the fields of that tag]
  NoSchema,   \* an absent `rest`, `catchall`, `additional` or record `key`
  Undefined, Null,
  Missing,    \* no own property in a slot
  Accessor    \* an own accessor property: its getter is never run

-----------------------------------------------------------------------------
(* The data model                                                          *)

SlotContent == Value \cup {Missing, Accessor}
EntryType == [key : Key, schema : Schema,
              presence : {"required", "optional", "deferred"},
              resolved : {"required", "optional"}]   \* LazySchema.objectPresence
OptionalSchema == Schema \cup {NoSchema}

\* The fields of each tag.  Scalar stands for every leaf tag, Wrap for brand,
\* metadata, message and readonly; lens and counts are the lengths that pass
\* a node's min and max checks, resolved a lazy node's final target.
WellFormed(n) ==
  CASE n.tag = "Scalar" -> n.accepts \subseteq Value
    [] n.tag \in {"Array", "Set"} -> n.item \in Schema /\ n.lens \subseteq Nat
    [] n.tag = "Tuple"  -> n.items \in Seq(Schema) /\ n.rest \in OptionalSchema
    [] n.tag = "Record" -> /\ n.key \in OptionalSchema /\ n.value \in Schema
                           /\ n.required \subseteq Key
    [] n.tag = "Map"    -> {n.key, n.value} \subseteq Schema /\ n.lens \subseteq Nat
    [] n.tag = "Property" -> {n.base, n.value} \subseteq Schema /\ n.key \in Key
    [] n.tag = "Object" -> /\ n.entries \in Seq(EntryType) /\ n.strict \in BOOLEAN
                           /\ n.catchall \in OptionalSchema
    [] n.tag \in {"Union", "Xor"} -> n.options \in Seq(Schema)
    [] n.tag = "Intersection" -> {n.left, n.right} \subseteq Schema
    [] n.tag \in {"Optional", "Nullable", "Wrap"} -> n.inner \in Schema
    [] n.tag = "Discriminated" ->
         /\ n.key \in Key /\ n.cases \in Seq([literal : Value, schema : Schema])
         /\ \A i, j \in DOMAIN n.cases :
              n.cases[i].literal = n.cases[j].literal => i = j
    [] n.tag = "KeyedObject" -> /\ n.inner \in Schema /\ n.keys \subseteq Key
                                /\ n.exactlyOne \in BOOLEAN
    [] n.tag = "PropertyCount" -> n.inner \in Schema /\ n.counts \subseteq Nat
    [] n.tag = "PropertyNames" -> {n.inner, n.key} \subseteq Schema
    [] n.tag = "PatternProperties" ->
         /\ n.inner \in Schema /\ n.additional \in OptionalSchema
         /\ n.entries \in Seq([match : SUBSET Key, schema : Schema])
         /\ n.known \subseteq Key /\ n.allowAdditional \in BOOLEAN
    [] n.tag = "Lazy" -> n.target \in Schema
    [] n.tag = "Refine" -> n.inner \in Schema /\ n.when \cup n.predicate \subseteq Value
    [] OTHER -> FALSE

\* own is a partial map from keys to slots.
Reflects(r) ==
  /\ r.kind \in {"atom", "array", "record", "map", "set", "function"}
  /\ r.keys \in Seq(Key) /\ r.enum \in Seq(Key)
  /\ \A k \in DOMAIN r.own : k \in Key /\ r.own[k] \in SlotContent
  /\ r.slots \in Seq(SlotContent)
  /\ r.kind = "map" => r.items \in Seq(Value \X Value)
  /\ r.kind = "set" => r.items \in Seq(Value)

ASSUME GraphAssumption ==
  /\ \A s \in Schema : WellFormed(Node[s])
  /\ NoSchema \notin Schema
  /\ Key \subseteq Value /\ Undefined \in Value
  /\ {Missing, Accessor} \cap Value = {}

-----------------------------------------------------------------------------
(* Reflection on a value                                                   *)

IsRef(h, v) == h[v].kind \in {"array", "record", "map", "set", "function"}
IsRecord(h, v) == h[v].kind \in {"record", "map", "set"}   \* isPlainRecord
HasSlots(h, v) == IsRef(h, v)
OwnKeys(h, v) == h[v].keys                  \* Reflect.ownKeys, in order
EnumKeys(h, v) == h[v].enum                 \* the enumerable string keys
Slot(h, v, k) == IF k \in DOMAIN h[v].own THEN h[v].own[k] ELSE Missing
IsData(slot) == slot \notin {Missing, Accessor}

-----------------------------------------------------------------------------
(* What a kernel call does next: a local check or a child call.            *)

Check(b) == [call |-> FALSE, ok |-> b, schema |-> NoSchema, value |-> Undefined]
Call(s, v) == [call |-> TRUE, ok |-> FALSE, schema |-> s, value |-> v]

Item == {item \in [call : BOOLEAN, ok : BOOLEAN,
                   schema : Schema \cup {NoSchema}, value : Value] :
           item.call => item.schema \in Schema}

\* Validate the data of a slot; anything but own data fails.
DataItem(s, slot) == IF IsData(slot) THEN Call(s, slot) ELSE Check(FALSE)

-----------------------------------------------------------------------------
(* Static analyses.  Schemas are finite trees between lazy nodes, so both   *)
(* are exact after as many rounds as there are schema nodes.                *)

Options(s) == {Node[s].options[i] : i \in DOMAIN Node[s].options}

\* Mutant: a refinement is taken to accept what its inner schema accepts.
CanAcceptUndefinedRefined ==
  LET Takes(n, f) ==
        CASE n.tag = "Scalar"       -> Undefined \in n.accepts
          [] n.tag = "Optional"     -> TRUE
          [] n.tag = "Union"        -> \E i \in DOMAIN n.options : f[n.options[i]]
          [] n.tag = "Intersection" -> f[n.left] /\ f[n.right]
          [] n.tag \in {"Nullable", "Wrap", "Refine"} -> f[n.inner]
          [] OTHER -> FALSE
      rounds[k \in 0..Cardinality(Schema)] ==
        IF k = 0 THEN [s \in Schema |-> FALSE]
        ELSE LET previous == rounds[k - 1]
             IN  [s \in Schema |-> Takes(Node[s], previous)]
  IN  rounds[Cardinality(Schema)]

\* schemaCanAcceptUndefined: lazy and refine nodes are opaque.
CanAcceptUndefined ==
  LET Takes(n, f) ==
        CASE n.tag = "Scalar"       -> Undefined \in n.accepts
          [] n.tag = "Optional"     -> TRUE
          [] n.tag = "Union"        -> \E i \in DOMAIN n.options : f[n.options[i]]
          [] n.tag = "Xor"          ->
               Cardinality({i \in DOMAIN n.options : f[n.options[i]]}) = 1
          [] n.tag = "Intersection" -> f[n.left] /\ f[n.right]
          [] n.tag \in {"Nullable", "Wrap"} -> f[n.inner]
          [] OTHER -> FALSE
      rounds[k \in 0..Cardinality(Schema)] ==
        IF k = 0 THEN [s \in Schema |-> FALSE]
        ELSE LET previous == rounds[k - 1]
             IN  [s \in Schema |-> Takes(Node[s], previous)]
  IN  rounds[Cardinality(Schema)]

\* The children a tracking analysis descends into.  An object's catchall is
\* not one of them (src/plan/cache.ts, objectEntriesRequireTracking).
TrackedChildren(s) ==
  LET n == Node[s] IN
  (CASE n.tag \in {"Array", "Set"} -> {n.item}
     [] n.tag = "Tuple"  -> {n.items[i] : i \in DOMAIN n.items} \cup {n.rest}
     [] n.tag \in {"Record", "Map"} -> {n.key, n.value}
     [] n.tag = "Property" -> {n.base, n.value}
     [] n.tag = "Object" -> {n.entries[i].schema : i \in DOMAIN n.entries}
     [] n.tag \in {"Union", "Xor"} -> Options(s)
     [] n.tag = "Intersection" -> {n.left, n.right}
     [] n.tag = "Discriminated" -> {n.cases[i].schema : i \in DOMAIN n.cases}
     [] n.tag \in {"Optional", "Nullable", "Wrap", "Refine",
                   "KeyedObject", "PropertyCount"} -> {n.inner}
     [] n.tag = "PropertyNames" -> {n.inner, n.key}
     [] n.tag = "PatternProperties" ->
          {n.inner, n.additional} \cup {n.entries[i].schema : i \in DOMAIN n.entries}
     [] OTHER -> {}) \ {NoSchema}

\* Mutant: a lazy node whose target seems free of recursion is not tracked.
RequiresTrackingUnrolled ==
  LET rounds[k \in 0..Cardinality(Schema)] ==
        IF k = 0 THEN {s \in Schema : Node[s].tag = "Lazy"}
        ELSE LET previous == rounds[k - 1]
             IN  {s \in Schema : s \in previous \/ TrackedChildren(s) \cap previous # {}}
      found == rounds[Cardinality(Schema)]
  IN  {s \in found : Node[s].tag = "Lazy" => Node[s].target \in found}

\* schemaRequiresTracking: a lazy node is reachable.
RequiresTracking ==
  LET rounds[k \in 0..Cardinality(Schema)] ==
        IF k = 0 THEN {s \in Schema : Node[s].tag = "Lazy"}
        ELSE LET previous == rounds[k - 1]
             IN  {s \in Schema : s \in previous \/ TrackedChildren(s) \cap previous # {}}
  IN  rounds[Cardinality(Schema)]

-----------------------------------------------------------------------------
(* The kernel, one operator per group of schema tags                        *)

ArrayItems(h, n, v) ==
  LET slots == h[v].slots IN
  IF h[v].kind # "array" \/ Len(slots) \notin n.lens THEN <<Check(FALSE)>>
  ELSE [i \in 1..Len(slots) |->
          CASE slots[i] = Accessor -> Check(FALSE)
            [] slots[i] = Missing  ->
                 IF CanAcceptUndefined[n.item] THEN Check(TRUE)   \* hole skipped
                                               ELSE Call(n.item, Undefined)
            [] OTHER -> Call(n.item, slots[i])]

TupleItems(h, n, v) ==
  LET slots == h[v].slots
      count == Len(n.items) IN
  IF \/ h[v].kind # "array"
     \/ n.rest = NoSchema /\ Len(slots) # count
     \/ Len(slots) < count
  THEN <<Check(FALSE)>>
  ELSE [i \in 1..Len(slots) |->
          LET s == IF i <= count THEN n.items[i] ELSE n.rest IN
          CASE slots[i] = Accessor -> Check(FALSE)
            [] slots[i] = Missing  -> Call(s, Undefined)
            [] OTHER -> Call(s, slots[i])]

\* A record with strict keys; each key is validated before its value.
RecordItems(h, n, v) ==
  LET keys == EnumKeys(h, v) IN
  IF \/ ~IsRecord(h, v)
     \/ \E k \in n.required :
          ~IsData(Slot(h, v, k)) \/ \A i \in DOMAIN keys : keys[i] # k
  THEN <<Check(FALSE)>>
  ELSE [i \in 1..(2 * Len(keys)) |->
          LET k == keys[(i + 1) \div 2] IN
          IF i % 2 = 1
            THEN IF n.key = NoSchema THEN Check(TRUE) ELSE Call(n.key, k)
            ELSE DataItem(n.value, Slot(h, v, k))]

MapItems(h, n, v) ==
  IF h[v].kind # "map" \/ Len(h[v].items) \notin n.lens THEN <<Check(FALSE)>>
  ELSE [i \in 1..(2 * Len(h[v].items)) |->
          LET pair == h[v].items[(i + 1) \div 2] IN
          IF i % 2 = 1 THEN Call(n.key, pair[1]) ELSE Call(n.value, pair[2])]

SetItems(h, n, v) ==
  IF h[v].kind # "set" \/ Len(h[v].items) \notin n.lens THEN <<Check(FALSE)>>
  ELSE [i \in 1..Len(h[v].items) |-> Call(n.item, h[v].items[i])]

PropertyItems(h, n, v) ==
  <<Call(n.base, v),
    IF HasSlots(h, v) THEN DataItem(n.value, Slot(h, v, n.key)) ELSE Check(FALSE)>>

\* An omitted entry passes only when its presence, resolved now, is optional.
EntryItem(h, e, v) ==
  LET slot == Slot(h, v, e.key)
      presence == IF e.presence = "deferred" THEN e.resolved ELSE e.presence IN
  IF IsData(slot) THEN Call(e.schema, slot)
  ELSE Check(slot = Missing /\ presence = "optional")

EntryKeys(n) == {n.entries[i].key : i \in DOMAIN n.entries}

CatchallItems(h, n, v) ==
  LET keys == OwnKeys(h, v) IN
  [i \in 1..Len(keys) |->
     IF keys[i] \in EntryKeys(n) THEN Check(TRUE)
     ELSE DataItem(n.catchall, Slot(h, v, keys[i]))]

\* Strict mode counts keys when every entry is required, else looks each up.
StrictCheck(h, n, v) ==
  LET keys == OwnKeys(h, v) IN
  IF \A i \in DOMAIN n.entries : n.entries[i].presence = "required"
    THEN Len(keys) = Len(n.entries)
    ELSE \A i \in DOMAIN keys : keys[i] \in EntryKeys(n)

ObjectItems(h, n, v) ==
  IF ~IsRecord(h, v) THEN <<Check(FALSE)>>
  ELSE [i \in 1..Len(n.entries) |-> EntryItem(h, n.entries[i], v)] \o
       IF n.catchall # NoSchema THEN CatchallItems(h, n, v)
       ELSE <<Check(n.strict => StrictCheck(h, n, v))>>

DiscriminatedItems(h, n, v) ==
  LET slot == IF IsRecord(h, v) THEN Slot(h, v, n.key) ELSE Missing
      hits == {i \in DOMAIN n.cases : n.cases[i].literal = slot} IN
  IF IsData(slot) /\ hits # {}
    THEN <<Call(n.cases[CHOOSE i \in hits : TRUE].schema, v)>>
    ELSE <<Check(FALSE)>>

KeyRuleHolds(h, n, v) ==
  LET present == {k \in n.keys : IsData(Slot(h, v, k))} IN
  /\ IsRecord(h, v)
  /\ IF n.exactlyOne THEN Cardinality(present) = 1 ELSE present # {}

PropertyNameItems(h, n, v) ==
  IF ~IsRecord(h, v) THEN <<Check(FALSE)>>
  ELSE [i \in 1..Len(EnumKeys(h, v)) |-> Call(n.key, EnumKeys(h, v)[i])]

\* For each key: every matching pattern in turn, then the rule for unmatched keys.
PatternItem(h, n, v, k, e) ==
  LET matched == \E i \in DOMAIN n.entries : k \in n.entries[i].match IN
  IF e <= Len(n.entries)
    THEN IF k \in n.entries[e].match
           THEN DataItem(n.entries[e].schema, Slot(h, v, k))
           ELSE Check(TRUE)
  ELSE IF matched \/ k \in n.known THEN Check(TRUE)
  ELSE IF n.additional # NoSchema THEN DataItem(n.additional, Slot(h, v, k))
  ELSE Check(n.allowAdditional)

PatternItems(h, n, v) ==
  LET keys == EnumKeys(h, v)
      width == Len(n.entries) + 1 IN
  IF ~IsRecord(h, v) THEN <<Check(FALSE)>>
  ELSE [i \in 1..(width * Len(keys)) |->
          PatternItem(h, n, v, keys[((i - 1) \div width) + 1], ((i - 1) % width) + 1)]

NodeItems(h, n, v) ==
  CASE n.tag = "Scalar" -> <<Check(v \in n.accepts)>>
    [] n.tag = "Array"  -> ArrayItems(h, n, v)
    [] n.tag = "Tuple"  -> TupleItems(h, n, v)
    [] n.tag = "Record" -> RecordItems(h, n, v)
    [] n.tag = "Map"    -> MapItems(h, n, v)
    [] n.tag = "Set"    -> SetItems(h, n, v)
    [] n.tag = "Property" -> PropertyItems(h, n, v)
    [] n.tag = "Object" -> ObjectItems(h, n, v)
    [] n.tag \in {"Union", "Xor"} ->
         [i \in 1..Len(n.options) |-> Call(n.options[i], v)]
    [] n.tag = "Intersection" -> <<Call(n.left, v), Call(n.right, v)>>
    [] n.tag = "Optional" -> <<Check(v = Undefined), Call(n.inner, v)>>
    [] n.tag = "Nullable" -> <<Check(v = Null), Call(n.inner, v)>>
    [] n.tag = "Discriminated" -> DiscriminatedItems(h, n, v)
    [] n.tag = "Wrap" -> <<Call(n.inner, v)>>
    [] n.tag = "KeyedObject" -> <<Call(n.inner, v), Check(KeyRuleHolds(h, n, v))>>
    [] n.tag = "PropertyCount" ->
         <<Call(n.inner, v),
           Check(IsRecord(h, v) /\ Len(EnumKeys(h, v)) \in n.counts)>>
    [] n.tag = "PropertyNames" -> <<Call(n.inner, v)>> \o PropertyNameItems(h, n, v)
    [] n.tag = "PatternProperties" -> <<Call(n.inner, v)>> \o PatternItems(h, n, v)
    [] n.tag = "Lazy" -> <<Call(n.target, v)>>
    [] n.tag = "Refine" ->
         <<Call(n.inner, v), Check(v \in n.when => v \in n.predicate)>>

Items(h, s, v) == NodeItems(h, Node[s], v)

\* How the answers combine: every one, the first accepted, or exactly one.
Combine(s) ==
  CASE Node[s].tag \in {"Union", "Optional", "Nullable"} -> "any"
    [] Node[s].tag = "Xor" -> "one"
    [] OTHER -> "all"
=============================================================================
