----------------------- MODULE SchemaDenotationProofs -----------------------
(***************************************************************************)
(* Lemmas about the meaning of a schema graph, for every heap h.           *)
(***************************************************************************)
EXTENDS SchemaDenotation, FiniteSetTheorems, SequenceTheorems, WellFoundedInduction, TLAPS

-----------------------------------------------------------------------------
(* The kernel: every item sequence is well typed                           *)

\* The items whose calls stay in T.
Within(T) == {item \in Item : item.call => item.schema \in T}

\* Checks and calls are items.
LEMMA ItemTypes ==
  ASSUME NEW T \in SUBSET Schema
  PROVE
  /\ \A b \in BOOLEAN : Check(b) \in Within(T)
  /\ \A s \in T, v \in Value : Call(s, v) \in Within(T)
  /\ \A s \in T, c \in SlotContent : DataItem(s, c) \in Within(T)
  BY GraphAssumption DEF Check, Call, DataItem, IsData, Item, Within, SlotContent

\* A slot read yields a value or one of the two absence marks.
LEMMA SlotType ==
  ASSUME NEW h, \A u \in Value : Reflects(h[u]), NEW v \in Value, NEW k
  PROVE  Slot(h, v, k) \in SlotContent
  BY DEF Slot, Reflects, SlotContent

\* A function on 1..n with typed elements is a typed sequence.
LEMMA SequenceOf ==
  ASSUME NEW S, NEW n \in Nat, NEW f \in [1..n -> S]
  PROVE  f \in Seq(S)
  OBVIOUS

LEMMA CheckSequence ==
  ASSUME NEW T \in SUBSET Schema
  PROVE  \A b \in BOOLEAN : <<Check(b)>> \in Seq(Within(T))
  BY GraphAssumption DEF Check, Item, Within

LEMMA ArrayItemsType ==
  ASSUME NEW h, \A u \in Value : Reflects(h[u]), NEW T \in SUBSET Schema,
         NEW n, NEW v \in Value, n.item \in T
  PROVE  ArrayItems(h, n, v) \in Seq(Within(T))
<1> DEFINE slots == h[v].slots
           item(i) == CASE slots[i] = Accessor -> Check(FALSE)
                        [] slots[i] = Missing  ->
                             IF CanAcceptUndefined[n.item]
                               THEN Check(TRUE) ELSE Call(n.item, Undefined)
                        [] OTHER -> Call(n.item, slots[i])
<1>1. slots \in Seq(SlotContent)
  BY DEF Reflects
<1> HIDE DEF slots
<1>2. \A i \in 1..Len(slots) : item(i) \in Within(T)
  BY <1>1, GraphAssumption DEF SlotContent, Check, Call, Item, Within
<1> HIDE DEF item
<1>3. [i \in 1..Len(slots) |-> item(i)] \in [1..Len(slots) -> Within(T)]
  BY <1>2
<1>4. [i \in 1..Len(slots) |-> item(i)] \in Seq(Within(T))
  BY <1>1, <1>3, SequenceOf
<1> QED
  BY <1>4, CheckSequence DEF ArrayItems, slots, item

LEMMA TupleItemsType ==
  ASSUME NEW h, \A u \in Value : Reflects(h[u]), NEW T \in SUBSET Schema,
         NEW n, NEW v \in Value, n.items \in Seq(T),
         n.rest \in T \cup {NoSchema}
  PROVE  TupleItems(h, n, v) \in Seq(Within(T))
<1> DEFINE slots == h[v].slots
           count == Len(n.items)
           s(i) == IF i <= count THEN n.items[i] ELSE n.rest
           item(i) == CASE slots[i] = Accessor -> Check(FALSE)
                        [] slots[i] = Missing  -> Call(s(i), Undefined)
                        [] OTHER -> Call(s(i), slots[i])
<1>1. slots \in Seq(SlotContent)
  BY DEF Reflects
<1> HIDE DEF slots
<1>2. CASE ~(n.rest = NoSchema /\ Len(slots) # count)
  <2>1. \A i \in 1..Len(slots) : s(i) \in T
    BY <1>1, <1>2
  <2> HIDE DEF s
  <2>2. \A i \in 1..Len(slots) : item(i) \in Within(T)
    BY <1>1, <2>1, GraphAssumption DEF SlotContent, Check, Call, Item, Within
  <2> HIDE DEF item
  <2>3. [i \in 1..Len(slots) |-> item(i)] \in Seq(Within(T))
    BY <1>1, <2>2, SequenceOf
  <2> QED
    BY <2>3, CheckSequence DEF TupleItems, slots, item, s
<1>3. CASE n.rest = NoSchema /\ Len(slots) # count
  BY <1>3, CheckSequence DEF TupleItems, slots
<1> QED
  BY <1>2, <1>3

LEMMA RecordItemsType ==
  ASSUME NEW h, \A u \in Value : Reflects(h[u]), NEW T \in SUBSET Schema,
         NEW n, NEW v \in Value, n.key \in T \cup {NoSchema}, n.value \in T
  PROVE  RecordItems(h, n, v) \in Seq(Within(T))
<1> DEFINE keys == EnumKeys(h, v)
           item(i) == LET k == keys[(i + 1) \div 2] IN
                      IF i % 2 = 1
                        THEN IF n.key = NoSchema THEN Check(TRUE) ELSE Call(n.key, k)
                        ELSE DataItem(n.value, Slot(h, v, k))
<1>1. keys \in Seq(Key)
  BY DEF Reflects, EnumKeys
<1> HIDE DEF keys
<1>2. 2 * Len(keys) \in Nat
  BY <1>1
<1>3. ASSUME NEW i \in 1..(2 * Len(keys))
      PROVE  item(i) \in Within(T)
  <2>1. (i + 1) \div 2 \in 1..Len(keys)
    BY <1>1
  <2>2. keys[(i + 1) \div 2] \in Value
    BY <1>1, <2>1, GraphAssumption
  <2>3. DataItem(n.value, Slot(h, v, keys[(i + 1) \div 2])) \in Within(T)
    BY SlotType, ItemTypes
  <2>4. Check(TRUE) \in Within(T)
    BY GraphAssumption DEF Check, Item, Within
  <2>5. n.key # NoSchema => Call(n.key, keys[(i + 1) \div 2]) \in Within(T)
    BY <2>2, ItemTypes
  <2> QED
    BY <2>3, <2>4, <2>5
<1> HIDE DEF item
<1>4. [i \in 1..(2 * Len(keys)) |-> item(i)] \in Seq(Within(T))
  BY <1>2, <1>3, SequenceOf
<1> QED
  BY <1>4, CheckSequence DEF RecordItems, keys, item

LEMMA MapItemsType ==
  ASSUME NEW h, \A u \in Value : Reflects(h[u]), NEW T \in SUBSET Schema,
         NEW n, NEW v \in Value, {n.key, n.value} \subseteq T
  PROVE  MapItems(h, n, v) \in Seq(Within(T))
<1>1. CASE h[v].kind # "map"
  BY <1>1, CheckSequence DEF MapItems
<1>2. CASE h[v].kind = "map"
  <2> DEFINE pairs == h[v].items
             item(i) == LET pair == pairs[(i + 1) \div 2] IN
                        IF i % 2 = 1 THEN Call(n.key, pair[1])
                                     ELSE Call(n.value, pair[2])
  <2>1. pairs \in Seq(Value \X Value)
    BY <1>2 DEF Reflects
  <2> HIDE DEF pairs
  <2>2. 2 * Len(pairs) \in Nat
    BY <2>1
  <2>3. ASSUME NEW i \in 1..(2 * Len(pairs))
        PROVE  item(i) \in Within(T)
    <3>1. (i + 1) \div 2 \in 1..Len(pairs)
      BY <2>1
    <3>2. pairs[(i + 1) \div 2] \in Value \X Value
      BY <2>1, <3>1
    <3> QED
      BY <3>2, ItemTypes
  <2> HIDE DEF item
  <2>4. [i \in 1..(2 * Len(pairs)) |-> item(i)] \in Seq(Within(T))
    BY <2>2, <2>3, SequenceOf
  <2> QED
    BY <2>4, CheckSequence DEF MapItems, pairs, item
<1> QED
  BY <1>1, <1>2

LEMMA SetItemsType ==
  ASSUME NEW h, \A u \in Value : Reflects(h[u]), NEW T \in SUBSET Schema,
         NEW n, NEW v \in Value, n.item \in T
  PROVE  SetItems(h, n, v) \in Seq(Within(T))
<1>1. CASE h[v].kind # "set"
  BY <1>1, CheckSequence DEF SetItems
<1>2. CASE h[v].kind = "set"
  <2> DEFINE members == h[v].items
             item(i) == Call(n.item, members[i])
  <2>1. members \in Seq(Value)
    BY <1>2 DEF Reflects
  <2> HIDE DEF members
  <2>2. \A i \in 1..Len(members) : item(i) \in Within(T)
    BY <2>1, ItemTypes
  <2> HIDE DEF item
  <2>3. [i \in 1..Len(members) |-> item(i)] \in Seq(Within(T))
    BY <2>1, <2>2, SequenceOf
  <2> QED
    BY <2>3, CheckSequence DEF SetItems, members, item
<1> QED
  BY <1>1, <1>2

LEMMA PropertyItemsType ==
  ASSUME NEW h, \A u \in Value : Reflects(h[u]), NEW T \in SUBSET Schema,
         NEW n, NEW v \in Value, {n.base, n.value} \subseteq T
  PROVE  PropertyItems(h, n, v) \in Seq(Within(T))
<1> DEFINE data == IF HasSlots(h, v) THEN DataItem(n.value, Slot(h, v, n.key))
                                        ELSE Check(FALSE)
<1>1. data \in Within(T)
  BY SlotType, ItemTypes, GraphAssumption DEF Check, Item, Within
<1>2. Call(n.base, v) \in Within(T)
  BY ItemTypes
<1>3. PropertyItems(h, n, v) = <<Call(n.base, v), data>>
  BY DEF PropertyItems
<1> HIDE DEF data
<1> QED
  BY <1>1, <1>2, <1>3

LEMMA ObjectItemsType ==
  ASSUME NEW h, \A u \in Value : Reflects(h[u]), NEW T \in SUBSET Schema,
         NEW n, NEW v \in Value, n.entries \in Seq(EntryType),
         \A i \in DOMAIN n.entries : n.entries[i].schema \in T,
         n.strict \in BOOLEAN, n.catchall \in T \cup {NoSchema}
  PROVE  ObjectItems(h, n, v) \in Seq(Within(T))
<1> DEFINE entry(i) == EntryItem(h, n.entries[i], v)
           keys == OwnKeys(h, v)
           extra(i) == IF keys[i] \in EntryKeys(n) THEN Check(TRUE)
                       ELSE DataItem(n.catchall, Slot(h, v, keys[i]))
<1>1. ASSUME NEW e \in EntryType, e.schema \in T
      PROVE  EntryItem(h, e, v) \in Within(T)
  <2>1. \A b \in BOOLEAN : Check(b) \in Within(T)
    BY ItemTypes
  <2>2. \A u \in Value : Call(e.schema, u) \in Within(T)
    BY <1>1, ItemTypes
  <2>3. Slot(h, v, e.key) \in SlotContent
    BY SlotType
  <2> QED
    BY <2>1, <2>2, <2>3 DEF EntryItem, IsData, SlotContent
<1>2. \A i \in 1..Len(n.entries) : entry(i) \in Within(T)
  BY <1>1
<1> HIDE DEF entry
<1>3. [i \in 1..Len(n.entries) |-> entry(i)] \in Seq(Within(T))
  BY <1>2, SequenceOf
<1>4. keys \in Seq(Key)
  BY DEF Reflects, OwnKeys
<1> HIDE DEF keys
<1>5. ASSUME n.catchall # NoSchema
      PROVE  CatchallItems(h, n, v) \in Seq(Within(T))
  <2>1. \A i \in 1..Len(keys) : extra(i) \in Within(T)
    BY <1>5, SlotType, ItemTypes, GraphAssumption DEF Check, Item, Within
  <2> HIDE DEF extra
  <2>2. [i \in 1..Len(keys) |-> extra(i)] \in Seq(Within(T))
    BY <1>4, <2>1, SequenceOf
  <2> QED
    BY <2>2 DEF CatchallItems, keys, extra
<1>6. <<Check(n.strict => StrictCheck(h, n, v))>> \in Seq(Within(T))
  BY GraphAssumption DEF Check, Item, Within
<1>7. CASE IsRecord(h, v)
  <2> DEFINE closing == IF n.catchall # NoSchema THEN CatchallItems(h, n, v)
                        ELSE <<Check(n.strict => StrictCheck(h, n, v))>>
  <2>1. closing \in Seq(Within(T))
    BY <1>5, <1>6
  <2>2. ObjectItems(h, n, v) = [i \in 1..Len(n.entries) |-> entry(i)] \o closing
    BY <1>7 DEF ObjectItems, entry
  <2> HIDE DEF closing
  <2> QED
    BY <1>3, <2>1, <2>2
<1> QED
  BY <1>7, CheckSequence DEF ObjectItems

LEMMA DiscriminatedItemsType ==
  ASSUME NEW h, \A u \in Value : Reflects(h[u]), NEW T \in SUBSET Schema,
         NEW n, NEW v \in Value,
         n.cases \in Seq([literal : Value, schema : Schema]),
         \A i \in DOMAIN n.cases : n.cases[i].schema \in T
  PROVE  DiscriminatedItems(h, n, v) \in Seq(Within(T))
<1> DEFINE slot == IF IsRecord(h, v) THEN Slot(h, v, n.key) ELSE Missing
           hits == {i \in DOMAIN n.cases : n.cases[i].literal = slot}
           case == CHOOSE i \in hits : TRUE
<1>1. CASE IsData(slot) /\ hits # {}
  <2>1. case \in 1..Len(n.cases)
    BY <1>1
  <2>2. DiscriminatedItems(h, n, v) = <<Call(n.cases[case].schema, v)>>
    BY <1>1 DEF DiscriminatedItems
  <2> HIDE DEF case
  <2>3. n.cases[case].schema \in T
    BY <2>1
  <2>4. Call(n.cases[case].schema, v) \in Within(T)
    BY <2>3, ItemTypes
  <2> QED
    BY <2>2, <2>4
<1>2. CASE ~(IsData(slot) /\ hits # {})
  <2>1. DiscriminatedItems(h, n, v) = <<Check(FALSE)>>
    BY <1>2 DEF DiscriminatedItems
  <2> QED
    BY <2>1, CheckSequence
<1> QED
  BY <1>1, <1>2

LEMMA PropertyNameItemsType ==
  ASSUME NEW h, \A u \in Value : Reflects(h[u]), NEW T \in SUBSET Schema,
         NEW n, NEW v \in Value, n.key \in T
  PROVE  PropertyNameItems(h, n, v) \in Seq(Within(T))
<1> DEFINE keys == EnumKeys(h, v)
           item(i) == Call(n.key, keys[i])
<1>1. keys \in Seq(Key)
  BY DEF Reflects, EnumKeys
<1> HIDE DEF keys
<1>2. \A i \in 1..Len(keys) : item(i) \in Within(T)
  BY <1>1, ItemTypes, GraphAssumption
<1> HIDE DEF item
<1>3. [i \in 1..Len(keys) |-> item(i)] \in Seq(Within(T))
  BY <1>1, <1>2, SequenceOf
<1> QED
  BY <1>3, CheckSequence DEF PropertyNameItems, keys, item

LEMMA PatternItemsType ==
  ASSUME NEW h, \A u \in Value : Reflects(h[u]), NEW T \in SUBSET Schema,
         NEW n, NEW v \in Value, n.additional \in T \cup {NoSchema},
         n.entries \in Seq([match : SUBSET Key, schema : Schema]),
         \A i \in DOMAIN n.entries : n.entries[i].schema \in T,
         n.allowAdditional \in BOOLEAN
  PROVE  PatternItems(h, n, v) \in Seq(Within(T))
<1> DEFINE keys == EnumKeys(h, v)
           width == Len(n.entries) + 1
           item(i) == PatternItem(h, n, v, keys[((i - 1) \div width) + 1],
                                  ((i - 1) % width) + 1)
<1>1. keys \in Seq(Key)
  BY DEF Reflects, EnumKeys
<1>2. width \in Nat \ {0}
  OBVIOUS
<1>3. ASSUME NEW k, NEW e \in Nat \ {0}
      PROVE  PatternItem(h, n, v, k, e) \in Within(T)
  <2>1. Check(TRUE) \in Within(T) /\ Check(n.allowAdditional) \in Within(T)
    BY GraphAssumption DEF Check, Item, Within
  <2>2. \A s \in T : DataItem(s, Slot(h, v, k)) \in Within(T)
    BY SlotType, ItemTypes
  <2>3. ASSUME e <= Len(n.entries)
        PROVE  n.entries[e].schema \in T
    BY <2>3
  <2> QED
    BY <2>1, <2>2, <2>3 DEF PatternItem
<1> HIDE DEF keys, width
<1>4. width * Len(keys) \in Nat
  BY <1>1, <1>2
<1>5. \A i \in 1..(width * Len(keys)) : item(i) \in Within(T)
  <2> TAKE i \in 1..(width * Len(keys))
  <2>1. ((i - 1) % width) + 1 \in Nat \ {0}
    BY <1>2, <1>4
  <2> QED
    BY <1>3, <2>1
<1> HIDE DEF item
<1>6. [i \in 1..(width * Len(keys)) |-> item(i)] \in Seq(Within(T))
  BY <1>4, <1>5, SequenceOf
<1> QED
  BY <1>6, CheckSequence DEF PatternItems, keys, width, item

LEMMA EntrySchemas ==
  ASSUME NEW s \in Schema
  PROVE  /\ Node[s].tag \in {"Object", "PatternProperties"} =>
              \A i \in DOMAIN Node[s].entries : Node[s].entries[i].schema \in Schema
         /\ Node[s].tag = "Discriminated" =>
              \A i \in DOMAIN Node[s].cases : Node[s].cases[i].schema \in Schema
<1>1. WellFormed(Node[s])
  BY GraphAssumption
<1>2. ASSUME Node[s].tag = "Object", NEW i \in DOMAIN Node[s].entries
      PROVE  Node[s].entries[i].schema \in Schema
  <2>1. Node[s].entries \in Seq(EntryType)
    BY <1>1, <1>2 DEF WellFormed
  <2>2. Node[s].entries[i] \in EntryType
    BY <1>2, <2>1
  <2> QED
    BY <2>2 DEF EntryType
<1>3. ASSUME Node[s].tag = "PatternProperties", NEW i \in DOMAIN Node[s].entries
      PROVE  Node[s].entries[i].schema \in Schema
  <2>1. Node[s].entries \in Seq([match : SUBSET Key, schema : Schema])
    BY <1>1, <1>3 DEF WellFormed
  <2>2. i \in 1..Len(Node[s].entries)
    BY <1>3, <2>1
  <2>3. Node[s].entries[i] \in [match : SUBSET Key, schema : Schema]
    BY <2>1, <2>2, ElementOfSeq
  <2> QED
    BY <2>3
<1>4. ASSUME Node[s].tag = "Discriminated", NEW i \in DOMAIN Node[s].cases
      PROVE  Node[s].cases[i].schema \in Schema
  <2>1. Node[s].cases \in Seq([literal : Value, schema : Schema])
    BY <1>1, <1>4 DEF WellFormed
  <2>2. i \in 1..Len(Node[s].cases)
    BY <1>4, <2>1
  <2>3. Node[s].cases[i] \in [literal : Value, schema : Schema]
    BY <2>1, <2>2, ElementOfSeq
  <2> QED
    BY <2>3
<1> QED
  BY <1>2, <1>3, <1>4

\* The callees of a schema are schemas of the graph.
LEMMA CalleesAreSchemas ==
  ASSUME NEW s \in Schema
  PROVE  Callees(s) \in SUBSET Schema
<1> DEFINE n == Node[s]
<1>1. WellFormed(n)
  BY GraphAssumption
<1>2. TrackedChildren(s) \subseteq Schema
  <2>1. CASE n.tag \in {"Object", "PatternProperties", "Discriminated"}
    BY <2>1, <1>1, EntrySchemas DEF WellFormed, TrackedChildren, OptionalSchema
  <2>2. CASE n.tag \notin {"Object", "PatternProperties", "Discriminated"}
    BY <2>2, <1>1 DEF WellFormed, TrackedChildren, Options, OptionalSchema
  <2> QED
    BY <2>1, <2>2
<1> QED
  BY <1>1, <1>2 DEF WellFormed, Callees, OptionalSchema

\* Every kernel step of every schema node is a check or a call of one of its callees.
LEMMA ItemsType ==
  ASSUME NEW h, \A u \in Value : Reflects(h[u]), NEW s \in Schema, NEW v \in Value
  PROVE  Items(h, s, v) \in Seq(Within(Callees(s)))
<1> DEFINE n == Node[s]
           T == Callees(s)
<1>t. T \in SUBSET Schema
  BY CalleesAreSchemas
<1>0. WellFormed(n)
  BY GraphAssumption
<1> SUFFICES Items(h, s, v) \in Seq(Within(T))
  OBVIOUS
<1> HIDE DEF T
<1>a. \A b \in BOOLEAN : Check(b) \in Within(T)
  BY <1>t, ItemTypes
<1>b. \A t \in T : Call(t, v) \in Within(T)
  BY <1>t, ItemTypes
<1>1. CASE n.tag = "Array"
  <2>1. Items(h, s, v) = ArrayItems(h, n, v)
    BY <1>1 DEF Items, NodeItems
  <2>2. n.item \in T
    BY <1>1, <1>0, GraphAssumption DEF WellFormed, T, Callees, TrackedChildren, Options, OptionalSchema, EntryType
  <2> QED
    BY <1>t, <2>1, <2>2, ArrayItemsType
<1>2. CASE n.tag = "Tuple"
  <2>1. Items(h, s, v) = TupleItems(h, n, v)
    BY <1>2 DEF Items, NodeItems
  <2>2. n.items \in Seq(T) /\ n.rest \in T \cup {NoSchema}
    BY <1>2, <1>0, GraphAssumption DEF WellFormed, T, Callees, TrackedChildren, Options, OptionalSchema, EntryType
  <2> QED
    BY <1>t, <2>1, <2>2, TupleItemsType
<1>3. CASE n.tag = "Record"
  <2>1. Items(h, s, v) = RecordItems(h, n, v)
    BY <1>3 DEF Items, NodeItems
  <2>2. n.key \in T \cup {NoSchema} /\ n.value \in T
    BY <1>3, <1>0, GraphAssumption DEF WellFormed, T, Callees, TrackedChildren, Options, OptionalSchema, EntryType
  <2> QED
    BY <1>t, <2>1, <2>2, RecordItemsType
<1>4. CASE n.tag = "Map"
  <2>1. Items(h, s, v) = MapItems(h, n, v)
    BY <1>4 DEF Items, NodeItems
  <2>2. {n.key, n.value} \subseteq T
    BY <1>4, <1>0, GraphAssumption DEF WellFormed, T, Callees, TrackedChildren, Options, OptionalSchema, EntryType
  <2> QED
    BY <1>t, <2>1, <2>2, MapItemsType
<1>5. CASE n.tag = "Set"
  <2>1. Items(h, s, v) = SetItems(h, n, v)
    BY <1>5 DEF Items, NodeItems
  <2>2. n.item \in T
    BY <1>5, <1>0, GraphAssumption DEF WellFormed, T, Callees, TrackedChildren, Options, OptionalSchema, EntryType
  <2> QED
    BY <1>t, <2>1, <2>2, SetItemsType
<1>6. CASE n.tag = "Property"
  <2>1. Items(h, s, v) = PropertyItems(h, n, v)
    BY <1>6 DEF Items, NodeItems
  <2>2. {n.base, n.value} \subseteq T
    BY <1>6, <1>0, GraphAssumption DEF WellFormed, T, Callees, TrackedChildren, Options, OptionalSchema, EntryType
  <2> QED
    BY <1>t, <2>1, <2>2, PropertyItemsType
<1>7. CASE n.tag = "Object"
  <2>1. Items(h, s, v) = ObjectItems(h, n, v)
    BY <1>7 DEF Items, NodeItems
  <2>2. /\ n.entries \in Seq(EntryType) /\ n.strict \in BOOLEAN
        /\ \A i \in DOMAIN n.entries : n.entries[i].schema \in T
        /\ n.catchall \in T \cup {NoSchema}
    <3>1. n.entries \in Seq(EntryType) /\ n.strict \in BOOLEAN /\ n.catchall \in OptionalSchema
      BY <1>7, <1>0 DEF WellFormed
    <3>2. \A i \in DOMAIN n.entries : n.entries[i].schema \in T
      BY <1>7, EntrySchemas, GraphAssumption DEF T, Callees, TrackedChildren
    <3>3. n.catchall \in T \cup {NoSchema}
      BY <1>7, <3>1 DEF T, Callees, OptionalSchema
    <3> QED
      BY <3>1, <3>2, <3>3
  <2> QED
    BY <1>t, <2>1, <2>2, ObjectItemsType
<1>8. CASE n.tag = "Discriminated"
  <2>1. Items(h, s, v) = DiscriminatedItems(h, n, v)
    BY <1>8 DEF Items, NodeItems
  <2>2. /\ n.cases \in Seq([literal : Value, schema : Schema])
        /\ \A i \in DOMAIN n.cases : n.cases[i].schema \in T
    <3>1. n.cases \in Seq([literal : Value, schema : Schema])
      BY <1>8, <1>0 DEF WellFormed
    <3>2. \A i \in DOMAIN n.cases : n.cases[i].schema \in T
      BY <1>8, EntrySchemas, GraphAssumption DEF T, Callees, TrackedChildren
    <3> QED
      BY <3>1, <3>2
  <2> QED
    BY <1>t, <2>1, <2>2, DiscriminatedItemsType
<1>9. CASE n.tag \in {"Union", "Xor"}
  <2> DEFINE item(i) == Call(n.options[i], v)
  <2>1. n.options \in Seq(T)
    BY <1>9, <1>0, GraphAssumption DEF WellFormed, T, Callees, TrackedChildren, Options, OptionalSchema
  <2>2. \A i \in 1..Len(n.options) : item(i) \in Within(T)
    BY <2>1, <1>b
  <2>3. Items(h, s, v) = [i \in 1..Len(n.options) |-> item(i)]
    BY <1>9 DEF Items, NodeItems
  <2> HIDE DEF item
  <2> QED
    BY <2>1, <2>2, <2>3, SequenceOf
<1>10. CASE n.tag = "Intersection"
  <2>1. n.left \in T /\ n.right \in T
    BY <1>10, <1>0, GraphAssumption DEF WellFormed, T, Callees, TrackedChildren, Options, OptionalSchema
  <2>2. Items(h, s, v) = <<Call(n.left, v), Call(n.right, v)>>
    BY <1>10 DEF Items, NodeItems
  <2>3. Call(n.left, v) \in Within(T) /\ Call(n.right, v) \in Within(T)
    BY <2>1, <1>b, GraphAssumption DEF Check, Item, Within
  <2> QED
    BY <2>2, <2>3
<1>11. CASE n.tag = "Optional"
  <2>1. n.inner \in T
    BY <1>11, <1>0, GraphAssumption DEF WellFormed, T, Callees, TrackedChildren, Options, OptionalSchema
  <2>2. Items(h, s, v) = <<Check(v = Undefined), Call(n.inner, v)>>
    BY <1>11 DEF Items, NodeItems
  <2>3. Check(v = Undefined) \in Within(T) /\ Call(n.inner, v) \in Within(T)
    BY <2>1, <1>b, GraphAssumption DEF Check, Item, Within
  <2> QED
    BY <2>2, <2>3
<1>12. CASE n.tag = "Nullable"
  <2>1. n.inner \in T
    BY <1>12, <1>0, GraphAssumption DEF WellFormed, T, Callees, TrackedChildren, Options, OptionalSchema
  <2>2. Items(h, s, v) = <<Check(v = Null), Call(n.inner, v)>>
    BY <1>12 DEF Items, NodeItems
  <2>3. Check(v = Null) \in Within(T) /\ Call(n.inner, v) \in Within(T)
    BY <2>1, <1>b, GraphAssumption DEF Check, Item, Within
  <2> QED
    BY <2>2, <2>3
<1>13. CASE n.tag = "KeyedObject"
  <2>1. n.inner \in T
    BY <1>13, <1>0, GraphAssumption DEF WellFormed, T, Callees, TrackedChildren, Options, OptionalSchema
  <2>2. Items(h, s, v) = <<Call(n.inner, v), Check(KeyRuleHolds(h, n, v))>>
    BY <1>13 DEF Items, NodeItems
  <2>3. KeyRuleHolds(h, n, v) \in BOOLEAN
    BY DEF KeyRuleHolds
  <2>4. Call(n.inner, v) \in Within(T) /\ Check(KeyRuleHolds(h, n, v)) \in Within(T)
    BY <2>1, <2>3, <1>a, <1>b
  <2> QED
    BY <2>2, <2>4
<1>14. CASE n.tag = "PropertyCount"
  <2>1. n.inner \in T
    BY <1>14, <1>0, GraphAssumption DEF WellFormed, T, Callees, TrackedChildren, Options, OptionalSchema
  <2>2. Items(h, s, v) = <<Call(n.inner, v), Check(IsRecord(h, v) /\ Len(EnumKeys(h, v)) \in n.counts)>>
    BY <1>14 DEF Items, NodeItems
  <2>3. Call(n.inner, v) \in Within(T) /\ Check(IsRecord(h, v) /\ Len(EnumKeys(h, v)) \in n.counts) \in Within(T)
    BY <2>1, <1>b, GraphAssumption DEF Check, Item, Within
  <2> QED
    BY <2>2, <2>3
<1>15. CASE n.tag = "Refine"
  <2>1. n.inner \in T
    BY <1>15, <1>0, GraphAssumption DEF WellFormed, T, Callees, TrackedChildren, Options, OptionalSchema
  <2>2. Items(h, s, v) = <<Call(n.inner, v), Check(v \in n.when => v \in n.predicate)>>
    BY <1>15 DEF Items, NodeItems
  <2>3. Call(n.inner, v) \in Within(T) /\ Check(v \in n.when => v \in n.predicate) \in Within(T)
    BY <2>1, <1>b, GraphAssumption DEF Check, Item, Within
  <2> QED
    BY <2>2, <2>3
<1>16. CASE n.tag = "Wrap"
  <2>1. n.inner \in T
    BY <1>16, <1>0, GraphAssumption DEF WellFormed, T, Callees, TrackedChildren, Options, OptionalSchema
  <2>2. Items(h, s, v) = <<Call(n.inner, v)>>
    BY <1>16 DEF Items, NodeItems
  <2>3. Call(n.inner, v) \in Within(T)
    BY <2>1, <1>b
  <2> QED
    BY <2>2, <2>3
<1>17. CASE n.tag = "Lazy"
  <2>1. n.target \in T
    BY <1>17, <1>0, GraphAssumption DEF WellFormed, T, Callees, TrackedChildren, Options, OptionalSchema
  <2>2. Items(h, s, v) = <<Call(n.target, v)>>
    BY <1>17 DEF Items, NodeItems
  <2>3. Call(n.target, v) \in Within(T)
    BY <2>1, <1>b
  <2> QED
    BY <2>2, <2>3
<1>18. CASE n.tag = "Scalar"
  <2>1. Items(h, s, v) = <<Check(v \in n.accepts)>>
    BY <1>18 DEF Items, NodeItems
  <2> QED
    BY <2>1, GraphAssumption DEF Check, Item, Within
<1>19. CASE n.tag = "PropertyNames"
  <2>1. n.inner \in T /\ n.key \in T
    BY <1>19, <1>0, GraphAssumption DEF WellFormed, T, Callees, TrackedChildren, Options, OptionalSchema
  <2>2. Items(h, s, v) = <<Call(n.inner, v)>> \o PropertyNameItems(h, n, v)
    BY <1>19 DEF Items, NodeItems
  <2>3. PropertyNameItems(h, n, v) \in Seq(Within(T))
    BY <1>t, <2>1, PropertyNameItemsType
  <2>4. <<Call(n.inner, v)>> \in Seq(Within(T))
    BY <2>1, <1>b
  <2> QED
    BY <2>2, <2>3, <2>4
<1>20. CASE n.tag = "PatternProperties"
  <2>1. n.inner \in T
    BY <1>20, <1>0, GraphAssumption DEF WellFormed, T, Callees, TrackedChildren, Options, OptionalSchema
  <2>2. Items(h, s, v) = <<Call(n.inner, v)>> \o PatternItems(h, n, v)
    BY <1>20 DEF Items, NodeItems
  <2>3. PatternItems(h, n, v) \in Seq(Within(T))
    <3>1. /\ n.additional \in T \cup {NoSchema} /\ n.allowAdditional \in BOOLEAN
          /\ n.entries \in Seq([match : SUBSET Key, schema : Schema])
          /\ \A i \in DOMAIN n.entries : n.entries[i].schema \in T
      <4>1. n.entries \in Seq([match : SUBSET Key, schema : Schema]) /\ n.allowAdditional \in BOOLEAN
            /\ n.additional \in OptionalSchema
        BY <1>20, <1>0 DEF WellFormed
      <4>2. \A i \in DOMAIN n.entries : n.entries[i].schema \in T
        BY <1>20, EntrySchemas, GraphAssumption DEF T, Callees, TrackedChildren
      <4>3. n.additional \in T \cup {NoSchema}
        BY <1>20, <4>1 DEF T, Callees, TrackedChildren, OptionalSchema
      <4> QED
        BY <4>1, <4>2, <4>3
    <3> QED
      BY <1>t, <3>1, PatternItemsType
  <2>4. <<Call(n.inner, v)>> \in Seq(Within(T))
    BY <2>1, <1>b
  <2> QED
    BY <2>2, <2>3, <2>4
<1> QED
  BY <1>0, <1>1, <1>2, <1>3, <1>4, <1>5, <1>6, <1>7, <1>8, <1>9, <1>10, <1>11, <1>12, <1>13, <1>14, <1>15, <1>16, <1>17, <1>18, <1>19, <1>20 DEF WellFormed

-----------------------------------------------------------------------------
(* The greatest fixpoint under hypotheses.  X is a set of schemas without   *)
(* xor that calls none outside it.                                          *)

Reflected(h) == \A v \in Value : Reflects(h[v])

Monotone(X) ==
  /\ X \in SUBSET Schema
  /\ \A s \in X : Combine(s) \in {"all", "any"} /\ Callees(s) \subseteq X

PairsOf(X) == X \X Value

\* The items of a pair of X call pairs of X.
LEMMA CallsStay ==
  ASSUME NEW h, Reflected(h), NEW X, Monotone(X), NEW s \in X, NEW v \in Value,
         NEW i \in 1..Len(Items(h, s, v)), Items(h, s, v)[i].call
  PROVE  <<Items(h, s, v)[i].schema, Items(h, s, v)[i].value>> \in PairsOf(X)
<1>1. s \in Schema /\ Callees(s) \subseteq X
  BY DEF Monotone
<1>2. Items(h, s, v) \in Seq(Within(Callees(s)))
  BY <1>1, ItemsType DEF Reflected
<1>3. Items(h, s, v)[i] \in Within(Callees(s))
  BY <1>2, ElementOfSeq
<1> QED
  BY <1>1, <1>3 DEF Within, Item, PairsOf

\* More pairs of X support no fewer pairs of X.
LEMMA SupportedMonotone ==
  ASSUME NEW h, Reflected(h), NEW X, Monotone(X), NEW p \in PairsOf(X),
         NEW V, NEW W, V \cap PairsOf(X) \subseteq W, Supported(h, p, V)
  PROVE  Supported(h, p, W)
<1> DEFINE items == Items(h, p[1], p[2])
<1>1. p[1] \in X /\ p[2] \in Value /\ Combine(p[1]) \in {"all", "any"}
  BY DEF Monotone, PairsOf
<1>2. \A i \in 1..Len(items) : ItemHolds(items[i], V) => ItemHolds(items[i], W)
  BY <1>1, CallsStay DEF ItemHolds
<1> HIDE DEF items
<1>3. CASE Combine(p[1]) = "all"
  BY <1>2, <1>3 DEF Supported, Accepted, items
<1>4. CASE Combine(p[1]) = "any"
  BY <1>2, <1>4 DEF Supported, Accepted, items
<1> QED
  BY <1>1, <1>3, <1>4

\* A set whose pairs are assumed or supported lies in the greatest fixpoint.
LEMMA Coinduction ==
  ASSUME NEW h, NEW P, NEW H, NEW W \in SUBSET P,
         \A p \in W : p \in H \/ Supported(h, p, W)
  PROVE  W \subseteq GreatestFixpoint(h, P, H)
  BY DEF GreatestFixpoint

\* The greatest fixpoint is such a set.
LEMMA FixpointIsSupported ==
  ASSUME NEW h, Reflected(h), NEW X, Monotone(X), NEW H
  PROVE  /\ GreatestFixpoint(h, PairsOf(X), H) \in SUBSET PairsOf(X)
         /\ \A p \in GreatestFixpoint(h, PairsOf(X), H) :
              p \in H \/ Supported(h, p, GreatestFixpoint(h, PairsOf(X), H))
<1> DEFINE P == PairsOf(X)
           G == GreatestFixpoint(h, P, H)
<1>1. G \in SUBSET P
  BY DEF GreatestFixpoint
<1>2. ASSUME NEW p \in G
      PROVE  p \in H \/ Supported(h, p, G)
  <2>1. PICK W \in SUBSET P :
          p \in W /\ \A q \in W : q \in H \/ Supported(h, q, W)
    BY DEF GreatestFixpoint
  <2>2. W \subseteq G
    BY <2>1, Coinduction
  <2>3. p \in H \/ Supported(h, p, W)
    BY <2>1
  <2> HIDE DEF G
  <2> QED
    BY <2>2, <2>3, <1>1, SupportedMonotone
<1> QED
  BY <1>1, <1>2

\* More hypotheses, no fewer pairs.
LEMMA FixpointMonotone ==
  ASSUME NEW h, Reflected(h), NEW X, Monotone(X), NEW H, NEW K, H \subseteq K
  PROVE  GreatestFixpoint(h, PairsOf(X), H) \subseteq GreatestFixpoint(h, PairsOf(X), K)
  BY FixpointIsSupported, Coinduction

\* A pair is in the fixpoint when it is assumed or supported by it.
LEMMA Unfolding ==
  ASSUME NEW h, Reflected(h), NEW X, Monotone(X),
         NEW H \in SUBSET PairsOf(X), NEW p \in PairsOf(X)
  PROVE  p \in GreatestFixpoint(h, PairsOf(X), H)
           <=> p \in H \/ Supported(h, p, GreatestFixpoint(h, PairsOf(X), H))
<1> DEFINE P == PairsOf(X)
           G == GreatestFixpoint(h, P, H)
           W == G \cup {p}
<1>1. p \in G => p \in H \/ Supported(h, p, G)
  BY FixpointIsSupported
<1>2. ASSUME p \in H \/ Supported(h, p, G)
      PROVE  p \in G
  <2>1. W \in SUBSET P
    BY FixpointIsSupported
  <2>2. \A q \in G : q \in H \/ Supported(h, q, G)
    BY FixpointIsSupported
  <2> HIDE DEF G
  <2>3. \A q \in P : Supported(h, q, G) => Supported(h, q, W)
    BY SupportedMonotone
  <2>4. \A q \in W : q \in H \/ Supported(h, q, W)
    BY <2>1, <2>2, <2>3, <1>2
  <2> HIDE DEF W
  <2>5. W \subseteq GreatestFixpoint(h, P, H)
    BY <2>1, <2>4, Coinduction
  <2> QED
    BY <2>5 DEF W, G
<1> QED
  BY <1>1, <1>2

\* The reduction: p may be decided with p itself among the hypotheses.
LEMMA Reduction ==
  ASSUME NEW h, Reflected(h), NEW X, Monotone(X),
         NEW H \in SUBSET PairsOf(X), NEW p \in PairsOf(X)
  PROVE  p \in GreatestFixpoint(h, PairsOf(X), H)
           <=> p \in H \/ Supported(h, p, GreatestFixpoint(h, PairsOf(X), H \cup {p}))
<1> DEFINE P == PairsOf(X)
           K == H \cup {p}
           W == GreatestFixpoint(h, P, K)
<1>1. W \in SUBSET P /\ \A q \in W : q \in K \/ Supported(h, q, W)
  BY FixpointIsSupported
<1>2. p \in W
  BY Unfolding
<1>3. ASSUME p \in GreatestFixpoint(h, P, H)
      PROVE  p \in H \/ Supported(h, p, W)
  <2>1. GreatestFixpoint(h, P, H) \subseteq W
    BY FixpointMonotone
  <2>2. p \in H \/ Supported(h, p, GreatestFixpoint(h, P, H))
    BY <1>3, FixpointIsSupported
  <2> HIDE DEF W
  <2> QED
    BY <2>1, <2>2, SupportedMonotone
<1> HIDE DEF W
<1>4. ASSUME p \in H \/ Supported(h, p, W)
      PROVE  p \in GreatestFixpoint(h, P, H)
  <2>1. \A q \in W : q \in H \/ Supported(h, q, W)
    BY <1>1, <1>4
  <2> QED
    BY <1>1, <1>2, <2>1, Coinduction
<1> QED
  BY <1>3, <1>4 DEF W

\* The answer to a call is that of its items, run with or without its pair
\* among the hypotheses, when the pair is not yet one of them.
LEMMA CallIsItsItems ==
  ASSUME NEW h, Reflected(h), NEW X, Monotone(X),
         NEW H \in SUBSET PairsOf(X), NEW p \in PairsOf(X), p \notin H,
         NEW K, K = H \/ K = H \cup {p}
  PROVE  p \in GreatestFixpoint(h, PairsOf(X), H)
           <=> Supported(h, p, GreatestFixpoint(h, PairsOf(X), K))
<1>1. CASE K = H
  BY <1>1, Unfolding
<1>2. CASE K = H \cup {p}
  BY <1>2, Reduction
<1> QED
  BY <1>1, <1>2

-----------------------------------------------------------------------------
(* Repeating a step that only removes                                       *)

\* The sets that repeating the step from W visits, W included.
Visited(U, step, W) ==
  {V \in SUBSET U : \A C \in SUBSET (SUBSET U) :
     W \in C /\ (\A D \in C : step[D] \in C) => V \in C}

LEMMA VisitedUnfolds ==
  ASSUME NEW U, NEW step \in [SUBSET U -> SUBSET U], NEW W \in SUBSET U
  PROVE  Visited(U, step, W) = {W} \cup Visited(U, step, step[W])
<1> DEFINE rest == Visited(U, step, step[W])
           C == {W} \cup rest
<1>1. \A D \in rest : step[D] \in rest
  BY DEF Visited
<1>2. step[W] \in rest
  BY DEF Visited
<1>3. rest \subseteq Visited(U, step, W)
  BY DEF Visited
<1>4. W \in Visited(U, step, W)
  BY DEF Visited
<1>5. rest \in SUBSET (SUBSET U)
  BY DEF Visited
<1> HIDE DEF rest
<1>6. C \in SUBSET (SUBSET U) /\ W \in C /\ \A D \in C : step[D] \in C
  BY <1>1, <1>2, <1>5
<1> HIDE DEF C
<1>7. Visited(U, step, W) \subseteq C
  BY <1>6 DEF Visited
<1> QED
  BY <1>3, <1>4, <1>7 DEF C, rest

\* The recursion of Narrowed has a solution.
LEMMA NarrowingExists ==
  ASSUME NEW U, NEW step \in [SUBSET U -> SUBSET U]
  PROVE  \E f : f = [W \in SUBSET U |-> IF step[W] = W THEN W ELSE f[step[W]]]
<1> DEFINE Ends(W) == {V \in Visited(U, step, W) : step[V] = V}
           Last(W) == CHOOSE V : V \in Ends(W)
           f == [W \in SUBSET U |-> Last(W)]
<1>1. ASSUME NEW W \in SUBSET U
      PROVE  Last(W) = IF step[W] = W THEN W ELSE Last(step[W])
  <2>1. CASE step[W] = W
    <3>1. Visited(U, step, W) \subseteq {W}
      <4>1. {W} \in SUBSET (SUBSET U) /\ W \in {W} /\ \A D \in {W} : step[D] \in {W}
        BY <2>1
      <4> QED
        BY <4>1 DEF Visited
    <3>2. W \in Visited(U, step, W)
      BY DEF Visited
    <3>3. Ends(W) = {W}
      BY <2>1, <3>1, <3>2
    <3> QED
      BY <2>1, <3>3
  <2>2. CASE step[W] # W
    <3>1. Ends(W) = Ends(step[W])
      BY <2>2, VisitedUnfolds
    <3> HIDE DEF Ends
    <3> QED
      BY <2>2, <3>1
  <2> QED
    BY <2>1, <2>2
<1>2. \A W \in SUBSET U : step[W] \in SUBSET U
  OBVIOUS
<1> HIDE DEF Last
<1>3. f = [W \in SUBSET U |-> IF step[W] = W THEN W ELSE f[step[W]]]
  BY <1>1, <1>2
<1> QED
  BY <1>3

\* When every step only removes and U is finite, Narrowed is a set the step
\* keeps, with every member that no step removes.
LEMMA NarrowedIsKept ==
  ASSUME NEW U, IsFiniteSet(U), NEW step \in [SUBSET U -> SUBSET U],
         \A W \in SUBSET U : step[W] \subseteq W
  PROVE  /\ Narrowed(U, step) \in SUBSET U
         /\ step[Narrowed(U, step)] = Narrowed(U, step)
         /\ \A G \in SUBSET U :
              (\A W \in SUBSET U : G \subseteq W => G \subseteq step[W])
                => G \subseteq Narrowed(U, step)
<1> DEFINE F(f) == [W \in SUBSET U |-> IF step[W] = W THEN W ELSE f[step[W]]]
           f == CHOOSE g : g = F(g)
           Kept(G) == \A W \in SUBSET U : G \subseteq W => G \subseteq step[W]
           Good(W) == /\ f[W] \in SUBSET U /\ step[f[W]] = f[W]
                      /\ \A G \in SUBSET W : Kept(G) => G \subseteq f[W]
           Bad == {W \in SUBSET U : ~Good(W)}
<1>1. f = F(f)
  BY NarrowingExists
<1>2. Narrowed(U, step) = f[U]
  BY DEF Narrowed
<1> HIDE DEF f
<1>3. \A W \in SUBSET U : f[W] = IF step[W] = W THEN W ELSE f[step[W]]
  BY <1>1
<1>4. ASSUME NEW W \in SUBSET U, \A V \in SUBSET U : V \subseteq W /\ V # W => Good(V)
      PROVE  Good(W)
  <2>1. CASE step[W] = W
    BY <2>1, <1>3
  <2>2. CASE step[W] # W
    <3>1. f[W] = f[step[W]] /\ Good(step[W])
      BY <2>2, <1>3, <1>4
    <3> QED
      BY <3>1
  <2> QED
    BY <2>1, <2>2
<1> HIDE DEF Good
<1>5. Bad = {}
  <2> SUFFICES ASSUME Bad # {} PROVE FALSE
    OBVIOUS
  <2>1. FiniteSubsetsOf(U) = SUBSET U
    BY FS_FiniteSubsetsOfFinite
  <2>2. IsWellFoundedOn(StrictSubsetOrdering(U), FiniteSubsetsOf(U))
    BY FS_StrictSubsetOrderingWellFounded
  <2>3. Bad \subseteq FiniteSubsetsOf(U)
    BY <2>1
  <2> HIDE DEF Bad
  <2>4. \E W \in Bad : \A V \in Bad : ~(<<V, W>> \in StrictSubsetOrdering(U))
    BY <2>2, <2>3, WFMin
  <2> USE DEF Bad
  <2>5. PICK W \in Bad : \A V \in Bad : <<V, W>> \notin StrictSubsetOrdering(U)
    BY <2>4
  <2>6. \A V \in SUBSET U : V \subseteq W /\ V # W => V \notin Bad
    BY <2>5 DEF StrictSubsetOrdering
  <2> QED
    BY <2>6, <1>4
<1>6. Good(U)
  BY <1>5
<1> QED
  BY <1>2, <1>6 DEF Good

-----------------------------------------------------------------------------
(* The denotation                                                           *)

\* On schemas without xor the iterated denotation is the greatest fixpoint.
THEOREM DenotationIsFixpoint ==
  ASSUME NEW h, Reflected(h), NEW X, Monotone(X)
  PROVE  Denotation(h) \cap PairsOf(X) = GreatestFixpoint(h, PairsOf(X), {})
<1> DEFINE step == [W \in SUBSET Pairs |-> {p \in W : Supported(h, p, W)}]
           D == Narrowed(Pairs, step)
           G == GreatestFixpoint(h, PairsOf(X), {})
<1>1. IsFiniteSet(Pairs)
  BY FiniteAssumption, FS_Product DEF Pairs
<1>2. step \in [SUBSET Pairs -> SUBSET Pairs] /\ \A W \in SUBSET Pairs : step[W] \subseteq W
  OBVIOUS
<1>3. PairsOf(X) \subseteq Pairs
  BY DEF Monotone, PairsOf, Pairs
<1>4. G \in SUBSET PairsOf(X) /\ \A p \in G : Supported(h, p, G)
  BY FixpointIsSupported
<1>5. ASSUME NEW W \in SUBSET Pairs, G \subseteq W
      PROVE  G \subseteq step[W]
  <2> HIDE DEF G
  <2>1. \A p \in G : Supported(h, p, W)
    BY <1>4, <1>5, SupportedMonotone
  <2> QED
    BY <2>1, <1>5
<1> HIDE DEF step
<1>6. D \in SUBSET Pairs /\ step[D] = D
  BY <1>1, <1>2, NarrowedIsKept
<1>7. G \subseteq D
  <2> HIDE DEF G
  <2>1. G \in SUBSET Pairs
    BY <1>3, <1>4
  <2> QED
    BY <2>1, <1>1, <1>2, <1>5, NarrowedIsKept
<1> HIDE DEF D
<1>8. D \cap PairsOf(X) \subseteq G
  <2> DEFINE W == D \cap PairsOf(X)
  <2>1. \A p \in D : Supported(h, p, D)
    BY <1>6 DEF step
  <2>2. \A p \in W : Supported(h, p, W)
    BY <2>1, SupportedMonotone
  <2>3. W \in SUBSET PairsOf(X)
    OBVIOUS
  <2> HIDE DEF W
  <2>4. W \subseteq G
    BY <2>2, <2>3, Coinduction
  <2> QED
    BY <2>4 DEF W
<1> HIDE DEF G
<1>9. Denotation(h) = D
  BY DEF Denotation, D, step
<1> QED
  BY <1>4, <1>7, <1>8, <1>9 DEF G

\* A graph without xor is such a set, and so are the schemas that reach no xor.
LEMMA XorFreeIsMonotone ==
  ASSUME XorFree
  PROVE  Monotone(Schema)
  BY CalleesAreSchemas DEF XorFree, Monotone

LEMMA UnexclusiveIsMonotone == Monotone(Schema \ ReachesXor)
<1> DEFINE step == [X \in SUBSET Schema |->
                      {s \in X : Node[s].tag # "Xor" /\ Callees(s) \subseteq X}]
           N == Narrowed(Schema, step)
<1>1. step \in [SUBSET Schema -> SUBSET Schema] /\ \A X \in SUBSET Schema : step[X] \subseteq X
  OBVIOUS
<1> HIDE DEF step
<1>2. N \in SUBSET Schema /\ step[N] = N
  BY <1>1, FiniteAssumption, NarrowedIsKept
<1> HIDE DEF N
<1>3. \A s \in N : Node[s].tag # "Xor" /\ Callees(s) \subseteq N
  BY <1>2 DEF step
<1>4. ReachesXor = Schema \ N
  BY DEF ReachesXor, N, step
<1>5. Schema \ ReachesXor = N
  BY <1>2, <1>4
<1> QED
  BY <1>2, <1>3, <1>5 DEF Monotone, Combine

-----------------------------------------------------------------------------
(* A walk: a stack of activations that runs the items of the graph with a   *)
(* recursion guard.  The synchronous predicate and each cooperative call    *)
(* are such walks.  The operators take its stack q, its root r, whether its *)
(* answers are exact (no call was answered by the depth budget), the call   *)
(* req it is about to make and the answer ans it is about to absorb.        *)
(*                                                                          *)
(* An activation works under hypotheses: the guarded pairs of the frames up *)
(* to its own.  By Reduction the call for p, made under H, may be answered  *)
(* by running the items of p under H + p.                                   *)

FramePair(f) == <<f.schema, f.value>>
Guards(h, f) == f.entered /\ IsRef(h, f.value)

\* The hypotheses under which frame k runs its items, and what holds under them.
Assumed(h, q, k) == {FramePair(q[i]) : i \in {j \in 1..k : Guards(h, q[j])}}
Holding(h, X, q, k) == GreatestFixpoint(h, PairsOf(X), Assumed(h, q, k))

ItemsOf(h, f) == Items(h, f.schema, f.value)
Current(h, f) == ItemsOf(h, f)[f.next]

\* The items a frame has passed, decided under what holds.
Progress(h, exact, f, holding) ==
  \A i \in 1..(f.next - 1) :
    /\ Combine(f.schema) = "all" => ItemHolds(ItemsOf(h, f)[i], holding)
    /\ Combine(f.schema) = "any" /\ exact => ~ItemHolds(ItemsOf(h, f)[i], holding)

\* p is the call that frame k waits for; frame 0 is the caller of the walk.
Awaited(h, r, q, k, p) ==
  IF k = 0 THEN p = r
  ELSE /\ q[k].next <= Len(ItemsOf(h, q[k]))
       /\ Current(h, q[k]).call
       /\ p = <<Current(h, q[k]).schema, Current(h, q[k]).value>>

\* What frame k is waiting to hear is true.
Held(h, X, r, q, k) ==
  IF k = 0 THEN r \in GreatestFixpoint(h, PairsOf(X), {})
  ELSE /\ q[k].next <= Len(ItemsOf(h, q[k]))
       /\ ItemHolds(Current(h, q[k]), Holding(h, X, q, k))

Answered(h, X, r, q, exact, ans) ==
  /\ Len(q) > 0 => q[Len(q)].next <= Len(ItemsOf(h, q[Len(q)]))
  /\ ans = "accept" => Held(h, X, r, q, Len(q))
  /\ ans = "reject" /\ exact => ~Held(h, X, r, q, Len(q))

FrameInv(h, X, r, q, exact, k) ==
  /\ q[k].schema \in X /\ q[k].value \in Value /\ q[k].next \in Nat \ {0}
  /\ FramePair(q[k]) \notin Assumed(h, q, k - 1)
  /\ Awaited(h, r, q, k - 1, FramePair(q[k]))
  /\ Progress(h, exact, q[k], Holding(h, X, q, k))

\* The inductive invariant of a walk: each frame below the top waits for the
\* next one, whose pair is not yet assumed, the passed items are decided under
\* the frame's hypotheses, and a pending answer is right about what the top
\* frame waits for.
WalkInv(h, X, r, q, exact, req, ans) ==
  /\ r \in PairsOf(X) /\ Len(q) \in Nat
  /\ \A k \in 1..Len(q) : FrameInv(h, X, r, q, exact, k)
  /\ req # <<>> => ans = "none" /\ Awaited(h, r, q, Len(q), req)
  /\ req = <<>> /\ ans # "none" => Answered(h, X, r, q, exact, ans)

\* A walk starts with the call for its root.
LEMMA WalkStarts ==
  ASSUME NEW h, NEW X, NEW r \in PairsOf(X), NEW exact
  PROVE  WalkInv(h, X, r, <<>>, exact, r, "none")
  BY DEF WalkInv, Awaited

\* The hypotheses depend on the pairs of the frames alone.
LEMMA AssumedAgrees ==
  ASSUME NEW h, NEW q, NEW t, NEW k \in Nat,
         \A i \in 1..k : FramePair(q[i]) = FramePair(t[i]) /\ Guards(h, q[i]) = Guards(h, t[i])
  PROVE  Assumed(h, q, k) = Assumed(h, t, k)
  BY DEF Assumed

\* A guarded frame adds its pair.
LEMMA AssumedGrows ==
  ASSUME NEW h, NEW q, NEW k \in Nat \ {0}
  PROVE  Assumed(h, q, k) = IF Guards(h, q[k]) THEN Assumed(h, q, k - 1) \cup {FramePair(q[k])}
                                               ELSE Assumed(h, q, k - 1)
<1>1. 1..k = (1..(k - 1)) \cup {k}
  OBVIOUS
<1> QED
  BY <1>1 DEF Assumed

LEMMA AssumedType ==
  ASSUME NEW h, NEW X, NEW r, NEW q, NEW exact, NEW n \in Nat,
         \A k \in 1..n : FrameInv(h, X, r, q, exact, k)
  PROVE  Assumed(h, q, n) \in SUBSET PairsOf(X)
  BY DEF Assumed, FrameInv, FramePair, PairsOf

\* What a frame waits to hear about a call is whether its pair holds.
LEMMA AwaitedIsHeld ==
  ASSUME NEW h, NEW X, NEW r, NEW q, NEW k \in Nat, NEW p, Awaited(h, r, q, k, p)
  PROVE  Held(h, X, r, q, k) <=> p \in Holding(h, X, q, k)
<1>1. Assumed(h, q, 0) = {}
  BY DEF Assumed
<1> QED
  BY <1>1 DEF Awaited, Held, ItemHolds, Holding

\* The call a walk is about to make is a pair of X.
LEMMA AwaitedType ==
  ASSUME NEW h, Reflected(h), NEW X, Monotone(X), NEW r \in PairsOf(X), NEW q, NEW exact,
         NEW n \in Nat, \A k \in 1..n : FrameInv(h, X, r, q, exact, k),
         NEW p, Awaited(h, r, q, n, p)
  PROVE  p \in PairsOf(X)
<1>1. CASE n = 0
  BY <1>1 DEF Awaited
<1>2. CASE n # 0
  <2> DEFINE f == q[n]
  <2>1. f.schema \in X /\ f.value \in Value /\ f.next \in Nat \ {0}
    BY <1>2 DEF FrameInv
  <2>2. f.next <= Len(ItemsOf(h, f)) /\ Current(h, f).call
        /\ p = <<Current(h, f).schema, Current(h, f).value>>
    BY <1>2 DEF Awaited
  <2> HIDE DEF f
  <2>3. Items(h, f.schema, f.value) \in Seq(Within(Callees(f.schema)))
    BY <2>1, ItemsType DEF Reflected, Monotone
  <2>4. f.next \in 1..Len(Items(h, f.schema, f.value))
    BY <2>1, <2>2, <2>3 DEF ItemsOf
  <2> QED
    BY <2>1, <2>2, <2>4, CallsStay DEF Current, ItemsOf
<1> QED
  BY <1>1, <1>2

-----------------------------------------------------------------------------
(* The steps of a walk                                                      *)

\* The frames up to n are right, and two stacks agree up to n.
Frames(h, X, r, q, exact, n) == \A k \in 1..n : FrameInv(h, X, r, q, exact, k)
SamePrefix(q, t, n) == \A i \in 1..n : t[i] = q[i]

\* Frames that a step leaves alone keep their clause, and so does the caller's view.
LEMMA FramesKept ==
  ASSUME NEW h, NEW X, NEW r, NEW q, NEW exact, NEW t, NEW n \in Nat,
         Frames(h, X, r, q, exact, n), SamePrefix(q, t, n)
  PROVE  /\ Frames(h, X, r, t, exact, n)
         /\ Assumed(h, t, n) = Assumed(h, q, n)
         /\ Held(h, X, r, t, n) <=> Held(h, X, r, q, n)
         /\ \A p : Awaited(h, r, t, n, p) <=> Awaited(h, r, q, n, p)
<1>1. /\ \A k \in 1..n : FrameInv(h, X, r, q, exact, k)
      /\ \A i \in 1..n : t[i] = q[i]
  BY DEF Frames, SamePrefix
<1>2. \A k \in 0..n : Assumed(h, t, k) = Assumed(h, q, k)
  <2> TAKE k \in 0..n
  <2>1. k \in Nat /\ \A i \in 1..k : t[i] = q[i]
    BY <1>1
  <2> QED
    BY <2>1, AssumedAgrees
<1>3. Held(h, X, r, t, n) <=> Held(h, X, r, q, n)
  <2>1. n = 0 \/ (n \in 1..n /\ t[n] = q[n])
    BY <1>1
  <2>2. Assumed(h, t, n) = Assumed(h, q, n)
    BY <1>2
  <2> QED
    BY <2>1, <2>2 DEF Held, Current, ItemsOf, Holding
<1>4. \A k \in 0..n : \A p : Awaited(h, r, t, k, p) <=> Awaited(h, r, q, k, p)
  <2> TAKE k \in 0..n
  <2> TAKE p
  <2>1. k = 0 \/ (k \in 1..n /\ t[k] = q[k])
    BY <1>1
  <2> QED
    BY <2>1 DEF Awaited, Current, ItemsOf
<1>5. \A k \in 1..n : FrameInv(h, X, r, t, exact, k)
  <2> TAKE k \in 1..n
  <2>1. k - 1 \in 0..n /\ k \in 0..n /\ t[k] = q[k]
    BY <1>1
  <2>2. FrameInv(h, X, r, q, exact, k)
    BY <1>1
  <2>3. Awaited(h, r, t, k - 1, FramePair(t[k]))
    BY <2>1, <2>2, <1>4 DEF FrameInv
  <2>4. Holding(h, X, t, k) = Holding(h, X, q, k) /\ Assumed(h, t, k - 1) = Assumed(h, q, k - 1)
    BY <2>1, <1>2 DEF Holding
  <2>5. Progress(h, exact, t[k], Holding(h, X, t, k))
    BY <2>1, <2>2, <2>4 DEF FrameInv, Progress
  <2> QED
    BY <2>1, <2>2, <2>3, <2>4, <2>5 DEF FrameInv
<1>6. n \in 0..n
  OBVIOUS
<1> QED
  BY <1>2, <1>3, <1>4, <1>5, <1>6 DEF Frames

\* A step that leaves the stack alone and answers or requests rightly.
LEMMA QuietWalk ==
  ASSUME NEW h, NEW X, NEW r, NEW q, NEW exact, NEW req, NEW ans,
         WalkInv(h, X, r, q, exact, req, ans),
         NEW exact2, exact2 => exact, NEW req2, NEW ans2,
         req2 # <<>> => ans2 = "none" /\ Awaited(h, r, q, Len(q), req2),
         req2 = <<>> /\ ans2 # "none" => Answered(h, X, r, q, exact2, ans2)
  PROVE  WalkInv(h, X, r, q, exact2, req2, ans2)
<1>1. \A k \in 1..Len(q) : FrameInv(h, X, r, q, exact2, k)
  BY DEF WalkInv, FrameInv, Progress
<1> QED
  BY <1>1 DEF WalkInv

\* The recursion guard answers for a pair under validation: it is assumed.
LEMMA CycleWalk ==
  ASSUME NEW h, Reflected(h), NEW X, Monotone(X), NEW r, NEW q, NEW exact, NEW req, NEW ans,
         WalkInv(h, X, r, q, exact, req, ans), req # <<>>, req \in Assumed(h, q, Len(q))
  PROVE  WalkInv(h, X, r, q, exact, <<>>, "accept")
<1> DEFINE n == Len(q)
<1>1. n \in Nat /\ r \in PairsOf(X) /\ Awaited(h, r, q, n, req)
      /\ \A k \in 1..n : FrameInv(h, X, r, q, exact, k)
  BY DEF WalkInv
<1> HIDE DEF n
<1>2. req \in PairsOf(X) /\ Assumed(h, q, n) \in SUBSET PairsOf(X)
  BY <1>1, AwaitedType, AssumedType
<1>3. req \in Assumed(h, q, n)
  BY DEF n
<1>4. req \in Holding(h, X, q, n)
  BY <1>2, <1>3, Unfolding DEF Holding
<1>5. Held(h, X, r, q, n) /\ (n > 0 => q[n].next <= Len(ItemsOf(h, q[n])))
  BY <1>1, <1>4, AwaitedIsHeld DEF Awaited
<1>6. Answered(h, X, r, q, exact, "accept")
  BY <1>5 DEF Answered, n
<1> QED
  BY <1>6, QuietWalk

\* The budget rejects, and the answers are not exact from then on.
LEMMA BudgetWalk ==
  ASSUME NEW h, NEW X, NEW r, NEW q, NEW exact, NEW req, NEW ans,
         WalkInv(h, X, r, q, exact, req, ans), req # <<>>
  PROVE  WalkInv(h, X, r, q, FALSE, <<>>, "reject")
<1>1. Len(q) \in Nat /\ Awaited(h, r, q, Len(q), req)
  BY DEF WalkInv
<1>2. Answered(h, X, r, q, FALSE, "reject")
  BY <1>1 DEF Answered, Awaited
<1> QED
  BY <1>2, QuietWalk

\* A pushed activation has passed no item and is awaited by the frame below.
LEMMA PushWalk ==
  ASSUME NEW h, Reflected(h), NEW X, Monotone(X), NEW r, NEW q, NEW exact, NEW req, NEW ans,
         WalkInv(h, X, r, q, exact, req, ans), req # <<>>, req \notin Assumed(h, q, Len(q)),
         NEW t, Len(t) = Len(q) + 1, \A i \in 1..Len(q) : t[i] = q[i],
         FramePair(t[Len(t)]) = req, t[Len(t)].next = 1
  PROVE  WalkInv(h, X, r, t, exact, <<>>, "none")
<1> DEFINE n == Len(q)
<1>1. n \in Nat /\ r \in PairsOf(X) /\ Awaited(h, r, q, n, req)
      /\ \A k \in 1..n : FrameInv(h, X, r, q, exact, k)
  BY DEF WalkInv
<1>2. /\ \A k \in 1..n : FrameInv(h, X, r, t, exact, k)
      /\ Assumed(h, t, n) = Assumed(h, q, n)
      /\ \A p : Awaited(h, r, t, n, p) <=> Awaited(h, r, q, n, p)
  <2>1. \A i \in 1..n : t[i] = q[i]
    OBVIOUS
  <2> HIDE DEF n
  <2>2. Frames(h, X, r, q, exact, n) /\ SamePrefix(q, t, n)
    BY <1>1, <2>1 DEF Frames, SamePrefix
  <2> QED
    <3>1. Frames(h, X, r, t, exact, n)
      BY <1>1, <2>2, FramesKept
    <3>2. Assumed(h, t, n) = Assumed(h, q, n)
      BY <1>1, <2>1, AssumedAgrees
    <3>3. \A p : Awaited(h, r, t, n, p) <=> Awaited(h, r, q, n, p)
      BY <1>1, <2>2, FramesKept
    <3> QED
      BY <3>1, <3>2, <3>3 DEF Frames
<1>3. req \in PairsOf(X)
  BY <1>1, AwaitedType
<1>4. FrameInv(h, X, r, t, exact, n + 1)
  <2> DEFINE f == t[n + 1]
  <2>1. FramePair(f) = req /\ f.next = 1
    BY <1>1
  <2> HIDE DEF n, f
  <2>2. f.schema \in X /\ f.value \in Value
    BY <2>1, <1>3 DEF FramePair, PairsOf
  <2>3. FramePair(f) \notin Assumed(h, t, n)
    BY <2>1, <1>2 DEF n
  <2>4. Awaited(h, r, t, n, FramePair(f))
    BY <2>1, <1>1, <1>2
  <2>5. Progress(h, exact, f, Holding(h, X, t, n + 1))
    BY <2>1 DEF Progress
  <2>6. (n + 1) - 1 = n
    BY <1>1
  <2> QED
    BY <2>1, <2>2, <2>3, <2>4, <2>5, <2>6 DEF FrameInv, f
<1> HIDE DEF n
<1>5. Len(t) = n + 1
  BY DEF n
<1>6. \A k \in 1..Len(t) : FrameInv(h, X, r, t, exact, k)
  BY <1>1, <1>2, <1>4, <1>5
<1> QED
  BY <1>1, <1>5, <1>6 DEF WalkInv

\* The top frame begins its next item.
LEMMA NextWalk ==
  ASSUME NEW h, NEW X, NEW r, NEW q, NEW exact, WalkInv(h, X, r, q, exact, <<>>, "none"),
         Len(q) > 0, q[Len(q)].next <= Len(ItemsOf(h, q[Len(q)])),
         NEW item, item = Current(h, q[Len(q)]), NEW req2, NEW ans2,
         item.call => req2 = <<item.schema, item.value>> /\ ans2 = "none",
         ~item.call => req2 = <<>> /\ ans2 = IF item.ok THEN "accept" ELSE "reject"
  PROVE  WalkInv(h, X, r, q, exact, req2, ans2)
<1>1. Len(q) # 0
  OBVIOUS
<1>2. CASE item.call
  <2>1. Awaited(h, r, q, Len(q), req2)
    BY <1>1, <1>2 DEF Awaited
  <2> QED
    BY <1>2, <2>1, QuietWalk
<1>3. CASE ~item.call
  <2>1. Held(h, X, r, q, Len(q)) <=> item.ok
    BY <1>1, <1>3 DEF Held, ItemHolds
  <2>2. Answered(h, X, r, q, exact, ans2)
    BY <1>3, <2>1 DEF Answered
  <2> QED
    BY <1>3, <2>2, QuietWalk
<1> QED
  BY <1>2, <1>3

\* The top frame moves on past an item whose answer does not decide it.
LEMMA AdvanceWalk ==
  ASSUME NEW h, NEW X, Monotone(X), NEW r, NEW q, NEW exact, NEW ans,
         WalkInv(h, X, r, q, exact, <<>>, ans), Len(q) > 0,
         NEW f, f = q[Len(q)],
         \/ ans = "accept" /\ Combine(f.schema) # "any"
         \/ ans = "reject" /\ Combine(f.schema) # "all",
         NEW t, Len(t) = Len(q), \A i \in 1..(Len(q) - 1) : t[i] = q[i],
         FramePair(t[Len(q)]) = FramePair(f), t[Len(q)].entered = f.entered,
         t[Len(q)].next = f.next + 1
  PROVE  WalkInv(h, X, r, t, exact, <<>>, "none")
<1> DEFINE n == Len(q)
           g == t[n]
           below == n - 1
           holding == Holding(h, X, q, n)
<1>1. n \in Nat \ {0} /\ r \in PairsOf(X) /\ below \in Nat /\ below + 1 = n
      /\ \A k \in 1..n : FrameInv(h, X, r, q, exact, k)
  BY DEF WalkInv
<1>2. f.schema \in X /\ f.value \in Value /\ f.next \in Nat \ {0} /\ n \in 1..n
  BY <1>1 DEF FrameInv
<1>3. FramePair(g) = FramePair(f) /\ g.entered = f.entered /\ g.next = f.next + 1
      /\ Len(t) = n /\ (\A i \in 1..below : t[i] = q[i]) /\ f = q[n]
  OBVIOUS
<1>4. Answered(h, X, r, q, exact, ans)
  BY <1>1 DEF WalkInv
<1>a. /\ ans = "accept" => Held(h, X, r, q, n)
      /\ ans = "reject" /\ exact => ~Held(h, X, r, q, n)
      /\ f.next <= Len(ItemsOf(h, f))
  BY <1>1, <1>4 DEF Answered
<1> HIDE DEF n, g, below
<1>5. g.schema = f.schema /\ g.value = f.value
  BY <1>3 DEF FramePair
<1>6. /\ \A k \in 1..below : FrameInv(h, X, r, t, exact, k)
      /\ Assumed(h, t, below) = Assumed(h, q, below)
      /\ \A p : Awaited(h, r, t, below, p) <=> Awaited(h, r, q, below, p)
  <2>1. \A k \in 1..below : FrameInv(h, X, r, q, exact, k)
    BY <1>1
  <2>2. below \in Nat /\ \A i \in 1..below : t[i] = q[i]
    BY <1>1, <1>3
  <2>3. Frames(h, X, r, q, exact, below) /\ SamePrefix(q, t, below)
    BY <2>1, <2>2 DEF Frames, SamePrefix
  <2> QED
    <3>1. Frames(h, X, r, t, exact, below)
      BY <2>2, <2>3, FramesKept
    <3>2. Assumed(h, t, below) = Assumed(h, q, below)
      BY <2>2, AssumedAgrees
    <3>3. \A p : Awaited(h, r, t, below, p) <=> Awaited(h, r, q, below, p)
      BY <2>2, <2>3, FramesKept
    <3> QED
      BY <3>1, <3>2, <3>3 DEF Frames
<1>7. Holding(h, X, t, n) = holding
  <2>1. Guards(h, g) = Guards(h, f)
    BY <1>3, <1>5 DEF Guards
  <2>2. \A i \in 1..n : FramePair(t[i]) = FramePair(q[i]) /\ Guards(h, t[i]) = Guards(h, q[i])
    <3> TAKE i \in 1..n
    <3>1. i = n \/ i \in 1..below
      BY <1>1
    <3> QED
      BY <3>1, <2>1, <1>3 DEF g
  <2> QED
    BY <2>2, <1>1, AssumedAgrees DEF Holding
<1>8. Held(h, X, r, q, n) <=> ItemHolds(Current(h, f), holding)
  BY <1>1, <1>3, <1>a DEF Held
<1> HIDE DEF holding
<1>9. Combine(f.schema) \in {"all", "any"}
  BY <1>2 DEF Monotone
<1>10. /\ Combine(f.schema) = "all" => ItemHolds(Current(h, f), holding)
       /\ Combine(f.schema) = "any" /\ exact => ~ItemHolds(Current(h, f), holding)
  BY <1>8, <1>9, <1>a
<1>11. Progress(h, exact, f, holding)
  BY <1>1, <1>2, <1>3 DEF FrameInv, holding
<1>12. Progress(h, exact, g, holding)
  <2> SUFFICES ASSUME NEW i \in 1..(g.next - 1)
               PROVE  /\ Combine(g.schema) = "all" => ItemHolds(ItemsOf(h, g)[i], holding)
                      /\ Combine(g.schema) = "any" /\ exact => ~ItemHolds(ItemsOf(h, g)[i], holding)
    BY DEF Progress
  <2>1. ItemsOf(h, g) = ItemsOf(h, f)
    BY <1>5 DEF ItemsOf
  <2>2. CASE i = f.next
    BY <2>1, <2>2, <1>5, <1>10 DEF Current
  <2>3. CASE i \in 1..(f.next - 1)
    BY <2>1, <2>3, <1>5, <1>11 DEF Progress
  <2> QED
    BY <1>2, <1>3, <2>2, <2>3
<1>13. FrameInv(h, X, r, t, exact, n)
  <2>1. FrameInv(h, X, r, q, exact, n)
    BY <1>1, <1>2
  <2>2. n - 1 = below /\ f.next + 1 \in Nat \ {0}
    BY <1>1, <1>2
  <2>3. FramePair(f) \notin Assumed(h, q, below) /\ Awaited(h, r, q, below, FramePair(f))
    BY <2>1, <2>2, <1>3 DEF FrameInv
  <2>4. FramePair(g) \notin Assumed(h, t, below) /\ Awaited(h, r, t, below, FramePair(g))
    BY <2>3, <1>3, <1>6
  <2> QED
    BY <2>2, <2>4, <1>2, <1>3, <1>5, <1>7, <1>12 DEF FrameInv, g
<1>14. \A k \in 1..Len(t) : FrameInv(h, X, r, t, exact, k)
  <2> TAKE k \in 1..Len(t)
  <2>1. k = n \/ k \in 1..below
    BY <1>1, <1>3
  <2> QED
    BY <2>1, <1>6, <1>13
<1> QED
  BY <1>1, <1>3, <1>14 DEF WalkInv

\* What the top frame answers when it ends is right about its items.
LEMMA VerdictOfItems ==
  ASSUME NEW h, Reflected(h), NEW X, Monotone(X), NEW r, NEW q, NEW exact, NEW ans, NEW ans2,
         WalkInv(h, X, r, q, exact, <<>>, ans), Len(q) > 0,
         NEW f, f = q[Len(q)],
         \/ ans = "reject" /\ Combine(f.schema) = "all" /\ ans2 = "reject"
         \/ ans = "accept" /\ Combine(f.schema) = "any" /\ ans2 = "accept"
         \/ /\ f.next > Len(ItemsOf(h, f))
            /\ ans2 = IF Combine(f.schema) = "all" THEN "accept" ELSE "reject"
  PROVE  /\ ans2 = "accept" => Supported(h, FramePair(f), Holding(h, X, q, Len(q)))
         /\ ans2 = "reject" /\ exact => ~Supported(h, FramePair(f), Holding(h, X, q, Len(q)))
<1> DEFINE n == Len(q)
           G == Holding(h, X, q, n)
           items == ItemsOf(h, f)
<1>1. n \in Nat \ {0} /\ n \in 1..n /\ FrameInv(h, X, r, q, exact, n)
  BY DEF WalkInv
<1>2. f.schema \in X /\ f.value \in Value /\ f.next \in Nat \ {0}
      /\ Progress(h, exact, f, G)
  BY <1>1 DEF FrameInv
<1>3. items \in Seq(Within(Callees(f.schema)))
  BY <1>2, ItemsType DEF ItemsOf, Monotone, Reflected
<1>4. Combine(f.schema) \in {"all", "any"}
  BY <1>2 DEF Monotone
<1>5. ans # "none" => Answered(h, X, r, q, exact, ans)
  BY DEF WalkInv
<1>a. ans # "none" => /\ ans = "accept" => Held(h, X, r, q, n)
                      /\ ans = "reject" /\ exact => ~Held(h, X, r, q, n)
                      /\ f.next <= Len(items)
  BY <1>1, <1>5 DEF Answered
<1>6. Held(h, X, r, q, n) <=> f.next <= Len(items) /\ ItemHolds(items[f.next], G)
  BY <1>1 DEF Held, Current
<1>7. /\ Combine(f.schema) = "all" =>
           (Supported(h, FramePair(f), G) <=> \A i \in 1..Len(items) : ItemHolds(items[i], G))
      /\ Combine(f.schema) = "any" =>
           (Supported(h, FramePair(f), G) <=> \E i \in 1..Len(items) : ItemHolds(items[i], G))
  BY DEF Supported, Accepted, FramePair, ItemsOf
<1>8. /\ Combine(f.schema) = "all" => \A i \in 1..(f.next - 1) : ItemHolds(items[i], G)
      /\ Combine(f.schema) = "any" /\ exact => \A i \in 1..(f.next - 1) : ~ItemHolds(items[i], G)
  BY <1>2 DEF Progress
<1> SUFFICES /\ ans2 = "accept" => Supported(h, FramePair(f), G)
             /\ ans2 = "reject" /\ exact => ~Supported(h, FramePair(f), G)
  OBVIOUS
<1> HIDE DEF n, G, items
<1>9. CASE ans = "reject" /\ Combine(f.schema) = "all" /\ ans2 = "reject"
  BY <1>2, <1>3, <1>6, <1>7, <1>9, <1>a
<1>10. CASE ans = "accept" /\ Combine(f.schema) = "any" /\ ans2 = "accept"
  BY <1>2, <1>3, <1>6, <1>7, <1>10, <1>a
<1>11. CASE /\ f.next > Len(items)
            /\ ans2 = IF Combine(f.schema) = "all" THEN "accept" ELSE "reject"
  <2>1. \A i \in 1..Len(items) : i \in 1..(f.next - 1)
    BY <1>2, <1>3, <1>11
  <2> QED
    BY <2>1, <1>4, <1>7, <1>8, <1>11
<1> QED
  BY <1>9, <1>10, <1>11 DEF items

\* The top frame ends, and its answer is right about what its caller waits for.
LEMMA LeaveWalk ==
  ASSUME NEW h, Reflected(h), NEW X, Monotone(X), NEW r, NEW q, NEW exact, NEW ans, NEW ans2,
         WalkInv(h, X, r, q, exact, <<>>, ans), Len(q) > 0,
         NEW f, f = q[Len(q)],
         \/ ans = "reject" /\ Combine(f.schema) = "all" /\ ans2 = "reject"
         \/ ans = "accept" /\ Combine(f.schema) = "any" /\ ans2 = "accept"
         \/ /\ f.next > Len(ItemsOf(h, f))
            /\ ans2 = IF Combine(f.schema) = "all" THEN "accept" ELSE "reject",
         NEW t, Len(t) = Len(q) - 1, \A i \in 1..(Len(q) - 1) : t[i] = q[i]
  PROVE  WalkInv(h, X, r, t, exact, <<>>, ans2)
<1> DEFINE n == Len(q)
           below == n - 1
           H == Assumed(h, q, below)
           K == Assumed(h, q, n)
           p == FramePair(f)
<1>1. n \in Nat \ {0} /\ n \in 1..n /\ r \in PairsOf(X) /\ below \in Nat
      /\ Len(t) = below /\ (\A i \in 1..below : t[i] = q[i])
      /\ \A k \in 1..n : FrameInv(h, X, r, q, exact, k)
  BY DEF WalkInv
<1>2. /\ ans2 = "accept" => Supported(h, p, Holding(h, X, q, n))
      /\ ans2 = "reject" /\ exact => ~Supported(h, p, Holding(h, X, q, n))
  BY ZenonT(40), VerdictOfItems
<1>3. /\ p \in PairsOf(X) /\ p \notin H /\ Awaited(h, r, q, below, p)
  <2>1. FrameInv(h, X, r, q, exact, n)
    BY <1>1
  <2>2. q[n] = f
    OBVIOUS
  <2> QED
    BY <2>1, <2>2 DEF FrameInv, FramePair, PairsOf
<1> HIDE DEF n, p
<1>4. K = H \/ K = H \cup {p}
  <2>1. q[n] = f
    BY DEF n
  <2> QED
    BY <1>1, <2>1, AssumedGrows DEF p
<1>5. H \in SUBSET PairsOf(X)
  <2>1. below \in Nat /\ \A k \in 1..below : FrameInv(h, X, r, q, exact, k)
    BY <1>1 DEF below
  <2> HIDE DEF below
  <2> QED
    BY <2>1, AssumedType DEF H
<1>6. p \in Holding(h, X, q, below) <=> Supported(h, p, Holding(h, X, q, n))
  <2> HIDE DEF H, K
  <2>1. p \in GreatestFixpoint(h, PairsOf(X), H)
          <=> Supported(h, p, GreatestFixpoint(h, PairsOf(X), K))
    BY <1>3, <1>4, <1>5, CallIsItsItems
  <2> QED
    BY <2>1 DEF Holding, H, K
<1> HIDE DEF below
<1>7. Held(h, X, r, q, below) <=> p \in Holding(h, X, q, below)
  BY <1>1, <1>3, AwaitedIsHeld
<1>8. /\ \A k \in 1..below : FrameInv(h, X, r, t, exact, k)
      /\ Held(h, X, r, t, below) <=> Held(h, X, r, q, below)
  <2>1. Frames(h, X, r, q, exact, below) /\ SamePrefix(q, t, below)
    BY <1>1 DEF below, Frames, SamePrefix
  <2>2. /\ Frames(h, X, r, t, exact, below)
        /\ Held(h, X, r, t, below) <=> Held(h, X, r, q, below)
    BY <2>1, <1>1, FramesKept
  <2> QED
    BY <2>2 DEF Frames
<1>9. below > 0 => t[below].next <= Len(ItemsOf(h, t[below]))
  BY <1>1, <1>3 DEF Awaited
<1>10. Answered(h, X, r, t, exact, ans2)
  BY <1>1, <1>2, <1>6, <1>7, <1>8, <1>9 DEF Answered
<1> QED
  BY <1>1, <1>8, <1>10 DEF WalkInv

\* When the walk is over, its answer is right about the root.
LEMMA WalkEnds ==
  ASSUME NEW h, NEW X, NEW r, NEW exact, NEW ans, ans # "none",
         WalkInv(h, X, r, <<>>, exact, <<>>, ans)
  PROVE  /\ ans = "accept" => r \in GreatestFixpoint(h, PairsOf(X), {})
         /\ ans = "reject" /\ exact => r \notin GreatestFixpoint(h, PairsOf(X), {})
  BY DEF WalkInv, Answered, Held
=============================================================================
