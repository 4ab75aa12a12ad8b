-------------------------- MODULE MCSchemaVerdict --------------------------
(***************************************************************************)
(* Instances of the engines: schema   graphs with lazy cycles, and heaps   *)
(* of two mutually referencing records.                                    *)
(***************************************************************************)
EXTENDS CompiledCheck, TLC

Atom == [kind |-> "atom", keys |-> <<>>, enum |-> <<>>, own |-> <<>>,
         slots |-> <<>>, items |-> <<>>]
Rec(keys, own) == [Atom EXCEPT !.kind = "record", !.keys = keys, !.enum = keys,
                               !.own = own]

\* A scalar with checks: a string with two patterns, a date with two bounds.
Checked(typed, checks, bounded) ==
  [tag |-> "Scalar", typed |-> typed, checks |-> checks, bounded |-> bounded,
   accepts |-> {v \in typed : \A i \in DOMAIN checks : v \in checks[i]}]
Scalar(accepts) == Checked(accepts, <<>>, TRUE)
Entry(key, schema, presence) ==
  [key |-> key, schema |-> schema, presence |-> presence,
   resolved |-> IF presence = "required" THEN "required" ELSE "optional"]
Object(entries, strict, catchall) ==
  [tag |-> "Object", entries |-> entries, strict |-> strict, catchall |-> catchall]
Lazy(target) == [tag |-> "Lazy", target |-> target]
Union(options) == [tag |-> "Union", options |-> options]
Wrapper(tag, inner) == [tag |-> tag, inner |-> inner]

-----------------------------------------------------------------------------
(* A small graph, where the greatest fixpoint is found by enumeration.     *)
(* L = lazy(() => U), U = A | B, A = {a: L, b: L}, B = {b?: L} and strict. *)

SmallSchema == {"L", "U", "A", "B"}
SmallNode ==
  [L |-> Lazy("U"), U |-> Union(<<"A", "B">>),
   A |-> Object(<<Entry("a", "L", "required"), Entry("b", "L", "required")>>,
                FALSE, NoSchema),
   B |-> Object(<<Entry("b", "L", "optional")>>, TRUE, NoSchema)]
SmallHeap ==
  [undefined |-> Atom, a |-> Atom, b |-> Atom,
   r1 |-> Rec(<<"a", "b">>, [a |-> "r2", b |-> "r1"]),
   r2 |-> Rec(<<"a", "b">>, [a |-> "undefined", b |-> "r1"])]
SmallValue == DOMAIN SmallHeap
SmallKey == {"a", "b"}
SmallRoots == (SmallSchema \X {"r1", "r2"}) \cup {<<"B", "undefined">>}

-----------------------------------------------------------------------------
(* Every heap of two records with slots a and b, numbered by the four      *)
(* slots in base 4; its records are two consecutive identities.  The other *)
(* values are one of each kind.                                            *)

WideUndefined == 0
WideNull == 1
RecordIds == 2..513
KeyA == 514
KeyB == 515
WideKey == {KeyA, KeyB}
Hole == 516
Getter == 517
List == 518
Empty == 519
MapOf == 520
SetOf == 521
Loop == 522
One == 523
Bare == 524
Lazily == 525
Dated == 526
Filled == 527
Boxed == 528
Hidden == 529
OtherIds == Hole..Hidden

\* A record with the given slots; Missing for no property.
Own(a, b) ==
  Rec(SelectSeq(<<KeyA, KeyB>>, LAMBDA k : (IF k = KeyA THEN a ELSE b) # Missing),
      [k \in WideKey |-> IF k = KeyA THEN a ELSE b])
Arr(slots) == [Atom EXCEPT !.kind = "array", !.slots = slots]
RecordAt(v) ==
  LET first == v - (v % 2)                  \* the heap's first record
      code == (first - 2) \div 2
      digit(i) == (code \div (4 ^ i)) % 4
      base == IF v = first THEN 0 ELSE 2
      target(t) == CASE t = 0 -> Missing [] t = 1 -> WideNull
                     [] t = 2 -> first [] t = 3 -> first + 1
  IN  Own(target(digit(base)), target(digit(base + 1)))

WideNode ==
  [L |-> Lazy("U"), U |-> Union(<<"A", "I", "C">>),
   A |-> Object(<<Entry(KeyA, "L", "required"), Entry(KeyB, "N", "optional")>>,
                FALSE, NoSchema),
   B |-> Object(<<Entry(KeyB, "M", "required")>>, TRUE, NoSchema),
   N |-> Wrapper("Nullable", "L"),
   I |-> [tag |-> "Intersection", left |-> "R", right |-> "B"],
   R |-> [tag |-> "Refine", inner |-> "M", when |-> RecordIds,
          predicate |-> {v \in RecordIds : v % 2 = 0}],
   M |-> Lazy("N"),
   C |-> Object(<<Entry(KeyA, "Z", "deferred")>>, TRUE, "R"),
   Z |-> Scalar({WideNull}),
   \* Recursive through a catchall only, which the tracking analysis overlooks.
   D |-> Object(<<>>, FALSE, "E"), E |-> Lazy("F"), F |-> Union(<<"Z", "D">>)]
WideRoots == {"L", "N", "R", "C", "D"} \X RecordIds

-----------------------------------------------------------------------------
(* Every schema tag, over one value of each kind                           *)

MixedHeap ==
  [v \in OtherIds |->
     CASE v = Hole   -> Arr(<<Missing, KeyA>>)
       [] v = Getter -> Arr(<<KeyA, Accessor>>)
       [] v = List   -> Arr(<<WideUndefined, KeyA>>)
       [] v = Empty  -> Arr(<<>>)
       [] v = MapOf  -> [Atom EXCEPT !.kind = "map",
                                     !.items = <<<<KeyA, Loop>>, <<KeyB, WideNull>>>>]
       [] v = SetOf  -> [Atom EXCEPT !.kind = "set", !.items = <<KeyA, WideUndefined>>]
       [] v = Loop   -> Own(Loop, KeyA)
       [] v = One    -> Own(KeyA, Missing)
       [] v = Bare   -> [Own(Missing, Loop) EXCEPT !.enum = <<>>]
       [] v = Lazily -> Own(Accessor, Missing)
       [] v = Dated  -> Arr(<<List, KeyB>>)
       [] v = Filled -> Own(Dated, Hole)
       [] v = Boxed  -> Own(One, Empty)
       [] v = Hidden -> [Own(KeyA, KeyB) EXCEPT !.enum = <<KeyA>>]]
MixedValue == {WideUndefined, WideNull} \cup WideKey \cup OtherIds
MixedNode ==
  [any |-> Scalar(MixedValue),
   text |-> Scalar(WideKey),
   void |-> Scalar({WideUndefined}),
   short |-> Checked(WideKey, <<{KeyA}, {}>>, TRUE),
   date |-> Checked({SetOf, List}, <<{SetOf}, {}>>, FALSE),
   shorts |-> [tag |-> "Tuple", items |-> <<"date", "short">>, rest |-> NoSchema],
   maybe |-> Wrapper("Optional", "text"),
   nil |-> Wrapper("Nullable", "maybe"),
   note |-> Wrapper("Wrap", "nil"),
   self |-> Lazy("obj"),
   lazyMaybe |-> Lazy("maybe"),
   both |-> [tag |-> "Intersection", left |-> "note", right |-> "any"],
   meet |-> [tag |-> "Intersection", left |-> "rest", right |-> "prop"],
   either |-> Union(<<"text", "self", "maybe">>),
   oneOf |-> [tag |-> "Xor", options |-> <<"text", "void", "arr">>],
   fine |-> [tag |-> "Refine", inner |-> "either", when |-> {KeyA, Loop},
             predicate |-> {Loop, WideUndefined}],
   present |-> [tag |-> "Refine", inner |-> "maybe", when |-> MixedValue,
                predicate |-> WideKey],
   arr |-> [tag |-> "Array", item |-> "note", lens |-> 1..2],
   arrAny |-> [tag |-> "Array", item |-> "fine", lens |-> 0..2],
   gaps |-> [tag |-> "Array", item |-> "present", lens |-> 0..2],
   tup |-> [tag |-> "Tuple", items |-> <<"maybe">>, rest |-> "text"],
   pair |-> [tag |-> "Tuple", items |-> <<"any", "text">>, rest |-> NoSchema],
   dict |-> [tag |-> "Record", key |-> "text", value |-> "either",
             required |-> {KeyA}],
   mapOf |-> [tag |-> "Map", key |-> "text", value |-> "either", lens |-> 0..2],
   setOf |-> [tag |-> "Set", item |-> "maybe", lens |-> {2}],
   prop |-> [tag |-> "Property", base |-> "any", key |-> KeyB, value |-> "self"],
   obj |-> Object(<<Entry(KeyA, "either", "required"),
                    Entry(KeyB, "fine", "deferred")>>, TRUE, NoSchema),
   texts |-> [tag |-> "Array", item |-> "text", lens |-> 0..1],
   table |-> [tag |-> "Record", key |-> NoSchema, value |-> "text", required |-> {}],
   form |-> Object(<<Entry(KeyA, "shorts", "required"), Entry(KeyB, "texts", "optional")>>,
                   FALSE, NoSchema),
   sheet |-> Object(<<Entry(KeyA, "table", "required")>>, TRUE, NoSchema),
   strict |-> Object(<<Entry(KeyA, "any", "required")>>, TRUE, NoSchema),
   rest |-> Object(<<Entry(KeyB, "maybe", "optional")>>, FALSE, "either"),
   tagged |-> [tag |-> "Discriminated", key |-> KeyB,
               cases |-> <<[literal |-> KeyB, schema |-> "any"],
                           [literal |-> KeyA, schema |-> "self"]>>],
   keyed |-> [tag |-> "KeyedObject", inner |-> "any", keys |-> WideKey,
              exactlyOne |-> TRUE],
   sized |-> [tag |-> "PropertyCount", inner |-> "any", counts |-> {1}],
   names |-> [tag |-> "PropertyNames", inner |-> "any", key |-> "text"],
   pattern |-> [tag |-> "PatternProperties", inner |-> "any",
                entries |-> <<[match |-> {KeyA}, schema |-> "either"],
                              [match |-> {KeyA}, schema |-> "any"]>>,
                known |-> {}, additional |-> "text", allowAdditional |-> FALSE]]

\* Both families of schemas and values in one instance.
AllNode == WideNode @@ MixedNode
AllSchema == DOMAIN AllNode
AllValue == RecordIds \cup MixedValue
AllHeap ==
  [v \in AllValue |-> IF v \in RecordIds THEN RecordAt(v)
                     ELSE IF v \in OtherIds THEN MixedHeap[v] ELSE Atom]
AllRoots == WideRoots \cup ((DOMAIN MixedNode) \X MixedValue)
=============================================================================
