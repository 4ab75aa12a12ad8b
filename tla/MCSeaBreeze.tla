---------------------------- MODULE MCSeaBreeze ----------------------------
(***************************************************************************)
(* Instances of SeaBreezeTypes.                                            *)
(***************************************************************************)
EXTENDS SeaBreezeTypes, TLC

MCScalars == <<"Null", "String">>
OneScalar == <<"Null">>

NoOwn == [k \in {} |-> ""]
Sample(kind, items, own) == [kind |-> kind, items |-> items, own |-> own]
MCShape ==
  [nil |-> Sample("Null", {}, NoOwn), text |-> Sample("String", {}, NoOwn),
   none |-> Sample("Array", {}, NoOwn), nils |-> Sample("Array", {"nil"}, NoOwn),
   both |-> Sample("Array", {"nil", "text"}, NoOwn),
   empty |-> Sample("Object", {}, NoOwn),
   a |-> Sample("Object", {}, 1 :> "nil"), b |-> Sample("Object", {}, 2 :> "text"),
   ab |-> Sample("Object", {}, 1 :> "text" @@ 2 :> "nil"),
   deep |-> Sample("Object", {}, 1 :> "a"), flat |-> Sample("Object", {}, 1 :> "empty")]
MCVal == DOMAIN MCShape
OneScalarVal == {"nil", "none", "nils", "empty", "a", "deep", "flat"}
OneScalarShape == [v \in OneScalarVal |-> MCShape[v]]

-----------------------------------------------------------------------------
(* Snapshots of arenas built elsewhere.  A row of a node table is           *)
(* <<kind, left, right, start, count>>, of a field table <<key, type,       *)
(* presence>>.                                                             *)

Arena(nodes, fields) ==
  LET base == Len(Canonical)
      added(table, column) ==
        table \o [i \in 1..Len(nodes) |-> nodes[i][column]] IN
  [parents |-> [n \in 1..(base + Len(nodes)) |-> n],
   ranks |-> [n \in 1..(base + Len(nodes)) |-> 0],
   kinds |-> added(Canonical, 1),
   left |-> added(CanonicalTables.left, 2), right |-> added(CanonicalTables.right, 3),
   fieldStarts |-> added(CanonicalTables.fieldStarts, 4),
   fieldCounts |-> added(CanonicalTables.fieldCounts, 5),
   fieldKeys |-> [i \in 1..Len(fields) |-> fields[i][1]],
   fieldTypes |-> [i \in 1..Len(fields) |-> fields[i][2]],
   fieldPresence |-> [i \in 1..Len(fields) |-> fields[i][3]]]

AnArray(element) == <<"Array", element, NoNode, 0, 0>>
AnObject(start, count) == <<"Object", NoNode, NoNode, start, count>>
AVar == <<"Var", NoNode, NoNode, 0, 0>>

\* {a: {a: null}} and {a: {}, b?: string}.
Nested ==
  Arena(<<AnObject(1, 1), AnObject(2, 0), AnObject(2, 1), AnObject(3, 2)>>,
        <<<<1, 3, "Required">>, <<1, 5, "Required">>,
          <<1, 6, "Required">>, <<2, 4, "Optional">>>>)

\* Variables x, y shared by the fields of {a: x, b?: [x]} and {a: y, b: [string]}.
Sharing ==
  Arena(<<AVar, AVar, AnArray(5), AnArray(4), AnObject(1, 2), AnObject(3, 2)>>,
        <<<<1, 5, "Required">>, <<2, 7, "Optional">>,
          <<1, 6, "Required">>, <<2, 8, "Required">>>>)

\* A second string node, a union with it, and a variable bound to the union.
Doubled ==
  LET arena == Arena(<<<<"String", NoNode, NoNode, 0, 0>>, <<"Union", 3, 5, 0, 0>>,
                       AVar, AnArray(7)>>, <<>>)
  IN  [arena EXCEPT !.parents[7] = 6]

Arenas == {Nested, Sharing, Doubled}
=============================================================================
