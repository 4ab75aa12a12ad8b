------------------------- MODULE SeaBreezeSnapshot -------------------------
(***************************************************************************)
(* Snapshots of a SeaBreeze arena and the validator that load() runs over  *)
(* them (src/seabreeze/sea-breeze.ts).  Node ids and field slots count     *)
(* from 1, so 0 is the -1 of the code.                                     *)
(***************************************************************************)
EXTENDS Integers, Sequences, FiniteSets

CONSTANTS
  Key,       \* interned field keys
  Scalars    \* the scalar kinds in table order: seven in the code

ASSUME KeyAssumption == Key \subseteq Nat

ASSUME ScalarsAssumption ==
  /\ Scalars \in Seq({"Null", "Undefined", "Boolean", "Number", "String",
                      "BigInt", "Symbol"})
  /\ \A i, j \in DOMAIN Scalars : Scalars[i] = Scalars[j] => i = j

\* The nodes every arena starts with, at fixed ids.
Canonical == <<"Never", "Unknown">> \o Scalars
Unknown == 2

ScalarKinds == {Scalars[i] : i \in DOMAIN Scalars}
LeafKinds == {"Never", "Unknown"} \cup ScalarKinds
Kinds == LeafKinds \cup {"Var", "Array", "Object", "Union"}
Presence == {"Required", "Optional"}

NoNode == 0

\* The tables of an arena right after reset().
CanonicalTables ==
  LET same(x) == [i \in DOMAIN Canonical |-> x] IN
  [parents |-> [i \in DOMAIN Canonical |-> i], ranks |-> same(0),
   kinds |-> Canonical, left |-> same(NoNode), right |-> same(NoNode),
   fieldStarts |-> same(0), fieldCounts |-> same(0),
   fieldKeys |-> <<>>, fieldTypes |-> <<>>, fieldPresence |-> <<>>]

-----------------------------------------------------------------------------
(* validateSnapshot                                                        *)

Ids(s) == 1..Len(s.kinds)
Slots(s, n) == s.fieldStarts[n]..(s.fieldStarts[n] + s.fieldCounts[n] - 1)

\* The tables have the lengths that belong together.
TablesSized(s) ==
  /\ s.kinds \in Seq(Kinds)
  /\ \A table \in {s.parents, s.ranks, s.left, s.right, s.fieldStarts, s.fieldCounts} :
       table \in Seq(Nat) /\ Len(table) = Len(s.kinds)
  /\ s.fieldKeys \in Seq(Key)
  /\ s.fieldTypes \in Seq(Nat) /\ Len(s.fieldTypes) = Len(s.fieldKeys)
  /\ s.fieldPresence \in Seq(Presence) /\ Len(s.fieldPresence) = Len(s.fieldKeys)

CanonicalPrefix(s) ==
  /\ Len(s.kinds) >= Len(Canonical)
  /\ \A n \in DOMAIN Canonical : s.kinds[n] = Canonical[n] /\ s.parents[n] = n

\* The node reached from n after as many parent steps as there are nodes.
Climbed(s, n) ==
  LET climb[k \in 0..Len(s.kinds)] ==
        IF k = 0 THEN n ELSE s.parents[climb[k - 1]]
  IN  climb[Len(s.kinds)]

ParentsValid(s) ==
  /\ TablesSized(s)
  /\ \A n \in Ids(s) : s.parents[n] \in Ids(s)
  /\ \A n \in Ids(s) : s.parents[Climbed(s, n)] = Climbed(s, n)

NoFieldSpan(s, n) == s.fieldStarts[n] = 0 /\ s.fieldCounts[n] = 0

FieldSpanValid(s, n) ==
  /\ s.fieldStarts[n] >= 1
  /\ s.fieldStarts[n] + s.fieldCounts[n] - 1 <= Len(s.fieldKeys)
  /\ \A i \in Slots(s, n) :
       /\ s.fieldTypes[i] \in Ids(s)
       /\ \A j \in Slots(s, n) : i < j => s.fieldKeys[i] < s.fieldKeys[j]

RowValid(s, n) ==
  LET kind == s.kinds[n] IN
  /\ kind \in LeafKinds \cup {"Var", "Object"} => s.left[n] = NoNode
  /\ kind = "Array" => s.left[n] \in Ids(s)
  /\ IF kind = "Union"
       THEN /\ {s.left[n], s.right[n]} \subseteq Ids(s) \ {n}
            /\ s.left[n] # s.right[n]
       ELSE s.right[n] = NoNode
  /\ IF kind = "Object" THEN FieldSpanValid(s, n) ELSE NoFieldSpan(s, n)

\* Every field slot belongs to the span of exactly one object.
SlotsOwned(s) ==
  \A i \in DOMAIN s.fieldKeys :
    Cardinality({n \in Ids(s) : s.kinds[n] = "Object" /\ i \in Slots(s, n)}) = 1

Edges(s, n) ==
  CASE s.kinds[n] = "Array"  -> {s.left[n]}
    [] s.kinds[n] = "Union"  -> {s.left[n], s.right[n]}
    [] s.kinds[n] = "Object" -> {s.fieldTypes[i] : i \in Slots(s, n)}
    [] OTHER -> {}

\* The depth-first visit meets no node that it is still visiting: the nodes
\* whose children are all finished, round by round, come to be all of them.
StructureAcyclic(s) ==
  LET finished[k \in 0..Len(s.kinds)] ==
        IF k = 0 THEN {}
        ELSE LET before == finished[k - 1] IN
             {n \in Ids(s) : \A child \in Edges(s, Climbed(s, n)) :
                               Climbed(s, child) \in before}
  IN  finished[Len(s.kinds)] = Ids(s)

Valid(s) ==
  /\ TablesSized(s)
  /\ CanonicalPrefix(s)
  /\ ParentsValid(s)
  /\ \A n \in Ids(s) : RowValid(s, n)
  /\ SlotsOwned(s)
  /\ StructureAcyclic(s)
=============================================================================
