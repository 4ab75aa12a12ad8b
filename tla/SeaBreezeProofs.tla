--------------------------- MODULE SeaBreezeProofs ---------------------------
(***************************************************************************)
(* Proofs about the packed field table of a SeaBreeze arena, for every     *)
(* capacity, key set and set of loaded snapshots, when callers fill one    *)
(* object at a time (~Raw): no field slot is shared or lost, and the table *)
(* implements one append-only field list per node.                         *)
(*                                                                         *)
(* The difficulty is principalJoin: it interleaves appends to the outputs  *)
(* of nested joins, the very pattern that breaks the table in general.  It *)
(* is safe because the open objects are a stack: each ends at or before    *)
(* the start of the one above it, and no open object ends inside the span  *)
(* of another object.                                                      *)
(***************************************************************************)
EXTENDS SeaBreezeTypes, FiniteSetTheorems, SequenceTheorems, TLAPS

\* f is a sequence, of any elements.
IsTable(f) == Len(f) \in Nat /\ f = [i \in 1..Len(f) |-> f[i]]

End(n) == fieldStarts[n] + fieldCounts[n]

TablesInv ==
  /\ kinds \in Seq(Kinds)
  /\ fieldStarts \in Seq(Nat) /\ Len(fieldStarts) = Len(kinds)
  /\ fieldCounts \in Seq(Nat) /\ Len(fieldCounts) = Len(kinds)
  /\ IsTable(parents) /\ Len(parents) = Len(kinds)
  /\ IsTable(fieldKeys)
  /\ \A n \in Nodes \ Objects : fieldCounts[n] = 0

\* Every span lies in the table, spans with fields do not overlap, and every
\* slot is in one.
SpansInv ==
  /\ \A n \in Objects : fieldStarts[n] >= 1 /\ End(n) <= FieldLength + 1
  /\ \A m, n \in Objects :
       m # n /\ fieldCounts[m] > 0 /\ fieldCounts[n] > 0 =>
         End(m) <= fieldStarts[n] \/ End(n) <= fieldStarts[m]
  /\ \A i \in 1..FieldLength :
       \E n \in Objects : fieldStarts[n] <= i /\ i < End(n)

\* The next field of o does not fall inside the span of another object.
Appendable(o) ==
  /\ o \in Objects
  /\ \A n \in Objects \ {o} :
       fieldCounts[n] > 0 => End(o) <= fieldStarts[n] \/ End(n) <= End(o)

BuilderInv ==
  building # NoNode => NoJoin /\ Appendable(building) /\ parents[building] = building

Open == {i \in DOMAIN frames : frames[i].op = "object"}

FramesInv ==
  /\ IsTable(frames)
  /\ \A i \in DOMAIN frames :
       DOMAIN frames[i] = {"op", "out", "l", "lEnd", "r", "rEnd"}
  /\ \A i \in Open : Appendable(frames[i].out)
  /\ \A i, j \in Open :
       i < j => frames[i].out # frames[j].out
                /\ End(frames[i].out) <= fieldStarts[frames[j].out]

Inv == TablesInv /\ SpansInv /\ BuilderInv /\ FramesInv

-----------------------------------------------------------------------------
(* Sequences of any elements                                               *)

LEMMA TableIsSeq ==
  ASSUME NEW f, NEW n \in Nat, f = [i \in 1..n |-> f[i]]
  PROVE  f \in Seq({f[i] : i \in 1..n}) /\ Len(f) = n /\ IsTable(f)
<1> DEFINE S == {f[i] : i \in 1..n}
<1>1. f \in [1..n -> S]
  OBVIOUS
<1> HIDE DEF S
<1>2. f \in Seq(S) /\ Len(f) = n
  BY <1>1
<1> QED
  BY <1>2 DEF IsTable, S

LEMMA SeqIsTable ==
  ASSUME NEW S, NEW f \in Seq(S)
  PROVE  IsTable(f)
  BY DEF IsTable

LEMMA EmptyIsTable == IsTable(<<>>)
<1>1. <<>> \in Seq(Nat)
  OBVIOUS
<1> QED
  BY <1>1, SeqIsTable

LEMMA AppendTable ==
  ASSUME NEW f, NEW x, IsTable(f)
  PROVE  /\ IsTable(Append(f, x))
         /\ Len(Append(f, x)) = Len(f) + 1
         /\ \A i \in 1..Len(f) : Append(f, x)[i] = f[i]
         /\ Append(f, x)[Len(f) + 1] = x
<1>1. PICK S : f \in Seq(S)
  BY TableIsSeq DEF IsTable
<1> DEFINE T == S \cup {x}
<1>2. f \in Seq(T) /\ x \in T
  BY <1>1
<1> HIDE DEF T
<1>3. Append(f, x) \in Seq(T) /\ Len(f) \in Nat
  BY <1>2
<1>4. /\ Len(Append(f, x)) = Len(f) + 1
      /\ \A i \in 1..Len(f) : Append(f, x)[i] = f[i]
      /\ Append(f, x)[Len(f) + 1] = x
  BY <1>2, AppendProperties
<1>5. IsTable(Append(f, x))
  BY <1>3, SeqIsTable
<1> QED
  BY <1>4, <1>5

LEMMA PoppedTable ==
  ASSUME NEW f, IsTable(f), Len(f) > 0
  PROVE  LET g == SubSeq(f, 1, Len(f) - 1) IN
         /\ IsTable(g)
         /\ Len(g) = Len(f) - 1
         /\ \A i \in 1..(Len(f) - 1) : g[i] = f[i]
<1>1. PICK S : f \in Seq(S)
  BY TableIsSeq DEF IsTable
<1>2. SubSeq(f, 1, Len(f) - 1) \in Seq(S)
  BY <1>1
<1> QED
  BY <1>1, <1>2 DEF IsTable
-----------------------------------------------------------------------------
(* The tables an arena is created, reset or loaded with                    *)

LEMMA CanonicalHasNoObject ==
  /\ Canonical \in Seq(Kinds) /\ Len(Canonical) \in Nat
  /\ \A n \in 1..Len(Canonical) : Canonical[n] # "Object"
<1> DEFINE Names == {"Null", "Undefined", "Boolean", "Number", "String",
                     "BigInt", "Symbol"}
<1>1. Scalars \in Seq(Names)
  BY ScalarsAssumption
<1>2. \A i \in 1..Len(Scalars) : Scalars[i] \in Names /\ Scalars[i] \in ScalarKinds
  BY <1>1 DEF ScalarKinds
<1>3. Scalars \in Seq(ScalarKinds)
  <2>1. Scalars = [i \in 1..Len(Scalars) |-> Scalars[i]] /\ Len(Scalars) \in Nat
    BY <1>1
  <2>2. Scalars \in [1..Len(Scalars) -> ScalarKinds]
    BY <1>2, <2>1
  <2> QED
    BY <2>1, <2>2
<1>4. <<"Never", "Unknown">> \in Seq(Kinds) /\ Scalars \in Seq(Kinds)
  BY <1>3 DEF Kinds, LeafKinds
<1>5. Canonical \in Seq(Kinds) /\ Len(Canonical) = 2 + Len(Scalars)
  BY <1>4, ConcatProperties DEF Canonical
<1>6. ASSUME NEW n \in 1..Len(Canonical)
      PROVE  Canonical[n] # "Object"
  <2> DEFINE first == <<"Never", "Unknown">>
  <2>1. Canonical[n] = IF n <= 2 THEN <<"Never", "Unknown">>[n] ELSE Scalars[n - 2]
    <3>1. first \in Seq(Kinds) /\ Len(first) = 2
      BY <1>4
    <3>2. Canonical = first \o Scalars /\ n \in 1..Len(first) + Len(Scalars)
      BY <1>5, <1>6, <3>1 DEF Canonical
    <3> HIDE DEF first
    <3>3. (first \o Scalars)[n] =
            IF n <= Len(first) THEN first[n] ELSE Scalars[n - Len(first)]
      BY ONLY <1>4, <3>1, <3>2, ConcatProperties
    <3> QED
      BY <3>1, <3>2, <3>3 DEF first
  <2>2. CASE n <= 2
    <3>1. n = 1 \/ n = 2
      BY <1>5, <2>2
    <3> QED
      BY ONLY <2>1, <3>1
  <2>3. CASE n > 2
    <3>1. n - 2 \in 1..Len(Scalars) /\ Canonical[n] = Scalars[n - 2]
      BY <1>5, <2>1, <2>3
    <3>2. Canonical[n] \in Names
      BY <1>2, <3>1
    <3> QED
      BY ONLY <3>2
  <2> QED
    BY <1>5, <2>2, <2>3
<1> QED
  BY <1>5, <1>6

\* Snapshots that validateSnapshot accepts satisfy the invariant of the tables.
LEMMA ValidSnapshot ==
  ASSUME NEW s, Valid(s)
  PROVE  /\ \A n \in Ids(s) : s.kinds[n] = "Object" =>
              s.fieldStarts[n] >= 1
              /\ s.fieldStarts[n] + s.fieldCounts[n] <= Len(s.fieldKeys) + 1
         /\ \A n \in Ids(s) : s.kinds[n] # "Object" => s.fieldCounts[n] = 0
         /\ \A i \in 1..Len(s.fieldKeys) : \E owner :
              {n \in Ids(s) : s.kinds[n] = "Object" /\ i \in Slots(s, n)} = {owner}
<1>1. /\ s.kinds \in Seq(Kinds) /\ s.fieldKeys \in Seq(Key)
      /\ s.fieldStarts \in Seq(Nat) /\ Len(s.fieldStarts) = Len(s.kinds)
      /\ s.fieldCounts \in Seq(Nat) /\ Len(s.fieldCounts) = Len(s.kinds)
  BY DEF Valid, TablesSized
<1>2. ASSUME NEW n \in Ids(s)
      PROVE  /\ s.kinds[n] = "Object" =>
                  s.fieldStarts[n] >= 1
                  /\ s.fieldStarts[n] + s.fieldCounts[n] <= Len(s.fieldKeys) + 1
             /\ s.kinds[n] # "Object" => s.fieldCounts[n] = 0
  <2>1. RowValid(s, n)
    BY DEF Valid
  <2>2. s.fieldStarts[n] \in Nat /\ s.fieldCounts[n] \in Nat /\ Len(s.fieldKeys) \in Nat
    <3>1. n \in 1..Len(s.fieldStarts) /\ n \in 1..Len(s.fieldCounts)
      BY <1>1 DEF Ids
    <3> QED
      BY ONLY <1>1, <3>1, ElementOfSeq, LenProperties
  <2> QED
    BY <2>1, <2>2 DEF RowValid, FieldSpanValid, NoFieldSpan
<1>3. ASSUME NEW i \in 1..Len(s.fieldKeys)
      PROVE  \E owner :
               {n \in Ids(s) : s.kinds[n] = "Object" /\ i \in Slots(s, n)} = {owner}
  <2> DEFINE owners == {n \in Ids(s) : s.kinds[n] = "Object" /\ i \in Slots(s, n)}
  <2>0. i \in DOMAIN s.fieldKeys
    BY <1>1
  <2>1. Cardinality(owners) = 1
    BY <2>0, Zenon DEF Valid, SlotsOwned
  <2>2. IsFiniteSet(Ids(s)) /\ owners \in SUBSET Ids(s)
    BY <1>1, FS_Interval DEF Ids
  <2>3. IsFiniteSet(owners)
    BY <2>2, FS_Subset
  <2> HIDE DEF owners
  <2>4. \E owner : owners = {owner}
    BY <2>1, <2>3, FS_Singleton
  <2> QED
    BY <2>4 DEF owners
<1> QED
  BY <1>2, <1>3

LEMMA LoadTables ==
  ASSUME NEW s \in Snapshots, Become(s)
  PROVE  TablesInv' /\ SpansInv'
<1>1. Valid(s) /\ TablesSized(s)
  BY ArenaAssumption DEF Valid
<1>2. /\ s.kinds \in Seq(Kinds) /\ Len(s.kinds) \in Nat
      /\ s.fieldStarts \in Seq(Nat) /\ Len(s.fieldStarts) = Len(s.kinds)
      /\ s.fieldCounts \in Seq(Nat) /\ Len(s.fieldCounts) = Len(s.kinds)
      /\ s.parents \in Seq(Nat) /\ Len(s.parents) = Len(s.kinds)
      /\ s.fieldKeys \in Seq(Key) /\ Len(s.fieldKeys) \in Nat
  BY <1>1 DEF TablesSized
<1>3. /\ parents' = s.parents /\ kinds' = s.kinds /\ fieldKeys' = s.fieldKeys
      /\ fieldStarts' = s.fieldStarts /\ fieldCounts' = s.fieldCounts
  BY DEF Become
<1>4. Nodes' = Ids(s) /\ Objects' = {n \in Ids(s) : s.kinds[n] = "Object"}
  BY <1>3 DEF Nodes, Objects, Ids
<1>5. ASSUME NEW n \in Ids(s)
      PROVE  /\ s.fieldStarts[n] \in Nat /\ s.fieldCounts[n] \in Nat
             /\ End(n)' = s.fieldStarts[n] + s.fieldCounts[n]
             /\ Slots(s, n) = s.fieldStarts[n]..(End(n)' - 1)
  <2>1. n \in 1..Len(s.kinds)
    BY DEF Ids
  <2>2. s.fieldStarts[n] \in Nat /\ s.fieldCounts[n] \in Nat
    <3>1. n \in 1..Len(s.fieldStarts) /\ n \in 1..Len(s.fieldCounts)
      BY <1>2, <2>1
    <3> QED
      BY ONLY <1>2, <3>1, ElementOfSeq
  <2>3. End(n)' = s.fieldStarts[n] + s.fieldCounts[n]
    BY <1>3 DEF End
  <2> QED
    BY <2>2, <2>3 DEF Slots
<1>6. TablesInv'
  <2>1. IsTable(s.parents) /\ IsTable(s.fieldKeys)
    BY <1>2, SeqIsTable
  <2>2. \A n \in Nodes' \ Objects' : fieldCounts'[n] = 0
    BY <1>1, <1>3, <1>4, ValidSnapshot
  <2> QED
    BY <1>2, <1>3, <2>1, <2>2 DEF TablesInv
<1>7. \A n \in Objects' : fieldStarts'[n] >= 1 /\ End(n)' <= FieldLength' + 1
  BY <1>1, <1>3, <1>4, <1>5, ValidSnapshot DEF FieldLength
<1>8. \A i \in 1..FieldLength' : \E n \in Objects' :
        fieldStarts'[n] <= i /\ i < End(n)'
  <2>1. SUFFICES ASSUME NEW i \in 1..Len(s.fieldKeys)
                 PROVE  \E n \in Objects' : fieldStarts'[n] <= i /\ i < End(n)'
    BY <1>3 DEF FieldLength
  <2>2. PICK n \in Ids(s) : s.kinds[n] = "Object" /\ i \in Slots(s, n)
    BY <1>1, ValidSnapshot
  <2>3. s.fieldStarts[n] <= i /\ i < End(n)'
    BY <2>2, <1>5
  <2> QED
    BY <2>2, <2>3, <1>3, <1>4
<1>9. ASSUME NEW m \in Objects', NEW n \in Objects',
             m # n, fieldCounts'[m] > 0, fieldCounts'[n] > 0
      PROVE  End(m)' <= fieldStarts'[n] \/ End(n)' <= fieldStarts'[m]
  <2>1. SUFFICES ASSUME End(m)' > fieldStarts'[n], End(n)' > fieldStarts'[m]
                 PROVE  FALSE
    BY <1>3, <1>4, <1>5
  <2> DEFINE i == IF s.fieldStarts[m] <= s.fieldStarts[n]
                    THEN s.fieldStarts[n] ELSE s.fieldStarts[m]
  <2>2. i \in Slots(s, m) /\ i \in Slots(s, n)
    <3>1. m \in Ids(s) /\ n \in Ids(s)
      BY <1>4
    <3>2. /\ s.fieldStarts[m] \in Nat /\ s.fieldStarts[n] \in Nat
          /\ s.fieldCounts[m] \in Nat /\ s.fieldCounts[n] \in Nat
          /\ s.fieldCounts[m] > 0 /\ s.fieldCounts[n] > 0
          /\ s.fieldStarts[m] + s.fieldCounts[m] > s.fieldStarts[n]
          /\ s.fieldStarts[n] + s.fieldCounts[n] > s.fieldStarts[m]
      BY <2>1, <3>1, <1>3, <1>5, <1>9
    <3> QED
      BY ONLY <3>2 DEF Slots
  <2>3. i \in 1..Len(s.fieldKeys)
    <3> HIDE DEF i
    <3>1. /\ s.fieldStarts[m] <= i /\ i <= End(m)' - 1 /\ i \in Int
          /\ s.fieldStarts[m] \in Nat /\ End(m)' \in Nat
      <4>1. m \in Ids(s) /\ i \in s.fieldStarts[m]..(End(m)' - 1)
        BY <2>2, <1>4, <1>5
      <4>2. /\ s.fieldStarts[m] \in Nat /\ s.fieldCounts[m] \in Nat
            /\ End(m)' = s.fieldStarts[m] + s.fieldCounts[m]
        BY <4>1, <1>5
      <4> QED
        BY ONLY <4>1, <4>2
    <3>2. s.fieldStarts[m] >= 1 /\ End(m)' <= Len(s.fieldKeys) + 1
      BY <1>3, <1>7 DEF FieldLength
    <3>3. s.fieldStarts[m] \in Nat /\ End(m)' \in Nat /\ Len(s.fieldKeys) \in Nat
      BY <3>1, <1>2
    <3> QED
      BY ONLY <3>1, <3>2, <3>3
  <2> HIDE DEF i
  <2>4. PICK owner :
          {k \in Ids(s) : s.kinds[k] = "Object" /\ i \in Slots(s, k)} = {owner}
    BY <2>3, <1>1, ValidSnapshot
  <2> QED
    BY <2>2, <2>4, <1>4, <1>9
<1> QED
  BY <1>6, <1>7, <1>8, <1>9 DEF SpansInv

\* The tables of reset() have no objects and no fields.
LEMMA EmptyTables ==
  ASSUME NEW s, s = CanonicalTables
  PROVE  /\ s.kinds \in Seq(Kinds) /\ Len(s.kinds) \in Nat
         /\ s.fieldStarts \in Seq(Nat) /\ Len(s.fieldStarts) = Len(s.kinds)
         /\ s.fieldCounts \in Seq(Nat) /\ Len(s.fieldCounts) = Len(s.kinds)
         /\ IsTable(s.parents) /\ Len(s.parents) = Len(s.kinds)
         /\ s.fieldKeys = <<>> /\ IsTable(s.fieldKeys) /\ Len(s.fieldKeys) = 0
         /\ \A n \in 1..Len(s.kinds) : s.kinds[n] # "Object" /\ s.fieldCounts[n] = 0
<1> DEFINE size == Len(Canonical)
<1>1. size \in Nat /\ DOMAIN Canonical = 1..size
  BY CanonicalHasNoObject
<1>2. /\ s.kinds = Canonical /\ s.fieldKeys = <<>>
      /\ s.parents = [i \in 1..size |-> i]
      /\ s.fieldStarts = [i \in 1..size |-> 0] /\ s.fieldCounts = [i \in 1..size |-> 0]
  BY <1>1 DEF CanonicalTables, NoNode
<1> HIDE DEF size
<1>3. \A f \in [1..size -> Nat] : f \in Seq(Nat) /\ Len(f) = size
  BY <1>1
<1>4. [i \in 1..size |-> i] \in [1..size -> Nat] /\ [i \in 1..size |-> 0] \in [1..size -> Nat]
  BY <1>1
<1>5. /\ s.fieldStarts \in Seq(Nat) /\ Len(s.fieldStarts) = size
      /\ s.fieldCounts \in Seq(Nat) /\ Len(s.fieldCounts) = size
      /\ s.parents \in Seq(Nat) /\ Len(s.parents) = size
  BY <1>2, <1>3, <1>4
<1>6. IsTable(s.parents)
  BY <1>5, SeqIsTable
<1>7. s.fieldKeys \in Seq(Nat) /\ Len(s.fieldKeys) = 0
  BY <1>2
<1>8. IsTable(s.fieldKeys)
  BY <1>7, SeqIsTable
<1> QED
  BY <1>1, <1>2, <1>5, <1>6, <1>7, <1>8, CanonicalHasNoObject DEF size

LEMMA InitTables ==
  ASSUME Init
  PROVE  TablesInv /\ SpansInv
<1>1. /\ kinds = CanonicalTables.kinds /\ parents = CanonicalTables.parents
      /\ fieldStarts = CanonicalTables.fieldStarts
      /\ fieldCounts = CanonicalTables.fieldCounts /\ fieldKeys = <<>>
      /\ CanonicalTables.fieldKeys = <<>>
  BY DEF Init, CanonicalTables
<1>2. Objects = {}
  BY <1>1, EmptyTables DEF Objects, Nodes
<1>3. TablesInv
  BY <1>1, EmptyTables DEF TablesInv, Nodes
<1>4. FieldLength = 0
  BY <1>1, EmptyTables DEF FieldLength
<1> QED
  BY <1>2, <1>3, <1>4 DEF SpansInv

LEMMA ResetTables ==
  ASSUME Become(CanonicalTables)
  PROVE  TablesInv' /\ SpansInv'
<1>1. /\ kinds' = CanonicalTables.kinds /\ parents' = CanonicalTables.parents
      /\ fieldStarts' = CanonicalTables.fieldStarts
      /\ fieldCounts' = CanonicalTables.fieldCounts
      /\ fieldKeys' = CanonicalTables.fieldKeys
  BY DEF Become
<1>2. Objects' = {}
  BY <1>1, EmptyTables DEF Objects, Nodes
<1>3. TablesInv'
  BY <1>1, EmptyTables DEF TablesInv, Nodes
<1>4. FieldLength' = 0
  BY <1>1, EmptyTables DEF FieldLength
<1> QED
  BY <1>2, <1>3, <1>4 DEF SpansInv

-----------------------------------------------------------------------------
(* appendField                                                             *)

\* Facts in the form the arithmetic below needs them.
LEMMA TableFacts ==
  ASSUME TablesInv
  PROVE  /\ Len(kinds) \in Nat /\ FieldLength \in Nat
         /\ Nodes = 1..Len(kinds) /\ Objects \subseteq Nodes
         /\ \A n \in Nodes : fieldStarts[n] \in Nat /\ fieldCounts[n] \in Nat
                             /\ End(n) = fieldStarts[n] + fieldCounts[n]
         /\ \A n \in Objects : kinds[n] = "Object"
         /\ \A n \in Nodes : kinds[n] = "Object" => n \in Objects
         /\ DOMAIN parents = Nodes
  BY DEF TablesInv, IsTable, FieldLength, Nodes, Objects, End

\* What one append does to the tables.
LEMMA StoreEffect ==
  ASSUME TablesInv, NEW o \in Objects, NEW key, NEW type, NEW presence,
         StoreField(o, key, type, presence)
  PROVE  /\ kinds' = kinds /\ Nodes' = Nodes /\ Objects' = Objects
         /\ FieldLength' = FieldLength + 1 /\ IsTable(fieldKeys')
         /\ fieldStarts' \in Seq(Nat) /\ Len(fieldStarts') = Len(kinds)
         /\ fieldCounts' \in Seq(Nat) /\ Len(fieldCounts') = Len(kinds)
         /\ fieldCounts'[o] = fieldCounts[o] + 1 /\ fieldStarts'[o] = fieldStarts[o]
         /\ \A n \in Nodes \ {o} :
              /\ fieldCounts'[n] = fieldCounts[n]
              /\ fieldStarts'[n] =
                   IF End(o) <= FieldLength /\ Moves(n, End(o), o)
                     THEN fieldStarts[n] + 1 ELSE fieldStarts[n]
<1>1. /\ kinds' = kinds
      /\ fieldStarts' = [n \in Nodes |->
           IF End(o) <= FieldLength /\ Moves(n, End(o), o)
             THEN fieldStarts[n] + 1 ELSE fieldStarts[n]]
      /\ fieldCounts' = [fieldCounts EXCEPT ![o] = @ + 1]
      /\ fieldKeys' = Inserted(fieldKeys, End(o), key)
  BY DEF StoreField, End
<1>2. fieldKeys' = [i \in 1..(FieldLength + 1) |-> fieldKeys'[i]]
  BY <1>1 DEF Inserted
<1>3. IsTable(fieldKeys') /\ FieldLength' = FieldLength + 1
  <2>1. FieldLength + 1 \in Nat
    BY TableFacts
  <2>2. IsTable(fieldKeys') /\ Len(fieldKeys') = FieldLength + 1
    BY <1>2, <2>1, TableIsSeq
  <2> QED
    BY <2>2 DEF FieldLength
<1>4. Nodes' = Nodes /\ Objects' = Objects
  BY <1>1 DEF Nodes, Objects
<1>5. fieldStarts' \in [1..Len(kinds) -> Nat] /\ fieldCounts' \in [1..Len(kinds) -> Nat]
  <2>1. Len(kinds) \in Nat /\ Nodes = 1..Len(kinds) /\ o \in Nodes
        /\ \A n \in Nodes : fieldStarts[n] \in Nat
    BY TableFacts
  <2>2. fieldStarts' \in [1..Len(kinds) -> Nat]
    BY <1>1, <2>1
  <2>3. fieldCounts \in [1..Len(kinds) -> Nat]
    BY DEF TablesInv
  <2>4. fieldCounts' \in [1..Len(kinds) -> Nat]
    BY <1>1, <2>1, <2>3
  <2> QED
    BY <2>2, <2>4
<1>6. ~Moves(o, End(o), o)
  BY DEF Moves
<1>7. /\ fieldStarts' \in Seq(Nat) /\ Len(fieldStarts') = Len(kinds)
      /\ fieldCounts' \in Seq(Nat) /\ Len(fieldCounts') = Len(kinds)
  <2>1. Len(kinds) \in Nat
    BY TableFacts
  <2>2. \A f \in [1..Len(kinds) -> Nat] : f \in Seq(Nat) /\ Len(f) = Len(kinds)
    BY <2>1
  <2> QED
    BY <1>5, <2>2
<1>8. fieldCounts'[o] = fieldCounts[o] + 1 /\ fieldStarts'[o] = fieldStarts[o]
  BY <1>1, <1>6, TableFacts DEF TablesInv
<1>9. ASSUME NEW n \in Nodes \ {o}
      PROVE  /\ fieldCounts'[n] = fieldCounts[n]
             /\ fieldStarts'[n] =
                  IF End(o) <= FieldLength /\ Moves(n, End(o), o)
                    THEN fieldStarts[n] + 1 ELSE fieldStarts[n]
  BY <1>1, TableFacts DEF TablesInv
<1> QED
  BY <1>1, <1>3, <1>4, <1>7, <1>8, <1>9

\* A span with fields moves as a whole, or ends before the new slot.
LEMMA StoreMoves ==
  ASSUME TablesInv, SpansInv, NEW o \in Objects, Appendable(o),
         NEW key, NEW type, NEW presence, StoreField(o, key, type, presence),
         NEW n \in Objects \ {o}
  PROVE  /\ fieldStarts'[n] \in {fieldStarts[n], fieldStarts[n] + 1}
         /\ fieldCounts'[n] = fieldCounts[n]
         /\ End(n)' = fieldStarts'[n] + fieldCounts[n]
         /\ fieldCounts[n] > 0 =>
              \/ End(o) <= fieldStarts[n] /\ fieldStarts'[n] = fieldStarts[n] + 1
              \/ End(n) <= End(o) /\ fieldStarts'[n] = fieldStarts[n]
         /\ fieldStarts'[n] # fieldStarts[n] =>
              fieldStarts[n] >= End(o) /\ (fieldStarts[n] = End(o) => fieldCounts[n] > 0)
<1>1. /\ FieldLength \in Nat /\ n \in Nodes \ {o} /\ kinds[n] = "Object"
      /\ fieldStarts[n] \in Nat /\ fieldCounts[n] \in Nat
      /\ End(n) = fieldStarts[n] + fieldCounts[n] /\ End(o) \in Nat
  BY TableFacts
<1>2. /\ fieldCounts'[n] = fieldCounts[n]
      /\ fieldStarts'[n] = IF End(o) <= FieldLength /\ Moves(n, End(o), o)
                             THEN fieldStarts[n] + 1 ELSE fieldStarts[n]
  BY <1>1, StoreEffect
<1>3. Moves(n, End(o), o) <=>
        fieldStarts[n] > End(o) \/ (fieldStarts[n] = End(o) /\ fieldCounts[n] > 0)
  BY <1>1 DEF Moves
<1>4. End(n) <= FieldLength + 1
      /\ (fieldCounts[n] > 0 => End(o) <= fieldStarts[n] \/ End(n) <= End(o))
  BY DEF SpansInv, Appendable
<1>5. End(n)' = fieldStarts'[n] + fieldCounts[n]
  BY <1>2 DEF End
<1> QED
  BY <1>1, <1>2, <1>3, <1>4, <1>5

LEMMA StoreKeepsSpans ==
  ASSUME TablesInv, SpansInv, NEW o \in Objects, Appendable(o),
         NEW key, NEW type, NEW presence, StoreField(o, key, type, presence)
  PROVE  SpansInv' /\ Appendable(o)' /\ End(o)' = End(o) + 1
<1>1. /\ FieldLength \in Nat /\ Objects' = Objects /\ FieldLength' = FieldLength + 1
      /\ fieldCounts'[o] = fieldCounts[o] + 1 /\ fieldStarts'[o] = fieldStarts[o]
  BY TableFacts, StoreEffect
<1>2. \A n \in Objects : fieldStarts[n] \in Nat /\ fieldCounts[n] \in Nat
                        /\ End(n) = fieldStarts[n] + fieldCounts[n]
  BY TableFacts
<1>3. End(o)' = End(o) + 1 /\ End(o) \in Nat
  BY <1>1, <1>2 DEF End
<1>4. \A n \in Objects :
        fieldStarts[n] >= 1 /\ End(n) <= FieldLength + 1
  BY DEF SpansInv
<1>5. \A n \in Objects' : fieldStarts'[n] >= 1 /\ End(n)' <= FieldLength' + 1
  <2>1. SUFFICES ASSUME NEW n \in Objects
                 PROVE  fieldStarts'[n] >= 1 /\ End(n)' <= FieldLength' + 1
    BY <1>1
  <2>2. CASE n = o
    BY <2>2, <1>1, <1>2, <1>3, <1>4
  <2>3. CASE n # o
    BY <2>3, <1>1, <1>2, <1>4, StoreMoves
  <2> QED
    BY <2>2, <2>3
<1>6. ASSUME NEW n \in Objects \ {o}, fieldCounts[n] > 0
      PROVE  End(o)' <= fieldStarts'[n] \/ End(n)' <= fieldStarts'[o] + fieldCounts[o]
  BY <1>1, <1>2, <1>3, <1>6, StoreMoves
<1>7. ASSUME NEW m \in Objects, NEW n \in Objects, m # n,
             fieldCounts'[m] > 0, fieldCounts'[n] > 0
      PROVE  End(m)' <= fieldStarts'[n] \/ End(n)' <= fieldStarts'[m]
  <2>1. ASSUME NEW k \in Objects \ {o}, fieldCounts'[k] > 0
        PROVE  End(o)' <= fieldStarts'[k] \/ End(k)' <= fieldStarts'[o]
    <3>1. fieldCounts[k] > 0
      BY <2>1, StoreMoves
    <3>2. CASE fieldCounts[o] = 0
      BY <3>1, <3>2, <1>1, <1>2, <1>6
    <3>3. CASE fieldCounts[o] > 0
      <4>1. End(o) <= fieldStarts[k] \/ End(k) <= fieldStarts[o]
        BY <3>1, <3>3 DEF SpansInv
      <4> QED
        BY <4>1, <3>1, <1>1, <1>2, <1>3, StoreMoves
    <3> QED
      BY <3>2, <3>3, <1>2
  <2>2. CASE m = o
    BY <2>1, <2>2, <1>7
  <2>3. CASE n = o
    BY <2>1, <2>3, <1>7
  <2>4. CASE m # o /\ n # o
    <3>1. fieldCounts[m] > 0 /\ fieldCounts[n] > 0
      BY <2>4, <1>7, StoreMoves
    <3>2. End(m) <= fieldStarts[n] \/ End(n) <= fieldStarts[m]
      BY <3>1, <1>7 DEF SpansInv
    <3>3. /\ \/ End(o) <= fieldStarts[m] /\ fieldStarts'[m] = fieldStarts[m] + 1
             \/ End(m) <= End(o) /\ fieldStarts'[m] = fieldStarts[m]
          /\ \/ End(o) <= fieldStarts[n] /\ fieldStarts'[n] = fieldStarts[n] + 1
             \/ End(n) <= End(o) /\ fieldStarts'[n] = fieldStarts[n]
          /\ End(m)' = fieldStarts'[m] + fieldCounts[m]
          /\ End(n)' = fieldStarts'[n] + fieldCounts[n]
      BY <3>1, <2>4, StoreMoves
    <3> QED
      BY <3>1, <3>2, <3>3, <1>2, <1>3
  <2> QED
    BY <2>2, <2>3, <2>4
<1>8. ASSUME NEW i \in 1..FieldLength'
      PROVE  \E n \in Objects : fieldStarts'[n] <= i /\ i < End(n)'
  <2>1. CASE i = End(o)
    BY <2>1, <1>1, <1>2, <1>3
  <2>2. CASE i < End(o)
    <3>1. i \in 1..FieldLength
      BY <2>2, <1>1, <1>3, <1>4
    <3>2. PICK n \in Objects : fieldStarts[n] <= i /\ i < End(n)
      BY <3>1 DEF SpansInv
    <3>3. CASE n = o
      BY <3>2, <3>3, <2>2, <1>1, <1>2, <1>3
    <3>4. CASE n # o
      BY <3>2, <3>4, <2>2, <1>1, <1>2, <1>3, StoreMoves
    <3> QED
      BY <3>3, <3>4
  <2>3. CASE i > End(o)
    <3>1. i - 1 \in 1..FieldLength
      BY <2>3, <1>1, <1>2, <1>3, <1>4
    <3>2. PICK n \in Objects : fieldStarts[n] <= i - 1 /\ i - 1 < End(n)
      BY <3>1 DEF SpansInv
    <3>3. n # o /\ fieldCounts[n] > 0
      BY <3>2, <2>3, <1>2, <1>3
    <3>4. fieldStarts'[n] = fieldStarts[n] + 1 /\ End(n)' = End(n) + 1
      BY <3>2, <3>3, <2>3, <1>2, <1>3, StoreMoves
    <3> QED
      BY <3>2, <3>4, <1>2, <1>3
  <2> QED
    BY <2>1, <2>2, <2>3, <1>1, <1>3
<1>9. SpansInv'
  BY <1>1, <1>5, <1>7, <1>8 DEF SpansInv
<1>10. Appendable(o)'
  <2>1. SUFFICES ASSUME NEW n \in Objects \ {o}, fieldCounts'[n] > 0
                 PROVE  End(o)' <= fieldStarts'[n] \/ End(n)' <= End(o)'
    BY <1>1 DEF Appendable
  <2> QED
    BY <2>1, <1>2, <1>3, StoreMoves
<1> QED
  BY <1>3, <1>9, <1>10

\* An append leaves the open objects below its owner where they are.
LEMMA StoreKeepsBelow ==
  ASSUME TablesInv, SpansInv, NEW o \in Objects, Appendable(o),
         NEW key, NEW type, NEW presence, StoreField(o, key, type, presence),
         NEW p \in Objects \ {o}, Appendable(p), End(p) <= fieldStarts[o]
  PROVE  Appendable(p)' /\ End(p)' = End(p) /\ fieldStarts'[p] = fieldStarts[p]
<1>1. \A n \in Objects : fieldStarts[n] \in Nat /\ fieldCounts[n] \in Nat
                        /\ End(n) = fieldStarts[n] + fieldCounts[n]
  BY TableFacts
<1>2. fieldStarts'[p] = fieldStarts[p] /\ End(p)' = End(p)
  BY <1>1, StoreMoves
<1>3. Objects' = Objects /\ fieldStarts'[o] = fieldStarts[o]
  BY StoreEffect
<1>4. ASSUME NEW n \in Objects \ {p}, fieldCounts'[n] > 0
      PROVE  End(p)' <= fieldStarts'[n] \/ End(n)' <= End(p)'
  <2>1. CASE n = o
    BY <2>1, <1>2, <1>3
  <2>2. CASE n # o
    <3>1. fieldCounts[n] > 0
      BY <2>2, <1>4, StoreMoves
    <3>2. End(p) <= fieldStarts[n] \/ End(n) <= End(p)
      BY <3>1, <1>4 DEF Appendable
    <3> QED
      BY <3>1, <3>2, <2>2, <1>1, <1>2, StoreMoves
  <2> QED
    BY <2>1, <2>2
<1> QED
  BY <1>2, <1>3, <1>4 DEF Appendable

LEMMA StoreKeepsTables ==
  ASSUME TablesInv, NEW o \in Objects, NEW key, NEW type, NEW presence,
         StoreField(o, key, type, presence), IsTable(parents'), Len(parents') = Len(kinds)
  PROVE  TablesInv'
<1>1. /\ kinds' = kinds /\ Nodes' = Nodes /\ Objects' = Objects
      /\ IsTable(fieldKeys')
      /\ fieldStarts' \in Seq(Nat) /\ Len(fieldStarts') = Len(kinds)
      /\ fieldCounts' \in Seq(Nat) /\ Len(fieldCounts') = Len(kinds)
      /\ \A n \in Nodes \ {o} : fieldCounts'[n] = fieldCounts[n]
  BY StoreEffect
<1>2. \A n \in Nodes' \ Objects' : fieldCounts'[n] = 0
  BY <1>1 DEF TablesInv
<1> QED
  BY <1>1, <1>2 DEF TablesInv

-----------------------------------------------------------------------------
(* allocRaw                                                                *)

LEMMA AllocEffect ==
  ASSUME TablesInv, NEW kind, NEW l, NEW r, NEW ps, AllocRaw(kind, l, r, ps),
         kind \in Kinds, IsTable(ps), Len(ps) = Len(kinds),
         NEW new, new = Len(kinds) + 1
  PROVE  /\ TablesInv'
         /\ Nodes' = Nodes \cup {new} /\ new \notin Nodes
         /\ Objects' = Objects \cup (IF kind = "Object" THEN {new} ELSE {})
         /\ FieldLength' = FieldLength
         /\ \A n \in Nodes : /\ fieldStarts'[n] = fieldStarts[n]
                             /\ fieldCounts'[n] = fieldCounts[n]
                             /\ End(n)' = End(n)
         /\ fieldStarts'[new] = IF kind = "Object" THEN FieldLength + 1 ELSE 0
         /\ fieldCounts'[new] = 0
         /\ parents'[new] = new
<1> DEFINE start == IF kind = "Object" THEN FieldLength + 1 ELSE 0
<1>1. /\ Len(kinds) \in Nat /\ FieldLength \in Nat /\ Nodes = 1..Len(kinds) /\ start \in Nat
  BY TableFacts
<1>2. /\ parents' = Append(ps, new) /\ kinds' = Append(kinds, kind)
      /\ fieldStarts' = Append(fieldStarts, start)
      /\ fieldCounts' = Append(fieldCounts, 0) /\ fieldKeys' = fieldKeys
  BY DEF AllocRaw, fieldTable
<1> HIDE DEF start
<1>3. /\ kinds' \in Seq(Kinds) /\ Len(kinds') = new
      /\ kinds'[new] = kind /\ \A n \in Nodes : kinds'[n] = kinds[n]
  BY <1>1, <1>2, AppendProperties DEF TablesInv
<1>4. /\ fieldStarts' \in Seq(Nat) /\ Len(fieldStarts') = new
      /\ fieldStarts'[new] = start /\ \A n \in Nodes : fieldStarts'[n] = fieldStarts[n]
  BY <1>1, <1>2, AppendProperties DEF TablesInv
<1>5. /\ fieldCounts' \in Seq(Nat) /\ Len(fieldCounts') = new
      /\ fieldCounts'[new] = 0 /\ \A n \in Nodes : fieldCounts'[n] = fieldCounts[n]
  BY <1>1, <1>2, AppendProperties DEF TablesInv
<1>6. IsTable(parents') /\ Len(parents') = new /\ parents'[new] = new
  BY <1>1, <1>2, AppendTable
<1>7. Nodes' = Nodes \cup {new} /\ new \notin Nodes
  BY <1>1, <1>3 DEF Nodes
<1>8. Objects' = Objects \cup (IF kind = "Object" THEN {new} ELSE {})
  BY <1>3, <1>7 DEF Objects
<1>9. FieldLength' = FieldLength
  BY <1>2 DEF FieldLength
<1>10. \A n \in Nodes : End(n)' = End(n)
  BY <1>4, <1>5 DEF End
<1>11. \A n \in Nodes' \ Objects' : fieldCounts'[n] = 0
  BY <1>5, <1>7, <1>8 DEF TablesInv
<1>12. IsTable(fieldKeys')
  BY <1>2 DEF TablesInv
<1>13. TablesInv'
  BY <1>3, <1>4, <1>5, <1>6, <1>11, <1>12 DEF TablesInv
<1> QED
  BY <1>4, <1>5, <1>6, <1>7, <1>8, <1>9, <1>10, <1>13 DEF start

\* A new object starts behind every span, so it is appendable; the others stay so.
LEMMA AllocKeepsSpans ==
  ASSUME TablesInv, SpansInv, NEW kind, NEW l, NEW r, NEW ps, AllocRaw(kind, l, r, ps),
         kind \in Kinds, IsTable(ps), Len(ps) = Len(kinds),
         NEW new, new = Len(kinds) + 1
  PROVE  /\ SpansInv'
         /\ \A p : Appendable(p) => Appendable(p)' /\ End(p)' = End(p)
                                   /\ fieldStarts'[p] = fieldStarts[p]
         /\ kind = "Object" =>
              /\ Appendable(new)'
              /\ \A p \in Objects : End(p)' <= fieldStarts'[new]
<1>1. /\ TablesInv'
      /\ Nodes' = Nodes \cup {new} /\ new \notin Nodes
      /\ Objects' = Objects \cup (IF kind = "Object" THEN {new} ELSE {})
      /\ FieldLength' = FieldLength
      /\ \A n \in Objects : /\ fieldStarts'[n] = fieldStarts[n]
                            /\ fieldCounts'[n] = fieldCounts[n]
                            /\ End(n)' = End(n)
      /\ fieldStarts'[new] = IF kind = "Object" THEN FieldLength + 1 ELSE 0
      /\ fieldCounts'[new] = 0
  BY AllocEffect, TableFacts
<1>2. /\ FieldLength \in Nat
      /\ \A n \in Objects : fieldStarts[n] \in Nat /\ fieldCounts[n] \in Nat
                            /\ End(n) = fieldStarts[n] + fieldCounts[n]
      /\ new \notin Objects
  BY <1>1, TableFacts
<1>3. kind = "Object" => End(new)' = FieldLength + 1
  BY <1>1, <1>2 DEF End
<1>4. \A n \in Objects : fieldStarts[n] >= 1 /\ End(n) <= FieldLength + 1
  BY DEF SpansInv
<1>5. \A n \in Objects' : fieldStarts'[n] >= 1 /\ End(n)' <= FieldLength' + 1
  BY <1>1, <1>2, <1>3, <1>4
<1>6. \A m, n \in Objects' :
        m # n /\ fieldCounts'[m] > 0 /\ fieldCounts'[n] > 0 =>
          End(m)' <= fieldStarts'[n] \/ End(n)' <= fieldStarts'[m]
  <2>1. SUFFICES ASSUME NEW m \in Objects', NEW n \in Objects', m # n,
                        fieldCounts'[m] > 0, fieldCounts'[n] > 0
                 PROVE  End(m)' <= fieldStarts'[n] \/ End(n)' <= fieldStarts'[m]
    OBVIOUS
  <2>2. m \in Objects /\ n \in Objects
    BY <2>1, <1>1
  <2>3. fieldCounts[m] > 0 /\ fieldCounts[n] > 0
    BY <2>1, <2>2, <1>1
  <2>4. End(m) <= fieldStarts[n] \/ End(n) <= fieldStarts[m]
    BY <2>1, <2>2, <2>3 DEF SpansInv
  <2> QED
    BY <2>2, <2>4, <1>1
<1>7. \A i \in 1..FieldLength' : \E n \in Objects' : fieldStarts'[n] <= i /\ i < End(n)'
  <2>1. SUFFICES ASSUME NEW i \in 1..FieldLength
                 PROVE  \E n \in Objects' : fieldStarts'[n] <= i /\ i < End(n)'
    BY <1>1
  <2>2. PICK n \in Objects : fieldStarts[n] <= i /\ i < End(n)
    BY DEF SpansInv
  <2> QED
    BY <2>2, <1>1
<1>8. SpansInv'
  BY <1>5, <1>6, <1>7 DEF SpansInv
<1>9. ASSUME NEW p, Appendable(p)
      PROVE  Appendable(p)' /\ End(p)' = End(p) /\ fieldStarts'[p] = fieldStarts[p]
  <2>1. p \in Objects /\ p \in Objects'
    BY <1>1, <1>9 DEF Appendable
  <2>2. ASSUME NEW n \in Objects' \ {p}, fieldCounts'[n] > 0
        PROVE  End(p)' <= fieldStarts'[n] \/ End(n)' <= End(p)'
    <3>1. n \in Objects /\ fieldCounts[n] > 0
      BY <2>2, <1>1
    <3>2. End(p) <= fieldStarts[n] \/ End(n) <= End(p)
      BY <3>1, <2>2, <1>9 DEF Appendable
    <3> QED
      BY <3>1, <3>2, <2>1, <1>1
  <2> QED
    BY <2>1, <2>2, <1>1 DEF Appendable
<1>10. ASSUME kind = "Object"
       PROVE  Appendable(new)' /\ \A p \in Objects : End(p)' <= fieldStarts'[new]
  <2>1. \A n \in Objects : End(n)' <= FieldLength + 1
    BY <1>1, <1>4
  <2>2. new \in Objects' /\ \A n \in Objects' \ {new} : n \in Objects
    BY <1>1, <1>10
  <2>3. \A n \in Objects' \ {new} : End(n)' <= End(new)'
    BY <2>1, <2>2, <1>3, <1>10
  <2>4. Appendable(new)'
    BY <2>2, <2>3 DEF Appendable
  <2> QED
    BY <2>1, <2>4, <1>1, <1>10
<1> QED
  BY <1>8, <1>9, <1>10

-----------------------------------------------------------------------------
(* Steps that leave the spans alone                                        *)

LEMMA CompressedTable ==
  ASSUME TablesInv, NEW S
  PROVE  /\ IsTable(Compressed(S)) /\ Len(Compressed(S)) = Len(kinds)
         /\ DOMAIN Compressed(S) = Nodes
         /\ \A n \in Nodes : parents[n] = n => Compressed(S)[n] = n
<1> DEFINE c == Compressed(S)
<1>1. c = [m \in Nodes |-> c[m]]
  BY DEF Compressed
<1>2. \A n \in Nodes : parents[n] = n => c[n] = n
  BY DEF Compressed, Find
<1>3. Nodes = 1..Len(kinds) /\ Len(kinds) \in Nat
  BY TableFacts
<1> HIDE DEF c
<1>4. IsTable(c) /\ Len(c) = Len(kinds) /\ DOMAIN c = Nodes
  BY <1>1, <1>3, TableIsSeq
<1> QED
  BY <1>2, <1>4 DEF c

Quiet ==
  /\ UNCHANGED <<kinds, fieldStarts, fieldCounts, fieldKeys>>
  /\ IsTable(parents') /\ Len(parents') = Len(kinds)

\* Whatever was appendable is so after the step, at the same place.
Kept(p) ==
  Appendable(p) => /\ Appendable(p)' /\ End(p)' = End(p)
                   /\ fieldStarts'[p] = fieldStarts[p]

LEMMA QuietStep ==
  ASSUME TablesInv, SpansInv, Quiet
  PROVE  TablesInv' /\ SpansInv' /\ \A p : Kept(p)
<1>1. /\ kinds' = kinds /\ fieldStarts' = fieldStarts /\ fieldCounts' = fieldCounts
      /\ fieldKeys' = fieldKeys /\ IsTable(parents') /\ Len(parents') = Len(kinds)
  BY DEF Quiet
<1>2. Nodes' = Nodes /\ Objects' = Objects /\ FieldLength' = FieldLength
  BY <1>1 DEF Nodes, Objects, FieldLength
<1>3. \A n : End(n)' = End(n)
  BY <1>1 DEF End
<1>4. IsTable(fieldKeys')
  BY <1>1 DEF TablesInv
<1>5. TablesInv'
  BY <1>1, <1>2, <1>4 DEF TablesInv
<1>6. SpansInv'
  BY <1>1, <1>2, <1>3 DEF SpansInv
<1>7. ASSUME NEW p PROVE Kept(p)
  BY <1>1, <1>2, <1>3 DEF Kept, Appendable
<1> QED
  BY <1>5, <1>6, <1>7

\* The first k frames of the stack stay as they are.
LEMMA FramesPrefix ==
  ASSUME FramesInv, \A p : Kept(p), IsTable(frames'),
         NEW k \in Nat, k <= Len(frames), k <= Len(frames'),
         \A i \in 1..k : frames'[i] = frames[i]
  PROVE  /\ \A i \in 1..k : DOMAIN frames'[i] = {"op", "out", "l", "lEnd", "r", "rEnd"}
         /\ \A i \in 1..k : i \in Open' <=> i \in Open
         /\ \A i \in Open' : i <= k => Appendable(frames[i].out)'
         /\ \A i, j \in Open' :
              i < j /\ j <= k => /\ frames'[i].out # frames'[j].out
                                /\ End(frames[i].out)' <= fieldStarts'[frames'[j].out]
<1>1. /\ DOMAIN frames = 1..Len(frames) /\ Len(frames) \in Nat
      /\ DOMAIN frames' = 1..Len(frames') /\ Len(frames') \in Nat
  BY DEF FramesInv, IsTable
<1>2. 1..k \subseteq DOMAIN frames /\ 1..k \subseteq DOMAIN frames'
  BY <1>1
<1>3. \A i \in 1..k : i \in Open' <=> i \in Open
  BY <1>2 DEF Open
<1>4. \A i \in Open' : i \in Nat /\ i >= 1
  BY <1>1 DEF Open
<1>5. \A i \in Open' : i <= k => i \in Open /\ frames'[i] = frames[i]
  BY <1>3, <1>4
<1>6. ASSUME NEW i \in Open, NEW out, out = frames[i].out
      PROVE  Appendable(out)' /\ End(out)' = End(out) /\ fieldStarts'[out] = fieldStarts[out]
  <2>1. Appendable(out)
    BY <1>6 DEF FramesInv
  <2> QED
    BY <2>1 DEF Kept
<1>7. ASSUME NEW i \in Open', i <= k
      PROVE  Appendable(frames[i].out)'
  <2>1. PICK out : out = frames[i].out
    OBVIOUS
  <2> QED
    BY <2>1, <1>5, <1>6, <1>7
<1>8. ASSUME NEW i \in Open', NEW j \in Open', i < j, j <= k
      PROVE  /\ frames'[i].out # frames'[j].out
             /\ End(frames[i].out)' <= fieldStarts'[frames'[j].out]
  <2>1. i \in Open /\ j \in Open /\ frames'[i] = frames[i] /\ frames'[j] = frames[j]
    BY <1>4, <1>5, <1>8
  <2>2. PICK low, top : low = frames[i].out /\ top = frames[j].out
    OBVIOUS
  <2>3. low # top /\ End(low) <= fieldStarts[top]
    BY <2>1, <2>2, <1>8 DEF FramesInv
  <2>4. End(low)' = End(low) /\ fieldStarts'[top] = fieldStarts[top]
    BY <2>1, <2>2, <1>6
  <2> QED
    BY <2>1, <2>2, <2>3, <2>4
<1>9. \A i \in 1..k : DOMAIN frames'[i] = {"op", "out", "l", "lEnd", "r", "rEnd"}
  BY <1>2 DEF FramesInv
<1> QED
  BY <1>3, <1>7, <1>8, <1>9

LEMMA FramesKept ==
  ASSUME FramesInv, \A p : Kept(p), frames' = frames
  PROVE  FramesInv'
<1>1. IsTable(frames') /\ Len(frames') = Len(frames) /\ Len(frames) \in Nat
      /\ DOMAIN frames' = 1..Len(frames)
  BY DEF FramesInv, IsTable
<1>2. \A i \in Open' : i <= Len(frames)
  BY <1>1 DEF Open
<1> QED
  BY <1>1, <1>2, FramesPrefix DEF FramesInv

LEMMA FramesPopped ==
  ASSUME FramesInv, \A p : Kept(p), frames # <<>>, frames' = Popped
  PROVE  FramesInv'
<1>1. IsTable(frames) /\ Len(frames) \in Nat /\ DOMAIN frames = 1..Len(frames)
  BY DEF FramesInv, IsTable
<1>2. Len(frames) > 0
  <2>1. PICK S : frames \in Seq(S)
    BY <1>1, TableIsSeq DEF IsTable
  <2> QED
    BY <2>1, EmptySeq
<1> DEFINE k == Len(frames) - 1
<1>3. /\ IsTable(frames') /\ Len(frames') = k /\ k \in Nat
      /\ \A i \in 1..k : frames'[i] = frames[i]
  BY <1>1, <1>2, PoppedTable DEF Popped
<1>4. DOMAIN frames' = 1..k /\ \A i \in Open' : i <= k
  BY <1>3 DEF Open, IsTable
<1>5. k <= Len(frames)
  BY <1>1
<1> HIDE DEF k
<1> QED
  BY <1>3, <1>4, <1>5, FramesPrefix DEF FramesInv

LEMMA FramesPushed ==
  ASSUME FramesInv, \A p : Kept(p), NEW f, frames' = Append(frames, f),
         DOMAIN f = {"op", "out", "l", "lEnd", "r", "rEnd"},
         f.op = "object" => Appendable(f.out)',
         f.op = "object" => \A i \in Open : frames[i].out # f.out
                             /\ End(frames[i].out) <= fieldStarts'[f.out]
  PROVE  FramesInv'
<1> DEFINE k == Len(frames)
<1>1. /\ IsTable(frames') /\ Len(frames') = k + 1 /\ k \in Nat
      /\ frames'[k + 1] = f /\ \A i \in 1..k : frames'[i] = frames[i]
  BY AppendTable DEF FramesInv, IsTable
<1>2. DOMAIN frames' = 1..(k + 1)
  BY <1>1 DEF IsTable
<1>3. PICK n \in Nat : n = k
  BY <1>1
<1> HIDE DEF k
<1>4. \A i \in Open' : i <= n \/ i = n + 1
  BY <1>1, <1>2, <1>3 DEF Open
<1>5. /\ \A i \in 1..n : DOMAIN frames'[i] = {"op", "out", "l", "lEnd", "r", "rEnd"}
      /\ \A i \in 1..n : i \in Open' <=> i \in Open
      /\ \A i \in Open' : i <= n => Appendable(frames[i].out)'
      /\ \A i, j \in Open' :
           i < j /\ j <= n => /\ frames'[i].out # frames'[j].out
                             /\ End(frames[i].out)' <= fieldStarts'[frames'[j].out]
  <2>1. n <= Len(frames) /\ n <= Len(frames') /\ \A i \in 1..n : frames'[i] = frames[i]
    BY <1>1, <1>3 DEF k
  <2> QED
    BY <2>1, <1>1, FramesPrefix
<1>6. frames'[n + 1] = f
  BY <1>1, <1>3
<1>7. ASSUME NEW i \in Open'
      PROVE  Appendable(frames[i].out)'
  <2>1. CASE i <= n
    BY <2>1, <1>5
  <2>2. CASE i = n + 1
    <3>1. f.op = "object" /\ frames'[i].out = f.out
      BY <2>2, <1>6 DEF Open
    <3> QED
      BY <3>1
  <2> QED
    BY <2>1, <2>2, <1>4
<1>8. ASSUME NEW i \in Open', NEW j \in Open', i < j
      PROVE  /\ frames'[i].out # frames'[j].out
             /\ End(frames[i].out)' <= fieldStarts'[frames'[j].out]
  <2>1. CASE j <= n
    BY <2>1, <1>5, <1>8
  <2>2. CASE j = n + 1
    <3>1. f.op = "object" /\ frames'[j].out = f.out
      BY <2>2, <1>6 DEF Open
    <3>2. i \in 1..n
      BY <2>2, <1>1, <1>2, <1>3, <1>8 DEF Open
    <3>3. i \in Open /\ frames'[i] = frames[i]
      BY <3>2, <1>1, <1>3, <1>5
    <3>4. PICK low : low = frames[i].out
      OBVIOUS
    <3>5. low # f.out /\ End(low) <= fieldStarts'[f.out] /\ Appendable(low)
      BY <3>1, <3>3, <3>4 DEF FramesInv
    <3>6. End(low)' = End(low)
      BY <3>5 DEF Kept
    <3> QED
      BY <3>1, <3>3, <3>4, <3>5, <3>6
  <2> QED
    BY <2>1, <2>2, <1>4
<1>9. \A i \in DOMAIN frames' : DOMAIN frames'[i] = {"op", "out", "l", "lEnd", "r", "rEnd"}
  BY <1>1, <1>2, <1>3, <1>5, <1>6
<1> QED
  BY <1>1, <1>7, <1>8, <1>9 DEF FramesInv

LEMMA NoFrames ==
  ASSUME frames' = <<>>
  PROVE  FramesInv'
<1>1. DOMAIN frames' = {} /\ Open' = {}
  BY DEF Open
<1> QED
  BY <1>1, EmptyIsTable DEF FramesInv

\* During a join the builder is not filling an object.
LEMMA BuilderIdle ==
  ASSUME BuilderInv, ~NoJoin, building' = building
  PROVE  BuilderInv'
  BY DEF BuilderInv

-----------------------------------------------------------------------------
(* Every step keeps the invariant                                          *)

LEMMA QuietJoinStep ==
  ASSUME Inv, Quiet, ~NoJoin, building' = building, FramesInv'
  PROVE  Inv'
  BY QuietStep, BuilderIdle DEF Inv

\* Steps of the running join that only look nodes up or link them.
LEMMA LinkSteps ==
  ASSUME Inv, JoinAbsorbed \/ BindVar \/ LinkSameKind
  PROVE  Inv'
<1>1. ~NoJoin /\ building' = building /\ frames' = frames
  BY DEF JoinAbsorbed, BindVar, LinkSameKind, Joining, Answer, NoJoin
<1>2. UNCHANGED <<kinds, fieldStarts, fieldCounts, fieldKeys>>
  BY DEF JoinAbsorbed, BindVar, LinkSameKind, nodeShape, fieldTable
<1>3. \E S, n, m : parents' = Compressed(S) \/ parents' = [Compressed(S) EXCEPT ![n] = m]
  <2>1. CASE JoinAbsorbed
    BY <2>1 DEF JoinAbsorbed
  <2>2. CASE BindVar
    BY <2>2 DEF BindVar
  <2>3. CASE LinkSameKind
    BY <2>3 DEF LinkSameKind
  <2> QED
    BY <2>1, <2>2, <2>3
<1>4. IsTable(parents') /\ Len(parents') = Len(kinds)
  <2>1. PICK S, n, m : parents' = Compressed(S) \/ parents' = [Compressed(S) EXCEPT ![n] = m]
    BY <1>3
  <2>2. /\ IsTable(Compressed(S)) /\ Len(Compressed(S)) = Len(kinds)
        /\ Len(kinds) \in Nat /\ DOMAIN Compressed(S) = 1..Len(kinds)
    BY CompressedTable, TableFacts DEF Inv
  <2>3. CASE parents' = Compressed(S)
    BY <2>2, <2>3
  <2>4. CASE parents' = [Compressed(S) EXCEPT ![n] = m]
    <3>1. parents' = [i \in 1..Len(kinds) |-> parents'[i]]
      BY <2>2, <2>4
    <3> QED
      BY <3>1, <2>2, TableIsSeq
  <2> QED
    BY <2>1, <2>3, <2>4
<1>5. Quiet
  BY <1>2, <1>4 DEF Quiet
<1>6. FramesInv'
  BY <1>1, <1>5, QuietStep, FramesKept DEF Inv
<1> QED
  BY <1>1, <1>5, <1>6, QuietJoinStep

LEMMA CallSteps ==
  ASSUME Inv, JoinArrays \/ MergeShared \/ FinishObject \/ Abort \/ ReturnJoin
  PROVE  Inv'
<1>1. ~NoJoin /\ building' = building
  BY DEF JoinArrays, MergeShared, FinishObject, Abort, ReturnJoin, SharedKey, LeftKeys,
         RightKeys, LeftFirst, RightFirst, AppendFails, AllocFails, NeedsUnion, Waiting,
         Joining, NoJoin
<1>2. UNCHANGED <<kinds, fieldStarts, fieldCounts, fieldKeys>>
  BY DEF JoinArrays, MergeShared, FinishObject, Abort, ReturnJoin, nodeShape, fieldTable
<1>3. parents' = parents \/ \E S : parents' = Compressed(S)
  BY DEF JoinArrays, MergeShared, FinishObject, Abort, ReturnJoin
<1>4. IsTable(parents') /\ Len(parents') = Len(kinds)
  BY <1>3, CompressedTable DEF Inv, TablesInv
<1>5. Quiet
  BY <1>2, <1>4 DEF Quiet
<1>6. \A p : Kept(p)
  BY <1>5, QuietStep DEF Inv
<1>7. FramesInv'
  <2>1. CASE JoinArrays
    <3>1. frames' = Append(frames, ArrayFrame)
      BY <2>1 DEF JoinArrays
    <3>2. DOMAIN ArrayFrame = {"op", "out", "l", "lEnd", "r", "rEnd"}
          /\ ArrayFrame.op # "object"
      BY DEF ArrayFrame
    <3>3. PICK f : f = ArrayFrame
      OBVIOUS
    <3> QED
      BY <3>1, <3>2, <3>3, <1>6, FramesPushed DEF Inv
  <2>2. CASE MergeShared \/ ReturnJoin
    BY <2>2, <1>6, FramesKept DEF MergeShared, ReturnJoin, Inv
  <2>3. CASE FinishObject
    BY <2>3, <1>6, FramesPopped DEF FinishObject, Waiting, Inv
  <2>4. CASE Abort
    BY <2>4, NoFrames DEF Abort
  <2> QED
    BY <2>1, <2>2, <2>3, <2>4
<1> QED
  BY <1>1, <1>5, <1>7, QuietJoinStep

LEMMA CallerSteps ==
  ASSUME Inv, Close \/ Lookup \/ BeginJoin \/ UNCHANGED vars
  PROVE  Inv'
<1>1. UNCHANGED <<kinds, fieldStarts, fieldCounts, fieldKeys>>
  BY DEF Close, Lookup, BeginJoin, vars, nodeShape, fieldTable
<1>2. parents' = parents \/ \E S : parents' = Compressed(S)
  BY DEF Close, Lookup, BeginJoin, vars
<1>3. IsTable(parents') /\ Len(parents') = Len(kinds)
  BY <1>2, CompressedTable DEF Inv, TablesInv
<1>4. Quiet
  BY <1>1, <1>3 DEF Quiet
<1>5. TablesInv' /\ SpansInv' /\ \A p : Kept(p)
  BY <1>4, QuietStep DEF Inv
<1>6. frames' = frames
  BY DEF Close, Lookup, BeginJoin, control, vars
<1>7. FramesInv'
  BY <1>5, <1>6, FramesKept DEF Inv
<1>8. BuilderInv'
  <2>1. CASE Close \/ Lookup \/ BeginJoin
    BY <2>1 DEF Close, Lookup, BeginJoin, Ready, control, BuilderInv
  <2>2. CASE UNCHANGED vars
    <3>1. /\ building' = building /\ parents' = parents
          /\ NoJoin' = NoJoin
      BY <2>2 DEF vars, control, NoJoin
    <3>2. PICK b : b = building
      OBVIOUS
    <3>3. b # NoNode => Appendable(b)'
      BY <3>2, <1>5 DEF Inv, BuilderInv, Kept
    <3> QED
      BY <3>1, <3>2, <3>3 DEF Inv, BuilderInv
  <2> QED
    BY <2>1, <2>2
<1> QED
  BY <1>5, <1>7, <1>8 DEF Inv

LEMMA AllocParents ==
  ASSUME TablesInv, NEW ps, ps = parents \/ \E S : ps = Compressed(S)
  PROVE  IsTable(ps) /\ Len(ps) = Len(kinds)
  BY CompressedTable DEF TablesInv

\* Allocations that open no object.
LEMMA PlainAllocSteps ==
  ASSUME Inv, AllocVar \/ AllocArray \/ AllocUnion \/ WrapArray
  PROVE  Inv'
<1>1. PICK kind, l, r, ps :
        /\ AllocRaw(kind, l, r, ps) /\ kind \in {"Var", "Array", "Union"}
        /\ ps = parents \/ \E S : ps = Compressed(S)
  <2>1. CASE AllocVar
    BY <2>1 DEF AllocVar
  <2>2. CASE AllocArray
    BY <2>2 DEF AllocArray
  <2>3. CASE AllocUnion
    BY <2>3 DEF AllocUnion
  <2>4. CASE WrapArray
    BY <2>4 DEF WrapArray
  <2> QED
    BY <2>1, <2>2, <2>3, <2>4
<1>2. kind \in Kinds /\ IsTable(ps) /\ Len(ps) = Len(kinds)
  BY <1>1, AllocParents DEF Inv, Kinds
<1>3. PICK new : new = Len(kinds) + 1
  OBVIOUS
<1>4. TablesInv'
  BY <1>1, <1>2, <1>3, AllocEffect DEF Inv
<1>5. SpansInv' /\ \A p : Kept(p)
  BY <1>1, <1>2, <1>3, AllocKeepsSpans DEF Inv, Kept
<1>6. building' = building
  BY DEF AllocVar, AllocArray, AllocUnion, WrapArray, Answer, control
<1>7. BuilderInv'
  <2>1. CASE AllocVar \/ AllocArray
    BY <2>1, <1>6 DEF AllocVar, AllocArray, Ready, BuilderInv
  <2>2. CASE AllocUnion \/ WrapArray
    <3>1. ~NoJoin
      BY <2>2 DEF AllocUnion, WrapArray, NeedsUnion, Joining, Waiting, NoJoin
    <3> QED
      BY <3>1, <1>6, BuilderIdle DEF Inv
  <2> QED
    BY <2>1, <2>2
<1>8. FramesInv'
  <2>1. CASE AllocVar \/ AllocArray \/ AllocUnion
    BY <2>1, <1>5, FramesKept DEF AllocVar, AllocArray, AllocUnion, Answer, control, Inv
  <2>2. CASE WrapArray
    BY <2>2, <1>5, FramesPopped DEF WrapArray, Waiting, Inv
  <2> QED
    BY <2>1, <2>2
<1> QED
  BY <1>4, <1>5, <1>7, <1>8 DEF Inv

LEMMA AllocObjectStep ==
  ASSUME Inv, AllocObject
  PROVE  Inv'
<1>1. AllocRaw("Object", NoNode, NoNode, parents) /\ Ready
  BY DEF AllocObject
<1>2. "Object" \in Kinds /\ IsTable(parents) /\ Len(parents) = Len(kinds)
  BY DEF Kinds, Inv, TablesInv
<1>3. PICK new : new = Len(kinds) + 1
  OBVIOUS
<1>4. TablesInv' /\ parents'[new] = new
  BY <1>1, <1>2, <1>3, AllocEffect DEF Inv
<1>5. SpansInv' /\ Appendable(new)' /\ \A p : Kept(p)
  BY <1>1, <1>2, <1>3, AllocKeepsSpans DEF Inv, Kept
<1>6. FramesInv'
  BY <1>5, FramesKept DEF AllocObject, Inv
<1>7. BuilderInv'
  <2>1. NoJoin'
    BY <1>1 DEF AllocObject, Ready, NoJoin
  <2>2. building' \in {NoNode, new}
    BY <1>3 DEF AllocObject
  <2> QED
    BY <2>1, <2>2, <1>4, <1>5 DEF BuilderInv
<1> QED
  BY <1>4, <1>5, <1>6, <1>7 DEF Inv

LEMMA JoinObjectsStep ==
  ASSUME Inv, JoinObjects
  PROVE  Inv'
<1>1. PICK ps : AllocRaw("Object", NoNode, NoNode, ps) /\ \E S : ps = Compressed(S)
  BY DEF JoinObjects
<1>2. "Object" \in Kinds /\ IsTable(ps) /\ Len(ps) = Len(kinds)
  BY <1>1, AllocParents DEF Kinds, Inv
<1>3. PICK new : new = Len(kinds) + 1
  OBVIOUS
<1>4. TablesInv' /\ new \notin Nodes /\ Objects \subseteq Nodes
  BY <1>1, <1>2, <1>3, AllocEffect, TableFacts DEF Inv
<1>5. /\ SpansInv' /\ Appendable(new)' /\ \A p : Kept(p)
      /\ \A p \in Objects : End(p)' <= fieldStarts'[new]
  BY <1>1, <1>2, <1>3, AllocKeepsSpans DEF Inv, Kept
<1>6. PICK f : /\ frames' = Append(frames, f)
               /\ DOMAIN f = {"op", "out", "l", "lEnd", "r", "rEnd"}
               /\ f.op = "object" /\ f.out = new
  <2> DEFINE f == [op |-> "object", out |-> Len(kinds) + 1,
        l |-> fieldStarts[L], lEnd |-> fieldStarts[L] + fieldCounts[L],
        r |-> fieldStarts[R], rEnd |-> fieldStarts[R] + fieldCounts[R]]
  <2>1. frames' = Append(frames, f)
    BY DEF JoinObjects
  <2>2. /\ DOMAIN f = {"op", "out", "l", "lEnd", "r", "rEnd"}
        /\ f.op = "object" /\ f.out = new
    BY <1>3
  <2> HIDE DEF f
  <2> QED
    BY <2>1, <2>2
<1>7. ASSUME NEW i \in Open
      PROVE  frames[i].out # new /\ End(frames[i].out) <= fieldStarts'[new]
  <2>1. PICK out : out = frames[i].out
    OBVIOUS
  <2>2. Appendable(out) /\ out \in Objects
    BY <2>1 DEF Inv, FramesInv, Appendable
  <2>3. End(out)' = End(out)
    BY <2>2, <1>5 DEF Kept
  <2> QED
    BY <2>1, <2>2, <2>3, <1>4, <1>5
<1>8. FramesInv'
  BY <1>5, <1>6, <1>7, FramesPushed DEF Inv
<1>9. BuilderInv'
  BY BuilderIdle DEF JoinObjects, Joining, NoJoin, Inv
<1> QED
  BY <1>4, <1>5, <1>8, <1>9 DEF Inv

LEMMA RestartSteps ==
  ASSUME Inv, Reset \/ Load
  PROVE  Inv'
<1>1. Ready /\ UNCHANGED <<building, frames>>
  BY DEF Reset, Load
<1>2. TablesInv' /\ SpansInv'
  BY ResetTables, LoadTables DEF Reset, Load
<1>3. FramesInv'
  BY <1>1, NoFrames DEF Ready, NoJoin
<1>4. BuilderInv'
  BY <1>1 DEF Ready, BuilderInv
<1> QED
  BY <1>2, <1>3, <1>4 DEF Inv

\* A builder fills the object it has just allocated.
LEMMA AppendFieldStep ==
  ASSUME Inv, ~Raw, AppendField
  PROVE  Inv'
<1>1. PICK object \in Nodes, type \in Nodes, root \in Nodes, key \in Key,
           presence \in Presence :
        /\ object = building /\ root = Find(object)
        /\ StoreField(root, key, Find(type), presence)
        /\ parents' = Compressed({object, type})
  BY DEF AppendField
<1>2. NoJoin /\ UNCHANGED <<building, call, frames, answer>>
  BY DEF AppendField, control
<1>3. object # NoNode
  BY TableFacts DEF Inv, NoNode
<1>4. Appendable(object) /\ parents[object] = object /\ object \in Objects
  BY <1>1, <1>3 DEF Inv, BuilderInv, Appendable
<1>5. root = object
  BY <1>1, <1>4 DEF Find
<1>6. /\ IsTable(parents') /\ Len(parents') = Len(kinds) /\ parents'[object] = object
  BY <1>1, <1>4, CompressedTable DEF Inv
<1>7. PICK stored : stored = Find(type)
  OBVIOUS
<1>8. StoreField(object, key, stored, presence)
  BY <1>1, <1>5, <1>7
<1>9. TablesInv'
  BY <1>4, <1>6, <1>8, StoreKeepsTables DEF Inv
<1>10. SpansInv' /\ Appendable(object)'
  BY <1>4, <1>8, StoreKeepsSpans DEF Inv
<1>11. BuilderInv'
  BY <1>1, <1>2, <1>6, <1>10 DEF BuilderInv, NoJoin
<1>12. FramesInv'
  BY <1>2, NoFrames DEF NoJoin
<1> QED
  BY <1>9, <1>10, <1>11, <1>12 DEF Inv

LEMMA TopIsOpen ==
  ASSUME Inv, Waiting("object")
  PROVE  /\ DOMAIN frames = 1..Len(frames) /\ Len(frames) \in Nat
         /\ Len(frames) \in Open /\ Appendable(Top.out)
<1>1. IsTable(frames) /\ frames # <<>>
  BY DEF Inv, FramesInv, Waiting
<1>2. PICK S : frames \in Seq(S)
  BY <1>1, TableIsSeq DEF IsTable
<1>3. Len(frames) \in Nat /\ Len(frames) > 0 /\ DOMAIN frames = 1..Len(frames)
  BY <1>1, <1>2, EmptySeq
<1>4. Len(frames) \in Open
  BY <1>3 DEF Waiting, Top, Open
<1> QED
  BY <1>3, <1>4 DEF Top, Inv, FramesInv

\* The merge on top of the stack appends to its own output.
LEMMA EmitStep ==
  ASSUME Inv, EmitShared \/ EmitDrift
  PROVE  Inv'
<1>1. Waiting("object") /\ building' = building
  BY DEF EmitShared, EmitDrift, SharedKey, LeftKeys, RightKeys, LeftFirst, RightFirst
<1>2. PICK key, node, presence, byLeft, byRight :
        Emit(key, node, presence) /\ Advance(byLeft, byRight)
  BY DEF EmitShared, EmitDrift
<1>3. PICK out, stored : out = Top.out /\ stored = Find(node)
  OBVIOUS
<1>4. StoreField(out, key, stored, presence) /\ parents' = Compressed({node})
  BY <1>2, <1>3 DEF Emit
<1>5. Len(frames) \in Nat /\ DOMAIN frames = 1..Len(frames)
  BY <1>1, TopIsOpen
<1>6. PICK k \in Nat : k = Len(frames)
  BY <1>5
<1>7. k \in Open /\ out = frames[k].out /\ Appendable(out) /\ out \in Objects
  BY <1>1, <1>3, <1>6, TopIsOpen DEF Top, Appendable
<1>8. IsTable(parents') /\ Len(parents') = Len(kinds)
  BY <1>4, CompressedTable DEF Inv
<1>9. TablesInv'
  BY <1>4, <1>7, <1>8, StoreKeepsTables DEF Inv
<1>10. SpansInv' /\ Appendable(out)' /\ fieldStarts'[out] = fieldStarts[out]
  BY <1>4, <1>7, StoreKeepsSpans, StoreEffect DEF Inv
<1>11. BuilderInv'
  BY <1>1, BuilderIdle DEF Inv, Waiting, NoJoin
<1>12. /\ IsTable(frames') /\ DOMAIN frames' = DOMAIN frames
       /\ \A i \in DOMAIN frames :
            /\ DOMAIN frames'[i] = DOMAIN frames[i]
            /\ frames'[i].op = frames[i].op /\ frames'[i].out = frames[i].out
  <2>1. frames' = [frames EXCEPT ![k].l = @ + byLeft, ![k].r = @ + byRight]
    BY <1>2, <1>6 DEF Advance
  <2>2. frames' = [i \in 1..Len(frames) |-> frames'[i]] /\ DOMAIN frames' = DOMAIN frames
    BY <2>1, <1>5
  <2>3. IsTable(frames')
    BY <2>2, <1>5, TableIsSeq
  <2>4. ASSUME NEW i \in DOMAIN frames
        PROVE  /\ DOMAIN frames'[i] = DOMAIN frames[i]
               /\ frames'[i].op = frames[i].op /\ frames'[i].out = frames[i].out
    <3>1. DOMAIN frames[i] = {"op", "out", "l", "lEnd", "r", "rEnd"}
      BY DEF Inv, FramesInv
    <3>2. CASE i = k
      <4>1. frames'[k] = [frames[k] EXCEPT !.l = @ + byLeft, !.r = @ + byRight]
        BY <2>1, <3>2
      <4> QED
        BY <3>1, <3>2, <4>1
    <3>3. CASE i # k
      BY <2>1, <3>3
    <3> QED
      BY <3>2, <3>3
  <2> QED
    BY <2>2, <2>3, <2>4
<1>13. Open' = Open
  BY <1>12 DEF Open
<1>14. ASSUME NEW i \in Open, i # k, NEW p, p = frames[i].out
       PROVE  /\ p # out /\ End(p) <= fieldStarts[out]
              /\ Appendable(p)' /\ End(p)' = End(p) /\ fieldStarts'[p] = fieldStarts[p]
  <2>1. i < k
    BY <1>5, <1>6, <1>14 DEF Open
  <2>2. p # out /\ End(p) <= fieldStarts[out] /\ Appendable(p) /\ p \in Objects
    BY <2>1, <1>7, <1>14 DEF Inv, FramesInv, Appendable
  <2> QED
    BY <2>2, <1>4, <1>7, StoreKeepsBelow DEF Inv
<1>15. ASSUME NEW i \in Open', NEW p, p = frames'[i].out
       PROVE  Appendable(p)'
  <2>1. i \in Open /\ p = frames[i].out
    BY <1>12, <1>13, <1>15 DEF Open
  <2> QED
    BY <2>1, <1>7, <1>10, <1>14
<1>16. ASSUME NEW i \in Open', NEW j \in Open', i < j,
              NEW low, low = frames'[i].out, NEW top, top = frames'[j].out
       PROVE  low # top /\ End(low)' <= fieldStarts'[top]
  <2>1. i \in Open /\ j \in Open /\ low = frames[i].out /\ top = frames[j].out
    BY <1>12, <1>13, <1>16 DEF Open
  <2>2. low # top /\ End(low) <= fieldStarts[top]
    BY <2>1, <1>16 DEF Inv, FramesInv
  <2>3. i # k
    BY <2>1, <1>5, <1>6, <1>16 DEF Open
  <2>4. End(low)' = End(low)
    BY <2>1, <2>3, <1>14
  <2>5. fieldStarts'[top] = fieldStarts[top]
    BY <2>1, <1>7, <1>10, <1>14
  <2> QED
    BY <2>2, <2>4, <2>5
<1>17. FramesInv'
  <2>1. \A i \in Open' : Appendable(frames[i].out)'
    BY <1>15
  <2>2. \A i, j \in Open' : i < j => /\ frames'[i].out # frames'[j].out
                                     /\ End(frames[i].out)' <= fieldStarts'[frames'[j].out]
    BY <1>16
  <2>3. \A i \in DOMAIN frames' : DOMAIN frames'[i] = {"op", "out", "l", "lEnd", "r", "rEnd"}
    BY <1>12 DEF Inv, FramesInv
  <2> QED
    BY <2>1, <2>2, <2>3, <1>12 DEF FramesInv
<1> QED
  BY <1>9, <1>10, <1>11, <1>17 DEF Inv

LEMMA InvInductive ==
  ASSUME ~Raw
  PROVE  (Init => Inv) /\ (Inv /\ [Next]_vars => Inv')
<1>1. ASSUME Init PROVE Inv
  <2>1. FramesInv
    BY <1>1, EmptyIsTable DEF Init, FramesInv, Open
  <2> QED
    BY <1>1, <2>1, InitTables DEF Init, Inv, BuilderInv
<1>2. ASSUME Inv, [Next]_vars PROVE Inv'
  <2>1. CASE Caller
    BY <2>1, <1>2, PlainAllocSteps, AllocObjectStep, AppendFieldStep, CallerSteps, RestartSteps
    DEF Caller
  <2>2. CASE JoinStep
    BY <2>2, <1>2, PlainAllocSteps, LinkSteps, CallSteps, JoinObjectsStep, EmitStep
    DEF JoinStep
  <2>3. CASE UNCHANGED vars
    BY <2>3, <1>2, CallerSteps
  <2> QED
    BY <2>1, <2>2, <2>3, <1>2 DEF Next
<1> QED
  BY <1>1, <1>2

LEMMA InvIsolates ==
  ASSUME Inv
  PROVE  SpansIsolated
<1>1. \A n \in Objects : /\ fieldStarts[n] \in Nat /\ fieldCounts[n] \in Nat
                        /\ End(n) = fieldStarts[n] + fieldCounts[n]
                        /\ Span(n) = fieldStarts[n]..(End(n) - 1)
  BY TableFacts DEF Inv, Span, End
<1>2. ASSUME NEW m \in Objects, NEW n \in Objects, m # n, NEW i \in Span(m) \cap Span(n)
      PROVE  FALSE
  <2>1. /\ i \in Int /\ fieldStarts[m] <= i /\ i < End(m) /\ fieldStarts[n] <= i /\ i < End(n)
    BY <1>1, <1>2
  <2>2. fieldCounts[m] > 0 /\ fieldCounts[n] > 0
    BY <2>1, <1>1
  <2>3. End(m) <= fieldStarts[n] \/ End(n) <= fieldStarts[m]
    BY <2>2, <1>2 DEF Inv, SpansInv
  <2> QED
    BY <2>1, <2>3, <1>1
<1>3. ASSUME NEW i \in 1..FieldLength
      PROVE  \E n \in Objects : i \in Span(n)
  <2>1. PICK n \in Objects : fieldStarts[n] <= i /\ i < End(n)
    BY DEF Inv, SpansInv
  <2>2. i \in Span(n)
    BY <2>1, <1>1, TableFacts DEF Inv
  <2> QED
    BY <2>2
<1> QED
  BY <1>2, <1>3 DEF SpansIsolated

\* Objects filled one at a time, and the outputs of nested joins, never share
\* or lose a slot of the packed table (appendField and shiftFieldSuffix).
THEOREM SpansStayIsolated == ~Raw => (Spec => []SpansIsolated)
<1>1. ASSUME ~Raw
      PROVE  Spec => []SpansIsolated
  <2>1. Init => Inv
    BY <1>1, InvInductive
  <2>2. Inv /\ [Next]_vars => Inv'
    BY <1>1, InvInductive
  <2>3. Inv => SpansIsolated
    BY InvIsolates
  <2> QED
    BY <2>1, <2>2, <2>3, PTL DEF Spec
<1> QED
  BY <1>1

-----------------------------------------------------------------------------
(* The table implements one field list per node                            *)

FieldAt(i) ==
  [key |-> fieldKeys[i], type |-> fieldTypes[i], presence |-> fieldPresence[i]]

ListOf(n) == [i \in 1..fieldCounts[n] |-> FieldAt(fieldStarts[n] + i - 1)]

LEMMA ListsByNode ==
  /\ ListsOf(Tables) = [n \in Nodes |-> ListOf(n)]
  /\ ListsOf(Tables)' = [n \in Nodes' |-> ListOf(n)']
  BY DEF ListsOf, Tables, Field, Nodes, ListOf, FieldAt

LEMMA ListsUnchanged ==
  ASSUME UNCHANGED <<kinds, fieldStarts, fieldCounts, fieldTable>>
  PROVE  ListsOf(Tables)' = ListsOf(Tables)
<1>1. Nodes' = Nodes
  BY DEF Nodes
<1>2. \A n : ListOf(n)' = ListOf(n)
  BY DEF ListOf, FieldAt, fieldTable
<1> QED
  BY <1>1, <1>2, ListsByNode

LEMMA InsertedAt ==
  ASSUME FieldLength \in Nat, NEW table, NEW slot \in Nat, NEW x,
         NEW i \in 1..(FieldLength + 1)
  PROVE  /\ i < slot => Inserted(table, slot, x)[i] = table[i]
         /\ i = slot => Inserted(table, slot, x)[i] = x
         /\ i > slot => Inserted(table, slot, x)[i] = table[i - 1]
  BY DEF Inserted

\* Rows before the new slot stay, rows behind it move up by one.
LEMMA StoreRows ==
  ASSUME TablesInv, NEW o \in Objects, End(o) <= FieldLength + 1,
         NEW key, NEW type, NEW presence, StoreField(o, key, type, presence)
  PROVE  /\ \A i \in 1..FieldLength : i < End(o) => FieldAt(i)' = FieldAt(i)
         /\ \A i \in 1..FieldLength : i >= End(o) => FieldAt(i + 1)' = FieldAt(i)
         /\ End(o) >= 1 => fieldKeys'[End(o)] = key
<1>1. FieldLength \in Nat /\ End(o) \in Nat
  BY TableFacts
<1>2. PICK slot \in Nat : slot = End(o)
  BY <1>1
<1>3. /\ fieldKeys' = Inserted(fieldKeys, slot, key)
      /\ fieldTypes' = Inserted(fieldTypes, slot, type)
      /\ fieldPresence' = Inserted(fieldPresence, slot, presence)
  BY <1>2 DEF StoreField, End
<1>4. ASSUME NEW i \in 1..FieldLength, i < slot
      PROVE  FieldAt(i)' = FieldAt(i)
  BY <1>1, <1>3, <1>4, InsertedAt DEF FieldAt
<1>5. ASSUME NEW i \in 1..FieldLength, i >= slot
      PROVE  FieldAt(i + 1)' = FieldAt(i)
  <2>1. i + 1 \in 1..(FieldLength + 1) /\ i + 1 > slot /\ i + 1 - 1 = i
    BY <1>1, <1>5
  <2> QED
    BY <1>1, <1>3, <2>1, InsertedAt DEF FieldAt
<1>6. ASSUME slot >= 1
      PROVE  fieldKeys'[slot] = key
  <2>1. slot \in 1..(FieldLength + 1)
    BY <1>1, <1>2, <1>6
  <2>2. Inserted(fieldKeys, slot, key)[slot] = key
    BY <2>1 DEF Inserted
  <2> QED
    BY <1>3, <2>2
<1> QED
  BY <1>2, <1>4, <1>5, <1>6

\* The list of the owner gets one more field, and no other list changes.
LEMMA StoreLists ==
  ASSUME TablesInv, SpansInv, NEW o \in Objects, Appendable(o),
         NEW key, NEW type, NEW presence, StoreField(o, key, type, presence),
         MayAppend(o, key)
  PROVE  /\ \A n \in Nodes \ {o} : ListOf(n)' = ListOf(n)
         /\ \A i \in 1..fieldCounts[o] : ListOf(o)'[i] = ListOf(o)[i]
         /\ ListOf(o)'[fieldCounts[o] + 1].key = key
         /\ fieldCounts[o] > 0 => ListOf(o)[fieldCounts[o]].key < key
<1>1. /\ FieldLength \in Nat /\ Nodes' = Nodes /\ Objects' = Objects /\ o \in Nodes
      /\ fieldCounts'[o] = fieldCounts[o] + 1 /\ fieldStarts'[o] = fieldStarts[o]
      /\ \A n \in Nodes \ {o} : fieldCounts'[n] = fieldCounts[n]
  BY TableFacts, StoreEffect
<1>2. \A n \in Nodes : /\ fieldStarts[n] \in Nat /\ fieldCounts[n] \in Nat
                      /\ End(n) = fieldStarts[n] + fieldCounts[n]
  BY TableFacts
<1>3. \A n \in Objects : n \in Nodes /\ fieldStarts[n] >= 1 /\ End(n) <= FieldLength + 1
  BY TableFacts DEF SpansInv
<1>4. /\ \A i \in 1..FieldLength : i < End(o) => FieldAt(i)' = FieldAt(i)
      /\ \A i \in 1..FieldLength : i >= End(o) => FieldAt(i + 1)' = FieldAt(i)
      /\ fieldKeys'[End(o)] = key
  BY <1>1, <1>2, <1>3, StoreRows
<1>5. ASSUME NEW m \in Nodes \ {o}
      PROVE  ListOf(m)' = ListOf(m)
  <2>1. CASE fieldCounts[m] = 0
    BY <2>1, <1>1 DEF ListOf
  <2>2. CASE fieldCounts[m] > 0
    <3>1. m \in Objects \ {o}
      BY <2>2 DEF TablesInv
    <3>2. \/ End(o) <= fieldStarts[m] /\ fieldStarts'[m] = fieldStarts[m] + 1
          \/ End(m) <= End(o) /\ fieldStarts'[m] = fieldStarts[m]
      BY <3>1, <2>2, StoreMoves
    <3>3. ASSUME NEW i \in 1..fieldCounts[m], NEW old, old = fieldStarts[m] + i - 1,
                 NEW now, now = fieldStarts'[m] + i - 1
          PROVE  FieldAt(now)' = FieldAt(old)
      <4>1. old \in 1..FieldLength /\ old < End(m) /\ old >= fieldStarts[m]
        BY <3>1, <3>3, <1>1, <1>2, <1>3
      <4>2. \/ now = old + 1 /\ old >= End(o)
            \/ now = old /\ old < End(o)
        BY <3>1, <3>2, <3>3, <4>1, <1>2, <1>3
      <4> QED
        BY <4>1, <4>2, <1>4
    <3>4. \A i \in 1..fieldCounts[m] :
            FieldAt(fieldStarts[m] + i - 1)' = FieldAt(fieldStarts[m] + i - 1)
      BY <3>3
    <3> QED
      BY <3>4, <1>1 DEF ListOf
  <2> QED
    BY <2>1, <2>2, <1>2
<1>6. \A i \in 1..fieldCounts[o] : ListOf(o)'[i] = ListOf(o)[i]
  <2>1. SUFFICES ASSUME NEW i \in 1..fieldCounts[o]
                 PROVE  ListOf(o)'[i] = ListOf(o)[i]
    OBVIOUS
  <2>2. PICK slot : slot = fieldStarts[o] + i - 1
    OBVIOUS
  <2>3. slot \in 1..FieldLength /\ slot < End(o)
    BY <2>2, <1>1, <1>2, <1>3
  <2>4. FieldAt(slot)' = FieldAt(slot)
    BY <2>3, <1>4
  <2>5. i \in 1..(fieldCounts[o] + 1)
    BY <1>1, <1>2
  <2> QED
    BY <2>2, <2>4, <2>5, <1>1 DEF ListOf
<1>7. ListOf(o)'[fieldCounts[o] + 1].key = key
  <2>1. PICK last, slot : last = fieldCounts[o] + 1 /\ slot = End(o)
    OBVIOUS
  <2>2. /\ last \in 1..fieldCounts'[o] /\ fieldStarts'[o] + last - 1 = slot
    BY <2>1, <1>1, <1>2
  <2>3. ListOf(o)'[last] = FieldAt(slot)'
    BY <2>2 DEF ListOf
  <2> QED
    BY <2>1, <2>3, <1>4 DEF FieldAt
<1>8. fieldCounts[o] > 0 => ListOf(o)[fieldCounts[o]].key < key
  BY <1>1, <1>2 DEF MayAppend, ListOf, FieldAt
<1> QED
  BY <1>5, <1>6, <1>7, <1>8

LEMMA StoreRefines ==
  ASSUME TablesInv, SpansInv, NEW o \in Objects, Appendable(o),
         NEW key, NEW type, NEW presence, StoreField(o, key, type, presence),
         MayAppend(o, key)
  PROVE  Lists!AppendField
<1>1. /\ Nodes' = Nodes /\ o \in Nodes
      /\ fieldCounts'[o] = fieldCounts[o] + 1 /\ fieldCounts[o] \in Nat
  BY TableFacts, StoreEffect
<1>2. /\ \A n \in Nodes \ {o} : ListOf(n)' = ListOf(n)
      /\ \A i \in 1..fieldCounts[o] : ListOf(o)'[i] = ListOf(o)[i]
      /\ ListOf(o)'[fieldCounts[o] + 1].key = key
      /\ fieldCounts[o] > 0 => ListOf(o)[fieldCounts[o]].key < key
  BY StoreLists
<1>3. /\ DOMAIN ListOf(o)' = 1..(fieldCounts[o] + 1)
      /\ DOMAIN ListOf(o) = 1..fieldCounts[o]
      /\ Len(ListOf(o)') = fieldCounts[o] + 1 /\ Len(ListOf(o)) = fieldCounts[o]
  <2> DEFINE new == ListOf(o)'
             list == ListOf(o)
             count == fieldCounts[o]
  <2>1. new = [i \in 1..(count + 1) |-> new[i]] /\ list = [i \in 1..count |-> list[i]]
    BY <1>1 DEF ListOf
  <2>2. count \in Nat /\ count + 1 \in Nat
    BY <1>1
  <2> HIDE DEF new, list, count
  <2>3. Len(new) = count + 1 /\ Len(list) = count
    BY <2>1, <2>2, TableIsSeq
  <2>4. DOMAIN new = 1..(count + 1) /\ DOMAIN list = 1..count
    BY <2>1
  <2> QED
    BY <2>3, <2>4 DEF new, list, count
<1>4. ListOf(o) # <<>> => fieldCounts[o] > 0
  BY <1>1 DEF ListOf
<1>5. Lists!Extends(ListOf(o)', ListOf(o))
  BY <1>2, <1>3, <1>4 DEF Lists!Extends
<1> DEFINE lists == ListsOf(Tables)
           listsNow == ListsOf(Tables)'
<1>6. /\ DOMAIN lists = Nodes /\ DOMAIN listsNow = Nodes
       /\ \A n \in Nodes : lists[n] = ListOf(n) /\ listsNow[n] = ListOf(n)'
  BY <1>1, ListsByNode
<1> QED
  BY <1>1, <1>2, <1>5, <1>6 DEF Lists!AppendField

LEMMA AllocRefines ==
  ASSUME TablesInv, NEW kind, NEW l, NEW r, NEW ps, AllocRaw(kind, l, r, ps),
         kind \in Kinds, IsTable(ps), Len(ps) = Len(kinds)
  PROVE  Lists!Allocate
<1>1. PICK new : new = Len(kinds) + 1
  OBVIOUS
<1>2. /\ Nodes = 1..Len(kinds) /\ Len(kinds) \in Nat
      /\ Nodes' = Nodes \cup {new} /\ fieldCounts'[new] = 0
      /\ \A n \in Nodes : /\ fieldStarts'[n] = fieldStarts[n]
                          /\ fieldCounts'[n] = fieldCounts[n]
  BY <1>1, AllocEffect, TableFacts
<1>3. fieldTable' = fieldTable
  BY DEF AllocRaw
<1>4. \A n \in Nodes : ListOf(n)' = ListOf(n)
  BY <1>2, <1>3 DEF ListOf, FieldAt, fieldTable
<1>5. ListOf(new)' = <<>>
  <2>1. ListOf(new)' = [i \in 1..0 |-> ListOf(new)'[i]]
    BY <1>2 DEF ListOf
  <2>2. ListOf(new)' \in Seq({}) /\ Len(ListOf(new)') = 0
    BY <2>1
  <2> QED
    BY <2>2, EmptySeq
<1> DEFINE lists == ListsOf(Tables)
           listsNow == ListsOf(Tables)'
<1>6. /\ lists = [n \in 1..Len(kinds) |-> lists[n]] /\ DOMAIN listsNow = 1..new
      /\ listsNow = [n \in 1..new |-> listsNow[n]]
      /\ \A n \in 1..Len(kinds) : listsNow[n] = lists[n]
      /\ listsNow[new] = <<>>
  BY <1>1, <1>2, <1>4, <1>5, ListsByNode
<1> HIDE DEF lists, listsNow
<1>7. IsTable(lists) /\ Len(lists) = Len(kinds)
  BY <1>2, <1>6, TableIsSeq
<1>8. PICK longer : longer = Append(lists, <<>>)
  OBVIOUS
<1>9. /\ IsTable(longer) /\ Len(longer) = new
      /\ \A n \in 1..Len(kinds) : longer[n] = lists[n]
      /\ longer[new] = <<>>
  BY <1>1, <1>7, <1>8, AppendTable
<1>10. ASSUME NEW n \in 1..new
       PROVE  listsNow[n] = longer[n]
  <2>1. n = new \/ n \in 1..Len(kinds)
    BY <1>1, <1>2
  <2> QED
    BY <2>1, <1>6, <1>9
<1>11. listsNow = longer
  BY <1>6, <1>9, <1>10 DEF IsTable
<1> QED
  BY <1>8, <1>11 DEF Lists!Allocate, lists, listsNow

LEMMA RestartRefines ==
  ASSUME NEW s, Become(s)
  PROVE  ListsOf(Tables)' = ListsOf(s)
<1>1. /\ kinds' = s.kinds /\ fieldStarts' = s.fieldStarts /\ fieldCounts' = s.fieldCounts
      /\ fieldKeys' = s.fieldKeys /\ fieldTypes' = s.fieldTypes
      /\ fieldPresence' = s.fieldPresence
  BY DEF Become
<1>2. Nodes' = 1..Len(s.kinds)
  BY <1>1 DEF Nodes
<1>3. ListsOf(Tables)' = [n \in 1..Len(s.kinds) |-> ListOf(n)']
  BY <1>2, ListsByNode
<1>4. \A n : ListOf(n)' =
             [i \in 1..s.fieldCounts[n] |-> Field(s, s.fieldStarts[n] + i - 1)]
  BY <1>1 DEF ListOf, FieldAt, Field
<1> QED
  BY <1>3, <1>4 DEF ListsOf

LEMMA InitRefines ==
  ASSUME Init
  PROVE  Lists!Init
<1>1. Tables = CanonicalTables
  BY DEF Init, Tables, CanonicalTables
<1> QED
  BY <1>1 DEF Lists!Init

LEMMA StepRefines ==
  ASSUME Inv, ~Raw, Next
  PROVE  Lists!Next \/ UNCHANGED ListsOf(Tables)
<1>1. CASE AllocVar \/ AllocArray \/ AllocObject \/ AllocUnion \/ WrapArray \/ JoinObjects
  <2>1. PICK kind, l, r, ps :
          /\ AllocRaw(kind, l, r, ps) /\ kind \in {"Var", "Array", "Union", "Object"}
          /\ ps = parents \/ \E S : ps = Compressed(S)
    <3>1. CASE AllocVar
      BY <3>1 DEF AllocVar
    <3>2. CASE AllocArray
      BY <3>2 DEF AllocArray
    <3>3. CASE AllocUnion
      BY <3>3 DEF AllocUnion
    <3>4. CASE WrapArray
      BY <3>4 DEF WrapArray
    <3>5. CASE AllocObject
      BY <3>5 DEF AllocObject
    <3>6. CASE JoinObjects
      BY <3>6 DEF JoinObjects
    <3> QED
      BY <1>1, <3>1, <3>2, <3>3, <3>4, <3>5, <3>6
  <2>2. kind \in Kinds /\ IsTable(ps) /\ Len(ps) = Len(kinds)
    BY <2>1, AllocParents DEF Inv, Kinds
  <2>3. Lists!Allocate
    BY <2>1, <2>2, AllocRefines DEF Inv
  <2> QED
    BY <2>3 DEF Lists!Next
<1>2. CASE AppendField \/ EmitShared \/ EmitDrift
  <2>1. PICK o, key, type, presence :
          /\ StoreField(o, key, type, presence) /\ MayAppend(o, key) /\ Appendable(o)
    <3>1. CASE AppendField
      <4>1. PICK object \in Nodes, type \in Nodes, root \in Nodes, key \in Key,
                 presence \in Presence :
              /\ object = building /\ root = Find(object) /\ MayAppend(root, key)
              /\ StoreField(root, key, Find(type), presence)
        BY <3>1 DEF AppendField
      <4>2. object # NoNode
        BY TableFacts DEF Inv, NoNode
      <4>3. Appendable(object) /\ parents[object] = object
        BY <4>1, <4>2 DEF Inv, BuilderInv
      <4>4. root = object
        BY <4>1, <4>3 DEF Find
      <4> QED
        BY <4>1, <4>3, <4>4
    <3>2. CASE EmitShared \/ EmitDrift
      <4>1. PICK key, node, presence : Emit(key, node, presence)
        BY <3>2 DEF EmitShared, EmitDrift
      <4>2. Waiting("object")
        BY <3>2 DEF EmitShared, EmitDrift, SharedKey, LeftKeys, RightKeys, LeftFirst, RightFirst
      <4>3. Appendable(Top.out)
        BY <4>2, TopIsOpen
      <4> QED
        BY <4>1, <4>3 DEF Emit
    <3> QED
      BY <1>2, <3>1, <3>2
  <2>2. o \in Objects
    BY <2>1 DEF Appendable
  <2>3. Lists!AppendField
    BY <2>1, <2>2, StoreRefines DEF Inv
  <2> QED
    BY <2>3 DEF Lists!Next
<1>3. CASE Reset \/ Load
  <2>1. PICK s : Become(s) /\ (s = CanonicalTables \/ s \in Snapshots)
    BY <1>3 DEF Reset, Load
  <2>2. ListsOf(Tables)' = ListsOf(s)
    BY <2>1, RestartRefines
  <2>3. Lists!Restart
    BY <2>1, <2>2 DEF Lists!Restart
  <2> QED
    BY <2>3 DEF Lists!Next
<1>4. CASE \/ Close \/ Lookup \/ BeginJoin \/ JoinAbsorbed \/ BindVar \/ LinkSameKind
           \/ JoinArrays \/ MergeShared \/ FinishObject \/ Abort \/ ReturnJoin
  <2>1. UNCHANGED <<kinds, fieldStarts, fieldCounts, fieldTable>>
    BY <1>4 DEF Close, Lookup, BeginJoin, JoinAbsorbed, BindVar, LinkSameKind, JoinArrays,
       MergeShared, FinishObject, Abort, ReturnJoin, nodeShape
  <2> QED
    BY <2>1, ListsUnchanged
<1> QED
  BY <1>1, <1>2, <1>3, <1>4 DEF Next, Caller, JoinStep

\* The packed field table with its shifted suffixes implements a private,
\* append-only, key-ordered field list for every node.
THEOREM ImplementsLists == ~Raw => (Spec => ImplementsFieldLists)
<1>1. ASSUME ~Raw
      PROVE  Spec => ImplementsFieldLists
  <2>1. Init => Inv /\ Lists!Init
    BY <1>1, InvInductive, InitRefines
  <2>2. Inv /\ [Next]_vars => Inv'
    BY <1>1, InvInductive
  <2>3. Inv /\ [Next]_vars => [Lists!Next]_(ListsOf(Tables))
    <3>1. CASE Next
      BY <1>1, <3>1, StepRefines
    <3>2. CASE UNCHANGED vars
      BY <3>2, ListsUnchanged DEF vars, nodeShape
    <3> QED
      BY <3>1, <3>2
  <2> QED
    BY <2>1, <2>2, <2>3, PTL DEF Spec, ImplementsFieldLists, Lists!Spec
<1> QED
  BY <1>1
=============================================================================
