--------------------------- MODULE SeaBreezeTypes ---------------------------
(***************************************************************************)
(* What the nodes of a SeaBreeze arena denote when they are lowered to     *)
(* schemas (src/seabreeze/lower-schema.ts, default options), and the       *)
(* properties of the arena and of principalJoin.                           *)
(***************************************************************************)
EXTENDS SeaBreezeArena

CONSTANTS
  Val,     \* sample values
  Shape    \* [Val -> [kind, items, own]]: a scalar kind, "Array" or "Object"

ASSUME ShapeAssumption ==
  \A v \in Val :
    /\ Shape[v].kind \in ScalarKinds \cup {"Array", "Object"}
    /\ Shape[v].items \subseteq Val
    /\ \A k \in DOMAIN Shape[v].own : k \in Key /\ Shape[v].own[k] \in Val

Span(n) == fieldStarts[n]..(fieldStarts[n] + fieldCounts[n] - 1)
Objects == {n \in Nodes : kinds[n] = "Object"}

\* Value v conforms to node n.  An unbound variable lowers to unknown, and an
\* object to a strict object schema.
Conforms(v, n) ==
  LET holds[p \in Val \X Nat] ==
        LET w == Shape[p[1]]
            r == Find(p[2])
            keys == {fieldKeys[i] : i \in Span(r)} IN
        CASE kinds[r] = "Never" -> FALSE
          [] kinds[r] \in {"Unknown", "Var"} -> TRUE
          [] kinds[r] \in ScalarKinds -> w.kind = kinds[r]
          [] kinds[r] = "Array" ->
               w.kind = "Array" /\ \A item \in w.items : holds[<<item, left[r]>>]
          [] kinds[r] = "Union" -> holds[<<p[1], left[r]>>] \/ holds[<<p[1], right[r]>>]
          [] kinds[r] = "Object" ->
               /\ w.kind = "Object" /\ DOMAIN w.own \subseteq keys
               /\ \A i \in Span(r) :
                    IF fieldKeys[i] \in DOMAIN w.own
                      THEN holds[<<w.own[fieldKeys[i]], fieldTypes[i]>>]
                      ELSE fieldPresence[i] = "Optional"
  IN  holds[<<v, n>>]

Denotes(n) == {v \in Val : Conforms(v, n)}

-----------------------------------------------------------------------------
(* Properties                                                              *)

FrameType ==
  [op : {"array", "object"}, out : Nat, l : Nat, lEnd : Nat, r : Nat, rEnd : Nat]

TypeOK ==
  /\ parents \in [Nodes -> Nodes] /\ ranks \in [Nodes -> Nat]
  /\ kinds \in Seq(Kinds)
  /\ left \in [Nodes -> Nodes \cup {NoNode}] /\ right \in [Nodes -> Nodes \cup {NoNode}]
  /\ fieldStarts \in [Nodes -> Nat] /\ fieldCounts \in [Nodes -> Nat]
  /\ fieldKeys \in Seq(Key)
  /\ fieldTypes \in [1..FieldLength -> Nodes]
  /\ fieldPresence \in [1..FieldLength -> Presence]
  /\ building \in Nodes \cup {NoNode} /\ answer \in Nodes \cup {NoNode}
  /\ call \in (Nodes \X Nodes) \cup {NoCall} /\ args \in (Nodes \X Nodes) \cup {NoCall}
  /\ frames \in Seq(FrameType)
  /\ joins \in 0..MaxJoins
  /\ Len(kinds) <= MaxNodes /\ FieldLength <= MaxFields

\* Every field slot belongs to exactly one object, whatever was appended in
\* between (the comment at src/seabreeze/sea-breeze.ts:376, and the test "keeps
\* object field spans isolated during interleaved appends").
SpansIsolated ==
  /\ \A m, n \in Objects : m # n => Span(m) \cap Span(n) = {}
  /\ \A i \in 1..FieldLength : \E n \in Objects : i \in Span(n)

\* A snapshot taken when no call is running is one that load() accepts, also
\* after calls that ran out of room (src/seabreeze/serialize.ts:16).
SnapshotReloads == Ready => Valid(Tables)

\* The answer of a join accepts whatever its operands accept, with the
\* variables it has bound meanwhile.
JoinUpperBound ==
  args # NoCall /\ call = NoCall /\ frames = <<>> =>
    Denotes(args[1]) \cup Denotes(args[2]) \subseteq Denotes(answer)

\* Every principalJoin returns or throws.
JoinEnds == (call # NoCall) ~> NoJoin

-----------------------------------------------------------------------------
(* The packed table implements one field list per node                     *)

Field(s, i) ==
  [key |-> s.fieldKeys[i], type |-> s.fieldTypes[i], presence |-> s.fieldPresence[i]]

ListsOf(s) ==
  [n \in 1..Len(s.kinds) |->
     [i \in 1..s.fieldCounts[n] |-> Field(s, s.fieldStarts[n] + i - 1)]]

Lists == INSTANCE FieldLists WITH
  lists <- ListsOf(Tables),
  Restarts <- {ListsOf(CanonicalTables)} \cup {ListsOf(s) : s \in Snapshots}

ImplementsFieldLists == Lists!Spec
=============================================================================
