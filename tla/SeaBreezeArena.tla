--------------------------- MODULE SeaBreezeArena ---------------------------
(***************************************************************************)
(* The SeaBreeze inference arena (src/seabreeze/sea-breeze.ts): type nodes *)
(* in parallel tables with union-find parents, one packed table for the    *)
(* fields of all objects, and principalJoin.                               *)
(*                                                                         *)
(* Callers use the arena directly (Raw), or through the builder            *)
(* (src/seabreeze/builder.ts), which fills an object as soon as it has     *)
(* allocated it.  principalJoin recurses; it is a stack machine here: call *)
(* is the join about to be made, frames the suspended activations, answer  *)
(* what the last one returned.                                             *)
(***************************************************************************)
EXTENDS SeaBreezeSnapshot

CONSTANTS
  Raw,        \* BOOLEAN: any object may be appended to at any time
  Uses,       \* which of the operations "var", "array", "object", "reset" occur
  MaxNodes, MaxFields,   \* the capacities the caller gives the arena
  MaxJoins,   \* bound: joins the caller makes until it resets or loads the arena
  Snapshots   \* what load() may be called with

ASSUME ArenaAssumption ==
  /\ Raw \in BOOLEAN
  /\ {MaxNodes, MaxFields, MaxJoins} \subseteq Nat /\ MaxNodes >= Len(Canonical)
  /\ \A s \in Snapshots :
       Valid(s) /\ Len(s.kinds) <= MaxNodes /\ Len(s.fieldKeys) <= MaxFields

VARIABLES
  parents, ranks, kinds, left, right,    \* by node
  fieldStarts, fieldCounts,              \* by node: its span of the field table
  fieldKeys, fieldTypes, fieldPresence,  \* by field slot
  building,   \* the object the builder is filling, or NoNode
  call,       \* the arguments of the principalJoin about to run, or NoCall
  frames,     \* suspended activations of principalJoin, innermost last
  answer,     \* the node the last join returned, or NoNode
  args,       \* the arguments of the caller's join while it runs
  joins       \* joins the caller has made

fieldTable == <<fieldKeys, fieldTypes, fieldPresence>>
nodeShape == <<ranks, kinds, left, right, fieldStarts, fieldCounts>>
control == <<building, call, frames, answer, args, joins>>
vars == <<parents, nodeShape, fieldTable, control>>

NoCall == <<>>

Nodes == 1..Len(kinds)
FieldLength == Len(fieldKeys)

Tables ==
  [parents |-> parents, ranks |-> ranks, kinds |-> kinds, left |-> left,
   right |-> right, fieldStarts |-> fieldStarts, fieldCounts |-> fieldCounts,
   fieldKeys |-> fieldKeys, fieldTypes |-> fieldTypes,
   fieldPresence |-> fieldPresence]

Become(s) ==
  /\ parents' = s.parents /\ ranks' = s.ranks /\ kinds' = s.kinds
  /\ left' = s.left /\ right' = s.right
  /\ fieldStarts' = s.fieldStarts /\ fieldCounts' = s.fieldCounts
  /\ fieldKeys' = s.fieldKeys /\ fieldTypes' = s.fieldTypes
  /\ fieldPresence' = s.fieldPresence

Init ==
  /\ parents = CanonicalTables.parents /\ ranks = CanonicalTables.ranks
  /\ kinds = CanonicalTables.kinds
  /\ left = CanonicalTables.left /\ right = CanonicalTables.right
  /\ fieldStarts = CanonicalTables.fieldStarts
  /\ fieldCounts = CanonicalTables.fieldCounts
  /\ fieldKeys = <<>> /\ fieldTypes = <<>> /\ fieldPresence = <<>>
  /\ building = NoNode /\ call = NoCall /\ frames = <<>>
  /\ answer = NoNode /\ args = NoCall /\ joins = 0

-----------------------------------------------------------------------------
(* find                                                                    *)

\* The nodes on the way from n to its representative.
Path(n) ==
  LET up[m \in Nodes] ==
        IF parents[m] = m THEN {m} ELSE {m} \cup up[parents[m]]
  IN  up[n]

Find(n) ==
  LET root[m \in Nodes] == IF parents[m] = m THEN m ELSE root[parents[m]]
  IN  IF parents[n] = n THEN n ELSE root[parents[n]]

\* The parents after find was called for each node of S.
Compressed(S) ==
  LET touched == UNION {Path(n) : n \in S} IN
  [m \in Nodes |-> IF m \in touched THEN Find(m) ELSE parents[m]]

-----------------------------------------------------------------------------
(* allocRaw, and appendField without its checks                            *)

HasRoom == Len(kinds) < MaxNodes

\* A new node of the given kind on top of the parents ps.
AllocRaw(kind, leftChild, rightChild, ps) ==
  /\ HasRoom
  /\ parents' = Append(ps, Len(kinds) + 1)
  /\ ranks' = Append(ranks, 0)
  /\ kinds' = Append(kinds, kind)
  /\ left' = Append(left, leftChild)
  /\ right' = Append(right, rightChild)
  /\ fieldStarts' = Append(fieldStarts,
                           IF kind = "Object" THEN FieldLength + 1 ELSE 0)
  /\ fieldCounts' = Append(fieldCounts, 0)
  /\ UNCHANGED fieldTable

\* Mutant: the object whose span starts at the slot stays where it is.
MovesPastOnly(n, slot, owner) ==
  n # owner /\ kinds[n] = "Object" /\ fieldStarts[n] > slot

\* Whether the span of n moves up when a slot opens for owner.
Moves(n, slot, owner) ==
  /\ n # owner /\ kinds[n] = "Object"
  /\ fieldStarts[n] > slot \/ (fieldStarts[n] = slot /\ fieldCounts[n] > 0)

Inserted(table, slot, x) ==
  [i \in 1..(FieldLength + 1) |->
     CASE i < slot -> table[i] [] i = slot -> x [] OTHER -> table[i - 1]]

\* Mutant: the presence table is not shifted along.
StoreFieldOver(owner, key, type, presence) ==
  LET slot == fieldStarts[owner] + fieldCounts[owner] IN
  /\ fieldStarts' = [n \in Nodes |->
       IF slot <= FieldLength /\ Moves(n, slot, owner)
         THEN fieldStarts[n] + 1 ELSE fieldStarts[n]]
  /\ fieldCounts' = [fieldCounts EXCEPT ![owner] = @ + 1]
  /\ fieldKeys' = Inserted(fieldKeys, slot, key)
  /\ fieldTypes' = Inserted(fieldTypes, slot, type)
  /\ fieldPresence' = [Append(fieldPresence, presence) EXCEPT ![slot] = presence]
  /\ UNCHANGED <<ranks, kinds, left, right>>

StoreField(owner, key, type, presence) ==
  LET slot == fieldStarts[owner] + fieldCounts[owner] IN
  /\ fieldStarts' = [n \in Nodes |->
       IF slot <= FieldLength /\ Moves(n, slot, owner)
         THEN fieldStarts[n] + 1 ELSE fieldStarts[n]]
  /\ fieldCounts' = [fieldCounts EXCEPT ![owner] = @ + 1]
  /\ fieldKeys' = Inserted(fieldKeys, slot, key)
  /\ fieldTypes' = Inserted(fieldTypes, slot, type)
  /\ fieldPresence' = Inserted(fieldPresence, slot, presence)
  /\ UNCHANGED <<ranks, kinds, left, right>>

\* appendField throws on a full table, and on a key out of order.
MayAppend(owner, key) ==
  /\ FieldLength < MaxFields
  /\ fieldCounts[owner] > 0 =>
       fieldKeys[fieldStarts[owner] + fieldCounts[owner] - 1] < key

-----------------------------------------------------------------------------
(* The caller                                                              *)

NoJoin == call = NoCall /\ frames = <<>> /\ answer = NoNode
Ready == NoJoin /\ building = NoNode

AllocVar ==
  /\ Ready /\ "var" \in Uses
  /\ AllocRaw("Var", NoNode, NoNode, parents)
  /\ UNCHANGED control

AllocArray ==
  /\ Ready /\ "array" \in Uses
  /\ \E element \in Nodes :
       AllocRaw("Array", Find(element), NoNode, Compressed({element}))
  /\ UNCHANGED control

AllocObject ==
  /\ Ready /\ "object" \in Uses
  /\ AllocRaw("Object", NoNode, NoNode, parents)
  /\ building' = IF Raw THEN NoNode ELSE Len(kinds) + 1
  /\ UNCHANGED <<call, frames, answer, args, joins>>

\* A builder reads the shape, and so the types, before it allocates the object.
AppendField ==
  /\ NoJoin
  /\ \E object, type \in Nodes, root \in Nodes, key \in Key, presence \in Presence :
       /\ ~Raw => object = building /\ type < building
       /\ root = Find(object) /\ kinds[root] = "Object"
       /\ MayAppend(root, key)
       /\ StoreField(root, key, Find(type), presence)
       /\ parents' = Compressed({object, type})
  /\ UNCHANGED control

\* The builder's object() returns, or throws with the object half filled.
Close ==
  /\ NoJoin /\ building # NoNode
  /\ building' = NoNode
  /\ UNCHANGED <<parents, nodeShape, fieldTable, call, frames, answer, args, joins>>

\* find, kindOf, and every other reader.
Lookup ==
  /\ Ready
  /\ \E n \in Nodes : parents' = Compressed({n})
  /\ UNCHANGED <<nodeShape, fieldTable, control>>

Reset ==
  /\ Ready /\ "reset" \in Uses
  /\ Become(CanonicalTables)
  /\ joins' = 0
  /\ UNCHANGED <<building, call, frames, answer, args>>

Load ==
  /\ Ready
  /\ \E s \in Snapshots : Become(s)
  /\ joins' = 0
  /\ UNCHANGED <<building, call, frames, answer, args>>

-----------------------------------------------------------------------------
(* The occurs check                                                        *)

Children(n) ==
  CASE kinds[n] = "Array"  -> <<left[n]>>
    [] kinds[n] = "Union"  -> <<left[n], right[n]>>
    [] kinds[n] = "Object" ->
         [i \in 1..fieldCounts[n] |-> fieldTypes[fieldStarts[n] + i - 1]]
    [] OTHER -> <<>>

\* Mutant: a variable is bound whatever its target contains.
OccursNowhere(variable, target) == [occurs |-> variable = target, looked |-> {}]

\* The search is at a child of a node; marked nodes are on the stack todo or
\* were, and find was called for the found ones.
Searches ==
  [todo : Seq(Nodes), node : Nodes, child : Nat \ {0},
   marked : SUBSET Nodes, found : SUBSET Nodes]

\* A union looks up both children before it compares, an object one field
\* after the other.
Looked(s) ==
  s.found \cup (IF kinds[s.node] = "Union" THEN {left[s.node], right[s.node]}
                ELSE {Children(s.node)[s.child]})

AtChild(s) == s.child \in DOMAIN Children(s.node)
ChildRoot(s) == Find(Children(s.node)[s.child])

\* Mark the child, and push it unless it was marked.
PastChild(s) ==
  [s EXCEPT !.todo = IF ChildRoot(s) \in s.marked THEN s.todo
                     ELSE Append(s.todo, ChildRoot(s)),
            !.child = s.child + 1,
            !.marked = s.marked \cup {ChildRoot(s)},
            !.found = Looked(s)]

PopNode(s) ==
  [s EXCEPT !.todo = SubSeq(s.todo, 1, Len(s.todo) - 1),
            !.node = s.todo[Len(s.todo)], !.child = 1]

\* A depth-first search for variable below the representative target: whether
\* it occurs there, and the nodes find was called for.
Occurs(variable, target) ==
  LET search[s \in Searches] ==
        IF AtChild(s) /\ ChildRoot(s) = variable
          THEN [occurs |-> TRUE, looked |-> Looked(s)]
        ELSE IF ~AtChild(s) /\ s.todo = <<>>
          THEN [occurs |-> FALSE, looked |-> s.found]
        ELSE search[IF AtChild(s) THEN PastChild(s) ELSE PopNode(s)]
  IN  IF target = variable THEN [occurs |-> TRUE, looked |-> {}]
      ELSE search[[todo |-> <<>>, node |-> target, child |-> 1,
                   marked |-> {target}, found |-> {}]]

-----------------------------------------------------------------------------
(* principalJoin                                                           *)

BeginJoin ==
  /\ Ready /\ joins < MaxJoins
  /\ \E l, r \in Nodes : call' = <<l, r>> /\ args' = <<l, r>>
  /\ joins' = joins + 1
  /\ UNCHANGED <<parents, nodeShape, fieldTable, building, frames, answer>>

L == Find(call[1])
R == Find(call[2])

\* The joins that need no new node: equal representatives, never, unknown.
Absorbed ==
  CASE L = R -> L
    [] L # R /\ kinds[L] = "Never" -> R
    [] L # R /\ kinds[L] # "Never" /\ kinds[R] = "Never" -> L
    [] L # R /\ "Never" \notin {kinds[L], kinds[R]} /\ "Unknown" \in {kinds[L], kinds[R]}
         -> Unknown
    [] OTHER -> NoNode

Answer(n) == call' = NoCall /\ answer' = n /\ UNCHANGED <<building, frames, args, joins>>

JoinAbsorbed ==
  /\ call # NoCall /\ Absorbed # NoNode
  /\ parents' = Compressed({call[1], call[2]})
  /\ Answer(Absorbed)
  /\ UNCHANGED <<nodeShape, fieldTable>>

Joining == call # NoCall /\ Absorbed = NoNode

\* bindVar, for the left variable if both are.
BindVar ==
  /\ Joining /\ "Var" \in {kinds[L], kinds[R]}
  /\ LET variable == IF kinds[L] = "Var" THEN L ELSE R
         target == IF kinds[L] = "Var" THEN R ELSE L
         check == Occurs(variable, target)
         compressed == Compressed({call[1], call[2]} \cup check.looked) IN
     IF check.occurs
       THEN parents' = compressed /\ Answer(Unknown)
       ELSE parents' = [compressed EXCEPT ![variable] = target] /\ Answer(target)
  /\ UNCHANGED <<nodeShape, fieldTable>>

\* Only a loaded arena has two nodes of one scalar kind.
LinkSameKind ==
  /\ Joining /\ kinds[L] = kinds[R] /\ kinds[L] \in ScalarKinds
  /\ LET winner == IF ranks[L] < ranks[R] THEN R ELSE L
         loser == IF winner = L THEN R ELSE L IN
     /\ parents' = [Compressed({call[1], call[2]}) EXCEPT ![loser] = winner]
     /\ ranks' = [ranks EXCEPT ![winner] = IF ranks[L] = ranks[R] THEN @ + 1 ELSE @]
     /\ Answer(winner)
  /\ UNCHANGED <<kinds, left, right, fieldStarts, fieldCounts, fieldTable>>

ArrayFrame == [op |-> "array", out |-> NoNode, l |-> 0, lEnd |-> 0, r |-> 0, rEnd |-> 0]

\* The elements are joined before the result is allocated.
JoinArrays ==
  /\ Joining /\ kinds[L] = "Array" /\ kinds[R] = "Array"
  /\ parents' = Compressed({call[1], call[2]})
  /\ call' = <<left[L], left[R]>>
  /\ frames' = Append(frames, ArrayFrame)
  /\ UNCHANGED <<nodeShape, fieldTable, building, answer, args, joins>>

\* The result is allocated first; the spans are read once, before the merge.
JoinObjects ==
  /\ Joining /\ kinds[L] = "Object" /\ kinds[R] = "Object"
  /\ AllocRaw("Object", NoNode, NoNode, Compressed({call[1], call[2]}))
  /\ call' = NoCall
  /\ frames' = Append(frames,
       [op |-> "object", out |-> Len(kinds) + 1,
        l |-> fieldStarts[L], lEnd |-> fieldStarts[L] + fieldCounts[L],
        r |-> fieldStarts[R], rEnd |-> fieldStarts[R] + fieldCounts[R]])
  /\ UNCHANGED <<building, answer, args, joins>>

SameConstructor ==
  kinds[L] = kinds[R] /\ kinds[L] \in ScalarKinds \cup {"Array", "Object"}
NeedsUnion == Joining /\ "Var" \notin {kinds[L], kinds[R]} /\ ~SameConstructor

AllocUnion ==
  /\ NeedsUnion
  /\ AllocRaw("Union", IF L < R THEN L ELSE R, IF L < R THEN R ELSE L,
              Compressed({call[1], call[2]}))
  /\ Answer(Len(kinds) + 1)

-----------------------------------------------------------------------------
(* The activations waiting on the stack                                    *)

Top == frames[Len(frames)]
Popped == SubSeq(frames, 1, Len(frames) - 1)
Waiting(op) == call = NoCall /\ frames # <<>> /\ Top.op = op

WrapArray ==
  /\ Waiting("array") /\ answer # NoNode
  /\ AllocRaw("Array", Find(answer), NoNode, Compressed({answer}))
  /\ answer' = Len(kinds) + 1
  /\ frames' = Popped
  /\ UNCHANGED <<building, call, args, joins>>

LeftKeys == Waiting("object") /\ Top.l < Top.lEnd
RightKeys == Waiting("object") /\ Top.r < Top.rEnd
SharedKey == LeftKeys /\ RightKeys /\ fieldKeys[Top.l] = fieldKeys[Top.r]

\* Mutant: the keys left over after the common part are dropped.
LeftFirstInBoth == LeftKeys /\ RightKeys /\ fieldKeys[Top.l] < fieldKeys[Top.r]

LeftFirst == LeftKeys /\ (RightKeys => fieldKeys[Top.l] < fieldKeys[Top.r])
RightFirst == RightKeys /\ (LeftKeys => fieldKeys[Top.r] < fieldKeys[Top.l])

\* A key of both: join the types first ...
MergeShared ==
  /\ SharedKey /\ answer = NoNode
  /\ call' = <<fieldTypes[Top.l], fieldTypes[Top.r]>>
  /\ UNCHANGED <<parents, nodeShape, fieldTable, building, frames, answer, args, joins>>

Emit(key, node, presence) ==
  /\ MayAppend(Top.out, key)
  /\ StoreField(Top.out, key, Find(node), presence)
  /\ parents' = Compressed({node})

Advance(byLeft, byRight) ==
  frames' = [frames EXCEPT ![Len(frames)].l = @ + byLeft, ![Len(frames)].r = @ + byRight]

\* Mutant: required when either is.
EitherRequired ==
  fieldPresence[Top.l] = "Required" \/ fieldPresence[Top.r] = "Required"

BothRequired ==
  fieldPresence[Top.l] = "Required" /\ fieldPresence[Top.r] = "Required"

\* ... and then append the joined field, required when both are.
EmitShared ==
  /\ SharedKey /\ answer # NoNode
  /\ Emit(fieldKeys[Top.l], answer, IF BothRequired THEN "Required" ELSE "Optional")
  /\ Advance(1, 1)
  /\ answer' = NoNode
  /\ UNCHANGED <<building, call, args, joins>>

DriftPresence(slot) == "Optional"

\* A key of one operand only becomes optional.
EmitDrift ==
  /\ answer = NoNode
  /\ \/ /\ LeftFirst
        /\ Emit(fieldKeys[Top.l], fieldTypes[Top.l], DriftPresence(Top.l))
        /\ Advance(1, 0)
     \/ /\ RightFirst
        /\ Emit(fieldKeys[Top.r], fieldTypes[Top.r], DriftPresence(Top.r))
        /\ Advance(0, 1)
  /\ UNCHANGED <<building, call, answer, args, joins>>

FinishObject ==
  /\ Waiting("object") /\ answer = NoNode /\ ~LeftKeys /\ ~RightKeys
  /\ answer' = Top.out
  /\ frames' = Popped
  /\ UNCHANGED <<parents, nodeShape, fieldTable, building, call, args, joins>>

\* The field the merge is about to append, if any, has no room.
AppendFails ==
  \/ SharedKey /\ answer # NoNode /\ ~MayAppend(Top.out, fieldKeys[Top.l])
  \/ answer = NoNode /\ LeftFirst /\ ~MayAppend(Top.out, fieldKeys[Top.l])
  \/ answer = NoNode /\ RightFirst /\ ~MayAppend(Top.out, fieldKeys[Top.r])

AllocFails ==
  /\ ~HasRoom
  /\ \/ Joining /\ kinds[L] = "Object" /\ kinds[R] = "Object"
     \/ NeedsUnion
     \/ Waiting("array") /\ answer # NoNode

\* A RangeError leaves principalJoin; nodes and fields made so far stay.
Abort ==
  /\ AppendFails \/ AllocFails
  /\ parents' = Compressed(IF call # NoCall THEN {call[1], call[2]}
                            ELSE IF Top.op = "array" THEN {answer} ELSE {})
  /\ call' = NoCall /\ frames' = <<>> /\ answer' = NoNode /\ args' = NoCall
  /\ UNCHANGED <<nodeShape, fieldTable, building, joins>>

ReturnJoin ==
  /\ call = NoCall /\ frames = <<>> /\ answer # NoNode
  /\ answer' = NoNode /\ args' = NoCall
  /\ UNCHANGED <<parents, nodeShape, fieldTable, building, call, frames, joins>>

Caller == AllocVar \/ AllocArray \/ AllocObject \/ AppendField \/ Close
          \/ Lookup \/ Reset \/ Load \/ BeginJoin
JoinStep == JoinAbsorbed \/ BindVar \/ LinkSameKind \/ JoinArrays \/ JoinObjects
            \/ AllocUnion \/ WrapArray \/ MergeShared \/ EmitShared \/ EmitDrift
            \/ FinishObject \/ Abort \/ ReturnJoin

Next == Caller \/ JoinStep

Spec == Init /\ [][Next]_vars
\* principalJoin is one synchronous call: it runs until it returns or throws.
FairSpec == Spec /\ WF_vars(JoinStep)
=============================================================================
