-------------------------- MODULE SchemaPredicate --------------------------
(***************************************************************************)
(* The synchronous predicate is(): executeSchemaPredicateWithState         *)
(* (src/plan/predicate.ts) over a validation state                         *)
(* (src/evaluate/state.ts), as a stack machine.                            *)
(*                                                                         *)
(* A frame of the stack is one activation of the predicate: its schema and *)
(* value, whether enterValidation was called for it, and how far the       *)
(* kernel got through the items of that (schema, value).  The (value,      *)
(* schema) pairs on the stack are the recursion guard: a pair met again    *)
(* answers TRUE, and an exhausted depth budget answers FALSE.              *)
(***************************************************************************)
EXTENDS SchemaDenotation

CONSTANTS
  Heap,      \* [Value -> reflection record]; user code does not mutate it here
  Roots,     \* the (schema, value) arguments is() may be called with
  MaxDepth   \* DEFAULT_MAX_VALIDATION_DEPTH, 256 in the code

ASSUME HeapAssumption == \A v \in Value : Reflects(Heap[v])
ASSUME MaxDepthAssumption == MaxDepth \in Nat
ASSUME RootsAssumption == Roots \subseteq Schema \X Value

VARIABLES
  root,      \* the argument of this is() call
  request,   \* the predicate call about to be made, or NoRequest
  result,    \* what the last call or check answered: "none", "accept", "reject"
  stack,     \* activations, innermost last
  active,    \* state.active: pairs under validation
  depth,     \* state.depth
  starved    \* some call was answered by the depth budget

vars == <<root, request, result, stack, active, depth, starved>>

NoRequest == <<>>
Frame == [schema : Schema, value : Value, entered : BOOLEAN,
          next : Nat \ {0}, matches : Nat]

Init ==
  /\ root \in Roots
  /\ request = root
  /\ result = "none"
  /\ stack = <<>>
  /\ active = {}
  /\ depth = 0
  /\ starved = FALSE

-----------------------------------------------------------------------------
(* enterValidation                                                         *)

Tracked(s) == s \in RequiresTracking
\* Mutant: the guard forgets the schema of a pair.
IsCycleByValue(p) ==
  IsRef(Heap, p[2]) /\ \E s \in Schema : <<s, p[2]>> \in active

IsCycle(p) == IsRef(Heap, p[2]) /\ p \in active
IsBudget(p) == ~IsCycle(p) /\ depth >= MaxDepth

Answer(b) == request' = NoRequest /\ result' = IF b THEN "accept" ELSE "reject"

\* The pair is already being validated: assume it holds.
Cycle ==
  /\ request # NoRequest /\ Tracked(request[1]) /\ IsCycle(request)
  /\ Answer(TRUE)
  /\ UNCHANGED <<root, stack, active, depth, starved>>

\* Too deep: reject.
Budget ==
  /\ request # NoRequest /\ Tracked(request[1]) /\ IsBudget(request)
  /\ Answer(FALSE)
  /\ starved' = TRUE
  /\ UNCHANGED <<root, stack, active, depth>>

Push(entered) ==
  /\ stack' = Append(stack, [schema |-> request[1], value |-> request[2],
                             entered |-> entered, next |-> 1, matches |-> 0])
  /\ request' = NoRequest
  /\ UNCHANGED <<root, result, starved>>

Enter ==
  /\ request # NoRequest /\ Tracked(request[1])
  /\ ~IsCycle(request) /\ ~IsBudget(request)
  /\ depth' = depth + 1
  /\ active' = IF IsRef(Heap, request[2]) THEN active \cup {request} ELSE active
  /\ Push(TRUE)

\* A schema that reaches no lazy node runs without the guard.
RunUntracked ==
  /\ request # NoRequest /\ ~Tracked(request[1])
  /\ Push(FALSE)
  /\ UNCHANGED <<active, depth>>

-----------------------------------------------------------------------------
(* The kernel's loop in the innermost activation                           *)

Top == stack[Len(stack)]
TopItems == Items(Heap, Top.schema, Top.value)

LeaveWith(b, newDepth, newActive) ==
  /\ stack' = SubSeq(stack, 1, Len(stack) - 1)
  /\ depth' = newDepth
  /\ active' = newActive
  /\ Answer(b)
  /\ UNCHANGED <<root, starved>>

\* Mutant: leaving keeps the pair.
ReturnKeepingPair(b) ==
  LeaveWith(b, IF Top.entered THEN depth - 1 ELSE depth, active)

\* leaveValidation, then return b to the caller.
Return(b) ==
  LeaveWith(b,
    IF Top.entered THEN depth - 1 ELSE depth,
    IF Top.entered /\ IsRef(Heap, Top.value)
      THEN active \ {<<Top.schema, Top.value>>} ELSE active)

\* Begin the next item: a local check answers at once, a child is requested.
NextItem ==
  /\ request = NoRequest /\ result = "none" /\ stack # <<>>
  /\ Top.next <= Len(TopItems)
  /\ LET item == TopItems[Top.next] IN
       IF item.call THEN request' = <<item.schema, item.value>> /\ UNCHANGED result
                    ELSE Answer(item.ok)
  /\ UNCHANGED <<root, stack, active, depth, starved>>

\* The answers that end the loop early, and what the activation then returns.
Decides(b) ==
  CASE Combine(Top.schema) = "all" -> ~b
    [] Combine(Top.schema) = "any" -> b
    [] Combine(Top.schema) = "one" -> b /\ Top.matches = 1

Verdict ==
  CASE Combine(Top.schema) = "all" -> FALSE
    [] Combine(Top.schema) = "any" -> TRUE
    [] Combine(Top.schema) = "one" -> FALSE

Advance(frame, accepted) ==
  [frame EXCEPT !.next = @ + 1, !.matches = IF accepted THEN @ + 1 ELSE @]

Absorb ==
  /\ request = NoRequest /\ result # "none" /\ stack # <<>>
  /\ IF Decides(result = "accept") THEN Return(Verdict)
     ELSE /\ stack' = [stack EXCEPT ![Len(stack)] = Advance(@, result = "accept")]
          /\ result' = "none"
          /\ UNCHANGED <<root, request, active, depth, starved>>

Exhausted ==
  CASE Combine(Top.schema) = "all" -> TRUE
    [] Combine(Top.schema) = "any" -> FALSE
    [] Combine(Top.schema) = "one" -> Top.matches = 1

Finish ==
  /\ request = NoRequest /\ result = "none" /\ stack # <<>>
  /\ Top.next > Len(TopItems)
  /\ Return(Exhausted)

Next == Cycle \/ Budget \/ Enter \/ RunUntracked \/ NextItem \/ Absorb \/ Finish

Spec == Init /\ [][Next]_vars

Done == request = NoRequest /\ stack = <<>> /\ result # "none"

-----------------------------------------------------------------------------
(* Properties                                                              *)

TypeOK ==
  /\ root \in Roots
  /\ request \in Pairs \cup {NoRequest}
  /\ result \in {"none", "accept", "reject"}
  /\ stack \in Seq(Frame)
  /\ active \in SUBSET Pairs
  /\ depth \in Nat
  /\ starved \in BOOLEAN

EnteredFrames == {i \in DOMAIN stack : stack[i].entered}
GuardedFrames == {i \in EnteredFrames : IsRef(Heap, stack[i].value)}
PairOf(frame) == <<frame.schema, frame.value>>

\* The recursion guard holds exactly the pairs of the live activations that
\* entered with a reference value, each once: whichever way an activation
\* ends, its pair goes, and no activation removes the pair of another.
ActiveMatchesStack ==
  /\ active = {PairOf(stack[i]) : i \in GuardedFrames}
  /\ \A i, j \in GuardedFrames : PairOf(stack[i]) = PairOf(stack[j]) => i = j

\* The depth counter counts the entered activations and never passes the
\* budget, so a finished call leaves a clean state behind.
DepthMatchesStack ==
  /\ depth = Cardinality(EnteredFrames)
  /\ depth <= MaxDepth

\* Schemas the tracking analysis clears run without guard and depth counter
\* (src/plan/predicate.ts:72), also where the analysis overlooks recursion, as it does
\* with the catchall of an object: a walk comes back to an unguarded pair only through
\* a guarded one, which does not let it come back a second time.
UnguardedOnlyBelowGuard ==
  \A i, j \in DOMAIN stack :
    i < j /\ PairOf(stack[i]) = PairOf(stack[j]) => \E k \in (i + 1)..j : stack[k].entered

-----------------------------------------------------------------------------
(* What is() is worth.  For schemas without xor the walk with its recursion *)
(* guard must decide exactly the denotation of the schema graph, on cyclic  *)
(* values too, unless the depth budget cuts it short, which may only reject.*)

\* is() accepts only what the schema denotes.
Sound == Done /\ result = "accept" => root \in GreatestFixpoint(Heap, Pairs, {})

\* is() accepts everything the schema denotes, when no call ran out of depth.
Complete == Done /\ ~starved /\ result = "reject" => root \notin GreatestFixpoint(Heap, Pairs, {})

\* Both, for schema graphs without xor: the recursion guard, which answers
\* "accept" for a pair already on the stack, and its removal of pairs on the
\* way out make is() decide the greatest fixpoint, and an exhausted budget
\* only ever rejects.
VerdictExact == XorFree => Sound /\ Complete

\* The denotation on this heap, a constant.
Denoted == Denotation(Heap)

\* Soundness and completeness of is() for every schema that reaches no xor, against
\* the iterated denotation.
VerdictMatchesDenotation ==
  Done /\ root[1] \notin ReachesXor =>
    /\ result = "accept" => root \in Denoted
    /\ result = "reject" /\ ~starved => root \notin Denoted

\* An array hole that is skipped (src/schema/undefined.ts:35) is one
\* whose validation as undefined would have succeeded.
HolesStandForUndefined ==
  LET n == Node[root[1]]
      slots == Heap[root[2]].slots IN
  Done /\ result = "accept" /\ n.tag = "Array" /\ n.item \notin ReachesXor =>
    \A i \in DOMAIN slots : slots[i] = Missing => <<n.item, Undefined>> \in Denoted

\* A strict object that counts its keys (src/plan/schema-predicate.ts:1151) accepts no
\* more than one that looks every own key up, whether enumeration shows the key or not.
StrictMeansDeclared ==
  LET n == Node[root[1]]
      keys == OwnKeys(Heap, root[2]) IN
  Done /\ result = "accept" /\ n.tag = "Object" /\ n.strict /\ n.catchall = NoSchema =>
    \A i \in DOMAIN keys : keys[i] \in EntryKeys(n)

\* The static shortcuts of the kernel agree with what they replace, said not by the
\* items they are part of but by the denotation and the own keys of the value.
ShortcutsAgree == HolesStandForUndefined /\ StrictMeansDeclared
=============================================================================
