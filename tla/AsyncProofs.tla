---------------------------- MODULE AsyncProofs ----------------------------
(***************************************************************************)
(* Proofs about the cooperative calls, for any number of them, any schema  *)
(* graph and heap, and any assignments of the caller.                      *)
(***************************************************************************)
EXTENDS AsyncValidation, SchemaDenotationProofs

-----------------------------------------------------------------------------
(* The inductive type invariant                                             *)

\* The activations of a stack that entered.
EnteredOf(q) == {k \in 1..Len(q) : q[k].entered}

\* The depth of a call counts the activations that entered; a burst is at most the
\* steps counted since the last multiple of YieldEvery.
CallOK(x) ==
  /\ x \in Run
  /\ x.depth = Cardinality(EnteredOf(x.stack))
  /\ x.burst <= x.steps
  /\ x.phase = "idle" => x = Idle
  /\ x.phase # "idle" => x.root \in Pairs

\* Assignments write data over data: reflection stays well formed.
HeapOK(h) ==
  /\ DOMAIN h = Value
  /\ \A v \in Value :
       /\ Reflects(h[v])
       /\ DOMAIN h[v] = {"kind", "keys", "enum", "own", "slots", "items"}
       /\ DOMAIN h[v].own = DOMAIN Heap[v].own

AsyncInv ==
  /\ HeapOK(heap) /\ writes \in 0..MaxWrites
  /\ DOMAIN run = Task /\ run = [t \in Task |-> run[t]]
  /\ \A t \in Task : CallOK(run[t])

LEMMA IdleOK == CallOK(Idle)
<1>1. Idle \in Run
  BY AsyncAssumption DEF Idle, Run, NoRequest
<1>2. EnteredOf(<<>>) = {} /\ Cardinality(EnteredOf(<<>>)) = 0
  BY FS_EmptySet DEF EnteredOf
<1> QED
  BY <1>1, <1>2 DEF Idle, CallOK

\* The count of entered activations: a push, a pop, and a change that leaves the
\* entries alone.
LEMMA EnteredFinite ==
  ASSUME NEW q \in Seq(Activation)
  PROVE  IsFiniteSet(EnteredOf(q)) /\ Cardinality(EnteredOf(q)) \in Nat
<1>1. IsFiniteSet(1..Len(q))
  BY FS_Interval
<1>2. EnteredOf(q) \subseteq 1..Len(q)
  BY DEF EnteredOf
<1> QED
  BY <1>1, <1>2, FS_Subset, FS_CardinalityType

LEMMA EnteredPush ==
  ASSUME NEW q \in Seq(Activation), NEW f \in Activation
  PROVE  Cardinality(EnteredOf(Append(q, f)))
           = IF f.entered THEN Cardinality(EnteredOf(q)) + 1 ELSE Cardinality(EnteredOf(q))
<1> DEFINE n == Len(q) + 1
           t == Append(q, f)
<1>1. n \in Nat /\ Len(t) = n /\ 1..n = 1..Len(q) \cup {n} /\ n \notin 1..Len(q)
      /\ t[n] = f /\ \A k \in 1..Len(q) : t[k] = q[k]
  OBVIOUS
<1> HIDE DEF t, n
<1>2. EnteredOf(t) = IF f.entered THEN EnteredOf(q) \cup {n} ELSE EnteredOf(q)
  BY <1>1 DEF EnteredOf
<1>3. n \notin EnteredOf(q)
  BY <1>1 DEF EnteredOf
<1>4. Cardinality(EnteredOf(q) \cup {n}) = Cardinality(EnteredOf(q)) + 1
  BY <1>3, EnteredFinite, FS_AddElement
<1> QED
  BY <1>2, <1>4 DEF t

LEMMA EnteredPop ==
  ASSUME NEW q \in Seq(Activation), NEW t \in Seq(Activation), Len(q) > 0,
         Len(t) = Len(q) - 1, \A k \in 1..(Len(q) - 1) : t[k] = q[k]
  PROVE  /\ Cardinality(EnteredOf(t)) \in Nat
         /\ Cardinality(EnteredOf(t))
              = IF q[Len(q)].entered THEN Cardinality(EnteredOf(q)) - 1
                                     ELSE Cardinality(EnteredOf(q))
<1> DEFINE n == Len(q)
<1>1. n \in Nat \ {0} /\ 1..n = 1..(n - 1) \cup {n} /\ n \notin 1..(n - 1)
      /\ Len(t) = n - 1 /\ \A k \in 1..(n - 1) : t[k] = q[k]
  OBVIOUS
<1>2. EnteredOf(q) = EnteredOf(t) \cup (IF q[n].entered THEN {n} ELSE {})
  <2> HIDE DEF n
  <2> SUFFICES EnteredOf(q) = {k \in 1..(n - 1) : q[k].entered} \cup (IF q[n].entered THEN {n} ELSE {})
    BY <1>1 DEF EnteredOf
  <2> QED
    BY <1>1 DEF EnteredOf, n
<1>3. n \notin EnteredOf(t)
  BY <1>1 DEF EnteredOf
<1>4. IsFiniteSet(EnteredOf(t)) /\ Cardinality(EnteredOf(t)) \in Nat
  BY EnteredFinite
<1>5. Cardinality(EnteredOf(t) \cup {n}) = Cardinality(EnteredOf(t)) + 1
  BY <1>3, <1>4, FS_AddElement
<1> HIDE DEF n
<1>6. CASE q[n].entered
  <2>1. EnteredOf(q) = EnteredOf(t) \cup {n}
    BY <1>2, <1>6
  <2> QED
    BY <2>1, <1>4, <1>5, <1>6 DEF n
<1>7. CASE ~q[n].entered
  <2>1. EnteredOf(q) = EnteredOf(t)
    BY <1>2, <1>7
  <2> QED
    BY <2>1, <1>4, <1>7 DEF n
<1> QED
  BY <1>6, <1>7

LEMMA EnteredSame ==
  ASSUME NEW q, NEW t, Len(t) = Len(q), \A k \in 1..Len(q) : t[k].entered = q[k].entered
  PROVE  EnteredOf(t) = EnteredOf(q)
  BY DEF EnteredOf

LEMMA InitAsync == Init => AsyncInv
  BY IdleOK, AsyncAssumption, HeapAssumption DEF Init, AsyncInv, HeapOK

LEMMA YieldOK ==
  ASSUME AsyncInv, NEW t \in Task, MaybeYield(t)
  PROVE  CallOK(run'[t])
<1> DEFINE x == run[t]
           steps == (x.steps + 1) % YieldEvery
<1>1. PICK late \in BOOLEAN :
        run' = [run EXCEPT ![t].visited = TRUE, ![t].steps = steps,
                 ![t].phase = IF SliceOver(steps, late) THEN "parked" ELSE "ready",
                 ![t].burst = IF SliceOver(steps, late) THEN 0 ELSE @ + 1]
  BY DEF MaybeYield
<1>2. run'[t] = [x EXCEPT !.visited = TRUE, !.steps = steps,
                   !.phase = IF SliceOver(steps, late) THEN "parked" ELSE "ready",
                   !.burst = IF SliceOver(steps, late) THEN 0 ELSE @ + 1]
  BY <1>1 DEF AsyncInv
<1>3. x \in Run /\ x.phase # "idle" /\ x.burst <= x.steps /\ x.root \in Pairs
      /\ x.depth = Cardinality(EnteredOf(x.stack))
  BY DEF AsyncInv, CallOK, MaybeYield
<1>4. steps \in 0..(YieldEvery - 1) /\ (~SliceOver(steps, late) => x.burst + 1 <= steps)
  <2>1. x.steps \in 0..(YieldEvery - 1) /\ x.burst \in Nat /\ YieldEvery \in Nat \ {0}
    BY <1>3, AsyncAssumption DEF Run
  <2>2. x.steps + 1 = YieldEvery => steps = 0
    BY <2>1
  <2>3. x.steps + 1 < YieldEvery => steps = x.steps + 1
    BY <2>1
  <2>4. steps = 0 => SliceOver(steps, late)
    BY <2>1 DEF SliceOver
  <2> QED
    BY SMTT(30), <2>1, <2>2, <2>3, <2>4, <1>3
<1>a. /\ (IF SliceOver(steps, late) THEN 0 ELSE x.burst + 1) \in Nat
      /\ (IF SliceOver(steps, late) THEN "parked" ELSE "ready") \in {"parked", "ready"}
  BY <1>3 DEF Run
<1> HIDE DEF steps, x
<1>5. run'[t] \in Run
  BY ZenonT(40), <1>2, <1>3, <1>4, <1>a DEF Run
<1> QED
  BY <1>2, <1>3, <1>4, <1>5 DEF CallOK, Run

\* The innermost activation of a call.
LEMMA TopCall ==
  ASSUME AsyncInv, NEW t \in Task, run[t].stack # <<>>
  PROVE  /\ Top(t) \in Activation /\ Top(t) = run[t].stack[Len(run[t].stack)]
         /\ Len(run[t].stack) \in Nat \ {0}
<1>1. run[t].stack \in Seq(Activation)
  BY DEF AsyncInv, CallOK, Run
<1>2. Len(run[t].stack) \in Nat \ {0}
  BY <1>1
<1> QED
  BY <1>1, <1>2, ElementOfSeq DEF Top

\* What a call does next is typed, whatever the heap has become.
LEMMA CurrentItemType ==
  ASSUME Reflected(heap), NEW t, NEW f \in Activation, f.next <= Len(KernelItems(t, f))
  PROVE  CurrentItem(t, f) \in Item
<1> DEFINE n == Node[f.schema]
<1>1. f.schema \in Schema /\ f.value \in Value /\ f.next \in Nat \ {0}
      /\ f.held \in SlotContent /\ WellFormed(n)
  BY GraphAssumption DEF Activation
<1>t. \A s \in Schema : Call(s, f.value) \in Item
  BY <1>1 DEF Call, Item
<1>c. \A b \in BOOLEAN : Check(b) \in Item
  BY GraphAssumption DEF Check, Item
<1>2. CASE n.tag = "Refine" /\ ~Checking(t)
  <2>1. n.inner \in Schema
    BY <1>1, <1>2 DEF WellFormed
  <2>2. KernelItems(t, f) = <<Call(n.inner, f.value), Check(f.value \in n.predicate)>>
    BY <1>2 DEF KernelItems
  <2>3. CurrentItem(t, f) = KernelItems(t, f)[f.next] /\ f.next \in {1, 2}
    BY <2>2, <1>1, <1>2 DEF CurrentItem
  <2> QED
    <3>1. Call(n.inner, f.value) \in Item
      BY <2>1, <1>t
    <3>2. Check(f.value \in n.predicate) \in Item
      BY GraphAssumption DEF Check, Item
    <3> QED
      BY <2>2, <2>3, <3>1, <3>2
<1>3. CASE n.tag = "Record" /\ f.next % 2 = 0
  <2>1. n.value \in Schema
    BY <1>1, <1>3 DEF WellFormed
  <2>2. CurrentItem(t, f) = DataItem(n.value, f.held)
    BY <1>3 DEF CurrentItem
  <2>3. IsData(f.held) => Call(n.value, f.held) \in Item
    BY <1>1, <2>1 DEF Call, Item, IsData, SlotContent
  <2> QED
    BY <2>2, <2>3, <1>c DEF DataItem
<1>4. CASE ~(n.tag = "Refine" /\ ~Checking(t)) /\ ~(n.tag = "Record" /\ f.next % 2 = 0)
  <2>1. CurrentItem(t, f) = Items(heap, f.schema, f.value)[f.next]
        /\ KernelItems(t, f) = Items(heap, f.schema, f.value)
    BY <1>4 DEF CurrentItem, KernelItems
  <2>2. Items(heap, f.schema, f.value) \in Seq(Within(Callees(f.schema)))
    BY <1>1, ItemsType DEF Reflected
  <2>3. f.next \in 1..Len(Items(heap, f.schema, f.value))
    BY <2>1, <2>2, <1>1
  <2>4. CurrentItem(t, f) \in Within(Callees(f.schema))
    BY <2>1, <2>2, <2>3, ElementOfSeq
  <2> QED
    BY <2>4 DEF Within
<1> QED
  BY <1>2, <1>3, <1>4

\* What a return leaves of a stack.
LEMMA Popped ==
  ASSUME NEW q \in Seq(Activation), Len(q) > 0
  PROVE  /\ SubSeq(q, 1, Len(q) - 1) \in Seq(Activation)
         /\ Len(SubSeq(q, 1, Len(q) - 1)) = Len(q) - 1
         /\ \A i \in 1..(Len(q) - 1) : SubSeq(q, 1, Len(q) - 1)[i] = q[i]
<1> DEFINE n == Len(q) - 1
           rest == SubSeq(q, 1, n)
<1>1. n \in Nat /\ \A i \in 1..n : q[i] \in Activation
  BY ElementOfSeq
<1> HIDE DEF n
<1>2. rest \in Seq(Activation)
  BY <1>1, SubSeqProperties
<1>3. Len(rest) = IF 1 <= n THEN n - 1 + 1 ELSE 0
  BY <1>1, SubSeqProperties
<1>4. \A i \in 1..(n - 1 + 1) : rest[i] = q[1 + i - 1]
  BY <1>1, SubSeqProperties
<1> HIDE DEF rest
<1>5. Len(rest) = n /\ \A i \in 1..n : rest[i] = q[i]
  BY <1>1, <1>3, <1>4
<1> QED
  BY <1>2, <1>5 DEF rest, n

-----------------------------------------------------------------------------
(* Every action keeps the call that takes it well formed                    *)

LEMMA BeginOK ==
  ASSUME AsyncInv, NEW t \in Task, Begin(t)
  PROVE  CallOK(run'[t])
<1>1. PICK r \in Roots : run' = [run EXCEPT ![t].phase = "ready", ![t].root = r,
                                           ![t].request = r]
  BY DEF Begin
<1>2. run'[t] = [run[t] EXCEPT !.phase = "ready", !.root = r, !.request = r]
  BY <1>1 DEF AsyncInv
<1>3. CallOK(run[t]) /\ r \in Pairs
  BY AsyncAssumption DEF AsyncInv, Pairs
<1>4. run'[t] \in Run
  BY <1>2, <1>3 DEF CallOK, Run
<1> QED
  BY <1>2, <1>3, <1>4 DEF CallOK, Run

LEMMA TurnOK ==
  ASSUME AsyncInv, NEW t \in Task, Turn(t)
  PROVE  CallOK(run'[t])
<1>2. run'[t] = [run[t] EXCEPT !.phase = "ready"]
  BY DEF AsyncInv, Turn
<1>3. CallOK(run[t]) /\ run[t].phase = "parked"
  BY DEF AsyncInv, Turn
<1>4. run'[t] \in Run
  BY <1>2, <1>3 DEF CallOK, Run
<1> QED
  BY <1>2, <1>3, <1>4 DEF CallOK, Run

LEMMA RecheckOK ==
  ASSUME AsyncInv, NEW t \in Task, Recheck(t)
  PROVE  CallOK(run'[t])
<1> DEFINE x == run[t]
<1>1. run'[t] = [x EXCEPT !.phase = "checking", !.request = x.root, !.result = "none",
                   !.active = {}, !.depth = 0, !.starved = FALSE]
  BY DEF AsyncInv, Recheck
<1>2. CallOK(x) /\ x.phase # "idle" /\ x.stack = <<>> /\ 0 \in 0..MaxDepth
  BY AsyncAssumption DEF AsyncInv, Recheck, Walked
<1>3. Cardinality(EnteredOf(<<>>)) = 0
  BY FS_EmptySet DEF EnteredOf
<1> HIDE DEF x
<1>4. run'[t] \in Run
  BY <1>1, <1>2 DEF CallOK, Run
<1> QED
  BY <1>1, <1>2, <1>3, <1>4 DEF CallOK, Run

LEMMA ResolveOK ==
  ASSUME AsyncInv, NEW t \in Task, Resolve(t)
  PROVE  CallOK(run'[t])
<1> DEFINE accepted == run[t].result = "accept"
           outcome == IF Entry[t] = "is" THEN (IF accepted THEN "true" ELSE "false")
                      ELSE (IF accepted THEN "ok" ELSE "error")
<1>1. run' = [run EXCEPT ![t].phase = "done", ![t].outcome = outcome]
  BY DEF Resolve
<1>2. run'[t] = [run[t] EXCEPT !.phase = "done", !.outcome = outcome]
  BY <1>1 DEF AsyncInv
<1>3. CallOK(run[t]) /\ run[t].phase # "idle" /\ outcome \in {"true", "false", "ok", "error"}
  BY DEF AsyncInv, Resolve
<1> HIDE DEF outcome
<1>4. run'[t] \in Run
  BY <1>2, <1>3 DEF CallOK, Run
<1> QED
  BY <1>2, <1>3, <1>4 DEF CallOK, Run

LEMMA CycleOK ==
  ASSUME AsyncInv, NEW t \in Task, Cycle(t)
  PROVE  CallOK(run'[t])
<1>2. run'[t] = [run[t] EXCEPT !.request = NoRequest, !.result = "accept", !.visited = FALSE]
  BY DEF AsyncInv, Cycle
<1>3. CallOK(run[t]) /\ run[t].phase # "idle"
  BY DEF AsyncInv, Cycle, Runs, Checking
<1>4. run'[t] \in Run
  BY <1>2, <1>3 DEF CallOK, Run
<1> QED
  BY <1>2, <1>3, <1>4 DEF CallOK, Run

LEMMA BudgetOK ==
  ASSUME AsyncInv, NEW t \in Task, Budget(t)
  PROVE  CallOK(run'[t])
<1>2. run'[t] = [run[t] EXCEPT !.request = NoRequest, !.result = "reject",
                              !.starved = TRUE, !.visited = FALSE]
  BY DEF AsyncInv, Budget
<1>3. CallOK(run[t]) /\ run[t].phase # "idle"
  BY DEF AsyncInv, Budget, Runs, Checking
<1>4. run'[t] \in Run
  BY <1>2, <1>3 DEF CallOK, Run
<1> QED
  BY <1>2, <1>3, <1>4 DEF CallOK, Run

\* The activation a call pushes.
Pushed(p, entered) == [schema |-> p[1], value |-> p[2], entered |-> entered,
                       next |-> 1, matches |-> 0, held |-> Missing]

LEMMA EnterOK ==
  ASSUME AsyncInv, NEW t \in Task, Enter(t)
  PROVE  CallOK(run'[t])
<1> DEFINE x == run[t]
           p == x.request
           entered == Enters(t, p[1])
           depth == IF entered THEN x.depth + 1 ELSE x.depth
           active == IF entered /\ IsRef(heap, p[2]) THEN x.active \cup {p} ELSE x.active
           q == Append(x.stack, Pushed(p, entered))
<1>1. run' = [run EXCEPT
       ![t].request = NoRequest, ![t].visited = FALSE,
       ![t].depth = IF entered THEN @ + 1 ELSE @,
       ![t].active = IF entered /\ IsRef(heap, p[2]) THEN @ \cup {p} ELSE @,
       ![t].stack = Append(@, Pushed(p, entered))]
  BY DEF Enter, Pushed
<1>2. run'[t] = [x EXCEPT !.request = NoRequest, !.visited = FALSE,
                   !.depth = depth, !.active = active, !.stack = q]
  BY <1>1 DEF AsyncInv
<1>3. CallOK(x) /\ x.phase # "idle" /\ p \in Pairs
      /\ x.depth \in 0..MaxDepth /\ (entered => x.depth < MaxDepth)
  BY AsyncAssumption DEF AsyncInv, Enter, Runs, Checking, TooDeep, CallOK, Run
<1>4. Pushed(p, entered) \in Activation /\ Pushed(p, entered).entered = entered
  <2>1. entered \in BOOLEAN
    BY DEF Enters
  <2> HIDE DEF entered, p
  <2> QED
    BY <2>1, <1>3 DEF Pushed, Activation, Pairs, SlotContent
<1>5. q \in Seq(Activation) /\ depth \in 0..MaxDepth
      /\ depth = Cardinality(EnteredOf(q))
  <2>1. x.stack \in Seq(Activation) /\ x.depth = Cardinality(EnteredOf(x.stack))
    BY <1>3 DEF CallOK, Run
  <2>2. q \in Seq(Activation)
    BY <2>1, <1>4
  <2>3. Cardinality(EnteredOf(q)) = depth
    <3> HIDE DEF x, p, entered
    <3> QED
      BY <2>1, <1>4, EnteredPush
  <2> HIDE DEF x, p, q, entered
  <2> QED
    BY <2>2, <2>3, <1>3, AsyncAssumption
<1>6. active \in SUBSET Pairs
  BY <1>3 DEF CallOK, Run
<1> HIDE DEF q, active, depth, entered, p, x
<1>7. run'[t] \in Run
  BY ZenonT(40), <1>2, <1>3, <1>5, <1>6 DEF CallOK, Run
<1> QED
  BY <1>2, <1>3, <1>5, <1>7 DEF CallOK, Run

LEMMA NextItemOK ==
  ASSUME AsyncInv, NEW t \in Task, NextItem(t)
  PROVE  CallOK(run'[t])
<1> DEFINE x == run[t]
           f == Top(t)
           item == CurrentItem(t, f)
           n == Node[f.schema]
           keys == EnumKeys(heap, f.value)
           held == IF n.tag = "Record" /\ f.next % 2 = 1
                     /\ (f.next + 1) \div 2 <= Len(keys)
                     THEN Slot(heap, f.value, keys[(f.next + 1) \div 2])
                     ELSE f.held
           request == IF item.call THEN <<item.schema, item.value>> ELSE NoRequest
           result == IF item.call THEN "none" ELSE AnswerOf(item.ok)
           q == [x.stack EXCEPT ![Len(x.stack)].held = held]
<1>1. run' = [run EXCEPT ![t].request = request, ![t].result = result,
                ![t].visited = FALSE, ![t].stack[Len(run[t].stack)].held = held]
  BY DEF NextItem
<1>2. run'[t] = [x EXCEPT !.request = request, !.result = result, !.visited = FALSE,
                   !.stack = q]
  BY <1>1 DEF AsyncInv, CallOK, Run
<1>3. CallOK(x) /\ x.phase # "idle" /\ x.stack # <<>> /\ f.next <= Len(KernelItems(t, f))
  BY DEF AsyncInv, NextItem, Runs, Checking, HasItem
<1>4. f \in Activation /\ f = x.stack[Len(x.stack)] /\ Len(x.stack) \in Nat \ {0}
  BY <1>3, TopCall
<1>5. item \in Item
  BY <1>3, <1>4, CurrentItemType DEF AsyncInv, HeapOK, Reflected
<1>6. held \in SlotContent
  BY <1>4, SlotType DEF AsyncInv, HeapOK, Activation
<1> HIDE DEF item, held
<1>7. request \in Pairs \cup {NoRequest} /\ result \in {"none", "accept", "reject"}
  BY <1>5 DEF Item, Pairs, AnswerOf
<1>8. q \in Seq(Activation) /\ EnteredOf(q) = EnteredOf(x.stack)
  <2>1. [f EXCEPT !.held = held] \in Activation
    BY <1>4, <1>6 DEF Activation
  <2>2. x.stack \in Seq(Activation)
    BY <1>3 DEF CallOK, Run
  <2>3. q = [x.stack EXCEPT ![Len(x.stack)] = [f EXCEPT !.held = held]]
    BY <1>4
  <2>4. [f EXCEPT !.held = held].entered = f.entered
    BY <1>4 DEF Activation
  <2> DEFINE g == [f EXCEPT !.held = held]
             n1 == Len(x.stack)
  <2> HIDE DEF g, f, x, q
  <2>5. q \in Seq(Activation) /\ Len(q) = n1 /\ \A k \in 1..n1 : q[k].entered = x.stack[k].entered
    BY <2>1, <2>2, <2>3, <2>4, <1>4 DEF g
  <2> QED
    BY <2>5, EnteredSame
<1> HIDE DEF request, result, q, x
<1>9. run'[t] \in Run
  BY ZenonT(40), <1>2, <1>3, <1>7, <1>8 DEF CallOK, Run
<1> QED
  BY <1>2, <1>3, <1>8, <1>9 DEF CallOK, Run

LEMMA ReturnOK ==
  ASSUME AsyncInv, NEW t \in Task, run[t].phase # "idle", run[t].stack # <<>>,
         NEW b, Return(t, b)
  PROVE  CallOK(run'[t])
<1> DEFINE x == run[t]
           q == SubSeq(x.stack, 1, Len(x.stack) - 1)
           depth == IF Top(t).entered THEN x.depth - 1 ELSE x.depth
           active == IF Top(t).entered THEN x.active \ {<<Top(t).schema, Top(t).value>>}
                     ELSE x.active
           answer == AnswerOf(b)
<1>1. run'[t] = [x EXCEPT !.stack = q, !.depth = depth, !.active = active,
                   !.result = answer]
  BY DEF AsyncInv, Return
<1>2. CallOK(x) /\ x.phase # "idle" /\ x.stack \in Seq(Activation)
      /\ Len(x.stack) \in Nat \ {0} /\ Top(t) = x.stack[Len(x.stack)]
      /\ x.depth = Cardinality(EnteredOf(x.stack)) /\ x.depth \in 0..MaxDepth
  BY TopCall DEF AsyncInv, CallOK, Run
<1>3. q \in Seq(Activation) /\ Len(q) = Len(x.stack) - 1
      /\ \A k \in 1..(Len(x.stack) - 1) : q[k] = x.stack[k]
  BY <1>2, Popped
<1>4. active \in SUBSET Pairs /\ answer \in {"none", "accept", "reject"}
  BY <1>2 DEF CallOK, Run, AnswerOf
<1>5. depth = Cardinality(EnteredOf(q)) /\ depth \in 0..MaxDepth
  <2> HIDE DEF x, q
  <2>1. Cardinality(EnteredOf(q)) \in Nat /\ depth = Cardinality(EnteredOf(q))
    BY SMTT(30), <1>2, <1>3, EnteredPop
  <2> QED
    BY <2>1, <1>2, AsyncAssumption
<1> HIDE DEF q, active, answer, depth, x
<1>6. run'[t] \in Run
  BY ZenonT(40), <1>1, <1>2, <1>3, <1>4, <1>5 DEF CallOK, Run
<1> QED
  BY <1>1, <1>2, <1>3, <1>5, <1>6 DEF CallOK, Run

LEMMA StackOK ==
  ASSUME NEW x, CallOK(x), x.phase # "idle", NEW q \in Seq(Activation),
         EnteredOf(q) = EnteredOf(x.stack)
  PROVE  CallOK([x EXCEPT !.stack = q, !.result = "none"])
<1> DEFINE y == [x EXCEPT !.stack = q, !.result = "none"]
<1>1. y \in Run
  BY DEF CallOK, Run
<1> QED
  BY <1>1 DEF CallOK, Run

LEMMA AdvanceOK ==
  ASSUME AsyncInv, NEW t \in Task, run[t].phase # "idle", run[t].stack # <<>>,
         NEW accepted,
         run' = [run EXCEPT
            ![t].stack[Len(run[t].stack)] = Walk(t)!Advance(@, accepted),
            ![t].result = "none"]
  PROVE  CallOK(run'[t])
<1> DEFINE x == run[t]
           n == Len(x.stack)
           f == x.stack[n]
           g == Walk(t)!Advance(f, accepted)
           q == [x.stack EXCEPT ![n] = g]
<1>1. run'[t] = [x EXCEPT !.stack = q, !.result = "none"]
  BY DEF AsyncInv
<1>2. CallOK(x) /\ x.phase # "idle" /\ x.stack \in Seq(Activation)
      /\ n \in Nat \ {0} /\ f \in Activation
  BY TopCall DEF AsyncInv, CallOK, Run
<1>3. g \in Activation
  <2>1. f \in Activation
    BY <1>2
  <2> HIDE DEF f
  <2>2. f.next + 1 \in Nat \ {0} /\ f.matches \in Nat /\ f.matches + 1 \in Nat
    BY <2>1 DEF Activation
  <2> QED
    BY <2>1, <2>2 DEF Walk!Advance, Activation
<1>4. q \in Seq(Activation) /\ EnteredOf(q) = EnteredOf(x.stack)
  <2>1. g.entered = f.entered
    <3> HIDE DEF f
    <3> QED
      BY <1>2 DEF Walk!Advance, Activation
  <2>2. x.stack \in Seq(Activation) /\ n \in 1..Len(x.stack) /\ n = Len(x.stack)
        /\ f = x.stack[n]
    BY <1>2
  <2> HIDE DEF g, f, x
  <2>3. q \in Seq(Activation) /\ Len(q) = n /\ \A k \in 1..n : q[k].entered = x.stack[k].entered
    BY <2>1, <2>2, <1>3
  <2> QED
    BY <2>2, <2>3, EnteredSame
<1>5. CallOK([x EXCEPT !.stack = q, !.result = "none"])
  BY <1>2, <1>4, StackOK
<1> QED
  BY <1>1, <1>5

LEMMA WorkOK ==
  ASSUME AsyncInv, NEW t \in Task, Work(t)
  PROVE  CallOK(run'[t])
<1>1. CASE MaybeYield(t) \/ Cycle(t) \/ Budget(t) \/ Enter(t) \/ NextItem(t)
            \/ Recheck(t) \/ Resolve(t) \/ Turn(t)
  BY <1>1, RecheckOK, YieldOK, CycleOK, BudgetOK, EnterOK, NextItemOK, ResolveOK, TurnOK
<1>2. CASE Absorb(t)
  <2>1. run[t].phase # "idle" /\ run[t].stack # <<>>
    BY <1>2 DEF Absorb, Runs, Checking
  <2>2. CASE Walk(t)!Decides(run[t].result = "accept")
    BY <1>2, <2>1, <2>2, ReturnOK DEF Absorb
  <2>3. CASE ~Walk(t)!Decides(run[t].result = "accept")
    <3> DEFINE accepted == run[t].result = "accept"
    <3>1. run' = [run EXCEPT
            ![t].stack[Len(run[t].stack)] = Walk(t)!Advance(@, accepted),
            ![t].result = "none"]
      BY <1>2, <2>3 DEF Absorb
    <3> HIDE DEF accepted
    <3> QED
      BY <2>1, <3>1, AdvanceOK
  <2> QED
    BY <2>2, <2>3
<1>3. CASE Finish(t)
  <2>1. run[t].phase # "idle" /\ run[t].stack # <<>> /\ Return(t, Walk(t)!Exhausted)
    BY <1>3 DEF Finish, Runs, Checking
  <2> QED
    BY <2>1, ReturnOK
<1> QED
  BY <1>1, <1>2, <1>3 DEF Work

\* The actions of a call leave the heap and the other calls alone.
LEMMA OneCall ==
  ASSUME AsyncInv, NEW t \in Task, Begin(t) \/ Work(t)
  PROVE  /\ UNCHANGED <<heap, writes>>
         /\ DOMAIN run' = Task /\ run' = [u \in Task |-> run'[u]]
         /\ \A u \in Task \ {t} : run'[u] = run[u]
<1>1. DOMAIN run = Task
  BY DEF AsyncInv
<1>2. CASE Begin(t)
  BY <1>1, <1>2 DEF Begin
<1>3. CASE MaybeYield(t)
  BY <1>1, <1>3 DEF MaybeYield
<1>4. CASE Cycle(t)
  BY <1>1, <1>4 DEF Cycle
<1>5. CASE Budget(t)
  BY <1>1, <1>5 DEF Budget
<1>6. CASE Enter(t)
  <2>1. \E depth, active, q :
          run' = [run EXCEPT ![t].request = NoRequest, ![t].visited = FALSE,
                             ![t].depth = depth, ![t].active = active, ![t].stack = q]
    BY ZenonT(40), <1>1, <1>6 DEF Enter
  <2>2. UNCHANGED <<heap, writes>>
    BY <1>6 DEF Enter
  <2> QED
    BY ZenonT(40), <2>1, <2>2, <1>1
<1>7. CASE NextItem(t)
  <2>1. \E request, result, held :
          run' = [run EXCEPT ![t].request = request, ![t].result = result,
                    ![t].visited = FALSE, ![t].stack[Len(run[t].stack)].held = held]
    BY <1>7 DEF NextItem
  <2>2. UNCHANGED <<heap, writes>>
    BY <1>7 DEF NextItem
  <2> QED
    BY ZenonT(40), <2>1, <2>2, <1>1
<1>8. CASE Absorb(t)
  BY <1>1, <1>8 DEF Absorb, Return
<1>9. CASE Finish(t)
  BY <1>1, <1>9 DEF Finish, Return
<1>10. CASE Resolve(t)
  BY <1>1, <1>10 DEF Resolve
<1>11. CASE Turn(t)
  BY <1>1, <1>11 DEF Turn
<1>12. CASE Recheck(t)
  BY <1>1, <1>12 DEF Recheck
<1> QED
  BY <1>2, <1>3, <1>4, <1>5, <1>6, <1>7, <1>8, <1>9, <1>10, <1>11, <1>12 DEF Work

\* An assignment keeps reflection well formed and the calls where they are.
LEMMA AssignOK ==
  ASSUME AsyncInv, Assign
  PROVE  AsyncInv'
<1>1. PICK w \in Writes : heap' = [heap EXCEPT ![w[1]].own[w[2]] = w[3]]
  BY DEF Assign
<1> DEFINE r == heap[w[1]]
           own == [r.own EXCEPT ![w[2]] = w[3]]
<1>2. w[1] \in Value /\ w[3] \in Value /\ w[2] \in DOMAIN Heap[w[1]].own
  BY AsyncAssumption DEF Slot, IsData
<1>3. HeapOK(heap)
  BY DEF AsyncInv
<1>4. heap' = [heap EXCEPT ![w[1]] = [r EXCEPT !.own = own]]
  BY <1>1, <1>2, <1>3 DEF HeapOK
<1>5. Reflects(r) /\ DOMAIN r = {"kind", "keys", "enum", "own", "slots", "items"}
      /\ DOMAIN own = DOMAIN r.own /\ DOMAIN r.own = DOMAIN Heap[w[1]].own
  BY <1>2, <1>3 DEF HeapOK
<1>6. \A k \in DOMAIN own : k \in Key /\ own[k] \in SlotContent
  BY <1>2, <1>5 DEF Reflects, SlotContent
<1> HIDE DEF own
<1>7. Reflects([r EXCEPT !.own = own])
  BY <1>5, <1>6 DEF Reflects
<1>8. HeapOK(heap')
  BY <1>2, <1>3, <1>4, <1>5, <1>7 DEF HeapOK
<1>9. writes' \in 0..MaxWrites
  BY AsyncAssumption DEF AsyncInv, Assign
<1>10. run' = [t \in Task |->
                IF run[t].phase \in {"ready", "parked"}
                  THEN [run[t] EXCEPT !.quiet = FALSE] ELSE run[t]]
  BY DEF Assign
<1>11. \A t \in Task : CallOK(run'[t])
  <2> TAKE t \in Task
  <2>1. CallOK(run[t])
    BY DEF AsyncInv
  <2>2. CASE run[t].phase \in {"ready", "parked"}
    <3>1. run'[t] = [run[t] EXCEPT !.quiet = FALSE]
      BY <1>10, <2>2
    <3>2. run'[t] \in Run
      BY <2>1, <3>1 DEF CallOK, Run
    <3> QED
      BY <2>1, <2>2, <3>1, <3>2 DEF CallOK, Run
  <2>3. CASE run[t].phase \notin {"ready", "parked"}
    BY <1>10, <2>1, <2>3
  <2> QED
    BY <2>2, <2>3
<1> QED
  BY <1>8, <1>9, <1>10, <1>11 DEF AsyncInv

LEMMA NextAsync == AsyncInv /\ [Next]_vars => AsyncInv'
<1> SUFFICES ASSUME AsyncInv, [Next]_vars
             PROVE  AsyncInv'
  OBVIOUS
<1>1. CASE Assign
  BY <1>1, AssignOK
<1>2. ASSUME NEW t \in Task, Begin(t) \/ Work(t)
      PROVE  AsyncInv'
  <2>1. CallOK(run'[t])
    BY <1>2, BeginOK, WorkOK
  <2>2. /\ heap' = heap /\ writes' = writes
        /\ DOMAIN run' = Task /\ run' = [u \in Task |-> run'[u]]
        /\ \A u \in Task \ {t} : run'[u] = run[u]
    BY <1>2, OneCall
  <2>3. \A u \in Task : CallOK(run'[u])
    BY <2>1, <2>2 DEF AsyncInv
  <2> QED
    BY <2>2, <2>3 DEF AsyncInv
<1>3. CASE UNCHANGED vars
  BY <1>3 DEF vars, AsyncInv
<1> QED
  BY <1>1, <1>2, <1>3 DEF Next

LEMMA AsyncAlways == Spec => []AsyncInv
  BY InitAsync, NextAsync, PTL DEF Spec

\* Whatever the calls, their interleaving and the caller's assignments, every state
\* is well typed: no call asks for a schema outside the graph, and none goes deeper
\* than the budget or below zero.
THEOREM AsyncTypes == Spec => []TypeOK
<1>1. AsyncInv => TypeOK
  BY DEF AsyncInv, HeapOK, CallOK, TypeOK
<1> QED
  BY <1>1, AsyncAlways, PTL

\* No call makes more than yieldEvery visits without handing the thread back.
THEOREM BurstsAreBounded == Spec => []BurstBounded
<1>1. AsyncInv => BurstBounded
  BY AsyncAssumption DEF AsyncInv, CallOK, Run, BurstBounded
<1> QED
  BY <1>1, AsyncAlways, PTL

-----------------------------------------------------------------------------
(* A call during which the heap stays as it is performs a walk              *)

\* Frame k has begun its current item.
Begun(x, k) ==
  \/ k < Len(x.stack) \/ x.request # NoRequest \/ x.result # "none"
  \/ x.stack[k].next % 2 = 0

\* The slot a record frame reads with the key of its current item.
HeldSlot(h, f) == Slot(h, f.value, EnumKeys(h, f.value)[(f.next + 1) \div 2])

\* A record frame that began an item holds that slot.
HeldOK(h, x, k) ==
  /\ Node[x.stack[k].schema].tag = "Record" /\ Begun(x, k)
  /\ (x.stack[k].next + 1) \div 2 <= Len(EnumKeys(h, x.stack[k].value))
  => x.stack[k].held = HeldSlot(h, x.stack[k])

\* The schemas a call enters, by its phase, and a frame that did as they say.
EntersIn(phase, s) == phase = "checking" => s \in RequiresTracking
EntersRight(phase, f) == f.entered = EntersIn(phase, f.schema)
SameWalker(x, y) == (y.phase = "checking") = (x.phase = "checking")

\* The call is a walk whose active pairs are its hypotheses.
WalkOK(h, x) ==
  /\ WalkInv(h, Schema, x.root, x.stack, ~x.starved, x.request, x.result)
  /\ x.active = Assumed(h, x.stack, Len(x.stack))
  /\ \A k \in 1..Len(x.stack) : EntersRight(x.phase, x.stack[k]) /\ HeldOK(h, x, k)

\* Two stacks that differ in what their frames hold and count only.
SameActivations(q, t) ==
  /\ Len(t) = Len(q)
  /\ \A i \in 1..Len(q) : /\ t[i].schema = q[i].schema /\ t[i].value = q[i].value
                          /\ t[i].entered = q[i].entered /\ t[i].next = q[i].next

\* What the walk knows does not depend on what frames hold.
LEMMA SameWalk ==
  ASSUME NEW h, NEW X, NEW r, NEW q, NEW exact, NEW req, NEW ans,
         WalkInv(h, X, r, q, exact, req, ans), NEW t, SameActivations(q, t)
  PROVE  /\ WalkInv(h, X, r, t, exact, req, ans)
         /\ Assumed(h, t, Len(t)) = Assumed(h, q, Len(q))
<1> DEFINE n == Len(q)
<1>1. n \in Nat /\ Len(t) = n /\ r \in PairsOf(X)
      /\ (\A i \in 1..n : FramePair(t[i]) = FramePair(q[i]) /\ Guards(h, t[i]) = Guards(h, q[i])
                            /\ ItemsOf(h, t[i]) = ItemsOf(h, q[i]) /\ t[i].next = q[i].next
                            /\ Current(h, t[i]) = Current(h, q[i]) /\ t[i].schema = q[i].schema
                            /\ t[i].value = q[i].value)
      /\ \A k \in 1..n : FrameInv(h, X, r, q, exact, k)
  BY DEF WalkInv, SameActivations, FramePair, Guards, ItemsOf, Current
<1>2. /\ req # <<>> => ans = "none" /\ Awaited(h, r, q, n, req)
      /\ req = <<>> /\ ans # "none" => Answered(h, X, r, q, exact, ans)
  BY DEF WalkInv
<1> HIDE DEF n
<1>3. \A k \in 0..n : Assumed(h, t, k) = Assumed(h, q, k)
  <2> TAKE k \in 0..n
  <2>1. k \in Nat /\ \A i \in 1..k : FramePair(t[i]) = FramePair(q[i])
                                       /\ Guards(h, t[i]) = Guards(h, q[i])
    BY <1>1
  <2> QED
    BY <2>1, AssumedAgrees
<1>4. \A k \in 0..n : Holding(h, X, t, k) = Holding(h, X, q, k)
  BY <1>3 DEF Holding
<1>5. \A k \in 0..n : \A p : Awaited(h, r, t, k, p) <=> Awaited(h, r, q, k, p)
  <2> TAKE k \in 0..n
  <2> TAKE p
  <2>1. k = 0 \/ k \in 1..n
    BY <1>1
  <2> QED
    BY <2>1, <1>1 DEF Awaited
<1>6. \A k \in 1..n : FrameInv(h, X, r, t, exact, k)
  <2> TAKE k \in 1..n
  <2>1. k - 1 \in 0..n /\ k \in 0..n
    BY <1>1
  <2>2. FrameInv(h, X, r, q, exact, k)
    BY <1>1
  <2>3. /\ t[k].schema \in X /\ t[k].value \in Value /\ t[k].next \in Nat \ {0}
        /\ FramePair(t[k]) \notin Assumed(h, t, k - 1)
    BY <2>1, <2>2, <1>1, <1>3 DEF FrameInv
  <2>4. Awaited(h, r, t, k - 1, FramePair(t[k]))
    BY <2>1, <2>2, <1>1, <1>5 DEF FrameInv
  <2>5. Progress(h, exact, t[k], Holding(h, X, t, k))
    BY <2>1, <2>2, <1>1, <1>4 DEF FrameInv, Progress
  <2> QED
    BY <2>3, <2>4, <2>5 DEF FrameInv
<1>7. n \in 0..n /\ (n = 0 \/ n \in 1..n)
  BY <1>1
<1>8. Held(h, X, r, t, n) <=> Held(h, X, r, q, n)
  BY <1>1, <1>4, <1>7 DEF Held
<1>9. req # <<>> => Awaited(h, r, t, n, req)
  BY <1>2, <1>5, <1>7
<1>10. req = <<>> /\ ans # "none" => Answered(h, X, r, t, exact, ans)
  BY <1>1, <1>2, <1>7, <1>8 DEF Answered, n
<1> QED
  BY <1>1, <1>2, <1>3, <1>6, <1>7, <1>9, <1>10 DEF WalkInv, n

LEMMA HalfOfNext ==
  ASSUME NEW m \in Nat, NEW k, k = m + 1, k % 2 = 0
  PROVE  (k + 1) \div 2 = (m + 1) \div 2
  OBVIOUS

LEMMA HoldsSlot ==
  ASSUME NEW h, NEW y, NEW k, NEW g, g = y.stack[k],
         /\ Node[g.schema].tag = "Record"
         /\ (g.next + 1) \div 2 <= Len(EnumKeys(h, g.value))
         => g.held = HeldSlot(h, g)
  PROVE  HeldOK(h, y, k)
  BY DEF HeldOK

\* Nothing about the walk changed.
LEMMA WalkStays ==
  ASSUME NEW h, NEW x, NEW y, WalkOK(h, x),
         y.root = x.root, y.stack = x.stack, y.request = x.request, y.result = x.result,
         y.active = x.active, y.starved = x.starved, SameWalker(x, y)
  PROVE  WalkOK(h, y)
<1>1. \A k \in 1..Len(x.stack) : HeldOK(h, x, k) => HeldOK(h, y, k)
  BY DEF HeldOK, Begun
<1>2. \A k \in 1..Len(x.stack) :
        EntersRight(x.phase, x.stack[k]) => EntersRight(y.phase, x.stack[k])
  BY DEF SameWalker, EntersRight, EntersIn
<1> QED
  BY <1>1, <1>2 DEF WalkOK

LEMMA WalkBegins ==
  ASSUME NEW h, NEW y, y.root \in Pairs, y.request = y.root, y.result = "none",
         y.stack = <<>>, y.active = {}
  PROVE  WalkOK(h, y)
<1>1. y.root \in PairsOf(Schema)
  BY DEF Pairs, PairsOf
<1>2. WalkInv(h, Schema, y.root, <<>>, ~y.starved, y.root, "none")
  BY <1>1, WalkStarts
<1>3. Len(y.stack) = 0 /\ Assumed(h, y.stack, 0) = {}
  BY DEF Assumed
<1> QED
  BY <1>2, <1>3 DEF WalkOK

\* The recursion guard or the budget answers the requested call.
LEMMA WalkAnswered ==
  ASSUME NEW h, Reflected(h), Monotone(Schema), NEW x, NEW y, WalkOK(h, x),
         x.request # NoRequest,
         y.root = x.root, y.stack = x.stack, y.active = x.active, y.request = NoRequest,
         SameWalker(x, y),
         \/ y.result = "accept" /\ y.starved = x.starved /\ x.request \in x.active
         \/ y.result = "reject" /\ y.starved = TRUE
  PROVE  WalkOK(h, y)
<1>1. WalkInv(h, Schema, x.root, x.stack, ~x.starved, x.request, x.result)
      /\ x.active = Assumed(h, x.stack, Len(x.stack)) /\ NoRequest = <<>>
  BY DEF WalkOK, NoRequest
<1>2. WalkInv(h, Schema, y.root, y.stack, ~y.starved, y.request, y.result)
  <2>1. CASE y.result = "accept" /\ y.starved = x.starved /\ x.request \in x.active
    <3>1. WalkInv(h, Schema, x.root, x.stack, ~x.starved, <<>>, "accept")
      BY <2>1, <1>1, CycleWalk
    <3> QED
      BY <2>1, <3>1, <1>1
  <2>2. CASE y.result = "reject" /\ y.starved = TRUE
    <3>1. WalkInv(h, Schema, x.root, x.stack, FALSE, <<>>, "reject")
      BY <1>1, BudgetWalk
    <3>2. ~y.starved = FALSE
      BY <2>2
    <3> QED
      BY <2>2, <3>1, <3>2, <1>1
  <2> QED
    BY <2>1, <2>2
<1>3. \A k \in 1..Len(x.stack) : HeldOK(h, x, k) => HeldOK(h, y, k)
  BY DEF HeldOK, Begun
<1>4. \A k \in 1..Len(x.stack) :
        EntersRight(x.phase, x.stack[k]) => EntersRight(y.phase, x.stack[k])
  BY DEF SameWalker, EntersRight, EntersIn
<1> QED
  BY <1>1, <1>2, <1>3, <1>4 DEF WalkOK

\* The requested call starts an activation.
LEMMA WalkEnters ==
  ASSUME NEW h, Reflected(h), Monotone(Schema), NEW x, NEW y, WalkOK(h, x),
         x.stack \in Seq(Activation), x.request # NoRequest,
         x.request \in Pairs, SameWalker(x, y),
         NEW entered, entered = EntersIn(x.phase, x.request[1]),
         ~(entered /\ IsRef(h, x.request[2]) /\ x.request \in x.active),
         y.root = x.root, y.starved = x.starved, y.request = NoRequest, y.result = x.result,
         y.stack = Append(x.stack, Pushed(x.request, entered)),
         y.active = IF entered /\ IsRef(h, x.request[2]) THEN x.active \cup {x.request}
                                                         ELSE x.active
  PROVE  WalkOK(h, y)
<1> DEFINE n == Len(x.stack)
           p == x.request
           f == Pushed(p, entered)
           q == x.stack
           t == y.stack
<1>1. WalkInv(h, Schema, x.root, q, ~x.starved, p, x.result)
      /\ x.active = Assumed(h, q, n) /\ NoRequest = <<>>
      /\ \A k \in 1..n : EntersRight(x.phase, q[k]) /\ HeldOK(h, x, k)
  BY DEF WalkOK, NoRequest
<1>2. n \in Nat /\ Len(t) = n + 1 /\ (\A i \in 1..n : t[i] = q[i]) /\ t[n + 1] = f
  OBVIOUS
<1>3. FramePair(f) = p /\ f.next = 1 /\ f.entered = entered /\ f.schema = p[1]
  BY DEF FramePair, Pushed, Pairs
<1>4. p \notin Assumed(h, q, n)
  <2> SUFFICES ASSUME NEW i \in 1..n, Guards(h, q[i]), FramePair(q[i]) = p
               PROVE  FALSE
    BY DEF Assumed
  <2>1. IsRef(h, p[2]) /\ q[i].entered /\ q[i].schema = p[1]
    BY DEF Guards, FramePair
  <2>3. entered
    BY <2>1, <1>1 DEF EntersRight
  <2>2. p \in Assumed(h, q, n)
    BY DEF Assumed
  <2> QED
    BY <2>1, <2>2, <2>3, <1>1
<1>5. x.result = "none"
  BY <1>1 DEF WalkInv
<1>6. WalkInv(h, Schema, x.root, t, ~x.starved, <<>>, "none")
  <2>1. FramePair(t[Len(t)]) = p /\ t[Len(t)].next = 1 /\ p # <<>>
    BY <1>1, <1>2, <1>3
  <2>2. Len(t) = Len(q) + 1 /\ \A i \in 1..Len(q) : t[i] = q[i]
    BY <1>2
  <2>3. WalkInv(h, Schema, x.root, q, ~x.starved, p, x.result) /\ p \notin Assumed(h, q, Len(q))
    BY <1>1, <1>4
  <2> HIDE DEF n, f, t, q, p
  <2> QED
    BY ZenonT(60), <2>1, <2>2, <2>3, PushWalk
<1>7. y.active = Assumed(h, t, Len(t))
  <2>1. Assumed(h, t, n) = Assumed(h, q, n)
    <3>1. n \in Nat /\ \A i \in 1..n : FramePair(t[i]) = FramePair(q[i])
                                         /\ Guards(h, t[i]) = Guards(h, q[i])
      BY <1>2
    <3> HIDE DEF t, q, n
    <3> QED
      BY <3>1, AssumedAgrees
  <2>2. n + 1 \in Nat \ {0} /\ (n + 1) - 1 = n
    BY <1>2
  <2>3. Assumed(h, t, n + 1) = IF Guards(h, t[n + 1]) THEN Assumed(h, t, n) \cup {FramePair(t[n + 1])}
                                                    ELSE Assumed(h, t, n)
    BY <2>2, AssumedGrows
  <2>4. Guards(h, f) <=> entered /\ IsRef(h, p[2])
    BY <1>3 DEF Guards, Pushed
  <2> HIDE DEF f, t, q, n
  <2> QED
    BY <2>1, <2>3, <2>4, <1>1, <1>2, <1>3
<1>8. ASSUME NEW k \in 1..Len(t)
      PROVE  EntersRight(y.phase, t[k]) /\ HeldOK(h, y, k)
  <2>1. CASE k \in 1..n
    <3>1. t[k] = q[k] /\ EntersRight(x.phase, q[k]) /\ HeldOK(h, x, k) /\ Begun(x, k)
      BY <2>1, <1>1, <1>2 DEF Begun
    <3>2. EntersRight(y.phase, t[k])
      BY <3>1 DEF SameWalker, EntersRight, EntersIn
    <3> QED
      BY <3>1, <3>2 DEF HeldOK
  <2>2. CASE k = n + 1
    <3>1. t[k].entered = entered /\ t[k].next = 1 /\ t[k].schema = x.request[1]
      BY <2>2, <1>2, <1>3
    <3>a. EntersRight(y.phase, t[k])
      <4> HIDE DEF t
      <4> QED
        BY <3>1 DEF SameWalker, EntersRight, EntersIn
    <3>2. ~Begun(y, k)
      BY <2>2, <3>1, <1>2, <1>5 DEF Begun
    <3> QED
      BY <3>a, <3>2 DEF HeldOK
  <2> QED
    BY <2>1, <2>2, <1>2
<1> QED
  BY <1>5, <1>6, <1>7, <1>8, <1>1 DEF WalkOK

\* The innermost activation returns, right about its items.
LEMMA WalkLeaves ==
  ASSUME NEW h, Reflected(h), Monotone(Schema), NEW x, NEW y, WalkOK(h, x),
         x.stack \in Seq(Activation), Len(x.stack) > 0, x.request = NoRequest,
         NEW f, f = x.stack[Len(x.stack)],
         \/ x.result = "reject" /\ Combine(f.schema) = "all" /\ y.result = "reject"
         \/ x.result = "accept" /\ Combine(f.schema) = "any" /\ y.result = "accept"
         \/ /\ f.next > Len(ItemsOf(h, f))
            /\ y.result = IF Combine(f.schema) = "all" THEN "accept" ELSE "reject",
         y.root = x.root, y.starved = x.starved, y.request = x.request,
         y.stack = SubSeq(x.stack, 1, Len(x.stack) - 1),
         y.active = IF f.entered THEN x.active \ {<<f.schema, f.value>>} ELSE x.active,
         SameWalker(x, y)
  PROVE  WalkOK(h, y)
<1> DEFINE n == Len(x.stack)
           q == x.stack
           t == y.stack
<1>1. WalkInv(h, Schema, x.root, q, ~x.starved, x.request, x.result)
      /\ x.active = Assumed(h, q, n) /\ NoRequest = <<>>
      /\ \A k \in 1..n : EntersRight(x.phase, q[k]) /\ HeldOK(h, x, k)
  BY DEF WalkOK, NoRequest
<1>2. n \in Nat \ {0} /\ Len(t) = n - 1 /\ (\A i \in 1..(n - 1) : t[i] = q[i])
  BY Popped
<1>3. WalkInv(h, Schema, x.root, t, ~x.starved, <<>>, y.result)
  <2>1. WalkInv(h, Schema, x.root, q, ~x.starved, <<>>, x.result)
    BY <1>1
  <2>2. Len(q) > 0 /\ Len(t) = Len(q) - 1 /\ (\A i \in 1..(Len(q) - 1) : t[i] = q[i])
        /\ f = q[Len(q)]
    BY <1>2
  <2> HIDE DEF q, t
  <2> QED
    BY <2>1, <2>2, LeaveWalk
<1>4. y.active = Assumed(h, t, Len(t))
  <2>1. FrameInv(h, Schema, x.root, q, ~x.starved, n)
    BY <1>1, <1>2 DEF WalkInv
  <2>2. FramePair(q[n]) \notin Assumed(h, q, n - 1)
    BY <2>1 DEF FrameInv
  <2>3. Assumed(h, q, n) = IF Guards(h, q[n]) THEN Assumed(h, q, n - 1) \cup {FramePair(q[n])}
                                            ELSE Assumed(h, q, n - 1)
    BY <1>2, AssumedGrows
  <2>4. Assumed(h, t, n - 1) = Assumed(h, q, n - 1)
    <3> DEFINE m == n - 1
    <3>1. m \in Nat /\ \A i \in 1..m : FramePair(t[i]) = FramePair(q[i])
                                         /\ Guards(h, t[i]) = Guards(h, q[i])
      BY <1>2
    <3> HIDE DEF m
    <3>2. Assumed(h, t, m) = Assumed(h, q, m)
      BY ZenonT(40), <3>1, AssumedAgrees
    <3> QED
      BY <3>2 DEF m
  <2>5. /\ y.active = IF q[n].entered THEN x.active \ {FramePair(q[n])} ELSE x.active
        /\ Guards(h, q[n]) => q[n].entered
    BY DEF FramePair, Guards
  <2> DEFINE below == Assumed(h, q, n - 1)
             pair == FramePair(q[n])
  <2>6. Len(t) = n - 1 /\ Assumed(h, t, Len(t)) = below /\ x.active = Assumed(h, q, n)
    BY <2>4, <1>1, <1>2
  <2>7. pair \notin below
    BY <2>2
  <2>8. x.active = IF Guards(h, q[n]) THEN below \cup {pair} ELSE below
    BY <2>3, <2>6
  <2>9. y.active = IF q[n].entered THEN x.active \ {pair} ELSE x.active
    BY <2>5
  <2> HIDE DEF t, q, n, below, pair
  <2>10. CASE Guards(h, q[n])
    <3>1. y.active = x.active \ {pair}
      BY <2>5, <2>9, <2>10
    <3>2. x.active = below \cup {pair}
      BY <2>8, <2>10
    <3> QED
      BY <3>1, <3>2, <2>6, <2>7
  <2>11. CASE ~Guards(h, q[n])
    BY <2>6, <2>7, <2>8, <2>9, <2>11
  <2> QED
    BY <2>10, <2>11
<1>5. ASSUME NEW k \in 1..Len(t)
      PROVE  EntersRight(y.phase, t[k]) /\ HeldOK(h, y, k)
  <2>1. k \in 1..n /\ k < n /\ k \in 1..(n - 1)
    BY <1>2
  <2>2. t[k] = q[k] /\ EntersRight(x.phase, q[k]) /\ HeldOK(h, x, k) /\ Begun(x, k)
    BY <2>1, <1>1, <1>2 DEF Begun
  <2>3. EntersRight(y.phase, t[k])
    BY <2>2 DEF SameWalker, EntersRight, EntersIn
  <2> QED
    BY <2>2, <2>3 DEF HeldOK
<1> QED
  BY <1>1, <1>3, <1>4, <1>5 DEF WalkOK

\* y has begun item; f reads held with its key, or still holds it; y has stored it.
Begins(y, item) ==
  /\ item.call => y.request = <<item.schema, item.value>> /\ y.result = "none"
  /\ ~item.call => y.request = NoRequest /\ y.result = IF item.ok THEN "accept" ELSE "reject"
Reads(h, f, held) ==
  /\ Node[f.schema].tag = "Record" /\ f.next % 2 = 1
       /\ (f.next + 1) \div 2 <= Len(EnumKeys(h, f.value)) => held = HeldSlot(h, f)
  /\ Node[f.schema].tag = "Record" /\ f.next % 2 = 0 => held = f.held
StoresHeld(x, y, held) == y.stack = [x.stack EXCEPT ![Len(x.stack)].held = held]

\* The innermost activation begins its next item.
LEMMA WalkBeginsItem ==
  ASSUME NEW h, NEW x, NEW y, WalkOK(h, x),
         x.stack \in Seq(Activation), Len(x.stack) > 0,
         x.request = NoRequest, x.result = "none",
         NEW f, f = x.stack[Len(x.stack)], f.next <= Len(ItemsOf(h, f)),
         NEW item, item = Current(h, f),
         y.root = x.root, y.starved = x.starved, y.active = x.active, SameWalker(x, y),
         Begins(y, item), NEW held, Reads(h, f, held), StoresHeld(x, y, held)
  PROVE  WalkOK(h, y)
<1> DEFINE n == Len(x.stack)
           q == x.stack
           t == y.stack
           g == t[n]
<1>1. WalkInv(h, Schema, x.root, q, ~x.starved, x.request, x.result)
      /\ x.active = Assumed(h, q, n) /\ NoRequest = <<>>
      /\ \A k \in 1..n : EntersRight(x.phase, q[k]) /\ HeldOK(h, x, k)
  BY DEF WalkOK, NoRequest
<1>2. n \in Nat \ {0} /\ n \in 1..n /\ q[n] = f /\ f \in Activation
  BY ElementOfSeq
<1>3. /\ Len(t) = n /\ (\A i \in 1..n : i # n => t[i] = q[i])
      /\ g.schema = f.schema /\ g.value = f.value /\ g.entered = f.entered
      /\ g.next = f.next /\ g.held = held
  BY <1>2 DEF Activation, StoresHeld
<1>4. SameActivations(q, t)
  BY <1>2, <1>3 DEF SameActivations
<1>5. /\ WalkInv(h, Schema, x.root, t, ~x.starved, <<>>, "none")
      /\ Assumed(h, t, Len(t)) = Assumed(h, q, n)
  <2>1. WalkInv(h, Schema, x.root, q, ~x.starved, <<>>, "none")
    BY <1>1
  <2> HIDE DEF t, q
  <2>2. /\ WalkInv(h, Schema, x.root, t, ~x.starved, <<>>, "none")
        /\ Assumed(h, t, Len(t)) = Assumed(h, q, Len(q))
    BY <2>1, <1>4, SameWalk
  <2> QED
    BY <2>2 DEF q
<1>6. WalkInv(h, Schema, x.root, t, ~x.starved, y.request, y.result)
  <2>1. Len(t) > 0 /\ t[Len(t)].next <= Len(ItemsOf(h, t[Len(t)])) /\ item = Current(h, t[Len(t)])
    BY <1>2, <1>3 DEF ItemsOf, Current
  <2>2. /\ item.call => y.request = <<item.schema, item.value>> /\ y.result = "none"
        /\ ~item.call => y.request = <<>> /\ y.result = IF item.ok THEN "accept" ELSE "reject"
    BY <1>1 DEF Begins
  <2> HIDE DEF t
  <2> QED
    BY <2>1, <2>2, <1>5, NextWalk
<1>7. ASSUME NEW k \in 1..Len(t)
      PROVE  EntersRight(y.phase, t[k]) /\ HeldOK(h, y, k)
  <2>1. CASE k # n
    <3>1. t[k] = q[k] /\ EntersRight(x.phase, q[k]) /\ HeldOK(h, x, k) /\ Begun(x, k)
      BY <2>1, <1>1, <1>2, <1>3 DEF Begun
    <3>2. EntersRight(y.phase, t[k])
      BY <3>1 DEF SameWalker, EntersRight, EntersIn
    <3> QED
      BY <3>1, <3>2 DEF HeldOK
  <2>2. CASE k = n
    <3>1. EntersRight(y.phase, t[k])
      <4>1. t[k].entered = f.entered /\ t[k].schema = f.schema /\ EntersRight(x.phase, f)
        BY <2>2, <1>1, <1>2, <1>3
      <4> HIDE DEF t
      <4> QED
        BY <4>1 DEF SameWalker, EntersRight, EntersIn
    <3>2. HeldSlot(h, g) = HeldSlot(h, f)
      BY <1>3 DEF HeldSlot
    <3>3. CASE f.next % 2 = 1
      <4>1. Node[g.schema].tag = "Record" /\ (g.next + 1) \div 2 <= Len(EnumKeys(h, g.value))
              => g.held = HeldSlot(h, g)
        <5> HIDE DEF t, n
        <5> QED
          BY <3>2, <3>3, <1>3 DEF Reads
      <4>2. g = y.stack[k]
        BY <2>2
      <4> HIDE DEF g
      <4> QED
        BY <3>1, <4>1, <4>2, HoldsSlot
    <3>4. CASE f.next % 2 = 0
      <4>1. Begun(x, n) /\ HeldOK(h, x, n)
        BY <3>4, <1>1, <1>2 DEF Begun
      <4>2. Node[f.schema].tag = "Record" /\ (f.next + 1) \div 2 <= Len(EnumKeys(h, f.value))
              => f.held = HeldSlot(h, f)
        BY <4>1, <1>2 DEF HeldOK
      <4>3. Node[g.schema].tag = "Record" /\ (g.next + 1) \div 2 <= Len(EnumKeys(h, g.value))
              => g.held = HeldSlot(h, g)
        <5> HIDE DEF t, n
        <5> QED
          BY <3>2, <3>4, <4>2, <1>3 DEF Reads
      <4>4. g = y.stack[k]
        BY <2>2
      <4> HIDE DEF g
      <4> QED
        BY <3>1, <4>3, <4>4, HoldsSlot
    <3>5. f.next \in Nat
      BY <1>2 DEF Activation
    <3> QED
      BY <3>3, <3>4, <3>5
  <2> QED
    BY <2>1, <2>2
<1> QED
  BY <1>1, <1>5, <1>6, <1>7 DEF WalkOK

\* The innermost activation moves on past an item that does not decide it.
LEMMA WalkAdvances ==
  ASSUME NEW h, Monotone(Schema), NEW x, NEW y, WalkOK(h, x),
         x.stack \in Seq(Activation), Len(x.stack) > 0,
         x.request = NoRequest, x.result # "none",
         NEW f, f = x.stack[Len(x.stack)],
         \/ x.result = "accept" /\ Combine(f.schema) # "any"
         \/ x.result = "reject" /\ Combine(f.schema) # "all",
         NEW g, g.schema = f.schema, g.value = f.value, g.entered = f.entered,
         g.next = f.next + 1, g.held = f.held,
         y.root = x.root, y.starved = x.starved, y.active = x.active, SameWalker(x, y),
         y.request = x.request, y.result = "none",
         y.stack = [x.stack EXCEPT ![Len(x.stack)] = g]
  PROVE  WalkOK(h, y)
<1> DEFINE n == Len(x.stack)
           q == x.stack
           t == y.stack
<1>1. WalkInv(h, Schema, x.root, q, ~x.starved, x.request, x.result)
      /\ x.active = Assumed(h, q, n) /\ NoRequest = <<>>
      /\ \A k \in 1..n : EntersRight(x.phase, q[k]) /\ HeldOK(h, x, k)
  BY DEF WalkOK, NoRequest
<1>2. n \in Nat \ {0} /\ n \in 1..n /\ q[n] = f /\ f \in Activation
  BY ElementOfSeq
<1>3. Len(t) = n /\ (\A i \in 1..n : i # n => t[i] = q[i]) /\ t[n] = g
  BY <1>2
<1>4. WalkInv(h, Schema, x.root, t, ~x.starved, <<>>, "none")
  <2>1. Len(q) > 0 /\ f = q[Len(q)] /\ Len(t) = Len(q)
        /\ (\A i \in 1..(Len(q) - 1) : t[i] = q[i])
    BY <1>2, <1>3
  <2>2. FramePair(t[Len(q)]) = FramePair(f) /\ t[Len(q)].entered = f.entered
        /\ t[Len(q)].next = f.next + 1
    BY <1>3 DEF FramePair
  <2>3. WalkInv(h, Schema, x.root, q, ~x.starved, <<>>, x.result)
    BY <1>1
  <2> HIDE DEF t, q
  <2> QED
    BY <2>1, <2>2, <2>3, AdvanceWalk
<1>5. y.active = Assumed(h, t, Len(t))
  <2>1. n \in Nat /\ \A i \in 1..n : FramePair(t[i]) = FramePair(q[i])
                                       /\ Guards(h, t[i]) = Guards(h, q[i])
    <3> SUFFICES ASSUME NEW i \in 1..n
                 PROVE  FramePair(t[i]) = FramePair(q[i]) /\ Guards(h, t[i]) = Guards(h, q[i])
      BY <1>2
    <3> HIDE DEF t
    <3> QED
      BY <1>2, <1>3 DEF FramePair, Guards
  <2> HIDE DEF t, q, n
  <2>2. Assumed(h, t, n) = Assumed(h, q, n)
    BY <2>1, AssumedAgrees
  <2> QED
    BY <2>2, <1>1, <1>3
<1>6. ASSUME NEW k \in 1..Len(t)
      PROVE  EntersRight(y.phase, t[k]) /\ HeldOK(h, y, k)
  <2>0. k \in 1..n /\ HeldOK(h, x, k) /\ Begun(x, k) /\ EntersRight(x.phase, q[k])
    BY <1>1, <1>3 DEF Begun
  <2>a. EntersRight(y.phase, t[k])
    <3>1. t[k].entered = q[k].entered /\ t[k].schema = q[k].schema
      BY <2>0, <1>2, <1>3
    <3> HIDE DEF t
    <3> QED
      BY <3>1, <2>0 DEF SameWalker, EntersRight, EntersIn
  <2>1. CASE k # n
    <3>1. t[k] = q[k]
      BY <2>0, <2>1, <1>3
    <3> QED
      BY <2>a, <2>0, <3>1 DEF HeldOK
  <2>2. CASE k = n /\ g.next % 2 = 0
    <3>1. f.next \in Nat
      BY <1>2 DEF Activation
    <3>a. g.value = f.value /\ g.next = f.next + 1 /\ g.next % 2 = 0
      BY <2>2
    <3>2. (g.next + 1) \div 2 = (f.next + 1) \div 2 /\ HeldSlot(h, g) = HeldSlot(h, f)
      <4>1. (g.next + 1) \div 2 = (f.next + 1) \div 2
        BY <3>a, <3>1, HalfOfNext
      <4> QED
        BY <4>1, <3>a DEF HeldSlot
    <3> HIDE DEF t
    <3> QED
      BY <2>a, <2>0, <2>2, <3>2, <1>2, <1>3 DEF HeldOK
  <2>3. CASE k = n /\ g.next % 2 # 0
    <3>1. ~Begun(y, k)
      BY <2>3, <1>3 DEF Begun
    <3> QED
      BY <2>a, <2>0, <2>3, <3>1, <1>2, <1>3 DEF HeldOK
  <2> QED
    BY <2>1, <2>2, <2>3
<1> QED
  BY <1>1, <1>4, <1>5, <1>6 DEF WalkOK

\* The synchronous check takes the branches of the kernel, and without conditional
\* refinements the asynchronous one does too.
Faithful(t) == Checking(t) \/ Unconditional

LEMMA KernelAgrees ==
  ASSUME NEW t, Faithful(t), NEW f \in Activation
  PROVE  KernelItems(t, f) = ItemsOf(heap, f)
<1> DEFINE n == Node[f.schema]
<1>1. f.schema \in Schema /\ f.value \in Value
  BY DEF Activation
<1>2. CASE n.tag = "Refine" /\ ~Checking(t)
  <2>1. n.when = Value
    BY <1>1, <1>2 DEF Unconditional, Faithful
  <2>2. (f.value \in n.when => f.value \in n.predicate) = (f.value \in n.predicate)
    BY <2>1, <1>1
  <2>3. ItemsOf(heap, f) = <<Call(n.inner, f.value),
                             Check(f.value \in n.when => f.value \in n.predicate)>>
    BY <1>2 DEF ItemsOf, Items, NodeItems
  <2> QED
    BY <1>2, <2>2, <2>3 DEF KernelItems
<1>3. CASE ~(n.tag = "Refine" /\ ~Checking(t))
  BY <1>3 DEF KernelItems, ItemsOf
<1> QED
  BY <1>2, <1>3

\* A record frame that holds the slot of its key uses the item of the kernel.
LEMMA CurrentAgrees ==
  ASSUME NEW t, Faithful(t), Reflected(heap), NEW f \in Activation,
         f.next <= Len(ItemsOf(heap, f)),
         /\ Node[f.schema].tag = "Record" /\ f.next % 2 = 0
         /\ (f.next + 1) \div 2 <= Len(EnumKeys(heap, f.value))
         => f.held = HeldSlot(heap, f)
  PROVE  CurrentItem(t, f) = Current(heap, f)
<1> DEFINE n == Node[f.schema]
           keys == EnumKeys(heap, f.value)
<1>1. f.value \in Value /\ f.next \in Nat \ {0} /\ Len(keys) \in Nat
  BY DEF Activation, Reflected, Reflects, EnumKeys
<1>2. CASE n.tag = "Record" /\ f.next % 2 = 0
  <2> DEFINE item(i) == IF i % 2 = 1
                          THEN IF n.key = NoSchema THEN Check(TRUE)
                               ELSE Call(n.key, keys[(i + 1) \div 2])
                          ELSE DataItem(n.value, Slot(heap, f.value, keys[(i + 1) \div 2]))
             items == [i \in 1..(2 * Len(keys)) |-> item(i)]
  <2>1. ItemsOf(heap, f) = <<Check(FALSE)>> \/ ItemsOf(heap, f) = items
    BY <1>2 DEF ItemsOf, Items, NodeItems, RecordItems
  <2>2. f.next # 1
    BY <1>2
  <2>a. Len(<<Check(FALSE)>>) = 1
    OBVIOUS
  <2>b. ItemsOf(heap, f) # <<Check(FALSE)>>
    <3> SUFFICES ASSUME ItemsOf(heap, f) = <<Check(FALSE)>>
                 PROVE  FALSE
      OBVIOUS
    <3>1. Len(ItemsOf(heap, f)) = 1
      BY <2>a
    <3> QED
      BY <3>1, <2>2, <1>1
  <2>3. ItemsOf(heap, f) = items
    BY <2>1, <2>b
  <2>4. Len(items) = 2 * Len(keys)
    BY <1>1
  <2>5. f.next \in 1..(2 * Len(keys))
    BY <2>3, <2>4, <1>1
  <2>6. (f.next + 1) \div 2 <= Len(keys)
    BY <2>5, <1>1, <1>2
  <2>7. Current(heap, f) = item(f.next)
    BY <2>3, <2>5 DEF Current
  <2>8. item(f.next) = DataItem(n.value, HeldSlot(heap, f))
    <3>1. f.next % 2 # 1
      BY <1>2
    <3> QED
      BY <3>1 DEF HeldSlot
  <2> QED
    BY <2>6, <2>7, <2>8, <1>2 DEF CurrentItem
<1>3. CASE ~(n.tag = "Record" /\ f.next % 2 = 0)
  BY <1>3, KernelAgrees DEF CurrentItem, Current
<1> QED
  BY <1>2, <1>3

-----------------------------------------------------------------------------
(* Quiet calls walk                                                         *)

\* A synchronous check is a walk of the heap, and so is a call whose value has not
\* changed since it began.
WalksHeap(x) ==
  \/ x.phase = "checking"
  \/ x.quiet /\ Unconditional /\ x.phase \in {"ready", "parked"}
QuietWalks(h, x) == WalksHeap(x) => WalkOK(h, x)
QuietInv == XorFree => \A t \in Task : QuietWalks(heap, run[t])

\* What the proofs about one call start from.
LEMMA CallFacts ==
  ASSUME AsyncInv, NEW t \in Task
  PROVE  /\ run[t] \in Run /\ CallOK(run[t]) /\ run[t].stack \in Seq(Activation)
         /\ Reflected(heap) /\ (XorFree => Monotone(Schema))
<1>1. CallOK(run[t]) /\ \A v \in Value : Reflects(heap[v])
  BY DEF AsyncInv, HeapOK
<1>2. XorFree => Monotone(Schema)
  BY XorFreeIsMonotone
<1> QED
  BY <1>1, <1>2 DEF CallOK, Run, Reflected

LEMMA BeginWalks ==
  ASSUME AsyncInv, NEW t \in Task, Begin(t)
  PROVE  WalkOK(heap, run'[t])
<1>1. PICK r \in Roots : run' = [run EXCEPT ![t].phase = "ready", ![t].root = r,
                                           ![t].request = r]
  BY DEF Begin
<1>2. run[t] = Idle
  BY DEF Begin, AsyncInv, CallOK
<1>3. run'[t] = [Idle EXCEPT !.phase = "ready", !.root = r, !.request = r]
  BY <1>1, <1>2 DEF AsyncInv
<1>4. r \in Pairs
  BY AsyncAssumption DEF Pairs
<1>5. /\ run'[t].root = r /\ run'[t].request = r /\ run'[t].result = "none"
      /\ run'[t].stack = <<>> /\ run'[t].active = {}
  BY <1>3 DEF Idle
<1> QED
  BY <1>4, <1>5, WalkBegins

\* The synchronous check starts a walk of its own.
LEMMA RecheckWalks ==
  ASSUME AsyncInv, NEW t \in Task, Recheck(t)
  PROVE  WalkOK(heap, run'[t]) /\ run'[t].phase = "checking"
<1> DEFINE x == run[t]
<1>1. x \in Run /\ x.stack = <<>> /\ x.root \in Pairs
  BY DEF AsyncInv, CallOK, Recheck, Walked
<1>2. run'[t] = [x EXCEPT !.phase = "checking", !.request = x.root, !.result = "none",
                   !.active = {}, !.depth = 0, !.starved = FALSE]
  BY DEF AsyncInv, Recheck
<1> HIDE DEF x
<1>3. /\ run'[t].root = x.root /\ run'[t].request = x.root /\ run'[t].result = "none"
      /\ run'[t].stack = <<>> /\ run'[t].active = {} /\ run'[t].phase = "checking"
  BY <1>1, <1>2 DEF Run
<1> QED
  BY <1>1, <1>3, WalkBegins

\* Yielding and resuming leave the walk where it is.
LEMMA PauseWalks ==
  ASSUME AsyncInv, NEW t \in Task, MaybeYield(t) \/ Turn(t), WalkOK(heap, run[t])
  PROVE  WalkOK(heap, run'[t])
<1>1. run[t] \in Run
  BY CallFacts
<1>2. /\ run'[t].root = run[t].root /\ run'[t].stack = run[t].stack
      /\ run'[t].request = run[t].request /\ run'[t].result = run[t].result
      /\ run'[t].active = run[t].active /\ run'[t].starved = run[t].starved
      /\ run[t].phase # "checking" /\ run'[t].phase # "checking"
  <2>1. CASE MaybeYield(t)
    <3>1. PICK late \in BOOLEAN :
            LET steps == (run[t].steps + 1) % YieldEvery IN
            run' = [run EXCEPT ![t].visited = TRUE, ![t].steps = steps,
                     ![t].phase = IF SliceOver(steps, late) THEN "parked" ELSE "ready",
                     ![t].burst = IF SliceOver(steps, late) THEN 0 ELSE @ + 1]
      BY <2>1 DEF MaybeYield
    <3>2. DOMAIN run = Task /\ run[t].phase = "ready"
      BY <2>1 DEF AsyncInv, MaybeYield
    <3> QED
      BY SMTT(30), <1>1, <3>1, <3>2 DEF Run
  <2>2. CASE Turn(t)
    <3>1. run'[t] = [run[t] EXCEPT !.phase = "ready"] /\ run[t].phase = "parked"
      BY <2>2 DEF Turn, AsyncInv
    <3> QED
      BY <1>1, <3>1 DEF Run
  <2> QED
    BY <2>1, <2>2
<1> QED
  BY <1>2, WalkStays DEF SameWalker

LEMMA GuardWalks ==
  ASSUME AsyncInv, XorFree, NEW t \in Task, Cycle(t) \/ Budget(t), WalkOK(heap, run[t])
  PROVE  WalkOK(heap, run'[t])
<1>1. run[t] \in Run /\ Reflected(heap) /\ Monotone(Schema)
  BY CallFacts
<1>2. run[t].request # NoRequest
  BY DEF Cycle, Budget
<1>3. CASE Cycle(t)
  <2>1. run'[t] = [run[t] EXCEPT !.request = NoRequest, !.result = "accept", !.visited = FALSE]
    BY <1>3 DEF AsyncInv, Cycle
  <2>2. run[t].request \in run[t].active
    BY <1>3 DEF Cycle, AlreadyActive
  <2>3. /\ run'[t].root = run[t].root /\ run'[t].stack = run[t].stack
        /\ run'[t].active = run[t].active /\ run'[t].request = NoRequest
        /\ run'[t].result = "accept" /\ run'[t].starved = run[t].starved
        /\ SameWalker(run[t], run'[t])
    BY <1>1, <2>1 DEF Run, SameWalker
  <2> QED
    BY <1>1, <1>2, <2>2, <2>3, WalkAnswered
<1>4. CASE Budget(t)
  <2>1. run'[t] = [run[t] EXCEPT !.request = NoRequest, !.result = "reject",
                                !.starved = TRUE, !.visited = FALSE]
    BY <1>4 DEF AsyncInv, Budget
  <2>3. /\ run'[t].root = run[t].root /\ run'[t].stack = run[t].stack
        /\ run'[t].active = run[t].active /\ run'[t].request = NoRequest
        /\ run'[t].result = "reject" /\ run'[t].starved = TRUE
        /\ SameWalker(run[t], run'[t])
    BY <1>1, <2>1 DEF Run, SameWalker
  <2> QED
    BY <1>1, <1>2, <2>3, WalkAnswered
<1> QED
  BY <1>3, <1>4

LEMMA EnterWalks ==
  ASSUME AsyncInv, XorFree, NEW t \in Task, Enter(t), WalkOK(heap, run[t])
  PROVE  WalkOK(heap, run'[t])
<1> DEFINE x == run[t]
           p == x.request
           entered == Enters(t, p[1])
           depth == IF entered THEN x.depth + 1 ELSE x.depth
           active == IF entered /\ IsRef(heap, p[2]) THEN x.active \cup {p} ELSE x.active
           q == Append(x.stack, Pushed(p, entered))
<1>1. x \in Run /\ Reflected(heap) /\ Monotone(Schema) /\ x.stack \in Seq(Activation)
  BY CallFacts
<1>2. run' = [run EXCEPT
       ![t].request = NoRequest, ![t].visited = FALSE,
       ![t].depth = IF entered THEN @ + 1 ELSE @,
       ![t].active = IF entered /\ IsRef(heap, p[2]) THEN @ \cup {p} ELSE @,
       ![t].stack = Append(@, Pushed(p, entered))]
  BY DEF Enter, Pushed
<1>3. run'[t] = [x EXCEPT !.request = NoRequest, !.visited = FALSE,
                   !.depth = depth, !.active = active, !.stack = q]
  BY <1>2 DEF AsyncInv
<1>4. /\ p # NoRequest /\ p \in Pairs /\ ~(entered /\ IsRef(heap, p[2]) /\ p \in x.active)
  BY <1>1 DEF Enter, AlreadyActive, Run
<1>5. entered = EntersIn(x.phase, p[1])
  BY DEF Enters, EntersIn, Checking
<1>6. /\ run'[t].root = x.root /\ run'[t].starved = x.starved
      /\ run'[t].request = NoRequest /\ run'[t].result = x.result
      /\ run'[t].stack = q /\ run'[t].active = active
      /\ SameWalker(x, run'[t])
  <2> HIDE DEF q, active, p, depth, entered
  <2> QED
    BY <1>1, <1>3 DEF Run, SameWalker
<1>7. /\ run'[t].stack = Append(x.stack, Pushed(p, entered))
      /\ run'[t].active = IF entered /\ IsRef(heap, p[2]) THEN x.active \cup {p} ELSE x.active
  BY <1>6
<1> DEFINE y == run'[t]
<1>8. WalkOK(heap, x)
  OBVIOUS
<1> HIDE DEF q, active, depth, entered, y, x
<1> QED
  BY <1>1, <1>4, <1>5, <1>6, <1>7, <1>8, WalkEnters DEF y

LEMMA ItemWalks ==
  ASSUME AsyncInv, XorFree, NEW t \in Task, Faithful(t), NextItem(t), WalkOK(heap, run[t])
  PROVE  WalkOK(heap, run'[t])
<1> DEFINE x == run[t]
           f == Top(t)
           item == CurrentItem(t, f)
           n == Node[f.schema]
           keys == EnumKeys(heap, f.value)
           held == IF n.tag = "Record" /\ f.next % 2 = 1
                     /\ (f.next + 1) \div 2 <= Len(keys)
                     THEN Slot(heap, f.value, keys[(f.next + 1) \div 2])
                     ELSE f.held
           request == IF item.call THEN <<item.schema, item.value>> ELSE NoRequest
           result == IF item.call THEN "none" ELSE AnswerOf(item.ok)
           q == [x.stack EXCEPT ![Len(x.stack)].held = held]
<1>0. x \in Run /\ Reflected(heap) /\ Faithful(t) /\ x.stack \in Seq(Activation)
  BY CallFacts
<1>1. run' = [run EXCEPT ![t].request = request, ![t].result = result,
                ![t].visited = FALSE, ![t].stack[Len(run[t].stack)].held = held]
  BY DEF NextItem
<1>2. run'[t] = [x EXCEPT !.request = request, !.result = result, !.visited = FALSE,
                   !.stack = q]
  BY <1>1, <1>0 DEF AsyncInv, Run
<1>3. x.stack # <<>> /\ x.request = NoRequest /\ x.result = "none"
      /\ f.next <= Len(KernelItems(t, f))
  BY DEF NextItem, HasItem
<1>4. f \in Activation /\ f = x.stack[Len(x.stack)] /\ Len(x.stack) \in Nat \ {0}
  BY <1>3, TopCall
<1>5. f.next <= Len(ItemsOf(heap, f))
  BY <1>0, <1>3, <1>4, KernelAgrees
<1>6. n.tag = "Record" /\ f.next % 2 = 0 /\ (f.next + 1) \div 2 <= Len(keys)
        => f.held = HeldSlot(heap, f)
  <2>1. HeldOK(heap, x, Len(x.stack))
    BY <1>4 DEF WalkOK
  <2> QED
    BY <2>1, <1>4 DEF HeldOK, Begun
<1>7. item = Current(heap, f)
  BY <1>0, <1>4, <1>5, <1>6, CurrentAgrees
<1>8. /\ item.call => request = <<item.schema, item.value>> /\ result = "none"
      /\ ~item.call => request = NoRequest /\ result = IF item.ok THEN "accept" ELSE "reject"
  BY DEF AnswerOf
<1>9. /\ n.tag = "Record" /\ f.next % 2 = 1 /\ (f.next + 1) \div 2 <= Len(keys)
           => held = HeldSlot(heap, f)
      /\ n.tag = "Record" /\ f.next % 2 = 0 => held = f.held
  <2>1. f.next % 2 = 0 => f.next % 2 # 1
    OBVIOUS
  <2> QED
    BY <2>1 DEF HeldSlot
<1>10. /\ run'[t].root = x.root /\ run'[t].starved = x.starved /\ run'[t].active = x.active
       /\ run'[t].request = request /\ run'[t].result = result /\ run'[t].stack = q
       /\ SameWalker(x, run'[t])
  <2> HIDE DEF q, request, result
  <2> QED
    BY <1>0, <1>2 DEF Run, SameWalker
<1>11. Len(x.stack) > 0
  BY <1>4
<1>12. Begins(run'[t], item)
  BY <1>8, <1>10 DEF Begins
<1>13. Reads(heap, f, held)
  BY <1>9 DEF Reads
<1>14. StoresHeld(x, run'[t], held)
  BY <1>10 DEF StoresHeld
<1>15. WalkOK(heap, x)
  OBVIOUS
<1> HIDE DEF request, result, held, item, x, f, q, n, keys
<1> QED
  BY <1>0, <1>3, <1>4, <1>5, <1>7, <1>10, <1>11, <1>12, <1>13, <1>14, <1>15, WalkBeginsItem

\* Leaving an activation with the answer its items decided.
LEMMA ReturnWalks ==
  ASSUME AsyncInv, XorFree, NEW t \in Task, NEW b \in BOOLEAN, Return(t, b),
         run[t].stack # <<>>, run[t].request = NoRequest, WalkOK(heap, run[t]),
         \/ run[t].result = "reject" /\ Combine(Top(t).schema) = "all" /\ ~b
         \/ run[t].result = "accept" /\ Combine(Top(t).schema) = "any" /\ b
         \/ /\ Top(t).next > Len(ItemsOf(heap, Top(t)))
            /\ b <=> Combine(Top(t).schema) = "all"
  PROVE  WalkOK(heap, run'[t])
<1> DEFINE x == run[t]
           f == Top(t)
           q == SubSeq(x.stack, 1, Len(x.stack) - 1)
           depth == IF f.entered THEN x.depth - 1 ELSE x.depth
           active == IF f.entered THEN x.active \ {<<f.schema, f.value>>} ELSE x.active
           answer == AnswerOf(b)
<1>1. run'[t] = [x EXCEPT !.stack = q, !.depth = depth, !.active = active,
                   !.result = answer]
  BY DEF AsyncInv, Return
<1>2. x \in Run /\ Reflected(heap) /\ Monotone(Schema) /\ x.stack \in Seq(Activation)
  BY CallFacts
<1>3. f = x.stack[Len(x.stack)] /\ Len(x.stack) > 0
  BY TopCall
<1>4. \/ x.result = "reject" /\ Combine(f.schema) = "all" /\ answer = "reject"
      \/ x.result = "accept" /\ Combine(f.schema) = "any" /\ answer = "accept"
      \/ /\ f.next > Len(ItemsOf(heap, f))
         /\ answer = IF Combine(f.schema) = "all" THEN "accept" ELSE "reject"
  BY DEF AnswerOf
<1>5. /\ run'[t].root = x.root /\ run'[t].starved = x.starved
      /\ run'[t].request = x.request /\ run'[t].stack = q /\ run'[t].active = active
      /\ run'[t].result = answer /\ SameWalker(x, run'[t])
  <2> HIDE DEF q, active, answer, depth
  <2> QED
    BY <1>1, <1>2 DEF Run, SameWalker
<1>6. \/ x.result = "reject" /\ Combine(f.schema) = "all" /\ run'[t].result = "reject"
      \/ x.result = "accept" /\ Combine(f.schema) = "any" /\ run'[t].result = "accept"
      \/ /\ f.next > Len(ItemsOf(heap, f))
         /\ run'[t].result = IF Combine(f.schema) = "all" THEN "accept" ELSE "reject"
  BY <1>4, <1>5
<1>7. run'[t].active = (IF f.entered THEN x.active \ {<<f.schema, f.value>>} ELSE x.active)
      /\ run'[t].stack = SubSeq(x.stack, 1, Len(x.stack) - 1)
  BY <1>5
<1>8. WalkOK(heap, x) /\ x.request = NoRequest
  OBVIOUS
<1> DEFINE y == run'[t]
<1>9. /\ y.root = x.root /\ y.starved = x.starved /\ y.request = x.request
      /\ SameWalker(x, y)
  BY <1>5
<1> HIDE DEF f, x, y, q, active, answer
<1> QED
  BY <1>2, <1>3, <1>6, <1>7, <1>8, <1>9, WalkLeaves DEF y

LEMMA AbsorbWalks ==
  ASSUME AsyncInv, XorFree, NEW t \in Task, Absorb(t), WalkOK(heap, run[t])
  PROVE  WalkOK(heap, run'[t])
<1> DEFINE x == run[t]
           f == Top(t)
           accepted == x.result = "accept"
           g == Walk(t)!Advance(f, accepted)
           q == [x.stack EXCEPT ![Len(x.stack)] = g]
<1>1. x \in Run /\ Monotone(Schema) /\ x.stack \in Seq(Activation)
  BY CallFacts
<1>2. x.request = NoRequest /\ x.result \in {"accept", "reject"} /\ x.stack # <<>>
  BY <1>1 DEF Absorb, Run
<1>3. f \in Activation /\ f = x.stack[Len(x.stack)] /\ Len(x.stack) > 0
  BY <1>2, TopCall
<1>4. Combine(f.schema) \in {"all", "any"}
  BY SMTT(30), <1>1, <1>3 DEF Monotone, Activation
<1>5. Walk(t)!Decides(accepted) <=> IF Combine(f.schema) = "all" THEN ~accepted ELSE accepted
  BY <1>3, <1>4 DEF Walk!Decides, Walk!Top, Walk!Combine, Combine, Top
<1>6. CASE Walk(t)!Decides(accepted)
  <2>1. Walk(t)!Verdict = (Combine(f.schema) = "any")
    BY <1>3, <1>4 DEF Walk!Verdict, Walk!Top, Walk!Combine, Combine, Top
  <2>2. Return(t, Combine(f.schema) = "any")
    BY <1>6, <2>1 DEF Absorb
  <2>3. \/ x.result = "reject" /\ Combine(f.schema) = "all" /\ Combine(f.schema) # "any"
        \/ x.result = "accept" /\ Combine(f.schema) = "any"
    BY <1>2, <1>4, <1>5, <1>6
  <2> QED
    BY <1>2, <2>2, <2>3, ReturnWalks
<1>7. CASE ~Walk(t)!Decides(accepted)
  <2>1. run' = [run EXCEPT
            ![t].stack[Len(run[t].stack)] = Walk(t)!Advance(@, accepted),
            ![t].result = "none"]
    BY <1>7 DEF Absorb
  <2>2. run'[t] = [x EXCEPT !.stack = q, !.result = "none"]
    BY <2>1, <1>1, <1>3 DEF AsyncInv, Run
  <2>3. /\ g.schema = f.schema /\ g.value = f.value /\ g.entered = f.entered
        /\ g.next = f.next + 1 /\ g.held = f.held
    BY <1>3 DEF Walk!Advance, Activation
  <2>4. \/ x.result = "accept" /\ Combine(f.schema) # "any"
        \/ x.result = "reject" /\ Combine(f.schema) # "all"
    BY <1>2, <1>4, <1>5, <1>7
  <2> HIDE DEF g
  <2>5. /\ run'[t].root = x.root /\ run'[t].starved = x.starved
        /\ run'[t].active = x.active /\ run'[t].request = x.request
        /\ run'[t].result = "none" /\ run'[t].stack = q /\ SameWalker(x, run'[t])
    <3> HIDE DEF q
    <3> QED
      BY <1>1, <2>2 DEF Run, SameWalker
  <2>6. run'[t].stack = [x.stack EXCEPT ![Len(x.stack)] = g]
    BY <2>5
  <2>7. WalkOK(heap, x) /\ x.result # "none"
    BY <1>2
  <2> HIDE DEF x, f, q
  <2> QED
    BY <1>1, <1>2, <1>3, <2>3, <2>4, <2>5, <2>6, <2>7, WalkAdvances
<1> QED
  BY <1>6, <1>7

LEMMA FinishWalks ==
  ASSUME AsyncInv, XorFree, NEW t \in Task, Faithful(t), Finish(t), WalkOK(heap, run[t])
  PROVE  WalkOK(heap, run'[t])
<1> DEFINE x == run[t]
           f == Top(t)
<1>1. x \in Run /\ Monotone(Schema) /\ Faithful(t)
  BY CallFacts
<1>2. x.request = NoRequest /\ x.stack # <<>> /\ f.next > Len(KernelItems(t, f))
      /\ Return(t, Walk(t)!Exhausted)
  BY DEF Finish
<1>3. f \in Activation /\ f = x.stack[Len(x.stack)]
  BY <1>2, TopCall
<1>4. Combine(f.schema) \in {"all", "any"}
  BY SMTT(30), <1>1, <1>3 DEF Monotone, Activation
<1>5. Walk(t)!Exhausted = (Combine(f.schema) = "all")
  BY <1>3, <1>4 DEF Walk!Exhausted, Walk!Top, Walk!Combine, Combine, Top
<1>6. f.next > Len(ItemsOf(heap, f))
  BY <1>1, <1>2, <1>3, KernelAgrees
<1> QED
  BY <1>2, <1>5, <1>6, ReturnWalks

\* What a step of a call does to its phase and to the note that the heap stayed quiet.
LEMMA CallSteps ==
  ASSUME AsyncInv, NEW t \in Task, Work(t)
  PROVE  /\ run'[t].quiet = run[t].quiet
         /\ \/ Resolve(t) \/ Recheck(t) \/ run'[t].phase = run[t].phase
            \/ {run[t].phase, run'[t].phase} \subseteq {"ready", "parked"}
<1>1. DOMAIN run = Task /\ run[t] \in Run
  BY CallFacts DEF AsyncInv
<1>2. CASE MaybeYield(t)
  BY <1>1, <1>2 DEF MaybeYield, Run
<1>3. CASE Turn(t)
  BY <1>1, <1>3 DEF Turn, Run
<1>4. CASE Cycle(t)
  BY <1>1, <1>4 DEF Cycle, Run
<1>5. CASE Budget(t)
  BY <1>1, <1>5 DEF Budget, Run
<1>6. CASE Enter(t)
  <2>1. \E depth, active, q :
          run' = [run EXCEPT ![t].request = NoRequest, ![t].visited = FALSE,
                             ![t].depth = depth, ![t].active = active, ![t].stack = q]
    BY ZenonT(40), <1>6 DEF Enter
  <2> QED
    BY <2>1, <1>1 DEF Run
<1>7. CASE NextItem(t)
  <2>1. \E request, result, held :
          run' = [run EXCEPT ![t].request = request, ![t].result = result,
                    ![t].visited = FALSE, ![t].stack[Len(run[t].stack)].held = held]
    BY <1>7 DEF NextItem
  <2> QED
    BY SMTT(30), <2>1, <1>1 DEF Run
<1>8. CASE Absorb(t)
  BY <1>1, <1>8 DEF Absorb, Return, Run
<1>9. CASE Finish(t)
  BY <1>1, <1>9 DEF Finish, Return, Run
<1>10. CASE Resolve(t)
  BY <1>1, <1>10 DEF Resolve, Run
<1>11. CASE Recheck(t)
  BY <1>1, <1>11 DEF Recheck, Run
<1> QED
  BY <1>2, <1>3, <1>4, <1>5, <1>6, <1>7, <1>8, <1>9, <1>10, <1>11 DEF Work

\* A step of a walk of the heap keeps it one.
LEMMA WorkWalks ==
  ASSUME AsyncInv, QuietInv, XorFree, NEW t \in Task, Begin(t) \/ Work(t)
  PROVE  QuietWalks(heap, run'[t])
<1>1. CASE Begin(t)
  BY <1>1, BeginWalks DEF QuietWalks
<1>2. CASE Recheck(t)
  BY <1>2, RecheckWalks DEF QuietWalks
<1>3. CASE Resolve(t)
  <2>1. run'[t].phase = "done"
    BY <1>3, CallFacts DEF Resolve, AsyncInv, Run
  <2> QED
    BY <2>1 DEF QuietWalks, WalksHeap
<1>4. CASE Work(t) /\ ~Resolve(t) /\ ~Recheck(t)
  <2> SUFFICES ASSUME WalksHeap(run'[t])
               PROVE  WalkOK(heap, run'[t])
    BY DEF QuietWalks
  <2>1. WalksHeap(run[t])
    BY <1>4, CallSteps DEF WalksHeap
  <2>2. WalkOK(heap, run[t])
    BY <2>1 DEF QuietInv, QuietWalks
  <2>3. Faithful(t)
    BY <2>1 DEF WalksHeap, Faithful, Checking
  <2> QED
    BY <1>4, <2>2, <2>3, PauseWalks, GuardWalks, EnterWalks, ItemWalks, AbsorbWalks, FinishWalks
       DEF Work
<1> QED
  BY <1>1, <1>2, <1>3, <1>4

LEMMA InitQuiet == Init => QuietInv
  BY DEF Init, Idle, QuietInv, QuietWalks, WalksHeap

LEMMA NextQuiet == AsyncInv /\ QuietInv /\ [Next]_vars => QuietInv'
<1> SUFFICES ASSUME AsyncInv, QuietInv, [Next]_vars, XorFree, NEW u \in Task
             PROVE  QuietWalks(heap', run'[u])
  BY DEF QuietInv, XorFree
<1>1. QuietWalks(heap, run[u])
  BY DEF QuietInv
<1>2. CASE Assign
  <2>1. run'[u] = IF run[u].phase \in {"ready", "parked"}
                    THEN [run[u] EXCEPT !.quiet = FALSE] ELSE run[u]
    BY <1>2 DEF Assign
  <2>2. run[u] \in Run /\ run[u].phase # "checking"
    BY <1>2, CallFacts DEF Assign, Checking
  <2>3. ~WalksHeap(run'[u])
    BY <2>1, <2>2 DEF WalksHeap, Run
  <2> QED
    BY <2>3 DEF QuietWalks
<1>3. ASSUME NEW t \in Task, Begin(t) \/ Work(t)
      PROVE  QuietWalks(heap', run'[u])
  <2>1. heap' = heap /\ (u # t => run'[u] = run[u])
    BY <1>3, OneCall
  <2> QED
    BY <1>1, <1>3, <2>1, WorkWalks
<1>4. CASE UNCHANGED vars
  BY <1>1, <1>4 DEF vars
<1> QED
  BY <1>2, <1>3, <1>4 DEF Next

\* Only Resolve settles a call.
LEMMA SettledByResolve ==
  ASSUME AsyncInv, [Next]_vars, NEW t \in Task, Settles(t)
  PROVE  Resolve(t)
<1>1. ASSUME Assign
      PROVE  FALSE
  <2>1. run'[t] = IF run[t].phase \in {"ready", "parked"}
                    THEN [run[t] EXCEPT !.quiet = FALSE] ELSE run[t]
    BY <1>1 DEF Assign
  <2> QED
    BY <2>1, CallFacts DEF Settles, Run
<1>2. ASSUME NEW u \in Task, Begin(u) \/ Work(u)
      PROVE  Resolve(t)
  <2>1. u = t
    BY <1>2, OneCall DEF Settles
  <2>2. CASE Begin(t)
    BY <2>2, CallFacts DEF Begin, Settles, AsyncInv, Run
  <2>3. CASE Work(t)
    <3>1. ~Recheck(t)
      BY CallFacts DEF Recheck, Settles, AsyncInv, Run
    <3> QED
      BY <2>3, <3>1, CallSteps DEF Settles
  <2> QED
    BY <1>2, <2>1, <2>2, <2>3
<1>3. ~UNCHANGED vars
  BY DEF vars, Settles
<1> QED
  BY <1>1, <1>2, <1>3 DEF Next

\* What a call reports as it resolves.
LEMMA ReportIsExact ==
  ASSUME AsyncInv, QuietInv, XorFree, NEW t \in Task, Resolve(t)
  PROVE  LET denoted == run[t].root \in Denotation(heap)
             outcome == run'[t].outcome IN
         /\ Undisturbed(t) /\ outcome \in {"true", "ok"} => denoted
         /\ Undisturbed(t) /\ ~run[t].starved /\ outcome = "false" => ~denoted
         /\ ~run[t].starved /\ outcome = "error" => ~denoted
<1> DEFINE x == run[t]
           denoted == x.root \in Denotation(heap)
           outcome == IF Entry[t] = "is" THEN (IF x.result = "accept" THEN "true" ELSE "false")
                      ELSE (IF x.result = "accept" THEN "ok" ELSE "error")
<1>1. x \in Run /\ Reflected(heap) /\ Monotone(Schema)
  BY CallFacts
<1>2. x.phase \in {"ready", "checking"} /\ x.request = <<>> /\ x.stack = <<>>
      /\ x.result \in {"accept", "reject"}
  BY <1>1 DEF Resolve, Walked, NoRequest, Run
<1>3. run'[t].outcome = outcome
  <2>1. run' = [run EXCEPT ![t].phase = "done", ![t].outcome = outcome]
    BY DEF Resolve
  <2> HIDE DEF outcome
  <2> QED
    BY <1>1, <2>1 DEF AsyncInv, Run
<1>4. ASSUME Undisturbed(t)
      PROVE  /\ x.result = "accept" => denoted
             /\ x.result = "reject" /\ ~x.starved => ~denoted
  <2>0. WalksHeap(x)
    BY <1>2, <1>4 DEF Undisturbed, Checking, WalksHeap
  <2>1. WalkInv(heap, Schema, x.root, <<>>, ~x.starved, <<>>, x.result)
    BY <1>2, <2>0 DEF QuietInv, QuietWalks, WalkOK
  <2>2. x.root \in PairsOf(Schema) /\ x.result # "none"
    BY <1>2, <2>1 DEF WalkInv
  <2> HIDE DEF x
  <2>3. /\ x.result = "accept" => x.root \in GreatestFixpoint(heap, PairsOf(Schema), {})
        /\ x.result = "reject" /\ ~x.starved =>
             x.root \notin GreatestFixpoint(heap, PairsOf(Schema), {})
    BY <2>1, <2>2, WalkEnds
  <2>4. Denotation(heap) \cap PairsOf(Schema) = GreatestFixpoint(heap, PairsOf(Schema), {})
    BY <1>1, DenotationIsFixpoint
  <2> QED
    BY <2>2, <2>3, <2>4
\* Only the synchronous check reports an error.
<1>5. outcome = "error" => Undisturbed(t)
  BY <1>2 DEF Resolve, Undisturbed, Checking
<1> HIDE DEF denoted
<1> QED
  BY <1>2, <1>3, <1>4, <1>5 DEF denoted

\* Whatever other calls it overlapped, a walk that no assignment disturbed accepts only
\* what the schema denotes and, its budget permitting, rejects only what it does not; the
\* walk of the synchronous check is one, so that an error of checkAsync() is true of the
\* value as it is reported.
THEOREM QuietVerdicts == Spec => QuietVerdictExact
<1> DEFINE Exact ==
       XorFree => \A t \in Task : Settles(t) =>
         LET denoted == run[t].root \in Denotation(heap)
             outcome == run'[t].outcome IN
         /\ Undisturbed(t) /\ outcome \in {"true", "ok"} => denoted
         /\ Undisturbed(t) /\ ~run[t].starved /\ outcome = "false" => ~denoted
         /\ ~run[t].starved /\ outcome = "error" => ~denoted
<1>1. AsyncInv /\ QuietInv /\ [Next]_vars => Exact
  BY SettledByResolve, ReportIsExact
<1>2. Spec => []QuietInv
  BY InitQuiet, NextQuiet, AsyncAlways, PTL DEF Spec
<1>3. QuietVerdictExact <=> [][Exact]_vars
  BY DEF QuietVerdictExact
<1> HIDE DEF Exact
<1> QED
  BY <1>1, <1>2, <1>3, AsyncAlways, PTL DEF Spec
=============================================================================
