----------------------- MODULE SchemaPredicateProofs -----------------------
(***************************************************************************)
(* Proofs about the synchronous predicate, for every schema graph, heap,   *)
(* root and depth budget that satisfy the assumptions of SchemaGraph and   *)
(* SchemaPredicate.                                                        *)
(***************************************************************************)
EXTENDS SchemaPredicate, SchemaDenotationProofs

-----------------------------------------------------------------------------
(* The guard: its state is a function of the stack                          *)

\* TypeOK alone is not inductive: that depth stays a natural number when an
\* activation leaves needs depth to count the entered activations, and that
\* leaving one removes no pair of another needs their pairs to be distinct.
GuardInv == TypeOK /\ ActiveMatchesStack /\ DepthMatchesStack

LEMMA InitGuard == Init => GuardInv
<1> SUFFICES ASSUME Init PROVE GuardInv
  OBVIOUS
<1>1. stack = <<>> /\ DOMAIN stack = {}
  BY DEF Init
<1>2. EnteredFrames = {} /\ GuardedFrames = {}
  BY <1>1 DEF EnteredFrames, GuardedFrames
<1>3. Cardinality(EnteredFrames) = 0
  BY <1>2, FS_EmptySet
<1>4. TypeOK
  <2>1. request \in Pairs
    BY RootsAssumption DEF Init, Pairs
  <2>2. stack \in Seq(Frame)
    BY DEF Init
  <2> QED
    BY <2>1, <2>2 DEF Init, TypeOK
<1>5. ActiveMatchesStack
  BY <1>2 DEF Init, ActiveMatchesStack
<1>6. DepthMatchesStack
  BY <1>3, MaxDepthAssumption DEF Init, DepthMatchesStack
<1> QED
  BY <1>4, <1>5, <1>6 DEF GuardInv

\* The frames of a bounded stack are finitely many.
LEMMA FramesFinite ==
  ASSUME TypeOK
  PROVE  IsFiniteSet(EnteredFrames)
<1>1. DOMAIN stack = 1..Len(stack) /\ Len(stack) \in Nat
  BY DEF TypeOK
<1>2. IsFiniteSet(1..Len(stack))
  BY <1>1, FS_Interval
<1> QED
  BY <1>1, <1>2, FS_Subset DEF EnteredFrames

\* What a push does to the frames of the stack.
LEMMA AppendFrame ==
  ASSUME NEW q \in Seq(Frame), NEW frame \in Frame
  PROVE  /\ Append(q, frame) \in Seq(Frame)
         /\ Len(Append(q, frame)) = Len(q) + 1
         /\ \A i \in 1..Len(q) : Append(q, frame)[i] = q[i]
         /\ Append(q, frame)[Len(q) + 1] = frame
  OBVIOUS

\* A tracked call that is neither a cycle nor too deep keeps the guard exact.
LEMMA EnterGuard ==
  ASSUME GuardInv, Enter
  PROVE  GuardInv'
<1> DEFINE top == Len(stack) + 1
<1>0. TypeOK /\ ActiveMatchesStack /\ DepthMatchesStack
  BY DEF GuardInv
<1>1. request \in Pairs /\ Push(TRUE)
  BY <1>0 DEF Enter, TypeOK
<1>2. /\ stack' \in Seq(Frame)
      /\ Len(stack') = top
      /\ \A i \in 1..Len(stack) : stack'[i] = stack[i]
      /\ stack'[top].schema = request[1]
      /\ stack'[top].value = request[2]
      /\ stack'[top].entered
  <2> DEFINE frame == [schema |-> request[1], value |-> request[2],
                       entered |-> TRUE, next |-> 1, matches |-> 0]
  <2>1. frame \in Frame
    BY <1>1 DEF Frame, Pairs
  <2>2. stack' = Append(stack, frame) /\ stack \in Seq(Frame)
    BY <1>0, <1>1 DEF Push, TypeOK
  <2>3. frame.schema = request[1] /\ frame.value = request[2] /\ frame.entered
    OBVIOUS
  <2> HIDE DEF frame
  <2> QED
    BY <2>1, <2>2, <2>3, AppendFrame
<1>3. Len(stack) \in Nat /\ DOMAIN stack = 1..Len(stack)
      /\ DOMAIN stack' = 1..top /\ top \notin 1..Len(stack)
  BY <1>0, <1>2 DEF TypeOK
<1>4. DOMAIN stack' = DOMAIN stack \cup {top}
  BY <1>3
<1>5. EnteredFrames' = EnteredFrames \cup {top}
  BY <1>2, <1>3, <1>4 DEF EnteredFrames
<1>6. Cardinality(EnteredFrames') = Cardinality(EnteredFrames) + 1
  <2>1. IsFiniteSet(EnteredFrames) /\ top \notin EnteredFrames
    BY <1>0, <1>3, FramesFinite DEF EnteredFrames
  <2> QED
    BY <2>1, <1>5, FS_AddElement
<1>7. TypeOK'
  <2>1. UNCHANGED <<root, result, starved>> /\ request' = NoRequest
    BY <1>1 DEF Push
  <2>2. active' \in SUBSET Pairs /\ depth' \in Nat
    BY <1>0, <1>1 DEF TypeOK, Enter
  <2> QED
    BY <2>1, <2>2, <1>0, <1>2 DEF TypeOK
<1>8. DepthMatchesStack'
  <2>1. depth < MaxDepth /\ depth' = depth + 1
    BY <1>0, MaxDepthAssumption DEF Enter, IsBudget, IsCycle, TypeOK
  <2> QED
    BY <2>1, <1>0, <1>6, MaxDepthAssumption DEF DepthMatchesStack, TypeOK
<1>9. \A i \in DOMAIN stack : PairOf(stack'[i]) = PairOf(stack[i])
  BY <1>2, <1>3 DEF PairOf
<1>10. PairOf(stack'[top]) = request
  BY <1>1, <1>2 DEF PairOf, Pairs
<1>11. GuardedFrames \subseteq DOMAIN stack
  BY DEF GuardedFrames, EnteredFrames
<1>12. CASE IsRef(Heap, request[2])
  <2>1. GuardedFrames' = GuardedFrames \cup {top}
    BY <1>2, <1>3, <1>5, <1>12 DEF GuardedFrames, EnteredFrames
  <2>2. active' = active \cup {request} /\ request \notin active
    BY <1>12 DEF Enter, IsCycle
  <2>3. active = {PairOf(stack[i]) : i \in GuardedFrames}
    BY <1>0 DEF ActiveMatchesStack
  <2>4. active' = {PairOf(stack'[i]) : i \in GuardedFrames'}
    BY <2>1, <2>2, <2>3, <1>9, <1>10, <1>11
  <2>5. \A i, j \in GuardedFrames' : PairOf(stack'[i]) = PairOf(stack'[j]) => i = j
    <3>1. \A i \in GuardedFrames : PairOf(stack'[i]) \in active /\ PairOf(stack'[i]) = PairOf(stack[i])
      BY <2>3, <1>9, <1>11
    <3> QED
      BY <3>1, <2>1, <2>2, <1>0, <1>10 DEF ActiveMatchesStack
  <2> QED
    BY <2>4, <2>5, <1>7, <1>8 DEF GuardInv, ActiveMatchesStack
<1>13. CASE ~IsRef(Heap, request[2])
  <2>1. GuardedFrames' = GuardedFrames
    BY <1>2, <1>3, <1>5, <1>13 DEF GuardedFrames, EnteredFrames
  <2>2. active' = active
    BY <1>13 DEF Enter
  <2>3. {PairOf(stack'[i]) : i \in GuardedFrames'} = {PairOf(stack[i]) : i \in GuardedFrames}
    BY <2>1, <1>9, <1>11
  <2>4. \A i, j \in GuardedFrames' : PairOf(stack'[i]) = PairOf(stack'[j]) => i = j
    BY <2>1, <1>0, <1>9, <1>11 DEF ActiveMatchesStack
  <2> QED
    BY <2>2, <2>3, <2>4, <1>0, <1>7, <1>8 DEF GuardInv, ActiveMatchesStack
<1> QED
  BY <1>12, <1>13

\* An untracked call leaves the guard alone.
LEMMA RunUntrackedGuard ==
  ASSUME GuardInv, RunUntracked
  PROVE  GuardInv'
<1> DEFINE top == Len(stack) + 1
<1>0. TypeOK /\ ActiveMatchesStack /\ DepthMatchesStack
  BY DEF GuardInv
<1>1. request \in Pairs /\ Push(FALSE)
  BY <1>0 DEF RunUntracked, TypeOK
<1>2. /\ stack' \in Seq(Frame)
      /\ Len(stack') = top
      /\ \A i \in 1..Len(stack) : stack'[i] = stack[i]
      /\ ~stack'[top].entered
  <2> DEFINE frame == [schema |-> request[1], value |-> request[2],
                       entered |-> FALSE, next |-> 1, matches |-> 0]
  <2>1. frame \in Frame
    BY <1>1 DEF Frame, Pairs
  <2>2. stack' = Append(stack, frame) /\ stack \in Seq(Frame)
    BY <1>0, <1>1 DEF Push, TypeOK
  <2>3. frame.schema = request[1] /\ frame.value = request[2] /\ ~frame.entered
    OBVIOUS
  <2> HIDE DEF frame
  <2> QED
    BY <2>1, <2>2, <2>3, AppendFrame
<1>3. Len(stack) \in Nat /\ DOMAIN stack = 1..Len(stack) /\ DOMAIN stack' = 1..top
  BY <1>0, <1>2 DEF TypeOK
<1>4. EnteredFrames' = EnteredFrames
  BY <1>2, <1>3 DEF EnteredFrames
<1>5. GuardedFrames' = GuardedFrames /\ GuardedFrames \subseteq DOMAIN stack
  BY <1>2, <1>3, <1>4 DEF GuardedFrames, EnteredFrames
<1>6. \A i \in DOMAIN stack : PairOf(stack'[i]) = PairOf(stack[i])
  BY <1>2, <1>3 DEF PairOf
<1>7. UNCHANGED <<root, result, starved, active, depth>> /\ request' = NoRequest
  BY <1>1 DEF Push, RunUntracked
<1>8. TypeOK'
  BY <1>0, <1>2, <1>7 DEF TypeOK
<1>9. DepthMatchesStack'
  BY <1>0, <1>4, <1>7 DEF DepthMatchesStack
<1>10. ActiveMatchesStack'
  <2>1. {PairOf(stack'[i]) : i \in GuardedFrames'} = {PairOf(stack[i]) : i \in GuardedFrames}
    BY <1>5, <1>6
  <2>2. \A i, j \in GuardedFrames' : PairOf(stack'[i]) = PairOf(stack'[j]) => i = j
    BY <1>0, <1>5, <1>6 DEF ActiveMatchesStack
  <2> QED
    BY <2>1, <2>2, <1>0, <1>7 DEF ActiveMatchesStack
<1> QED
  BY <1>8, <1>9, <1>10 DEF GuardInv

\* The innermost activation and its items.
LEMMA TopFrame ==
  ASSUME TypeOK, stack # <<>>
  PROVE  /\ Len(stack) \in Nat \ {0}
         /\ Top \in Frame
         /\ Top.schema \in Schema /\ Top.value \in Value
         /\ TopItems \in Seq(Item)
<1>1. stack \in Seq(Frame)
  BY DEF TypeOK
<1>2. Len(stack) \in Nat \ {0}
  BY <1>1
<1>3. Top \in Frame
  BY <1>1, <1>2, ElementOfSeq DEF Top
<1>4. Top.schema \in Schema /\ Top.value \in Value
  BY <1>3 DEF Frame
<1>5. TopItems \in Seq(Within(Callees(Top.schema)))
  BY <1>4, HeapAssumption, ItemsType DEF TopItems, Reflected
<1>6. Within(Callees(Top.schema)) \subseteq Item
  BY <1>4, CalleesAreSchemas DEF Within
<1>7. TopItems \in Seq(Item)
  BY <1>5, <1>6
<1> QED
  BY <1>2, <1>3, <1>4, <1>7

\* What a pop does to the frames of the stack.
LEMMA PopFrame ==
  ASSUME NEW q \in Seq(Frame), Len(q) > 0
  PROVE  /\ SubSeq(q, 1, Len(q) - 1) \in Seq(Frame)
         /\ Len(SubSeq(q, 1, Len(q) - 1)) = Len(q) - 1
         /\ \A i \in 1..(Len(q) - 1) : SubSeq(q, 1, Len(q) - 1)[i] = q[i]
<1> DEFINE n == Len(q) - 1
           rest == SubSeq(q, 1, n)
<1>1. n \in Nat /\ \A i \in 1..n : q[i] \in Frame
  BY ElementOfSeq
<1> HIDE DEF n
<1>2. rest \in Seq(Frame)
  BY <1>1, SubSeqProperties
<1>3. Len(rest) = IF 1 <= n THEN n - 1 + 1 ELSE 0
  BY <1>1, SubSeqProperties
<1>4. \A i \in 1..(n - 1 + 1) : rest[i] = q[1 + i - 1]
  BY <1>1, SubSeqProperties
<1> HIDE DEF rest
<1>5. Len(rest) = n /\ \A i \in 1..n : rest[i] = q[i]
  BY <1>1, <1>3, <1>4
<1> QED
  BY <1>2, <1>5 DEF rest, n

\* An activation leaves: what Return changes, whatever it answers.
Leaves ==
  /\ stack' = SubSeq(stack, 1, Len(stack) - 1)
  /\ depth' = IF Top.entered THEN depth - 1 ELSE depth
  /\ active' = IF Top.entered /\ IsRef(Heap, Top.value)
                 THEN active \ {<<Top.schema, Top.value>>} ELSE active
  /\ request' = NoRequest /\ result' \in {"accept", "reject"}
  /\ UNCHANGED <<root, starved>>

\* Leaving removes exactly the pair and the depth of the frame that leaves.
LEMMA LeavesGuard ==
  ASSUME GuardInv, stack # <<>>, Leaves
  PROVE  GuardInv'
<1> DEFINE top == Len(stack)
           below == 1..(Len(stack) - 1)
<1>0. TypeOK /\ ActiveMatchesStack /\ DepthMatchesStack
  BY DEF GuardInv
<1>1. stack \in Seq(Frame) /\ top \in Nat \ {0}
  BY <1>0, TopFrame DEF TypeOK
<1>2. /\ stack' \in Seq(Frame)
      /\ Len(stack') = top - 1
      /\ \A i \in below : stack'[i] = stack[i]
  BY <1>1, PopFrame DEF Leaves
<1>3. /\ DOMAIN stack = below \cup {top} /\ DOMAIN stack' = below
      /\ top \notin below
  BY <1>1, <1>2
<1>4. EnteredFrames' = EnteredFrames \ {top}
  BY <1>2, <1>3 DEF EnteredFrames
<1>5. GuardedFrames' = GuardedFrames \ {top} /\ GuardedFrames' \subseteq below
  BY <1>2, <1>3, <1>4 DEF GuardedFrames, EnteredFrames
<1>6. IsFiniteSet(EnteredFrames)
  BY <1>0, FramesFinite
<1>7. depth' = Cardinality(EnteredFrames') /\ depth' \in Nat /\ depth' <= MaxDepth
  <2>1. CASE Top.entered
    <3>1. top \in EnteredFrames
      BY <2>1, <1>3 DEF EnteredFrames, Top
    <3>2. Cardinality(EnteredFrames') = Cardinality(EnteredFrames) - 1
      BY <3>1, <1>4, <1>6, FS_RemoveElement
    <3>3. Cardinality(EnteredFrames') \in Nat
      BY <1>4, <1>6, FS_RemoveElement, FS_Subset, FS_CardinalityType
    <3> QED
      BY <2>1, <3>2, <3>3, <1>0, MaxDepthAssumption
      DEF Leaves, DepthMatchesStack, TypeOK
  <2>2. CASE ~Top.entered
    <3>1. EnteredFrames' = EnteredFrames
      BY <2>2, <1>4 DEF EnteredFrames, Top
    <3> QED
      BY <2>2, <3>1, <1>0 DEF Leaves, DepthMatchesStack, TypeOK
  <2> QED
    BY <2>1, <2>2
<1>8. TypeOK'
  <2>1. active' \in SUBSET Pairs
    BY <1>0 DEF Leaves, TypeOK
  <2>2. request' \in Pairs \cup {NoRequest} /\ root' \in Roots /\ starved' \in BOOLEAN
    BY <1>0 DEF Leaves, TypeOK
  <2> QED
    BY <2>1, <2>2, <1>2, <1>7 DEF Leaves, TypeOK
<1>9. ActiveMatchesStack'
  <2>1. /\ active = {PairOf(stack[i]) : i \in GuardedFrames}
        /\ \A i, j \in GuardedFrames : PairOf(stack[i]) = PairOf(stack[j]) => i = j
    BY <1>0 DEF ActiveMatchesStack
  <2>2. \A i \in GuardedFrames' : i \in GuardedFrames
                                  /\ PairOf(stack'[i]) = PairOf(stack[i])
    BY <1>2, <1>5
  <2>3. \A i, j \in GuardedFrames' : PairOf(stack'[i]) = PairOf(stack'[j]) => i = j
    BY <2>1, <2>2
  <2>4. active' = {PairOf(stack'[i]) : i \in GuardedFrames'}
    <3>1. CASE Top.entered /\ IsRef(Heap, Top.value)
      <4>1. top \in GuardedFrames
        BY <3>1, <1>3 DEF GuardedFrames, EnteredFrames, Top
      <4>2. active' = active \ {PairOf(stack[top])}
        BY <3>1 DEF Leaves, PairOf, Top
      <4>3. \A i \in GuardedFrames : PairOf(stack[i]) = PairOf(stack[top]) => i = top
        BY <4>1, <2>1
      <4> HIDE DEF top
      <4> QED
        BY <4>2, <4>3, <2>1, <2>2, <1>5
    <3>2. CASE ~(Top.entered /\ IsRef(Heap, Top.value))
      <4>1. GuardedFrames' = GuardedFrames
        BY <3>2, <1>5 DEF GuardedFrames, EnteredFrames, Top
      <4>2. active' = active
        BY <3>2 DEF Leaves
      <4> QED
        BY <4>1, <4>2, <2>1, <2>2
    <3> QED
      BY <3>1, <3>2
  <2> QED
    BY <2>3, <2>4 DEF ActiveMatchesStack
<1> QED
  BY <1>7, <1>8, <1>9 DEF GuardInv, DepthMatchesStack

\* An activation moves to its next item: its pair and its entry stay.
LEMMA AdvanceGuard ==
  ASSUME GuardInv, stack # <<>>, NEW accepted \in BOOLEAN,
         stack' = [stack EXCEPT ![Len(stack)] = Advance(@, accepted)],
         result' = "none", UNCHANGED <<root, request, active, depth, starved>>
  PROVE  GuardInv'
<1>0. TypeOK /\ ActiveMatchesStack /\ DepthMatchesStack
  BY DEF GuardInv
<1>1. stack \in Seq(Frame) /\ Len(stack) \in 1..Len(stack)
  BY <1>0, TopFrame DEF TypeOK
<1>2. Advance(Top, accepted) \in Frame
  <2>1. Top.next + 1 \in Nat \ {0} /\ Top.matches + 1 \in Nat
    BY <1>0, TopFrame DEF Frame
  <2>2. (IF accepted THEN Top.matches + 1 ELSE Top.matches) \in Nat
    BY <2>1, <1>0, TopFrame DEF Frame
  <2> QED
    BY <2>1, <2>2, <1>0, TopFrame DEF Advance, Frame
<1>3. /\ stack' \in Seq(Frame) /\ DOMAIN stack' = DOMAIN stack
      /\ \A i \in DOMAIN stack :
           stack'[i] = IF i = Len(stack) THEN Advance(Top, accepted) ELSE stack[i]
  BY <1>1, <1>2 DEF Top
<1>4. \A i \in DOMAIN stack :
        /\ stack'[i].schema = stack[i].schema
        /\ stack'[i].value = stack[i].value
        /\ stack'[i].entered = stack[i].entered
  <2>1. /\ Advance(Top, accepted).schema = Top.schema
        /\ Advance(Top, accepted).value = Top.value
        /\ Advance(Top, accepted).entered = Top.entered
    BY <1>0, TopFrame DEF Advance, Frame
  <2> QED
    BY <1>3, <2>1 DEF Top
<1>5. EnteredFrames' = EnteredFrames /\ GuardedFrames' = GuardedFrames
  BY <1>3, <1>4 DEF EnteredFrames, GuardedFrames
<1>6. \A i \in GuardedFrames : PairOf(stack'[i]) = PairOf(stack[i])
  BY <1>4 DEF PairOf, GuardedFrames, EnteredFrames
<1>7. TypeOK'
  BY <1>0, <1>3 DEF TypeOK
<1>8. DepthMatchesStack'
  BY <1>0, <1>5 DEF DepthMatchesStack
<1>9. ActiveMatchesStack'
  <2>1. {PairOf(stack'[i]) : i \in GuardedFrames'}
          = {PairOf(stack[i]) : i \in GuardedFrames}
    BY <1>5, <1>6
  <2> QED
    BY <2>1, <1>0, <1>5, <1>6 DEF ActiveMatchesStack
<1> QED
  BY <1>7, <1>8, <1>9 DEF GuardInv

\* The actions that leave the stack alone only answer or request a typed call.
LEMMA QuietGuard ==
  ASSUME GuardInv, UNCHANGED <<root, stack, active, depth>>,
         request' \in Pairs \cup {NoRequest},
         result' \in {"none", "accept", "reject"}, starved' \in BOOLEAN
  PROVE  GuardInv'
<1>1. EnteredFrames' = EnteredFrames /\ GuardedFrames' = GuardedFrames
  BY DEF EnteredFrames, GuardedFrames
<1>2. TypeOK'
  BY DEF GuardInv, TypeOK
<1>3. ActiveMatchesStack' /\ DepthMatchesStack'
  BY <1>1 DEF GuardInv, ActiveMatchesStack, DepthMatchesStack
<1> QED
  BY <1>2, <1>3 DEF GuardInv

LEMMA NextGuard == GuardInv /\ [Next]_vars => GuardInv'
<1> SUFFICES ASSUME GuardInv, [Next]_vars
             PROVE  GuardInv'
  OBVIOUS
<1>0. TypeOK
  BY DEF GuardInv
<1>1. CASE Cycle
  <2>1. /\ UNCHANGED <<root, stack, active, depth, starved>>
        /\ request' = NoRequest /\ result' \in {"accept", "reject"}
    BY <1>1 DEF Cycle, Answer
  <2> QED
    BY <2>1, <1>0, QuietGuard DEF TypeOK
<1>2. CASE Budget
  <2>1. /\ UNCHANGED <<root, stack, active, depth>> /\ starved' = TRUE
        /\ request' = NoRequest /\ result' \in {"accept", "reject"}
    BY <1>2 DEF Budget, Answer
  <2> QED
    BY <2>1, <1>0, QuietGuard DEF TypeOK
<1>3. CASE Enter
  BY <1>3, EnterGuard
<1>4. CASE RunUntracked
  BY <1>4, RunUntrackedGuard
<1>5. CASE NextItem
  <2> DEFINE item == TopItems[Top.next]
  <2>1. stack # <<>> /\ Top.next <= Len(TopItems)
        /\ UNCHANGED <<root, stack, active, depth, starved>>
    BY <1>5 DEF NextItem
  <2>2. IF item.call THEN request' = <<item.schema, item.value>> /\ UNCHANGED result
                     ELSE request' = NoRequest /\ result' \in {"accept", "reject"}
    BY <1>5 DEF NextItem, Answer
  <2>3. item \in Item
    <3>1. Top.next \in Nat \ {0}
      BY <2>1, <1>0, TopFrame DEF Frame
    <3>2. Top.next \in 1..Len(TopItems)
      BY <3>1, <2>1, <1>0, TopFrame
    <3> QED
      BY <3>2, <2>1, <1>0, TopFrame, ElementOfSeq
  <2>4. request' \in Pairs \cup {NoRequest}
    BY <2>2, <2>3 DEF Item, Pairs
  <2>5. result' \in {"none", "accept", "reject"}
    BY <2>2, <1>0 DEF TypeOK
  <2> QED
    BY <2>1, <2>4, <2>5, <1>0, QuietGuard DEF TypeOK
<1>6. CASE Absorb
  <2>1. stack # <<>>
    BY <1>6 DEF Absorb
  <2>2. CASE Decides(result = "accept")
    <3>1. Leaves
      BY <1>6, <2>2 DEF Absorb, Return, LeaveWith, Answer, Leaves
    <3> QED
      BY <2>1, <3>1, LeavesGuard
  <2>3. CASE ~Decides(result = "accept")
    <3> DEFINE accepted == result = "accept"
    <3>1. /\ stack' = [stack EXCEPT ![Len(stack)] = Advance(@, accepted)]
          /\ result' = "none"
          /\ UNCHANGED <<root, request, active, depth, starved>>
      BY <1>6, <2>3 DEF Absorb
    <3>2. accepted \in BOOLEAN
      OBVIOUS
    <3> HIDE DEF accepted
    <3> QED
      BY <2>1, <3>1, <3>2, AdvanceGuard
  <2> QED
    BY <2>2, <2>3
<1>7. CASE Finish
  <2>1. stack # <<>> /\ Leaves
    BY <1>7 DEF Finish, Return, LeaveWith, Answer, Leaves
  <2> QED
    BY <2>1, LeavesGuard
<1>8. CASE UNCHANGED vars
  <2>1. /\ UNCHANGED <<root, stack, active, depth, request, result, starved>>
    BY <1>8 DEF vars
  <2> QED
    BY <2>1, <1>0, QuietGuard DEF TypeOK
<1> QED
  BY <1>1, <1>2, <1>3, <1>4, <1>5, <1>6, <1>7, <1>8 DEF Next

LEMMA GuardAlways == Spec => []GuardInv
  BY InitGuard, NextGuard, PTL DEF Spec

\* Every reachable state is well typed: in particular every requested call names
\* a schema of the graph, and the depth counter never goes below zero.
THEOREM TypeCorrect == Spec => []TypeOK
  BY GuardAlways, PTL DEF GuardInv

\* The recursion guard's set of pairs is exactly that of the live activations:
\* leaveValidation is called once for each enterValidation that entered.
THEOREM GuardIsExact == Spec => []ActiveMatchesStack
  BY GuardAlways, PTL DEF GuardInv

\* The depth counter is the number of entered activations and stays within the
\* budget, whatever the graph and the value.
THEOREM DepthIsBounded == Spec => []DepthMatchesStack
  BY GuardAlways, PTL DEF GuardInv

-----------------------------------------------------------------------------
(* The verdict: is() decides what the schema graph denotes, on a graph      *)
(* without xor the greatest fixpoint, and on any graph, for a root that     *)
(* reaches no xor, the iterated denotation.  The run of is() is a walk in   *)
(* the sense of SchemaDenotationProofs; what remains is that each action is *)
(* a step of it, for which the recursion guard has to be exact.             *)

\* The inductive invariant: the guard is exact, every activation of a tracked
\* schema entered, and the run is a walk over the schemas of X.
EnteredAreTracked == \A k \in 1..Len(stack) : stack[k].entered = Tracked(stack[k].schema)

VerdictInv(X) ==
  /\ GuardInv /\ EnteredAreTracked
  /\ root[1] \in X => WalkInv(Heap, X, root, stack, ~starved, request, result)

-----------------------------------------------------------------------------
(* The guard and the hypotheses of the walk                                 *)

\* The hypotheses of the innermost activation are the active pairs.
LEMMA AssumedIsActive ==
  ASSUME GuardInv
  PROVE  Assumed(Heap, stack, Len(stack)) = active
<1>1. DOMAIN stack = 1..Len(stack)
  BY DEF GuardInv, TypeOK
<1>2. \A i \in 1..Len(stack) : Guards(Heap, stack[i]) <=> i \in GuardedFrames
  BY <1>1 DEF Guards, GuardedFrames, EnteredFrames
<1>3. GuardedFrames \subseteq 1..Len(stack)
  BY <1>1 DEF GuardedFrames, EnteredFrames
<1>4. {j \in 1..Len(stack) : Guards(Heap, stack[j])} = GuardedFrames
  BY <1>2, <1>3
<1>5. \A i \in GuardedFrames : FramePair(stack[i]) = PairOf(stack[i])
  BY DEF FramePair, PairOf
<1>6. Assumed(Heap, stack, Len(stack)) = {PairOf(stack[i]) : i \in GuardedFrames}
  BY <1>4, <1>5 DEF Assumed
<1> QED
  BY <1>6 DEF GuardInv, ActiveMatchesStack

\* A call that runs its items is for a pair not yet assumed: a tracked one is no
\* cycle, and activations of an untracked schema do not enter.
LEMMA RequestIsFresh ==
  ASSUME GuardInv, EnteredAreTracked, request # NoRequest,
         Tracked(request[1]) => ~IsCycle(request)
  PROVE  request \notin Assumed(Heap, stack, Len(stack))
<1> SUFFICES ASSUME NEW i \in 1..Len(stack), Guards(Heap, stack[i]),
                    FramePair(stack[i]) = request
             PROVE  FALSE
  BY DEF Assumed
<1>1. request[1] = stack[i].schema /\ request[2] = stack[i].value
  BY DEF FramePair
<1>2. Tracked(request[1]) /\ IsRef(Heap, request[2])
  BY <1>1 DEF EnteredAreTracked, Guards
<1>3. DOMAIN stack = 1..Len(stack)
  BY DEF GuardInv, TypeOK
<1>4. i \in GuardedFrames /\ PairOf(stack[i]) = request
  BY <1>3 DEF Guards, GuardedFrames, EnteredFrames, FramePair, PairOf
<1>5. request \in active
  BY <1>4 DEF GuardInv, ActiveMatchesStack
<1> QED
  BY <1>2, <1>5 DEF IsCycle

-----------------------------------------------------------------------------
(* Every step is a step of the walk                                         *)

LEMMA InitVerdict ==
  ASSUME NEW X, Monotone(X), Init
  PROVE  VerdictInv(X)
<1>1. GuardInv
  BY InitGuard
<1>2. stack = <<>> /\ Len(stack) = 0 /\ result = "none" /\ request = root
      /\ root \in Schema \X Value
  BY RootsAssumption DEF Init
<1>3. EnteredAreTracked
  BY <1>2 DEF EnteredAreTracked
<1>4. ASSUME root[1] \in X
      PROVE  WalkInv(Heap, X, root, stack, ~starved, request, result)
  <2>1. root \in PairsOf(X)
    BY <1>2, <1>4 DEF PairsOf
  <2> QED
    BY <1>2, <2>1, WalkStarts
<1> QED
  BY <1>1, <1>3, <1>4 DEF VerdictInv

\* Which activations entered changes only by a push.
LEMMA NextEntered ==
  ASSUME GuardInv, EnteredAreTracked, [Next]_vars
  PROVE  EnteredAreTracked'
<1>0. TypeOK /\ stack \in Seq(Frame) /\ Len(stack) \in Nat
  BY DEF GuardInv, TypeOK
<1>1. ASSUME request # NoRequest, NEW entered \in BOOLEAN, Push(entered),
             entered = Tracked(request[1])
      PROVE  EnteredAreTracked'
  <2> DEFINE frame == [schema |-> request[1], value |-> request[2],
                       entered |-> entered, next |-> 1, matches |-> 0]
  <2>1. frame \in Frame
    BY <1>0, <1>1 DEF Frame, Pairs, TypeOK
  <2>2. stack' = Append(stack, frame)
    BY <1>1 DEF Push
  <2>3. frame.schema = request[1] /\ frame.entered = entered
    OBVIOUS
  <2> HIDE DEF frame
  <2>4. /\ Len(stack') = Len(stack) + 1
        /\ \A i \in 1..Len(stack) : stack'[i] = stack[i]
        /\ stack'[Len(stack) + 1] = frame
    BY <2>1, <2>2, <1>0, AppendFrame
  <2>5. frame.entered = Tracked(frame.schema)
    BY <2>3, <1>1
  <2> SUFFICES ASSUME NEW k \in 1..Len(stack')
               PROVE  stack'[k].entered = Tracked(stack'[k].schema)
    BY DEF EnteredAreTracked, Tracked
  <2>6. k \in 1..Len(stack) \/ k = Len(stack) + 1
    BY <2>4, <1>0
  <2> QED
    BY <2>4, <2>5, <2>6 DEF EnteredAreTracked
<1>2. ASSUME stack # <<>>, Leaves
      PROVE  EnteredAreTracked'
  <2>1. Len(stack') = Len(stack) - 1 /\ \A i \in 1..(Len(stack) - 1) : stack'[i] = stack[i]
    BY <1>0, <1>2, TopFrame, PopFrame DEF Leaves
  <2> QED
    BY <2>1, <1>0 DEF EnteredAreTracked, Tracked
<1>3. ASSUME stack # <<>>, NEW accepted,
             stack' = [stack EXCEPT ![Len(stack)] = Advance(@, accepted)]
      PROVE  EnteredAreTracked'
  <2>1. Len(stack) \in 1..Len(stack)
    BY <1>0, <1>3, TopFrame
  <2>2. stack[Len(stack)] \in Frame
    BY <1>0, <2>1, ElementOfSeq
  <2>3. /\ Advance(stack[Len(stack)], accepted).schema = stack[Len(stack)].schema
        /\ Advance(stack[Len(stack)], accepted).entered = stack[Len(stack)].entered
    BY <2>2 DEF Advance, Frame
  <2>4. /\ Len(stack') = Len(stack)
        /\ \A i \in 1..Len(stack) : stack'[i].schema = stack[i].schema
                                    /\ stack'[i].entered = stack[i].entered
    BY <1>0, <1>3, <2>1, <2>3
  <2> QED
    BY <2>4 DEF EnteredAreTracked, Tracked
<1>4. ASSUME UNCHANGED stack PROVE EnteredAreTracked'
  BY <1>4 DEF EnteredAreTracked, Tracked
<1>5. CASE Enter
  BY <1>1, <1>5 DEF Enter, Tracked
<1>6. CASE RunUntracked
  <2>1. request # NoRequest /\ Push(FALSE) /\ ~Tracked(request[1])
    BY <1>6 DEF RunUntracked
  <2>2. Tracked(request[1]) = FALSE
    BY <2>1 DEF Tracked
  <2> QED
    BY <1>1, <2>1, <2>2
<1>7. CASE Absorb
  <2>1. CASE Decides(result = "accept")
    BY <1>2, <1>7, <2>1 DEF Absorb, Return, LeaveWith, Answer, Leaves
  <2>2. CASE ~Decides(result = "accept")
    BY <1>3, <1>7, <2>2 DEF Absorb
  <2> QED
    BY <2>1, <2>2
<1>8. CASE Finish
  BY <1>2, <1>8 DEF Finish, Return, LeaveWith, Answer, Leaves
<1>9. CASE Cycle \/ Budget \/ NextItem \/ UNCHANGED vars
  BY <1>4, <1>9 DEF Cycle, Budget, NextItem, vars
<1> QED
  BY <1>5, <1>6, <1>7, <1>8, <1>9 DEF Next

LEMMA NextWalks ==
  ASSUME NEW X, Monotone(X), VerdictInv(X), root[1] \in X, [Next]_vars
  PROVE  WalkInv(Heap, X, root', stack', ~starved', request', result')
<1> DEFINE n == Len(stack)
<1>0. /\ GuardInv /\ TypeOK /\ stack \in Seq(Frame) /\ n \in Nat
      /\ WalkInv(Heap, X, root, stack, ~starved, request, result)
  BY DEF VerdictInv, GuardInv, TypeOK
<1>r. Reflected(Heap) /\ root' = root /\ NoRequest = <<>>
  BY HeapAssumption DEF Reflected, NoRequest, Next, vars, Cycle, Budget, Enter, RunUntracked,
       Push, NextItem, Absorb, Finish, Return, LeaveWith
<1>1. CASE Cycle
  <2>1. request # NoRequest /\ request \in Assumed(Heap, stack, n) /\ request' = NoRequest
        /\ result' = "accept" /\ stack' = stack /\ starved' = starved
    BY <1>1, <1>0, AssumedIsActive DEF Cycle, IsCycle, Answer
  <2> QED
    BY <2>1, <1>0, <1>r, CycleWalk
<1>2. CASE Budget
  <2>1. request # NoRequest /\ request' = NoRequest /\ starved' = TRUE
        /\ result' = "reject" /\ stack' = stack
    BY <1>2 DEF Budget, Answer
  <2>2. WalkInv(Heap, X, root, stack, FALSE, <<>>, "reject")
    BY <2>1, <1>0, <1>r, BudgetWalk
  <2>3. ~starved' = FALSE
    BY <2>1
  <2> QED
    BY <2>1, <2>2, <2>3, <1>r
<1>3. ASSUME request # NoRequest, Tracked(request[1]) => ~IsCycle(request),
             NEW entered \in BOOLEAN, Push(entered)
      PROVE  WalkInv(Heap, X, root', stack', ~starved', request', result')
  <2> DEFINE frame == [schema |-> request[1], value |-> request[2],
                       entered |-> entered, next |-> 1, matches |-> 0]
  <2>1. request \in Pairs
    BY <1>0, <1>3 DEF TypeOK
  <2>2. frame \in Frame /\ FramePair(frame) = request /\ frame.next = 1
    BY <2>1, <1>3 DEF Frame, Pairs, FramePair
  <2>3. stack' = Append(stack, frame) /\ request' = NoRequest
        /\ result' = result /\ starved' = starved
    BY <1>3 DEF Push
  <2> HIDE DEF frame
  <2>4. /\ Len(stack') = n + 1
        /\ \A i \in 1..n : stack'[i] = stack[i]
        /\ FramePair(stack'[Len(stack')]) = request /\ stack'[Len(stack')].next = 1
    BY <2>2, <2>3, <1>0, AppendFrame
  <2>5. request \notin Assumed(Heap, stack, n)
    BY <1>3, RequestIsFresh DEF VerdictInv
  <2>6. result = "none"
    BY <1>0, <1>3, <1>r DEF WalkInv
  <2>7. WalkInv(Heap, X, root, stack', ~starved, <<>>, "none")
    BY <2>4, <2>5, <1>0, <1>3, <1>r, PushWalk
  <2> QED
    BY <2>3, <2>6, <2>7, <1>r
<1>4. CASE Enter
  BY <1>3, <1>4 DEF Enter
<1>5. CASE RunUntracked
  BY <1>3, <1>5 DEF RunUntracked
<1>6. CASE NextItem
  <2> DEFINE item == TopItems[Top.next]
  <2>1. /\ request = NoRequest /\ result = "none" /\ stack # <<>>
        /\ Top.next <= Len(TopItems) /\ stack' = stack /\ starved' = starved
        /\ IF item.call THEN request' = <<item.schema, item.value>> /\ UNCHANGED result
                        ELSE Answer(item.ok)
    BY <1>6 DEF NextItem
  <2>2. n > 0 /\ Top.next <= Len(ItemsOf(Heap, stack[n])) /\ item = Current(Heap, stack[n])
    BY <2>1, <1>0, TopFrame DEF Top, TopItems, Current, ItemsOf
  <2> HIDE DEF item
  <2>3. /\ item.call => request' = <<item.schema, item.value>> /\ result' = "none"
        /\ ~item.call => request' = <<>> /\ result' = IF item.ok THEN "accept" ELSE "reject"
    BY <2>1, <1>r DEF Answer
  <2>4. WalkInv(Heap, X, root, stack, ~starved, <<>>, "none")
    BY <2>1, <1>0, <1>r
  <2>5. stack[n].next <= Len(ItemsOf(Heap, stack[n]))
    BY <2>2 DEF Top
  <2>6. WalkInv(Heap, X, root, stack, ~starved, request', result')
    BY <2>2, <2>3, <2>4, <2>5, NextWalk
  <2> QED
    BY <2>1, <2>6, <1>r
<1>7. ASSUME request = NoRequest, stack # <<>>, NEW b \in BOOLEAN, Return(b),
             \/ result # "none" /\ Decides(result = "accept") /\ b = Verdict
             \/ Top.next > Len(TopItems) /\ b = Exhausted
      PROVE  WalkInv(Heap, X, root', stack', ~starved', request', result')
  <2>1. /\ stack' = SubSeq(stack, 1, n - 1) /\ starved' = starved /\ request' = NoRequest
        /\ result' = IF b THEN "accept" ELSE "reject"
    BY <1>7 DEF Return, LeaveWith, Answer
  <2>2. n > 0 /\ n \in 1..n
    BY <1>0, <1>7, TopFrame
  <2>3. Len(stack') = n - 1 /\ \A i \in 1..(n - 1) : stack'[i] = stack[i]
    BY <2>1, <2>2, <1>0, PopFrame
  <2>4. Top = stack[n] /\ TopItems = ItemsOf(Heap, Top)
    BY DEF Top, TopItems, ItemsOf
  <2>5. Combine(Top.schema) \in {"all", "any"}
    BY <2>2, <2>4, <1>0 DEF WalkInv, FrameInv, Monotone
  <2>6. \/ result = "reject" /\ Combine(Top.schema) = "all" /\ result' = "reject"
        \/ result = "accept" /\ Combine(Top.schema) = "any" /\ result' = "accept"
        \/ /\ Top.next > Len(ItemsOf(Heap, Top))
           /\ result' = IF Combine(Top.schema) = "all" THEN "accept" ELSE "reject"
    <3>1. CASE result # "none" /\ Decides(result = "accept") /\ b = Verdict
      BY <3>1, <2>1, <2>5, <1>0 DEF Decides, Verdict, TypeOK
    <3>2. CASE Top.next > Len(TopItems) /\ b = Exhausted
      BY <3>2, <2>1, <2>4, <2>5 DEF Exhausted
    <3> QED
      BY <3>1, <3>2, <1>7
  <2>7. WalkInv(Heap, X, root, stack, ~starved, <<>>, result)
    BY <1>0, <1>7, <1>r
  <2>8. WalkInv(Heap, X, root, stack', ~starved, <<>>, result')
    BY <2>2, <2>3, <2>4, <2>6, <2>7, <1>r, LeaveWalk
  <2> QED
    BY <2>1, <2>8, <1>r
<1>8. CASE Absorb
  <2>1. request = NoRequest /\ result # "none" /\ stack # <<>>
    BY <1>8 DEF Absorb
  <2>2. CASE Decides(result = "accept")
    <3>1. Return(Verdict) /\ Verdict \in BOOLEAN
      BY <1>8, <2>2 DEF Absorb, Verdict, Combine
    <3> QED
      BY <1>7, <2>1, <2>2, <3>1
  <2>3. CASE ~Decides(result = "accept")
    <3> DEFINE frame == Advance(Top, result = "accept")
    <3>1. stack' = [stack EXCEPT ![n] = frame] /\ result' = "none"
          /\ request' = request /\ starved' = starved
      BY <1>8, <2>3 DEF Absorb, Top
    <3>2. Top \in Frame /\ Top = stack[n] /\ n > 0 /\ n \in 1..n
      BY <2>1, <1>0, TopFrame DEF Top
    <3>3. FramePair(frame) = FramePair(Top) /\ frame.entered = Top.entered
          /\ frame.next = Top.next + 1
      BY <3>2 DEF Advance, Frame, FramePair
    <3> HIDE DEF frame
    <3>4. Len(stack') = n /\ (\A i \in 1..(n - 1) : stack'[i] = stack[i]) /\ stack'[n] = frame
      BY <3>1, <3>2, <1>0
    <3>5. Combine(Top.schema) \in {"all", "any"}
      BY <3>2, <1>0 DEF WalkInv, FrameInv, Monotone
    <3>6. \/ result = "accept" /\ Combine(Top.schema) # "any"
          \/ result = "reject" /\ Combine(Top.schema) # "all"
      BY <2>1, <2>3, <3>5, <1>0 DEF Decides, TypeOK
    <3>7. WalkInv(Heap, X, root, stack, ~starved, <<>>, result)
      BY <1>0, <2>1, <1>r
    <3>8. WalkInv(Heap, X, root, stack', ~starved, <<>>, "none")
      BY <3>2, <3>3, <3>4, <3>6, <3>7, AdvanceWalk
    <3> QED
      BY <2>1, <3>1, <3>8, <1>r
  <2> QED
    BY <2>2, <2>3
<1>9. CASE Finish
  <2>1. request = NoRequest /\ stack # <<>> /\ Top.next > Len(TopItems)
        /\ Return(Exhausted)
    BY <1>9 DEF Finish
  <2>2. Exhausted \in BOOLEAN
    BY DEF Exhausted, Combine
  <2> QED
    BY <1>7, <2>1, <2>2
<1>10. CASE UNCHANGED vars
  BY <1>10, <1>0 DEF vars
<1> QED
  BY <1>1, <1>2, <1>4, <1>5, <1>6, <1>8, <1>9, <1>10 DEF Next

LEMMA NextVerdict ==
  ASSUME NEW X, Monotone(X), VerdictInv(X), [Next]_vars
  PROVE  VerdictInv(X)'
<1>1. GuardInv' /\ EnteredAreTracked'
  BY NextGuard, NextEntered DEF VerdictInv
<1>2. root' = root
  BY DEF Next, vars, Cycle, Budget, Enter, RunUntracked, Push, NextItem, Absorb, Finish,
         Return, LeaveWith
<1>3. root[1] \in X => WalkInv(Heap, X, root', stack', ~starved', request', result')
  BY NextWalks
<1> QED
  BY <1>1, <1>2, <1>3 DEF VerdictInv

\* A finished walk answers whether its root is in the fixpoint.
LEMMA VerdictOfWalk ==
  ASSUME NEW X, VerdictInv(X), root[1] \in X, Done
  PROVE  /\ result = "accept" => root \in GreatestFixpoint(Heap, PairsOf(X), {})
         /\ result = "reject" /\ ~starved => root \notin GreatestFixpoint(Heap, PairsOf(X), {})
<1>1. WalkInv(Heap, X, root, <<>>, ~starved, <<>>, result) /\ result # "none"
  BY DEF VerdictInv, Done, NoRequest
<1> QED
  BY <1>1, WalkEnds

-----------------------------------------------------------------------------
(* The theorems                                                             *)

\* For every schema graph without xor, every heap, cyclic or not, and every depth
\* budget: is() accepts a value only if the schema denotes it, and rejects one
\* the schema denotes only when the budget cut the walk short.
THEOREM IsDecidesTheFixpoint == Spec => []VerdictExact
<1> DEFINE Inv == XorFree => VerdictInv(Schema)
<1>1. Init => Inv
  BY InitVerdict, XorFreeIsMonotone
<1>2. Inv /\ [Next]_vars => Inv'
  BY NextVerdict, XorFreeIsMonotone
<1>3. Inv => VerdictExact
  <2> SUFFICES ASSUME Inv, XorFree, Done
               PROVE  /\ result = "accept" => root \in GreatestFixpoint(Heap, Pairs, {})
                      /\ result = "reject" /\ ~starved => root \notin GreatestFixpoint(Heap, Pairs, {})
    BY DEF VerdictExact, Sound, Complete
  <2>1. root[1] \in Schema
    BY RootsAssumption DEF VerdictInv, GuardInv, TypeOK
  <2>2. PairsOf(Schema) = Pairs
    BY DEF PairsOf, Pairs
  <2> QED
    BY <2>1, <2>2, VerdictOfWalk
<1> QED
  BY <1>1, <1>2, <1>3, PTL DEF Spec

\* For every schema graph, also one with xor elsewhere: is() called with a schema
\* that reaches no xor accepts only what the schema denotes, and rejects something
\* it denotes only when the budget cut the walk short.
THEOREM IsDecidesTheDenotation == Spec => []VerdictMatchesDenotation
<1> DEFINE X == Schema \ ReachesXor
           Inv == VerdictInv(X)
<1>0. Monotone(X)
  BY UnexclusiveIsMonotone
<1> HIDE DEF X
<1>1. Init => Inv
  BY <1>0, InitVerdict
<1>2. Inv /\ [Next]_vars => Inv'
  BY <1>0, NextVerdict
<1>3. Inv => VerdictMatchesDenotation
  <2> SUFFICES ASSUME Inv, Done, root[1] \notin ReachesXor
               PROVE  /\ result = "accept" => root \in Denoted
                      /\ result = "reject" /\ ~starved => root \notin Denoted
    BY DEF VerdictMatchesDenotation
  <2>1. root \in Schema \X Value /\ root[1] \in X
    BY RootsAssumption DEF VerdictInv, GuardInv, TypeOK, X
  <2>2. root \in PairsOf(X)
    BY <2>1 DEF PairsOf
  <2>3. Reflected(Heap)
    BY HeapAssumption DEF Reflected
  <2>4. Denoted \cap PairsOf(X) = GreatestFixpoint(Heap, PairsOf(X), {})
    BY <2>3, <1>0, DenotationIsFixpoint DEF Denoted
  <2>5. /\ result = "accept" => root \in GreatestFixpoint(Heap, PairsOf(X), {})
        /\ result = "reject" /\ ~starved => root \notin GreatestFixpoint(Heap, PairsOf(X), {})
    BY <2>1, VerdictOfWalk
  <2> QED
    BY <2>2, <2>4, <2>5
<1> QED
  BY <1>1, <1>2, <1>3, PTL DEF Spec
=============================================================================
