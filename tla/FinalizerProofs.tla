-------------------------- MODULE FinalizerProofs --------------------------
(***************************************************************************)
(* For every schema graph, value and set of fresh identities: a call of    *)
(* finalizeAcceptedValue writes to objects it made itself and that are not *)
(* frozen, and to no other.                                                *)
(***************************************************************************)
EXTENDS Finalizer, TLAPS

FrameFields == {"op", "schema", "value", "places", "next", "changed", "out"}

\* A frame that fills an output fills one that the call made.
OwnFrame(f) == DOMAIN f = FrameFields /\ (f.op = "strip" => f.out \in NewValues)
OwnTask(t) == DOMAIN t = DOMAIN Idle /\ t.out \in NewValues

Elements(s) == {s[i] : i \in 1..Len(s)}
OwnStack(s) == s \in Seq(Elements(s)) /\ \A f \in Elements(s) : OwnFrame(f)
OwnTasks(s) == s \in Seq(Elements(s)) /\ \A t \in Elements(s) : OwnTask(t)

\* Writers fill own outputs, nothing is frozen before the end, and then no writer is left.
WriteInv ==
  /\ DOMAIN heap = Value
  /\ made \in 0..Len(Fresh)
  /\ OwnStack(stack) /\ OwnTasks(tasks)
  /\ fill = Idle \/ OwnTask(fill)
  /\ frozen = InputFrozen \/ done
  /\ done => stack = <<>> /\ ~Called

-----------------------------------------------------------------------------
(* Stacks and queues                                                        *)

LEMMA OwnFromSet ==
  ASSUME NEW S, NEW s \in Seq(S), \A f \in S : OwnFrame(f)
  PROVE  OwnStack(s)
BY DEF OwnStack, Elements

\* Append of the calls.
LEMMA OwnPush ==
  ASSUME NEW s, OwnStack(s), NEW f, OwnFrame(f)
  PROVE  OwnStack(Append(s, f))
<1> DEFINE S == Elements(s) \cup {f}
<1>1. s \in Seq(S) /\ f \in S
  BY DEF OwnStack
<1>2. Append(s, f) \in Seq(S)
  BY <1>1
<1>3. \A g \in S : OwnFrame(g)
  BY DEF OwnStack
<1> HIDE DEF S
<1> QED
  BY <1>2, <1>3, OwnFromSet

\* The return of the innermost activation.
LEMMA OwnPop ==
  ASSUME NEW s, OwnStack(s), s # <<>>
  PROVE  OwnStack(SubSeq(s, 1, Len(s) - 1)) /\ Len(s) \in Nat \ {0} /\ OwnFrame(s[Len(s)])
<1> DEFINE S == Elements(s)
<1>1. s \in Seq(S) /\ \A g \in S : OwnFrame(g)
  BY DEF OwnStack
<1>2. Len(s) \in Nat \ {0} /\ s[Len(s)] \in S
  BY <1>1 DEF Elements
<1>3. SubSeq(s, 1, Len(s) - 1) \in Seq(S)
  BY <1>1, <1>2
<1> HIDE DEF S
<1> QED
  BY <1>1, <1>2, <1>3, OwnFromSet

\* A step of a loop.
LEMMA OwnReplace ==
  ASSUME NEW s, OwnStack(s), s # <<>>, NEW f, OwnFrame(f)
  PROVE  OwnStack([s EXCEPT ![Len(s)] = f])
<1> DEFINE S == Elements(s) \cup {f}
<1>1. s \in Seq(S) /\ f \in S
  BY DEF OwnStack
<1>2. [s EXCEPT ![Len(s)] = f] \in Seq(S)
  BY <1>1
<1>3. \A g \in S : OwnFrame(g)
  BY DEF OwnStack
<1> HIDE DEF S
<1> QED
  BY <1>2, <1>3, OwnFromSet

LEMMA OwnTasksFromSet ==
  ASSUME NEW S, NEW s \in Seq(S), \A t \in S : OwnTask(t)
  PROVE  OwnTasks(s)
BY DEF OwnTasks, Elements

LEMMA OwnEnqueue ==
  ASSUME NEW s, OwnTasks(s), NEW t, OwnTask(t)
  PROVE  OwnTasks(Append(s, t))
<1> DEFINE S == Elements(s) \cup {t}
<1>1. s \in Seq(S) /\ t \in S /\ \A u \in S : OwnTask(u)
  BY DEF OwnTasks
<1>2. Append(s, t) \in Seq(S)
  BY <1>1
<1> HIDE DEF S
<1> QED
  BY <1>1, <1>2, OwnTasksFromSet

LEMMA OwnDequeue ==
  ASSUME NEW s, OwnTasks(s), s # <<>>
  PROVE  OwnTasks(SubSeq(s, 1, Len(s) - 1)) /\ OwnTask(s[Len(s)])
<1> DEFINE S == Elements(s)
<1>1. s \in Seq(S) /\ \A u \in S : OwnTask(u)
  BY DEF OwnTasks
<1>2. Len(s) \in Nat \ {0} /\ s[Len(s)] \in S
  BY <1>1 DEF Elements
<1>3. SubSeq(s, 1, Len(s) - 1) \in Seq(S)
  BY <1>1, <1>2
<1> HIDE DEF S
<1> QED
  BY <1>1, <1>2, <1>3, OwnTasksFromSet

LEMMA FrameOwns ==
  ASSUME NEW op, NEW s, NEW v, NEW places, NEW out, op # "strip" \/ out \in NewValues
  PROVE  OwnFrame(Frame(op, s, v, places, out))
BY DEF OwnFrame, Frame, FrameFields

LEMMA EmptyOwns == OwnStack(<<>>) /\ OwnTasks(<<>>)
<1>1. <<>> \in Seq({}) /\ Elements(<<>>) = {}
  BY DEF Elements
<1> QED
  BY <1>1 DEF OwnStack, OwnTasks

-----------------------------------------------------------------------------
(* What a step of a running call does                                       *)

LEMMA NewIsOwn == CanMake /\ made \in 0..Len(Fresh) => NextNew \in NewValues /\ made + 1 \in 0..Len(Fresh)
BY FinalizerAssumption DEF CanMake, NextNew, NewValues

Writes == \A v \in Value : heap'[v] # heap[v] => v \in NewValues \ frozen

\* A running call has frozen nothing, so writing to own outputs is enough.
LEMMA RunningStep ==
  ASSUME WriteInv, Called \/ stack # <<>>,
         DOMAIN heap' = Value, \A v \in Value : heap'[v] # heap[v] => v \in NewValues,
         made' \in 0..Len(Fresh), OwnStack(stack)', OwnTasks(tasks)',
         (fill = Idle \/ OwnTask(fill))', frozen' = frozen, done' = done
  PROVE  WriteInv' /\ Writes
<1>1. ~done /\ frozen = InputFrozen
  BY DEF WriteInv
<1>2. InputFrozen \cap NewValues = {}
  BY FinalizerAssumption
<1> QED
  BY <1>1, <1>2 DEF WriteInv, Writes

\* Most steps move the stack alone.
LEMMA QuietStep ==
  ASSUME WriteInv, Called \/ stack # <<>>, OwnStack(stack)',
         UNCHANGED <<heap, made, tasks, fill, frozen, done>>
  PROVE  WriteInv' /\ Writes
<1>1. /\ DOMAIN heap' = Value /\ \A v \in Value : heap'[v] = heap[v]
      /\ made' \in 0..Len(Fresh) /\ OwnTasks(tasks)' /\ (fill = Idle \/ OwnTask(fill))'
      /\ frozen' = frozen /\ done' = done
  BY DEF WriteInv
<1> QED
  BY <1>1, RunningStep

-----------------------------------------------------------------------------
(* Calls                                                                    *)

LEMMA PushStep ==
  ASSUME WriteInv, NEW f, OwnFrame(f), stack' = Append(stack, f)
  PROVE  OwnStack(stack)'
BY OwnPush DEF WriteInv

LEMMA PopStep ==
  ASSUME WriteInv, stack # <<>>, stack' = Below
  PROVE  OwnStack(stack)'
BY OwnPop DEF WriteInv, Below

\* The suspended call is replaced by a later point of it.
LEMMA RedoStep ==
  ASSUME WriteInv, stack # <<>>, NEW f, OwnFrame(f), stack' = Append(Below, f)
  PROVE  OwnStack(stack)'
BY OwnPop, OwnPush DEF WriteInv, Below

\* A call that only asks for another one or answers at once.
LEMMA CallSteps ==
  ASSUME WriteInv, Descend \/ ResolveLazy \/ ReadOutput \/ Revisit \/ Choose \/ Leaf
                   \/ Open \/ OpenTwo
  PROVE  WriteInv' /\ Writes
<1>1. Called
  BY DEF Descend, ResolveLazy, ReadOutput, Revisit, Choose, Leaf, Open, OpenTwo,
         FirstVisit, Structural
<1>2. UNCHANGED <<heap, made, tasks, fill, frozen, done>>
  BY DEF Descend, ResolveLazy, ReadOutput, Revisit, Choose, Leaf, Open, OpenTwo,
         merging, history
<1>3. OwnStack(stack)'
  <2>1. CASE Descend
    <3>1. OwnFrame(Frame("readonly", schema, value, <<>>, value))
      BY FrameOwns
    <3>2. CASE stack' = stack
      BY <3>2 DEF WriteInv
    <3> QED
      BY <2>1, <3>1, <3>2, PushStep DEF Descend
  <2>2. CASE ResolveLazy \/ ReadOutput \/ Revisit \/ Choose \/ Leaf
    <3>1. stack' = stack
      BY <2>2 DEF ResolveLazy, ReadOutput, Revisit, Choose, Leaf
    <3> QED
      BY <3>1 DEF WriteInv
  <2>3. CASE Open
    <3>1. OwnFrame(Frame("clone", schema, value, Places(heap, schema, value), value))
      BY FrameOwns
    <3> QED
      BY <2>3, <3>1, PushStep DEF Open
  <2>4. CASE OpenTwo
    <3>1. /\ OwnFrame(Frame("base", schema, value, <<>>, value))
          /\ OwnFrame(Frame("left", schema, value, <<>>, value))
      BY FrameOwns
    <3> QED
      BY <2>4, <3>1, PushStep DEF OpenTwo
  <2> QED
    BY <2>1, <2>2, <2>3, <2>4
<1> QED
  BY <1>1, <1>2, <1>3, QuietStep

\* The only frame that fills an output is pushed with the output made for it.
LEMMA OpenStrippedStep == WriteInv /\ OpenStripped => WriteInv' /\ Writes
<1> SUFFICES ASSUME WriteInv, OpenStripped PROVE WriteInv' /\ Writes
  OBVIOUS
<1>1. NextNew \in NewValues /\ made' \in 0..Len(Fresh)
  BY NewIsOwn DEF WriteInv, OpenStripped
<1>2. OwnFrame(Frame("strip", schema, value, Places(heap, schema, value), NextNew))
  BY <1>1, FrameOwns
<1>3. OwnStack(stack)'
  BY <1>2, PushStep DEF OpenStripped
<1>4. Called /\ UNCHANGED <<tasks, fill, frozen, done>>
  BY DEF OpenStripped, FirstVisit, Structural, merging
<1>5. DOMAIN heap' = Value /\ \A v \in Value : heap'[v] # heap[v] => v \in NewValues
  BY <1>1 DEF OpenStripped, WriteInv
<1> QED
  BY <1>1, <1>3, <1>4, <1>5, RunningStep DEF WriteInv

-----------------------------------------------------------------------------
(* Returns                                                                  *)

\* The frame at the top is well formed, and stays so when its loop moves on.
LEMMA TopOwns ==
  ASSUME WriteInv, stack # <<>>
  PROVE  /\ OwnFrame(Top) /\ Len(stack) \in Nat \ {0} /\ DOMAIN stack = 1..Len(stack)
         /\ \A n : OwnFrame([Top EXCEPT !.next = n])
         /\ \A n, c : OwnFrame([Top EXCEPT !.next = n, !.changed = c])
<1>1. OwnFrame(Top) /\ Len(stack) \in Nat \ {0}
  BY OwnPop DEF WriteInv, Top
<1>2. DOMAIN stack = 1..Len(stack)
  BY DEF WriteInv, OwnStack
<1> HIDE DEF Top
<1> QED
  BY <1>1, <1>2 DEF OwnFrame, FrameFields

\* The loops of the containers and the returns that make no object.
LEMMA VisitStep == WriteInv /\ VisitPlace => WriteInv' /\ Writes
<1> SUFFICES ASSUME WriteInv, NEW op, Visit(op) PROVE WriteInv' /\ Writes
  BY DEF VisitPlace
<1>1. stack # <<>> /\ UNCHANGED <<heap, made, tasks, fill, frozen, done>>
  BY DEF Visit, Resumed, merging
<1>2. CASE stack' = stack
  BY <1>1, <1>2, QuietStep DEF WriteInv
<1>3. CASE stack' = [stack EXCEPT ![Len(stack)].next = @ + 1]
  <2>1. stack' = [stack EXCEPT ![Len(stack)] = [Top EXCEPT !.next = Top.next + 1]]
    BY <1>3 DEF Top
  <2>2. OwnStack(stack)'
    BY <1>1, <2>1, TopOwns, OwnReplace DEF WriteInv
  <2> QED
    BY <1>1, <2>2, QuietStep
<1> QED
  BY <1>2, <1>3 DEF Visit

LEMMA KeepChangeStep == WriteInv /\ KeepChange => WriteInv' /\ Writes
<1> SUFFICES ASSUME WriteInv, KeepChange PROVE WriteInv' /\ Writes
  OBVIOUS
<1>1. stack # <<>> /\ UNCHANGED <<heap, made, tasks, fill, frozen, done>>
  BY DEF KeepChange, Returned, merging
<1>2. PICK n, c :
        stack' = [stack EXCEPT ![Len(stack)] = [Top EXCEPT !.next = n, !.changed = c]]
  BY <1>1 DEF KeepChange, Top
<1>3. OwnFrame([Top EXCEPT !.next = n, !.changed = c])
  BY <1>1, TopOwns
<1> HIDE DEF Top
<1>4. OwnStack(stack)'
  BY <1>1, <1>2, <1>3, OwnReplace DEF WriteInv
<1> QED
  BY <1>1, <1>4, QuietStep

LEMMA ReturnSteps ==
  ASSUME WriteInv, CloseStripped \/ AfterBase \/ AfterLeft \/ FinishMerge \/ MarkReadonly
  PROVE  WriteInv' /\ Writes
<1>1. stack # <<>> /\ UNCHANGED <<heap, made, tasks, fill, frozen, done>>
  BY DEF CloseStripped, AfterBase, AfterLeft, FinishMerge, MarkReadonly, Resumed, Returned,
         merging
<1>2. CASE stack' = Below
  BY <1>1, <1>2, PopStep, QuietStep
<1>3. CASE AfterBase /\ stack' # Below
  <2>1. PICK slot : stack' = Append(Below, Frame("item", Top.schema, answer, <<>>, slot))
    BY <1>3 DEF AfterBase
  <2>2. OwnFrame(Frame("item", Top.schema, answer, <<>>, slot))
    BY FrameOwns
  <2> QED
    BY <1>1, <2>1, <2>2, RedoStep, QuietStep
<1>4. CASE AfterLeft
  <2>1. OwnFrame(Frame("right", Top.schema, Top.value, <<>>, answer))
    BY FrameOwns
  <2> QED
    BY <1>1, <1>4, <2>1, RedoStep, QuietStep DEF AfterLeft
<1> QED
  BY <1>2, <1>3, <1>4 DEF CloseStripped, AfterBase, AfterLeft, FinishMerge, MarkReadonly

\* Clones are written to their own fresh identity.
LEMMA CloneSteps ==
  ASSUME WriteInv, CloseClone \/ AfterItem
  PROVE  WriteInv' /\ Writes
<1>1. stack # <<>> /\ stack' = Below /\ UNCHANGED <<tasks, fill, frozen, done>>
  BY DEF CloseClone, AfterItem, Resumed, Returned, merging
<1>2. OwnStack(stack)'
  BY <1>1, PopStep
<1>3. CASE UNCHANGED <<heap, made>>
  BY <1>1, <1>2, <1>3, QuietStep
<1>4. CASE CanMake /\ (\E r : heap' = [heap EXCEPT ![NextNew] = r]) /\ made' = made + 1
  <2>1. NextNew \in NewValues /\ made' \in 0..Len(Fresh)
    BY <1>4, NewIsOwn DEF WriteInv
  <2>2. DOMAIN heap' = Value /\ \A v \in Value : heap'[v] # heap[v] => v \in NewValues
    BY <1>4, <2>1 DEF WriteInv
  <2> QED
    BY <1>1, <1>2, <2>1, <2>2, RunningStep DEF WriteInv
<1> QED
  BY <1>3, <1>4 DEF CloseClone, AfterItem

\* A declared field goes to the output of its frame.
LEMMA DefineFieldStep == WriteInv /\ DefineField => WriteInv' /\ Writes
<1> SUFFICES ASSUME WriteInv, DefineField PROVE WriteInv' /\ Writes
  OBVIOUS
<1>1. stack # <<>> /\ Top.op = "strip" /\ UNCHANGED <<made, tasks, fill, frozen, done>>
  BY DEF DefineField, Returned, merging
<1>2. Top.out \in NewValues
  BY <1>1, TopOwns DEF OwnFrame
<1>3. stack' = [stack EXCEPT ![Len(stack)] = [Top EXCEPT !.next = Top.next + 1]]
  BY DEF DefineField, Top
<1>4. OwnStack(stack)'
  BY <1>1, <1>3, TopOwns, OwnReplace DEF WriteInv
<1>5. DOMAIN heap' = Value /\ \A v \in Value : heap'[v] # heap[v] => v \in NewValues
  BY <1>2 DEF DefineField, WriteInv
<1> QED
  BY <1>1, <1>4, <1>5, RunningStep DEF WriteInv

-----------------------------------------------------------------------------
(* Merges                                                                   *)

\* allocateIntersectionOutput: the new output, and the task that will fill it, are own.
LEMMA MergeIsOwn ==
  ASSUME WriteInv, NEW l, NEW r, Merges(l, r) => CanMake
  PROVE  /\ DOMAIN HeapBy(l, r) = Value
         /\ \A v \in Value : HeapBy(l, r)[v] # heap[v] => v \in NewValues
         /\ MadeBy(l, r) \in 0..Len(Fresh)
         /\ \A queue : OwnTasks(queue) => OwnTasks(Enqueued(l, r, queue))
<1>1. CASE ~Merges(l, r)
  BY <1>1 DEF WriteInv, HeapBy, MadeBy, Enqueued
<1>2. CASE Merges(l, r)
  <2>1. NextNew \in NewValues /\ made + 1 \in 0..Len(Fresh)
    BY <1>2, NewIsOwn DEF WriteInv
  <2>2. OwnTask([left |-> l, right |-> r, out |-> NextNew, keys |-> KeysOf(l, r), next |-> 1])
    BY <2>1 DEF OwnTask, Idle
  <2>3. \A queue : OwnTasks(queue) => OwnTasks(Enqueued(l, r, queue))
    BY <1>2, <2>2, OwnEnqueue DEF Enqueued
  <2>4. /\ DOMAIN HeapBy(l, r) = Value
        /\ \A v \in Value : HeapBy(l, r)[v] # heap[v] => v \in NewValues
    BY <1>2, <2>1 DEF HeapBy, WriteInv
  <2> QED
    BY <1>2, <2>1, <2>3, <2>4 DEF MadeBy
<1> QED
  BY <1>1, <1>2

LEMMA AfterRightStep == WriteInv /\ AfterRight => WriteInv' /\ Writes
<1> SUFFICES ASSUME WriteInv, AfterRight PROVE WriteInv' /\ Writes
  OBVIOUS
<1>1. stack # <<>> /\ fill' = Idle /\ UNCHANGED <<frozen, done>>
  BY DEF AfterRight, Returned
<1>2. OwnFrame(Frame("merge", Top.schema, Top.value, <<>>, Selected(Top.out, answer)))
  BY FrameOwns
<1>3. OwnStack(stack)'
  BY <1>1, <1>2, RedoStep DEF AfterRight
<1>4. OwnTasks(<<>>)
  BY EmptyOwns
<1>5. /\ DOMAIN heap' = Value /\ made' \in 0..Len(Fresh) /\ OwnTasks(tasks)'
      /\ \A v \in Value : heap'[v] # heap[v] => v \in NewValues
  BY <1>4, MergeIsOwn DEF AfterRight
<1> QED
  BY <1>1, <1>3, <1>5, RunningStep

LEMMA TakeTaskStep == WriteInv /\ TakeTask => WriteInv' /\ Writes
<1> SUFFICES ASSUME WriteInv, TakeTask PROVE WriteInv' /\ Writes
  OBVIOUS
<1>1. stack # <<>> /\ OwnStack(stack)' /\ UNCHANGED <<heap, made, frozen, done>>
  BY DEF TakeTask, Resumed, calls, WriteInv
<1>2. OwnTasks(tasks)' /\ OwnTask(fill)'
  BY OwnDequeue DEF TakeTask, WriteInv
<1>3. DOMAIN heap' = Value /\ (\A v \in Value : heap'[v] = heap[v]) /\ made' \in 0..Len(Fresh)
  BY <1>1 DEF WriteInv
<1> QED
  BY <1>1, <1>2, <1>3, RunningStep

\* One key of a merge is defined on the output of its task.
LEMMA MergeKeyStep == WriteInv /\ MergeKey => WriteInv' /\ Writes
<1> SUFFICES ASSUME WriteInv, MergeKey PROVE WriteInv' /\ Writes
  OBVIOUS
<1>1. stack # <<>> /\ OwnStack(stack)' /\ UNCHANGED <<frozen, done>>
  BY DEF MergeKey, Resumed, calls, WriteInv
<1>2. OwnTask(fill)
  BY DEF MergeKey, Filled, Idle, WriteInv
<1>3. OwnTask(fill)'
  BY <1>2 DEF MergeKey, OwnTask, Idle
<1> DEFINE k == fill.keys[fill.next]
           l == SlotIn(fill.left, k)
           r == SlotIn(fill.right, k)
<1>4. CASE IsData(l) /\ IsData(r)
  <2>1. /\ Merges(l, r) => CanMake
        /\ \E slot : heap' = [HeapBy(l, r) EXCEPT ![fill.out] = slot]
        /\ made' = MadeBy(l, r) /\ tasks' = Enqueued(l, r, tasks)
    BY <1>4 DEF MergeKey
  <2> HIDE DEF l, r
  <2>2. /\ DOMAIN HeapBy(l, r) = Value /\ made' \in 0..Len(Fresh) /\ OwnTasks(tasks)'
        /\ \A v \in Value : HeapBy(l, r)[v] # heap[v] => v \in NewValues
    BY <2>1, MergeIsOwn DEF WriteInv
  <2>3. DOMAIN heap' = Value /\ \A v \in Value : heap'[v] # heap[v] => v \in NewValues
    BY <1>2, <2>1, <2>2 DEF OwnTask
  <2> QED
    BY <1>1, <1>3, <2>2, <2>3, RunningStep
<1>5. CASE ~(IsData(l) /\ IsData(r))
  <2>1. /\ heap' = heap \/ \E slot : heap' = [heap EXCEPT ![fill.out] = slot]
        /\ UNCHANGED <<made, tasks>>
    BY <1>5 DEF MergeKey
  <2> HIDE DEF l, r
  <2>2. DOMAIN heap' = Value /\ \A v \in Value : heap'[v] # heap[v] => v \in NewValues
    BY <1>2, <2>1 DEF OwnTask, WriteInv
  <2>3. made' \in 0..Len(Fresh) /\ OwnTasks(tasks)'
    BY <2>1 DEF WriteInv
  <2> QED
    BY <1>1, <1>3, <2>2, <2>3, RunningStep
<1> QED
  BY <1>4, <1>5

-----------------------------------------------------------------------------
(* The theorem                                                              *)

\* Objects are frozen when no frame and no task is left that could write to them.
LEMMA FreezeStep == WriteInv /\ Freeze => WriteInv' /\ Writes
BY DEF WriteInv, Freeze, Writes, calls, merging, Called

LEMMA WriteInit == Init => WriteInv
<1> SUFFICES ASSUME Init PROVE WriteInv
  OBVIOUS
<1>1. DOMAIN heap = Value
  BY FinalizerAssumption DEF Init
<1>2. OwnStack(<<>>) /\ OwnTasks(<<>>)
  BY EmptyOwns
<1>3. Len(Fresh) \in Nat
  BY FinalizerAssumption
<1> QED
  BY <1>1, <1>2, <1>3 DEF Init, WriteInv

LEMMA WriteNext == WriteInv /\ [Next]_vars => WriteInv' /\ [Writes]_heap
<1> SUFFICES ASSUME WriteInv, [Next]_vars PROVE WriteInv' /\ [Writes]_heap
  OBVIOUS
<1>1. CASE Next
  BY <1>1, CallSteps, OpenStrippedStep, VisitStep, KeepChangeStep, ReturnSteps, CloneSteps,
     DefineFieldStep, AfterRightStep, TakeTaskStep, MergeKeyStep, FreezeStep DEF Next
<1>2. CASE UNCHANGED vars
  BY <1>2 DEF vars, calls, merging, WriteInv, Called
<1> QED
  BY <1>1, <1>2

\* docs/api.md:550, "The original input object is not mutated": in no call does
\* finalizeAcceptedValue write to an object of the input, or to a frozen one.
THEOREM InputIsNotMutated == Spec => WritesOnlyToOwnOutputs
<1>1. [Writes]_heap => [\A v \in Value : heap'[v] # heap[v] => v \in NewValues \ frozen]_vars
  BY DEF Writes, vars
<1> QED
  BY WriteInit, WriteNext, <1>1, PTL DEF Spec, WritesOnlyToOwnOutputs
=============================================================================
