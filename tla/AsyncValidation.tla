-------------------------- MODULE AsyncValidation --------------------------
(***************************************************************************)
(* Cooperative validation (src/async-validation/index.ts): isAsync() and   *)
(* checkAsync() calls that share one event loop and one heap.              *)
(*                                                                         *)
(* Each call walks the kernel like SchemaPredicate, with a validation      *)
(* state of its own, but enters every schema, and every `await` lets other *)
(* code run: other calls, and the caller, who may assign to properties of  *)
(* the value under validation.  A walk counts schema visits and loop       *)
(* iterations, and hands the thread back to the event loop at every        *)
(* YieldEvery-th of them, or earlier when its time slice is over.          *)
(*                                                                         *)
(* A checkAsync() whose walk rejected walks once more, in the synchronous  *)
(* check: with a fresh state, with the predicate's guard and budget, and   *)
(* with nobody else running until it reports (phase "checking").           *)
(***************************************************************************)
EXTENDS SchemaDenotation

CONSTANTS
  Heap,        \* the heap at first
  Roots,       \* the (schema, value) arguments of the calls
  MaxDepth,
  Task,        \* the calls that may overlap
  Entry,       \* [Task -> {"is", "check"}]: isAsync() or checkAsync()
  YieldEvery,  \* the yieldEvery option
  Writes,      \* <<v, k, w>>: the caller assigns w to the own data property k of v
  MaxWrites    \* bound: assignments in one behaviour

ASSUME HeapAssumption ==
  /\ DOMAIN Heap = Value
  /\ \A v \in Value : /\ Reflects(Heap[v])
                      /\ DOMAIN Heap[v] = {"kind", "keys", "enum", "own", "slots", "items"}
ASSUME AsyncAssumption ==
  /\ Roots \subseteq Schema \X Value /\ MaxDepth \in Nat
  /\ Entry \in [Task -> {"is", "check"}]
  /\ YieldEvery \in Nat \ {0} /\ MaxWrites \in Nat
  /\ \A w \in Writes : w[1] \in Value /\ w[3] \in Value /\ IsData(Slot(Heap, w[1], w[2]))

VARIABLES
  heap,
  run,         \* [Task -> the state of the call]
  writes       \* assignments so far

vars == <<heap, run, writes>>

\* One call as a SchemaPredicate stack machine, for its state functions.
Walk(t) == INSTANCE SchemaPredicate WITH
  root <- run[t].root, request <- run[t].request, result <- run[t].result,
  stack <- run[t].stack, active <- run[t].active, depth <- run[t].depth,
  starved <- run[t].starved

NoRequest == <<>>

Idle == [phase |-> "idle", root |-> NoRequest,
         request |-> NoRequest, result |-> "none", stack |-> <<>>, active |-> {},
         depth |-> 0, starved |-> FALSE, visited |-> FALSE, steps |-> 0,
         burst |-> 0, quiet |-> TRUE, outcome |-> "none"]

Init ==
  /\ heap = Heap
  /\ run = [t \in Task |-> Idle]
  /\ writes = 0

-----------------------------------------------------------------------------
(* Calls, the event loop and the caller                                     *)

\* A synchronous check holds the thread.
Checking(t) == run[t].phase = "checking"
HasThread(t) == \A u \in Task \ {t} : ~Checking(u)

Begin(t) ==
  /\ run[t].phase = "idle"
  /\ \E r \in Roots :
       run' = [run EXCEPT ![t].phase = "ready", ![t].root = r, ![t].request = r]
  /\ UNCHANGED <<heap, writes>>

\* Mutant: a parked call waits until the others have settled.
TurnBehindOthers(t) ==
  /\ run[t].phase = "parked"
  /\ \A u \in Task \ {t} : run[u].phase \notin {"ready", "parked"}
  /\ run' = [run EXCEPT ![t].phase = "ready"]
  /\ UNCHANGED <<heap, writes>>

\* Macrotasks wait until no continuation is runnable.
Turn(t) ==
  /\ run[t].phase = "parked"
  /\ \A u \in Task : run[u].phase # "ready"
  /\ run' = [run EXCEPT ![t].phase = "ready"]
  /\ UNCHANGED <<heap, writes>>

Assign ==
  /\ writes < MaxWrites /\ \A t \in Task : ~Checking(t)
  /\ \E w \in Writes :
       /\ heap[w[1]].own[w[2]] # w[3]
       /\ heap' = [heap EXCEPT ![w[1]].own[w[2]] = w[3]]
  /\ writes' = writes + 1
  /\ run' = [t \in Task |->
               IF run[t].phase \in {"ready", "parked"}
                 THEN [run[t] EXCEPT !.quiet = FALSE] ELSE run[t]]

-----------------------------------------------------------------------------
(* maybeYield                                                               *)

Top(t) == run[t].stack[Len(run[t].stack)]

\* The async kernel differs in one node: a refinement's `when` is not consulted.
KernelItems(t, frame) ==
  LET n == Node[frame.schema] IN
  IF n.tag = "Refine" /\ ~Checking(t)
    THEN <<Call(n.inner, frame.value), Check(frame.value \in n.predicate)>>
    ELSE Items(heap, frame.schema, frame.value)

\* A record's property is read before the key is validated and used after it.
CurrentItem(t, frame) ==
  IF Node[frame.schema].tag = "Record" /\ frame.next % 2 = 0
    THEN DataItem(Node[frame.schema].value, frame.held)
    ELSE KernelItems(t, frame)[frame.next]

\* The items before which the kernel's loops call maybeYield.
LoopStarts(frame) ==
  LET n == Node[frame.schema] IN
  CASE n.tag \in {"Array", "Tuple", "Set", "Object", "Union", "Xor"} -> TRUE
    [] n.tag \in {"Record", "Map"} -> frame.next % 2 = 1
    [] n.tag = "PatternProperties" ->
         frame.next > 1 /\ (frame.next - 2) % (Len(n.entries) + 1) = 0
    [] OTHER -> FALSE

HasItem(t) ==
  /\ run[t].request = NoRequest /\ run[t].result = "none"
  /\ run[t].stack # <<>> /\ Top(t).next <= Len(KernelItems(t, Top(t)))

MustVisit(t) ==
  /\ ~run[t].visited
  /\ run[t].request # NoRequest \/ (HasItem(t) /\ LoopStarts(Top(t)))

\* Mutant: only the clock makes a walk yield.
SliceOverOnTimeOnly(steps, late) == late

\* The clock may find the time slice over at any visit.
SliceOver(steps, late) == steps % YieldEvery = 0 \/ late

MaybeYield(t) ==
  /\ run[t].phase = "ready" /\ MustVisit(t)
  /\ \E late \in BOOLEAN :
       LET steps == (run[t].steps + 1) % YieldEvery IN
       run' = [run EXCEPT ![t].visited = TRUE, ![t].steps = steps,
                 ![t].phase = IF SliceOver(steps, late) THEN "parked" ELSE "ready",
                 ![t].burst = IF SliceOver(steps, late) THEN 0 ELSE @ + 1]
  /\ UNCHANGED <<heap, writes>>

-----------------------------------------------------------------------------
(* isSchemaAsync, and the predicate of the synchronous check                *)

Runs(t) == Checking(t) \/ (run[t].phase = "ready" /\ ~MustVisit(t))

\* The predicate runs schemas that reach no lazy node without the guard.
Enters(t, s) == Checking(t) => s \in RequiresTracking

AnswerOf(b) == IF b THEN "accept" ELSE "reject"

\* Mutant: calls share one validation state.
AlreadyActiveAnywhere(t, p) ==
  Enters(t, p[1]) /\ IsRef(heap, p[2]) /\ \E u \in Task : p \in run[u].active

\* The pairs under validation are those of the call's own state.
AlreadyActive(t, p) == Enters(t, p[1]) /\ IsRef(heap, p[2]) /\ p \in run[t].active

TooDeep(t, p) ==
  Enters(t, p[1]) /\ ~AlreadyActive(t, p) /\ run[t].depth >= MaxDepth

Cycle(t) ==
  /\ Runs(t) /\ run[t].request # NoRequest /\ AlreadyActive(t, run[t].request)
  /\ run' = [run EXCEPT ![t].request = NoRequest, ![t].result = "accept",
                        ![t].visited = FALSE]
  /\ UNCHANGED <<heap, writes>>

Budget(t) ==
  /\ Runs(t) /\ run[t].request # NoRequest /\ TooDeep(t, run[t].request)
  /\ run' = [run EXCEPT ![t].request = NoRequest, ![t].result = "reject",
                        ![t].starved = TRUE, ![t].visited = FALSE]
  /\ UNCHANGED <<heap, writes>>

Enter(t) ==
  /\ Runs(t) /\ run[t].request # NoRequest
  /\ ~AlreadyActive(t, run[t].request) /\ ~TooDeep(t, run[t].request)
  /\ LET p == run[t].request
         entered == Enters(t, p[1]) IN
     run' = [run EXCEPT
       ![t].request = NoRequest, ![t].visited = FALSE,
       ![t].depth = IF entered THEN @ + 1 ELSE @,
       ![t].active = IF entered /\ IsRef(heap, p[2]) THEN @ \cup {p} ELSE @,
       ![t].stack = Append(@, [schema |-> p[1], value |-> p[2], entered |-> entered,
                               next |-> 1, matches |-> 0, held |-> Missing])]
  /\ UNCHANGED <<heap, writes>>

NextItem(t) ==
  /\ Runs(t) /\ HasItem(t)
  /\ LET item == CurrentItem(t, Top(t))
         n == Node[Top(t).schema]
         keys == EnumKeys(heap, Top(t).value)
         held == IF n.tag = "Record" /\ Top(t).next % 2 = 1
                   /\ (Top(t).next + 1) \div 2 <= Len(keys)
                   THEN Slot(heap, Top(t).value, keys[(Top(t).next + 1) \div 2])
                   ELSE Top(t).held IN
     run' = [run EXCEPT
       ![t].request = IF item.call THEN <<item.schema, item.value>> ELSE NoRequest,
       ![t].result = IF item.call THEN "none" ELSE AnswerOf(item.ok),
       ![t].visited = FALSE,
       ![t].stack[Len(run[t].stack)].held = held]
  /\ UNCHANGED <<heap, writes>>

\* leaveValidation, then answer the caller.
Return(t, b) ==
  run' = [run EXCEPT
    ![t].stack = SubSeq(@, 1, Len(@) - 1),
    ![t].depth = IF Top(t).entered THEN @ - 1 ELSE @,
    ![t].active = IF Top(t).entered THEN @ \ {<<Top(t).schema, Top(t).value>>} ELSE @,
    ![t].result = AnswerOf(b)]

Absorb(t) ==
  /\ Runs(t) /\ run[t].request = NoRequest
  /\ run[t].result # "none" /\ run[t].stack # <<>>
  /\ LET accepted == run[t].result = "accept" IN
     IF Walk(t)!Decides(accepted) THEN Return(t, Walk(t)!Verdict)
     ELSE run' = [run EXCEPT
            ![t].stack[Len(run[t].stack)] = Walk(t)!Advance(@, accepted),
            ![t].result = "none"]
  /\ UNCHANGED <<heap, writes>>

Finish(t) ==
  /\ Runs(t) /\ run[t].request = NoRequest
  /\ run[t].result = "none" /\ run[t].stack # <<>>
  /\ Top(t).next > Len(KernelItems(t, Top(t)))
  /\ Return(t, Walk(t)!Exhausted)
  /\ UNCHANGED <<heap, writes>>

Walked(t) == run[t].request = NoRequest /\ run[t].stack = <<>> /\ run[t].result # "none"

\* A rejected checkAsync() calls guard.check(value): a fresh predicate walk.
Recheck(t) ==
  /\ run[t].phase = "ready" /\ Walked(t)
  /\ Entry[t] = "check" /\ run[t].result = "reject"
  /\ run' = [run EXCEPT ![t].phase = "checking", ![t].request = run[t].root,
                        ![t].result = "none", ![t].active = {}, ![t].depth = 0,
                        ![t].starved = FALSE]
  /\ UNCHANGED <<heap, writes>>

\* The call resolves with the answer of its walk, or of its synchronous check.
Resolve(t) ==
  /\ run[t].phase \in {"ready", "checking"} /\ Walked(t)
  /\ run[t].phase = "ready" => Entry[t] = "is" \/ run[t].result = "accept"
  /\ LET accepted == run[t].result = "accept" IN
     run' = [run EXCEPT ![t].phase = "done",
       ![t].outcome = IF Entry[t] = "is" THEN (IF accepted THEN "true" ELSE "false")
                      ELSE (IF accepted THEN "ok" ELSE "error")]
  /\ UNCHANGED <<heap, writes>>

\* The work of the event loop: continuations and resumptions.
Work(t) ==
  \/ MaybeYield(t) \/ Cycle(t) \/ Budget(t) \/ Enter(t) \/ NextItem(t)
  \/ Absorb(t) \/ Finish(t) \/ Recheck(t) \/ Resolve(t) \/ Turn(t)

Next == Assign \/ \E t \in Task : HasThread(t) /\ (Begin(t) \/ Work(t))

Spec == Init /\ [][Next]_vars
\* The event loop does not stop while there is work for it.
FairSpec == Spec /\ WF_vars(\E t \in Task : HasThread(t) /\ Work(t))

-----------------------------------------------------------------------------
(* Properties                                                              *)

Activation == [schema : Schema, value : Value, entered : BOOLEAN,
               next : Nat \ {0}, matches : Nat, held : SlotContent]
Run == [phase : {"idle", "ready", "parked", "checking", "done"},
        root : Pairs \cup {NoRequest}, request : Pairs \cup {NoRequest},
        result : {"none", "accept", "reject"}, stack : Seq(Activation),
        active : SUBSET Pairs, depth : 0..MaxDepth, starved : BOOLEAN,
        visited : BOOLEAN, steps : 0..(YieldEvery - 1), burst : Nat, quiet : BOOLEAN,
        outcome : {"none", "true", "false", "ok", "error"}]

TypeOK ==
  /\ \A v \in Value : Reflects(heap[v])
  /\ run \in [Task -> Run]
  /\ writes \in 0..MaxWrites

\* docs/api.md:1247, "yieldEvery limits node-count bursts": no cooperative walk makes
\* more than YieldEvery visits without handing the thread back.
BurstBounded == \A t \in Task : run[t].burst < YieldEvery

Settles(t) == run[t].phase # "done" /\ run'[t].phase = "done"
Unconditional == \A s \in Schema : Node[s].tag = "Refine" => Node[s].when = Value

\* Whether the walk that settles t saw one heap and took the branches of the kernel:
\* the synchronous check always does.
Undisturbed(t) == Checking(t) \/ (run[t].quiet /\ Unconditional)

\* With whatever other calls it overlapped, a walk during which the value did not
\* change accepts only what the schema denotes and rejects, its budget permitting,
\* only what it does not denote; so an error of checkAsync() is true of the value
\* as it is reported, whatever was assigned while the first walk went on.
QuietVerdictExact ==
  [][XorFree =>
       \A t \in Task : Settles(t) =>
         LET denoted == run[t].root \in Denotation(heap)
             outcome == run'[t].outcome IN
         /\ Undisturbed(t) /\ outcome \in {"true", "ok"} => denoted
         /\ Undisturbed(t) /\ ~run[t].starved /\ outcome = "false" => ~denoted
         /\ ~run[t].starved /\ outcome = "error" => ~denoted]_vars

\* Every call resolves.
AllSettle == \A t \in Task : run[t].phase = "ready" ~> run[t].phase = "done"
=============================================================================
