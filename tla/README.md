# TypeSea verification project

TLA+ modules, TLC configurations and TLAPS proofs for TypeSea, a TypeScript runtime
validation library. Paths are relative to the root of the repository.

## The system

A *guard* wraps an immutable, frozen *schema* (`src/schema/types.ts`): a tree of tagged records
that becomes a cyclic graph through `lazy` nodes. Everything else consumes schemas:

| component | state it keeps | operations |
|---|---|---|
| schema kernel (`src/plan/schema-predicate.ts`) | none; the local checks and child calls of each tag | one per schema tag |
| static analyses (`src/schema/undefined.ts`, `src/plan/cache.ts`) | memo tables per schema | can a schema accept undefined, does it need the recursion guard |
| synchronous predicate (`src/plan/predicate.ts`, `src/evaluate/state.ts`) | per call: active (value, schema) pairs, depth | `is()` |
| diagnostics collector (`src/evaluate/check*.ts`) | the same state, a path, the issues | `check()`, `checkFirst()` |
| finalizer (`src/evaluate/finalize*.ts`) | per call: visited pairs, finished outputs | strip and readonly outputs of an accepted value |
| cooperative validation (`src/async-validation`) | per call: guard state, steps, deadline | `isAsync()`, `checkAsync()`, `compileAsync()` |
| lowering and optimizer (`src/lower`, `src/ir`, `src/optimize`) | none | schema to graph, graph rewrites |
| runtime compiler (`src/compile`) | caches of compiled guards, warning table | `compile()`, `compileCached()`, `warmup()` |
| SeaBreeze (`src/seabreeze`) | an arena of type nodes: union-find, field table | allocate, append a field, join, snapshot, load |
| SeaCurrent (`src/seacurrent`) | an LRU analysis cache, tuning parameters | profile plans, path and edge counters, cycle covers, loop schedules, AOT bridge |
| registries (`src/registry`, `src/config`) | weak maps and reference lists, one error map | add, remove, clear, entries; set, reset |
| scalar guards (`src/guard`, `src/builders/scalar.ts`) and SeaFlow (`src/seaflow`) | the `lastIndex` of their regular expressions | append a check, describe a guard, make up samples |
| object guards (`src/builders/object`) | none | pick, omit, extend, partial, required, keyof, ... |
| decoders (`src/decoder`, `src/async`) | none; pipelines of steps | decode, encode, with awaits in between |
| JSON Schema (`src/json-schema`) | per call: definitions, references in progress | export to four dialects, import |
| AOT, codegen, plugins, adapters, facades | none that outlives a call | text and data conversions |

The components share no mutable state except memo tables, regular expressions and the process-wide
caches and registries. They interact by calls: `check()` runs the predicate first, and only on
rejection the collector; an accepted value goes through the finalizer; `checkAsync()` walks the
value cooperatively and, when the walk rejects, calls the synchronous `check()`; `compile()` lowers
a schema, optimizes the graph and emits code from it, possibly in an order SeaCurrent chose. User
code runs inside walks (lazy getters, refinements, factories) and, in the asynchronous components,
between any two steps.

What is hard: recursion through cyclic values and cyclic schemas, where the guard answers before
the verdict is known; budgets that cut walks short below operators that are not monotone;
several implementations that must agree (predicate, collector, graph evaluator, compiled code,
asynchronous kernel); static shortcuts that replace a dynamic check; overlapping asynchronous
calls on a value that is being changed; caches at their limits and factories that re-enter them;
union-find and span bookkeeping in a flat table; two directions that must invert each other
(decode and encode, export and import). `PROJECT.json` lists the hazards with their lines.

## Modules

| module | models |
|---|---|
| `SchemaGraph` | schemas (`Node`), values as heap records, reflection on them, the static analyses, and `Items(h, s, v)`: the sequence of local checks and child calls the kernel makes for a schema and a value |
| `SchemaDenotation` | what a schema means: the greatest set of (schema, value) pairs closed under the items of the kernel (`Denotation`) |
| `SchemaDenotationProofs` | lemmas about the kernel and the denotation; the denotation is a fixpoint; the correctness of a guarded walk, independent of the machine that runs it |
| `SchemaPredicate` | `executeSchemaPredicateWithState` as a stack machine with the recursion guard and the depth budget, and what its verdicts must mean |
| `SchemaPredicateProofs` | the guard is exact, the verdict decides the fixpoint and the denotation |
| `Collector` | `check()` and `checkFirst()`: predicate, then the second walk with its path stack and issue limit |
| `AsyncValidation`, `AsyncProofs` | overlapping `isAsync()` and `checkAsync()` calls on an event loop, with a caller that assigns properties meanwhile; proofs for any number of them |
| `Finalizer`, `FinalizerProofs` | `finalizeAcceptedValue` as a stack machine, the output a schema asks for as a relation; the input is not mutated |
| `GraphIR`, `Lowering`, `Optimizer` | the graph with its value numbering and evaluator, the lowering of every schema tag, each optimizer pass |
| `CompiledGuard`, `CompiledCheck` | the predicate emitted from a graph as a program and its run; the emitted `check` and first-issue functions |
| `SeaBreezeSnapshot`, `SeaBreezeArena`, `SeaBreezeTypes` | snapshots and `validateSnapshot`; the arena as a state machine; what a node denotes |
| `FieldLists`, `SeaBreezeProofs`, `SeaBreezeForestProofs` | the abstract specification of the field table; the proofs about the field table and about the nodes of the arena |
| `ControlProgram`, `FlowProfile`, `FlowStructure`, `SeaCurrent` | instrumented predicates and their control flow; edge and path counters; cycle double covers and modulo schedules; the choice of object orders and the planner with its cache |
| `ScalarChecks`, `ScalarGuards` | every engine's answer to the checks of scalar schemas, with `lastIndex`; builder methods, getters, coercing decoders, SeaFlow samples |
| `Stores`, `StoresProofs` | the metadata registry, the compile caches, the repeated-compile warning; their proofs |
| `Decoders`, `ObjectDecoders`, `TextCodecs` | decode and encode of every combinator; object decoders derived from one another; the JSON, number, base64 and hex codecs with the JSON parser |
| `Contracts`, `JsonExport`, `JsonImport`, `JsonValidity`, `ObjectGuards` | schemas as trees with their meaning; export; import; the dialects' own rules; the derivations of object guards |
| `MC*` | the instances for TLC |

### The kernel

A heap maps every value to a record: its kind, its own keys and enumerable keys in order, its own
slots (data, or `Accessor`), array slots (`Missing` for a hole), map or set items. A scalar schema
is the set of values it accepts: the checks of strings, numbers, dates, files and classes are
collapsed into that set (`ScalarChecks` models them). `Items` translates each `isXxxSchema`
function into the sequence of things it does until one decides; `Combine` says how answers combine
(`all`, `any` for unions, `one` for exclusive unions). `NextItem`, `Absorb` and `Finish` run that
sequence one item at a time with the early returns of the loops. Loose records, proxies that throw
and lazy getters that throw are left out.

### The predicate and the collector

A frame is one activation of `executeSchemaPredicateWithState`. `Cycle`, `Budget` and `Enter` are
the three answers of `enterValidation`; `RunUntracked` is the branch for schemas that need no
guard (`UnguardedOnlyBelowGuard`: the analysis that says so overlooks recursion through the catchall of an
object, and a walk still comes back to an unguarded pair only through a guarded one); `Return` is `leaveValidation` and the return to the caller. `MaxDepth` is the 256 of the
code. `ShortcutsAgree` compares two shortcuts of the kernel with what they replace and not with the items built from
them: a skipped array hole is one that would have passed as undefined, and the key count of a strict object admits
no more than looking every own key up.
`Collector` adds the second walk of `check()`: it is big-step, threading the guard, the path
and the issue buffer the code mutates. `RejectionExplained` says that a rejected value gets an
issue, `IssuesAreReal` that each issue is at a path of the value where the schema denies what is
there, `FirstIssueIsFirst` that `checkFirst()` stops at the issue `check()` reports first.

### Cooperative validation

Each task has the state of one walk. `MaybeYield` is `maybeYield` (the visit count modulo
`YieldEvery`, or the deadline, which may have passed at any visit); a walk that yields is parked and
`Turn` resumes it, only when no other continuation is runnable, as a macrotask. `Assign` is the
caller. A `checkAsync()` whose walk rejected calls the synchronous `check()` (`index.ts:210`), and that
call is a walk of its own: `Recheck` starts it with an empty guard and the full budget, and in its phase
"checking" nobody else moves (`HasThread`), no visit is counted, and the walk may be cut by the budget and
reject a value the schema denotes, as in the code. What it answers is what `Resolve` reports.
The checker that `compileAsync()` returns calls the compiled `check` there, which is `CompiledGuard`, not this.
Interleaving is finer than in the code, where a walk keeps the
thread between yields: every answer of the code is an answer of the model. Visits of the loop
iterations that skip an absent entry are not counted.

`BurstBounded` is about the cooperative walk, which is what docs/api.md:1247 speaks of; the second walk is one
uninterrupted call however large the value is. `QuietVerdictExact` claims an answer only of a walk
that saw one heap and was not starved by the budget. The first walk of a rejected `checkAsync()` is not
claimed to be right: the second one, which no assignment can disturb, decides.

### The finalizer

The output of an accepted value: objects in strip mode are projected to their declared fields,
readonly outputs are frozen, and whatever contains a changed value is cloned. A `request` is a
pending call of `finalizeValue`, an `answer` what a call returned, a frame a suspended activation
("clone" for the containers, "strip", "base" and "item" for `finalizeProperty`, "left", "right" and
"merge" for intersections, "readonly"). Objects made by the call take the identities of `Fresh` in
order. `pairs` and `outputs` are the two tables of `FinalizeState`; `merged` and `tasks` are the
table and the worklist of `finalize-intersection.ts`, and `fill` is the task in progress, one key per
step. `Matching` asks the denotation which branch accepts a value, as the code calls the
predicate. `raw` and `read` only record history for the properties: second visits answered with the value
itself, and outputs whose fields were read together with what was read.

What the output should be is said without visits, tables or order: `Projection` is the greatest
relation between schemas, values and outputs that respects every tag (so it follows cycles), and
`Merge` the greatest relation of two outputs and their join. `OutputProjected` compares the output with it,
outside the two flaws listed under Findings. Map and Set copies keep one entry per original entry: distinct
entries whose finalized keys coincide do not occur, because each output belongs to one value. Freezing
an output that is the input itself (a readonly schema over an unchanged value) is in the model, and not
counted as a write.

### Lowering, optimizer, compiled code

A graph is a sequence of nodes referring to each other by position. `Lowering` translates each
`lowerXxx`, `Optimizer` each pass into an operator from graphs to graphs, `CompiledGuard` the
emitter of `graph-predicate.ts` into an operator that returns a program of statements, with what
the emitter knows to be established at each point (its facts), in the modes "safe", "unsafe" and
"unchecked". `MeaningKept` compares what the evaluator answers before and after each pass with the
kernel, `NoNewCalls` counts the calls of user code, `CompiledAgrees` runs the programs.
`CompiledCheck` models the emitted diagnostics, which have neither guard nor budget; cyclic values
are excluded there, because the emitted functions do not return on them. In the unsafe modes the reports are
at the same paths for plain values; unchecked mode also drops strictness.

### The SeaBreeze arena

The tables of the code are the variables of `SeaBreezeArena`, with ids counted from 1. The builder
API fills an object completely before anything else happens (`building`); a caller of the arena
itself may append to any object at any time (`Raw`). `principalJoin` recurses, so `call` is the join
that is about to run, `frames` holds the suspended activations (an array join waiting for its element,
an object merge with its output and the two spans it read at its start) and `answer` what the last
activation returned. Every field of a merge is an action (`MergeShared`, then `EmitShared`;
`EmitDrift`), because nested joins append to other objects of the same table in between. A
`RangeError` of the table limits drops the stack and leaves the tables as they are (`Abort`).
`Load` takes a snapshot built elsewhere, which is how two nodes of one scalar kind, bound unions and
shared variables come to be. A caller of the arena may
close a cycle through an object (`Raw`); no snapshot of it loads, because `validateSnapshot` refuses
cycles, so `SnapshotReloads` is checked without `Raw` only. Variable levels carry no behaviour in the arena and are left out, as are
argument checks that throw before any change. `Conforms` is the schema a node lowers to under the
default options; `FieldLists` is what the field table promises, with the refinement mapping `ListsOf`.

### SeaCurrent

A structural hash is the graph it is the hash of (no collisions of FNV), an analysis stands for the graph
and options it was made from. A run of an instrumented predicate is one step, but a snapshot may be taken
after a run was cut short at any event (`Interrupt`): a run that ended in an exception leaves counters that do not
add up, which the bridge must refuse. The cost model, the tuner and the choice among budgets
are free choices or fixed; checksums and serialization are left out. `RecentlyUsedKept` says what a plan
leaves in the cache: the last requests, hits and misses alike, in their order, also when one plan
asks for more regions than fit, and that what it finds there is what would be made afresh. `FlowProfile` and
`FlowStructure` are pure algorithms, compared with definitions by enumeration: the chosen counters
determine the flow of every edge, every edge that is no bridge is on exactly two cycles of the
cover (with search budgets that run out as well as ample ones), the schedule respects dependences and resources.

### Scalars, tables, decoders, contracts

`ScalarChecks` states what each of six engines answers for a check list, with the `lastIndex` that
global and sticky expressions keep between tests. `ScalarGuards` builds guards one method at a time and asks
about them in any order. The solvers of SeaFlow label a made-up value before anything has looked at it, and some
labels are wrong: `-0` is called valid whatever the checks (`seaflow/scalar.ts:240`), so `number().gt(0)`
gets a wrong one, as do several divisors, fractional bounds, bigints with a divisor of one, and security texts
tested from a `lastIndex`. Each of these cases is emitted in the model too. What SeaFlow publishes has been
through `emit.ts:126-143`, which asks the checks again and flips the label or drops the case (`ReconcileSeaFlowCase`).
`SelfDescriptionTrue` claims all published labels, without exception. Of the
solvers themselves it claims that what they call invalid is rejected, under `Labelled` (which names the flaws above), and that a
sample is accepted, under `Sampled`: not for strings with a format or an expression, numbers with fractional bounds or several divisors, bigints
with a divisor beside an upper bound, files with a MIME type.

`Stores` has three independent tables. Factories of the compile cache run inside a compile and may
compile again (`MaxFrames`). Weak references are collected one at a time, when no other reference
holds a schema.

`Decoders` gives `decode()` and `encode()` of a tree of combinators; `ObjectDecoders` derives object
decoders from one another, up to `MaxMade`; `TextCodecs` types a text one character at a time.
`Contracts` says what a schema tree means for JSON values. `JsonValidity` is written from the dialects,
not from the code: the reference for the exporter and the importer. `ObjectGuards` applies the
derivations, up to `MaxDerivations`, and each derived guard is compared with a model that
remembers the history.

## Runs

| run | instance | shows |
|---|---|---|
| `verdict_small` | a lazy union of two record schemas, two mutually referencing records, budget 4 | guard and depth counter exact, verdict exact, every rejection explained by an issue; deep enough that the budget is reached and cycles are cut |
| `verdict_wide` | every schema tag on a value of every kind; thirteen schemas with four lazy cycles, one through a catchall, on every heap of two records with two slots; budget 24 | the verdict is the denotation wherever no exclusive union is reached; what runs without the guard is below a guarded node; the hole shortcut and the strict key count agree with what they replace; issues are real and the first is first; the emitted diagnostics agree with the runtime ones |
| `async_overlap` | `isAsync()` and `checkAsync()` of one cyclic record against a recursive union of an object and a dictionary, one assignment of up to four values, budget 6, a yield at least every third visit | bounded bursts, exact undisturbed answers where no budget cut the walk, an error reported by the second walk is true of the value as it is then, both settle |
| `finalize_graphs` | recursive strip, readonly, union, property, intersection and container schemas on graphs of two records and a collection | outputs are projections outside the two flaws, only own unfrozen objects are written, calls return |
| `engines` | sixty schemas of every tag the graph can hold, every conjunction and disjunction of two or three of eleven operands | lowering and each pass keep the meaning and add no call, the compiled predicate agrees in three modes |
| `compiled_parity` (violation) | a union of a literal, a number and another literal of the first type | the compiled predicate rejects the second literal |
| `breeze_builder` | builder programs of three nodes and two fields, two joins | joins end, snapshots reload, also after a capacity error |
| `breeze_loaded` | two joins over loaded arenas: nested records sharing keys, shared variables, bound unions, two string nodes | spans stay apart, the table refines `FieldLists`, answers are upper bounds under later bindings |
| `seacurrent` | sessions of five operations on the planner, and the four planning algorithms on small flow graphs and loops | the cache serves no stale analysis and keeps what was used last, a profile tells what happened, optimized predicates agree, counters, covers and schedules are right |
| `codecs` | object decoders derived from one another on every value, every text of the modelled text codecs | what is decoded encodes back, derivations keep refinements, these codecs read back what they write and the JSON parser knows the grammar |
| `contracts` | contracts of every kind in four dialects, rules stacked on objects and recursion through every composite among them; guards derived in up to three steps | export is lossless where it does not refuse, but for six named flaws; import means the document, derived guards mean what their history says; a discriminated union is the union |
| `services` | scalar guards asked through every engine; three schemas and two ids; two guards with factories; three call sites | engines agree, guards describe themselves truthfully, the labels SeaFlow publishes are right, ids are unique, a slot is served one plan, warnings mean bursts |

Bounds. `Fresh` has twelve identities, more than any call of the finalizer instances makes (a call
that ran out would not return, and `Returns` would fail). Two references are enough for every shape of recursion guard entry: self cycles, mutual
cycles, sharing. Budgets of 4 and 6 put the limit inside the walks: in `async_overlap` the second walk of a `checkAsync()` is cut too. `YieldEvery` of 3 makes yields
fall on every kind of step as the visits shift. `MaxWrites` bounds the caller's assignments. In the SeaBreeze
runs `MaxNodes` and `MaxFields` are capacities of the code and are reached, so that joins fail halfway;
`MaxJoins` bounds the joins between two resets, and two joins of nested records already fill three
outputs in turns. `Scalars` are the scalar kinds in use, one or two of the seven. `MaxChecks` (2) is the
length of a check list: pairs are what interacts. `MaxRefs` 4 lets the reference list hold a stale
reference beside every schema; `Threshold` 3 and `Window` 1 make windows end inside a count, and
`Limit` 1 makes the warning table overflow. `MaxExpanded` 3 cuts the expansion of control inside the
graphs in use; `MaxSteps` bounds a session. `MaxDerivations` 3 lets a derivation act on the result of
two others.

Deadlock checking is off where the system may stop: calls return, clients stop making requests,
pure comparisons have no next step.

Fairness. A call of the finalizer is synchronous: weak fairness of its next step says only that the thread runs. Of the
synchronous predicate no liveness is checked: what could keep it from returning is a recursion that escapes
the guard, which `UnguardedOnlyBelowGuard` and `ActiveMatchesStack` are about.
`AsyncValidation` assumes that the event loop does not stop while it has work (`Work`), for all
calls together; a synchronous check inside it is part of that work and keeps the thread until it reports; a SeaBreeze join is one synchronous call and takes its steps (`JoinStep`) until it
returns or throws, whatever the caller would do next. In `AsyncValidation`, that each call gets its turn follows from the macrotask queue and is checked, not
assumed.

## Proofs

Assumed throughout are the assumptions the modules name: what a schema node and a heap record look
like (`SchemaGraph`), that a program has finitely many schemas and a call finitely many values
(`FiniteAssumption`), that budgets and capacities are natural numbers. Each theorem is about every
value of the constants that meets them.

`SchemaDenotationProofs`. `Denotation` is computed: drop the pairs that are not supported, until none
is left. `DenotationIsFixpoint`: on every set of schemas closed under calls and free of exclusive unions, that
ends, and in the greatest fixpoint of the kernel items. The recursion of `Denotation` is a
CHOOSE of a recursive function on sets of pairs; that the function exists (`NarrowingExists`) and
what it returns is shown from the least set on which it might fail, because the sets are finite and shrink.
The module also proves the walk once, for any machine: a walk below a frame decides its pair
*under the hypotheses* of the pairs active above it. The lemma `Reduction` discharges them: a pair
belongs to the greatest fixpoint under hypotheses H exactly when it is supported by the greatest
fixpoint under H together with the pair itself. `WalkInv` says of every frame that it waits for the
next one, and that the items it passed were decided under its hypotheses.

`SchemaPredicateProofs`, for every schema graph, heap, root and budget:

- `TypeCorrect`, `GuardIsExact`, `DepthIsBounded`. The inductive invariant `GuardInv` adds to the
  three that entered frames have well-typed positions and that a request is never pending together with an
  answer; the guard's exactness alone is not inductive because leaving
  removes a pair that must not belong to another frame.
- `IsDecidesTheFixpoint`: without exclusive unions an accepted pair is in the fixpoint, and a
  rejected one is not unless the budget cut the walk. When the stack is empty no hypothesis is left.
- `IsDecidesTheDenotation`: the same against the computed denotation, for graphs that may have
  exclusive unions elsewhere, on the schemas that reach none. Exclusive unions are excluded because
  they are not monotone; the claim is false with them (Findings).

`AsyncProofs`, for any number of calls, schema graph, heap and assignments:

- `AsyncTypes`; `BurstsAreBounded`: a burst is at most the steps counted since the last multiple of
  `YieldEvery`, and a walk that reaches it parks.
- `QuietVerdicts`: a walk that no assignment disturbed accepts only what the schema denotes and, unless the
  budget cut it, rejects only what it does not denote; so an error of `checkAsync()` is true of the value as it is when
  reported, however often it was assigned to before. Nothing is assumed of the second walk: it is
  the machine's own, with its guard and its budget. The invariant `QuietInv` says that every call in its second walk, and every
  undisturbed one in its first (`WalksHeap`), is a walk in the sense above, with its own guard as hypotheses, and that a frame of a
  dictionary holds the slot it has read. A second walk keeps the invariant because `Assign` needs the thread,
  and begins it because a fresh guard means no hypotheses. It is claimed for graphs without exclusive unions; of the first
  walk, also without conditional refinements (`Unconditional`): the asynchronous kernel ignores `when`.
- Both rest on `AsyncInv`, which counts the entered activations of every stack: the depth of a call is
  their number, so the budget of the second walk is its own.

`SeaBreezeProofs`, for every key set, capacity and set of valid snapshots, when objects are filled one
at a time (`~Raw`, the discipline of the builder):

- `SpansStayIsolated`: no slot of the field table is shared or lost. Disjoint spans are not
  inductive: an append to an object that ends in the middle of another span would split it. The
  invariant `Inv` adds that the open objects, which are the outputs of the
  suspended merges, form a stack in which each ends at or before the start of the next, and that no
  open object ends inside the span of another (`Appendable`). With `Raw` the property is false.
- `ImplementsLists`: the arena implements `FieldLists`. `StoreRefines` shows that the shifted
  suffix keeps every other list.

`SeaBreezeForestProofs`, under the same discipline and when no loaded snapshot has a scalar node besides
the canonical ones (`OnlyCanonicalScalars`, true of everything the builder makes; the claim is false
without it, see Findings):

- `SnapshotsReload`: between two calls of the arena its snapshot is one that `validateSnapshot` accepts, so another
  arena can load it. `ArenaTypes` is the type invariant it needs.
  Acyclicity is not inductive as the validator computes it. The invariant `ForestInv` asks instead for a
  rank (`Layered`) that falls along every parent link and along every edge from a representative to the
  representatives of its children; `ValidIsLayered` and `LayeredIsAcyclic` show that this is what
  peeling the nodes off one by one decides, which is how a loaded snapshot enters the invariant and
  the invariant gives back a valid snapshot.
  A new node goes above all others, a new field goes into an object that no node refers to yet
  (`HiddenInv`: the object being built, and the outputs of the suspended merges). Binding a variable is the
  hard step: `OccursCloses` shows that a search that misses the variable has marked a set of
  representatives that is closed under children and lacks it, and `BindLayered` lifts
  every node outside that set above it. `LinkSameKind` never runs (`NoTwins`):
  it links two scalars of one kind, and each kind has one node.

`FinalizerProofs`, for every schema graph, value, set of readonly and strip schemas and number of outputs:

- `InputIsNotMutated`: no call writes to an object of the input, nor to one that is frozen. The
  invariant `WriteInv` says that every frame that fills an output and every merge task holds an
  object the call made, and that nothing is frozen before the last frame is gone.

`StoresProofs`, for any number of schemas, ids, guards, names and call sites:

- `RegistryIdsUnique`. Uniqueness needs `Listed`: the check of an id looks at the list of weak references, so every
  registered schema must be on it, whatever was removed or collected meanwhile.
- `CacheServes`. `CacheInv` says of every suspended compile which slot it fills, and that
  no other one of the stack fills the same (`FillsOnce`), but for a factory that compiles its own slot.
- `WarningsMeanBursts`. `WarningInv`: while a window is open, the compiles counted for a call site are its last
  ones, all inside the window.

Only model-checked, and why:

- `AllSettle`, `Returns`, `JoinEnds`: liveness is out of the prover's reach.
- `RejectionExplained`, `IssuesAreReal`, `FirstIssueIsFirst`, `SameDiagnostics`, and the properties of
  `engines`, `seacurrent`, `codecs` and `contracts`, `ScalarEnginesAgree`, `SelfDescriptionTrue`: their modules compute with RECURSIVE
  operators, which the prover's arithmetic backend does not support.
- `UnguardedOnlyBelowGuard`, `ShortcutsAgree`: not done. They are about
  the static analyses, which are functions computed by recursion over the schema graph.
- `JoinUpperBound`, `OutputProjected`: not done. Each needs a simulation between the tables of a call and
  a recursive function that TLC computes (`Conforms`, the projection), over all the steps of the call.
  For `JoinUpperBound` the way is to take the greatest relation between visible nodes whose pairs are justified
  one level down (equal representatives, Never, Unknown, an option of a union, covered fields), to show that
  it implies `Conforms` by the layers of `ForestInductive`, and that every frame keeps its operands below its output.

## Findings

The run `compiled_parity` shows that the compiled predicate of a union of primitives rejects a value
that the guard accepts: an option alone in its run of equal type masks is written with the failure
statement of the whole union (`src/compile/graph-predicate.ts:1482`). README.md promises identical verdicts
across execution strategies. The other observations were made while modelling and are kept out of the passing runs
by the condition named with each.

Walks and analyses

- A branch cut off by the depth budget counts as not matching, so an exclusive union
  can accept because a value is too deep (`src/plan/schema-predicate.ts:1238`; `XorFree`).
- `schemaCanAcceptUndefined` counts opaque branches of an exclusive union as rejecting, so an array hole is
  accepted that validation rejects (`src/schema/undefined.ts:35`).
- The asynchronous kernel ignores `when` of a refinement (`src/async-validation/index.ts:406`; `Unconditional`).
- `schemaRequiresTracking` does not look at the catchall of an object (`src/plan/cache.ts:130`), so an object that recurs
  through its catchall runs unguarded. Lazy nodes below it are guarded whatever they lead to, and the walk returns.
- A pair the finalizer meets a second time is answered with the value itself, and the pairs are
  never left, so sharing counts as recursion: checking `[q, q]` can project one place and leave the
  other (`src/evaluate/finalize.ts:334`; `raw`).
- A merge copies the fields an output has so far (`src/evaluate/finalize-intersection.ts:200`; `read`).
- Appending to an object at the end of the table leaves an empty object that
  was allocated there inside its span (`src/seabreeze/sea-breeze.ts:367`; `Raw`).
- A snapshot may hold a second node of a scalar kind. Joining it with the canonical one links the canonical
  node below it (`src/seabreeze/sea-breeze.ts:590`), and then the arena's own snapshot is refused: "canonical parent
  is invalid" (`src/seabreeze/sea-breeze.ts:953`; `OnlyCanonicalScalars`).

Compiler

- Facts established inside the block of an optional key are taken to hold after it (`graph-predicate.ts:2606`).
- `number().gte(1).int()` loses its IsNumber test in `canonicalizeTypeFacts` (`fold-constraints.ts:212`).
- A hole in an array of opaque items is rejected by compiled code (`graph-predicate.ts:888`), and an exclusive union with an opaque option
  is taken to reject undefined (`schema/undefined.ts:116`).
- `schemaUnionMask` of class and property schemas covers objects only (`lower/index.ts:714`).
- The interpreter of graphs ignores catchall schemas (`object-order.ts:198`).
- In the unsafe modes a required key whose schema is opaque is not tested for presence (`graph-predicate.ts:2634`; docs/api.md:1364).
- In unchecked mode the inner object of a property count keeps its strictness in `is()` and loses it in the diagnostics.

JSON Schema

- docs/api.md:1551 says that export succeeds only "without semantic loss". Six flaws are kept out of `ExportIsLossless` by
  name (`Flawed`; taking any one of them away makes the run fail):
  stacked rules of one kind overwrite one another's keyword, and patterns also the `additionalProperties` of a strict or catchall object
  (`emit.ts:498`, `573`, `625`; `RulesOverwritten`): a count of at least one around a count of at least two is exported with `minProperties` 1,
  though `builders/object/guard.ts:823` lets such rules wrap one another. The pointer of a schema below a pattern lacks the pattern (`emit.ts:658`;
  `PointsIntoPatterns`): a recursive schema first met there is referred to as `#/patternProperties`, which is no schema. Besides, siblings of `$ref` in draft-04, draft-07 and OpenAPI, and OpenAPI's `nullable` without `type`, are
  written though the dialect ignores them (`NeighboursIgnored`); a nested `$id` rebases the references below it, which neither the
  writer nor the reader knows (`Rebased`); a second `multipleOf` is dropped (`emit-scalar.ts:232`; `DivisorDropped`);
  `unrepresentable: "any"` inside an exclusive union is stricter, not weaker (docs/api.md:1612; `WeakenedChoice`).
- Outside the contracts in use: files are written as strings, number keys of `record(number(), ...)` are required, and
  `minLength` counts code points where the guard counts UTF-16 units.
- Import ignores siblings of combinators, the rest items of 2020-12 tuples, `required` of undeclared keys and `nullable`;
  `properties` without `type` reads as an object; `{ $ref: "#" }` is lazy on itself; a pointer to a table such as `#/patternProperties` is taken for a schema. `Understood` names the documents
  the import is claimed for.

Guards, decoders, SeaFlow

- `required()` of an exactly optional property leaves its `shape` entry optional; any deferred inner of a wrapped entry becomes
  optional (`builders/object/schema.ts:825`); `deepPartial` drops required keys of records; `discriminatedUnion` looks at the left object of an intersection only.
- A union of codecs may decode an encoded value with another option; an intersection of a passing and a
  mapping object codec decodes and then fails to encode; `describe()` of a codec returns a one-way decoder; the sign of zero, spaces around
  boolean words and milliseconds of epoch seconds are lost; a lazy decoder has no cycle guard (`decoder/index.ts:1926`);
  several coercing constructors ignore their options (`decoder/index.ts:2656`).
- The labels of SeaFlow's solvers miss a `lastIndex` left by the collector, a `multipleOf` when there are several, boundaries
  between fractional bounds, bigint divisors of one, and call `-0` valid whatever the checks (`seaflow/scalar.ts:240`). Those it publishes
  are corrected before (`emit.ts:137`).

Tables

- Registry metadata changed after `add` can break the uniqueness of ids; removing and adding again grows the reference
  list. A factory that compiles its own slot hands out two plans (`compile/cache.ts:182`). A warm-up with a
  name prefix fills slots callers without a name do not ask for. Clearing the warning table at its limit restarts the counts.
- SeaCurrent's cache key leaves out the options of the adapter; a resource capacity of zero makes a schedule throw; exits with
  outgoing edges make path numbers collide.

## Not modelled

Loose records, hostile objects, the loader and bundler plugins, the analyzer tools, framework adapters, the facades,
wording of issues and messages, and the asynchronous decoders. A caller that changes array lengths or adds keys
between the steps of a cooperative walk, or changes the value between that walk and the finalizer, is listed under the hazards without a
property. The text codecs are claimed against a grammar that has the decoder's own limits and its refusal of lone surrogate
escapes (`decoder/index.ts:5542`), which JSON itself does not refuse. `url({normalize: true})`, Temporal and URL codecs are left out of the codecs.
