------------------------------- MODULE Stores -------------------------------
(***************************************************************************)
(* The tables a process keeps between calls: the metadata registry         *)
(* (src/registry/index.ts), the compile caches (src/compile/cache.ts and   *)
(* the two weak caches of src/compile/guard.ts) and the counters behind    *)
(* the repeated-compile warning (src/compile/guard.ts).                    *)
(*                                                                         *)
(* A plan is [kind, guard, config]: the weak caches never drop a plan of a *)
(* live guard, so the three name one object.  A slot is [key, config].     *)
(* A name is a sequence, empty when no name was given.                     *)
(***************************************************************************)
EXTENDS Integers, Sequences, FiniteSets

CONSTANTS
  Schemas, Ids, NoId,             \* what can be registered, and its ids
  MaxRefs,                        \* bound on the list of weak references
  Guards, Keys, Modes, Names, NamePrefixes,  \* what can be compiled, and how
  MaxFrames,                      \* bound on factories that compile
  MaxPlans,                       \* bound on the plans of a session
  Callsites,
  Threshold, Window, Limit,       \* COMPILE_WARNING_THRESHOLD, _WINDOW_MS, _LIMIT
  MaxTime, MaxCount               \* bounds on the clock and the counters

ASSUME BoundsAssumption == Threshold \in Nat \ {0} /\ Window \in Nat /\ Limit \in Nat

VARIABLES
  store,      \* registered schema -> its metadata id
  refs,       \* the weak references, one per first or repeated registration
  dead,       \* schemas the collector took
  plans,      \* the plans of the weak caches
  entries,    \* slot -> plan, an explicit compile cache
  frames,     \* slots whose factories are running, the innermost last
  served,     \* slot -> the plans handed out since it was last emptied
  reentered,  \* slots compiled again by their own factory
  warnings,   \* callsite -> [count, windowStart, warned]
  now,
  raised,     \* the callsite warned about by the last step, or none
  recent      \* callsite -> the times of its last compiles, Threshold at most

registryVars == <<store, refs, dead>>
cacheVars == <<plans, entries, frames, served, reentered>>
warningVars == <<warnings, now, raised, recent>>
storesVars == <<store, refs, dead, plans, entries, frames, served, reentered,
                warnings, now, raised, recent>>

Without(f, x) == [y \in DOMAIN f \ {x} |-> f[y]]
With(f, x, v) == [y \in DOMAIN f \cup {x} |-> IF y = x THEN v ELSE f[y]]

-----------------------------------------------------------------------------
(* The registry                                                            *)

\* Schemas that are referenced, alive and not removed.
Snapshot == {s \in DOMAIN store : \E i \in DOMAIN refs : refs[i] = s}

\* assertRegistryIdAvailable looks at the other entries of the snapshot.
IdAvailable(schema, id) ==
  id = NoId \/ \A s \in Snapshot : s = schema \/ store[s] # id

RegistryInit == store = [s \in {} |-> NoId] /\ refs = <<>> /\ dead = {}

AddMetadata(schema, id) ==
  /\ schema \notin dead
  /\ IdAvailable(schema, id)
  /\ Len(refs) < MaxRefs
  /\ refs' = IF schema \in DOMAIN store THEN refs ELSE Append(refs, schema)
  /\ store' = With(store, schema, id)
  /\ UNCHANGED dead

\* The reference stays in the list.
RemoveMetadata(schema) ==
  /\ schema \in DOMAIN store
  /\ store' = Without(store, schema)
  /\ UNCHANGED <<refs, dead>>

ListOnlyCleared == refs' = <<>> /\ UNCHANGED <<store, dead>>

\* Deletes what the list refers to, then empties it.
ClearMetadata ==
  /\ store' = [s \in DOMAIN store \ {refs[i] : i \in DOMAIN refs} |-> store[s]]
  /\ refs' = <<>>
  /\ UNCHANGED dead

\* A schema nothing refers to leaves the weak map; its reference goes stale.
Collect(schema) ==
  /\ schema \notin dead
  /\ dead' = dead \cup {schema}
  /\ store' = Without(store, schema)
  /\ UNCHANGED refs

RegistryNext ==
  \/ \E s \in Schemas, id \in Ids \cup {NoId} : AddMetadata(s, id)
  \/ \E s \in Schemas : RemoveMetadata(s)
  \/ ClearMetadata
  \/ \E s \in Schemas : Collect(s)

RegistrySpec == RegistryInit /\ [][RegistryNext]_registryVars

-----------------------------------------------------------------------------
(* Compile options                                                         *)

DefaultName == <<"typesea_is">>

\* readCompileCacheOptions, and readCompileOptions for the weak caches.
ResolvedOptions(options) ==
  [mode |-> IF options.mode = "none" THEN "safe" ELSE options.mode,
   name |-> IF options.name = <<>> THEN DefaultName ELSE options.name]

ReadCompileCacheKey(key, options) == [key |-> key, config |-> ResolvedOptions(options)]

\* The entry's options win; the prefix names what is still unnamed.
MergeCompileOptions(shared, local, prefix, index) ==
  LET name == IF local.name # <<>> THEN local.name ELSE shared.name IN
  [mode |-> IF local.mode # "none" THEN local.mode ELSE shared.mode,
   name |-> IF name = <<>> /\ prefix # <<>> THEN prefix \o <<index>> ELSE name]

Options == [mode : Modes \cup {"none"}, name : Names \cup {<<>>}]

-----------------------------------------------------------------------------
(* The repeated-compile warning                                            *)

\* A new window, for a callsite that is unknown or whose window has passed.
Opens(site, time) ==
  site \notin DOMAIN warnings \/ time - warnings[site].windowStart > Window

CountedAcrossWindows(site, time) ==
  LET state == IF site \in DOMAIN warnings
               THEN [warnings[site] EXCEPT !.windowStart = IF Opens(site, time) THEN time ELSE @]
               ELSE [count |-> 0, windowStart |-> time, warned |-> FALSE] IN
  [state EXCEPT !.count = @ + 1, !.warned = @ \/ state.count + 1 >= Threshold]

Counted(site, time) ==
  LET state == IF Opens(site, time) THEN [count |-> 0, windowStart |-> time, warned |-> FALSE]
               ELSE warnings[site] IN
  [state EXCEPT !.count = @ + 1, !.warned = @ \/ state.count + 1 >= Threshold]

Latest(times) == IF Len(times) > Threshold THEN Tail(times) ELSE times

\* The whole table is dropped when a window opens in one past its limit.
MaybeWarnRepeatedCompile(site) ==
  LET old == IF Opens(site, now) /\ Cardinality(DOMAIN warnings) > Limit
             THEN [s \in {} |-> 0] ELSE warnings
      known == ~Opens(site, now) /\ warnings[site].warned
  IN /\ warnings' = With(old, site, Counted(site, now))
     /\ raised' = IF Counted(site, now).warned /\ ~known THEN {site} ELSE {}
     /\ recent' = [recent EXCEPT ![site] = Latest(Append(@, now))]
     /\ UNCHANGED now

-----------------------------------------------------------------------------
(* compile() and the explicit cache                                        *)

Plan(kind, guard, config) == [kind |-> kind, guard |-> guard, config |-> config]
Room(site) == ~Opens(site, now) => warnings[site].count < MaxCount

\* A plan of the weak cache is returned as it is, without being counted.
CompileGuard(plan, site) ==
  /\ plan \in plans \/ Cardinality(plans) < MaxPlans
  /\ plans' = plans \cup {plan}
  /\ IF plan \in plans THEN raised' = {} /\ UNCHANGED <<warnings, now, recent>>
     ELSE Room(site) /\ MaybeWarnRepeatedCompile(site)

\* The slots whose factories are running.
Running == {frames[i] : i \in DOMAIN frames}

HandOut(slot, plan) ==
  served' = With(served, slot,
                 IF slot \in DOMAIN served THEN served[slot] \cup {plan} ELSE {plan})

CacheInit ==
  /\ plans = {} /\ entries = [s \in {} |-> 0] /\ frames = <<>>
  /\ served = [s \in {} |-> {}] /\ reentered = {}
WarningInit ==
  /\ warnings = [s \in {} |-> 0] /\ now = 0 /\ raised = {}
  /\ recent = [c \in Callsites |-> <<>>]

\* compile() and compileBoolean() called directly.
Compile(kind, guard, options, site) ==
  /\ CompileGuard(Plan(kind, guard, ResolvedOptions(options)), site)
  /\ UNCHANGED <<entries, frames, served, reentered>>

\* A guard built for this call and never seen again.
CompileFresh(site) ==
  /\ Room(site) /\ MaybeWarnRepeatedCompile(site)
  /\ UNCHANGED cacheVars

CompileUncached(key, options) ==
  /\ Len(frames) < MaxFrames
  /\ frames' = Append(frames, ReadCompileCacheKey(key, options))
  /\ reentered' = reentered \cup ({ReadCompileCacheKey(key, options)} \cap Running)
  /\ raised' = {}
  /\ UNCHANGED <<plans, entries, served, warnings, now, recent>>

\* A slot found in the cache; otherwise its factory, which is user code, runs.
CompileCached(key, options) ==
  LET slot == ReadCompileCacheKey(key, options) IN
  /\ IF slot \in DOMAIN entries
     THEN HandOut(slot, entries[slot]) /\ UNCHANGED <<frames, reentered>>
     ELSE /\ Len(frames) < MaxFrames
          /\ frames' = Append(frames, slot)
          /\ reentered' = reentered \cup ({slot} \cap Running)
          /\ UNCHANGED served
  /\ raised' = {}
  /\ UNCHANGED <<plans, entries, warnings, now, recent>>

\* The factory returns a guard: it is compiled, and replaces what the factory
\* itself may have put into the slot.
FactoryReturns(guard, site) ==
  LET slot == frames[Len(frames)]
      plan == Plan("full", guard, slot.config)
  IN /\ frames # <<>>
     /\ CompileGuard(plan, site)
     /\ entries' = With(entries, slot, plan)
     /\ HandOut(slot, plan)
     /\ frames' = SubSeq(frames, 1, Len(frames) - 1)
     /\ UNCHANGED reentered

\* Nothing is stored.
FactoryThrows ==
  /\ frames # <<>>
  /\ frames' = SubSeq(frames, 1, Len(frames) - 1)
  /\ raised' = {}
  /\ UNCHANGED <<plans, entries, served, reentered, warnings, now, recent>>

DeleteSlot(key, options) ==
  LET slot == ReadCompileCacheKey(key, options) IN
  /\ slot \in DOMAIN entries
  /\ entries' = Without(entries, slot) /\ served' = Without(served, slot)
  /\ raised' = {}
  /\ UNCHANGED <<plans, frames, reentered, warnings, now, recent>>

ClearCache ==
  /\ entries' = [s \in {} |-> 0] /\ served' = [s \in {} |-> {}]
  /\ raised' = {}
  /\ UNCHANGED <<plans, frames, reentered, warnings, now, recent>>

\* One input of warmup() with a guard: a keyed one goes through the cache.
CompileWarmupInput(key, guard, shared, local, prefix, index, site) ==
  LET options == MergeCompileOptions(shared, local, prefix, index)
      slot == ReadCompileCacheKey(key, options)
      plan == Plan("full", guard, ResolvedOptions(options))
  IN /\ IF key = "none"
        THEN CompileGuard(plan, site) /\ UNCHANGED <<entries, served, reentered>>
        ELSE IF slot \in DOMAIN entries
        THEN /\ HandOut(slot, entries[slot]) /\ raised' = {}
             /\ UNCHANGED <<plans, entries, reentered, warnings, now, recent>>
        ELSE /\ CompileGuard(plan, site)
             /\ entries' = With(entries, slot, plan) /\ HandOut(slot, plan)
             /\ reentered' = reentered \cup ({slot} \cap Running)
     /\ UNCHANGED frames

CacheStep(site) ==
  \/ \E kind \in {"full", "boolean"}, g \in Guards, o \in Options : Compile(kind, g, o, site)
  \/ \E k \in Keys, o \in Options : CompileCached(k, o)
  \/ \E g \in Guards : FactoryReturns(g, site)
  \/ FactoryThrows
  \/ \E k \in Keys, o \in Options : DeleteSlot(k, o)
  \/ ClearCache
  \/ \E k \in Keys \cup {"none"}, g \in Guards, shared, local \in Options, prefix \in NamePrefixes :
       CompileWarmupInput(k, g, shared, local, prefix, 0, site)
CacheNext == \E c \in Callsites : CacheStep(c)

\* Compiles of which the last is older than the window are of no interest.
Forgotten(times, time) ==
  IF times # <<>> /\ time - times[Len(times)] > Window THEN <<>> ELSE times

Wait ==
  /\ now < MaxTime /\ now' = now + 1 /\ raised' = {}
  /\ recent' = [c \in Callsites |-> Forgotten(recent[c], now')]
  /\ UNCHANGED <<plans, entries, frames, served, reentered, warnings>>
WarningNext == Wait \/ \E c \in Callsites : CompileFresh(c)

CacheSpec ==
  CacheInit /\ WarningInit /\ [][CacheNext \/ WarningNext]_<<cacheVars, warningVars>>

-----------------------------------------------------------------------------
(* Properties                                                              *)

\* No two registered schemas have the same id, whatever was removed, cleared
\* or collected before (SchemaRegistry.add).
IdsUnique ==
  \A s, t \in DOMAIN store : store[s] = store[t] /\ store[s] # NoId => s = t

\* Every plan handed out for a slot was compiled with the slot's options, and
\* a slot hands out one plan until it is emptied, unless its factory compiled
\* the slot itself (CompileCache.compile).
CacheServesSlot ==
  /\ \A slot \in DOMAIN entries : entries[slot].config = slot.config
  /\ \A slot \in DOMAIN served :
       /\ \A plan \in served[slot] : plan.config = slot.config /\ plan \in plans
       /\ Cardinality(served[slot]) > 1 => slot \in reentered

\* A callsite is warned about only when its last compiles, as many as the
\* threshold, fall into one window, and the table of callsites never outgrows
\* its limit by more than one (maybeWarnRepeatedCompile).
WarningMeansBurst ==
  /\ \A c \in raised : Len(recent[c]) = Threshold /\ now - recent[c][1] <= Window
  /\ Cardinality(DOMAIN warnings) <= Limit + 1
=============================================================================
