---------------------------- MODULE StoresProofs ----------------------------
(***************************************************************************)
(* Proofs about the process-wide tables of Stores.                         *)
(***************************************************************************)
EXTENDS Stores, FiniteSetTheorems, TLAPS

-----------------------------------------------------------------------------
(* Ids stay unique for any number of schemas and registrations             *)

\* The check of an id sees every registered schema: none is missing from the
\* list of references.
Listed == \A s \in DOMAIN store : \E i \in DOMAIN refs : refs[i] = s
RegistryTypeOK == refs \in Seq(Schemas) /\ DOMAIN store \subseteq Schemas
RegistryInv == RegistryTypeOK /\ Listed /\ IdsUnique

\* add(): the id is new among the listed, so among the registered schemas.
LEMMA AddKeepsInv ==
  ASSUME RegistryInv, NEW s \in Schemas, NEW id \in Ids \cup {NoId}, AddMetadata(s, id)
  PROVE  RegistryInv'
<1>1. /\ DOMAIN store' = DOMAIN store \cup {s}
      /\ \A y \in DOMAIN store' : store'[y] = IF y = s THEN id ELSE store[y]
  BY DEF AddMetadata, With
<1>2. refs' = refs \/ refs' = Append(refs, s)
  BY DEF AddMetadata
<1>3. RegistryTypeOK'
  BY <1>1, <1>2 DEF RegistryInv, RegistryTypeOK
<1>4. Listed'
  <2>1. CASE s \in DOMAIN store
    <3>1. refs' = refs
      BY <2>1 DEF AddMetadata
    <3> QED BY <2>1, <3>1, <1>1 DEF RegistryInv, Listed
  <2>2. CASE s \notin DOMAIN store
    <3>1. refs' = Append(refs, s)
      BY <2>2 DEF AddMetadata
    <3>2. /\ \A i \in DOMAIN refs : i \in DOMAIN refs' /\ refs'[i] = refs[i]
          /\ Len(refs') \in DOMAIN refs' /\ refs'[Len(refs')] = s
      BY <3>1 DEF RegistryInv, RegistryTypeOK
    <3> QED BY <3>2, <1>1 DEF RegistryInv, Listed
  <2> QED BY <2>1, <2>2
<1>5. id = NoId \/ \A t \in DOMAIN store : t = s \/ store[t] # id
  BY DEF AddMetadata, IdAvailable, Snapshot, RegistryInv, Listed
<1>6. IdsUnique'
  BY <1>1, <1>5 DEF RegistryInv, IdsUnique
<1> QED BY <1>3, <1>4, <1>6 DEF RegistryInv

\* Fewer registered schemas, the same references.
LEMMA FewerKeepInv ==
  ASSUME RegistryInv, NEW s, store' = Without(store, s), refs' = refs
  PROVE  RegistryInv'
<1>1. /\ DOMAIN store' = DOMAIN store \ {s}
      /\ \A y \in DOMAIN store' : store'[y] = store[y]
  BY DEF Without
<1> QED BY <1>1 DEF RegistryInv, RegistryTypeOK, Listed, IdsUnique

\* clear() leaves nothing: everything registered was listed.
LEMMA ClearKeepsInv ==
  ASSUME RegistryInv, ClearMetadata
  PROVE  RegistryInv'
<1>1. DOMAIN store' = {}
  BY DEF ClearMetadata, RegistryInv, Listed
<1> QED BY <1>1 DEF ClearMetadata, RegistryInv, RegistryTypeOK, Listed, IdsUnique

\* Whatever is added, removed, cleared or collected, no two registered schemas
\* share an id (SchemaRegistry.add).
THEOREM RegistryIdsUnique == RegistrySpec => []IdsUnique
<1>1. RegistryInit => RegistryInv
  BY DEF RegistryInit, RegistryInv, RegistryTypeOK, Listed, IdsUnique
<1>2. RegistryInv /\ [RegistryNext]_registryVars => RegistryInv'
  <2> SUFFICES ASSUME RegistryInv, [RegistryNext]_registryVars PROVE RegistryInv'
    OBVIOUS
  <2>1. CASE \E s \in Schemas, id \in Ids \cup {NoId} : AddMetadata(s, id)
    BY <2>1, AddKeepsInv
  <2>2. CASE \E s \in Schemas : RemoveMetadata(s)
    BY <2>2, FewerKeepInv DEF RemoveMetadata
  <2>3. CASE ClearMetadata
    BY <2>3, ClearKeepsInv
  <2>4. CASE \E s \in Schemas : Collect(s)
    BY <2>4, FewerKeepInv DEF Collect
  <2>5. CASE UNCHANGED registryVars
    BY <2>5 DEF registryVars, RegistryInv, RegistryTypeOK, Listed, IdsUnique
  <2> QED BY <2>1, <2>2, <2>3, <2>4, <2>5 DEF RegistryNext
<1>3. RegistryInv => IdsUnique
  BY DEF RegistryInv
<1> QED BY <1>1, <1>2, <1>3, PTL DEF RegistrySpec

-----------------------------------------------------------------------------
(* A slot serves one plan, for any number of keys, options and factories    *)

Slots == {ReadCompileCacheKey(k, o) : k \in Keys, o \in Options}

\* Of the slots with running factories, one that none of them compiled itself
\* has one factory only, and is empty until that returns.
FillsOnce ==
  \A slot \in Running \ reentered :
    /\ slot \notin DOMAIN entries
    /\ \A i, j \in DOMAIN frames : frames[i] = slot /\ frames[j] = slot => i = j

\* The inductive invariant: what a slot holds was compiled for it, and is the
\* only plan handed out unless the slot was compiled by its own factory.
CacheInv ==
  /\ frames \in Seq(Slots)
  /\ \A slot \in DOMAIN entries : entries[slot].config = slot.config /\ entries[slot] \in plans
  /\ DOMAIN served \subseteq DOMAIN entries
  /\ \A slot \in DOMAIN served :
       /\ \A plan \in served[slot] : plan.config = slot.config /\ plan \in plans
       /\ slot \notin reentered => served[slot] = {entries[slot]}
  /\ FillsOnce

\* What was handed out for a slot, and is: the same or the first.
LEMMA HandOutIs ==
  ASSUME NEW slot, NEW plan, HandOut(slot, plan)
  PROVE  /\ DOMAIN served' = DOMAIN served \cup {slot}
         /\ \A s \in DOMAIN served : s # slot => served'[s] = served[s]
         /\ slot \in DOMAIN served => served'[slot] = served[slot] \cup {plan}
         /\ slot \notin DOMAIN served => served'[slot] = {plan}
  BY DEF HandOut, With

\* A plan compiled without the explicit cache.
LEMMA PlansGrow ==
  ASSUME CacheInv, plans \subseteq plans', UNCHANGED <<entries, frames, served, reentered>>
  PROVE  CacheInv'
  BY DEF CacheInv, FillsOnce, Running

\* A slot that is filled hands its plan out.
LEMMA HitKeepsInv ==
  ASSUME CacheInv, NEW slot \in DOMAIN entries, HandOut(slot, entries[slot]),
         UNCHANGED <<plans, entries, frames, reentered>>
  PROVE  CacheInv'
<1>1. /\ DOMAIN served' = DOMAIN served \cup {slot}
      /\ \A s \in DOMAIN served : s # slot => served'[s] = served[s]
      /\ slot \in DOMAIN served => served'[slot] = served[slot] \cup {entries[slot]}
      /\ slot \notin DOMAIN served => served'[slot] = {entries[slot]}
  BY HandOutIs
<1>2. FillsOnce'
  BY DEF CacheInv, FillsOnce, Running
<1>3. ASSUME NEW s \in DOMAIN served'
      PROVE  /\ \A plan \in served'[s] : plan.config = s.config /\ plan \in plans
             /\ s \notin reentered => served'[s] = {entries[s]}
  BY <1>1, <1>3 DEF CacheInv
<1> QED
  BY <1>1, <1>2, <1>3 DEF CacheInv

\* An empty slot, or one compiled by its own factory, is filled and hands the
\* new plan out.
LEMMA FillKeepsInv ==
  ASSUME CacheInv, NEW slot, NEW plan, plan.config = slot.config,
         plans' = plans \cup {plan}, entries' = With(entries, slot, plan), HandOut(slot, plan),
         slot \in DOMAIN entries => slot \in reentered,
         reentered \subseteq reentered', frames' \in Seq(Slots), FillsOnce'
  PROVE  CacheInv'
<1>1. /\ DOMAIN served' = DOMAIN served \cup {slot}
      /\ \A s \in DOMAIN served : s # slot => served'[s] = served[s]
      /\ slot \in DOMAIN served => served'[slot] = served[slot] \cup {plan}
      /\ slot \notin DOMAIN served => served'[slot] = {plan}
  BY HandOutIs
<1>2. /\ DOMAIN entries' = DOMAIN entries \cup {slot} /\ entries'[slot] = plan
      /\ \A s \in DOMAIN entries : s # slot => entries'[s] = entries[s]
  BY DEF With
<1>3. ASSUME NEW s \in DOMAIN entries'
      PROVE  entries'[s].config = s.config /\ entries'[s] \in plans'
  BY <1>2 DEF CacheInv
<1>4. ASSUME NEW s \in DOMAIN served'
      PROVE  /\ \A p \in served'[s] : p.config = s.config /\ p \in plans'
             /\ s \notin reentered' => served'[s] = {entries'[s]}
  <2>1. CASE s = slot
    BY <2>1, <1>1, <1>2 DEF CacheInv
  <2>2. CASE s # slot
    BY <2>2, <1>1, <1>2 DEF CacheInv
  <2> QED BY <2>1, <2>2
<1> QED
  BY <1>1, <1>2, <1>3, <1>4 DEF CacheInv

\* A factory begins.
LEMMA BeginKeepsInv ==
  ASSUME CacheInv, NEW slot \in Slots, slot \notin DOMAIN entries,
         frames' = Append(frames, slot), reentered' = reentered \cup ({slot} \cap Running),
         UNCHANGED <<plans, entries, served>>
  PROVE  CacheInv'
<1> DEFINE n == Len(frames)
<1>1. /\ n \in Nat /\ DOMAIN frames = 1..n /\ DOMAIN frames' = 1..(n + 1)
      /\ frames' \in Seq(Slots) /\ frames'[n + 1] = slot
      /\ \A i \in 1..n : frames'[i] = frames[i]
  BY DEF CacheInv
<1> HIDE DEF n
<1>2. Running' = Running \cup {slot}
  BY <1>1 DEF Running
<1>3. ASSUME NEW s \in Running' \ reentered'
      PROVE  /\ s \notin DOMAIN entries
             /\ \A i, j \in 1..(n + 1) : frames'[i] = s /\ frames'[j] = s => i = j
  <2>1. CASE s = slot
    <3>1. slot \notin Running
      BY <2>1, <1>3
    <3>2. \A i \in 1..n : frames'[i] # slot
      BY <3>1, <1>1 DEF Running
    <3> QED BY <2>1, <3>2, <1>1
  <2>2. CASE s # slot
    <3>1. s \in Running \ reentered
      BY <2>2, <1>2, <1>3
    <3> QED BY <2>2, <3>1, <1>1 DEF CacheInv, FillsOnce
  <2> QED BY <2>1, <2>2
<1>4. FillsOnce'
  BY <1>1, <1>3 DEF FillsOnce
<1> QED
  BY <1>1, <1>4 DEF CacheInv

\* The innermost factory ends: what is left of the frames.
LEMMA FramesPopped ==
  ASSUME CacheInv, frames # <<>>, frames' = SubSeq(frames, 1, Len(frames) - 1)
  PROVE  /\ Len(frames) \in DOMAIN frames /\ frames' \in Seq(Slots)
         /\ DOMAIN frames' = DOMAIN frames \ {Len(frames)}
         /\ \A i \in DOMAIN frames' : frames'[i] = frames[i]
         /\ Running' \subseteq Running
<1>1. frames \in Seq(Slots) /\ Len(frames) \in Nat \ {0} /\ DOMAIN frames = 1..Len(frames)
  BY DEF CacheInv
<1>2. /\ DOMAIN frames' = 1..(Len(frames) - 1) /\ frames' \in Seq(Slots)
      /\ \A i \in DOMAIN frames' : frames'[i] = frames[i]
  BY <1>1
<1>3. Running' \subseteq Running
  BY <1>1, <1>2 DEF Running
<1> QED BY <1>1, <1>2, <1>3

\* A factory returns: its slot is filled.
LEMMA ReturnKeepsInv ==
  ASSUME CacheInv, NEW guard, NEW site, FactoryReturns(guard, site)
  PROVE  CacheInv'
<1> DEFINE slot == frames[Len(frames)]
           plan == Plan("full", guard, slot.config)
<1>1. /\ frames # <<>> /\ frames' = SubSeq(frames, 1, Len(frames) - 1)
      /\ plans' = plans \cup {plan} /\ entries' = With(entries, slot, plan)
      /\ HandOut(slot, plan) /\ reentered' = reentered
  BY DEF FactoryReturns, CompileGuard
<1>2. plan.config = slot.config
  BY DEF Plan
<1>3. slot \in Running
  BY <1>1, FramesPopped DEF Running
<1> HIDE DEF plan
<1>4. slot \in DOMAIN entries => slot \in reentered
  BY <1>3 DEF CacheInv, FillsOnce
<1>5. FillsOnce'
  <2> SUFFICES ASSUME NEW s \in Running' \ reentered'
               PROVE  /\ s \notin DOMAIN entries'
                      /\ \A i, j \in DOMAIN frames' : frames'[i] = s /\ frames'[j] = s => i = j
    BY DEF FillsOnce
  <2>1. s \in Running \ reentered
    BY <1>1, FramesPopped
  <2>2. PICK i \in DOMAIN frames' : frames'[i] = s
    BY DEF Running
  <2>3. s # slot
    BY <2>1, <2>2, <1>1, FramesPopped DEF CacheInv, FillsOnce
  <2> QED
    BY <2>1, <2>3, <1>1, FramesPopped DEF CacheInv, FillsOnce, With
<1> QED
  BY <1>1, <1>2, <1>4, <1>5, FramesPopped, FillKeepsInv

\* A factory throws: its slot stays as it is.
LEMMA ThrowKeepsInv ==
  ASSUME CacheInv, FactoryThrows
  PROVE  CacheInv'
<1>1. /\ frames # <<>> /\ frames' = SubSeq(frames, 1, Len(frames) - 1)
      /\ UNCHANGED <<plans, entries, served, reentered>>
  BY DEF FactoryThrows
<1>2. FillsOnce'
  BY <1>1, FramesPopped DEF CacheInv, FillsOnce
<1> QED
  BY <1>1, <1>2, FramesPopped DEF CacheInv

\* Slots are emptied, one or all.
LEMMA EmptyKeepsInv ==
  ASSUME CacheInv, NEW S, entries' = [s \in DOMAIN entries \ S |-> entries[s]],
         served' = [s \in DOMAIN served \ S |-> served[s]],
         UNCHANGED <<plans, frames, reentered>>
  PROVE  CacheInv'
  BY DEF CacheInv, FillsOnce, Running

\* An input of warmup().
LEMMA WarmupKeepsInv ==
  ASSUME CacheInv, NEW key, NEW guard, NEW shared, NEW local, NEW prefix, NEW index, NEW site,
         CompileWarmupInput(key, guard, shared, local, prefix, index, site)
  PROVE  CacheInv'
<1> DEFINE options == MergeCompileOptions(shared, local, prefix, index)
           slot == ReadCompileCacheKey(key, options)
           plan == Plan("full", guard, ResolvedOptions(options))
<1>1. slot.config = ResolvedOptions(options) /\ plan.config = ResolvedOptions(options)
  BY DEF ReadCompileCacheKey, Plan
<1>2. CASE key = "none"
  <2>1. plans \subseteq plans' /\ UNCHANGED <<entries, frames, served, reentered>>
    BY <1>2 DEF CompileWarmupInput, CompileGuard
  <2> QED BY <2>1, PlansGrow
<1>3. CASE key # "none" /\ slot \in DOMAIN entries
  <2>1. HandOut(slot, entries[slot]) /\ UNCHANGED <<plans, entries, frames, reentered>>
    BY <1>3 DEF CompileWarmupInput
  <2> QED BY <1>3, <2>1, HitKeepsInv
<1>4. CASE key # "none" /\ slot \notin DOMAIN entries
  <2>1. /\ plans' = plans \cup {plan} /\ entries' = With(entries, slot, plan)
        /\ HandOut(slot, plan) /\ reentered' = reentered \cup ({slot} \cap Running)
        /\ frames' = frames
    BY <1>4 DEF CompileWarmupInput, CompileGuard
  <2> HIDE DEF slot, plan
  <2>2. FillsOnce'
    BY <2>1 DEF CacheInv, FillsOnce, Running, With
  <2>3. frames' \in Seq(Slots)
    BY <2>1 DEF CacheInv
  <2> QED
    BY <1>1, <1>4, <2>1, <2>2, <2>3, FillKeepsInv
<1> QED
  BY <1>2, <1>3, <1>4

\* A step of the cache.
LEMMA CacheStepKeepsInv ==
  ASSUME CacheInv, NEW site, CacheStep(site)
  PROVE  CacheInv'
<1>1. CASE \E kind \in {"full", "boolean"}, g \in Guards, o \in Options : Compile(kind, g, o, site)
  BY <1>1, PlansGrow DEF Compile, CompileGuard
<1>2. ASSUME NEW k \in Keys, NEW o \in Options, CompileCached(k, o)
      PROVE  CacheInv'
  <2> DEFINE slot == ReadCompileCacheKey(k, o)
  <2>1. slot \in Slots
    BY DEF Slots
  <2>2. CASE slot \in DOMAIN entries
    <3>1. HandOut(slot, entries[slot]) /\ UNCHANGED <<plans, entries, frames, reentered>>
      BY <1>2, <2>2 DEF CompileCached
    <3> QED BY <2>2, <3>1, HitKeepsInv
  <2>3. CASE slot \notin DOMAIN entries
    <3>1. /\ frames' = Append(frames, slot) /\ reentered' = reentered \cup ({slot} \cap Running)
          /\ UNCHANGED <<plans, entries, served>>
      BY <1>2, <2>3 DEF CompileCached
    <3> QED BY <2>1, <2>3, <3>1, BeginKeepsInv
  <2> QED BY <2>2, <2>3
<1>3. ASSUME NEW k \in Keys, NEW o \in Options, DeleteSlot(k, o)
      PROVE  CacheInv'
  <2> DEFINE slot == ReadCompileCacheKey(k, o)
  <2>1. /\ entries' = [s \in DOMAIN entries \ {slot} |-> entries[s]]
        /\ served' = [s \in DOMAIN served \ {slot} |-> served[s]]
        /\ UNCHANGED <<plans, frames, reentered>>
    BY <1>3 DEF DeleteSlot, Without
  <2> QED BY <2>1, EmptyKeepsInv
<1>4. CASE ClearCache
  <2>1. /\ DOMAIN entries' = {} /\ DOMAIN served' = {}
        /\ UNCHANGED <<plans, frames, reentered>>
    BY <1>4 DEF ClearCache
  <2> QED BY <2>1 DEF CacheInv, FillsOnce, Running
<1> QED
  BY <1>1, <1>2, <1>3, <1>4, ReturnKeepsInv, ThrowKeepsInv, WarmupKeepsInv DEF CacheStep

\* For any schedule of compiles, warmups, deletions, clears and factories that
\* compile in turn: the plans handed out for a slot have the slot's options, and
\* are one until the slot is emptied or its own factory compiles it
\* (CompileCache.compile).
THEOREM CacheServes == CacheSpec => []CacheServesSlot
<1>1. CacheInit => CacheInv
  BY DEF CacheInit, CacheInv, FillsOnce, Running
<1>2. CacheInv /\ [CacheNext \/ WarningNext]_<<cacheVars, warningVars>> => CacheInv'
  <2> SUFFICES ASSUME CacheInv, [CacheNext \/ WarningNext]_<<cacheVars, warningVars>>
               PROVE  CacheInv'
    OBVIOUS
  <2>1. CASE CacheNext
    BY <2>1, CacheStepKeepsInv DEF CacheNext
  <2>2. CASE UNCHANGED cacheVars
    <3>1. plans \subseteq plans' /\ UNCHANGED <<entries, frames, served, reentered>>
      BY <2>2 DEF cacheVars
    <3> QED BY <3>1, PlansGrow
  <2>3. CASE WarningNext
    BY <2>2, <2>3 DEF WarningNext, Wait, CompileFresh, cacheVars
  <2> QED BY <2>1, <2>2, <2>3
<1>3. CacheInv => CacheServesSlot
  <2> SUFFICES ASSUME CacheInv, NEW slot \in DOMAIN served, slot \notin reentered
               PROVE  ~(Cardinality(served[slot]) > 1)
    BY DEF CacheInv, CacheServesSlot
  <2>1. served[slot] = {entries[slot]}
    BY DEF CacheInv
  <2> QED BY <2>1, FS_Singleton
<1> QED BY <1>1, <1>2, <1>3, PTL DEF CacheSpec

-----------------------------------------------------------------------------
(* A warning means a burst, for any number of callsites and any threshold    *)

\* The last n compiles are known, and none is older than the time given.
Backed(times, n, from) ==
  \A k \in 0..(Threshold - 1) : k < n => k < Len(times) /\ times[Len(times) - k] >= from

WindowState == [count : Nat, windowStart : Nat, warned : BOOLEAN]

\* The inductive invariant: while a callsite's window is open, the compiles it
\* counted are its last ones.
WarningInv ==
  /\ now \in Nat
  /\ recent \in [Callsites -> Seq(Nat)]
  /\ \A c \in Callsites : Len(recent[c]) <= Threshold
  /\ DOMAIN warnings \subseteq Callsites
  /\ IsFiniteSet(DOMAIN warnings) /\ Cardinality(DOMAIN warnings) <= Limit + 1
  /\ \A c \in DOMAIN warnings :
       /\ warnings[c] \in WindowState /\ warnings[c].windowStart <= now
       /\ ~Opens(c, now) => Backed(recent[c], warnings[c].count, warnings[c].windowStart)
  /\ WarningMeansBurst

\* One more compile, at a time that is not before the window began.
LEMMA BackedByOneMore ==
  ASSUME NEW times \in Seq(Nat), Len(times) <= Threshold, NEW n \in Nat, NEW from \in Nat,
         Backed(times, n, from), NEW time \in Nat, time >= from,
         NEW later, later = Latest(Append(times, time))
  PROVE  /\ later \in Seq(Nat) /\ Len(later) <= Threshold
         /\ Backed(later, n + 1, from)
         /\ n + 1 >= Threshold => Len(later) = Threshold /\ later[1] >= from
<1> DEFINE all == Append(times, time)
<1>0. Threshold \in Nat \ {0}
  BY BoundsAssumption
<1>1. /\ all \in Seq(Nat) /\ Len(all) = Len(times) + 1 /\ all[Len(all)] = time
      /\ \A i \in 1..Len(times) : all[i] = times[i]
      /\ Len(times) \in Nat
  OBVIOUS
<1>2. later = IF Len(all) > Threshold THEN Tail(all) ELSE all
  BY DEF Latest
<1> HIDE DEF all
<1>a. /\ later \in Seq(Nat) /\ Len(later) <= Threshold /\ Len(later) \in Nat \ {0}
      /\ Len(later) = Len(all) \/ Len(later) = Threshold
      /\ \A k \in 0..(Len(later) - 1) : later[Len(later) - k] = all[Len(all) - k]
  <2>1. CASE Len(all) <= Threshold
    <3>1. later = all
      BY <1>0, <1>1, <1>2, <2>1
    <3> QED BY <1>1, <2>1, <3>1
  <2>2. CASE Len(all) > Threshold
    <3>1. later = Tail(all) /\ all # <<>>
      BY <1>1, <1>2, <2>2
    <3>2. /\ later \in Seq(Nat) /\ Len(later) = Len(all) - 1
          /\ \A i \in 1..Len(later) : later[i] = all[i + 1]
      BY <1>1, <3>1
    <3>3. Len(later) = Threshold
      BY <1>0, <1>1, <2>2, <3>2
    <3>4. ASSUME NEW k \in 0..(Len(later) - 1)
          PROVE  later[Len(later) - k] = all[Len(all) - k]
      <4>1. Len(later) - k \in 1..Len(later) /\ (Len(later) - k) + 1 = Len(all) - k
        BY <1>0, <1>1, <3>2, <3>3
      <4> QED BY <3>2, <4>1
    <3>5. Len(later) <= Threshold /\ Len(later) \in Nat \ {0}
      BY <1>0, <3>3
    <3> QED BY <3>2, <3>3, <3>4, <3>5
  <2> QED BY <1>0, <1>1, <2>1, <2>2
<1>3. ASSUME NEW k \in 0..(Threshold - 1), k < n + 1
      PROVE  k < Len(later) /\ later[Len(later) - k] >= from
  <2>1. CASE k = 0
    <3>1. k \in 0..(Len(later) - 1) /\ k < Len(later) /\ Len(all) - k = Len(all)
      BY <2>1, <1>1, <1>a
    <3>2. later[Len(later) - k] = all[Len(all) - k]
      BY <3>1, <1>a
    <3>3. later[Len(later) - k] = time
      BY <3>1, <3>2, <1>1
    <3> QED BY <3>1, <3>3
  <2>2. CASE k > 0
    <3>1. k - 1 \in 0..(Threshold - 1) /\ k - 1 < n /\ k \in Nat
      BY <1>0, <1>3, <2>2
    <3>2. k - 1 < Len(times) /\ times[Len(times) - (k - 1)] >= from
      BY <3>1 DEF Backed
    <3>3. k < Len(all) /\ k < Threshold
      BY <1>0, <1>1, <1>3, <3>1, <3>2
    <3>4. k < Len(later) /\ k \in 0..(Len(later) - 1)
      <4>1. Len(later) \in Nat /\ Len(later) \in {Len(all), Threshold}
        BY <1>a
      <4>2. k \in Nat /\ k < Len(later)
        BY <3>1, <3>3, <4>1
      <4> QED BY ONLY <4>1, <4>2
    <3>5. Len(all) - k = Len(times) - (k - 1) /\ Len(times) - (k - 1) \in 1..Len(times)
      BY <1>1, <3>1, <3>2
    <3> QED BY <1>1, <1>a, <3>2, <3>4, <3>5
  <2> QED BY <1>3, <2>1, <2>2
<1>4. ASSUME n + 1 >= Threshold
      PROVE  Len(later) = Threshold /\ later[1] >= from
  <2>1. Threshold - 1 \in 0..(Threshold - 1) /\ Threshold - 1 < n + 1
    BY <1>0, <1>4
  <2>2. Threshold - 1 < Len(later) /\ later[Len(later) - (Threshold - 1)] >= from
    BY <1>3, <2>1
  <2>3. Len(later) = Threshold
    BY <1>0, <1>a, <2>2
  <2> QED BY <1>0, <2>2, <2>3
<1> QED
  BY <1>a, <1>3, <1>4 DEF Backed

\* A compile is counted: by its own callsite, in a window that is open now.
LEMMA CompileKeepsInv ==
  ASSUME WarningInv, NEW site \in Callsites, MaybeWarnRepeatedCompile(site)
  PROVE  WarningInv'
<1> DEFINE old == IF Opens(site, now) /\ Cardinality(DOMAIN warnings) > Limit
                  THEN [s \in {} |-> 0] ELSE warnings
           state == IF Opens(site, now) THEN [count |-> 0, windowStart |-> now, warned |-> FALSE]
                    ELSE warnings[site]
           new == Counted(site, now)
<1>0. Threshold \in Nat \ {0} /\ Window \in Nat /\ Limit \in Nat
  BY BoundsAssumption
<1>1. /\ now' = now /\ now \in Nat
      /\ warnings' = With(old, site, new)
      /\ recent' = [recent EXCEPT ![site] = Latest(Append(recent[site], now))]
      /\ raised' \subseteq {site}
  BY DEF MaybeWarnRepeatedCompile, WarningInv
<1>2. /\ state \in WindowState /\ state.windowStart <= now
      /\ now - state.windowStart <= Window
      /\ Backed(recent[site], state.count, state.windowStart)
  <2>1. CASE Opens(site, now)
    BY <2>1, <1>0, <1>1 DEF Backed, WindowState
  <2>2. CASE ~Opens(site, now)
    <3>1. site \in DOMAIN warnings /\ ~(now - warnings[site].windowStart > Window)
      BY <2>2 DEF Opens
    <3>2. /\ warnings[site] \in WindowState /\ warnings[site].windowStart <= now
          /\ Backed(recent[site], warnings[site].count, warnings[site].windowStart)
      BY <2>2, <3>1 DEF WarningInv
    <3>3. now - warnings[site].windowStart <= Window
      BY <3>1, <3>2, <1>0, <1>1 DEF WindowState
    <3> QED BY <2>2, <3>2, <3>3
  <2> QED BY <2>1, <2>2
<1>3. /\ new.count = state.count + 1 /\ new.windowStart = state.windowStart
      /\ new.warned = (state.warned \/ state.count + 1 >= Threshold)
      /\ new \in WindowState
  <2>1. new = [state EXCEPT !.count = @ + 1, !.warned = @ \/ state.count + 1 >= Threshold]
    BY DEF Counted
  <2>2. /\ state.count + 1 \in Nat
        /\ (state.warned \/ state.count + 1 >= Threshold) \in BOOLEAN
    BY <1>2 DEF WindowState
  <2> HIDE DEF state
  <2> QED BY <2>1, <2>2, <1>2 DEF WindowState
<1>4. /\ recent'[site] \in Seq(Nat) /\ Len(recent'[site]) <= Threshold
      /\ Backed(recent'[site], new.count, new.windowStart)
      /\ new.count >= Threshold =>
           Len(recent'[site]) = Threshold /\ recent'[site][1] >= new.windowStart
  <2>1. recent[site] \in Seq(Nat) /\ Len(recent[site]) <= Threshold
    BY DEF WarningInv
  <2>2. recent'[site] = Latest(Append(recent[site], now))
    BY <1>1 DEF WarningInv
  <2>3. state.windowStart \in Nat /\ now >= state.windowStart
    BY <1>1, <1>2 DEF WindowState
  <2>4. state.count \in Nat
    BY <1>2 DEF WindowState
  <2> HIDE DEF state, new
  <2> QED BY <1>1, <1>2, <1>3, <2>1, <2>2, <2>3, <2>4, BackedByOneMore
<1>5. ASSUME NEW c \in raised'
      PROVE  Len(recent'[c]) = Threshold /\ now - recent'[c][1] <= Window
  <2>1. c = site /\ new.warned /\ (Opens(site, now) \/ ~warnings[site].warned)
    BY <1>5 DEF MaybeWarnRepeatedCompile
  <2>2. ~state.warned
    BY <2>1
  <2>4. new.count >= Threshold
    BY <2>1, <2>2, <1>3
  <2>5. Len(recent'[site]) = Threshold /\ recent'[site][1] >= new.windowStart
    BY <1>4, <2>4
  <2>6. recent'[site][1] \in Nat
    BY <1>0, <1>4, <2>5
  <2> HIDE DEF state, new
  <2> QED BY <1>0, <1>1, <1>2, <1>3, <2>1, <2>5, <2>6 DEF WindowState
<1>6. /\ recent' \in [Callsites -> Seq(Nat)]
      /\ \A c \in Callsites : Len(recent'[c]) <= Threshold /\ (c # site => recent'[c] = recent[c])
  BY <1>1, <1>4 DEF WarningInv
<1>7. /\ DOMAIN old \subseteq DOMAIN warnings /\ \A c \in DOMAIN old : old[c] = warnings[c]
      /\ IsFiniteSet(DOMAIN old)
      /\ \/ Cardinality(DOMAIN old) <= Limit
         \/ site \in DOMAIN old /\ Cardinality(DOMAIN old) <= Limit + 1
  <2>1. CASE Opens(site, now) /\ Cardinality(DOMAIN warnings) > Limit
    <3>1. DOMAIN old = {}
      BY <2>1
    <3> QED BY <3>1, <1>0, FS_EmptySet
  <2>2. CASE ~(Opens(site, now) /\ Cardinality(DOMAIN warnings) > Limit)
    <3>1. old = warnings /\ IsFiniteSet(DOMAIN warnings) /\ Cardinality(DOMAIN warnings) <= Limit + 1
      BY <2>2 DEF WarningInv
    <3>2. ~Opens(site, now) => site \in DOMAIN warnings
      BY DEF Opens
    <3>3. Cardinality(DOMAIN warnings) \in Nat
      BY <3>1, FS_CardinalityType
    <3> HIDE DEF old
    <3> QED BY <1>0, <2>2, <3>1, <3>2, <3>3
  <2> QED BY <2>1, <2>2
<1> HIDE DEF old, state, new
<1>8. /\ DOMAIN warnings' = DOMAIN old \cup {site} /\ warnings'[site] = new
      /\ \A c \in DOMAIN old : c # site => warnings'[c] = warnings[c]
  BY <1>1, <1>7 DEF With
<1>9. /\ DOMAIN warnings' \subseteq Callsites /\ IsFiniteSet(DOMAIN warnings')
      /\ Cardinality(DOMAIN warnings') <= Limit + 1
  <2>1. /\ IsFiniteSet(DOMAIN old \cup {site})
        /\ Cardinality(DOMAIN old \cup {site}) =
             IF site \in DOMAIN old THEN Cardinality(DOMAIN old) ELSE Cardinality(DOMAIN old) + 1
    BY <1>7, FS_AddElement
  <2>2. Cardinality(DOMAIN old) \in Nat
    BY <1>7, FS_CardinalityType
  <2>3. DOMAIN warnings \subseteq Callsites
    BY DEF WarningInv
  <2> QED BY <1>0, <1>7, <1>8, <2>1, <2>2, <2>3
<1>10. ASSUME NEW c \in DOMAIN warnings'
       PROVE  /\ warnings'[c] \in WindowState /\ warnings'[c].windowStart <= now
              /\ ~Opens(c, now)' => Backed(recent'[c], warnings'[c].count, warnings'[c].windowStart)
  <2>1. CASE c = site
    <3>1. new \in WindowState /\ new.windowStart <= now
      BY <1>2, <1>3
    <3> QED BY <2>1, <3>1, <1>4, <1>8
  <2>2. CASE c # site
    <3>1. c \in DOMAIN warnings /\ c \in Callsites /\ warnings'[c] = warnings[c]
      BY <2>2, <1>7, <1>8 DEF WarningInv
    <3>2. recent'[c] = recent[c]
      BY <2>2, <3>1, <1>6
    <3>3. ~Opens(c, now)' => ~Opens(c, now)
      BY <1>1, <3>1, <1>10 DEF Opens
    <3> QED BY <3>1, <3>2, <3>3, <1>1 DEF WarningInv
  <2> QED BY <2>1, <2>2
<1>11. WarningMeansBurst'
  BY <1>1, <1>5, <1>9 DEF WarningMeansBurst
<1> QED
  BY <1>1, <1>6, <1>9, <1>10, <1>11 DEF WarningInv

\* The clock moves on: windows close, none opens.
LEMMA WaitKeepsInv ==
  ASSUME WarningInv, Wait
  PROVE  WarningInv'
<1>0. Threshold \in Nat \ {0} /\ Window \in Nat
  BY BoundsAssumption
<1>1. /\ now \in Nat /\ now' = now + 1 /\ raised' = {} /\ warnings' = warnings
      /\ recent' = [c \in Callsites |-> Forgotten(recent[c], now')]
  BY DEF Wait, WarningInv
<1>2. ASSUME NEW c \in Callsites
      PROVE  /\ recent'[c] = Forgotten(recent[c], now')
             /\ recent'[c] \in Seq(Nat) /\ Len(recent'[c]) <= Threshold
  <2>1. recent[c] \in Seq(Nat) /\ Len(recent[c]) <= Threshold
    BY DEF WarningInv
  <2>2. <<>> \in Seq(Nat) /\ Len(<<>>) <= Threshold
    BY <1>0
  <2> QED BY <1>1, <2>1, <2>2 DEF Forgotten
<1>3. recent' \in [Callsites -> Seq(Nat)]
  BY <1>1, <1>2
<1>4. ASSUME NEW c \in DOMAIN warnings, ~Opens(c, now)'
      PROVE  Backed(recent'[c], warnings[c].count, warnings[c].windowStart)
  <2>1. /\ c \in Callsites /\ warnings[c].count \in Nat /\ warnings[c].windowStart \in 0..now
        /\ recent[c] \in Seq(Nat)
    BY <1>1 DEF WarningInv, WindowState
  <2>2. ~(now' - warnings[c].windowStart > Window)
    BY <1>1, <1>4 DEF Opens
  <2>3. ~Opens(c, now)
    BY <1>0, <1>1, <1>4, <2>1, <2>2 DEF Opens
  <2>4. Backed(recent[c], warnings[c].count, warnings[c].windowStart)
    BY <2>3 DEF WarningInv
  <2>5. CASE warnings[c].count = 0
    BY <2>5 DEF Backed
  <2>6. CASE warnings[c].count > 0
    <3>1. 0 < Len(recent[c]) /\ recent[c][Len(recent[c]) - 0] >= warnings[c].windowStart
      BY <1>0, <2>4, <2>6 DEF Backed
    <3>2. Len(recent[c]) \in 1..Len(recent[c]) /\ Len(recent[c]) - 0 = Len(recent[c])
      BY <2>1, <3>1
    <3>3. recent[c][Len(recent[c])] \in Nat
      BY <2>1, <3>2
    <3>4. ~(now' - recent[c][Len(recent[c])] > Window)
      BY <1>0, <1>1, <2>1, <2>2, <3>1, <3>2, <3>3
    <3>5. recent'[c] = recent[c]
      BY <1>1, <2>1, <3>4 DEF Forgotten
    <3> QED BY <2>4, <3>5
  <2> QED BY <2>1, <2>5, <2>6
<1>5. WarningMeansBurst'
  BY <1>1 DEF WarningInv, WarningMeansBurst
<1>6. \A c \in DOMAIN warnings : warnings[c].windowStart <= now'
  BY <1>1 DEF WarningInv, WindowState
<1>7. now' \in Nat
  BY <1>1
<1> QED
  BY <1>1, <1>2, <1>3, <1>4, <1>5, <1>6, <1>7 DEF WarningInv

\* Whichever callsites compile and however the clock moves: a callsite is warned
\* about only when its last compiles, Threshold of them, fall into one window,
\* and the table holds at most one callsite more than its limit
\* (maybeWarnRepeatedCompile).
THEOREM WarningsMeanBursts == CacheSpec => []WarningMeansBurst
<1>0. Threshold \in Nat \ {0} /\ Limit \in Nat
  BY BoundsAssumption
<1>1. WarningInit => WarningInv
  <2> SUFFICES ASSUME WarningInit PROVE WarningInv
    OBVIOUS
  <2>1. DOMAIN warnings = {} /\ now = 0 /\ raised = {}
    BY DEF WarningInit
  <2>2. <<>> \in Seq(Nat) /\ Len(<<>>) <= Threshold
    BY <1>0
  <2>3. recent \in [Callsites -> Seq(Nat)] /\ \A c \in Callsites : Len(recent[c]) <= Threshold
    BY <2>2 DEF WarningInit
  <2> QED BY <1>0, <2>1, <2>3, FS_EmptySet DEF WarningInv, WarningMeansBurst
<1>2. WarningInv /\ [CacheNext \/ WarningNext]_<<cacheVars, warningVars>> => WarningInv'
  <2> SUFFICES ASSUME WarningInv, [CacheNext \/ WarningNext]_<<cacheVars, warningVars>>
               PROVE  WarningInv'
    OBVIOUS
  <2>1. CASE \E c \in Callsites : MaybeWarnRepeatedCompile(c)
    BY <2>1, CompileKeepsInv
  <2>2. CASE raised' \subseteq raised /\ UNCHANGED <<warnings, now, recent>>
    BY <2>2 DEF WarningInv, WarningMeansBurst, Opens
  <2>3. CASE Wait
    BY <2>3, WaitKeepsInv
  <2>4. CASE CacheNext
    <3>1. PICK c \in Callsites : CacheStep(c)
      BY <2>4 DEF CacheNext
    <3>2. \A plan : CompileGuard(plan, c) =>
            \/ MaybeWarnRepeatedCompile(c)
            \/ raised' = {} /\ UNCHANGED <<warnings, now, recent>>
      BY DEF CompileGuard
    <3>3. \/ MaybeWarnRepeatedCompile(c)
          \/ raised' = {} /\ UNCHANGED <<warnings, now, recent>>
      BY <3>1, <3>2 DEF CacheStep, Compile, CompileCached, FactoryReturns, FactoryThrows,
                        DeleteSlot, ClearCache, CompileWarmupInput
    <3> QED BY <2>1, <2>2, <3>3
  <2>5. CASE \E c \in Callsites : CompileFresh(c)
    BY <2>1, <2>5 DEF CompileFresh
  <2>6. CASE UNCHANGED <<cacheVars, warningVars>>
    BY <2>2, <2>6 DEF warningVars
  <2> QED BY <2>3, <2>4, <2>5, <2>6 DEF WarningNext
<1>3. WarningInv => WarningMeansBurst
  BY DEF WarningInv
<1> QED BY <1>1, <1>2, <1>3, PTL DEF CacheSpec
=============================================================================
