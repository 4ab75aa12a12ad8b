------------------------ MODULE SeaBreezeForestProofs ------------------------
(***************************************************************************)
(* Proofs about the nodes of a SeaBreeze arena, for every capacity, key    *)
(* set and set of loaded snapshots, when callers fill one object at a time *)
(* (~Raw): the parents are a forest, the structure below representatives   *)
(* has no cycle, and every snapshot of the arena can be loaded again.      *)
(***************************************************************************)
EXTENDS SeaBreezeProofs, WellFoundedInduction

-----------------------------------------------------------------------------
(* Recursive functions                                                     *)

\* The members of U that repeating the step from x visits, x included, as
\* long as none of them is in Done.
Visits(U, step, Done, x) ==
  {y \in U : \A C \in SUBSET U :
     x \in C /\ (\A z \in C : z \notin Done => step[z] \in C) => y \in C}

LEMMA VisitsUnfolds ==
  ASSUME NEW U, NEW step \in [U -> U], NEW Done, NEW x \in U
  PROVE  /\ x \in Done => Visits(U, step, Done, x) = {x}
         /\ x \notin Done =>
              Visits(U, step, Done, x) = {x} \cup Visits(U, step, Done, step[x])
<1>1. x \in Visits(U, step, Done, x)
  BY DEF Visits
<1>2. ASSUME x \in Done PROVE Visits(U, step, Done, x) = {x}
  <2>1. {x} \in SUBSET U /\ x \in {x} /\ \A z \in {x} : z \notin Done => step[z] \in {x}
    BY <1>2
  <2>2. Visits(U, step, Done, x) \subseteq {x}
    BY <2>1 DEF Visits
  <2> QED
    BY <1>1, <2>2
<1>3. ASSUME x \notin Done
      PROVE  Visits(U, step, Done, x) = {x} \cup Visits(U, step, Done, step[x])
  <2> DEFINE rest == Visits(U, step, Done, step[x])
             C == {x} \cup rest
  <2>1. \A z \in rest : z \notin Done => step[z] \in rest
    BY DEF Visits
  <2>2. step[x] \in rest
    BY DEF Visits
  <2>3. rest \subseteq Visits(U, step, Done, x)
    BY <1>3 DEF Visits
  <2>4. rest \in SUBSET U
    BY DEF Visits
  <2> HIDE DEF rest
  <2>5. C \in SUBSET U /\ x \in C /\ \A z \in C : z \notin Done => step[z] \in C
    BY <2>1, <2>2, <2>4
  <2> HIDE DEF C
  <2>6. Visits(U, step, Done, x) \subseteq C
    BY <2>5 DEF Visits
  <2> QED
    BY <1>1, <2>3, <2>6 DEF C, rest
<1> QED
  BY <1>2, <1>3

\* f[x] is val of the first member of Done that repeating the step from x meets.
Repeats(U, V, step, Done, val, f) ==
  /\ f \in [U -> V]
  /\ \A x \in U : f[x] = IF x \in Done THEN val[x] ELSE f[step[x]]

\* A function that repeats a step until it is done exists, also where it never is.
LEMMA TailRecursion ==
  ASSUME NEW U, NEW V, NEW step \in [U -> U], NEW Done \in SUBSET U, NEW val \in [U -> V]
  PROVE  \E f : Repeats(U, V, step, Done, val, f)
<1> DEFINE End0(x) == Visits(U, step, Done, x) \cap Done
           Last0(E) == IF E = {} THEN CHOOSE v : v \in V ELSE val[CHOOSE y : y \in E]
           f == [x \in U |-> Last0(End0(x))]
<1>1. ASSUME NEW x \in U
      PROVE  Last0(End0(x)) = IF x \in Done THEN val[x] ELSE Last0(End0(step[x]))
  <2>1. CASE x \in Done
    <3>1. End0(x) = {x}
      BY <2>1, VisitsUnfolds
    <3> QED
      BY <2>1, <3>1
  <2>2. CASE x \notin Done
    <3>1. End0(x) = End0(step[x])
      BY <2>2, VisitsUnfolds
    <3> HIDE DEF End0
    <3> QED
      BY <2>2, <3>1
  <2> QED
    BY <2>1, <2>2
<1>2. \A x \in U : step[x] \in U
  OBVIOUS
<1>3. ASSUME NEW x \in U PROVE Last0(End0(x)) \in V
  <2>1. End0(x) \in SUBSET U /\ val[x] \in V
    BY DEF Visits
  <2> HIDE DEF End0
  <2> QED
    BY <2>1
<1> HIDE DEF End0, Last0
<1>4. f \in [U -> V]
  BY <1>3
<1>5. \A x \in U : f[x] = IF x \in Done THEN val[x] ELSE f[step[x]]
  BY <1>1, <1>2
<1> HIDE DEF f
<1> QED
  BY <1>4, <1>5 DEF Repeats

LEMMA LeastNatural ==
  ASSUME NEW S \in SUBSET Nat, S # {}
  PROVE  \E m \in S : \A k \in S : m <= k
<1> DEFINE Less == OpToRel(<, Nat)
<1>1. \A j, k \in Nat : k < j => <<k, j>> \in Less
  BY DEF OpToRel
<1>2. IsWellFoundedOn(Less, Nat)
  BY NatLessThanWellFounded
<1> HIDE DEF Less
<1>3. PICK m \in S : \A k \in S : <<k, m>> \notin Less
  BY <1>2, WFMin
<1>4. \A k \in S : ~(k < m)
  BY <1>1, <1>3
<1> QED
  BY <1>3, <1>4

\* Induction, for a set of numbers up to a bound.
LEMMA UpTo ==
  ASSUME NEW n \in Nat, NEW S, 0 \in S, \A k \in 0..(n - 1) : k \in S => k + 1 \in S
  PROVE  \A k \in 0..n : k \in S
<1> DEFINE Bad == {k \in 0..n : k \notin S}
<1>1. SUFFICES ASSUME Bad # {} PROVE FALSE
  OBVIOUS
<1>2. Bad \in SUBSET Nat
  OBVIOUS
<1>3. PICK m \in Bad : \A k \in Bad : m <= k
  BY <1>1, <1>2, LeastNatural
<1>4. m \in 0..n /\ m \notin S /\ m # 0
  BY <1>3
<1>5. m - 1 \in 0..(n - 1) /\ m - 1 \notin Bad
  BY <1>3, <1>4
<1>6. m - 1 \in S
  BY <1>4, <1>5
<1> QED
  BY <1>4, <1>5, <1>6

\* A nonempty set with three measures has a member below which nothing is.
Above(m1, m2, m3, s, t) ==
  m1[s] = m1[t] => m2[s] <= m2[t] /\ (m2[s] = m2[t] => m3[s] <= m3[t])

LEMMA LeastOfThree ==
  ASSUME NEW S, S # {}, NEW m1 \in [S -> Nat], NEW m2 \in [S -> Nat], NEW m3 \in [S -> Nat]
  PROVE  \E s \in S : \A t \in S : m1[s] <= m1[t] /\ Above(m1, m2, m3, s, t)
<1>1. \A m \in [S -> Nat], T \in SUBSET S :
        T # {} => \E s \in T : \A t \in T : m[s] <= m[t]
  <2>1. SUFFICES ASSUME NEW m \in [S -> Nat], NEW T \in SUBSET S, T # {}
                 PROVE  \E s \in T : \A t \in T : m[s] <= m[t]
    OBVIOUS
  <2> DEFINE image == {m[t] : t \in T}
  <2>2. image \in SUBSET Nat /\ image # {}
    BY <2>1
  <2>3. PICK least \in image : \A k \in image : least <= k
    BY <2>2, LeastNatural
  <2> QED
    BY <2>3
<1>2. PICK s1 \in S : \A t \in S : m1[s1] <= m1[t]
  BY <1>1
<1> DEFINE T2 == {t \in S : m1[t] = m1[s1]}
<1>3. PICK s2 \in T2 : \A t \in T2 : m2[s2] <= m2[t]
  <2>1. T2 \in SUBSET S /\ s1 \in T2
    OBVIOUS
  <2> HIDE DEF T2
  <2> QED
    BY <2>1, <1>1
<1> DEFINE T3 == {t \in T2 : m2[t] = m2[s2]}
<1>4. PICK s3 \in T3 : \A t \in T3 : m3[s3] <= m3[t]
  <2>1. T3 \in SUBSET S /\ s2 \in T3
    OBVIOUS
  <2> HIDE DEF T2, T3
  <2> QED
    BY <2>1, <1>1
<1> QED
  BY <1>2, <1>3, <1>4 DEF Above

\* f[k] is what k steps make of base.
Iterates(U, base, step, n, f) ==
  /\ f \in [0..n -> U]
  /\ \A k \in 0..n : f[k] = IF k = 0 THEN base ELSE step[f[k - 1]]

\* So does a function that repeats a step a number of times.
LEMMA CountedRecursion ==
  ASSUME NEW U, NEW base \in U, NEW step \in [U -> U], NEW n \in Nat
  PROVE  \E f : Iterates(U, base, step, n, f)
<1> DEFINE Good(m) == \E f : Iterates(U, base, step, m, f)
           Bad == {m \in Nat : ~Good(m)}
<1>1. SUFFICES ASSUME Bad # {} PROVE FALSE
  OBVIOUS
<1>2. Bad \in SUBSET Nat
  OBVIOUS
<1> HIDE DEF Bad
<1>3. PICK m \in Bad : \A k \in Bad : m <= k
  BY <1>1, <1>2, LeastNatural
<1>4. m \in Nat /\ ~Good(m)
  BY <1>3 DEF Bad
<1>5. CASE m = 0
  <2> DEFINE g == [k \in 0..0 |-> base]
  <2>1. g \in [0..0 -> U] /\ \A k \in 0..0 : g[k] = base /\ k = 0
    OBVIOUS
  <2> HIDE DEF g
  <2>2. Good(0)
    BY <2>1 DEF Iterates
  <2> QED
    BY <1>4, <1>5, <2>2
<1>6. CASE m > 0
  <2>1. m - 1 \in Nat /\ m - 1 \notin Bad
    BY <1>3, <1>4, <1>6
  <2>2. Good(m - 1)
    BY <2>1 DEF Bad
  <2>3. PICK f \in [0..(m - 1) -> U] :
          \A k \in 0..(m - 1) : f[k] = IF k = 0 THEN base ELSE step[f[k - 1]]
    BY <2>2 DEF Iterates
  <2> DEFINE g == [k \in 0..m |-> IF k = m THEN step[f[m - 1]] ELSE f[k]]
  <2>4. m - 1 \in 0..(m - 1) /\ f[m - 1] \in U
    BY <1>4, <1>6
  <2>5. \A k \in 0..m : k = m \/ k \in 0..(m - 1)
    BY <1>4
  <2>6. g \in [0..m -> U]
    BY <2>4, <2>5
  <2>7. ASSUME NEW k \in 0..m
        PROVE  g[k] = IF k = 0 THEN base ELSE step[g[k - 1]]
    <3>1. CASE k = m
      <4>1. g[m] = step[f[m - 1]] /\ g[m - 1] = f[m - 1] /\ m # 0
        BY <1>4, <1>6
      <4> HIDE DEF g
      <4> QED
        BY <3>1, <4>1
    <3>2. CASE k # m
      <4>1. k \in 0..(m - 1)
        BY <3>2, <2>5
      <4>2. g[k] = f[k] /\ (k # 0 => g[k - 1] = f[k - 1])
        BY <3>2, <4>1, <1>4
      <4> HIDE DEF g
      <4> QED
        BY <4>1, <4>2, <2>3
    <3> QED
      BY <3>1, <3>2
  <2> HIDE DEF g
  <2>8. Good(m)
    BY <2>6, <2>7 DEF Iterates
  <2> QED
    BY <1>4, <2>8
<1> QED
  BY <1>4, <1>5, <1>6

-----------------------------------------------------------------------------
(* find                                                                    *)

\* Find, of a node n of ids, over the parents ps.
RootIn(ids, ps, n) ==
  LET root[m \in ids] == IF ps[m] = m THEN m ELSE root[ps[m]]
  IN  IF ps[n] = n THEN n ELSE root[ps[n]]

LEMMA FindIsRoot == \A n : Find(n) = RootIn(Nodes, parents, n)
  BY DEF Find, RootIn

\* ps is a forest on ids: ranks decrease from a node to its parent.
Decreases(ids, ps, rank) == \A n \in ids : ps[n] # n => rank[ps[n]] < rank[n]

LEMMA RootOfForest ==
  ASSUME NEW ids, NEW ps \in [ids -> ids], NEW rank \in [ids -> Nat],
         Decreases(ids, ps, rank)
  PROVE  \A n \in ids :
           /\ RootIn(ids, ps, n) \in ids
           /\ ps[RootIn(ids, ps, n)] = RootIn(ids, ps, n)
           /\ ps[n] = n => RootIn(ids, ps, n) = n
           /\ ps[n] # n => /\ RootIn(ids, ps, n) = RootIn(ids, ps, ps[n])
                           /\ rank[RootIn(ids, ps, n)] < rank[n]
<1> DEFINE F(f) == [m \in ids |-> IF ps[m] = m THEN m ELSE f[ps[m]]]
           root == CHOOSE f : f = F(f)
<1>1. root = F(root)
  <2>1. \E f : f = F(f)
    <3> DEFINE Done == {m \in ids : ps[m] = m}
               val == [m \in ids |-> m]
    <3>1. Done \in SUBSET ids /\ val \in [ids -> ids] /\ \A m \in ids : (m \in Done <=> ps[m] = m) /\ val[m] = m
      OBVIOUS
    <3> HIDE DEF Done, val
    <3>2. PICK f : Repeats(ids, ids, ps, Done, val, f)
      BY <3>1, TailRecursion
    <3>3. f = F(f)
      BY <3>1, <3>2 DEF Repeats
    <3> QED
      BY <3>3
  <2> HIDE DEF F
  <2> QED
    BY <2>1
<1>2. \A n : RootIn(ids, ps, n) = IF ps[n] = n THEN n ELSE root[ps[n]]
  BY DEF RootIn
<1> HIDE DEF root
<1>3. \A n \in ids : root[n] = IF ps[n] = n THEN n ELSE root[ps[n]]
  BY <1>1
<1>4. \A n \in ids : RootIn(ids, ps, n) = root[n] /\ ps[n] \in ids /\ rank[n] \in Nat
  BY <1>2, <1>3
<1> DEFINE Good(n) == root[n] \in ids /\ ps[root[n]] = root[n] /\ rank[root[n]] <= rank[n]
           Bad == {n \in ids : ~Good(n)}
<1>5. \A n \in ids : Good(n)
  <2>1. SUFFICES ASSUME Bad # {} PROVE FALSE
    OBVIOUS
  <2> DEFINE levels == {rank[n] : n \in Bad}
  <2>2. levels \in SUBSET Nat /\ levels # {}
    BY <2>1
  <2>3. PICK least \in levels : \A k \in levels : least <= k
    BY <2>2, LeastNatural
  <2>4. PICK n \in Bad : least = rank[n]
    BY <2>3
  <2>5. n \in ids /\ ~Good(n)
    BY <2>4
  <2>6. CASE ps[n] = n
    <3>1. root[n] = n
      BY <2>5, <2>6, <1>3
    <3> QED
      BY <3>1, <2>5, <2>6, <1>4
  <2>7. CASE ps[n] # n
    <3>1. root[n] = root[ps[n]] /\ ps[n] \in ids
      BY <2>5, <2>7, <1>3, <1>4
    <3>2. rank[ps[n]] < rank[n] /\ rank[ps[n]] \in Nat /\ rank[n] \in Nat
      BY <2>5, <2>7, <3>1, <1>4 DEF Decreases
    <3>3. ps[n] \notin Bad
      <4>1. SUFFICES ASSUME ps[n] \in Bad PROVE FALSE
        OBVIOUS
      <4>2. rank[ps[n]] \in levels
        BY <4>1
      <4> HIDE DEF levels
      <4> QED
        BY <4>2, <2>3, <2>4, <3>2
    <3>4. Good(ps[n])
      BY <3>1, <3>3
    <3>5. root[n] \in ids /\ ps[root[n]] = root[n] /\ rank[root[n]] <= rank[ps[n]]
          /\ rank[root[n]] \in Nat
      BY <3>1, <3>4, <1>4
    <3> QED
      BY <3>5, <3>2, <2>5
  <2> QED
    BY <2>6, <2>7
<1>6. ASSUME NEW n \in ids, ps[n] # n
      PROVE  root[n] = root[ps[n]] /\ rank[root[n]] < rank[n]
  <2>1. root[n] = root[ps[n]] /\ ps[n] \in ids
    BY <1>3, <1>4, <1>6
  <2>2. rank[ps[n]] < rank[n] /\ rank[ps[n]] \in Nat /\ rank[n] \in Nat
    BY <2>1, <1>4, <1>6 DEF Decreases
  <2>3. Good(ps[n])
    BY <2>1, <1>5
  <2>4. rank[root[n]] <= rank[ps[n]] /\ rank[root[n]] \in Nat
    BY <2>1, <2>3, <1>4
  <2> QED
    BY <2>1, <2>2, <2>4
<1> QED
  BY <1>3, <1>4, <1>5, <1>6

\* A node nobody points to is nobody's representative.
LEMMA RootAvoids ==
  ASSUME NEW ids, NEW ps \in [ids -> ids], NEW rank \in [ids -> Nat],
         Decreases(ids, ps, rank), NEW o, \A n \in ids \ {o} : ps[n] # o
  PROVE  \A n \in ids \ {o} : RootIn(ids, ps, n) # o
<1> DEFINE Bad == {n \in ids \ {o} : RootIn(ids, ps, n) = o}
           levels == {rank[n] : n \in Bad}
<1>1. SUFFICES ASSUME Bad # {} PROVE FALSE
  OBVIOUS
<1>2. levels \in SUBSET Nat /\ levels # {}
  BY <1>1
<1>3. PICK least \in levels : \A k \in levels : least <= k
  BY <1>2, LeastNatural
<1>4. PICK n \in Bad : least = rank[n]
  BY <1>3
<1>5. n \in ids /\ n # o /\ RootIn(ids, ps, n) = o
  BY <1>4
<1>6. ps[n] # n
  BY <1>5, RootOfForest
<1>7. ps[n] \in ids \ {o} /\ RootIn(ids, ps, ps[n]) = o
  BY <1>5, <1>6, RootOfForest
<1>8. rank[ps[n]] < rank[n] /\ rank[ps[n]] \in Nat /\ rank[n] \in Nat
  BY <1>5, <1>6, <1>7 DEF Decreases
<1>9. ps[n] \in Bad
  BY <1>7
<1>10. rank[ps[n]] \in levels
  BY <1>9
<1> HIDE DEF levels
<1> QED
  BY <1>3, <1>4, <1>8, <1>10

-----------------------------------------------------------------------------
(* Ranks: a forest of parents whose representatives have acyclic children   *)

\* rank decreases from a node to its parent, and from a representative to its
\* children E[n].
Layered(ids, ps, E, rank) ==
  /\ rank \in [ids -> Nat]
  /\ Decreases(ids, ps, rank)
  /\ \A n \in ids : ps[n] = n => \A c \in E[n] : rank[c] < rank[n]

\* ps and E are the parents and children of a graph on ids.
IsGraph(ids, ps, E) == ps \in [ids -> ids] /\ E \in [ids -> SUBSET ids]

\* The ranks of a finite graph need not be larger than the number of its nodes.
Lower(ids, rank, n) == {m \in ids : rank[m] < rank[n]}

LEMMA SmallRanks ==
  ASSUME NEW ids, IsFiniteSet(ids), NEW ps, NEW E, IsGraph(ids, ps, E),
         NEW rank, Layered(ids, ps, E, rank)
  PROVE  /\ Cardinality(ids) \in Nat
         /\ \E small : /\ Layered(ids, ps, E, small)
                       /\ \A n \in ids : small[n] < Cardinality(ids)
<1>1. ASSUME NEW n \in ids
      PROVE  /\ IsFiniteSet(Lower(ids, rank, n)) /\ Cardinality(Lower(ids, rank, n)) \in Nat
             /\ Cardinality(Lower(ids, rank, n)) < Cardinality(ids)
  <2>1. Lower(ids, rank, n) \subseteq ids /\ n \notin Lower(ids, rank, n)
    BY DEF Lower, Layered
  <2>2. Lower(ids, rank, n) # ids
    BY <2>1
  <2> HIDE DEF Lower
  <2> QED
    BY <2>1, <2>2, FS_Subset, FS_CardinalityType
<1>2. ASSUME NEW m \in ids, NEW n \in ids, rank[m] < rank[n]
      PROVE  Cardinality(Lower(ids, rank, m)) < Cardinality(Lower(ids, rank, n))
  <2>1. rank[m] \in Nat /\ rank[n] \in Nat /\ \A k \in ids : rank[k] \in Nat
    BY DEF Layered
  <2>2. Lower(ids, rank, m) \subseteq Lower(ids, rank, n)
    BY <2>1, <1>2 DEF Lower
  <2>3. m \in Lower(ids, rank, n) /\ m \notin Lower(ids, rank, m)
    BY <2>1, <1>2 DEF Lower
  <2>4. Lower(ids, rank, m) # Lower(ids, rank, n)
    BY <2>3
  <2> HIDE DEF Lower
  <2> QED
    BY <2>2, <2>4, <1>1, FS_Subset, FS_CardinalityType
<1> DEFINE small == [n \in ids |-> Cardinality(Lower(ids, rank, n))]
<1>3. small \in [ids -> Nat] /\ \A n \in ids : small[n] < Cardinality(ids)
  BY <1>1
<1>4. \A m, n \in ids : rank[m] < rank[n] => small[m] < small[n]
  BY <1>2
<1> HIDE DEF small
<1>5. Decreases(ids, ps, small)
  BY <1>4 DEF Layered, Decreases, IsGraph
<1>6. \A n \in ids : ps[n] = n => \A c \in E[n] : small[c] < small[n]
  <2>1. SUFFICES ASSUME NEW n \in ids, ps[n] = n, NEW c \in E[n]
                 PROVE  small[c] < small[n]
    OBVIOUS
  <2>2. c \in ids /\ rank[c] < rank[n]
    BY <2>1 DEF Layered, IsGraph
  <2> QED
    BY <2>2, <1>4
<1>7. Layered(ids, ps, E, small)
  BY <1>3, <1>5, <1>6 DEF Layered
<1> QED
  BY <1>3, <1>7, FS_CardinalityType

\* find never changes a representative, and puts nodes directly below them.
LEMMA CompressLayered ==
  ASSUME NEW ids, NEW ps, NEW E, IsGraph(ids, ps, E), NEW rank, Layered(ids, ps, E, rank),
         NEW qs \in [ids -> ids],
         \A n \in ids : qs[n] \in {ps[n], RootIn(ids, ps, n)}
  PROVE  /\ IsGraph(ids, qs, E) /\ Layered(ids, qs, E, rank)
         /\ \A n \in ids : qs[n] = n <=> ps[n] = n
<1>1. /\ ps \in [ids -> ids] /\ rank \in [ids -> Nat] /\ Decreases(ids, ps, rank)
  BY DEF Layered, IsGraph
<1>2. ASSUME NEW n \in ids
      PROVE  /\ ps[n] = n => qs[n] = n
             /\ ps[n] # n => qs[n] # n /\ rank[qs[n]] < rank[n]
  <2>1. CASE ps[n] = n
    BY <2>1, <1>1, RootOfForest
  <2>2. CASE ps[n] # n
    <3>1. rank[RootIn(ids, ps, n)] < rank[n]
      BY <2>2, <1>1, RootOfForest
    <3>2. rank[ps[n]] < rank[n]
      BY <2>2, <1>1 DEF Decreases
    <3>3. rank[qs[n]] < rank[n] /\ rank[n] \in Nat
      BY <3>1, <3>2, <1>1
    <3> QED
      BY <3>3, <2>2
  <2> QED
    BY <2>1, <2>2
<1> QED
  BY <1>2 DEF Layered, IsGraph, Decreases

\* qs and F are ps and E but for o, which is nobody's parent or child.
Tops(ids, ps, E, o, qs, F) ==
  /\ qs[o] = o /\ o \notin F[o]
  /\ \A n \in ids \ {o} : qs[n] = ps[n] /\ F[n] = E[n] /\ ps[n] # o /\ o \notin E[n]

\* A node that nobody refers to may come in, or get other children: a rank
\* above all others suits it.
LEMMA TopLayered ==
  ASSUME NEW ids, IsFiniteSet(ids), NEW ps, NEW E, IsGraph(ids, ps, E),
         NEW rank, Layered(ids, ps, E, rank),
         NEW o, NEW all, all = ids \cup {o}, NEW qs, NEW F, IsGraph(all, qs, F),
         Tops(ids, ps, E, o, qs, F)
  PROVE  \E r : Layered(all, qs, F, r)
<1>0. /\ qs[o] = o /\ o \notin F[o]
      /\ \A n \in ids \ {o} :
           qs[n] = ps[n] /\ F[n] = E[n] /\ ps[n] # o /\ o \notin E[n]
  BY DEF Tops
<1>1. PICK small : /\ Layered(ids, ps, E, small)
                   /\ \A n \in ids : small[n] < Cardinality(ids)
  BY SmallRanks
<1>2. PICK top \in Nat : top = Cardinality(ids)
  BY SmallRanks
<1> DEFINE r == [n \in all |-> IF n = o THEN top ELSE small[n]]
<1>3. /\ r \in [all -> Nat] /\ r[o] = top
      /\ \A n \in all : n # o => n \in ids /\ r[n] = small[n] /\ r[n] < top
  BY <1>1, <1>2 DEF Layered
<1> HIDE DEF r
<1>4. Decreases(all, qs, r)
  <2>1. SUFFICES ASSUME NEW n \in all, qs[n] # n PROVE r[qs[n]] < r[n]
    BY DEF Decreases
  <2>2. n \in ids \ {o} /\ qs[n] = ps[n] /\ ps[n] \in ids \ {o}
    BY <2>1, <1>0, <1>3 DEF IsGraph
  <2>3. small[ps[n]] < small[n]
    BY <2>1, <2>2, <1>1 DEF Layered, Decreases
  <2> QED
    BY <2>2, <2>3, <1>3
<1>5. ASSUME NEW n \in all, qs[n] = n, NEW c \in F[n]
      PROVE  r[c] < r[n]
  <2>1. c \in all
    BY DEF IsGraph
  <2>2. CASE n = o
    BY <2>1, <2>2, <1>0, <1>3, <1>5
  <2>3. CASE n # o
    <3>1. n \in ids \ {o} /\ ps[n] = n /\ c \in E[n] /\ c # o
      BY <2>3, <1>0, <1>3, <1>5
    <3>2. small[c] < small[n]
      BY <3>1, <1>1 DEF Layered
    <3> QED
      BY <3>1, <3>2, <2>1, <1>3
  <2> QED
    BY <2>2, <2>3
<1> QED
  BY <1>3, <1>4, <1>5 DEF Layered

\* S holds representatives only, and with each those of its children.
Closed(ids, ps, E, S) ==
  \A n \in S : /\ n \in ids /\ ps[n] = n
               /\ \A c \in E[n] : RootIn(ids, ps, c) \in S

\* qs puts v below t, and other nodes at most below their representative.
Binds(ids, ps, v, t, qs) ==
  /\ qs \in [ids -> ids] /\ qs[v] = t
  /\ \A n \in ids \ {v} : qs[n] \in {ps[n], RootIn(ids, ps, n)}

\* A variable may be bound to a node of a closed set it is not in itself: every
\* node not below that set is lifted above it.
LEMMA BindLayered ==
  ASSUME NEW ids, IsFiniteSet(ids), NEW ps, NEW E, IsGraph(ids, ps, E),
         NEW rank, Layered(ids, ps, E, rank),
         NEW S, Closed(ids, ps, E, S),
         NEW v \in ids, ps[v] = v, v \notin S, NEW t \in S,
         NEW qs, Binds(ids, ps, v, t, qs)
  PROVE  \E r : Layered(ids, qs, E, r)
<1>1. PICK small : /\ Layered(ids, ps, E, small)
                   /\ \A n \in ids : small[n] < Cardinality(ids)
  BY SmallRanks
<1>2. PICK top \in Nat : top = Cardinality(ids)
  BY SmallRanks
<1>3. /\ ps \in [ids -> ids] /\ small \in [ids -> Nat] /\ Decreases(ids, ps, small)
      /\ \A n \in ids : small[n] \in Nat /\ small[n] < top
  BY <1>1, <1>2 DEF Layered, IsGraph
<1> DEFINE root == [n \in ids |-> RootIn(ids, ps, n)]
           r == [n \in ids |-> IF root[n] \in S THEN small[n] ELSE small[n] + top]
<1>4. /\ \A n \in ids : root[n] \in ids /\ ps[root[n]] = root[n]
      /\ \A n \in ids : ps[n] # n => root[n] = root[ps[n]] /\ small[root[n]] < small[n]
  BY <1>3, RootOfForest
<1>5. \A n \in ids : ps[n] = n => root[n] = n
  BY <1>3, RootOfForest
<1> HIDE DEF root
<1>6. /\ r \in [ids -> Nat]
      /\ \A n \in ids : r[n] = IF root[n] \in S THEN small[n] ELSE small[n] + top
  BY <1>3
<1> HIDE DEF r
<1>7. qs[v] = t /\ \A n \in ids \ {v} : qs[n] \in {ps[n], root[n]}
  BY DEF root, Binds
<1>8. \A n \in S : n \in ids /\ ps[n] = n /\ \A c \in E[n] : root[c] \in S
  BY DEF Closed, IsGraph, root
<1>9. Decreases(ids, qs, r)
  <2>1. SUFFICES ASSUME NEW n \in ids, qs[n] # n PROVE r[qs[n]] < r[n]
    BY DEF Decreases
  <2>2. CASE n = v
    <3>1. root[t] = t /\ root[v] = v /\ t \in ids
      BY <1>8, <1>5
    <3>2. r[t] = small[t] /\ r[v] = small[v] + top
      BY ONLY <3>1, <1>6, t \in S, v \notin S, v \in ids
    <3>3. small[t] < top /\ small[t] \in Nat /\ small[v] \in Nat
      BY <3>1, <1>3
    <3> QED
      BY <2>2, <3>2, <3>3, <1>2, <1>7
  <2>3. CASE n # v
    <3>1. qs[n] = ps[n] \/ qs[n] = root[n]
      BY <2>3, <1>7
    <3>2. ps[n] # n
      BY <2>1, <3>1, <1>5
    <3>3. ps[n] \in ids /\ small[ps[n]] < small[n]
      BY <3>2, <1>3 DEF Decreases
    <3>4. PICK m : m = root[n]
      OBVIOUS
    <3>5. m \in ids /\ root[m] = m /\ small[m] < small[n]
      BY <3>2, <3>4, <1>4, <1>5
    <3>6. root[ps[n]] = m
      BY <3>2, <3>4, <1>4
    <3>7. PICK k \in ids : k = qs[n] /\ root[k] = root[n] /\ small[k] < small[n]
      BY <3>1, <3>3, <3>4, <3>5, <3>6
    <3>8. /\ r[k] = IF root[n] \in S THEN small[k] ELSE small[k] + top
          /\ r[n] = IF root[n] \in S THEN small[n] ELSE small[n] + top
      BY ONLY <3>7, <1>6, <2>1
    <3>9. small[k] \in Nat /\ small[n] \in Nat
      BY <1>3
    <3> QED
      BY ONLY <3>7, <3>8, <3>9, <1>2
  <2> QED
    BY <2>2, <2>3
<1>10. ASSUME NEW n \in ids, qs[n] = n, NEW c \in E[n]
      PROVE  r[c] < r[n]
  <2>1. n # v
    BY <1>7, <1>8, <1>10
  <2>2. ps[n] = n
    <3>1. SUFFICES ASSUME ps[n] # n PROVE FALSE
      OBVIOUS
    <3>2. root[n] = n
      BY <3>1, <2>1, <1>7, <1>10
    <3>3. small[root[n]] < small[n]
      BY <3>1, <1>4
    <3>4. small[n] \in Nat
      BY <1>3
    <3> QED
      BY <3>2, <3>3, <3>4
  <2>3. c \in ids /\ small[c] < small[n]
    BY <2>2, <1>1 DEF Layered, IsGraph
  <2>4. root[n] = n
    BY <2>2, <1>5
  <2>5. root[n] \in S => root[c] \in S
    BY <2>4, <1>8, <1>10
  <2>6. /\ r[c] = IF root[c] \in S THEN small[c] ELSE small[c] + top
        /\ r[n] = IF root[n] \in S THEN small[n] ELSE small[n] + top
    BY ONLY <2>3, <1>6, <1>10
  <2>7. small[c] \in Nat /\ small[n] \in Nat /\ small[c] < top
    BY <2>3, <1>3
  <2> QED
    BY ONLY <2>3, <2>5, <2>6, <2>7, <1>2
<1> QED
  BY <1>6, <1>9, <1>10 DEF Layered

-----------------------------------------------------------------------------
(* The walks of validateSnapshot                                           *)

\* The children of each node, as the snapshot s stores them.
Below(s) == [n \in Ids(s) |-> Edges(s, n)]

LEMMA ClimbSteps ==
  ASSUME NEW s, Len(s.kinds) \in Nat, s.parents \in [Ids(s) -> Ids(s)], NEW n \in Ids(s)
  PROVE  \E climb \in [0..Len(s.kinds) -> Ids(s)] :
           /\ climb[0] = n
           /\ \A k \in 0..(Len(s.kinds) - 1) : climb[k + 1] = s.parents[climb[k]]
           /\ Climbed(s, n) = climb[Len(s.kinds)]
<1>1. PICK size, ps : size \in Nat /\ size = Len(s.kinds) /\ ps = s.parents
  OBVIOUS
<1> DEFINE F(f) == [k \in 0..size |-> IF k = 0 THEN n ELSE ps[f[k - 1]]]
           climb == CHOOSE f : f = F(f)
<1>2. PICK f \in [0..size -> Ids(s)] :
        \A k \in 0..size : f[k] = IF k = 0 THEN n ELSE ps[f[k - 1]]
  <2>1. n \in Ids(s) /\ ps \in [Ids(s) -> Ids(s)] /\ size \in Nat
    BY <1>1
  <2>2. PICK f : Iterates(Ids(s), n, ps, size, f)
    BY <2>1, CountedRecursion
  <2> QED
    BY <2>2 DEF Iterates
<1>3. f = F(f)
  BY <1>2
<1>4. climb = F(climb)
  <2> HIDE DEF F
  <2> QED
    BY <1>3
<1>5. Climbed(s, n) = climb[size]
  BY <1>1 DEF Climbed
<1> HIDE DEF climb
<1>6. \A k \in 0..size : climb[k] = IF k = 0 THEN n ELSE ps[climb[k - 1]]
  BY <1>4
<1>7. \A k \in 0..(size - 1) : climb[k + 1] = ps[climb[k]]
  <2>1. \A k \in 0..(size - 1) : k + 1 \in 0..size /\ k + 1 # 0 /\ k + 1 - 1 = k
    BY <1>1
  <2> QED
    BY <2>1, <1>6
<1> DEFINE Nodal == {k \in 0..size : climb[k] \in Ids(s)}
<1>8. \A k \in 0..size : k \in Nodal
  <2>1. 0 \in Nodal
    BY <1>1, <1>6
  <2>2. ASSUME NEW k \in 0..(size - 1), k \in Nodal PROVE k + 1 \in Nodal
    BY <1>1, <1>7, <2>2
  <2> HIDE DEF Nodal
  <2> QED
    BY <2>1, <2>2, <1>1, UpTo
<1>9. climb \in [0..size -> Ids(s)]
  BY <1>4, <1>8
<1>10. climb[0] = n
  BY <1>1, <1>6
<1> QED
  BY <1>1, <1>5, <1>7, <1>9, <1>10

\* Every parent step goes down until it is at a representative.
LEMMA ClimbSinks ==
  ASSUME NEW s, Len(s.kinds) \in Nat, NEW E, IsGraph(Ids(s), s.parents, E),
         NEW rank, Layered(Ids(s), s.parents, E, rank), NEW n \in Ids(s)
  PROVE  /\ Climbed(s, n) \in Ids(s) /\ rank[Climbed(s, n)] <= rank[n]
         /\ \/ s.parents[Climbed(s, n)] = Climbed(s, n)
            \/ rank[Climbed(s, n)] + Len(s.kinds) <= rank[n]
<1>1. PICK size, ps : size \in Nat /\ size = Len(s.kinds) /\ ps = s.parents
  OBVIOUS
<1>2. PICK climb \in [0..size -> Ids(s)] :
        /\ climb[0] = n
        /\ \A k \in 0..(size - 1) : climb[k + 1] = ps[climb[k]]
        /\ Climbed(s, n) = climb[size]
  BY <1>1, ClimbSteps DEF IsGraph
<1> DEFINE Sunk == {k \in 0..size :
             /\ rank[climb[k]] <= rank[n]
             /\ ps[climb[k]] = climb[k] \/ rank[climb[k]] + k <= rank[n]}
<1>3. \A m \in Ids(s) : rank[m] \in Nat /\ (ps[m] # m => rank[ps[m]] < rank[m])
  BY <1>1 DEF Layered, Decreases
<1>4. 0 \in Sunk
  BY <1>1, <1>2, <1>3
<1>5. ASSUME NEW k \in 0..(size - 1), k \in Sunk PROVE k + 1 \in Sunk
  <2>1. k \in Nat /\ k + 1 \in 0..size
    BY <1>1
  <2>2. PICK m \in Ids(s) : m = climb[k] /\ climb[k + 1] = ps[m]
    BY <1>1, <1>2
  <2>3. rank[m] <= rank[n] /\ (ps[m] = m \/ rank[m] + k <= rank[n])
    BY <1>5, <2>2
  <2>4. PICK p : p = ps[m] /\ climb[k + 1] = p
    BY <2>2
  <2>5. p # m => rank[p] < rank[m]
    BY <2>4, <1>3
  <2>6. p \in Ids(s)
    BY <2>1, <2>4, <1>2
  <2>7. rank[p] \in Nat /\ rank[m] \in Nat /\ rank[n] \in Nat
    BY <2>6, <1>3
  <2>8. rank[p] <= rank[n] /\ (ps[p] = p \/ rank[p] + (k + 1) <= rank[n])
    BY <2>1, <2>3, <2>4, <2>5, <2>7
  <2> QED
    BY <2>1, <2>4, <2>8
<1> HIDE DEF Sunk
<1>6. \A k \in 0..size : k \in Sunk
  BY <1>1, <1>4, <1>5, UpTo
<1>7. size \in Sunk /\ climb[size] \in Ids(s)
  BY <1>1, <1>2, <1>6
<1> QED
  BY <1>1, <1>2, <1>7 DEF Sunk

LEMMA UpToIsFinite ==
  ASSUME NEW size \in Nat
  PROVE  IsFiniteSet(1..size) /\ Cardinality(1..size) = size
<1>1. 1 \in Int /\ size \in Int
  OBVIOUS
<1>2. /\ IsFiniteSet(1..size)
      /\ Cardinality(1..size) = IF 1 > size THEN 0 ELSE size - 1 + 1
  BY <1>1, FS_Interval
<1> QED
  BY <1>2

LEMMA LayeredClimbs ==
  ASSUME NEW s, Len(s.kinds) \in Nat, NEW E, IsGraph(Ids(s), s.parents, E),
         NEW rank, Layered(Ids(s), s.parents, E, rank)
  PROVE  \A n \in Ids(s) : /\ Climbed(s, n) \in Ids(s)
                           /\ s.parents[Climbed(s, n)] = Climbed(s, n)
                           /\ rank[Climbed(s, n)] <= rank[n]
<1>1. IsFiniteSet(Ids(s)) /\ Cardinality(Ids(s)) = Len(s.kinds)
  BY UpToIsFinite DEF Ids
<1>2. PICK small : /\ Layered(Ids(s), s.parents, E, small)
                   /\ \A n \in Ids(s) : small[n] < Len(s.kinds)
  BY <1>1, SmallRanks
<1>3. ASSUME NEW n \in Ids(s)
      PROVE  s.parents[Climbed(s, n)] = Climbed(s, n)
  <2>1. PICK root : root = Climbed(s, n)
    OBVIOUS
  <2>2. root \in Ids(s) /\ (s.parents[root] = root \/ small[root] + Len(s.kinds) <= small[n])
    BY <2>1, <1>2, ClimbSinks
  <2>3. small[n] < Len(s.kinds) /\ small[n] \in Nat /\ small[root] \in Nat
    BY <2>2, <1>2 DEF Layered
  <2> QED
    BY <2>1, <2>2, <2>3
<1> QED
  BY <1>3, ClimbSinks

\* The nodes whose children are finished, after B were.
Finishing(s, B) ==
  {n \in Ids(s) : \A child \in Edges(s, Climbed(s, n)) : Climbed(s, child) \in B}

LEMMA FinishRounds ==
  ASSUME NEW s, Len(s.kinds) \in Nat
  PROVE  \E finished \in [0..Len(s.kinds) -> SUBSET Ids(s)] :
           /\ finished[0] = {}
           /\ \A k \in 0..(Len(s.kinds) - 1) : finished[k + 1] = Finishing(s, finished[k])
           /\ StructureAcyclic(s) <=> finished[Len(s.kinds)] = Ids(s)
<1>1. PICK size \in Nat : size = Len(s.kinds)
  OBVIOUS
<1> DEFINE F(f) == [k \in 0..size |-> IF k = 0 THEN {} ELSE Finishing(s, f[k - 1])]
           finished == CHOOSE f : f = F(f)
           U == SUBSET Ids(s)
           step == [B \in U |-> Finishing(s, B)]
<1>2. PICK f \in [0..size -> U] :
        \A k \in 0..size : f[k] = IF k = 0 THEN {} ELSE step[f[k - 1]]
  <2>1. {} \in U /\ step \in [U -> U] /\ size \in Nat
    BY <1>1 DEF Finishing
  <2> HIDE DEF U, step
  <2>2. PICK f : Iterates(U, {}, step, size, f)
    BY <2>1, CountedRecursion
  <2> QED
    BY <2>2 DEF Iterates
<1>3. f = F(f)
  <2>1. ASSUME NEW k \in 0..size, k # 0 PROVE f[k] = Finishing(s, f[k - 1])
    <3>1. k - 1 \in 0..size
      BY <1>1, <2>1
    <3>2. f[k - 1] \in U /\ f[k] = step[f[k - 1]]
      BY <3>1, <1>2, <2>1
    <3> QED
      BY <3>2
  <2>2. \A k \in 0..size : f[k] = IF k = 0 THEN {} ELSE Finishing(s, f[k - 1])
    BY <2>1, <1>2
  <2> HIDE DEF U, step
  <2> QED
    BY <2>2, <1>2
<1>4. finished = F(finished)
  <2> HIDE DEF F
  <2> QED
    BY <1>3
<1>5. StructureAcyclic(s) <=> finished[size] = Ids(s)
  BY <1>1 DEF StructureAcyclic, Finishing
<1> HIDE DEF finished
<1>6. \A k \in 0..size : finished[k] = IF k = 0 THEN {} ELSE Finishing(s, finished[k - 1])
  BY <1>4
<1>7. \A k \in 0..(size - 1) : finished[k + 1] = Finishing(s, finished[k])
  <2>1. \A k \in 0..(size - 1) : k + 1 \in 0..size /\ k + 1 # 0 /\ k + 1 - 1 = k
    BY <1>1
  <2> QED
    BY <2>1, <1>6
<1>8. finished \in [0..size -> U]
  <2>1. \A k \in 0..size : finished[k] \in U
    BY <1>6 DEF Finishing
  <2> HIDE DEF U
  <2> QED
    BY <2>1, <1>4
<1>9. finished[0] = {}
  BY <1>1, <1>6
<1> QED
  BY <1>1, <1>5, <1>7, <1>8, <1>9

\* A layered graph passes the walks of validateSnapshot.
LEMMA LayeredIsAcyclic ==
  ASSUME NEW s, Len(s.kinds) \in Nat, IsGraph(Ids(s), s.parents, Below(s)),
         NEW rank, Layered(Ids(s), s.parents, Below(s), rank)
  PROVE  StructureAcyclic(s)
<1>1. PICK size \in Nat : size = Len(s.kinds)
  OBVIOUS
<1>2. IsFiniteSet(Ids(s)) /\ Cardinality(Ids(s)) = size
  BY <1>1, UpToIsFinite DEF Ids
<1>3. PICK small : /\ Layered(Ids(s), s.parents, Below(s), small)
                   /\ \A n \in Ids(s) : small[n] < size
  BY <1>2, SmallRanks
<1>4. PICK finished \in [0..size -> SUBSET Ids(s)] :
        /\ finished[0] = {}
        /\ \A k \in 0..(size - 1) : finished[k + 1] = Finishing(s, finished[k])
        /\ StructureAcyclic(s) <=> finished[size] = Ids(s)
  BY <1>1, FinishRounds
<1>5. \A n \in Ids(s) : /\ Climbed(s, n) \in Ids(s)
                        /\ s.parents[Climbed(s, n)] = Climbed(s, n)
                        /\ small[Climbed(s, n)] <= small[n]
  BY <1>3, LayeredClimbs
<1>6. \A n \in Ids(s) : small[n] \in Nat
  BY <1>3 DEF Layered
<1> DEFINE Done == {k \in 0..size :
             \A n \in Ids(s) : small[Climbed(s, n)] < k => n \in finished[k]}
<1>7. 0 \in Done
  BY <1>1, <1>5, <1>6
<1>8. ASSUME NEW k \in 0..(size - 1), k \in Done PROVE k + 1 \in Done
  <2>1. k \in Nat /\ k + 1 \in 0..size
    BY <1>1
  <2>2. ASSUME NEW n \in Ids(s), small[Climbed(s, n)] < k + 1
        PROVE  n \in finished[k + 1]
    <3>1. PICK root \in Ids(s) : root = Climbed(s, n) /\ s.parents[root] = root
      BY <1>5
    <3>2. ASSUME NEW c \in Edges(s, root) PROVE Climbed(s, c) \in finished[k]
      <4>1. Below(s)[root] = Edges(s, root) /\ Below(s)[root] \in SUBSET Ids(s)
        BY DEF Below, IsGraph
      <4>2. c \in Ids(s) /\ small[c] < small[root]
        BY <3>1, <3>2, <4>1, <1>3 DEF Layered
      <4>3. PICK below : below = Climbed(s, c)
        OBVIOUS
      <4>4. below \in Ids(s) /\ s.parents[below] = below /\ small[below] <= small[c]
        BY <4>2, <4>3, <1>5
      <4>5. Climbed(s, below) \in Ids(s) /\ small[Climbed(s, below)] <= small[below]
        BY <4>4, <1>5
      <4>6. small[Climbed(s, below)] < k
        <5>1. /\ small[root] < k + 1 /\ small[root] \in Nat /\ small[c] \in Nat
              /\ small[below] \in Nat /\ small[Climbed(s, below)] \in Nat
          BY <2>2, <3>1, <4>2, <4>4, <4>5, <1>6
        <5> QED
          BY <5>1, <4>2, <4>4, <4>5, <2>1
      <4> QED
        BY <4>3, <4>4, <4>6, <1>8
    <3>3. n \in Finishing(s, finished[k])
      BY <3>1, <3>2 DEF Finishing
    <3> QED
      BY <3>3, <1>4
  <2> QED
    BY <2>1, <2>2
<1> HIDE DEF Done
<1>9. \A k \in 0..size : k \in Done
  BY <1>7, <1>8, UpTo
<1>10. size \in Done
  BY <1>1, <1>9
<1>11. \A n \in Ids(s) : n \in finished[size]
  BY <1>3, <1>5, <1>10 DEF Done
<1>12. finished[size] \in SUBSET Ids(s)
  BY <1>1, <1>4
<1> QED
  BY <1>4, <1>11, <1>12

\* Parent steps count down to a representative, the same on the whole way.
LEMMA ClimbDepth ==
  ASSUME NEW s, Len(s.kinds) \in Nat, s.parents \in [Ids(s) -> Ids(s)],
         \A n \in Ids(s) : s.parents[Climbed(s, n)] = Climbed(s, n)
  PROVE  \E depth \in [Ids(s) -> 0..Len(s.kinds)] : \A n \in Ids(s) :
           /\ s.parents[n] = n => Climbed(s, n) = n
           /\ s.parents[n] # n => /\ depth[s.parents[n]] < depth[n]
                                  /\ Climbed(s, s.parents[n]) = Climbed(s, n)
<1>1. PICK size, ps, ids :
        size \in Nat /\ size = Len(s.kinds) /\ ps = s.parents /\ ids = Ids(s)
  OBVIOUS
<1> DEFINE Climbs(n, c) == /\ c \in [0..size -> ids] /\ c[0] = n
                           /\ \A k \in 0..(size - 1) : c[k + 1] = ps[c[k]]
                           /\ Climbed(s, n) = c[size]
           climb == [n \in ids |-> CHOOSE c : Climbs(n, c)]
           Least(n, k) == /\ k \in 0..size /\ ps[climb[n][k]] = climb[n][k]
                          /\ \A j \in 0..size : ps[climb[n][j]] = climb[n][j] => k <= j
           depth == [n \in ids |-> CHOOSE k : Least(n, k)]
<1>2. ASSUME NEW n \in ids PROVE Climbs(n, climb[n])
  <2>1. \E c : Climbs(n, c)
    BY <1>1, ClimbSteps
  <2> HIDE DEF Climbs
  <2> QED
    BY <2>1
<1> HIDE DEF climb
<1>3. \A n \in ids : /\ climb[n] \in [0..size -> ids] /\ climb[n][0] = n
                     /\ \A k \in 0..(size - 1) : climb[n][k + 1] = ps[climb[n][k]]
                     /\ climb[n][size] = Climbed(s, n)
  BY <1>2
<1>4. ASSUME NEW n \in ids PROVE Least(n, depth[n])
  <2> DEFINE sinks == {k \in 0..size : ps[climb[n][k]] = climb[n][k]}
  <2>1. size \in sinks /\ sinks \in SUBSET Nat
    BY <1>1, <1>3
  <2>2. PICK k \in sinks : \A j \in sinks : k <= j
    BY <2>1, LeastNatural
  <2>3. Least(n, k)
    BY <2>2
  <2> HIDE DEF Least
  <2> QED
    BY <2>3
<1> HIDE DEF depth
<1>5. \A n \in ids : /\ depth[n] \in 0..size
                     /\ ps[climb[n][depth[n]]] = climb[n][depth[n]]
                     /\ \A j \in 0..size : ps[climb[n][j]] = climb[n][j] => depth[n] <= j
  BY <1>4
<1>6. ASSUME NEW n \in ids, ps[n] = n
      PROVE  Climbed(s, n) = n
  <2> DEFINE S == {k \in 0..size : climb[n][k] = n}
  <2>1. 0 \in S /\ \A k \in 0..(size - 1) : k \in S => k + 1 \in S
    BY <1>1, <1>3, <1>6
  <2> HIDE DEF S
  <2>2. \A k \in 0..size : k \in S
    BY <2>1, <1>1, UpTo
  <2>3. size \in S
    BY <2>2, <1>1
  <2> QED
    BY <2>3, <1>3 DEF S
<1>7. ASSUME NEW n \in ids, ps[n] # n
      PROVE  depth[ps[n]] < depth[n] /\ Climbed(s, ps[n]) = Climbed(s, n)
  <2>1. PICK p \in ids : p = ps[n]
    BY <1>1
  <2>2. PICK c, d : c = climb[n] /\ d = climb[p]
    OBVIOUS
  <2>3. /\ c[0] = n /\ d[0] = p
        /\ \A k \in 0..(size - 1) : c[k + 1] = ps[c[k]] /\ d[k + 1] = ps[d[k]]
        /\ c[size] = Climbed(s, n) /\ d[size] = Climbed(s, p)
    BY <2>1, <2>2, <1>3
  <2>4. size >= 1
    BY <1>1, <1>7 DEF Ids
  <2> DEFINE S == {k \in 0..(size - 1) : d[k] = c[k + 1]}
  <2>5. 0 \in S
    <3>1. 0 \in 0..(size - 1) /\ c[0 + 1] = ps[c[0]]
      BY <2>3, <2>4, <1>1
    <3> QED
      BY <3>1, <2>1, <2>3
  <2>6. ASSUME NEW k \in 0..(size - 1 - 1), k \in S PROVE k + 1 \in S
    <3>1. k + 1 \in 0..(size - 1) /\ k \in 0..(size - 1)
      BY <1>1, <2>4
    <3>2. d[k + 1] = ps[d[k]] /\ c[k + 1 + 1] = ps[c[k + 1]]
      BY <3>1, <2>3
    <3>3. d[k] = c[k + 1]
      BY <2>6
    <3> QED
      BY <3>1, <3>2, <3>3
  <2>7. \A k \in 0..(size - 1) : d[k] = c[k + 1]
    <3>1. size - 1 \in Nat
      BY <2>4, <1>1
    <3> HIDE DEF S
    <3>2. \A k \in 0..(size - 1) : k \in S
      BY <3>1, <2>5, <2>6, UpTo
    <3> QED
      BY <3>2 DEF S
  <2>8. d[size] = c[size]
    <3>1. size - 1 \in 0..(size - 1) /\ size - 1 + 1 = size
      BY <2>4, <1>1
    <3>2. d[size - 1] = c[size] /\ d[size] = ps[d[size - 1]]
      BY <3>1, <2>3, <2>7
    <3>3. ps[c[size]] = c[size]
      BY <2>3, <1>1
    <3> QED
      BY <3>2, <3>3
  <2>9. depth[n] # 0
    <3>1. SUFFICES ASSUME depth[n] = 0 PROVE FALSE
      OBVIOUS
    <3>2. ps[c[0]] = c[0]
      BY <3>1, <2>2, <1>5
    <3> QED
      BY <3>2, <2>3, <1>7
  <2>10. PICK k \in 0..(size - 1) : depth[n] = k + 1
    <3>1. depth[n] \in 0..size
      BY <1>5
    <3>2. depth[n] - 1 \in 0..(size - 1) /\ depth[n] = depth[n] - 1 + 1
      BY <3>1, <2>9, <1>1
    <3> QED
      BY <3>2
  <2>11. ps[d[k]] = d[k]
    <3>1. ps[c[k + 1]] = c[k + 1]
      BY <2>2, <2>10, <1>5
    <3> QED
      BY <3>1, <2>7
  <2>12. depth[p] <= k /\ depth[p] \in 0..size
    <3>1. k \in 0..size
      BY <1>1
    <3> QED
      BY <3>1, <2>2, <2>11, <1>5
  <2> QED
    BY <2>1, <2>3, <2>8, <2>10, <2>12, <1>1
<1>8. depth \in [ids -> 0..size]
  BY <1>5 DEF depth
<1> QED
  BY <1>1, <1>6, <1>7, <1>8

\* A block of size + 1 ranks for each level.
LEMMA Blocks ==
  ASSUME NEW a \in Nat, NEW b \in Nat, NEW size \in Nat, NEW x \in 0..size, NEW y \in 0..size,
         a < b
  PROVE  a * (size + 1) + x < b * (size + 1) + y
<1>1. PICK e \in Nat : b = a + 1 + e
  <2>1. b - a - 1 \in Nat /\ b = a + 1 + (b - a - 1)
    OBVIOUS
  <2> QED
    BY <2>1
<1>2. b * (size + 1) = a * (size + 1) + (size + 1) + e * (size + 1)
  BY <1>1
<1>3. e * (size + 1) \in Nat /\ a * (size + 1) \in Nat
  BY <1>1
<1> QED
  BY <1>2, <1>3

\* A snapshot that passes the walks of validateSnapshot has ranks: the round
\* its representative is finished in, then the steps to it.
LEMMA ValidIsLayered ==
  ASSUME NEW s, Valid(s)
  PROVE  /\ IsGraph(Ids(s), s.parents, Below(s))
         /\ \E rank : Layered(Ids(s), s.parents, Below(s), rank)
<1>1. /\ Len(s.kinds) \in Nat /\ s.parents \in Seq(Nat) /\ Len(s.parents) = Len(s.kinds)
      /\ \A n \in Ids(s) : s.parents[n] \in Ids(s) /\ RowValid(s, n)
      /\ \A n \in Ids(s) : s.parents[Climbed(s, n)] = Climbed(s, n)
      /\ StructureAcyclic(s)
  BY DEF Valid, TablesSized, ParentsValid
<1>2. PICK size, ids, ps :
        size \in Nat /\ size = Len(s.kinds) /\ ids = Ids(s) /\ ps = s.parents
  BY <1>1
<1>3. ps \in [ids -> ids]
  <2>1. ps \in [1..size -> Nat] /\ ids = 1..size
    BY <1>1, <1>2 DEF Ids
  <2> QED
    BY <2>1, <1>1, <1>2
<1>4. ASSUME NEW n \in ids PROVE Edges(s, n) \in SUBSET ids
  <2>1. RowValid(s, n)
    BY <1>1, <1>2
  <2> QED
    BY <2>1, <1>2 DEF RowValid, Edges, FieldSpanValid
<1>5. IsGraph(ids, ps, Below(s))
  BY <1>2, <1>3, <1>4 DEF IsGraph, Below
<1>6. PICK depth \in [ids -> 0..size] : \A n \in ids :
        /\ ps[n] = n => Climbed(s, n) = n
        /\ ps[n] # n => depth[ps[n]] < depth[n] /\ Climbed(s, ps[n]) = Climbed(s, n)
  <2>1. s.parents \in [Ids(s) -> Ids(s)]
    BY <1>2, <1>3
  <2>2. PICK d \in [Ids(s) -> 0..Len(s.kinds)] : \A n \in Ids(s) :
          /\ s.parents[n] = n => Climbed(s, n) = n
          /\ s.parents[n] # n => /\ d[s.parents[n]] < d[n]
                                 /\ Climbed(s, s.parents[n]) = Climbed(s, n)
    BY ONLY <2>1, <1>1, ClimbDepth
  <2> QED
    BY <2>2, <1>2
<1>7. PICK finished \in [0..size -> SUBSET ids] :
        /\ finished[0] = {}
        /\ \A k \in 0..(size - 1) : finished[k + 1] = Finishing(s, finished[k])
        /\ StructureAcyclic(s) <=> finished[size] = ids
  BY <1>2, FinishRounds
<1>8. \A n \in ids : Climbed(s, n) \in ids
  <2>1. SUFFICES ASSUME NEW n \in ids PROVE Climbed(s, n) \in ids
    OBVIOUS
  <2>2. PICK climb \in [0..size -> ids] : Climbed(s, n) = climb[size]
    BY <1>2, <1>3, ClimbSteps
  <2> QED
    BY <2>2, <1>2
<1> DEFINE Least(n, k) == /\ k \in 0..size /\ Climbed(s, n) \in finished[k]
                          /\ \A j \in 0..size : Climbed(s, n) \in finished[j] => k <= j
           level == [n \in ids |-> CHOOSE k : Least(n, k)]
<1>9. ASSUME NEW n \in ids PROVE Least(n, level[n])
  <2> DEFINE rounds == {k \in 0..size : Climbed(s, n) \in finished[k]}
  <2>1. size \in rounds /\ rounds \in SUBSET Nat
    BY <1>1, <1>2, <1>7, <1>8
  <2>2. PICK k \in rounds : \A j \in rounds : k <= j
    BY <2>1, LeastNatural
  <2>3. Least(n, k)
    BY <2>2
  <2> HIDE DEF Least
  <2> QED
    BY <2>3
<1>10. \A m, n \in ids : Climbed(s, m) = Climbed(s, n) => level[m] = level[n]
  OBVIOUS
<1> HIDE DEF level
<1>11. \A n \in ids : /\ level[n] \in 0..size /\ Climbed(s, n) \in finished[level[n]]
                      /\ \A j \in 0..size : Climbed(s, n) \in finished[j] => level[n] <= j
  BY <1>9
<1>12. ASSUME NEW n \in ids, ps[n] = n, NEW c \in Edges(s, n)
       PROVE  c \in ids /\ level[c] < level[n]
  <2>1. c \in ids /\ Climbed(s, n) = n
    BY <1>4, <1>6, <1>12
  <2>2. level[n] # 0 /\ level[n] \in 0..size /\ n \in finished[level[n]]
    BY <2>1, <1>7, <1>11
  <2>3. PICK k \in 0..(size - 1) : level[n] = k + 1
    <3>1. level[n] - 1 \in 0..(size - 1) /\ level[n] = level[n] - 1 + 1
      BY <2>2, <1>2
    <3> QED
      BY <3>1
  <2>4. n \in Finishing(s, finished[k])
    BY <2>2, <2>3, <1>7
  <2>5. Climbed(s, c) \in finished[k]
    BY <2>1, <2>4, <1>12 DEF Finishing
  <2>6. level[c] <= k /\ level[c] \in 0..size
    <3>1. k \in 0..size
      BY <1>2
    <3> QED
      BY <3>1, <2>1, <2>5, <1>11
  <2> QED
    BY <2>1, <2>3, <2>6, <1>2
<1> DEFINE rank == [n \in ids |-> level[n] * (size + 1) + depth[n]]
<1>13. rank \in [ids -> Nat]
  <2>1. \A n \in ids : level[n] \in Nat /\ depth[n] \in Nat
    BY <1>2, <1>6, <1>11
  <2>2. \A a, b \in Nat : a * (size + 1) + b \in Nat
    BY <1>2
  <2> QED
    BY <2>1, <2>2
<1>14. Decreases(ids, ps, rank)
  <2>1. SUFFICES ASSUME NEW n \in ids, ps[n] # n PROVE rank[ps[n]] < rank[n]
    BY DEF Decreases
  <2>2. PICK p \in ids : p = ps[n]
    BY <1>3
  <2>3. depth[p] < depth[n] /\ level[p] = level[n]
    BY <2>1, <2>2, <1>6, <1>10
  <2>4. PICK base : base = level[n] * (size + 1)
    OBVIOUS
  <2>5. base \in Nat /\ depth[p] \in Nat /\ depth[n] \in Nat
    BY <2>4, <1>2, <1>6, <1>11
  <2>6. rank[p] = base + depth[p] /\ rank[n] = base + depth[n]
    BY <2>3, <2>4
  <2> HIDE DEF rank
  <2> QED
    BY <2>2, <2>3, <2>5, <2>6
<1>15. ASSUME NEW n \in ids, ps[n] = n, NEW c \in Below(s)[n]
       PROVE  rank[c] < rank[n]
  <2>1. c \in Edges(s, n)
    BY <1>2, <1>15 DEF Below
  <2>2. c \in ids /\ level[c] < level[n]
    BY <2>1, <1>12, <1>15
  <2>3. level[c] \in Nat /\ level[n] \in Nat /\ depth[c] \in 0..size /\ depth[n] \in 0..size
    BY <2>2, <1>2, <1>6, <1>11
  <2> QED
    BY <2>2, <2>3, <1>2, Blocks
<1> HIDE DEF rank
<1>16. Layered(ids, ps, Below(s), rank)
  BY <1>13, <1>14, <1>15 DEF Layered
<1> QED
  BY <1>2, <1>5, <1>16

-----------------------------------------------------------------------------
(* The occurs check                                                        *)

\* What the search below needs of the arena.
Searchable ==
  /\ IsFiniteSet(Nodes)
  /\ \A n \in Nodes : Find(n) \in Nodes /\ parents[Find(n)] = Find(n)
  /\ \A n \in Nodes : kinds[n] = "Union" => left[n] \in Nodes /\ right[n] \in Nodes
  /\ \A n \in Nodes : \E size \in Nat : DOMAIN Children(n) = 1..size
  /\ \A n \in Nodes : \A i \in DOMAIN Children(n) : Children(n)[i] \in Nodes

\* Every child of n leads to a member of S.
Covered(n, S) == \A j \in DOMAIN Children(n) : Find(Children(n)[j]) \in S

\* Marked nodes whose children are not marked yet are on the stack, or are the
\* node whose children are looked at.
Searching(variable, target, s) ==
  /\ s \in Searches
  /\ target \in s.marked /\ s.node \in s.marked /\ variable \notin s.marked
  /\ \A m \in s.marked : parents[m] = m
  /\ \A i \in 1..Len(s.todo) : s.todo[i] \in s.marked
  /\ \A m \in s.marked \ {s.node} :
       Covered(m, s.marked) \/ \E i \in 1..Len(s.todo) : s.todo[i] = m
  /\ \A j \in DOMAIN Children(s.node) :
       j < s.child => Find(Children(s.node)[j]) \in s.marked

LEMMA PastChildTyped ==
  ASSUME Searchable, NEW s \in Searches, AtChild(s)
  PROVE  /\ PastChild(s) \in Searches
         /\ ChildRoot(s) \in Nodes /\ parents[ChildRoot(s)] = ChildRoot(s)
<1>1. /\ s.todo \in Seq(Nodes) /\ s.node \in Nodes /\ s.child \in Nat \ {0}
      /\ s.marked \in SUBSET Nodes /\ s.found \in SUBSET Nodes
  BY DEF Searches
<1>2. PICK root : root = ChildRoot(s)
  OBVIOUS
<1>3. Children(s.node)[s.child] \in Nodes /\ root \in Nodes /\ parents[root] = root
  BY <1>1, <1>2 DEF Searchable, ChildRoot, AtChild
<1>4. Looked(s) \in SUBSET Nodes
  BY <1>1, <1>3 DEF Looked, Searchable
<1>5. PICK todo : todo = IF root \in s.marked THEN s.todo ELSE Append(s.todo, root)
  OBVIOUS
<1>6. todo \in Seq(Nodes)
  BY <1>1, <1>3, <1>5
<1>7. PICK t : t = PastChild(s)
  OBVIOUS
<1>8. /\ t.todo = todo /\ t.node = s.node /\ t.child = s.child + 1
      /\ t.marked = s.marked \cup {root} /\ t.found = Looked(s) /\ DOMAIN t = DOMAIN s
  BY <1>2, <1>5, <1>7 DEF PastChild, Searches
<1>9. t = [todo |-> todo, node |-> s.node, child |-> s.child + 1,
           marked |-> s.marked \cup {root}, found |-> Looked(s)]
  BY <1>7, <1>8 DEF PastChild, Searches
<1>10. s.child + 1 \in Nat \ {0} /\ s.marked \cup {root} \in SUBSET Nodes
  BY <1>1, <1>3
<1> QED
  BY <1>1, <1>2, <1>3, <1>4, <1>6, <1>7, <1>9, <1>10 DEF Searches

LEMMA PopNodeTyped ==
  ASSUME NEW s \in Searches, s.todo # <<>>
  PROVE  PopNode(s) \in Searches
<1>1. /\ s.todo \in Seq(Nodes) /\ s.node \in Nodes /\ s.child \in Nat \ {0}
      /\ s.marked \in SUBSET Nodes /\ s.found \in SUBSET Nodes
  BY DEF Searches
<1>2. PICK todo, node : /\ todo = SubSeq(s.todo, 1, Len(s.todo) - 1)
                        /\ node = s.todo[Len(s.todo)]
  OBVIOUS
<1>3. todo \in Seq(Nodes) /\ node \in Nodes
  BY <1>1, <1>2
<1>4. PICK t : t = PopNode(s)
  OBVIOUS
<1>5. /\ t.todo = todo /\ t.node = node /\ t.child = 1
      /\ t.marked = s.marked /\ t.found = s.found /\ DOMAIN t = DOMAIN s
  BY <1>2, <1>4 DEF PopNode, Searches
<1>6. t = [todo |-> todo, node |-> node, child |-> 1, marked |-> s.marked, found |-> s.found]
  BY <1>4, <1>5 DEF PopNode, Searches
<1> QED
  BY <1>1, <1>3, <1>4, <1>6 DEF Searches

LEMMA PastChildSearches ==
  ASSUME Searchable, NEW variable, NEW target, NEW s, Searching(variable, target, s),
         AtChild(s), ChildRoot(s) # variable, NEW t, t = PastChild(s)
  PROVE  /\ Searching(variable, target, t)
         /\ t.node = s.node /\ t.child = s.child + 1
         /\ t.marked = s.marked \cup {ChildRoot(s)}
         /\ ChildRoot(s) \in s.marked => t.todo = s.todo
<1>1. s \in Searches
  BY DEF Searching
<1>2. /\ s.todo \in Seq(Nodes) /\ s.node \in Nodes /\ s.child \in Nat \ {0}
      /\ s.marked \in SUBSET Nodes /\ s.found \in SUBSET Nodes
  BY <1>1 DEF Searches
<1>3. PICK root : root = ChildRoot(s)
  OBVIOUS
<1>4. root \in Nodes /\ parents[root] = root /\ root = Find(Children(s.node)[s.child])
  BY <1>1, <1>3, PastChildTyped DEF ChildRoot
<1>5. PICK todo : todo = IF root \in s.marked THEN s.todo ELSE Append(s.todo, root)
  OBVIOUS
<1>6. /\ todo \in Seq(Nodes)
      /\ root \in s.marked => todo = s.todo
      /\ root \notin s.marked => /\ Len(todo) = Len(s.todo) + 1 /\ todo[Len(todo)] = root
                                 /\ \A i \in 1..Len(s.todo) : todo[i] = s.todo[i]
  BY <1>2, <1>4, <1>5
<1>7. /\ t.todo = todo /\ t.node = s.node /\ t.child = s.child + 1
      /\ t.marked = s.marked \cup {root} /\ t.found = Looked(s)
      /\ DOMAIN t = DOMAIN s
  BY <1>1, <1>3, <1>5 DEF PastChild, Searches
<1>8. t \in Searches
  BY <1>1, PastChildTyped
<1>9. Len(s.todo) \in Nat /\ Len(todo) \in Nat
  BY <1>2, <1>6
<1>10. \A i \in 1..Len(todo) : todo[i] \in t.marked
  <2>1. SUFFICES ASSUME NEW i \in 1..Len(todo) PROVE todo[i] \in t.marked
    OBVIOUS
  <2>2. \A j \in 1..Len(s.todo) : s.todo[j] \in s.marked
    BY DEF Searching
  <2>3. CASE root \in s.marked
    BY <2>2, <2>3, <1>6, <1>7
  <2>4. CASE root \notin s.marked
    <3>1. i = Len(todo) \/ i \in 1..Len(s.todo)
      BY <2>4, <1>6, <1>9
    <3> QED
      BY <3>1, <2>2, <2>4, <1>6, <1>7
  <2> QED
    BY <2>3, <2>4
<1>11. ASSUME NEW m \in t.marked \ {t.node}
       PROVE  Covered(m, t.marked) \/ \E i \in 1..Len(todo) : todo[i] = m
  <2>1. CASE m \in s.marked
    <3>1. Covered(m, s.marked) \/ \E i \in 1..Len(s.todo) : s.todo[i] = m
      BY <2>1, <1>7, <1>11 DEF Searching
    <3>2. \A i \in 1..Len(s.todo) : i \in 1..Len(todo) /\ todo[i] = s.todo[i]
      BY <1>6, <1>9
    <3>3. Covered(m, s.marked) => Covered(m, t.marked)
      BY <1>7 DEF Covered
    <3> QED
      BY <3>1, <3>2, <3>3
  <2>2. CASE m \notin s.marked
    <3>1. m = root /\ Len(todo) \in 1..Len(todo)
      BY <2>2, <1>6, <1>7, <1>9, <1>11
    <3> QED
      BY <3>1, <2>2, <1>6
  <2> QED
    BY <2>1, <2>2
<1>12. \A j \in DOMAIN Children(t.node) : j < t.child => Find(Children(t.node)[j]) \in t.marked
  <2>1. SUFFICES ASSUME NEW j \in DOMAIN Children(s.node), j < s.child + 1
                 PROVE  Find(Children(s.node)[j]) \in t.marked
    BY <1>7
  <2>2. j \in Nat
    <3>1. PICK size \in Nat : DOMAIN Children(s.node) = 1..size
      BY <1>2 DEF Searchable
    <3> QED
      BY <3>1
  <2>3. j = s.child \/ j < s.child
    BY <2>1, <2>2, <1>2
  <2> QED
    BY <2>3, <1>4, <1>7 DEF Searching
<1>13. \A m \in t.marked : parents[m] = m
  BY <1>4, <1>7 DEF Searching
<1>14. target \in t.marked /\ t.node \in t.marked /\ variable \notin t.marked
  BY <1>3, <1>7 DEF Searching
<1>15. Searching(variable, target, t)
  BY <1>7, <1>8, <1>10, <1>11, <1>12, <1>13, <1>14 DEF Searching
<1> QED
  BY <1>3, <1>6, <1>7, <1>15

LEMMA PopNodeSearches ==
  ASSUME Searchable, NEW variable, NEW target, NEW s, Searching(variable, target, s),
         ~AtChild(s), s.todo # <<>>, NEW t, t = PopNode(s)
  PROVE  /\ Searching(variable, target, t)
         /\ t.marked = s.marked /\ Len(t.todo) = Len(s.todo) - 1
<1>1. s \in Searches
  BY DEF Searching
<1>2. /\ s.todo \in Seq(Nodes) /\ s.node \in Nodes /\ s.child \in Nat \ {0}
      /\ s.marked \in SUBSET Nodes /\ s.found \in SUBSET Nodes
  BY <1>1 DEF Searches
<1>3. PICK size \in Nat : size = Len(s.todo) /\ size >= 1
  BY <1>2
<1>4. PICK todo : todo = SubSeq(s.todo, 1, size - 1)
  OBVIOUS
<1>5. /\ todo \in Seq(Nodes) /\ Len(todo) = size - 1
      /\ \A i \in 1..(size - 1) : todo[i] = s.todo[i]
      /\ s.todo[size] \in Nodes
  BY <1>2, <1>3, <1>4
<1>6. /\ t.todo = todo /\ t.node = s.todo[size] /\ t.child = 1
      /\ t.marked = s.marked /\ t.found = s.found
  BY <1>1, <1>3, <1>4 DEF PopNode, Searches
<1>7. t \in Searches
  BY <1>1, PopNodeTyped
<1>8. t.node \in t.marked /\ \A i \in 1..Len(todo) : todo[i] \in t.marked
  BY <1>3, <1>5, <1>6 DEF Searching
<1>9. Covered(s.node, s.marked)
  <2>1. PICK count \in Nat : DOMAIN Children(s.node) = 1..count
    BY <1>2 DEF Searchable
  <2>2. \A j \in DOMAIN Children(s.node) : j < s.child
    BY <2>1, <1>2 DEF AtChild
  <2> QED
    BY <2>2 DEF Covered, Searching
<1>10. ASSUME NEW m \in t.marked \ {t.node}
       PROVE  Covered(m, t.marked) \/ \E i \in 1..Len(todo) : todo[i] = m
  <2>1. CASE m = s.node
    BY <2>1, <1>6, <1>9
  <2>2. CASE m # s.node
    <3>1. Covered(m, s.marked) \/ \E i \in 1..Len(s.todo) : s.todo[i] = m
      BY <2>2, <1>6, <1>10 DEF Searching
    <3>2. ASSUME NEW i \in 1..Len(s.todo), s.todo[i] = m
          PROVE  i \in 1..Len(todo) /\ todo[i] = m
      <4>1. i # size
        BY <3>2, <1>6, <1>10
      <4> QED
        BY <4>1, <3>2, <1>3, <1>5
    <3> QED
      BY <3>1, <3>2, <1>6
  <2> QED
    BY <2>1, <2>2
<1>11. \A j \in DOMAIN Children(t.node) : j < t.child => Find(Children(t.node)[j]) \in t.marked
  <2>1. t.node \in Nodes
    BY <1>5, <1>6
  <2>2. PICK count \in Nat : DOMAIN Children(t.node) = 1..count
    BY <2>1 DEF Searchable
  <2> QED
    BY <2>2, <1>6
<1>12. /\ target \in t.marked /\ variable \notin t.marked
       /\ \A m \in t.marked : parents[m] = m
  BY <1>6 DEF Searching
<1>13. Searching(variable, target, t)
  BY <1>6, <1>7, <1>8, <1>10, <1>11, <1>12 DEF Searching
<1> QED
  BY <1>3, <1>5, <1>6, <1>13

\* When the search ends without the variable, the marked nodes are closed.
LEMMA OccursCloses ==
  ASSUME Searchable, NEW variable, NEW target \in Nodes, parents[target] = target,
         ~Occurs(variable, target).occurs
  PROVE  \E S \in SUBSET Nodes :
           /\ target \in S /\ variable \notin S
           /\ \A m \in S : parents[m] = m /\ Covered(m, S)
<1> DEFINE Hit(s) == AtChild(s) /\ ChildRoot(s) = variable
           Over(s) == ~AtChild(s) /\ s.todo = <<>>
           Result(s) == IF Hit(s) THEN [occurs |-> TRUE, looked |-> Looked(s)]
                        ELSE [occurs |-> FALSE, looked |-> s.found]
           After(s) == IF AtChild(s) THEN PastChild(s) ELSE PopNode(s)
           F(f) == [s \in Searches |->
                      IF Hit(s) THEN [occurs |-> TRUE, looked |-> Looked(s)]
                      ELSE IF Over(s) THEN [occurs |-> FALSE, looked |-> s.found]
                      ELSE f[After(s)]]
           search == CHOOSE f : f = F(f)
           start == [todo |-> <<>>, node |-> target, child |-> 1,
                     marked |-> {target}, found |-> {}]
<1>1. target # variable /\ ~search[start].occurs
  BY DEF Occurs
<1>2. ASSUME NEW s \in Searches, ~Hit(s), ~Over(s) PROVE After(s) \in Searches
  BY <1>2, PastChildTyped, PopNodeTyped
<1> HIDE DEF Hit, Over, After
<1>3. search = F(search)
  <2> DEFINE Done == {s \in Searches : Hit(s) \/ Over(s)}
             val == [s \in Searches |-> Result(s)]
             V == {val[s] : s \in Searches}
             step == [s \in Searches |-> IF s \in Done THEN s ELSE After(s)]
  <2>1. step \in [Searches -> Searches] /\ Done \in SUBSET Searches
    BY <1>2
  <2>2. val \in [Searches -> V]
    <3> HIDE DEF Result
    <3> QED
      OBVIOUS
  <2>3. \A s \in Searches :
          /\ s \in Done <=> Hit(s) \/ Over(s)
          /\ val[s] = Result(s)
          /\ s \notin Done => step[s] = After(s)
    <3> HIDE DEF Result
    <3> QED
      OBVIOUS
  <2> HIDE DEF Done, val, V, step, Result
  <2>4. PICK f : Repeats(Searches, V, step, Done, val, f)
    BY <2>1, <2>2, TailRecursion
  <2>5. f \in [Searches -> V]
        /\ \A s \in Searches : f[s] = IF Hit(s) \/ Over(s) THEN Result(s) ELSE f[After(s)]
    BY <2>3, <2>4 DEF Repeats
  <2>6. f = F(f)
    BY <2>5 DEF Result
  <2> HIDE DEF F
  <2> QED
    BY <2>6
<1> HIDE DEF search
<1>4. \A s \in Searches : search[s] = IF Hit(s) THEN [occurs |-> TRUE, looked |-> Looked(s)]
                                      ELSE IF Over(s) THEN [occurs |-> FALSE, looked |-> s.found]
                                      ELSE search[After(s)]
  BY <1>3
<1> DEFINE Lost == {s \in Searches : Searching(variable, target, s) /\ ~search[s].occurs}
<1>5. start \in Lost
  <2>1. start \in Searches
    <3>1. <<>> \in Seq(Nodes) /\ {target} \in SUBSET Nodes
      OBVIOUS
    <3> QED
      BY <3>1 DEF Searches
  <2>2. \A j \in DOMAIN Children(target) : ~(j < 1)
    <3>1. PICK count \in Nat : DOMAIN Children(target) = 1..count
      BY DEF Searchable
    <3> QED
      BY <3>1
  <2>3. Searching(variable, target, start)
    BY <2>1, <2>2, <1>1 DEF Searching
  <2> QED
    BY <2>1, <2>3, <1>1
<1> DEFINE size == [n \in Nodes |-> CHOOSE k \in Nat : DOMAIN Children(n) = 1..k]
           unmarked == [s \in Lost |-> Cardinality(Nodes \ s.marked)]
           waiting == [s \in Lost |-> Len(s.todo)]
           ahead == [s \in Lost |-> IF AtChild(s) THEN size[s.node] + 1 - s.child ELSE 0]
<1>6. \A n \in Nodes : size[n] \in Nat /\ DOMAIN Children(n) = 1..size[n]
  BY DEF Searchable
<1> HIDE DEF size
<1>7. \A s \in Lost : /\ s \in Searches /\ Searching(variable, target, s)
                      /\ s.node \in Nodes /\ s.child \in Nat /\ s.todo \in Seq(Nodes)
                      /\ AtChild(s) <=> s.child \in 1..size[s.node]
  BY <1>6 DEF Searches, AtChild
<1>8. /\ unmarked \in [Lost -> Nat] /\ waiting \in [Lost -> Nat] /\ ahead \in [Lost -> Nat]
  <2>1. \A s \in Lost : Cardinality(Nodes \ s.marked) \in Nat
    <3>1. \A s \in Lost : IsFiniteSet(Nodes \ s.marked)
      BY FS_Difference DEF Searchable
    <3> HIDE DEF Lost
    <3> QED
      BY <3>1, FS_CardinalityType
  <2>2. \A s \in Lost : (IF AtChild(s) THEN size[s.node] + 1 - s.child ELSE 0) \in Nat
    BY <1>6, <1>7
  <2> HIDE DEF Lost
  <2> QED
    BY <2>1, <2>2, <1>7
<1> HIDE DEF Lost
<1>9. PICK s \in Lost : \A t \in Lost : unmarked[s] <= unmarked[t]
                                        /\ Above(unmarked, waiting, ahead, s, t)
  <2> HIDE DEF unmarked, waiting, ahead
  <2> QED
    BY <1>5, <1>8, LeastOfThree
<1>10. s \in Searches /\ Searching(variable, target, s) /\ ~search[s].occurs
  BY <1>9 DEF Lost
<1>11. ~Hit(s)
  <2>1. SUFFICES ASSUME Hit(s) PROVE FALSE
    OBVIOUS
  <2>2. search[s] = [occurs |-> TRUE, looked |-> Looked(s)]
    BY <2>1, <1>4, <1>10
  <2>3. search[s].occurs
    BY <2>2
  <2> QED
    BY <2>3, <1>10
<1>12. CASE ~Over(s)
  <2>1. PICK t \in Searches : t = After(s)
    BY <1>2, <1>10, <1>11, <1>12
  <2>2. ~search[t].occurs
    BY <2>1, <1>4, <1>10, <1>11, <1>12
  <2>3. CASE AtChild(s)
    <3>1. t = PastChild(s) /\ ChildRoot(s) # variable
      BY <2>1, <2>3, <1>11 DEF After, Hit
    <3>2. /\ Searching(variable, target, t)
          /\ t.node = s.node /\ t.child = s.child + 1
          /\ t.marked = s.marked \cup {ChildRoot(s)}
          /\ ChildRoot(s) \in s.marked => t.todo = s.todo
      BY <3>1, <2>3, <1>10, PastChildSearches
    <3>3. t \in Lost
      BY <2>1, <2>2, <3>2 DEF Lost
    <3>4. CASE ChildRoot(s) \in s.marked
      <4>1. t.marked = s.marked /\ t.todo = s.todo
        BY <3>2, <3>4
      <4>2. unmarked[t] = unmarked[s] /\ waiting[t] = waiting[s]
        BY <3>3, <4>1
      <4>3. ahead[s] <= ahead[t]
        <5> HIDE DEF unmarked, waiting, ahead
        <5> QED
          BY <3>3, <4>2, <1>8, <1>9 DEF Above
      <4>4. ahead[s] = size[s.node] + 1 - s.child
        BY <2>3
      <4>5. ahead[t] = IF AtChild(t) THEN size[s.node] + 1 - (s.child + 1) ELSE 0
        BY <3>2, <3>3
      <4>6. size[s.node] \in Nat /\ s.child \in 1..size[s.node]
        BY <2>3, <1>6, <1>7
      <4> QED
        BY <4>3, <4>4, <4>5, <4>6
    <3>5. CASE ChildRoot(s) \notin s.marked
      <4>1. ChildRoot(s) \in Nodes
        BY <2>3, <1>7 DEF Searchable, ChildRoot, AtChild
      <4>2. PICK before, after : before = Nodes \ s.marked /\ after = Nodes \ t.marked
        OBVIOUS
      <4>3. after \subseteq before /\ after # before /\ IsFiniteSet(before)
        BY <3>2, <3>5, <4>1, <4>2, FS_Difference DEF Searchable
      <4>4. Cardinality(after) < Cardinality(before)
        BY <4>3, FS_Subset, FS_CardinalityType
      <4>5. unmarked[t] < unmarked[s]
        BY <3>3, <4>2, <4>4
      <4> HIDE DEF unmarked, waiting, ahead
      <4> QED
        BY <3>3, <4>5, <1>8, <1>9
    <3> QED
      BY <3>4, <3>5
  <2>4. CASE ~AtChild(s)
    <3>1. t = PopNode(s) /\ s.todo # <<>>
      BY <2>1, <2>4, <1>12 DEF After, Over
    <3>2. /\ Searching(variable, target, t)
          /\ t.marked = s.marked /\ Len(t.todo) = Len(s.todo) - 1
      BY <3>1, <2>4, <1>10, PopNodeSearches
    <3>3. t \in Lost
      BY <2>1, <2>2, <3>2 DEF Lost
    <3>4. unmarked[t] = unmarked[s] /\ waiting[t] = waiting[s] - 1
      BY <3>2, <3>3
    <3> HIDE DEF unmarked, waiting, ahead
    <3>5. waiting[s] \in Nat /\ waiting[s] <= waiting[t]
      BY <3>3, <3>4, <1>8, <1>9 DEF Above
    <3> QED
      BY <3>4, <3>5
  <2> QED
    BY <2>3, <2>4
<1>13. CASE Over(s)
  <2>1. ~AtChild(s) /\ s.todo = <<>>
    BY <1>13 DEF Over
  <2>2. \A m \in s.marked \ {s.node} : Covered(m, s.marked)
    BY <2>1, <1>10 DEF Searching
  <2>3. Covered(s.node, s.marked)
    <3>1. \A j \in DOMAIN Children(s.node) : j < s.child
      <4>1. DOMAIN Children(s.node) = 1..size[s.node] /\ s.child \in Nat
            /\ s.child \notin 1..size[s.node] /\ s.child # 0 /\ size[s.node] \in Nat
        BY <2>1, <1>6, <1>7, <1>10 DEF Searches
      <4> QED
        BY <4>1
    <3> QED
      BY <3>1, <1>10 DEF Covered, Searching
  <2>4. s.marked \in SUBSET Nodes
    BY <1>10 DEF Searches
  <2>5. target \in s.marked /\ variable \notin s.marked /\ \A m \in s.marked : parents[m] = m
    BY <1>10 DEF Searching
  <2>6. \A m \in s.marked : parents[m] = m /\ Covered(m, s.marked)
    BY <2>2, <2>3, <2>5
  <2> QED
    BY <2>4, <2>5, <2>6
<1> QED
  BY <1>12, <1>13

-----------------------------------------------------------------------------
(* The inductive invariant                                                 *)

\* No loaded snapshot has a scalar besides those every arena starts with.
OnlyCanonicalScalars ==
  \A s \in Snapshots : \A n \in Ids(s) : s.kinds[n] \in ScalarKinds => n <= Len(Canonical)

SizesInv ==
  /\ \A table \in {parents, ranks, left, right} :
       table \in Seq(Nat) /\ Len(table) = Len(kinds)
  /\ fieldKeys \in Seq(Key)
  /\ fieldTypes \in Seq(Nat) /\ Len(fieldTypes) = FieldLength
  /\ fieldPresence \in Seq(Presence) /\ Len(fieldPresence) = FieldLength
  /\ \A i \in 1..FieldLength : fieldTypes[i] \in Nodes

PrefixInv ==
  /\ Len(kinds) >= Len(Canonical)
  /\ \A n \in DOMAIN Canonical : kinds[n] = Canonical[n] /\ parents[n] = n
  /\ \A n \in Nodes : kinds[n] \in ScalarKinds => n <= Len(Canonical)

RowShape(n) ==
  /\ kinds[n] \in LeafKinds \cup {"Var", "Object"} => left[n] = NoNode
  /\ kinds[n] = "Array" => left[n] \in Nodes
  /\ IF kinds[n] = "Union"
       THEN left[n] \in Nodes \ {n} /\ right[n] \in Nodes \ {n} /\ left[n] # right[n]
       ELSE right[n] = NoNode
  /\ kinds[n] # "Object" => fieldStarts[n] = 0

Ascending(n) ==
  \A i, j \in 1..fieldCounts[n] : i < j => ListOf(n)[i].key < ListOf(n)[j].key

RowsInv == \A n \in Nodes : RowShape(n) /\ Ascending(n)

\* The parents are a forest, and no representative is below itself.
LayersInv ==
  /\ IsGraph(Nodes, parents, Below(Tables))
  /\ \E rank : Layered(Nodes, parents, Below(Tables), rank)

TreeInv == SizesInv /\ PrefixInv /\ RowsInv /\ LayersInv

\* No node refers to o: an object that is still being filled.
Hidden(o) ==
  /\ o \in Nodes /\ parents[o] = o
  /\ \A n \in Nodes \ {o} : parents[n] # o
  /\ \A n \in Nodes : left[n] # o /\ right[n] # o
  /\ \A i \in 1..FieldLength : fieldTypes[i] # o

\* Nor does the join that is running below it.
Unseen(o) == Hidden(o) /\ answer # o /\ (call # NoCall => call[1] # o /\ call[2] # o)

\* The fields a merge has yet to read are in the table.
Readable(f) ==
  f.l >= 1 /\ f.lEnd <= FieldLength + 1 /\ f.r >= 1 /\ f.rEnd <= FieldLength + 1

HiddenInv ==
  /\ building # NoNode => Hidden(building)
  /\ \A i \in Open : Unseen(frames[i].out) /\ Readable(frames[i])

ControlInv ==
  /\ building \in Nodes \cup {NoNode} /\ answer \in Nodes \cup {NoNode}
  /\ call \in (Nodes \X Nodes) \cup {NoCall} /\ args \in (Nodes \X Nodes) \cup {NoCall}
  /\ frames \in Seq(FrameType)
  /\ joins \in 0..MaxJoins
  /\ NoJoin => args = NoCall
  /\ Len(kinds) <= MaxNodes /\ FieldLength <= MaxFields

ForestInv == Inv /\ TreeInv /\ HiddenInv /\ ControlInv

-----------------------------------------------------------------------------
(* Facts about a state of the tables                                       *)

\* The canonical nodes are leaves, each scalar kind at one of them.
LEMMA CanonicalKinds ==
  /\ \A n \in DOMAIN Canonical : Canonical[n] \in LeafKinds /\ Canonical[n] # "Var"
  /\ \A m, n \in DOMAIN Canonical :
       Canonical[m] = Canonical[n] /\ Canonical[m] \in ScalarKinds => m = n
<1> DEFINE Names == {"Null", "Undefined", "Boolean", "Number", "String",
                     "BigInt", "Symbol"}
           first == <<"Never", "Unknown">>
<1>1. Scalars \in Seq(Names) /\ Len(Scalars) \in Nat
  BY ScalarsAssumption
<1>2. \A i \in 1..Len(Scalars) : Scalars[i] \in Names /\ Scalars[i] \in ScalarKinds
  BY <1>1 DEF ScalarKinds
<1>3. first \in Seq(Kinds) /\ Len(first) = 2 /\ Scalars \in Seq(Kinds)
  <2>1. Scalars \in [1..Len(Scalars) -> Kinds]
    BY <1>1, <1>2 DEF Kinds, LeafKinds
  <2>2. Scalars \in Seq(Kinds)
    BY <1>1, <2>1
  <2> QED
    BY <2>2 DEF Kinds, LeafKinds
<1>4. DOMAIN Canonical = 1..(2 + Len(Scalars))
      /\ \A n \in 1..(2 + Len(Scalars)) :
           Canonical[n] = IF n <= 2 THEN first[n] ELSE Scalars[n - 2]
  <2>1. <<"Never", "Unknown">> \in Seq(Kinds) /\ Scalars \in Seq(Kinds)
    BY <1>3
  <2>2. Canonical \in Seq(Kinds) /\ Len(Canonical) = 2 + Len(Scalars)
    BY <2>1, ConcatProperties DEF Canonical
  <2>3. Canonical = first \o Scalars
    BY DEF Canonical
  <2> HIDE DEF first
  <2>4. ASSUME NEW n \in 1..(2 + Len(Scalars))
        PROVE  (first \o Scalars)[n] =
                 IF n <= Len(first) THEN first[n] ELSE Scalars[n - Len(first)]
    <3>1. first \in Seq(Kinds) /\ n \in 1..Len(first) + Len(Scalars)
      BY <1>3, <2>4
    <3> QED
      BY ONLY <1>3, <3>1, ConcatProperties
  <2> QED
    BY <2>2, <2>3, <2>4, <1>3
<1>5. ASSUME NEW n \in DOMAIN Canonical
      PROVE  \/ n \in {1, 2} /\ Canonical[n] \in {"Never", "Unknown"}
             \/ n - 2 \in DOMAIN Scalars /\ Canonical[n] = Scalars[n - 2]
                /\ Canonical[n] \in Names /\ Canonical[n] \in ScalarKinds
  <2>1. CASE n <= 2
    <3>1. n = 1 \/ n = 2
      BY <2>1, <1>1, <1>4
    <3> QED
      BY <3>1, <2>1, <1>4
  <2>2. CASE n > 2
    <3>1. n - 2 \in 1..Len(Scalars) /\ Canonical[n] = Scalars[n - 2]
      BY <2>2, <1>1, <1>4
    <3>2. n - 2 \in DOMAIN Scalars
      BY <3>1, <1>1
    <3> QED
      BY <3>1, <3>2, <1>2
  <2> QED
    BY <2>1, <2>2, <1>4, <1>1
<1>6. ScalarKinds \subseteq Names
  BY <1>1 DEF ScalarKinds
<1>7. ASSUME NEW m \in DOMAIN Canonical, NEW n \in DOMAIN Canonical,
             Canonical[m] = Canonical[n], Canonical[m] \in ScalarKinds
      PROVE  m = n
  <2>1. Canonical[m] \notin {"Never", "Unknown"}
    BY <1>6, <1>7
  <2>2. /\ m - 2 \in DOMAIN Scalars /\ n - 2 \in DOMAIN Scalars
        /\ Scalars[m - 2] = Scalars[n - 2]
    BY <2>1, <1>5, <1>7
  <2>3. m - 2 = n - 2
    BY <2>2, ScalarsAssumption
  <2> QED
    BY <2>3, <1>1, <1>4
<1>8. ASSUME NEW n \in DOMAIN Canonical
      PROVE  Canonical[n] \in LeafKinds /\ Canonical[n] # "Var"
  BY <1>5 DEF LeafKinds
<1> QED
  BY <1>7, <1>8

LEMMA IdsAreNodes == Ids(Tables) = Nodes
  BY DEF Ids, Tables, Nodes

LEMMA BelowIsEdges ==
  /\ Below(Tables) = [n \in Nodes |-> Edges(Tables, n)]
  /\ Below(Tables)' = [n \in Nodes' |-> Edges(Tables, n)']
  BY DEF Below, Ids, Tables, Nodes

LEMMA NodeFacts ==
  ASSUME TablesInv, SizesInv, RowsInv
  PROVE  /\ Len(kinds) \in Nat /\ FieldLength \in Nat /\ Nodes = 1..Len(kinds)
         /\ NoNode \notin Nodes /\ IsFiniteSet(Nodes)
         /\ \A n \in Nodes : kinds[n] \in Kinds
         /\ \A n \in Nodes : left[n] \in Nodes \cup {NoNode} /\ right[n] \in Nodes \cup {NoNode}
         /\ \A n \in Nodes : kinds[n] = "Array" => left[n] \in Nodes
         /\ \A n \in Nodes : kinds[n] = "Union" => left[n] \in Nodes /\ right[n] \in Nodes
         /\ \A n \in Nodes : ranks[n] \in Nat
<1>1. Len(kinds) \in Nat /\ FieldLength \in Nat /\ Nodes = 1..Len(kinds)
  BY TableFacts
<1>2. NoNode \notin Nodes /\ IsFiniteSet(Nodes)
  BY <1>1, UpToIsFinite DEF NoNode
<1>3. \A n \in Nodes : kinds[n] \in Kinds
  BY <1>1 DEF TablesInv
<1>4. \A n \in Nodes : RowShape(n)
  BY DEF RowsInv
<1>5. \A n \in Nodes : left[n] \in Nodes \cup {NoNode} /\ right[n] \in Nodes \cup {NoNode}
  <2>1. SUFFICES ASSUME NEW n \in Nodes
                 PROVE  left[n] \in Nodes \cup {NoNode} /\ right[n] \in Nodes \cup {NoNode}
    OBVIOUS
  <2>2. kinds[n] \in LeafKinds \cup {"Var", "Object"} \/ kinds[n] \in {"Array", "Union"}
    BY <1>3 DEF Kinds
  <2> QED
    BY <2>2, <1>4 DEF RowShape
<1>6. \A n \in Nodes : ranks[n] \in Nat
  <2>1. ranks \in Seq(Nat) /\ Len(ranks) = Len(kinds)
    BY DEF SizesInv
  <2> QED
    BY <2>1, <1>1
<1> QED
  BY <1>1, <1>2, <1>3, <1>4, <1>5, <1>6 DEF RowShape

LEMMA FindFacts ==
  ASSUME LayersInv
  PROVE  /\ parents \in [Nodes -> Nodes]
         /\ \A n \in Nodes : Find(n) \in Nodes /\ parents[Find(n)] = Find(n)
         /\ \A n \in Nodes : parents[n] = n => Find(n) = n
<1>1. PICK rank : Layered(Nodes, parents, Below(Tables), rank)
  BY DEF LayersInv
<1>2. parents \in [Nodes -> Nodes] /\ rank \in [Nodes -> Nat] /\ Decreases(Nodes, parents, rank)
  BY <1>1 DEF LayersInv, IsGraph, Layered
<1> QED
  BY <1>2, RootOfForest, FindIsRoot

LEMMA FindAvoids ==
  ASSUME LayersInv, NEW o, Hidden(o), NEW n \in Nodes, n # o
  PROVE  Find(n) # o
<1>1. PICK rank : Layered(Nodes, parents, Below(Tables), rank)
  BY DEF LayersInv
<1>2. parents \in [Nodes -> Nodes] /\ rank \in [Nodes -> Nat] /\ Decreases(Nodes, parents, rank)
  BY <1>1 DEF LayersInv, IsGraph, Layered
<1>3. \A m \in Nodes \ {o} : parents[m] # o
  BY DEF Hidden
<1> QED
  BY <1>2, <1>3, RootAvoids, FindIsRoot

LEMMA SpanTypes ==
  ASSUME TablesInv, SpansInv, SizesInv, NEW n \in Nodes, kinds[n] = "Object"
  PROVE  /\ \A i \in fieldStarts[n]..(fieldStarts[n] + fieldCounts[n] - 1) :
              i \in 1..FieldLength /\ fieldTypes[i] \in Nodes
         /\ Edges(Tables, n) = {fieldTypes[i] :
              i \in fieldStarts[n]..(fieldStarts[n] + fieldCounts[n] - 1)}
<1>1. /\ FieldLength \in Nat /\ fieldStarts[n] \in Nat /\ fieldCounts[n] \in Nat
      /\ fieldStarts[n] >= 1 /\ fieldStarts[n] + fieldCounts[n] <= FieldLength + 1
  BY TableFacts DEF SpansInv
<1>2. \A i \in fieldStarts[n]..(fieldStarts[n] + fieldCounts[n] - 1) : i \in 1..FieldLength
  BY <1>1
<1> QED
  BY <1>2 DEF SizesInv, Edges, Tables, Slots

LEMMA EdgesInNodes ==
  ASSUME TablesInv, SpansInv, SizesInv, RowsInv, NEW n \in Nodes
  PROVE  Edges(Tables, n) \in SUBSET Nodes
<1>1. CASE kinds[n] = "Object"
  BY <1>1, SpanTypes
<1>2. CASE kinds[n] # "Object"
  BY <1>2, NodeFacts DEF Edges, Tables
<1> QED
  BY <1>1, <1>2

\* Children lists the edges.
LEMMA ChildrenFacts ==
  ASSUME TablesInv, SpansInv, SizesInv, RowsInv, NEW n \in Nodes
  PROVE  /\ \E size \in Nat : DOMAIN Children(n) = 1..size
         /\ \A i \in DOMAIN Children(n) : Children(n)[i] \in Nodes
         /\ \A c \in Edges(Tables, n) : \E i \in DOMAIN Children(n) : Children(n)[i] = c
<1>1. CASE kinds[n] = "Array"
  <2>1. Children(n) = <<left[n]>> /\ Edges(Tables, n) = {left[n]} /\ left[n] \in Nodes
    BY <1>1, NodeFacts DEF Children, Edges, Tables
  <2>2. DOMAIN Children(n) = 1..1 /\ Children(n)[1] = left[n]
    BY <2>1
  <2> QED
    BY <2>1, <2>2
<1>2. CASE kinds[n] = "Union"
  <2>1. /\ Children(n) = <<left[n], right[n]>> /\ Edges(Tables, n) = {left[n], right[n]}
        /\ left[n] \in Nodes /\ right[n] \in Nodes
    BY <1>2, NodeFacts DEF Children, Edges, Tables
  <2>2. DOMAIN Children(n) = 1..2 /\ Children(n)[1] = left[n] /\ Children(n)[2] = right[n]
    BY <2>1
  <2> QED
    BY <2>1, <2>2
<1>3. CASE kinds[n] = "Object"
  <2>1. PICK start, count : start = fieldStarts[n] /\ count = fieldCounts[n]
    OBVIOUS
  <2>2. start \in Nat /\ count \in Nat
    BY <2>1, TableFacts
  <2>3. Children(n) = [i \in 1..count |-> fieldTypes[start + i - 1]]
    BY <1>3, <2>1 DEF Children
  <2>4. /\ \A i \in start..(start + count - 1) : fieldTypes[i] \in Nodes
        /\ Edges(Tables, n) = {fieldTypes[i] : i \in start..(start + count - 1)}
    BY <1>3, <2>1, SpanTypes
  <2>5. \A i \in 1..count : start + i - 1 \in start..(start + count - 1)
    BY <2>2
  <2>6. \A i \in start..(start + count - 1) :
          i - start + 1 \in 1..count /\ start + (i - start + 1) - 1 = i
    BY <2>2
  <2>7. /\ DOMAIN Children(n) = 1..count
        /\ \A i \in 1..count : Children(n)[i] = fieldTypes[start + i - 1]
    BY <2>3
  <2>8. \A i \in DOMAIN Children(n) : Children(n)[i] \in Nodes
    BY <2>4, <2>5, <2>7
  <2>9. ASSUME NEW c \in Edges(Tables, n)
        PROVE  \E i \in DOMAIN Children(n) : Children(n)[i] = c
    <3>1. PICK i \in start..(start + count - 1) : c = fieldTypes[i]
      BY <2>4
    <3>2. i - start + 1 \in 1..count /\ Children(n)[i - start + 1] = fieldTypes[i]
      BY <2>6, <2>7
    <3> QED
      BY <3>1, <3>2, <2>7
  <2> QED
    BY <2>2, <2>7, <2>8, <2>9
<1>4. CASE kinds[n] \notin {"Array", "Union", "Object"}
  <2>1. Children(n) = <<>> /\ Edges(Tables, n) = {}
    BY <1>4 DEF Children, Edges, Tables
  <2>2. DOMAIN Children(n) = 1..0
    BY <2>1
  <2> QED
    BY <2>1, <2>2
<1> QED
  BY <1>1, <1>2, <1>3, <1>4

LEMMA TreeSearchable ==
  ASSUME TablesInv, SpansInv, TreeInv
  PROVE  Searchable
  BY NodeFacts, FindFacts, ChildrenFacts DEF Searchable, TreeInv

-----------------------------------------------------------------------------
(* Steps that change no table but parents                                  *)

\* qs is parents after some nodes were moved directly below their representative.
Settles(qs) ==
  qs \in [Nodes -> Nodes] /\ \A n \in Nodes : qs[n] = parents[n] \/ qs[n] = Find(n)

LEMMA CompressedSettles ==
  ASSUME LayersInv
  PROVE  Settles(parents) /\ \A S : Settles(Compressed(S))
<1>1. \A n \in Nodes : Find(n) \in Nodes
  BY FindFacts
<1>2. parents \in [Nodes -> Nodes]
  BY FindFacts
<1>3. ASSUME NEW S PROVE Settles(Compressed(S))
  BY <1>1, <1>2 DEF Settles, Compressed
<1> QED
  BY <1>2, <1>3 DEF Settles

LEMMA SettledLayers ==
  ASSUME LayersInv, NEW qs, Settles(qs)
  PROVE  /\ IsGraph(Nodes, qs, Below(Tables))
         /\ \E rank : Layered(Nodes, qs, Below(Tables), rank)
         /\ \A n \in Nodes : qs[n] = n <=> parents[n] = n
         /\ \A o : Hidden(o) => \A n \in Nodes \ {o} : qs[n] # o
<1>1. PICK rank : Layered(Nodes, parents, Below(Tables), rank)
  BY DEF LayersInv
<1>2. IsGraph(Nodes, parents, Below(Tables))
  BY DEF LayersInv
<1>3. qs \in [Nodes -> Nodes]
      /\ \A n \in Nodes : qs[n] \in {parents[n], RootIn(Nodes, parents, n)}
  BY FindIsRoot DEF Settles
<1>4. /\ IsGraph(Nodes, qs, Below(Tables)) /\ Layered(Nodes, qs, Below(Tables), rank)
      /\ \A n \in Nodes : qs[n] = n <=> parents[n] = n
  BY <1>1, <1>2, <1>3, CompressLayered
<1>5. ASSUME NEW o, Hidden(o), NEW n \in Nodes \ {o} PROVE qs[n] # o
  <2>1. parents[n] # o
    BY <1>5 DEF Hidden
  <2>2. Find(n) # o
    BY <1>5, FindAvoids
  <2> QED
    BY <2>1, <2>2 DEF Settles
<1> QED
  BY <1>4, <1>5

LEMMA SeqOfNodes ==
  ASSUME TablesInv, NEW f \in [Nodes -> Nat]
  PROVE  f \in Seq(Nat) /\ Len(f) = Len(kinds) /\ IsTable(f)
<1>1. Nodes = 1..Len(kinds) /\ Len(kinds) \in Nat
  BY TableFacts
<1>2. f \in Seq(Nat) /\ Len(f) = Len(kinds)
  BY <1>1
<1> QED
  BY <1>2, SeqIsTable

\* The tables a step of find, or of binding a variable, leaves as they are.
OnlyParents ==
  UNCHANGED <<kinds, left, right, fieldStarts, fieldCounts, fieldKeys, fieldTypes,
              fieldPresence>>

LEMMA ParentsOnly ==
  ASSUME OnlyParents
  PROVE  /\ Nodes' = Nodes /\ FieldLength' = FieldLength /\ Below(Tables)' = Below(Tables)
         /\ RowsInv => RowsInv'
<1>1. /\ kinds' = kinds /\ left' = left /\ right' = right
      /\ fieldStarts' = fieldStarts /\ fieldCounts' = fieldCounts
      /\ fieldKeys' = fieldKeys /\ fieldTypes' = fieldTypes
      /\ fieldPresence' = fieldPresence
  BY DEF OnlyParents
<1>2. Nodes' = Nodes /\ FieldLength' = FieldLength
  BY <1>1 DEF Nodes, FieldLength
<1>3. \A n : Edges(Tables, n)' = Edges(Tables, n)
  BY <1>1 DEF Edges, Tables, Slots
<1>4. Below(Tables)' = Below(Tables)
  BY <1>2, <1>3, BelowIsEdges
<1>5. \A n : ListOf(n)' = ListOf(n)
  BY <1>1 DEF ListOf, FieldAt
<1>6. \A n : RowShape(n) => RowShape(n)'
  BY <1>1, <1>2 DEF RowShape
<1>7. \A n : Ascending(n) => Ascending(n)'
  BY <1>1, <1>5 DEF Ascending
<1> QED
  BY <1>2, <1>4, <1>6, <1>7 DEF RowsInv

LEMMA QuietTree ==
  ASSUME TablesInv, TreeInv, OnlyParents, ranks' = ranks, Settles(parents')
  PROVE  /\ TreeInv'
         /\ \A o : Hidden(o) => Hidden(o)'
<1>1. /\ kinds' = kinds /\ left' = left /\ right' = right
      /\ fieldKeys' = fieldKeys /\ fieldTypes' = fieldTypes
      /\ fieldPresence' = fieldPresence
  BY DEF OnlyParents
<1>2. /\ Nodes' = Nodes /\ FieldLength' = FieldLength /\ Below(Tables)' = Below(Tables)
      /\ RowsInv'
  BY ParentsOnly DEF TreeInv
<1>3. /\ parents' \in [Nodes -> Nodes]
      /\ IsGraph(Nodes, parents', Below(Tables))
      /\ \E rank : Layered(Nodes, parents', Below(Tables), rank)
      /\ \A n \in Nodes : parents'[n] = n <=> parents[n] = n
      /\ \A o : Hidden(o) => \A n \in Nodes \ {o} : parents'[n] # o
  BY SettledLayers DEF Settles, TreeInv
<1>4. parents' \in Seq(Nat) /\ Len(parents') = Len(kinds)
  <2>1. parents' \in [Nodes -> Nat]
    BY <1>3, TableFacts
  <2> QED
    BY <2>1, SeqOfNodes
<1>5. SizesInv'
  BY <1>1, <1>2, <1>4 DEF TreeInv, SizesInv
<1>6. PrefixInv'
  <2>1. \A n \in DOMAIN Canonical : n \in Nodes
    BY CanonicalHasNoObject, TableFacts DEF TreeInv, PrefixInv
  <2> QED
    BY <2>1, <1>1, <1>2, <1>3 DEF TreeInv, PrefixInv
<1>7. LayersInv'
  BY <1>2, <1>3 DEF LayersInv
<1>8. ASSUME NEW o, Hidden(o) PROVE Hidden(o)'
  BY <1>1, <1>2, <1>3, <1>8 DEF Hidden
<1> QED
  BY <1>2, <1>5, <1>6, <1>7, <1>8 DEF TreeInv

\* bindVar, when the occurs check finds nothing.
LEMMA BindTree ==
  ASSUME TablesInv, SpansInv, TreeInv, OnlyParents, ranks' = ranks,
         NEW v \in Nodes, parents[v] = v, kinds[v] = "Var",
         NEW t \in Nodes, parents[t] = t, ~Occurs(v, t).occurs,
         NEW qs, Settles(qs), parents' = [qs EXCEPT ![v] = t]
  PROVE  /\ TreeInv'
         /\ \A o : Hidden(o) /\ o # v /\ o # t => Hidden(o)'
<1>1. /\ kinds' = kinds /\ left' = left /\ right' = right
      /\ fieldKeys' = fieldKeys /\ fieldTypes' = fieldTypes
      /\ fieldPresence' = fieldPresence
  BY DEF OnlyParents
<1>2. /\ Nodes' = Nodes /\ FieldLength' = FieldLength /\ Below(Tables)' = Below(Tables)
      /\ RowsInv'
  BY ParentsOnly DEF TreeInv
<1>3. /\ qs \in [Nodes -> Nodes]
      /\ \A n \in Nodes : qs[n] = n <=> parents[n] = n
      /\ \A o : Hidden(o) => \A n \in Nodes \ {o} : qs[n] # o
  BY SettledLayers DEF Settles, TreeInv
<1>4. parents' \in [Nodes -> Nodes] /\ parents'[v] = t
      /\ \A n \in Nodes \ {v} : parents'[n] = qs[n]
  BY <1>3
<1>5. \E rank : Layered(Nodes, parents', Below(Tables), rank)
  <2>1. PICK S \in SUBSET Nodes :
          /\ t \in S /\ v \notin S
          /\ \A m \in S : parents[m] = m /\ Covered(m, S)
    BY TreeSearchable, OccursCloses
  <2>2. Closed(Nodes, parents, Below(Tables), S)
    <3>1. ASSUME NEW n \in S, NEW c \in Below(Tables)[n]
          PROVE  RootIn(Nodes, parents, c) \in S
      <4>1. c \in Edges(Tables, n) /\ n \in Nodes
        BY <2>1, <3>1, BelowIsEdges
      <4>2. PICK i \in DOMAIN Children(n) : Children(n)[i] = c
        BY <4>1, ChildrenFacts DEF TreeInv
      <4>3. Find(c) \in S
        BY <2>1, <4>2 DEF Covered
      <4> QED
        BY <4>3, FindIsRoot
    <3> QED
      BY <2>1, <3>1 DEF Closed
  <2>3. PICK rank : Layered(Nodes, parents, Below(Tables), rank)
    BY DEF TreeInv, LayersInv
  <2>4. IsGraph(Nodes, parents, Below(Tables)) /\ IsFiniteSet(Nodes)
    BY NodeFacts DEF TreeInv, LayersInv
  <2>5. Binds(Nodes, parents, v, t, parents')
    BY <1>4, FindIsRoot DEF Settles, Binds
  <2>6. PICK ps : ps = parents'
    OBVIOUS
  <2>7. \E r : Layered(Nodes, ps, Below(Tables), r)
    BY <2>1, <2>2, <2>3, <2>4, <2>5, <2>6, BindLayered
  <2> QED
    BY <2>6, <2>7
<1>6. parents' \in Seq(Nat) /\ Len(parents') = Len(kinds)
  <2>1. parents' \in [Nodes -> Nat]
    BY <1>4, TableFacts
  <2> QED
    BY <2>1, SeqOfNodes
<1>7. SizesInv'
  BY <1>1, <1>2, <1>6 DEF TreeInv, SizesInv
<1>8. PrefixInv'
  <2>1. ASSUME NEW n \in DOMAIN Canonical
        PROVE  kinds'[n] = Canonical[n] /\ parents'[n] = n
    <3>1. n \in Nodes /\ kinds[n] = Canonical[n] /\ parents[n] = n
      BY CanonicalHasNoObject, TableFacts DEF TreeInv, PrefixInv
    <3>2. n # v
      BY <3>1, CanonicalKinds
    <3> QED
      BY <3>1, <3>2, <1>1, <1>3, <1>4
  <2> QED
    BY <2>1, <1>1, <1>2 DEF TreeInv, PrefixInv
<1>9. LayersInv'
  <2>1. IsGraph(Nodes, parents', Below(Tables))
    BY <1>4 DEF TreeInv, LayersInv, IsGraph
  <2> QED
    BY <2>1, <1>2, <1>5 DEF LayersInv
<1>10. ASSUME NEW o, Hidden(o), o # v, o # t PROVE Hidden(o)'
  BY <1>1, <1>2, <1>3, <1>4, <1>10 DEF Hidden
<1> QED
  BY <1>2, <1>7, <1>8, <1>9, <1>10 DEF TreeInv

-----------------------------------------------------------------------------
(* allocRaw                                                                *)

\* The children a node of the kind may be given.
Shaped(kind, l, r) ==
  /\ kind \in {"Var", "Object"} => l = NoNode
  /\ kind = "Array" => l \in Nodes
  /\ IF kind = "Union" THEN l \in Nodes /\ r \in Nodes /\ l # r ELSE r = NoNode

LEMMA AllocTree ==
  ASSUME TablesInv, SpansInv, TreeInv,
         NEW kind \in {"Var", "Array", "Union", "Object"}, NEW l, NEW r, Shaped(kind, l, r),
         NEW qs, Settles(qs), AllocRaw(kind, l, r, qs), NEW new, new = Len(kinds) + 1
  PROVE  /\ TreeInv'
         /\ \A o : Hidden(o) /\ l # o /\ r # o => Hidden(o)'
         /\ kind = "Object" => Hidden(new)'
<1>1. /\ Len(kinds) \in Nat /\ FieldLength \in Nat /\ Nodes = 1..Len(kinds)
      /\ NoNode \notin Nodes /\ NoNode = 0 /\ IsFiniteSet(Nodes)
      /\ \A n \in Nodes : left[n] \in Nodes \cup {NoNode} /\ right[n] \in Nodes \cup {NoNode}
  BY NodeFacts DEF TreeInv, NoNode
<1>2. kind \in Kinds /\ kind \notin LeafKinds
  <2>1. ScalarKinds \subseteq {"Null", "Undefined", "Boolean", "Number", "String",
                              "BigInt", "Symbol"}
    BY ScalarsAssumption DEF ScalarKinds
  <2> QED
    BY <2>1 DEF Kinds, LeafKinds
<1>3. /\ qs \in [Nodes -> Nodes] /\ IsGraph(Nodes, qs, Below(Tables))
      /\ \E rank : Layered(Nodes, qs, Below(Tables), rank)
      /\ \A n \in Nodes : qs[n] = n <=> parents[n] = n
      /\ \A o : Hidden(o) => \A n \in Nodes \ {o} : qs[n] # o
  BY SettledLayers DEF Settles, TreeInv
<1>4. qs \in Seq(Nat) /\ Len(qs) = Len(kinds) /\ IsTable(qs)
  <2>1. qs \in [Nodes -> Nat]
    BY <1>1, <1>3
  <2> QED
    BY <2>1, SeqOfNodes
<1>5. /\ Nodes' = Nodes \cup {new} /\ new \notin Nodes /\ FieldLength' = FieldLength
      /\ \A n \in Nodes : fieldStarts'[n] = fieldStarts[n] /\ fieldCounts'[n] = fieldCounts[n]
      /\ fieldStarts'[new] = IF kind = "Object" THEN FieldLength + 1 ELSE 0
      /\ fieldCounts'[new] = 0 /\ parents'[new] = new
  BY <1>2, <1>4, AllocEffect
<1>6. /\ parents' = Append(qs, new) /\ ranks' = Append(ranks, 0) /\ kinds' = Append(kinds, kind)
      /\ left' = Append(left, l) /\ right' = Append(right, r)
      /\ fieldKeys' = fieldKeys /\ fieldTypes' = fieldTypes /\ fieldPresence' = fieldPresence
  BY DEF AllocRaw, fieldTable
<1>7. /\ ranks \in Seq(Nat) /\ Len(ranks) = Len(kinds)
      /\ left \in Seq(Nat) /\ Len(left) = Len(kinds)
      /\ right \in Seq(Nat) /\ Len(right) = Len(kinds)
  BY DEF TreeInv, SizesInv
<1>8. l \in Nat /\ r \in Nat /\ l \in Nodes \cup {NoNode} /\ r \in Nodes \cup {NoNode}
  BY <1>1 DEF Shaped
<1>9. /\ \A n \in Nodes : /\ kinds'[n] = kinds[n] /\ left'[n] = left[n]
                          /\ right'[n] = right[n] /\ parents'[n] = qs[n]
      /\ kinds'[new] = kind /\ left'[new] = l /\ right'[new] = r
      /\ Len(kinds') = Len(kinds) + 1
  <2>1. IsTable(kinds) /\ IsTable(left) /\ IsTable(right)
    BY <1>7, SeqIsTable DEF TablesInv
  <2>2. /\ \A n \in Nodes : kinds'[n] = kinds[n]
        /\ kinds'[new] = kind /\ Len(kinds') = Len(kinds) + 1
    BY <2>1, <1>1, <1>6, AppendTable
  <2>3. /\ \A n \in Nodes : left'[n] = left[n]
        /\ left'[new] = l
    BY <2>1, <1>1, <1>6, <1>7, AppendTable
  <2>4. /\ \A n \in Nodes : right'[n] = right[n]
        /\ right'[new] = r
    BY <2>1, <1>1, <1>6, <1>7, AppendTable
  <2>5. \A n \in Nodes : parents'[n] = qs[n]
    BY <1>1, <1>4, <1>6, AppendTable
  <2> QED
    BY <2>2, <2>3, <2>4, <2>5
<1>10. SizesInv'
  <2>1. /\ parents' \in Seq(Nat) /\ Len(parents') = Len(kinds')
        /\ ranks' \in Seq(Nat) /\ Len(ranks') = Len(kinds')
        /\ left' \in Seq(Nat) /\ Len(left') = Len(kinds')
        /\ right' \in Seq(Nat) /\ Len(right') = Len(kinds')
    <3>1. new \in Nat
      BY <1>1
    <3> QED
      BY <3>1, <1>1, <1>4, <1>6, <1>7, <1>8, <1>9
  <2>2. \A i \in 1..FieldLength' : fieldTypes'[i] \in Nodes'
    BY <1>5, <1>6 DEF TreeInv, SizesInv
  <2>3. /\ fieldKeys' \in Seq(Key)
        /\ fieldTypes' \in Seq(Nat) /\ Len(fieldTypes') = FieldLength'
        /\ fieldPresence' \in Seq(Presence) /\ Len(fieldPresence') = FieldLength'
    BY <1>5, <1>6 DEF TreeInv, SizesInv
  <2> QED
    BY <2>1, <2>2, <2>3 DEF SizesInv
<1>11. PrefixInv'
  <2>1. Len(kinds) >= Len(Canonical) /\ Len(Canonical) \in Nat
        /\ \A n \in DOMAIN Canonical : n \in Nodes /\ kinds[n] = Canonical[n] /\ parents[n] = n
    BY CanonicalHasNoObject, <1>1 DEF TreeInv, PrefixInv
  <2>2. \A n \in DOMAIN Canonical : kinds'[n] = Canonical[n] /\ parents'[n] = n
    BY <2>1, <1>3, <1>9
  <2>3. \A n \in Nodes' : kinds'[n] \in ScalarKinds => n <= Len(Canonical)
    <3>1. kinds'[new] \notin ScalarKinds
      BY <1>2, <1>9 DEF LeafKinds
    <3>2. \A n \in Nodes : kinds'[n] \in ScalarKinds => n <= Len(Canonical)
      BY <1>9 DEF TreeInv, PrefixInv
    <3> QED
      BY <3>1, <3>2, <1>5
  <2> QED
    BY <2>1, <2>2, <2>3, <1>1, <1>9 DEF PrefixInv
<1>12. \A n \in Nodes : ListOf(n)' = ListOf(n)
  BY <1>5, <1>6 DEF ListOf, FieldAt
<1>13. ASSUME NEW n \in Nodes' PROVE RowShape(n)' /\ Ascending(n)'
  <2>1. CASE n \in Nodes
    <3>1. RowShape(n) /\ Ascending(n)
      BY <2>1 DEF TreeInv, RowsInv
    <3>2. RowShape(n)'
      BY <2>1, <3>1, <1>5, <1>9 DEF RowShape
    <3>3. Ascending(n)'
      BY <2>1, <3>1, <1>5, <1>12 DEF Ascending
    <3> QED
      BY <3>2, <3>3
  <2>2. CASE n = new
    <3>1. RowShape(n)'
      BY <2>2, <1>2, <1>5, <1>9 DEF RowShape, Shaped
    <3>2. Ascending(n)'
      BY <2>2, <1>5 DEF Ascending
    <3> QED
      BY <3>1, <3>2
  <2> QED
    BY <2>1, <2>2, <1>5
<1>14. RowsInv'
  BY <1>13 DEF RowsInv
<1>15. \A n \in Nodes : Edges(Tables, n)' = Edges(Tables, n)
  <2>1. SUFFICES ASSUME NEW n \in Nodes PROVE Edges(Tables, n)' = Edges(Tables, n)
    OBVIOUS
  <2>2. /\ kinds'[n] = kinds[n] /\ left'[n] = left[n] /\ right'[n] = right[n]
        /\ fieldStarts'[n] = fieldStarts[n] /\ fieldCounts'[n] = fieldCounts[n]
        /\ fieldTypes' = fieldTypes
    BY <1>5, <1>6, <1>9
  <2> QED
    BY ONLY <2>2 DEF Edges, Tables, Slots
<1>16. Edges(Tables, new)' \in SUBSET Nodes
  <2>1. CASE kind = "Object"
    <3>1. Edges(Tables, new)' = {fieldTypes'[i] : i \in (FieldLength + 1)..(FieldLength + 1 + 0 - 1)}
      BY <2>1, <1>5, <1>9 DEF Edges, Tables, Slots
    <3>2. (FieldLength + 1)..(FieldLength + 1 + 0 - 1) = {}
      BY <1>1
    <3> QED
      BY <3>1, <3>2
  <2>2. CASE kind # "Object"
    BY <2>2, <1>9 DEF Edges, Tables, Shaped
  <2> QED
    BY <2>1, <2>2
<1> DEFINE E == Below(Tables)
           F == Below(Tables)'
<1>17. /\ F = [n \in Nodes' |-> F[n]] /\ E \in [Nodes -> SUBSET Nodes]
       /\ \A n \in Nodes : F[n] = E[n]
       /\ F[new] \in SUBSET Nodes
  <2>1. E \in [Nodes -> SUBSET Nodes]
    BY <1>3 DEF IsGraph
  <2> QED
    BY <2>1, <1>5, <1>15, <1>16, BelowIsEdges
<1> HIDE DEF E, F
<1>18. IsGraph(Nodes', parents', F)
  <2>1. parents' \in [Nodes' -> Nodes']
    <3>1. IsTable(parents') /\ Len(parents') = Len(kinds') /\ DOMAIN parents' = Nodes'
      <4>1. IsTable(parents') /\ Len(parents') = Len(qs) + 1
        BY <1>4, <1>6, AppendTable
      <4> QED
        BY <4>1, <1>4, <1>9 DEF IsTable, Nodes
    <3>2. \A n \in Nodes' : parents'[n] \in Nodes'
      BY <1>3, <1>5, <1>9
    <3> QED
      BY <3>1, <3>2 DEF IsTable
  <2>2. F \in [Nodes' -> SUBSET Nodes']
    BY <1>5, <1>17
  <2> QED
    BY <2>1, <2>2 DEF IsGraph
<1>19. \E rank : Layered(Nodes', parents', F, rank)
  <2>1. PICK rank : Layered(Nodes, qs, E, rank)
    BY <1>3 DEF E
  <2>2. IsGraph(Nodes, qs, E)
    BY <1>3 DEF E
  <2>3. PICK ps, all : ps = parents' /\ all = Nodes'
    OBVIOUS
  <2>4. all = Nodes \cup {new} /\ IsGraph(all, ps, F) /\ Tops(Nodes, qs, E, new, ps, F)
    BY <2>3, <1>3, <1>5, <1>9, <1>17, <1>18 DEF Tops
  <2>5. \E k : Layered(all, ps, F, k)
    BY ONLY <2>1, <2>2, <2>4, <1>1, TopLayered
  <2> QED
    BY <2>3, <2>5
<1>20. LayersInv'
  BY <1>18, <1>19 DEF LayersInv, F
<1>21. ASSUME NEW o, Hidden(o), l # o, r # o PROVE Hidden(o)'
  <2>1. o \in Nodes' /\ parents'[o] = o
    BY <1>3, <1>5, <1>9, <1>21 DEF Hidden
  <2>2. \A n \in Nodes' \ {o} : parents'[n] # o
    BY <1>3, <1>5, <1>9, <1>21 DEF Hidden
  <2>3. \A n \in Nodes' : left'[n] # o /\ right'[n] # o
    BY <1>5, <1>9, <1>21 DEF Hidden
  <2>4. \A i \in 1..FieldLength' : fieldTypes'[i] # o
    BY <1>5, <1>6, <1>21 DEF Hidden
  <2> QED
    BY <2>1, <2>2, <2>3, <2>4 DEF Hidden
<1>22. ASSUME kind = "Object" PROVE Hidden(new)'
  <2>1. l = NoNode /\ r = NoNode /\ new # NoNode
    BY <1>1, <1>22 DEF Shaped
  <2>2. \A n \in Nodes' \ {new} : parents'[n] # new
    BY <1>3, <1>5, <1>9
  <2>3. \A n \in Nodes' : left'[n] # new /\ right'[n] # new
    BY <2>1, <1>1, <1>5, <1>9
  <2>4. \A i \in 1..FieldLength' : fieldTypes'[i] # new
    BY <1>5, <1>6 DEF TreeInv, SizesInv
  <2> QED
    BY <2>2, <2>3, <2>4, <1>5 DEF Hidden
<1> QED
  BY <1>10, <1>11, <1>14, <1>20, <1>21, <1>22 DEF TreeInv

-----------------------------------------------------------------------------
(* appendField                                                             *)

LEMMA InsertedSeq ==
  ASSUME FieldLength \in Nat, NEW S, NEW table \in Seq(S), Len(table) = FieldLength,
         NEW x \in S, NEW slot \in 1..(FieldLength + 1)
  PROVE  /\ Inserted(table, slot, x) \in Seq(S)
         /\ Len(Inserted(table, slot, x)) = FieldLength + 1
         /\ \A i \in 1..(FieldLength + 1) :
              \/ Inserted(table, slot, x)[i] = x
              \/ \E j \in 1..FieldLength : Inserted(table, slot, x)[i] = table[j]
<1> DEFINE new == Inserted(table, slot, x)
<1>1. ASSUME NEW i \in 1..(FieldLength + 1)
      PROVE  new[i] = x \/ \E j \in 1..FieldLength : new[i] = table[j]
  <2>1. CASE i < slot
    <3>1. new[i] = table[i] /\ i \in 1..FieldLength
      BY <2>1, InsertedAt
    <3> QED
      BY <3>1
  <2>2. CASE i = slot
    BY <2>2, InsertedAt
  <2>3. CASE i > slot
    <3>1. new[i] = table[i - 1] /\ i - 1 \in 1..FieldLength
      BY <2>3, InsertedAt
    <3> QED
      BY <3>1
  <2> QED
    BY <2>1, <2>2, <2>3
<1>2. new = [i \in 1..(FieldLength + 1) |-> new[i]]
  BY DEF Inserted
<1> HIDE DEF new
<1>3. \A i \in 1..(FieldLength + 1) : new[i] \in S
  BY <1>1
<1>4. new \in Seq(S) /\ Len(new) = FieldLength + 1
  <2>1. new \in [1..(FieldLength + 1) -> S]
    BY <1>2, <1>3
  <2> QED
    BY <2>1
<1> QED
  BY <1>1, <1>4 DEF new

\* A span of a table, by slot and by row.
BySlot(f, start, count) == {f[i] : i \in start..(start + count - 1)}
ByRow(f, start, count) == {f[start + i - 1] : i \in 1..count}

LEMMA SpanByRow ==
  ASSUME NEW start \in Nat, NEW count \in Nat, NEW f
  PROVE  BySlot(f, start, count) = ByRow(f, start, count)
<1>1. \A i \in 1..count : start + i - 1 \in start..(start + count - 1)
  OBVIOUS
<1>2. \A i \in start..(start + count - 1) :
        i - start + 1 \in 1..count /\ start + (i - start + 1) - 1 = i
  OBVIOUS
<1> QED
  BY <1>1, <1>2 DEF BySlot, ByRow

\* The edges of a node whose list and children do not change.
LEMMA EdgesByList ==
  ASSUME TablesInv, NEW n \in Nodes, ListOf(n)' = ListOf(n),
         kinds'[n] = kinds[n], left'[n] = left[n], right'[n] = right[n],
         fieldStarts'[n] \in Nat, fieldCounts'[n] = fieldCounts[n]
  PROVE  Edges(Tables, n)' = Edges(Tables, n)
<1>1. CASE kinds[n] = "Object"
  <2>1. PICK start, now, count : /\ start = fieldStarts[n] /\ now = fieldStarts'[n]
                                 /\ count = fieldCounts[n]
    OBVIOUS
  <2>2. start \in Nat /\ now \in Nat /\ count \in Nat /\ fieldCounts'[n] = count
    BY <2>1, TableFacts
  <2>3. PICK types, typesNow : types = fieldTypes /\ typesNow = fieldTypes'
    OBVIOUS
  <2>4. ASSUME NEW i \in 1..count PROVE typesNow[now + i - 1] = types[start + i - 1]
    <3>1. ListOf(n)'[i] = ListOf(n)[i]
      OBVIOUS
    <3>2. ListOf(n)[i] = FieldAt(start + i - 1) /\ ListOf(n)'[i] = FieldAt(now + i - 1)'
      BY <2>1, <2>2 DEF ListOf
    <3>3. FieldAt(start + i - 1).type = types[start + i - 1]
          /\ FieldAt(now + i - 1)'.type = typesNow[now + i - 1]
      BY <2>3 DEF FieldAt
    <3> QED
      BY <3>1, <3>2, <3>3
  <2>5. /\ Edges(Tables, n) = {types[i] : i \in start..(start + count - 1)}
        /\ Edges(Tables, n)' = {typesNow[i] : i \in now..(now + count - 1)}
    BY <1>1, <2>1, <2>2, <2>3 DEF Edges, Tables, Slots
  <2>6. /\ Edges(Tables, n) = {types[start + i - 1] : i \in 1..count}
        /\ Edges(Tables, n)' = {typesNow[now + i - 1] : i \in 1..count}
    <3>1. BySlot(types, start, count) = ByRow(types, start, count)
      BY <2>2, SpanByRow
    <3>2. BySlot(typesNow, now, count) = ByRow(typesNow, now, count)
      BY <2>2, SpanByRow
    <3> QED
      BY <3>1, <3>2, <2>5 DEF BySlot, ByRow
  <2> QED
    BY <2>4, <2>6
<1>2. CASE kinds[n] # "Object"
  <2>1. /\ kinds'[n] # "Object" /\ kinds'[n] = kinds[n]
        /\ left'[n] = left[n] /\ right'[n] = right[n]
    BY <1>2
  <2> QED
    BY ONLY <2>1 DEF Edges, Tables
<1> QED
  BY <1>1, <1>2

\* A slot of a span that lies in the table.
LEMMA SlotInTable ==
  ASSUME NEW start \in Nat, NEW count \in Nat, NEW length \in Nat, NEW i \in 1..count,
         start >= 1, start + count <= length + 1
  PROVE  start + i - 1 \in 1..length
  OBVIOUS

LEMMA StoreTree ==
  ASSUME TablesInv, SpansInv, TreeInv, NEW o \in Objects, Appendable(o), Hidden(o),
         NEW key \in Key, NEW type \in Nodes, type # o, NEW presence \in Presence,
         StoreField(o, key, type, presence), MayAppend(o, key), Settles(parents')
  PROVE  /\ TreeInv'
         /\ \A p : Hidden(p) /\ type # p => Hidden(p)'
<1>1. /\ Len(kinds) \in Nat /\ FieldLength \in Nat /\ Nodes = 1..Len(kinds)
      /\ NoNode \notin Nodes /\ NoNode = 0 /\ IsFiniteSet(Nodes) /\ o \in Nodes
      /\ kinds[o] = "Object"
  BY NodeFacts, TableFacts DEF TreeInv, NoNode
<1>2. /\ kinds' = kinds /\ Nodes' = Nodes /\ Objects' = Objects
      /\ FieldLength' = FieldLength + 1
      /\ fieldCounts'[o] = fieldCounts[o] + 1 /\ fieldStarts'[o] = fieldStarts[o]
      /\ \A n \in Nodes \ {o} :
           /\ fieldCounts'[n] = fieldCounts[n]
           /\ fieldStarts'[n] = IF End(o) <= FieldLength /\ Moves(n, End(o), o)
                                  THEN fieldStarts[n] + 1 ELSE fieldStarts[n]
  BY StoreEffect
<1>3. left' = left /\ right' = right /\ ranks' = ranks
  BY DEF StoreField
<1>4. /\ \A n \in Nodes \ {o} : ListOf(n)' = ListOf(n)
      /\ \A i \in 1..fieldCounts[o] : ListOf(o)'[i] = ListOf(o)[i]
      /\ ListOf(o)'[fieldCounts[o] + 1].key = key
      /\ fieldCounts[o] > 0 => ListOf(o)[fieldCounts[o]].key < key
  BY StoreLists
<1>5. /\ parents' \in [Nodes -> Nodes] /\ IsGraph(Nodes, parents', Below(Tables))
      /\ \E rank : Layered(Nodes, parents', Below(Tables), rank)
      /\ \A n \in Nodes : parents'[n] = n <=> parents[n] = n
      /\ \A p : Hidden(p) => \A n \in Nodes \ {p} : parents'[n] # p
  BY SettledLayers DEF Settles, TreeInv
<1>6. PICK slot \in 1..(FieldLength + 1) : slot = fieldStarts[o] + fieldCounts[o]
  <2>1. fieldStarts[o] \in Nat /\ fieldCounts[o] \in Nat
    BY <1>1, TableFacts
  <2>2. fieldStarts[o] >= 1 /\ End(o) <= FieldLength + 1
    BY DEF SpansInv
  <2>3. fieldStarts[o] + fieldCounts[o] \in 1..(FieldLength + 1)
    BY <2>1, <2>2, <1>1 DEF End
  <2> QED
    BY <2>3
<1>7. /\ fieldKeys' = Inserted(fieldKeys, slot, key)
      /\ fieldTypes' = Inserted(fieldTypes, slot, type)
      /\ fieldPresence' = Inserted(fieldPresence, slot, presence)
  BY <1>6 DEF StoreField
<1>8. /\ fieldKeys \in Seq(Key) /\ Len(fieldKeys) = FieldLength
      /\ fieldTypes \in Seq(Nat) /\ Len(fieldTypes) = FieldLength
      /\ fieldPresence \in Seq(Presence) /\ Len(fieldPresence) = FieldLength
      /\ \A i \in 1..FieldLength : fieldTypes[i] \in Nodes
  BY DEF TreeInv, SizesInv, FieldLength
<1>9. /\ fieldKeys' \in Seq(Key) /\ Len(fieldKeys') = FieldLength'
      /\ fieldTypes' \in Seq(Nat) /\ Len(fieldTypes') = FieldLength'
      /\ fieldPresence' \in Seq(Presence) /\ Len(fieldPresence') = FieldLength'
      /\ \A i \in 1..FieldLength' :
           fieldTypes'[i] = type \/ \E j \in 1..FieldLength : fieldTypes'[i] = fieldTypes[j]
  <2>1. type \in Nat
    BY <1>1
  <2>2. fieldKeys' \in Seq(Key) /\ Len(fieldKeys') = FieldLength'
    BY <1>1, <1>2, <1>7, <1>8, InsertedSeq
  <2>3. fieldPresence' \in Seq(Presence) /\ Len(fieldPresence') = FieldLength'
    BY <1>1, <1>2, <1>7, <1>8, InsertedSeq
  <2>4. /\ fieldTypes' \in Seq(Nat) /\ Len(fieldTypes') = FieldLength'
        /\ \A i \in 1..FieldLength' :
             fieldTypes'[i] = type \/ \E j \in 1..FieldLength : fieldTypes'[i] = fieldTypes[j]
    <3>1. PICK types, S : types = fieldTypes /\ S = Nat
      OBVIOUS
    <3>2. /\ types \in Seq(S) /\ Len(types) = FieldLength /\ type \in S
          /\ fieldTypes' = Inserted(types, slot, type)
      BY <3>1, <2>1, <1>7, <1>8
    <3>3. /\ Inserted(types, slot, type) \in Seq(S)
          /\ Len(Inserted(types, slot, type)) = FieldLength + 1
          /\ \A i \in 1..(FieldLength + 1) :
               \/ Inserted(types, slot, type)[i] = type
               \/ \E j \in 1..FieldLength : Inserted(types, slot, type)[i] = types[j]
      BY ONLY <3>2, <1>1, <1>6, InsertedSeq
    <3> QED
      BY <3>1, <3>2, <3>3, <1>2
  <2> QED
    BY <2>2, <2>3, <2>4
<1>10. SizesInv'
  <2>1. parents' \in Seq(Nat) /\ Len(parents') = Len(kinds')
    <3>1. parents' \in [Nodes -> Nat]
      BY <1>1, <1>5
    <3> QED
      BY <3>1, <1>2, SeqOfNodes
  <2>2. /\ ranks' \in Seq(Nat) /\ Len(ranks') = Len(kinds')
        /\ left' \in Seq(Nat) /\ Len(left') = Len(kinds')
        /\ right' \in Seq(Nat) /\ Len(right') = Len(kinds')
    BY <1>2, <1>3 DEF TreeInv, SizesInv
  <2>3. \A i \in 1..FieldLength' : fieldTypes'[i] \in Nodes'
    BY <1>2, <1>8, <1>9
  <2> QED
    BY <2>1, <2>2, <2>3, <1>9 DEF SizesInv
<1>11. PrefixInv'
  <2>1. \A n \in DOMAIN Canonical : n \in Nodes
    BY CanonicalHasNoObject, <1>1 DEF TreeInv, PrefixInv
  <2> QED
    BY <2>1, <1>2, <1>5 DEF TreeInv, PrefixInv
<1>12. ASSUME NEW n \in Nodes PROVE RowShape(n)'
  <2>1. RowShape(n)
    BY DEF TreeInv, RowsInv
  <2>2. kinds[n] # "Object" => fieldStarts'[n] = fieldStarts[n]
    BY <1>1, <1>2 DEF Moves
  <2> QED
    BY <2>1, <2>2, <1>2, <1>3 DEF RowShape
<1>13. ASSUME NEW n \in Nodes PROVE Ascending(n)'
  <2>1. Ascending(n)
    BY DEF TreeInv, RowsInv
  <2>2. CASE n # o
    BY <2>1, <2>2, <1>2, <1>4 DEF Ascending
  <2>3. CASE n = o
    <3>1. PICK count \in Nat : count = fieldCounts[o]
      BY <1>1, TableFacts
    <3>2. PICK list, new : list = ListOf(o) /\ new = ListOf(o)'
      OBVIOUS
    <3>3. /\ \A i, j \in 1..count : i < j => list[i].key < list[j].key
          /\ \A i \in 1..count : new[i] = list[i]
          /\ new[count + 1].key = key
          /\ count > 0 => list[count].key < key
      BY <2>1, <2>3, <3>1, <3>2, <1>4 DEF Ascending
    <3>4. \A i \in 1..count : list[i].key \in Nat
      <4> SUFFICES ASSUME NEW i \in 1..count PROVE list[i].key \in Nat
        OBVIOUS
      <4>1. PICK k : k = fieldStarts[o] + i - 1
        OBVIOUS
      <4>2. list[i] = FieldAt(k)
        BY <4>1, <3>1, <3>2 DEF ListOf
      <4>3. k \in 1..FieldLength
        <5>1. fieldStarts[o] \in Nat /\ fieldStarts[o] >= 1
          BY <1>1, TableFacts DEF SpansInv
        <5>2. fieldStarts[o] + count <= FieldLength + 1
          BY <3>1, <1>1, <1>6
        <5> QED
          BY <5>1, <5>2, <4>1, <3>1, <1>1, SlotInTable
      <4>4. fieldKeys[k] \in Key
        BY <4>3, <1>8
      <4>5. FieldAt(k).key = fieldKeys[k]
        BY DEF FieldAt
      <4>6. fieldKeys[k] \in Nat
        BY <4>4, KeyAssumption
      <4> QED
        BY <4>2, <4>5, <4>6
    <3>5. key \in Nat
      BY KeyAssumption
    <3>6. \A i \in 1..count : list[i].key < key
      <4>1. SUFFICES ASSUME NEW i \in 1..count PROVE list[i].key < key
        OBVIOUS
      <4>2. count \in 1..count /\ count > 0 /\ (i = count \/ i < count)
        OBVIOUS
      <4> QED
        BY <4>2, <3>3, <3>4, <3>5
    <3>7. ASSUME NEW i \in 1..(count + 1), NEW j \in 1..(count + 1), i < j
          PROVE  new[i].key < new[j].key
      <4>1. i \in 1..count /\ (j \in 1..count \/ j = count + 1)
        BY <3>7
      <4> QED
        BY <4>1, <3>3, <3>6, <3>7
    <3> QED
      BY <2>3, <3>1, <3>2, <3>7, <1>2 DEF Ascending
  <2> QED
    BY <2>2, <2>3
<1>14. RowsInv'
  BY <1>2, <1>12, <1>13 DEF RowsInv
<1>15. TablesInv' /\ SpansInv'
  <2>1. IsTable(parents') /\ Len(parents') = Len(kinds)
    <3>1. parents' \in [Nodes -> Nat]
      BY <1>1, <1>5
    <3> QED
      BY <3>1, SeqOfNodes
  <2> QED
    BY <2>1, StoreKeepsTables, StoreKeepsSpans
<1>16. \A n \in Nodes \ {o} : Edges(Tables, n)' = Edges(Tables, n)
  <2>1. \A n \in Nodes : fieldStarts'[n] \in Nat
    BY <1>1, <1>2, TableFacts
  <2> QED
    BY <2>1, <1>2, <1>3, <1>4, EdgesByList
<1>17. Edges(Tables, o)' \in SUBSET Nodes
       /\ \A p : Hidden(p) /\ type # p => p \notin Edges(Tables, o)'
  <2>1. PICK start, end : start = fieldStarts'[o] /\ end = fieldStarts'[o] + fieldCounts'[o] - 1
    OBVIOUS
  <2>2. /\ start \in Nat /\ end \in Int /\ start >= 1 /\ end <= FieldLength + 1
        /\ FieldLength' \in Nat
    <3>1. o \in Objects' /\ End(o)' = fieldStarts'[o] + fieldCounts'[o]
      BY <1>2 DEF End
    <3>2. fieldStarts[o] \in Nat /\ fieldCounts[o] \in Nat
      BY <1>1, TableFacts
    <3>3. fieldStarts'[o] >= 1 /\ End(o)' <= FieldLength' + 1
      BY <3>1, <1>15 DEF SpansInv
    <3>4. fieldStarts'[o] \in Nat /\ fieldCounts'[o] \in Nat /\ FieldLength' = FieldLength + 1
      BY <3>2, <1>1, <1>2
    <3> QED
      BY <2>1, <3>1, <3>3, <3>4, <1>1
  <2>3. Edges(Tables, o)' = {fieldTypes'[i] : i \in start..end}
    BY <2>1, <1>1, <1>2 DEF Edges, Tables, Slots
  <2>4. \A i \in start..end : i \in 1..FieldLength'
    BY <2>2, <1>1, <1>2
  <2>5. \A i \in 1..FieldLength' : fieldTypes'[i] \in Nodes
    BY <1>8, <1>9
  <2>6. \A p : Hidden(p) /\ type # p => \A i \in 1..FieldLength' : fieldTypes'[i] # p
    BY <1>9 DEF Hidden
  <2> QED
    BY <2>3, <2>4, <2>5, <2>6
<1>18. ASSUME NEW p, Hidden(p), NEW n \in Nodes PROVE p \notin Edges(Tables, n)
  <2>1. CASE kinds[n] = "Object"
    BY <2>1, <1>18, SpanTypes DEF TreeInv, Hidden
  <2>2. CASE kinds[n] # "Object"
    BY <2>2, <1>18 DEF Edges, Tables, Hidden
  <2> QED
    BY <2>1, <2>2
<1> DEFINE E == Below(Tables)
           F == Below(Tables)'
<1>19. /\ F = [n \in Nodes |-> F[n]] /\ E \in [Nodes -> SUBSET Nodes]
       /\ \A n \in Nodes \ {o} : F[n] = E[n] /\ o \notin E[n]
       /\ F[o] \in SUBSET Nodes /\ o \notin F[o]
  <2>1. E \in [Nodes -> SUBSET Nodes]
    BY <1>5 DEF IsGraph
  <2>2. \A n \in Nodes : E[n] = Edges(Tables, n) /\ F[n] = Edges(Tables, n)'
    BY <1>2, BelowIsEdges
  <2>3. F = [n \in Nodes |-> F[n]]
    BY <1>2, BelowIsEdges
  <2> HIDE DEF E, F
  <2> QED
    BY <2>1, <2>2, <2>3, <1>1, <1>16, <1>17, <1>18
<1> HIDE DEF E, F
<1>20. IsGraph(Nodes, parents', F)
  <2>1. F \in [Nodes -> SUBSET Nodes]
    BY <1>19
  <2> QED
    BY <2>1, <1>5 DEF IsGraph
<1>21. \E rank : Layered(Nodes, parents', F, rank)
  <2>1. PICK rank, ps : ps = parents' /\ Layered(Nodes, ps, E, rank) /\ IsGraph(Nodes, ps, E)
    BY <1>5 DEF E
  <2>2. Tops(Nodes, ps, E, o, ps, F)
    <3>1. ps[o] = o /\ \A n \in Nodes \ {o} : ps[n] # o
      BY <2>1, <1>1, <1>5 DEF Hidden
    <3> QED
      BY <3>1, <1>19 DEF Tops
  <2>3. Nodes = Nodes \cup {o} /\ IsGraph(Nodes, ps, F)
    BY <2>1, <1>1, <1>20
  <2>4. \E k : Layered(Nodes, ps, F, k)
    BY ONLY <2>1, <2>2, <2>3, <1>1, TopLayered
  <2> QED
    BY <2>1, <2>4
<1>22. LayersInv'
  BY <1>2, <1>20, <1>21 DEF LayersInv, F
<1>23. ASSUME NEW p, Hidden(p), type # p PROVE Hidden(p)'
  <2>1. \A i \in 1..FieldLength' : fieldTypes'[i] # p
    BY <1>9, <1>23 DEF Hidden
  <2> QED
    BY <2>1, <1>2, <1>3, <1>5, <1>23 DEF Hidden
<1> QED
  BY <1>10, <1>11, <1>14, <1>22, <1>23 DEF TreeInv

-----------------------------------------------------------------------------
(* The tables an arena starts with, is reset to, or loads                  *)

CanonicalScalars(s) == \A n \in Ids(s) : s.kinds[n] \in ScalarKinds => n <= Len(Canonical)

\* The tables s are a forest with the canonical nodes in front.
Sound(s) ==
  /\ TablesSized(s) /\ CanonicalPrefix(s) /\ CanonicalScalars(s)
  /\ \A n \in Ids(s) : RowValid(s, n)
  /\ \A i \in 1..Len(s.fieldKeys) : s.fieldTypes[i] \in Ids(s)
  /\ IsGraph(Ids(s), s.parents, Below(s))
  /\ \E rank : Layered(Ids(s), s.parents, Below(s), rank)

Holds(s) ==
  /\ parents = s.parents /\ ranks = s.ranks /\ kinds = s.kinds
  /\ left = s.left /\ right = s.right
  /\ fieldStarts = s.fieldStarts /\ fieldCounts = s.fieldCounts
  /\ fieldKeys = s.fieldKeys /\ fieldTypes = s.fieldTypes
  /\ fieldPresence = s.fieldPresence

SoundTablesAreTrees == \A s : Holds(s) /\ Sound(s) => TreeInv

LEMMA SoundSnapshots ==
  ASSUME NEW s, Valid(s), CanonicalScalars(s)
  PROVE  Sound(s)
<1>1. ASSUME NEW i \in 1..Len(s.fieldKeys) PROVE s.fieldTypes[i] \in Ids(s)
  <2>1. PICK n \in Ids(s) : s.kinds[n] = "Object" /\ i \in Slots(s, n)
    BY ValidSnapshot
  <2>2. FieldSpanValid(s, n)
    BY <2>1 DEF Valid, RowValid
  <2> QED
    BY <2>1, <2>2 DEF FieldSpanValid
<1> QED
  BY <1>1, ValidIsLayered DEF Valid, Sound

LEMMA SoundTables == SoundTablesAreTrees
<1> SUFFICES ASSUME NEW s, Holds(s), Sound(s) PROVE TreeInv
  BY DEF SoundTablesAreTrees
<1>1. /\ parents = s.parents /\ ranks = s.ranks /\ kinds = s.kinds
      /\ left = s.left /\ right = s.right
      /\ fieldStarts = s.fieldStarts /\ fieldCounts = s.fieldCounts
      /\ fieldKeys = s.fieldKeys /\ fieldTypes = s.fieldTypes
      /\ fieldPresence = s.fieldPresence
  BY DEF Holds
<1>2. Nodes = Ids(s) /\ FieldLength = Len(s.fieldKeys)
  BY <1>1 DEF Nodes, Ids, FieldLength
<1>3. SizesInv
  <2>1. TablesSized(s)
    BY DEF Sound
  <2>2. \A table \in {parents, ranks, left, right} :
          table \in Seq(Nat) /\ Len(table) = Len(kinds)
    BY <2>1, <1>1 DEF TablesSized
  <2>3. /\ fieldKeys \in Seq(Key)
        /\ fieldTypes \in Seq(Nat) /\ Len(fieldTypes) = FieldLength
        /\ fieldPresence \in Seq(Presence) /\ Len(fieldPresence) = FieldLength
    BY <2>1, <1>1, <1>2 DEF TablesSized
  <2> QED
    BY <2>2, <2>3, <1>1, <1>2 DEF SizesInv, Sound
<1>4. PrefixInv
  BY <1>1, <1>2 DEF Sound, CanonicalPrefix, CanonicalScalars, PrefixInv
<1>5. ASSUME NEW n \in Nodes PROVE RowShape(n) /\ Ascending(n)
  <2>1. RowValid(s, n)
    BY <1>2 DEF Sound
  <2>2. fieldStarts[n] \in Nat /\ fieldCounts[n] \in Nat
    <3>1. /\ s.fieldStarts \in Seq(Nat) /\ Len(s.fieldStarts) = Len(s.kinds)
          /\ s.fieldCounts \in Seq(Nat) /\ Len(s.fieldCounts) = Len(s.kinds)
      BY DEF Sound, TablesSized
    <3>2. n \in 1..Len(s.fieldStarts) /\ n \in 1..Len(s.fieldCounts)
      BY <3>1, <1>2 DEF Ids
    <3> QED
      BY <3>1, <3>2, <1>1, ElementOfSeq
  <2>3. RowShape(n)
    BY <2>1, <1>1, <1>2 DEF RowValid, NoFieldSpan, RowShape
  <2>4. CASE kinds[n] = "Object"
    <3>1. PICK start \in Nat, count \in Nat : start = fieldStarts[n] /\ count = fieldCounts[n]
      BY <2>2
    <3>2. \A i, j \in start..(start + count - 1) : i < j => fieldKeys[i] < fieldKeys[j]
      BY <2>1, <2>4, <3>1, <1>1 DEF RowValid, FieldSpanValid, Slots
    <3>3. ASSUME NEW i \in 1..count, NEW j \in 1..count, i < j
          PROVE  ListOf(n)[i].key < ListOf(n)[j].key
      <4>1. PICK a, b : a = start + i - 1 /\ b = start + j - 1
        OBVIOUS
      <4>2. ListOf(n)[i] = FieldAt(a) /\ ListOf(n)[j] = FieldAt(b)
        BY <4>1, <3>1 DEF ListOf
      <4>3. FieldAt(a).key = fieldKeys[a] /\ FieldAt(b).key = fieldKeys[b]
        BY DEF FieldAt
      <4>4. a \in start..(start + count - 1) /\ b \in start..(start + count - 1) /\ a < b
        BY <4>1, <3>3
      <4> QED
        BY <4>2, <4>3, <4>4, <3>2
    <3> QED
      BY <2>3, <3>1, <3>3 DEF Ascending
  <2>5. CASE kinds[n] # "Object"
    <3>1. fieldCounts[n] = 0
      BY <2>1, <2>5, <1>1 DEF RowValid, NoFieldSpan
    <3> QED
      BY <2>3, <3>1 DEF Ascending
  <2> QED
    BY <2>4, <2>5
<1>6. \A n \in Nodes : Edges(Tables, n) = Edges(s, n)
  BY <1>1 DEF Edges, Tables, Slots
<1>7. Below(Tables) = Below(s)
  BY <1>2, <1>6, BelowIsEdges DEF Below
<1>8. LayersInv
  BY <1>1, <1>2, <1>7 DEF Sound, LayersInv
<1> QED
  BY <1>3, <1>4, <1>5, <1>8 DEF TreeInv, RowsInv

LEMMA SoundTablesLater == SoundTablesAreTrees'
  BY SoundTables, PTL

LEMMA CanonicalSound == Sound(CanonicalTables)
<1> DEFINE size == Len(Canonical)
<1>1. size \in Nat /\ DOMAIN Canonical = 1..size /\ Canonical \in Seq(Kinds)
  BY CanonicalHasNoObject
<1>2. PICK s : s = CanonicalTables
  OBVIOUS
<1>3. /\ s.kinds = Canonical /\ s.fieldKeys = <<>> /\ s.fieldTypes = <<>> /\ s.fieldPresence = <<>>
      /\ s.parents = [i \in 1..size |-> i] /\ s.ranks = [i \in 1..size |-> 0]
      /\ s.left = [i \in 1..size |-> 0] /\ s.right = [i \in 1..size |-> 0]
      /\ s.fieldStarts = [i \in 1..size |-> 0] /\ s.fieldCounts = [i \in 1..size |-> 0]
  BY <1>1, <1>2 DEF CanonicalTables, NoNode
<1> HIDE DEF size
<1>4. Ids(s) = 1..size
  BY <1>3 DEF Ids, size
<1>5. \A f \in [1..size -> Nat] : f \in Seq(Nat) /\ Len(f) = size
  BY <1>1
<1>6. [i \in 1..size |-> i] \in [1..size -> Nat] /\ [i \in 1..size |-> 0] \in [1..size -> Nat]
  BY <1>1
<1>7. TablesSized(s)
  <2>1. \A table \in {s.parents, s.ranks, s.left, s.right, s.fieldStarts, s.fieldCounts} :
          table \in Seq(Nat) /\ Len(table) = Len(s.kinds)
    BY <1>3, <1>5, <1>6 DEF size
  <2>2. /\ s.fieldKeys \in Seq(Key)
        /\ s.fieldTypes \in Seq(Nat) /\ Len(s.fieldTypes) = Len(s.fieldKeys)
        /\ s.fieldPresence \in Seq(Presence) /\ Len(s.fieldPresence) = Len(s.fieldKeys)
    BY <1>3
  <2> QED
    BY <2>1, <2>2, <1>1, <1>3 DEF TablesSized
<1>8. CanonicalPrefix(s)
  BY <1>1, <1>3 DEF CanonicalPrefix, size
<1>9. CanonicalScalars(s)
  BY <1>4, <1>1 DEF CanonicalScalars, size
<1>10. ASSUME NEW n \in Ids(s) PROVE RowValid(s, n) /\ Edges(s, n) = {} /\ s.parents[n] = n
  <2>1. n \in 1..size /\ s.kinds[n] = Canonical[n]
    BY <1>3, <1>4
  <2>2. s.kinds[n] \in LeafKinds /\ s.kinds[n] # "Var"
    BY <2>1, <1>1, CanonicalKinds
  <2>3. s.kinds[n] \notin {"Array", "Union", "Object"}
    <3>1. ScalarKinds \subseteq {"Null", "Undefined", "Boolean", "Number", "String",
                                "BigInt", "Symbol"}
      BY ScalarsAssumption DEF ScalarKinds
    <3> QED
      BY <2>2, <3>1 DEF LeafKinds
  <2> QED
    BY <2>1, <2>3, <1>3 DEF RowValid, NoFieldSpan, Edges, NoNode
<1>11. \A i \in 1..Len(s.fieldKeys) : s.fieldTypes[i] \in Ids(s)
  <2>1. Len(s.fieldKeys) = 0
    BY <1>3
  <2> QED
    BY <2>1
<1>12. IsGraph(Ids(s), s.parents, Below(s))
  <2>1. s.parents \in [Ids(s) -> Ids(s)]
    BY <1>3, <1>4
  <2>2. Below(s) \in [Ids(s) -> SUBSET Ids(s)]
    BY <1>10 DEF Below
  <2> QED
    BY <2>1, <2>2 DEF IsGraph
<1>13. Layered(Ids(s), s.parents, Below(s), [n \in Ids(s) |-> 0])
  <2>1. \A n \in Ids(s) : Below(s)[n] = {}
    BY <1>10 DEF Below
  <2> QED
    BY <2>1, <1>10 DEF Layered, Decreases
<1> QED
  BY <1>2, <1>7, <1>8, <1>9, <1>10, <1>11, <1>12, <1>13 DEF Sound

LEMMA RestartTree ==
  ASSUME OnlyCanonicalScalars, NEW s, s = CanonicalTables \/ s \in Snapshots, Become(s)
  PROVE  TreeInv'
<1>1. Sound(s)
  <2>1. CASE s \in Snapshots
    <3>1. Valid(s) /\ CanonicalScalars(s)
      BY <2>1, ArenaAssumption DEF OnlyCanonicalScalars, CanonicalScalars
    <3> QED
      BY <3>1, SoundSnapshots
  <2> QED
    BY <2>1, CanonicalSound
<1>2. Holds(s)'
  BY DEF Become, Holds
<1> QED
  BY <1>1, <1>2, SoundTablesLater DEF SoundTablesAreTrees

LEMMA InitTree ==
  ASSUME Init
  PROVE  TreeInv
<1>1. PICK s : s = CanonicalTables
  OBVIOUS
<1>2. Holds(s)
  BY <1>1 DEF Init, Holds, CanonicalTables
<1> QED
  BY <1>1, <1>2, CanonicalSound, SoundTables DEF SoundTablesAreTrees

-----------------------------------------------------------------------------
(* What the running join has at hand                                       *)

LEMMA ForestFacts ==
  ASSUME ForestInv
  PROVE  /\ TablesInv /\ SpansInv /\ TreeInv
         /\ Len(kinds) \in Nat /\ FieldLength \in Nat /\ Nodes = 1..Len(kinds)
         /\ NoNode \notin Nodes
         /\ \A n \in Nodes : Find(n) \in Nodes /\ parents[Find(n)] = Find(n)
         /\ \A o : Hidden(o) => \A n \in Nodes \ {o} : Find(n) # o
         /\ Settles(parents) /\ \A S : Settles(Compressed(S))
<1>1. TablesInv /\ SpansInv /\ TreeInv /\ SizesInv /\ RowsInv /\ LayersInv
  BY DEF ForestInv, Inv, TreeInv
<1> QED
  BY <1>1, NodeFacts, FindFacts, FindAvoids, CompressedSettles

LEMMA OpenFacts ==
  ASSUME ForestInv
  PROVE  /\ IsTable(frames) /\ Len(frames) \in Nat /\ DOMAIN frames = 1..Len(frames)
         /\ \A i \in Open : /\ i \in 1..Len(frames) /\ frames[i] \in FrameType
                            /\ Unseen(frames[i].out) /\ frames[i].out \in Objects
                            /\ Readable(frames[i])
         /\ \A i, j \in Open : i < j => frames[i].out # frames[j].out
<1>1. IsTable(frames) /\ Len(frames) \in Nat /\ DOMAIN frames = 1..Len(frames)
  BY DEF ForestInv, Inv, FramesInv, IsTable
<1>2. \A i \in Open : i \in 1..Len(frames)
  BY <1>1 DEF Open
<1>3. \A i \in 1..Len(frames) : frames[i] \in FrameType
  BY <1>1 DEF ForestInv, ControlInv
<1> QED
  BY <1>1, <1>2, <1>3 DEF ForestInv, HiddenInv, Inv, FramesInv, Appendable

LEMMA CallFacts ==
  ASSUME ForestInv, call # NoCall
  PROVE  /\ call[1] \in Nodes /\ call[2] \in Nodes
         /\ L \in Nodes /\ parents[L] = L /\ R \in Nodes /\ parents[R] = R
         /\ Joining => L # R
         /\ \A o : Unseen(o) => L # o /\ R # o
<1>1. call[1] \in Nodes /\ call[2] \in Nodes
  BY DEF ForestInv, ControlInv
<1>2. L \in Nodes /\ parents[L] = L /\ R \in Nodes /\ parents[R] = R
  BY <1>1, ForestFacts DEF L, R
<1>3. Joining => L # R
  BY <1>2, ForestFacts DEF Joining, Absorbed
<1>4. ASSUME NEW o, Unseen(o) PROVE L # o /\ R # o
  BY <1>1, <1>4, ForestFacts DEF Unseen, L, R
<1> QED
  BY <1>1, <1>2, <1>3, <1>4

\* Two scalars of one kind would have to be one canonical node.
LEMMA NoTwins ==
  ASSUME ForestInv
  PROVE  ~LinkSameKind
<1> SUFFICES ASSUME LinkSameKind PROVE FALSE
  OBVIOUS
<1>1. call # NoCall /\ Joining /\ kinds[L] = kinds[R] /\ kinds[L] \in ScalarKinds
  BY DEF LinkSameKind, Joining
<1>2. L \in Nodes /\ R \in Nodes /\ L # R
  BY <1>1, CallFacts
<1>3. L <= Len(Canonical) /\ R <= Len(Canonical)
  BY <1>1, <1>2 DEF ForestInv, TreeInv, PrefixInv
<1>4. L \in DOMAIN Canonical /\ R \in DOMAIN Canonical
  BY <1>2, <1>3, ForestFacts, CanonicalHasNoObject
<1>5. kinds[L] = Canonical[L] /\ kinds[R] = Canonical[R]
  BY <1>4 DEF ForestInv, TreeInv, PrefixInv
<1> QED
  BY <1>1, <1>2, <1>4, <1>5, CanonicalKinds

LEMMA TopFacts ==
  ASSUME ForestInv, frames # <<>>
  PROVE  /\ Len(frames) \in 1..Len(frames) /\ Top \in FrameType
         /\ Top.op = "object" => /\ Len(frames) \in Open
                                 /\ Unseen(Top.out) /\ Appendable(Top.out)
                                 /\ Top.out \in Objects /\ Readable(Top)
<1>1. IsTable(frames) /\ DOMAIN frames = 1..Len(frames)
  BY OpenFacts
<1>2. Len(frames) \in 1..Len(frames)
  <2>1. PICK S : frames \in Seq(S)
    BY <1>1, TableIsSeq DEF IsTable
  <2> QED
    BY <2>1, EmptySeq
<1>3. Top \in FrameType
  BY <1>2 DEF ForestInv, ControlInv, Top
<1>4. ASSUME Top.op = "object"
      PROVE  Len(frames) \in Open /\ Unseen(Top.out) /\ Appendable(Top.out) /\ Readable(Top)
  <2>1. Len(frames) \in Open
    BY <1>1, <1>2, <1>4 DEF Open, Top
  <2> QED
    BY <2>1, OpenFacts DEF Top, ForestInv, Inv, FramesInv
<1> QED
  BY <1>2, <1>3, <1>4 DEF Appendable

\* The fields the merge on top compares are in the table, and none is its output.
LEMMA MergeFacts ==
  ASSUME ForestInv
  PROVE  /\ LeftKeys => Top.l \in 1..FieldLength
         /\ RightKeys => Top.r \in 1..FieldLength
         /\ \A i \in 1..FieldLength : /\ fieldKeys[i] \in Key /\ fieldTypes[i] \in Nodes
                                      /\ fieldPresence[i] \in Presence
         /\ \A o : Hidden(o) => \A i \in 1..FieldLength : fieldTypes[i] # o
<1>1. /\ \A i \in 1..FieldLength : /\ fieldKeys[i] \in Key /\ fieldTypes[i] \in Nodes
                                   /\ fieldPresence[i] \in Presence
      /\ FieldLength \in Nat
  <2>1. /\ FieldLength \in Nat /\ FieldLength = Len(fieldKeys) /\ fieldKeys \in Seq(Key)
        /\ fieldPresence \in Seq(Presence) /\ Len(fieldPresence) = FieldLength
        /\ \A i \in 1..FieldLength : fieldTypes[i] \in Nodes
    BY ForestFacts DEF TreeInv, SizesInv, FieldLength
  <2> QED
    BY <2>1, ElementOfSeq
<1>2. ASSUME LeftKeys PROVE Top.l \in 1..FieldLength
  <2>1. frames # <<>> /\ Top.op = "object" /\ Top.l < Top.lEnd
    BY <1>2 DEF LeftKeys, Waiting
  <2>2. Top.l \in Nat /\ Top.lEnd \in Nat /\ Top.l >= 1 /\ Top.lEnd <= FieldLength + 1
    BY <2>1, TopFacts DEF FrameType, Readable
  <2> QED
    BY <2>1, <2>2, <1>1
<1>3. ASSUME RightKeys PROVE Top.r \in 1..FieldLength
  <2>1. frames # <<>> /\ Top.op = "object" /\ Top.r < Top.rEnd
    BY <1>3 DEF RightKeys, Waiting
  <2>2. Top.r \in Nat /\ Top.rEnd \in Nat /\ Top.r >= 1 /\ Top.rEnd <= FieldLength + 1
    BY <2>1, TopFacts DEF FrameType, Readable
  <2> QED
    BY <2>1, <2>2, <1>1
<1> QED
  BY <1>1, <1>2, <1>3 DEF Hidden

-----------------------------------------------------------------------------
(* The open objects through a step                                         *)

\* The step leaves what is open unseen, and its slots readable.
StillUnseen(o) == Unseen(o) /\ o \in Objects => Unseen(o)'

\* A step that opens no object.
LEMMA OpenKept ==
  ASSUME ForestInv, FieldLength' \in Nat, FieldLength' >= FieldLength,
         \A i \in Open' : i \in Open /\ frames'[i] = frames[i],
         \A i \in Open' : StillUnseen(frames[i].out)
  PROVE  \A i \in Open' : Unseen(frames[i].out)' /\ Readable(frames[i])'
<1> SUFFICES ASSUME NEW i \in Open' PROVE Unseen(frames[i].out)' /\ Readable(frames[i])'
  OBVIOUS
<1>1. i \in Open /\ frames'[i] = frames[i]
  OBVIOUS
<1>2. PICK f, o : f = frames[i] /\ o = frames[i].out
  OBVIOUS
<1>3. Unseen(o) /\ o \in Objects /\ Readable(f) /\ f \in FrameType /\ FieldLength \in Nat
  BY <1>1, <1>2, OpenFacts, ForestFacts
<1>4. Unseen(o)'
  BY <1>1, <1>2, <1>3 DEF StillUnseen
<1>5. Readable(f)'
  BY <1>3 DEF Readable, FrameType
<1> QED
  BY <1>1, <1>2, <1>4, <1>5

LEMMA UnknownIsNode ==
  ASSUME ForestInv
  PROVE  Unknown \in Nodes /\ Unknown \notin Objects
<1>1. Canonical \in Seq(Kinds) /\ Len(Canonical) \in Nat /\ Unknown \in 1..Len(Canonical)
  <2>1. <<"Never", "Unknown">> \in Seq(Kinds) /\ Len(<<"Never", "Unknown">>) = 2
    BY DEF Kinds, LeafKinds
  <2>2. Scalars \in Seq(Kinds) /\ Len(Scalars) \in Nat
    <3>1. Scalars \in Seq({"Null", "Undefined", "Boolean", "Number", "String",
                           "BigInt", "Symbol"})
      BY ScalarsAssumption
    <3>2. \A i \in 1..Len(Scalars) : Scalars[i] \in Kinds
      BY <3>1 DEF Kinds, LeafKinds, ScalarKinds
    <3>3. Scalars \in [1..Len(Scalars) -> Kinds] /\ Len(Scalars) \in Nat
      BY <3>1, <3>2
    <3> QED
      BY <3>3
  <2>3. Len(Canonical) = 2 + Len(Scalars)
    BY <2>1, <2>2, ConcatProperties DEF Canonical
  <2> QED
    BY <2>2, <2>3, CanonicalHasNoObject DEF Unknown
<1>2. Unknown \in Nodes /\ kinds[Unknown] = Canonical[Unknown]
  BY <1>1, ForestFacts DEF TreeInv, PrefixInv
<1>3. kinds[Unknown] # "Object"
  BY <1>1, <1>2, CanonicalHasNoObject
<1> QED
  BY <1>2, <1>3 DEF Objects

\* The control state of a step of the running join.
LEMMA ControlKept ==
  ASSUME ControlInv, Nodes \subseteq Nodes', UNCHANGED <<building, joins>>,
         answer' \in Nodes' \cup {NoNode},
         call' \in (Nodes' \X Nodes') \cup {NoCall},
         args' = args \/ args' = NoCall, NoJoin' => args' = NoCall,
         frames' \in Seq(FrameType),
         Len(kinds') <= MaxNodes, FieldLength' <= MaxFields
  PROVE  ControlInv'
  BY DEF ControlInv

LEMMA PoppedFrames ==
  ASSUME ForestInv, frames # <<>>, frames' = Popped
  PROVE  /\ frames' \in Seq(FrameType)
         /\ \A i \in Open' : i \in Open /\ frames'[i] = frames[i] /\ i < Len(frames)
<1>1. IsTable(frames) /\ Len(frames) \in Nat /\ Len(frames) > 0
  BY TopFacts, OpenFacts
<1>2. frames \in Seq(FrameType)
  BY DEF ForestInv, ControlInv
<1>3. frames' \in Seq(FrameType) /\ Len(frames') = Len(frames) - 1
      /\ \A i \in 1..(Len(frames) - 1) : frames'[i] = frames[i]
  BY <1>1, <1>2, PoppedTable DEF Popped
<1>4. DOMAIN frames' = 1..(Len(frames) - 1) /\ DOMAIN frames = 1..Len(frames)
  BY <1>1, <1>2, <1>3
<1> QED
  BY <1>1, <1>3, <1>4 DEF Open

LEMMA PushedFrames ==
  ASSUME ForestInv, NEW f \in FrameType, frames' = Append(frames, f)
  PROVE  /\ frames' \in Seq(FrameType)
         /\ \A i \in Open' : \/ i \in Open /\ frames'[i] = frames[i]
                             \/ f.op = "object" /\ frames'[i] = f
<1>1. frames \in Seq(FrameType) /\ Len(frames) \in Nat /\ DOMAIN frames = 1..Len(frames)
  BY OpenFacts DEF ForestInv, ControlInv
<1>2. PICK k \in Nat : k = Len(frames)
  BY <1>1
<1>3. /\ frames' \in Seq(FrameType) /\ DOMAIN frames' = 1..(k + 1)
      /\ frames'[k + 1] = f /\ \A i \in 1..k : frames'[i] = frames[i]
  BY <1>1, <1>2
<1> QED
  BY <1>1, <1>2, <1>3 DEF Open

-----------------------------------------------------------------------------
(* Every step keeps the forest                                             *)

\* The invariant besides the spans.
Forest == TreeInv /\ HiddenInv /\ ControlInv

\* A step of the join that opens no object and appends no field.
LEMMA JoinForest ==
  ASSUME ForestInv, ~NoJoin, TreeInv', Nodes \subseteq Nodes', FieldLength' = FieldLength,
         Len(kinds') <= MaxNodes, UNCHANGED <<building, joins>>,
         answer' \in Nodes' \cup {NoNode}, call' \in (Nodes \X Nodes) \cup {NoCall},
         args' = args \/ args' = NoCall, NoJoin' => args' = NoCall, frames' \in Seq(FrameType),
         \A i \in Open' : i \in Open /\ frames'[i] = frames[i],
         \A i \in Open' : LET o == frames[i].out IN
           Unseen(o) /\ o \in Objects =>
             /\ Hidden(o)' /\ answer' # o
             /\ call' # NoCall => call'[1] # o /\ call'[2] # o
  PROVE  Forest'
<1>1. building' = NoNode
  BY DEF ForestInv, Inv, BuilderInv
<1>2. ASSUME NEW i \in Open' PROVE StillUnseen(frames[i].out)
  <2>1. PICK o : o = frames[i].out
    OBVIOUS
  <2>2. ASSUME Unseen(o), o \in Objects PROVE Unseen(o)'
    <3>1. Hidden(o)' /\ answer' # o /\ (call' # NoCall => call'[1] # o /\ call'[2] # o)
      BY <2>1, <2>2
    <3>2. NoCall' = NoCall
      BY DEF NoCall
    <3> QED
      BY <3>1, <3>2 DEF Unseen
  <2> QED
    BY <2>1, <2>2 DEF StillUnseen
<1>3. HiddenInv'
  <2>1. FieldLength' \in Nat /\ FieldLength' >= FieldLength
    BY ForestFacts
  <2>2. \A i \in Open' : Unseen(frames[i].out)' /\ Readable(frames[i])'
    BY <2>1, <1>2, OpenKept
  <2> QED
    BY <2>2, <1>1 DEF HiddenInv
<1>4. ControlInv'
  <2>1. FieldLength' <= MaxFields /\ ControlInv
    BY DEF ForestInv, ControlInv
  <2>2. call' \in (Nodes' \X Nodes') \cup {NoCall}
    OBVIOUS
  <2> QED
    BY <2>1, <2>2, ControlKept
<1> QED
  BY <1>3, <1>4 DEF Forest

\* One in which no table but parents changes, and those by find.
LEMMA QuietJoin ==
  ASSUME ForestInv, ~NoJoin, OnlyParents, ranks' = ranks, Settles(parents'),
         UNCHANGED <<building, joins>>,
         answer' \in Nodes \cup {NoNode}, call' \in (Nodes \X Nodes) \cup {NoCall},
         args' = args \/ args' = NoCall, NoJoin' => args' = NoCall, frames' \in Seq(FrameType),
         \A i \in Open' : i \in Open /\ frames'[i] = frames[i],
         \A i \in Open' : LET o == frames[i].out IN
           Unseen(o) /\ o \in Objects =>
             answer' # o /\ (call' # NoCall => call'[1] # o /\ call'[2] # o)
  PROVE  Forest'
<1>1. TreeInv' /\ \A o : Unseen(o) => Hidden(o)'
  BY ForestFacts, QuietTree DEF Unseen
<1>2. Nodes' = Nodes /\ FieldLength' = FieldLength /\ kinds' = kinds
  BY ParentsOnly DEF OnlyParents
<1>3. Len(kinds') <= MaxNodes
  BY <1>2 DEF ForestInv, ControlInv
<1>4. answer' \in Nodes' \cup {NoNode} /\ Nodes \subseteq Nodes'
  BY <1>2
<1> QED
  BY <1>1, <1>2, <1>3, <1>4, JoinForest

LEMMA AbsorbedForest ==
  ASSUME ForestInv, JoinAbsorbed
  PROVE  Forest'
<1>1. call # NoCall /\ ~NoJoin
  BY DEF JoinAbsorbed, NoJoin
<1>2. /\ OnlyParents /\ ranks' = ranks /\ UNCHANGED <<building, joins, args, frames>>
      /\ call' = NoCall /\ answer' = Absorbed
  BY DEF JoinAbsorbed, Answer, nodeShape, fieldTable, OnlyParents
<1>3. Settles(parents')
  BY ForestFacts DEF JoinAbsorbed
<1>4. Absorbed \in {L, R, Unknown}
  <2>1. Absorbed # NoNode
    BY DEF JoinAbsorbed
  <2> QED
    BY <2>1 DEF Absorbed
<1>5. L \in Nodes /\ R \in Nodes /\ Unknown \in Nodes /\ Unknown \notin Objects
      /\ \A o : Unseen(o) => L # o /\ R # o
  BY <1>1, CallFacts, UnknownIsNode
<1>6. frames' \in Seq(FrameType) /\ \A i \in Open' : i \in Open /\ frames'[i] = frames[i]
  BY <1>2 DEF ForestInv, ControlInv, Open
<1>7. ~NoJoin'
  <2>1. Absorbed # NoNode /\ NoNode' = NoNode
    BY DEF JoinAbsorbed, NoNode
  <2> QED
    BY <2>1, <1>2 DEF NoJoin
<1> QED
  BY <1>1, <1>2, <1>3, <1>4, <1>5, <1>6, <1>7, QuietJoin

LEMMA ArraysForest ==
  ASSUME ForestInv, JoinArrays
  PROVE  Forest'
<1>1. call # NoCall /\ ~NoJoin /\ kinds[L] = "Array" /\ kinds[R] = "Array"
  BY DEF JoinArrays, Joining, NoJoin
<1>2. /\ OnlyParents /\ ranks' = ranks /\ UNCHANGED <<building, joins, args, answer>>
      /\ call' = <<left[L], left[R]>> /\ frames' = Append(frames, ArrayFrame)
  BY DEF JoinArrays, nodeShape, fieldTable, OnlyParents
<1>3. Settles(parents')
  BY ForestFacts DEF JoinArrays
<1>4. L \in Nodes /\ R \in Nodes /\ left[L] \in Nodes /\ left[R] \in Nodes
  <2>1. L \in Nodes /\ R \in Nodes
    BY <1>1, CallFacts
  <2> QED
    BY <2>1, <1>1, NodeFacts, ForestFacts DEF TreeInv
<1>5. frames' \in Seq(FrameType) /\ \A i \in Open' : i \in Open /\ frames'[i] = frames[i]
  <2>1. ArrayFrame \in FrameType /\ ArrayFrame.op # "object"
    BY DEF ArrayFrame, FrameType, NoNode
  <2>2. PICK f : f = ArrayFrame
    OBVIOUS
  <2> QED
    BY <2>1, <2>2, <1>2, PushedFrames
<1>6. ASSUME NEW o, Unseen(o) PROVE left[L] # o /\ left[R] # o /\ answer # o
  BY <1>4, <1>6 DEF Unseen, Hidden
<1>7. answer' \in Nodes \cup {NoNode} /\ call'[1] = left[L] /\ call'[2] = left[R]
      /\ call' \in Nodes \X Nodes
  BY <1>2, <1>4 DEF ForestInv, ControlInv
<1>8. ~NoJoin'
  <2>1. NoCall' = <<>> /\ call' # <<>>
    BY <1>2 DEF NoCall
  <2> QED
    BY <2>1 DEF NoJoin
<1> QED
  BY <1>1, <1>2, <1>3, <1>5, <1>6, <1>7, <1>8, QuietJoin

LEMMA SharedForest ==
  ASSUME ForestInv, MergeShared
  PROVE  Forest'
<1>1. ~NoJoin /\ LeftKeys /\ RightKeys
  BY DEF MergeShared, SharedKey, LeftKeys, Waiting, NoJoin
<1>2. /\ OnlyParents /\ ranks' = ranks /\ parents' = parents
      /\ UNCHANGED <<building, joins, args, answer, frames>>
      /\ call' = <<fieldTypes[Top.l], fieldTypes[Top.r]>>
  BY DEF MergeShared, nodeShape, fieldTable, OnlyParents
<1>3. Settles(parents')
  BY <1>2, ForestFacts
<1>4. PICK a, b : /\ a = fieldTypes[Top.l] /\ b = fieldTypes[Top.r]
                  /\ a \in Nodes /\ b \in Nodes
                  /\ \A o : Hidden(o) => a # o /\ b # o
  BY <1>1, MergeFacts
<1>5. frames' \in Seq(FrameType) /\ \A i \in Open' : i \in Open /\ frames'[i] = frames[i]
  BY <1>2 DEF ForestInv, ControlInv, Open
<1>6. answer' \in Nodes \cup {NoNode} /\ call'[1] = a /\ call'[2] = b
      /\ call' \in Nodes \X Nodes
  BY <1>2, <1>4 DEF ForestInv, ControlInv
<1>7. ASSUME NEW o, Unseen(o) PROVE a # o /\ b # o /\ answer' # o
  BY <1>2, <1>4, <1>7 DEF Unseen
<1>8. ~NoJoin'
  <2>1. NoCall' = <<>> /\ call' # <<>>
    BY <1>2 DEF NoCall
  <2> QED
    BY <2>1 DEF NoJoin
<1> QED
  BY <1>1, <1>2, <1>3, <1>5, <1>6, <1>7, <1>8, QuietJoin

LEMMA FinishForest ==
  ASSUME ForestInv, FinishObject
  PROVE  Forest'
<1>1. ~NoJoin /\ call = NoCall /\ frames # <<>> /\ Top.op = "object"
  BY DEF FinishObject, Waiting, NoJoin
<1>2. /\ OnlyParents /\ ranks' = ranks /\ parents' = parents
      /\ UNCHANGED <<building, joins, args, call>>
      /\ answer' = Top.out /\ frames' = Popped
  BY DEF FinishObject, nodeShape, fieldTable, OnlyParents
<1>3. Settles(parents')
  BY <1>2, ForestFacts
<1>4. /\ frames' \in Seq(FrameType)
      /\ \A i \in Open' : i \in Open /\ frames'[i] = frames[i] /\ i < Len(frames)
  BY <1>1, <1>2, PoppedFrames
<1>5. Len(frames) \in Open /\ Top.out \in Nodes
  BY <1>1, TopFacts DEF Objects
<1>6. \A i \in Open' : frames[i].out # answer'
  BY <1>2, <1>4, <1>5, OpenFacts DEF Top
<1>7. ~NoJoin'
  BY <1>2, <1>5, ForestFacts DEF NoJoin, NoNode
<1> QED
  BY <1>1, <1>2, <1>3, <1>4, <1>5, <1>6, <1>7, QuietJoin

LEMMA AbortForest ==
  ASSUME ForestInv, Abort \/ ReturnJoin
  PROVE  Forest'
<1>1. ~NoJoin
  BY DEF Abort, ReturnJoin, SharedKey, LeftKeys, RightKeys, LeftFirst, RightFirst,
         AppendFails, AllocFails, NeedsUnion, Waiting, Joining, NoJoin
<1>2. /\ OnlyParents /\ ranks' = ranks /\ UNCHANGED <<building, joins>>
      /\ call' = NoCall /\ frames' = <<>> /\ answer' = NoNode /\ args' = NoCall
  BY DEF Abort, ReturnJoin, nodeShape, fieldTable, OnlyParents
<1>3. Settles(parents')
  BY ForestFacts DEF Abort, ReturnJoin
<1>4. frames' \in Seq(FrameType) /\ Open' = {}
  BY <1>2 DEF Open
<1> QED
  BY <1>1, <1>2, <1>3, <1>4, QuietJoin

LEMMA BindForest ==
  ASSUME ForestInv, BindVar
  PROVE  Forest'
<1>1. Joining /\ call # NoCall /\ ~NoJoin /\ "Var" \in {kinds[L], kinds[R]}
  BY DEF BindVar, Joining, NoJoin
<1>2. /\ L \in Nodes /\ parents[L] = L /\ R \in Nodes /\ parents[R] = R /\ L # R
      /\ \A o : Unseen(o) => L # o /\ R # o
  BY <1>1, CallFacts
<1>3. PICK v, t, qs, occurs :
        /\ v \in {L, R} /\ t \in {L, R} /\ kinds[v] = "Var"
        /\ Settles(qs)
        /\ occurs = Occurs(v, t).occurs
        /\ IF occurs THEN parents' = qs /\ Answer(Unknown)
                     ELSE parents' = [qs EXCEPT ![v] = t] /\ Answer(t)
  <2>1. PICK v, t : /\ v = (IF kinds[L] = "Var" THEN L ELSE R)
                    /\ t = (IF kinds[L] = "Var" THEN R ELSE L)
    OBVIOUS
  <2>2. PICK qs : qs = Compressed({call[1], call[2]} \cup Occurs(v, t).looked)
    OBVIOUS
  <2>3. v \in {L, R} /\ t \in {L, R} /\ kinds[v] = "Var"
    BY <2>1, <1>1
  <2>4. Settles(qs)
    BY <2>2, ForestFacts
  <2>5. IF Occurs(v, t).occurs THEN parents' = qs /\ Answer(Unknown)
        ELSE parents' = [qs EXCEPT ![v] = t] /\ Answer(t)
    BY <2>1, <2>2 DEF BindVar
  <2> QED
    BY <2>3, <2>4, <2>5
<1>4. OnlyParents /\ ranks' = ranks
  BY DEF BindVar, nodeShape, fieldTable, OnlyParents
<1>5. /\ UNCHANGED <<building, joins, args, frames>> /\ call' = NoCall
      /\ answer' = IF occurs THEN Unknown ELSE t
  BY <1>3 DEF Answer
<1>6. frames' \in Seq(FrameType) /\ \A i \in Open' : i \in Open /\ frames'[i] = frames[i]
  BY <1>5 DEF ForestInv, ControlInv, Open
<1>7. CASE occurs
  <2>1. Settles(parents') /\ answer' = Unknown
    BY <1>3, <1>5, <1>7
  <2>2. ~NoJoin'
    BY <2>1 DEF NoJoin, NoNode, Unknown
  <2> QED
    BY <2>1, <2>2, <1>1, <1>4, <1>5, <1>6, UnknownIsNode, QuietJoin
<1>8. CASE ~occurs
  <2>1. parents' = [qs EXCEPT ![v] = t] /\ ~Occurs(v, t).occurs /\ answer' = t
    BY <1>3, <1>5, <1>8
  <2>2. v \in Nodes /\ parents[v] = v /\ t \in Nodes /\ parents[t] = t
        /\ \A o : Unseen(o) => v # o /\ t # o
    BY <1>2, <1>3
  <2>3. TreeInv' /\ \A o : Hidden(o) /\ o # v /\ o # t => Hidden(o)'
    BY <2>1, <2>2, <1>3, <1>4, ForestFacts, BindTree
  <2>4. \A o : Unseen(o) => Hidden(o)' /\ answer' # o
    BY <2>1, <2>2, <2>3 DEF Unseen
  <2>5. Nodes' = Nodes /\ FieldLength' = FieldLength /\ kinds' = kinds
    BY <1>4, ParentsOnly DEF OnlyParents
  <2>6. Len(kinds') <= MaxNodes /\ answer' \in Nodes'
    BY <2>1, <2>2, <2>5 DEF ForestInv, ControlInv
  <2>7. ~NoJoin'
    BY <2>1, <2>2, ForestFacts DEF NoJoin, NoNode
  <2> QED
    BY <2>3, <2>4, <2>5, <2>6, <2>7, <1>1, <1>5, <1>6, JoinForest
<1> QED
  BY <1>7, <1>8

\* What allocRaw does to the sizes.
LEMMA AllocSizes ==
  ASSUME ForestInv, NEW kind, NEW l, NEW r, NEW qs, Settles(qs), AllocRaw(kind, l, r, qs),
         NEW new, new = Len(kinds) + 1
  PROVE  /\ Nodes' = Nodes \cup {new} /\ new \notin Nodes /\ new # NoNode
         /\ FieldLength' = FieldLength /\ Len(kinds') <= MaxNodes
<1>1. Len(kinds) \in Nat /\ Nodes = 1..Len(kinds) /\ kinds \in Seq(Kinds)
  BY ForestFacts DEF TablesInv
<1>2. kinds' = Append(kinds, kind) /\ Len(kinds) < MaxNodes /\ fieldKeys' = fieldKeys
  BY DEF AllocRaw, HasRoom, fieldTable
<1>3. Len(kinds') = Len(kinds) + 1
  BY <1>1, <1>2, AppendTable, SeqIsTable
<1>4. MaxNodes \in Nat
  BY ArenaAssumption
<1> QED
  BY <1>1, <1>2, <1>3, <1>4 DEF Nodes, FieldLength, NoNode

LEMMA UnionForest ==
  ASSUME ForestInv, AllocUnion
  PROVE  Forest'
<1>1. Joining /\ call # NoCall /\ ~NoJoin
  BY DEF AllocUnion, NeedsUnion, Joining, NoJoin
<1>2. /\ L \in Nodes /\ R \in Nodes /\ L # R /\ \A o : Unseen(o) => L # o /\ R # o
  BY <1>1, CallFacts
<1>3. PICK l, r, qs : /\ l \in {L, R} /\ r \in {L, R} /\ l # r /\ Settles(qs)
                      /\ AllocRaw("Union", l, r, qs)
  <2>1. Settles(Compressed({call[1], call[2]}))
    BY ForestFacts
  <2> QED
    BY <2>1, <1>2 DEF AllocUnion
<1>4. PICK new : new = Len(kinds) + 1
  OBVIOUS
<1>5. /\ UNCHANGED <<building, joins, args, frames>> /\ call' = NoCall /\ answer' = new
  BY <1>4 DEF AllocUnion, Answer
<1>6. TreeInv' /\ \A o : Hidden(o) /\ l # o /\ r # o => Hidden(o)'
  <2>1. Shaped("Union", l, r)
    BY <1>2, <1>3 DEF Shaped
  <2>2. PICK kind : kind = "Union"
    OBVIOUS
  <2> QED
    BY <2>1, <2>2, <1>3, <1>4, ForestFacts, AllocTree
<1>7. /\ Nodes' = Nodes \cup {new} /\ new \notin Nodes /\ new # NoNode
      /\ FieldLength' = FieldLength /\ Len(kinds') <= MaxNodes
  BY <1>3, <1>4, AllocSizes
<1>8. frames' \in Seq(FrameType) /\ \A i \in Open' : i \in Open /\ frames'[i] = frames[i]
  BY <1>5 DEF ForestInv, ControlInv, Open
<1>9. \A o : Unseen(o) => Hidden(o)' /\ answer' # o
  BY <1>2, <1>3, <1>5, <1>6, <1>7 DEF Unseen, Hidden
<1>10. ~NoJoin'
  BY <1>5, <1>7 DEF NoJoin, NoNode
<1> QED
  BY <1>1, <1>5, <1>6, <1>7, <1>8, <1>9, <1>10, JoinForest

LEMMA WrapForest ==
  ASSUME ForestInv, WrapArray
  PROVE  Forest'
<1>1. ~NoJoin /\ call = NoCall /\ frames # <<>> /\ answer # NoNode
  BY DEF WrapArray, Waiting, NoJoin
<1>2. answer \in Nodes /\ Find(answer) \in Nodes /\ \A o : Unseen(o) => Find(answer) # o
  BY <1>1, ForestFacts DEF ForestInv, ControlInv, Unseen
<1>3. PICK l, qs : /\ l = Find(answer) /\ Settles(qs) /\ AllocRaw("Array", l, NoNode, qs)
  BY ForestFacts DEF WrapArray
<1>4. PICK new : new = Len(kinds) + 1
  OBVIOUS
<1>5. /\ UNCHANGED <<building, joins, args, call>> /\ answer' = new /\ frames' = Popped
  BY <1>4 DEF WrapArray
<1>6. TreeInv' /\ \A o : Hidden(o) /\ l # o /\ NoNode # o => Hidden(o)'
  <2>1. Shaped("Array", l, NoNode)
    BY <1>2, <1>3 DEF Shaped
  <2>2. PICK kind, r : kind = "Array" /\ r = NoNode
    OBVIOUS
  <2> QED
    BY <2>1, <2>2, <1>3, <1>4, ForestFacts, AllocTree
<1>7. /\ Nodes' = Nodes \cup {new} /\ new \notin Nodes /\ new # NoNode
      /\ FieldLength' = FieldLength /\ Len(kinds') <= MaxNodes
  BY <1>3, <1>4, AllocSizes
<1>8. frames' \in Seq(FrameType) /\ \A i \in Open' : i \in Open /\ frames'[i] = frames[i]
  BY <1>1, <1>5, PoppedFrames
<1>9. \A o : Unseen(o) => Hidden(o)' /\ answer' # o
  <2>1. NoNode \notin Nodes
    BY ForestFacts
  <2> QED
    BY <2>1, <1>2, <1>3, <1>5, <1>6, <1>7 DEF Unseen, Hidden
<1>10. ~NoJoin'
  BY <1>5, <1>7 DEF NoJoin, NoNode
<1> QED
  BY <1>1, <1>5, <1>6, <1>7, <1>8, <1>9, <1>10, JoinForest

LEMMA ObjectsForest ==
  ASSUME ForestInv, JoinObjects
  PROVE  Forest'
<1>1. ~NoJoin /\ call # NoCall /\ kinds[L] = "Object" /\ kinds[R] = "Object"
  BY DEF JoinObjects, Joining, NoJoin
<1>2. L \in Nodes /\ R \in Nodes
  BY <1>1, CallFacts
<1>3. PICK qs : Settles(qs) /\ AllocRaw("Object", NoNode, NoNode, qs)
  BY ForestFacts DEF JoinObjects
<1>4. PICK new : new = Len(kinds) + 1
  OBVIOUS
<1>5. PICK f : /\ frames' = Append(frames, f) /\ f \in FrameType
               /\ f.op = "object" /\ f.out = new /\ Readable(f)
  <2>1. PICK f : f = [op |-> "object", out |-> Len(kinds) + 1,
          l |-> fieldStarts[L], lEnd |-> fieldStarts[L] + fieldCounts[L],
          r |-> fieldStarts[R], rEnd |-> fieldStarts[R] + fieldCounts[R]]
    OBVIOUS
  <2>2. /\ fieldStarts[L] \in Nat /\ fieldCounts[L] \in Nat /\ Len(kinds) \in Nat
        /\ fieldStarts[R] \in Nat /\ fieldCounts[R] \in Nat
        /\ fieldStarts[L] >= 1 /\ fieldStarts[L] + fieldCounts[L] <= FieldLength + 1
        /\ fieldStarts[R] >= 1 /\ fieldStarts[R] + fieldCounts[R] <= FieldLength + 1
    BY <1>1, <1>2, ForestFacts, TableFacts DEF SpansInv
  <2>3. f \in FrameType
    BY <2>1, <2>2 DEF FrameType
  <2>4. Readable(f)
    BY <2>1, <2>2 DEF Readable
  <2> QED
    BY <2>1, <2>3, <2>4, <1>4 DEF JoinObjects
<1>6. UNCHANGED <<building, joins, args, answer>> /\ call' = NoCall
  BY DEF JoinObjects
<1>7. TreeInv' /\ Hidden(new)' /\ \A o : Hidden(o) /\ NoNode # o => Hidden(o)'
  <2>1. PICK kind, l, r : kind = "Object" /\ l = NoNode /\ r = NoNode
    OBVIOUS
  <2>2. Shaped(kind, l, r)
    BY <2>1 DEF Shaped
  <2> QED
    BY <2>1, <2>2, <1>3, <1>4, ForestFacts, AllocTree
<1>8. /\ Nodes' = Nodes \cup {new} /\ new \notin Nodes /\ new # NoNode
      /\ FieldLength' = FieldLength /\ Len(kinds') <= MaxNodes
  BY <1>3, <1>4, AllocSizes
<1>9. answer \in Nodes \cup {NoNode} /\ NoNode \notin Nodes
  BY ForestFacts DEF ForestInv, ControlInv
<1>10. /\ frames' \in Seq(FrameType)
       /\ \A i \in Open' : (i \in Open /\ frames'[i] = frames[i]) \/ frames'[i] = f
  BY <1>5, PushedFrames
<1>11. NoCall' = NoCall
  BY DEF NoCall
<1>12. ASSUME NEW i \in Open', NEW g, g = frames'[i], NEW o, o = g.out
       PROVE  Unseen(o)' /\ Readable(g)'
  <2>1. CASE i \in Open /\ frames'[i] = frames[i]
    <3>1. Unseen(o) /\ Readable(g)
      BY <2>1, <1>12, OpenFacts
    <3>2. Hidden(o)'
      BY <3>1, <1>7, <1>9 DEF Unseen, Hidden
    <3> QED
      BY <3>1, <3>2, <1>6, <1>8, <1>11 DEF Unseen, Readable
  <2>2. CASE g = f
    BY <2>2, <1>5, <1>6, <1>7, <1>8, <1>9, <1>11, <1>12 DEF Unseen, Readable
  <2> QED
    BY <2>1, <2>2, <1>10, <1>12
<1>13. HiddenInv'
  <2>1. \A i \in Open' : Unseen(frames[i].out)' /\ Readable(frames[i])'
    BY <1>12
  <2>2. building' = NoNode
    BY <1>1, <1>6 DEF ForestInv, Inv, BuilderInv
  <2> QED
    BY <2>1, <2>2 DEF HiddenInv
<1>14. ControlInv'
  <2>1. FieldLength' <= MaxFields /\ ControlInv
    BY <1>8 DEF ForestInv, ControlInv
  <2>2. frames' # <<>>
    BY <1>5, OpenFacts, AppendTable
  <2>3. ~NoJoin'
    BY <2>2 DEF NoJoin
  <2> QED
    BY <2>1, <2>3, <1>6, <1>8, <1>9, <1>10, ControlKept
<1> QED
  BY <1>7, <1>13, <1>14 DEF Forest

\* Appending to an object makes the table one slot longer.
LEMMA StoreSizes ==
  ASSUME ForestInv, NEW o \in Objects, NEW key, NEW type, NEW presence,
         StoreField(o, key, type, presence), MayAppend(o, key)
  PROVE  /\ Nodes' = Nodes /\ FieldLength' = FieldLength + 1
         /\ Len(kinds') <= MaxNodes /\ FieldLength' <= MaxFields
<1>1. Nodes' = Nodes /\ FieldLength' = FieldLength + 1 /\ kinds' = kinds
  BY ForestFacts, StoreEffect
<1>2. FieldLength < MaxFields /\ FieldLength \in Nat /\ MaxFields \in Nat
  BY ForestFacts, ArenaAssumption DEF MayAppend
<1> QED
  BY <1>1, <1>2 DEF ForestInv, ControlInv

LEMMA EmitForest ==
  ASSUME ForestInv, EmitShared \/ EmitDrift
  PROVE  Forest'
<1>1. /\ Waiting("object") /\ call = NoCall /\ frames # <<>> /\ ~NoJoin
      /\ UNCHANGED <<building, joins, args, call>> /\ answer' = NoNode
  BY DEF EmitShared, EmitDrift, SharedKey, LeftKeys, RightKeys, LeftFirst, RightFirst,
         Waiting, NoJoin
<1>2. PICK key, node, presence, byLeft, byRight :
        /\ Emit(key, node, presence) /\ Advance(byLeft, byRight)
        /\ byLeft \in {0, 1} /\ byRight \in {0, 1}
        /\ key \in Key /\ node \in Nodes /\ presence \in Presence
        /\ \A o : Unseen(o) => node # o
  <2>1. CASE EmitShared
    <3>1. /\ LeftKeys /\ answer # NoNode /\ Advance(1, 1)
          /\ Emit(fieldKeys[Top.l], answer, IF BothRequired THEN "Required" ELSE "Optional")
      BY <2>1 DEF EmitShared, SharedKey
    <3>2. fieldKeys[Top.l] \in Key
      BY <3>1, MergeFacts
    <3>3. answer \in Nodes /\ \A o : Unseen(o) => answer # o
      BY <3>1 DEF ForestInv, ControlInv, Unseen
    <3>4. (IF BothRequired THEN "Required" ELSE "Optional") \in Presence
      BY DEF Presence
    <3> QED
      BY <3>1, <3>2, <3>3, <3>4
  <2>2. CASE EmitDrift
    <3>1. \/ /\ LeftKeys /\ Advance(1, 0)
             /\ Emit(fieldKeys[Top.l], fieldTypes[Top.l], "Optional")
          \/ /\ RightKeys /\ Advance(0, 1)
             /\ Emit(fieldKeys[Top.r], fieldTypes[Top.r], "Optional")
      BY <2>2 DEF EmitDrift, LeftFirst, RightFirst, DriftPresence
    <3>2. "Optional" \in Presence
      BY DEF Presence
    <3>3. \A o : Unseen(o) => Hidden(o)
      BY DEF Unseen
    <3> QED
      BY <3>1, <3>2, <3>3, MergeFacts
  <2> QED
    BY <2>1, <2>2
<1>3. PICK out, type : out = Top.out /\ type = Find(node)
  OBVIOUS
<1>4. /\ StoreField(out, key, type, presence) /\ MayAppend(out, key)
      /\ parents' = Compressed({node})
  BY <1>2, <1>3 DEF Emit
<1>5. /\ out \in Objects /\ Appendable(out) /\ Unseen(out) /\ Hidden(out)
      /\ Len(frames) \in Open /\ Top \in FrameType
  BY <1>1, <1>3, TopFacts DEF Waiting, Unseen
<1>6. type \in Nodes /\ \A o : Unseen(o) => type # o
  BY <1>2, <1>3, ForestFacts DEF Unseen
<1>7. TreeInv' /\ \A p : Hidden(p) /\ type # p => Hidden(p)'
  <2>1. Settles(parents') /\ type # out
    BY <1>4, <1>5, <1>6, ForestFacts
  <2> QED
    BY <2>1, <1>2, <1>4, <1>5, <1>6, ForestFacts, StoreTree
<1>8. /\ Nodes' = Nodes /\ FieldLength' = FieldLength + 1
      /\ Len(kinds') <= MaxNodes /\ FieldLength' <= MaxFields
  BY <1>4, <1>5, StoreSizes
<1>9. PICK k \in Nat : k = Len(frames)
  BY OpenFacts
<1>10. frames \in Seq(FrameType) /\ DOMAIN frames = 1..k /\ k \in 1..k
  BY <1>1, <1>9, OpenFacts, TopFacts DEF ForestInv, ControlInv
<1>11. frames' = [frames EXCEPT ![k].l = @ + byLeft, ![k].r = @ + byRight]
  BY <1>2, <1>9 DEF Advance
<1>12. PICK f : f = Top /\ f = frames[k] /\ f \in FrameType /\ Readable(f) /\ f.op = "object"
  BY <1>1, <1>5, <1>9, TopFacts DEF Top, Waiting
<1>13. PICK g : g = [f EXCEPT !.l = @ + byLeft, !.r = @ + byRight]
  OBVIOUS
<1>14. g \in FrameType /\ g.out = f.out /\ Readable(g)' /\ g.op = "object"
  <2>1. f.l + byLeft \in Nat /\ f.r + byRight \in Nat
    BY <1>2, <1>12 DEF FrameType
  <2>2. /\ g \in FrameType /\ g.out = f.out /\ g.op = "object"
        /\ g.l = f.l + byLeft /\ g.r = f.r + byRight
        /\ g.lEnd = f.lEnd /\ g.rEnd = f.rEnd
    BY <2>1, <1>12, <1>13 DEF FrameType
  <2>3. /\ f.l \in Nat /\ f.r \in Nat /\ f.lEnd \in Nat /\ f.rEnd \in Nat /\ FieldLength \in Nat
        /\ f.l >= 1 /\ f.r >= 1 /\ f.lEnd <= FieldLength + 1 /\ f.rEnd <= FieldLength + 1
    BY <1>12, ForestFacts DEF FrameType, Readable
  <2>4. g.l >= 1 /\ g.r >= 1 /\ g.lEnd <= FieldLength' + 1 /\ g.rEnd <= FieldLength' + 1
    BY <2>2, <2>3, <1>2, <1>8
  <2> QED
    BY <2>2, <2>4 DEF Readable
<1>15. /\ frames' \in Seq(FrameType) /\ DOMAIN frames' = 1..k
       /\ \A i \in 1..k : frames'[i] = IF i = k THEN g ELSE frames[i]
  <2>1. frames' = [frames EXCEPT ![k] = g]
    BY <1>10, <1>11, <1>12, <1>13
  <2> QED
    BY <2>1, <1>10, <1>14
<1>16. ASSUME NEW i \in Open', NEW h, h = frames'[i], NEW o, o = h.out
       PROVE  Unseen(o)' /\ Readable(h)'
  <2>1. i \in 1..k /\ h.op = "object"
    BY <1>15, <1>16 DEF Open
  <2>2. i \in Open /\ o = frames[i].out
    <3>1. CASE i = k
      <4>1. h = g /\ o = f.out /\ f = frames[k]
        BY <3>1, <2>1, <1>12, <1>14, <1>15, <1>16
      <4> QED
        BY <3>1, <4>1, <1>5, <1>9
    <3>2. CASE i # k
      BY <3>2, <2>1, <1>10, <1>15, <1>16 DEF Open
    <3> QED
      BY <3>1, <3>2
  <2>3. Unseen(o) /\ Hidden(o)
    BY <2>2, OpenFacts DEF Unseen
  <2>4. Hidden(o)'
    BY <2>3, <1>6, <1>7
  <2>5. Unseen(o)'
    <3>1. NoNode # o /\ NoCall' = NoCall /\ call' = NoCall
      BY <2>3, <1>1, ForestFacts DEF NoCall, Hidden
    <3> QED
      BY <3>1, <2>4, <1>1 DEF Unseen
  <2>6. Readable(h)'
    <3>1. CASE i = k
      BY <3>1, <1>14, <1>15, <1>16, <2>1
    <3>2. CASE i # k
      <4>1. h = frames[i] /\ Readable(h) /\ h \in FrameType /\ FieldLength \in Nat
        BY <3>2, <2>1, <2>2, <1>15, <1>16, OpenFacts, ForestFacts
      <4> QED
        BY <4>1, <1>8 DEF Readable, FrameType
    <3> QED
      BY <3>1, <3>2
  <2> QED
    BY <2>5, <2>6
<1>17. HiddenInv'
  <2>1. \A i \in Open' : Unseen(frames[i].out)' /\ Readable(frames[i])'
    BY <1>16
  <2>2. building' = NoNode
    BY <1>1 DEF ForestInv, Inv, BuilderInv
  <2> QED
    BY <2>1, <2>2 DEF HiddenInv
<1>18. ControlInv'
  <2>1. call' \in (Nodes' \X Nodes') \cup {NoCall}
    BY <1>1
  <2>2. frames' # <<>>
    BY <1>10, <1>15
  <2>3. ~NoJoin'
    BY <2>2 DEF NoJoin
  <2> QED
    BY <2>1, <2>3, <1>1, <1>8, <1>15, ControlKept DEF ForestInv
<1> QED
  BY <1>7, <1>17, <1>18 DEF Forest

-----------------------------------------------------------------------------
(* The caller's steps                                                      *)

LEMMA ReadyFrames ==
  ASSUME NoJoin, UNCHANGED <<call, frames, answer>>
  PROVE  /\ NoJoin' /\ Open' = {} /\ frames' \in Seq(FrameType)
         /\ answer' = NoNode /\ call' = NoCall
  BY DEF NoJoin, Open, NoCall

LEMMA LookupForest ==
  ASSUME ForestInv, Lookup \/ Close \/ BeginJoin \/ UNCHANGED vars
  PROVE  Forest'
<1>1. OnlyParents /\ ranks' = ranks
  BY DEF Lookup, Close, BeginJoin, vars, nodeShape, fieldTable, OnlyParents
<1>2. Settles(parents')
  <2>1. parents' = parents \/ \E S : parents' = Compressed(S)
    BY DEF Lookup, Close, BeginJoin, vars
  <2> QED
    BY <2>1, ForestFacts
<1>3. TreeInv' /\ \A o : Hidden(o) => Hidden(o)'
  BY <1>1, <1>2, ForestFacts, QuietTree
<1>4. Nodes' = Nodes /\ FieldLength' = FieldLength /\ kinds' = kinds
  BY <1>1, ParentsOnly DEF OnlyParents
<1>5. frames' = frames /\ answer' = answer
  BY DEF Lookup, Close, BeginJoin, vars, control
<1>6. HiddenInv'
  <2>1. building' \in {NoNode, building}
    BY DEF Lookup, Close, BeginJoin, vars, control
  <2>2. building' # NoNode => Hidden(building)'
    <3>1. PICK b : b = building
      OBVIOUS
    <3>2. b # NoNode => Hidden(b)'
      BY <3>1, <1>3 DEF ForestInv, HiddenInv
    <3> QED
      BY <3>1, <3>2, <2>1
  <2>3. CASE NoJoin
    <3>1. Open' = {}
      BY <2>3, <1>5 DEF NoJoin, Open
    <3> QED
      BY <3>1, <2>2 DEF HiddenInv
  <2>4. CASE ~NoJoin
    <3>1. call' = call /\ NoCall' = NoCall
      BY <2>4 DEF Lookup, Close, BeginJoin, Ready, vars, control, NoCall
    <3>2. \A i \in Open' : i \in Open /\ frames'[i] = frames[i]
      BY <1>5 DEF Open
    <3>3. \A o : StillUnseen(o)
      BY <3>1, <1>3, <1>5 DEF StillUnseen, Unseen
    <3>4. \A i \in Open' : Unseen(frames[i].out)' /\ Readable(frames[i])'
      <4>1. FieldLength' \in Nat /\ FieldLength' >= FieldLength
        BY <1>4, ForestFacts
      <4> QED
        BY <3>2, <3>3, <4>1, OpenKept
    <3> QED
      BY <3>4, <2>2 DEF HiddenInv
  <2> QED
    BY <2>3, <2>4
<1>7. ControlInv'
  <2>1. ControlInv /\ NoCall' = NoCall
    BY DEF ForestInv, NoCall
  <2>2. CASE Lookup \/ Close \/ UNCHANGED vars
    <3>1. /\ UNCHANGED <<call, frames, answer, args, joins>>
          /\ building' \in {NoNode, building} /\ NoJoin' = NoJoin
      BY <2>2 DEF Lookup, Close, vars, control, NoJoin, NoCall
    <3> QED
      BY <2>1, <3>1, <1>4 DEF ControlInv
  <2>3. CASE BeginJoin
    <3>1. /\ joins < MaxJoins /\ joins' = joins + 1
          /\ call' \in Nodes \X Nodes /\ args' \in Nodes \X Nodes
          /\ UNCHANGED <<building, frames, answer>>
      BY <2>3 DEF BeginJoin
    <3>2. joins' \in 0..MaxJoins
      BY <2>1, <3>1, ArenaAssumption DEF ControlInv
    <3>3. ~NoJoin'
      <4>1. NoCall' = <<>> /\ call' # <<>>
        BY <2>3 DEF NoCall, BeginJoin
      <4> QED
        BY <4>1 DEF NoJoin
    <3> QED
      BY <2>1, <3>1, <3>2, <3>3, <1>4 DEF ControlInv
  <2> QED
    BY <2>2, <2>3
<1> QED
  BY <1>3, <1>6, <1>7 DEF Forest

LEMMA CallerAllocForest ==
  ASSUME ForestInv, ~Raw, AllocVar \/ AllocArray \/ AllocObject
  PROVE  Forest'
<1>1. NoJoin /\ building = NoNode /\ UNCHANGED <<call, frames, answer, args, joins>>
  BY DEF AllocVar, AllocArray, AllocObject, Ready, control
<1>2. PICK kind, l, r, qs :
        /\ kind \in {"Var", "Array", "Object"} /\ AllocRaw(kind, l, r, qs) /\ Settles(qs)
        /\ Shaped(kind, l, r)
        /\ building' = IF kind = "Object" THEN Len(kinds) + 1 ELSE NoNode
  <2>1. CASE AllocVar
    BY <2>1, <1>1, ForestFacts DEF AllocVar, Shaped, control
  <2>2. CASE AllocArray
    <3>1. PICK element \in Nodes :
            AllocRaw("Array", Find(element), NoNode, Compressed({element}))
      BY <2>2 DEF AllocArray
    <3>2. Find(element) \in Nodes /\ Settles(Compressed({element}))
      BY ForestFacts
    <3>3. Shaped("Array", Find(element), NoNode) /\ building' = NoNode
      BY <2>2, <3>2, <1>1 DEF AllocArray, Shaped, control
    <3> QED
      BY <3>1, <3>2, <3>3
  <2>3. CASE AllocObject
    BY <2>3, <1>1, ForestFacts DEF AllocObject, Shaped
  <2> QED
    BY <2>1, <2>2, <2>3
<1>3. PICK new : new = Len(kinds) + 1
  OBVIOUS
<1>4. TreeInv' /\ (kind = "Object" => Hidden(new)')
  BY <1>2, <1>3, ForestFacts, AllocTree
<1>5. /\ Nodes' = Nodes \cup {new} /\ FieldLength' = FieldLength /\ Len(kinds') <= MaxNodes
  BY <1>2, <1>3, AllocSizes
<1>6. /\ Open' = {} /\ frames' \in Seq(FrameType) /\ answer' = NoNode /\ call' = NoCall
  BY <1>1, ReadyFrames
<1>7. (building' = new /\ kind = "Object") \/ building' = NoNode
  BY <1>2, <1>3
<1>8. HiddenInv'
  BY <1>4, <1>6, <1>7 DEF HiddenInv
<1>9. ControlInv'
  <2>1. /\ args = NoCall /\ joins \in 0..MaxJoins
        /\ FieldLength <= MaxFields /\ NoCall' = NoCall
    BY <1>1 DEF ForestInv, ControlInv, NoCall
  <2>2. args' = NoCall
    BY <2>1, <1>1
  <2> QED
    BY <2>1, <2>2, <1>1, <1>5, <1>6, <1>7 DEF ControlInv
<1> QED
  BY <1>4, <1>8, <1>9 DEF Forest

LEMMA AppendForest ==
  ASSUME ForestInv, ~Raw, AppendField
  PROVE  Forest'
<1>1. PICK object \in Nodes, type \in Nodes, root \in Nodes, key \in Key,
           presence \in Presence :
        /\ object = building /\ type < building /\ root = Find(object)
        /\ MayAppend(root, key)
        /\ StoreField(root, key, Find(type), presence)
        /\ parents' = Compressed({object, type})
  BY DEF AppendField
<1>2. NoJoin /\ UNCHANGED <<building, call, frames, answer, args, joins>>
  BY DEF AppendField, control
<1>3. Appendable(object) /\ parents[object] = object /\ object \in Objects /\ Hidden(object)
  <2>1. object # NoNode
    BY ForestFacts
  <2> QED
    BY <2>1, <1>1 DEF ForestInv, Inv, BuilderInv, HiddenInv, Appendable
<1>4. root = object
  BY <1>1, <1>3 DEF Find
<1>5. PICK stored : stored = Find(type)
  OBVIOUS
<1>6. StoreField(object, key, stored, presence) /\ MayAppend(object, key)
  BY <1>1, <1>4, <1>5
<1>7. stored \in Nodes /\ stored # object
  <2>1. type # object
    BY <1>1, ForestFacts
  <2> QED
    BY <2>1, <1>3, <1>5, ForestFacts
<1>8. TreeInv' /\ Hidden(object)'
  <2>1. Settles(parents')
    BY <1>1, ForestFacts
  <2> QED
    BY <2>1, <1>3, <1>6, <1>7, ForestFacts, StoreTree
<1>9. /\ Nodes' = Nodes /\ FieldLength' = FieldLength + 1
      /\ Len(kinds') <= MaxNodes /\ FieldLength' <= MaxFields
  BY <1>3, <1>6, StoreSizes
<1>10. /\ Open' = {} /\ frames' \in Seq(FrameType) /\ answer' = NoNode /\ call' = NoCall
  BY <1>2, ReadyFrames
<1>11. HiddenInv'
  BY <1>1, <1>2, <1>8, <1>10 DEF HiddenInv
<1>12. ControlInv'
  <2>1. /\ args = NoCall /\ joins \in 0..MaxJoins
        /\ building \in Nodes \cup {NoNode} /\ NoCall' = NoCall
    BY <1>2 DEF ForestInv, ControlInv, NoCall
  <2> QED
    BY <2>1, <1>2, <1>9, <1>10 DEF ControlInv
<1> QED
  BY <1>8, <1>11, <1>12 DEF Forest

LEMMA RestartForest ==
  ASSUME ForestInv, OnlyCanonicalScalars, Reset \/ Load
  PROVE  Forest'
<1>1. /\ NoJoin /\ building = NoNode /\ joins' = 0
      /\ UNCHANGED <<building, call, frames, answer, args>>
  BY DEF Reset, Load, Ready
<1>2. PICK s : Become(s) /\ (s = CanonicalTables \/ s \in Snapshots)
  BY DEF Reset, Load
<1>3. TreeInv'
  BY <1>2, RestartTree
<1>4. /\ Open' = {} /\ frames' \in Seq(FrameType) /\ answer' = NoNode /\ call' = NoCall
  BY <1>1, ReadyFrames
<1>5. HiddenInv'
  BY <1>1, <1>4 DEF HiddenInv
<1>6. Len(kinds') <= MaxNodes /\ FieldLength' <= MaxFields
  <2>1. kinds' = s.kinds /\ fieldKeys' = s.fieldKeys
    BY <1>2 DEF Become
  <2>2. Len(s.kinds) <= MaxNodes /\ Len(s.fieldKeys) <= MaxFields
    <3>1. Len(CanonicalTables.kinds) <= MaxNodes /\ Len(CanonicalTables.fieldKeys) <= MaxFields
      <4>1. MaxNodes >= Len(Canonical) /\ MaxFields \in Nat /\ MaxNodes \in Nat
        BY ArenaAssumption
      <4>2. Len(CanonicalTables.kinds) = Len(Canonical)
        BY DEF CanonicalTables
      <4> QED
        BY <4>1, <4>2, EmptyTables, CanonicalHasNoObject
    <3> QED
      BY <3>1, <1>2, ArenaAssumption
  <2> QED
    BY <2>1, <2>2 DEF FieldLength
<1>7. ControlInv'
  <2>1. args = NoCall /\ NoCall' = NoCall /\ 0 \in 0..MaxJoins
    BY <1>1, ArenaAssumption DEF ForestInv, ControlInv, NoCall
  <2> QED
    BY <2>1, <1>1, <1>4, <1>6 DEF ControlInv
<1> QED
  BY <1>3, <1>5, <1>7 DEF Forest

LEMMA InitForest ==
  ASSUME Init
  PROVE  Forest
<1>1. TreeInv
  BY InitTree
<1>2. HiddenInv
  BY DEF Init, HiddenInv, Open
<1>3. ControlInv
  <2>1. Len(kinds) <= MaxNodes /\ FieldLength <= MaxFields
    <3>1. kinds = CanonicalTables.kinds /\ CanonicalTables.kinds = Canonical
      BY DEF Init, CanonicalTables
    <3>2. FieldLength = 0
      <4>1. fieldKeys = <<>>
        BY DEF Init
      <4> QED
        BY <4>1 DEF FieldLength
    <3> QED
      BY <3>1, <3>2, ArenaAssumption, CanonicalHasNoObject
  <2>2. 0 \in 0..MaxJoins
    BY ArenaAssumption
  <2> QED
    BY <2>1, <2>2 DEF Init, ControlInv
<1> QED
  BY <1>1, <1>2, <1>3 DEF Forest

LEMMA ForestInductive ==
  ASSUME ~Raw, OnlyCanonicalScalars
  PROVE  (Init => ForestInv) /\ (ForestInv /\ [Next]_vars => ForestInv')
<1>1. ASSUME Init PROVE ForestInv
  BY <1>1, InitForest, InvInductive DEF Forest, ForestInv
<1>2. ASSUME ForestInv, [Next]_vars PROVE ForestInv'
  <2>1. Inv'
    BY <1>2, InvInductive DEF ForestInv
  <2>2. ASSUME Caller PROVE Forest'
    BY <2>2, <1>2, CallerAllocForest, AppendForest, LookupForest, RestartForest DEF Caller
  <2>3. ASSUME JoinStep PROVE Forest'
    BY <2>3, <1>2, AbsorbedForest, BindForest, NoTwins, ArraysForest, ObjectsForest,
       UnionForest, WrapForest, SharedForest, EmitForest, FinishForest, AbortForest
    DEF JoinStep
  <2>4. ASSUME UNCHANGED vars PROVE Forest'
    BY <2>4, <1>2, LookupForest
  <2>5. Forest'
    BY <2>2, <2>3, <2>4, <1>2, Zenon DEF Next
  <2> QED
    BY <2>1, <2>5 DEF ForestInv, Forest
<1> QED
  BY <1>1, <1>2

-----------------------------------------------------------------------------
(* What the invariant implies                                              *)

LEMMA SeqAsFunction ==
  ASSUME NEW S, NEW f \in Seq(S), NEW n, n = Len(f)
  PROVE  f \in [1..n -> S]
  OBVIOUS

LEMMA ForestIsTyped ==
  ASSUME ForestInv
  PROVE  TypeOK
<1>1. /\ TablesInv /\ SizesInv /\ RowsInv /\ LayersInv /\ ControlInv
      /\ Nodes = 1..Len(kinds) /\ Len(kinds) \in Nat /\ FieldLength \in Nat
  BY ForestFacts DEF ForestInv, TreeInv
<1>2. parents \in [Nodes -> Nodes]
  BY <1>1, FindFacts
<1>3. ranks \in [Nodes -> Nat] /\ fieldStarts \in [Nodes -> Nat] /\ fieldCounts \in [Nodes -> Nat]
  <2>1. /\ ranks \in Seq(Nat) /\ Len(ranks) = Len(kinds)
        /\ fieldStarts \in Seq(Nat) /\ Len(fieldStarts) = Len(kinds)
        /\ fieldCounts \in Seq(Nat) /\ Len(fieldCounts) = Len(kinds)
    BY <1>1 DEF SizesInv, TablesInv
  <2> QED
    BY <2>1, <1>1, SeqAsFunction
<1>4. left \in [Nodes -> Nodes \cup {NoNode}] /\ right \in [Nodes -> Nodes \cup {NoNode}]
  <2>1. \A n \in Nodes : left[n] \in Nodes \cup {NoNode} /\ right[n] \in Nodes \cup {NoNode}
    BY <1>1, NodeFacts
  <2>2. left \in [Nodes -> Nat] /\ right \in [Nodes -> Nat]
    <3>1. /\ left \in Seq(Nat) /\ Len(left) = Len(kinds)
          /\ right \in Seq(Nat) /\ Len(right) = Len(kinds)
      BY <1>1 DEF SizesInv
    <3> QED
      BY <3>1, <1>1, SeqAsFunction
  <2> QED
    BY <2>1, <2>2
<1>5. /\ kinds \in Seq(Kinds) /\ fieldKeys \in Seq(Key)
      /\ fieldTypes \in [1..FieldLength -> Nodes]
      /\ fieldPresence \in [1..FieldLength -> Presence]
  <2>1. /\ fieldTypes \in Seq(Nat) /\ Len(fieldTypes) = FieldLength
        /\ \A i \in 1..FieldLength : fieldTypes[i] \in Nodes
    BY <1>1 DEF SizesInv
  <2>2. fieldTypes \in [1..FieldLength -> Nodes]
    BY <2>1
  <2>3. /\ fieldKeys \in Seq(Key)
        /\ fieldPresence \in Seq(Presence) /\ Len(fieldPresence) = FieldLength
    BY <1>1 DEF SizesInv
  <2> QED
    BY <2>2, <2>3, <1>1, SeqAsFunction DEF TablesInv
<1> QED
  BY <1>1, <1>2, <1>3, <1>4, <1>5 DEF TypeOK, ControlInv

\* One object owns each slot.
LEMMA ForestOwnsSlots ==
  ASSUME ForestInv
  PROVE  SlotsOwned(Tables)
<1>1. /\ TablesInv /\ SpansInv /\ Nodes = 1..Len(kinds) /\ FieldLength \in Nat
      /\ Tables.fieldKeys = fieldKeys /\ Tables.kinds = kinds
      /\ Ids(Tables) = Nodes
  BY ForestFacts, IdsAreNodes DEF Tables
<1>2. DOMAIN fieldKeys = 1..FieldLength
  BY <1>1 DEF ForestInv, TreeInv, SizesInv, FieldLength
<1>3. \A n \in Nodes : Slots(Tables, n) = Span(n)
  BY DEF Tables, Slots, Span
<1>4. ASSUME NEW i \in 1..FieldLength
      PROVE  Cardinality({n \in Ids(Tables) : Tables.kinds[n] = "Object"
                                              /\ i \in Slots(Tables, n)}) = 1
  <2>1. SpansIsolated
    BY InvIsolates DEF ForestInv
  <2>2. PICK owner \in Objects : i \in Span(owner)
    BY <2>1 DEF SpansIsolated
  <2>3. \A n \in Objects : i \in Span(n) => n = owner
    BY <2>1, <2>2 DEF SpansIsolated
  <2>4. {n \in Ids(Tables) : Tables.kinds[n] = "Object" /\ i \in Slots(Tables, n)} = {owner}
    BY <2>2, <2>3, <1>1, <1>3 DEF Objects
  <2> QED
    BY <2>4, FS_Singleton
<1> QED
  BY <1>1, <1>2, <1>4 DEF SlotsOwned

LEMMA ForestRows ==
  ASSUME ForestInv, NEW n \in Nodes
  PROVE  RowValid(Tables, n)
<1>1. RowShape(n) /\ Ascending(n)
  BY DEF ForestInv, TreeInv, RowsInv
<1>2. /\ Tables.kinds = kinds /\ Tables.left = left /\ Tables.right = right
      /\ Tables.fieldStarts = fieldStarts /\ Tables.fieldCounts = fieldCounts
      /\ Tables.fieldKeys = fieldKeys /\ Tables.fieldTypes = fieldTypes
      /\ Ids(Tables) = Nodes /\ Len(fieldKeys) = FieldLength
  BY IdsAreNodes DEF Tables, FieldLength
<1>3. CASE kinds[n] = "Object"
  <2>1. PICK start \in Nat, count \in Nat : start = fieldStarts[n] /\ count = fieldCounts[n]
    BY ForestFacts, TableFacts
  <2>2. start >= 1 /\ start + count - 1 <= FieldLength
    <3>1. n \in Objects /\ End(n) = start + count /\ FieldLength \in Nat
      BY <1>3, <2>1, ForestFacts, TableFacts
    <3>2. fieldStarts[n] >= 1 /\ End(n) <= FieldLength + 1
      BY <3>1, ForestFacts DEF SpansInv
    <3> QED
      BY <2>1, <3>1, <3>2
  <2>3. Slots(Tables, n) = start..(start + count - 1)
    BY <2>1, <1>2 DEF Slots
  <2>4. \A i \in start..(start + count - 1) : fieldTypes[i] \in Nodes
    BY <1>3, <2>1, SpanTypes, ForestFacts DEF TreeInv
  <2>5. ASSUME NEW i \in start..(start + count - 1), NEW j \in start..(start + count - 1), i < j
        PROVE  fieldKeys[i] < fieldKeys[j]
    <3>1. PICK a, b : a = i - start + 1 /\ b = j - start + 1
      OBVIOUS
    <3>2. a \in 1..count /\ b \in 1..count /\ a < b /\ start + a - 1 = i /\ start + b - 1 = j
      BY <3>1, <2>5
    <3>3. ListOf(n)[a] = FieldAt(i) /\ ListOf(n)[b] = FieldAt(j)
      BY <2>1, <3>2 DEF ListOf
    <3>4. FieldAt(i).key = fieldKeys[i] /\ FieldAt(j).key = fieldKeys[j]
      BY DEF FieldAt
    <3>5. ListOf(n)[a].key < ListOf(n)[b].key
      BY <1>1, <2>1, <3>2 DEF Ascending
    <3> QED
      BY <3>3, <3>4, <3>5
  <2>6. FieldSpanValid(Tables, n)
    BY <2>1, <2>2, <2>3, <2>4, <2>5, <1>2 DEF FieldSpanValid
  <2> QED
    BY <2>6, <1>1, <1>2, <1>3 DEF RowValid, RowShape, LeafKinds
<1>4. CASE kinds[n] # "Object"
  <2>1. fieldCounts[n] = 0
    BY <1>4, ForestFacts DEF TablesInv, Objects
  <2> QED
    BY <2>1, <1>1, <1>2, <1>4 DEF RowValid, RowShape, NoFieldSpan
<1> QED
  BY <1>3, <1>4

LEMMA ForestIsValid ==
  ASSUME ForestInv
  PROVE  Valid(Tables)
<1>1. /\ Tables.kinds = kinds /\ Tables.parents = parents /\ Tables.ranks = ranks
      /\ Tables.left = left /\ Tables.right = right
      /\ Tables.fieldStarts = fieldStarts /\ Tables.fieldCounts = fieldCounts
      /\ Tables.fieldKeys = fieldKeys /\ Tables.fieldTypes = fieldTypes
      /\ Tables.fieldPresence = fieldPresence
      /\ Ids(Tables) = Nodes /\ Len(fieldKeys) = FieldLength
  BY IdsAreNodes DEF Tables, FieldLength
<1>2. TablesInv /\ SizesInv /\ PrefixInv /\ LayersInv /\ Len(kinds) \in Nat
  BY ForestFacts DEF TreeInv
<1>3. TablesSized(Tables)
  <2>1. \A table \in {parents, ranks, left, right, fieldStarts, fieldCounts} :
          table \in Seq(Nat) /\ Len(table) = Len(kinds)
    BY <1>2 DEF SizesInv, TablesInv
  <2> QED
    BY <2>1, <1>1, <1>2 DEF TablesSized, SizesInv, TablesInv
<1>4. CanonicalPrefix(Tables)
  BY <1>1, <1>2 DEF CanonicalPrefix, PrefixInv
<1>5. PICK s, rank : /\ s = Tables /\ Len(s.kinds) \in Nat
                     /\ IsGraph(Ids(s), s.parents, Below(s))
                     /\ Layered(Ids(s), s.parents, Below(s), rank)
  BY <1>1, <1>2 DEF LayersInv
<1>6. StructureAcyclic(s) /\ \A n \in Ids(s) : s.parents[Climbed(s, n)] = Climbed(s, n)
  BY <1>5, LayeredIsAcyclic, LayeredClimbs
<1>7. ParentsValid(Tables)
  BY <1>3, <1>5, <1>6 DEF ParentsValid, IsGraph
<1>8. \A n \in Ids(Tables) : RowValid(Tables, n)
  BY <1>1, ForestRows
<1> QED
  BY <1>3, <1>4, <1>5, <1>6, <1>7, <1>8, ForestOwnsSlots DEF Valid

-----------------------------------------------------------------------------
(* The theorems                                                            *)

\* The tables stay sized alike, every parent, child and field type is a node of
\* the arena, and a suspended principalJoin refers to nodes and slots there are.
THEOREM ArenaTypes == ~Raw /\ OnlyCanonicalScalars => (Spec => []TypeOK)
<1>1. ASSUME ~Raw, OnlyCanonicalScalars
      PROVE  Spec => []TypeOK
  <2>1. Init => ForestInv
    BY <1>1, ForestInductive
  <2>2. ForestInv /\ [Next]_vars => ForestInv'
    BY <1>1, ForestInductive
  <2>3. ForestInv => TypeOK
    BY ForestIsTyped
  <2> QED
    BY <2>1, <2>2, <2>3, PTL DEF Spec
<1> QED
  BY <1>1

\* What an arena serializes between two calls passes validateSnapshot, so
\* another arena can load it: union, find, the occurs check and principalJoin
\* never make a cycle or a row the validator refuses.
THEOREM SnapshotsReload == ~Raw /\ OnlyCanonicalScalars => (Spec => []SnapshotReloads)
<1>1. ASSUME ~Raw, OnlyCanonicalScalars
      PROVE  Spec => []SnapshotReloads
  <2>1. Init => ForestInv
    BY <1>1, ForestInductive
  <2>2. ForestInv /\ [Next]_vars => ForestInv'
    BY <1>1, ForestInductive
  <2>3. ForestInv => SnapshotReloads
    BY ForestIsValid DEF SnapshotReloads
  <2> QED
    BY <2>1, <2>2, <2>3, PTL DEF Spec
<1> QED
  BY <1>1
=============================================================================
