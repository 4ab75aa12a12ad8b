-------------------------- MODULE SchemaDenotation --------------------------
(***************************************************************************)
(* What a schema graph means.  On a heap h it denotes a set of             *)
(* (schema, value) pairs: the greatest set in which every pair is          *)
(* supported by the kernel items of its schema.  The engines are compared  *)
(* with it, and so with each other.                                        *)
(***************************************************************************)
EXTENDS SchemaGraph

\* A program holds finitely many schemas, and the values of a call are finitely many.
ASSUME FiniteAssumption == IsFiniteSet(Schema) /\ IsFiniteSet(Value)

Pairs == Schema \X Value

\* An item holds when the pairs in W are taken to hold.
ItemHolds(item, W) ==
  IF item.call THEN <<item.schema, item.value>> \in W ELSE item.ok

\* The answers combine to an acceptance.
Accepted(items, combine, W) ==
  LET holding == {i \in 1..Len(items) : ItemHolds(items[i], W)} IN
  CASE combine = "all" -> holding = 1..Len(items)
    [] combine = "any" -> holding # {}
    [] combine = "one" -> Cardinality(holding) = 1

Supported(h, p, W) == Accepted(Items(h, p[1], p[2]), Combine(p[1]), W)

\* The greatest set of pairs of P each of which is assumed in H or supported.
GreatestFixpoint(h, P, H) ==
  UNION {W \in SUBSET P : \A p \in W : p \in H \/ Supported(h, p, W)}

\* What is left of U when a step that only removes members is repeated to the end.
Narrowed(U, step) ==
  LET narrow[W \in SUBSET U] ==
        LET keep(kept) == IF kept = W THEN W ELSE narrow[kept]
        IN  keep(step[W])
  IN  narrow[U]

\* The same set without assumptions, computed from above for larger instances.
Denotation(h) ==
  Narrowed(Pairs, [W \in SUBSET Pairs |-> {p \in W : Supported(h, p, W)}])

-----------------------------------------------------------------------------
(* Exclusive unions count matches: their items are not monotone.  Without   *)
(* them the greatest fixpoint exists.                                       *)

XorFree == \A s \in Schema : Combine(s) \in {"all", "any"}

\* Every schema an item of s may call.
Callees(s) ==
  (TrackedChildren(s) \cup
     CASE Node[s].tag = "Lazy" -> {Node[s].target}
       [] Node[s].tag = "Object" -> {Node[s].catchall}
       [] OTHER -> {}) \ {NoSchema}

\* The schemas below which an exclusive union counts matches: all but the
\* largest set without one that holds its members' children.
ReachesXor ==
  Schema \ Narrowed(Schema, [X \in SUBSET Schema |->
    {s \in X : Node[s].tag # "Xor" /\ Callees(s) \subseteq X}])
=============================================================================
