----------------------------- MODULE FieldLists -----------------------------
(***************************************************************************)
(* What the packed field table of a SeaBreeze arena promises: every node   *)
(* has a field list of its own, in strictly ascending key order, and       *)
(* appending to one list leaves every other list as it is.                 *)
(***************************************************************************)
EXTENDS Integers, Sequences

CONSTANT Restarts   \* the lists an arena may be created, reset or loaded with

VARIABLE lists      \* for each node its sequence of [key, type, presence]

Init == lists \in Restarts

Allocate == lists' = Append(lists, <<>>)

\* new is list with one more field, after its last key.
Extends(new, list) ==
  /\ Len(new) = Len(list) + 1
  /\ \A i \in 1..Len(list) : new[i] = list[i]
  /\ list # <<>> => list[Len(list)].key < new[Len(new)].key

AppendField ==
  /\ DOMAIN lists' = DOMAIN lists
  /\ \E n \in DOMAIN lists :
       /\ Extends(lists'[n], lists[n])
       /\ \A m \in DOMAIN lists \ {n} : lists'[m] = lists[m]

Restart == lists' \in Restarts

Next == Allocate \/ AppendField \/ Restart

Spec == Init /\ [][Next]_lists
=============================================================================
