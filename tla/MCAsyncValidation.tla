------------------------- MODULE MCAsyncValidation -------------------------
(***************************************************************************)
(* Overlapping calls on one cyclic record that the caller reassigns.       *)
(***************************************************************************)
EXTENDS AsyncValidation, TLC

Atom == [kind |-> "atom", keys |-> <<>>, enum |-> <<>>, own |-> <<>>,
         slots |-> <<>>, items |-> <<>>]
Rec(own, keys) == [Atom EXCEPT !.kind = "record", !.own = own,
                               !.keys = keys, !.enum = keys]
Scalar(accepts) == [tag |-> "Scalar", accepts |-> accepts]
Field(key, schema) == [key |-> key, schema |-> schema,
                       presence |-> "required", resolved |-> "required"]

MCHeap == [undefined |-> Atom, x |-> Atom, y |-> Atom, next |-> Atom,
           node |-> Rec([next |-> "y"], <<"next">>),
           tail |-> Rec([next |-> "x"], <<"next">>),
           last |-> Rec([next |-> "y"], <<"next">>)]
MCValue == DOMAIN MCHeap
MCKey == {"next"}

\* list = lazy(() => x | {next: list} | record(name, y)).
MCNode ==
  [list |-> [tag |-> "Lazy", target |-> "link"],
   link |-> [tag |-> "Union", options |-> <<"leaf", "cell", "dict">>],
   leaf |-> Scalar({"x"}),
   cell |-> [tag |-> "Object", entries |-> <<Field("next", "list")>>,
             strict |-> FALSE, catchall |-> NoSchema],
   name |-> Scalar({"next"}),
   word |-> Scalar({"y"}),
   dict |-> [tag |-> "Record", key |-> "name", value |-> "word", required |-> {}]]
MCSchema == DOMAIN MCNode
ListRoot == {<<"list", "node">>}
MCWrites == {<<"node", "next", w>> : w \in {"undefined", "node", "tail", "last"}}
OneOfEach == [t1 |-> "is", t2 |-> "check"]
MCTask == DOMAIN OneOfEach
=============================================================================
