---------------------------- MODULE MCFinalizer ----------------------------
(***************************************************************************)
(* Instances of Finalizer: recursive schemas with strip and readonly *)
(* objects on shared and cyclic values.                                    *)
(***************************************************************************)
EXTENDS Finalizer

Atom == [kind |-> "atom", keys |-> <<>>, enum |-> <<>>, own |-> <<>>,
         slots |-> <<>>, items |-> <<>>]
Rec(keys, own) == [Atom EXCEPT !.kind = "record", !.keys = keys, !.enum = keys,
                               !.own = own]
Arr(slots) == [Atom EXCEPT !.kind = "array", !.slots = slots]
Scalar(accepts) == [tag |-> "Scalar", accepts |-> accepts]
Entry(key, s, presence) ==
  [key |-> key, schema |-> s, presence |-> presence, resolved |-> presence]
Object(entries) ==
  [tag |-> "Object", entries |-> entries, strict |-> FALSE, catchall |-> NoSchema]
Wrapper(kind, inner) == [tag |-> kind, inner |-> inner]
ListOf(item) == [tag |-> "Array", item |-> item, lens |-> 0..2]

MCFresh == <<"o1", "o2", "o3", "o4", "o5", "o6", "o7", "o8", "o9", "o10", "o11", "o12">>
MCNew == {MCFresh[i] : i \in 1..12}
MCKey == {"a", "b", "c"}
MCValue == {"x", "undefined", "null", "p", "q", "list"} \cup MCKey \cup MCNew

-----------------------------------------------------------------------------
(* Records p and q, and a collection of them, that refer to each other.     *)

Memory(p, q, list) ==
  [v \in MCValue |-> CASE v = "p" -> p [] v = "q" -> q [] v = "list" -> list
                       [] OTHER -> Atom]
ABC(a, b, c) == Rec(<<"a", "b", "c">>, [a |-> a, b |-> b, c |-> c])

Graphs ==
  {Memory(ABC(a[1], b, "x"), ABC(i, "x", "x"), Arr(a[2])) :
     a \in {<<"p", <<"p", "q">>>>, <<"q", <<"q", "q">>>>, <<"list", <<"p", "q">>>>,
            <<"list", <<"q", "q">>>>, <<"list", <<Missing, "list">>>>},
     b \in {"q", "x"}, i \in {"p", "x"}}

\* An own accessor that no schema declares.
Getter == Memory(ABC("q", "p", Accessor), ABC("x", "q", "x"), Arr(<<>>))

Map(items) == [Atom EXCEPT !.kind = "map", !.items = items]
Set(items) == [Atom EXCEPT !.kind = "set", !.items = items]
Collections ==
  {Memory(ABC("x", "list", "x"), ABC("p", "x", "x"), list) :
     list \in {Map(<<<<"p", "x">>, <<"x", "q">>, <<"q", "q">>>>),
               Set(<<"x", "p", "q">>), Arr(<<"x", "q", "p">>)}}

\* node = lazy(() => strip {a?: either, b?: frozen}), either = [either] | node | any,
\* frozen = readonly(node) | any.
MCNode ==
  [any |-> Scalar(MCValue),
   text |-> Scalar({"x"}),
   node |-> [tag |-> "Lazy", target |-> "cell"],
   cell |-> Object(<<Entry("a", "either", "optional"), Entry("b", "frozen", "optional")>>),
   list |-> ListOf("either"),
   either |-> [tag |-> "Union", options |-> <<"list", "node", "any">>],
   frozen |-> [tag |-> "Union", options |-> <<"locked", "any">>],
   locked |-> Wrapper("Wrap", "node"),
   side |-> Object(<<Entry("b", "any", "optional"), Entry("c", "text", "optional")>>),
   both |-> [tag |-> "Intersection", left |-> "node", right |-> "side"],
   prop |-> [tag |-> "Property", base |-> "both", key |-> "a", value |-> "maybe"],
   maybe |-> Wrapper("Optional", "list"),
   checked |-> [tag |-> "Refine", inner |-> "side", when |-> MCValue, predicate |-> MCValue],
   outer |-> Object(<<Entry("a", "node", "required")>>),
   inner |-> Object(<<Entry("b", "node", "required")>>),
   wide |-> [tag |-> "Intersection", left |-> "outer", right |-> "inner"],
   tagged |-> [tag |-> "Discriminated", key |-> "c",
               cases |-> <<[literal |-> "x", schema |-> "cell"]>>],
   rest |-> [Object(<<Entry("b", "any", "required")>>) EXCEPT !.catchall = "either"],
   dict |-> [tag |-> "Record", key |-> NoSchema, value |-> "either", required |-> {}],
   mapOf |-> [tag |-> "Map", key |-> "either", value |-> "either", lens |-> 0..3],
   setOf |-> [tag |-> "Set", item |-> "either", lens |-> 0..3],
   late |-> Object(<<Entry("a", "again", "optional"), Entry("b", "any", "optional")>>),
   again |-> [tag |-> "Union", options |-> <<"whole", "any">>],
   whole |-> [tag |-> "Intersection", left |-> "back", right |-> "side"],
   back |-> [tag |-> "Lazy", target |-> "late"],
   tuple |-> [tag |-> "Tuple", items |-> <<"any", "tagged">>, rest |-> "either"]]
MCSchema == DOMAIN MCNode
MCStrip == {"cell", "side", "late"}
MCReadonly == {"locked"}
MCCases ==
  (Graphs \X {"list", "both", "prop", "checked", "locked"} \X {"p", "list"})
    \cup (Graphs \X {"late"} \X {"p", "q"})
    \cup ({Getter} \X {"wide"} \X {"p"})
    \cup (Collections \X {"rest", "dict", "mapOf", "setOf", "tuple"} \X {"p", "q", "list"})

=============================================================================
