------------------------------- MODULE MCCodecs -------------------------------
(***************************************************************************)
(* An instance of ObjectDecoders: decoders of every kind around two lawful *)
(* codecs, on records, arrays, maps and sets with missing, hidden, extra,  *)
(* accessor and hole properties; and of TextCodecs: for each codec the     *)
(* characters that matter to it, and for objects a start that has a member *)
(* already.  A behaviour is about the one or the other.                    *)
(***************************************************************************)
EXTENDS ObjectDecoders

MCKeyOrder == <<"a", "b", "c">>

-----------------------------------------------------------------------------
(* Leaves.  num decodes the texts "1" and "01" to n1, and writes n1 as "1". *)

Kinds == {"array", "record", "map", "set"}
AnyGuard == [kind |-> "guard", kinds |-> Kinds,
             names |-> {"1", "01", "n1", "x", "undefined", "null"}]
Text == [kind |-> "guard", kinds |-> {}, names |-> {"1", "01", "x"}]
Number == [kind |-> "guard", kinds |-> {}, names |-> {"n1"}]
One == [kind |-> "guard", kinds |-> {}, names |-> {"1"}]
AnyMap == [kind |-> "guard", kinds |-> {"map"}, names |-> {}]
Codec(input, output, decode, encode) ==
  [kind |-> "codec", input |-> input, output |-> output, decode |-> decode, encode |-> encode]
Numeric == [kind |-> "guard", kinds |-> {}, names |-> {"1", "01"}]
Num == Codec(Numeric, Number, [n \in {"1", "01"} |-> "n1"], [n \in {"n1"} |-> "1"])
\* A codec that reads an absent value as x.
Absent == Codec([kind |-> "guard", kinds |-> {}, names |-> {"x", "undefined"}], Text,
                [n \in {"undefined"} |-> "x"], [n \in {"x"} |-> "undefined"])

Of(kind, of) == [kind |-> kind, of |-> of]
Two(kind, left, right) == [kind |-> kind, left |-> left, right |-> right]
Tuple(of) == [kind |-> "tuple", of |-> of]
Mapping(kind, of, map) == [kind |-> kind, of |-> of, map |-> map]
Falling(kind, of, fallback) == [kind |-> kind, of |-> of, fallback |-> fallback]
RecordDecoder(of, keys, loose, required) ==
  [kind |-> "record", of |-> of, keys |-> keys, loose |-> loose, required |-> required]

MCPredicates ==
  {[on |-> "b", when |-> {"x", "1", "n1", "undefined"}, accepts |-> {"x", "n1"}],
   [on |-> "a", when |-> {"1", "n1"}, accepts |-> {"n1"}]}
ByB == CHOOSE p \in MCPredicates : p.on = "b"

Lower == Mapping("transform", Text, [n \in {"1", "01", "x"} |-> IF n = "01" THEN Never ELSE n])
A == Field("a", Num)
B == Field("b", Text)
MCLazies == [tree |-> ObjectShape(<<Field("a", Of("optional", Num)),
                                    Field("b", Of("optional", [kind |-> "lazy", name |-> "tree"]))>>,
                                  "strip", <<>>)]

MCRootOf ==
  [codec |-> ObjectShape(<<A, B>>, "strip", <<>>),
   strict |-> ObjectShape(<<A, Field("b", AnyGuard)>>, "strict", <<>>),
   passthrough |-> ObjectShape(<<Field("b", Absent), A>>, "passthrough", <<>>),
   effect |-> ObjectShape(<<B, A>>, "strip", <<ByB>>),
   decoder |-> ObjectShape(<<A, Field("b", Lower)>>, "strip", <<>>),
   defaults |-> ObjectShape(<<Field("a", Falling("default", Num, Atom("n1"))),
                              Field("b", Falling("prefault", Lower, Atom("x"))),
                              Field("c", Falling("catch", Num, Null))>>, "strict", <<ByB>>),
   array |-> Of("array", Num),
   arrays |-> Of("array", Two("both", Of("array", Num), Of("array", AnyGuard))),
   length |-> [kind |-> "length", of |-> Of("array", Lower), lengths |-> 1..2],
   tuple |-> Tuple(<<Num, Absent>>),
   rest |-> Two("rest", Tuple(<<Num>>), Text),
   record |-> RecordDecoder(Num, {"a", "b", "c"}, FALSE, <<>>),
   closed |-> RecordDecoder(Num, {"a", "b"}, FALSE, <<"a", "b">>),
   loose |-> RecordDecoder(Num, {"a"}, TRUE, <<>>),
   map |-> Two("map", Num, Absent),
   set |-> Of("set", Num),
   maps |-> Two("both", AnyMap, AnyMap),
   union |-> [kind |-> "union", of |-> <<One, Num>>],
   inverse |-> [kind |-> "union", of |-> <<Of("invert", Num), Of("invert", Of("array", Num))>>],
   both |-> Two("both", ObjectShape(<<A>>, "strip", <<>>), ObjectShape(<<B>>, "strip", <<>>)),
   clash |-> Two("both", ObjectShape(<<A, B>>, "passthrough", <<>>),
                 ObjectShape(<<Field("b", AnyGuard), Field("c", AnyGuard)>>, "strip", <<>>)),
   pipe |-> Two("pipe", Of("nullable", Num), Of("nullable", Number)),
   preprocess |-> Mapping("preprocess", Num, [n \in {"x"} |-> "1"]),
   lazy |-> [kind |-> "lazy", name |-> "tree"]]
MCRoots == DOMAIN MCRootOf

MCExtensions ==
  [plain |-> <<Field("c", AnyGuard)>>,
   over |-> <<Field("b", Num), Field("c", Absent)>>,
   oneWay |-> <<Field("a", Falling("default", Num, Atom("n1")))>>]
MCSelections == {{"a"}, {"b", "c"}, {"b"}}

-----------------------------------------------------------------------------
(* Values                                                                   *)

Rec(own) == RecordOf(own, "r")
AB(a, b) == Rec([a |-> a, b |-> b])
One1 == Atom("1")
Get == AccessorOf("get")
MCInputs ==
  {Undefined, Null, One1, Atom("01"), Atom("n1"), Atom("x"),
   Rec(NoOwn), Rec([b |-> Atom("x")]), Rec([a |-> Atom("01")]),
   AB(One1, Atom("x")), AB(One1, One1), AB(Atom("01"), Undefined), AB(Atom("x"), Get),
   AB(Atom("01"), RecordOf([a |-> One1, b |-> AB(One1, Null)], "s")),
   Rec([a |-> One1, b |-> Atom("x"), c |-> Atom("x")]),
   Rec([a |-> Atom("01"), b |-> Atom("n1"), c |-> Get]),
   [Rec([a |-> One1, b |-> One1, c |-> Atom("1")]) EXCEPT !.hidden = {"b", "c"}],
   ArrayOf(<<>>, "s"), ArrayOf(<<One1, Hole>>, "s"), ArrayOf(<<Atom("01"), Atom("x")>>, "s"),
   ArrayOf(<<Atom("n1"), Get, Atom("1")>>, "s"), ArrayOf(<<One1>>, "s"),
   ArrayOf(<<ArrayOf(<<One1>>, "t"), ArrayOf(<<>>, "u")>>, "s"), ArrayOf(<<AB(One1, Atom("x"))>>, "s"),
   SetOf(<<One1, Atom("01")>>, "s"), SetOf(<<Atom("x"), One1>>, "s"),
   MapOf(<<Pair(One1, Undefined), Pair(Atom("01"), Atom("x"))>>, "s"),
   MapOf(<<Pair(Atom("x"), One1)>>, "s")}

-----------------------------------------------------------------------------
(* Texts                                                                    *)

CONSTANTS JsonMaxDepth, LargestExponent, SafeDigits
VARIABLES exercise, text

DoubleQuote == "\""
ReverseSlash == "\\"
MCCodecOf ==
  [array |-> "json", object |-> "json", member |-> "json", string |-> "json",
   decimal |-> "json", number |-> "number", integer |-> "integer",
   base64 |-> "base64", base64url |-> "base64url", hex |-> "hex"]
MCStart ==
  [e \in DOMAIN MCCodecOf |->
     CASE e = "member" -> <<"{", DoubleQuote, "x", DoubleQuote, ":", "1", ",", DoubleQuote>>
       [] e = "string" -> <<DoubleQuote>>
       [] OTHER -> <<>>]
MCAlphabet ==
  [array |-> {"[", "]", ",", "space", "1", "true"},
   object |-> {"{", "}", ",", ":", DoubleQuote, "1"},
   member |-> {"}", ",", ":", DoubleQuote, "x", "null", "space"},
   string |-> {DoubleQuote, ReverseSlash, "n", "uctl", "ubmp", "uhigh", "ulow", "ctl", "x"},
   decimal |-> {"-", "0", "1", ".", "e", "+"},
   number |-> {"-", "0", "1", ".", "e", "space"},
   integer |-> {"-", "+", "0", "1", ".", "space"},
   base64 |-> {"A", "Q", "/", "=", "-", "9"},
   base64url |-> {"A", "Q", "_", "=", "+"},
   hex |-> {"0", "a", "F", "g"}]
MCMaxText ==
  [array |-> 6, object |-> 6, member |-> 13, string |-> 6, decimal |-> 6, number |-> 6,
   integer |-> 5, base64 |-> 6, base64url |-> 5, hex |-> 6]
Texts == INSTANCE TextCodecs WITH CodecOf <- MCCodecOf, Start <- MCStart,
                                  Alphabet <- MCAlphabet, MaxText <- MCMaxText

-----------------------------------------------------------------------------
NoExercise == "none"

CodecsInit ==
  \/ Init /\ exercise = NoExercise /\ text = <<>>
  \/ Texts!Init /\ made = <<>> /\ held = <<>> /\ use = NoUse

CodecsNext ==
  \/ exercise = NoExercise /\ Next /\ UNCHANGED <<exercise, text>>
  \/ exercise # NoExercise /\ Texts!Next /\ UNCHANGED vars

CodecsSpec == CodecsInit /\ [][CodecsNext]_<<vars, exercise, text>>

\* Every built-in codec reads back what it writes: what it decodes it can
\* encode, and that text decodes to the same value, but for the sign of a zero;
\* and jsonCodec's hand-written parser accepts the texts of the grammar of
\* JSON, and no other.
ReadsBack == exercise # NoExercise => Texts!ReadsBack /\ Texts!JsonIsGrammatical
=============================================================================
