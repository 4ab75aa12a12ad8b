--------------------------- MODULE ObjectDecoders ---------------------------
(***************************************************************************)
(* ObjectDecoder and ObjectCodec (src/decoder/index.ts): a client derives  *)
(* object decoders from one another with extend, pick, omit, partial,      *)
(* refine and the mode methods, wraps them in other combinators, and uses  *)
(* them: it decodes a value, encodes what it got, and decodes that again.  *)
(***************************************************************************)
EXTENDS Decoders
LOCAL INSTANCE SequencesExt

CONSTANTS
  Roots, RootOf,     \* names of the decoders the client starts from, and those
  Inputs,            \* values the client decodes
  Extensions,        \* shapes it extends an object with
  Selections,        \* sets of keys it picks or omits
  Predicates,        \* refinements it attaches
  MaxMade,           \* bound: decoders the client makes
  NoUse

VARIABLES
  made,   \* the decoders made so far, in order
  held,   \* for each of them, the refinements its ancestors were given
  use     \* the last use of a decoder

vars == <<made, held, use>>

-----------------------------------------------------------------------------
(* Object shapes                                                            *)

Field(key, of) == [key |-> key, of |-> of]
Object(class, fields, mode, post) ==
  [kind |-> "object", class |-> class, fields |-> fields, mode |-> mode, post |-> post]
AllEncodable(fields) == \A i \in DOMAIN fields : Encodable(fields[i].of)
\* decodeObjectShape, decodeObjectShapeWithEffect: the class follows the shape.
ObjectShape(fields, mode, post) ==
  Object(IF AllEncodable(fields) THEN "codec" ELSE "decoder", fields, mode, post)

IsObject(d) == d.kind = "object"
FieldOf(fields, k) == fields[CHOOSE i \in DOMAIN fields : fields[i].key = k]
KeysOf(fields) == {fields[i].key : i \in DOMAIN fields}

\* A key of the extension replaces the child in its place, a new one is appended.
MergeShapes(fields, extension) ==
  [i \in DOMAIN fields |->
     IF fields[i].key \in KeysOf(extension) THEN FieldOf(extension, fields[i].key)
     ELSE fields[i]]
  \o SelectSeq(extension, LAMBDA f : f.key \notin KeysOf(fields))
SelectShape(fields, keys, keep) ==
  SelectSeq(fields, LAMBDA f : (f.key \in keys) = keep)
PartialShape(fields) ==
  [i \in DOMAIN fields |-> Field(fields[i].key, [kind |-> "optional", of |-> fields[i].of])]

DeriveBare(d, fields, mode) == Object(d.class, fields, mode, <<>>)
\* Every derivation carries the refinements, or the effect, over.
Derive(d, fields, mode) == Object(d.class, fields, mode, d.post)

-----------------------------------------------------------------------------
(* The client                                                               *)

Init ==
  /\ \E r \in Roots : made = <<RootOf[r]>>
  /\ held = << {} >>
  /\ use = NoUse

Make(d, promised) ==
  /\ Len(made) < MaxMade
  /\ made' = Append(made, d)
  /\ held' = Append(held, promised)
  /\ use' = NoUse

\* A codec throws when it is extended with a one-way decoder.
Extend(i) ==
  \E extension \in DOMAIN Extensions :
    /\ IsObject(made[i])
    /\ made[i].class = "codec" => AllEncodable(Extensions[extension])
    /\ Make(Derive(made[i], MergeShapes(made[i].fields, Extensions[extension]), made[i].mode),
            held[i])

\* A key that is not declared is a TypeError.
Select(i) ==
  \E keys \in Selections, keep \in BOOLEAN :
    /\ IsObject(made[i])
    /\ keys \subseteq KeysOf(made[i].fields)
    /\ Make(Derive(made[i], SelectShape(made[i].fields, keys, keep), made[i].mode), held[i])

Partial(i) ==
  /\ IsObject(made[i]) /\ made[i].class = "decoder"
  /\ Make(Derive(made[i], PartialShape(made[i].fields), made[i].mode), held[i])

SetMode(i) ==
  \E mode \in {"strict", "strip", "passthrough"} :
    /\ IsObject(made[i]) /\ made[i].mode # mode
    /\ Make(Derive(made[i], made[i].fields, mode), held[i])

\* An object decoder stays one; any other decoder becomes a refined decoder.
Refine(i) ==
  \E p \in Predicates :
    IF IsObject(made[i]) /\ made[i].class = "decoder"
    THEN Make([made[i] EXCEPT !.post = Append(@, p)], held[i] \cup {p})
    ELSE Make([kind |-> "refine", of |-> made[i], predicate |-> p], held[i] \cup {p})

\* What a wrapper of a refined decoder returns is not an object it refined.
Wrap(i) ==
  \/ Make([kind |-> "array", of |-> made[i]], {})
  \/ Make([kind |-> "optional", of |-> made[i]], held[i])
  \/ \E j \in DOMAIN made \ {i} : Make([kind |-> "union", of |-> <<made[i], made[j]>>], {})
  \/ \E j \in DOMAIN made \ {i} : Make([kind |-> "both", left |-> made[i], right |-> made[j]], {})

\* encode and the second decode happen only when there is something to pass on.
Use(i) ==
  \E v \in Inputs :
    LET decoded == Decode(made[i], v)
        encoded == IF decoded.ok /\ Encodable(made[i]) THEN Encode(made[i], decoded.value)
                   ELSE decoded
        again == IF encoded.ok /\ Encodable(made[i]) THEN Decode(made[i], encoded.value)
                 ELSE encoded
    IN  /\ use = NoUse
        /\ use' = [by |-> i, input |-> v, decoded |-> decoded, encoded |-> encoded,
                   again |-> again]
        /\ UNCHANGED <<made, held>>

Next ==
  \E i \in DOMAIN made :
    Extend(i) \/ Select(i) \/ Partial(i) \/ SetMode(i) \/ Refine(i) \/ Wrap(i) \/ Use(i)

Spec == Init /\ [][Next]_vars

-----------------------------------------------------------------------------
(* Properties                                                               *)

\* d and every decoder inside it.
Inside(d) ==
  CASE d.kind \in {"tuple", "union"} -> d.of
    [] d.kind \in {"rest", "map", "both", "pipe"} -> <<d.left, d.right>>
    [] d.kind = "codec" -> <<d.input, d.output>>
    [] d.kind = "object" -> [i \in DOMAIN d.fields |-> d.fields[i].of]
    [] d.kind \in {"guard", "lazy"} -> <<>>
    [] OTHER -> <<d.of>>
RECURSIVE Parts(_)
Parts(d) ==
  <<d>> \o FlattenSeq([i \in DOMAIN Inside(d) |-> Parts(Inside(d)[i])])
Throughout(d, Holds(_)) == LET parts == Parts(d) IN \A i \in DOMAIN parts : Holds(parts[i])

\* An object codec runs its effect on what it encoded too: the effect must look
\* at properties that encoding leaves alone.
EffectFits(d) ==
  IsObject(d) => \A i \in DOMAIN d.post :
    d.post[i].on \in KeysOf(d.fields) => FieldOf(d.fields, d.post[i].on).of.kind = "guard"
\* A side of an intersection that passes on what it does not declare clashes,
\* once encoded, with the other side's encoding of it.
PassesOn(d) == \/ d.kind = "object" /\ d.mode = "passthrough"
               \/ d.kind = "record" /\ d.loose
SidesFit(d) == d.kind = "both" => Throughout(d, LAMBDA e : ~PassesOn(e))

\* A codec encodes back everything it decodes, across the same boundary: the
\* encoding is accepted again, and decodes to the same value unless a union
\* chooses another option for it.
EncodesBack ==
  (use # NoUse /\ use.decoded.ok /\ Encodable(made[use.by])
     /\ Throughout(made[use.by], EffectFits) /\ Throughout(made[use.by], SidesFit)) =>
    /\ use.encoded.ok /\ use.again.ok
    /\ Throughout(made[use.by], LAMBDA d : d.kind # "union") => use.again.value = use.decoded.value

\* Whatever was derived from a refined decoder still refines: what it returns
\* meets every refinement its ancestors were given.
RefinementsKept ==
  (use # NoUse /\ use.decoded.ok /\ use.decoded.value # Undefined) =>
    \A p \in held[use.by] : Meets(p, use.decoded.value)

=============================================================================
