---------------------------- MODULE ObjectGuards ----------------------------
(***************************************************************************)
(* The fluent builders of object guards: a guard is derived from another   *)
(* by extending, merging, selecting, relaxing or wrapping it.              *)
(*                                                                         *)
(* A shape lists its keys in order with the schema of the guard of each; a *)
(* key declared by a getter has a lazy node.  A guard has the schema it    *)
(* validates with, the object below the metadata and refinement wrappers   *)
(* of that schema ("capability"), and its shape.  The types of arguments,  *)
(* which throw, are left out but for the keys selected.                    *)
(***************************************************************************)
EXTENDS Contracts, SequencesExt

Field(key, schema) == [key |-> key, schema |-> schema]
KeysOf(shape) == {shape[i].key : i \in DOMAIN shape}

-----------------------------------------------------------------------------
(* Entries                                                                 *)

\* The wrappers through which the presence of a property is seen.
Transparent == {"Undefinedable", "Nullable", "Brand", "Metadata", "Message", "Keyed", "Count",
                "Names", "Patterns", "Refine"}

\* The optional wrapper anywhere on the spine becomes the presence of the
\* property.
RECURSIVE NormalizeObjectEntrySchema(_)
NormalizeObjectEntrySchema(s) ==
  LET tag == s.tag IN
  CASE tag = "Optional" ->
         [schema |-> NormalizeObjectEntrySchema(s.inner).schema, presence |-> "optional"]
    [] tag \in Transparent ->
         LET inner == NormalizeObjectEntrySchema(s.inner) IN
         IF inner.presence = "required" THEN [schema |-> s, presence |-> "required"]
         ELSE [schema |-> [s EXCEPT !.inner = inner.schema], presence |-> "optional"]
    [] tag = "Lazy" /\ Has(s, "presence") -> [schema |-> s, presence |-> "deferred"]
    [] OTHER -> [schema |-> s, presence |-> "required"]

ObjectSchemaFromEntries(entries, mode, catchall) ==
  [tag |-> "Object", entries |-> entries, mode |-> mode]
    @@ (IF catchall = {} THEN <<>> ELSE "catchall" :> CHOOSE s \in catchall : TRUE)

CatchallOf(object) == IF Has(object, "catchall") THEN {object.catchall} ELSE {}

ObjectSchema(shape, mode) ==
  ObjectSchemaFromEntries(
    [i \in DOMAIN shape |->
       LET entry == NormalizeObjectEntrySchema(shape[i].schema) IN
       Entry(shape[i].key, entry.schema, entry.presence)],
    mode, {})

ObjectEntryCanBeOmitted(entry) == ResolvedPresence(entry) = "optional"

ObjectShapeFromSchema(object) ==
  [i \in DOMAIN object.entries |->
     LET entry == object.entries[i] IN
     Field(entry.key, IF ObjectEntryCanBeOmitted(entry)
                      THEN Wrapped("Optional", entry.schema) ELSE entry.schema)]

-----------------------------------------------------------------------------
(* Object schemas from others                                              *)

WithEntries(object, entries) == [object EXCEPT !.entries = entries]

FindObjectEntry(entries, key) == entries[CHOOSE i \in DOMAIN entries : entries[i].key = key]

\* The entries of the base in their places, replaced by those of the
\* extension of the same key, then the new ones.
MergeObjectSchemas(base, extension) ==
  LET replaced ==
        [i \in DOMAIN base.entries |->
           IF base.entries[i].key \in EntryKeys(extension.entries)
           THEN FindObjectEntry(extension.entries, base.entries[i].key)
           ELSE base.entries[i]]
      added == SelectSeq(extension.entries, LAMBDA e : e.key \notin EntryKeys(base.entries))
      catchall == IF Has(extension, "catchall") THEN {extension.catchall} ELSE CatchallOf(base)
  IN  ObjectSchemaFromEntries(replaced \o added, base.mode, catchall)

PickObjectSchema(object, keys) ==
  WithEntries(object, [i \in DOMAIN keys |-> FindObjectEntry(object.entries, keys[i])])

OmitObjectSchema(object, keys) ==
  WithEntries(object, SelectSeq(object.entries, LAMBDA e : e.key \notin ToSet(keys)))

\* partial and required: the presence of the selected entries.
PresenceObjectSchema(object, keys, presence) ==
  WithEntries(object, [i \in DOMAIN object.entries |->
    IF object.entries[i].key \in ToSet(keys)
    THEN [object.entries[i] EXCEPT !.presence = presence] ELSE object.entries[i]])

\* Every nested object; refinements and lazy nodes are left as they are.
RECURSIVE DeepPartialSchema(_)
DeepPartialSchema(s) ==
  LET tag == s.tag
      each(schemas) == [i \in DOMAIN schemas |-> DeepPartialSchema(schemas[i])]
  IN
  CASE tag = "Object" ->
         ObjectSchemaFromEntries(
           [i \in DOMAIN s.entries |->
              Entry(s.entries[i].key, DeepPartialSchema(s.entries[i].schema), "optional")],
           s.mode, {DeepPartialSchema(c) : c \in CatchallOf(s)})
    [] tag = "Array" -> [s EXCEPT !.item = DeepPartialSchema(@)]
    [] tag = "Tuple" ->
         [tag |-> "Tuple", items |-> each(s.items)]
           @@ (IF Has(s, "rest") THEN "rest" :> DeepPartialSchema(s.rest) ELSE <<>>)
    [] tag = "Record" -> [s EXCEPT !.value = DeepPartialSchema(@), !.required = {}]
    [] tag \in {"Union", "Xor"} -> [s EXCEPT !.options = each(@)]
    [] tag = "Intersection" ->
         [s EXCEPT !.left = DeepPartialSchema(@), !.right = DeepPartialSchema(@)]
    [] tag \in {"Optional", "Undefinedable", "Nullable", "Brand", "Metadata", "Message", "Keyed",
                "Count", "Names", "Patterns"} -> [s EXCEPT !.inner = DeepPartialSchema(@)]
    [] OTHER -> s

-----------------------------------------------------------------------------
(* Guards                                                                  *)

ObjectGuard(schema, capability) ==
  [schema |-> schema, capability |-> capability, shape |-> ObjectShapeFromSchema(capability)]

Constructed(shape, mode) ==
  LET object == ObjectSchema(shape, mode) IN
  [schema |-> object, capability |-> object, shape |-> shape]

\* Mutant: the wrappers of the receiver are lost.
RebaseOntoReplacement(outer, capability, replacement) == replacement

\* The replacement below copies of the wrappers of the receiver.
RECURSIVE RebaseObjectValidationSchema(_, _, _)
RebaseObjectValidationSchema(outer, capability, replacement) ==
  IF outer = capability THEN replacement
  ELSE [outer EXCEPT !.inner = RebaseObjectValidationSchema(@, capability, replacement)]

Derived(g, replacement) ==
  ObjectGuard(RebaseObjectValidationSchema(g.schema, g.capability, replacement), replacement)

CanSelect(g, keys) == ToSet(keys) \subseteq EntryKeys(g.capability.entries)
AllKeys(g) == [i \in DOMAIN g.capability.entries |-> g.capability.entries[i].key]

Extend(g, extension) ==
  Derived(g, MergeObjectSchemas(g.capability, ObjectSchema(extension, g.capability.mode)))

\* The wrappers of the other guard go outside those of the receiver.
Merge(g, other) ==
  LET merged == MergeObjectSchemas(g.capability, other.capability)
      own == RebaseObjectValidationSchema(g.schema, g.capability, merged)
  IN  ObjectGuard(RebaseObjectValidationSchema(other.schema, other.capability, own), merged)

Pick(g, keys) == Derived(g, PickObjectSchema(g.capability, keys))
Omit(g, keys) == Derived(g, OmitObjectSchema(g.capability, keys))
Partial(g, keys) == Derived(g, PresenceObjectSchema(g.capability, keys, "optional"))
Required(g, keys) == Derived(g, PresenceObjectSchema(g.capability, keys, "required"))
DeepPartial(g) == Derived(g, DeepPartialSchema(g.capability))
WithMode(g, mode) ==
  Derived(g, ObjectSchemaFromEntries(g.capability.entries, mode, CatchallOf(g.capability)))
Catchall(g, schema) ==
  Derived(g, ObjectSchemaFromEntries(g.capability.entries, g.capability.mode, {schema}))

\* These keep the shape and the object of the receiver.
Refined(g, predicate) ==
  [g EXCEPT !.schema = [tag |-> "Refine", inner |-> @, holds |-> predicate]]
Described(g) == [g EXCEPT !.schema = Wrapped("Metadata", @)]

\* These end the derivation: the guard is no longer one of an object.
KeyedObjectGuard(g, keys, rule) ==
  [schema |-> [tag |-> "Keyed", inner |-> g.schema, keys |-> keys, rule |-> rule]]
RECURSIVE CanConstrain(_)
CanConstrain(s) ==
  \/ s.tag = "Object"
  \/ s.tag \in {"Count", "Names", "Patterns"} /\ CanConstrain(s.inner)

PropertyCountObject(g, min, max) ==
  [schema |-> [tag |-> "Count", inner |-> g.schema, min |-> min, max |-> max]]
PropertyNamesObject(g, key) == [schema |-> [tag |-> "Names", inner |-> g.schema, key |-> key]]

-----------------------------------------------------------------------------
(* Discriminated unions                                                    *)

CaseWrappers == {"Brand", "Metadata", "Message", "Keyed", "Count", "Names", "Patterns", "Refine"}

\* The objects below the wrappers, the left side of an intersection first.
RECURSIVE UnwrapCaseObjectSchema(_)
UnwrapCaseObjectSchema(s) ==
  CASE s.tag = "Object" -> <<s>>
    [] s.tag = "Intersection" ->
         UnwrapCaseObjectSchema(s.left) \o UnwrapCaseObjectSchema(s.right)
    [] s.tag \in CaseWrappers -> UnwrapCaseObjectSchema(s.inner)
    [] OTHER -> <<>>

RECURSIVE SchemaLiterals(_)
SchemaLiterals(s) ==
  CASE s.tag = "Literal" -> <<s.value>>
    [] s.tag = "Intersection" -> SchemaLiterals(s.left) \o SchemaLiterals(s.right)
    [] s.tag \in CaseWrappers -> SchemaLiterals(s.inner)
    [] OTHER -> <<>>

\* The literals a required discriminant is compared with, of the first object.
DiscriminantLiterals(s, key) ==
  LET objects == UnwrapCaseObjectSchema(s)
      entries == IF objects = <<>> THEN <<>>
                 ELSE SelectSeq(objects[1].entries, LAMBDA e : e.key = key)
  IN  IF entries # <<>> /\ entries[1].presence = "required"
      THEN SchemaLiterals(entries[1].schema) ELSE <<>>

CaseRequiresDiscriminant(s, key, literal) == literal \in ToSet(DiscriminantLiterals(s, key))

\* The cases of an object, whose names are the literals; {} when one throws.
NamedCases(key, cases) ==
  IF \A i \in DOMAIN cases : CaseRequiresDiscriminant(cases[i].schema, key, cases[i].literal)
  THEN {[tag |-> "Discriminated", key |-> key, cases |-> cases]} ELSE {}

\* The cases of an array, whose literals are found in them.
DiscriminatedUnionFromArray(key, schemas) ==
  LET literals(i) == DiscriminantLiterals(schemas[i], key)
      found == {i \in DOMAIN schemas : literals(i) # <<>>}
      first == [i \in found |-> literals(i)[1]]
  IN  IF found = DOMAIN schemas /\ \A i, j \in found : first[i] = first[j] => i = j
      THEN {[tag |-> "Discriminated", key |-> key,
             cases |-> [i \in DOMAIN schemas |-> [literal |-> first[i], schema |-> schemas[i]]]]}
      ELSE {}
=============================================================================
