----------------------------- MODULE JsonImport -----------------------------
(***************************************************************************)
(* The schema read from a JSON Schema document, or a failure.              *)
(*                                                                         *)
(* A reference met while its target is being read becomes a lazy node      *)
(* named by the pointer.  The cache of finished references only saves a    *)
(* second reading, so it is left out: the table of lazy nodes reads each   *)
(* target once.  Documents are the records of JsonExport, whose values are *)
(* well formed; paths and messages of issues are left out.                 *)
(***************************************************************************)
EXTENDS JsonExport

Failed == [tag |-> "Failed"]
IsFailed(s) == s.tag = "Failed"
AnyFailed(schemas) == \E i \in DOMAIN schemas : IsFailed(schemas[i])

-----------------------------------------------------------------------------
(* The constructors the reader calls                                       *)

\* Flattened options: an unknown one absorbs the rest, never ones are dropped.
RECURSIVE FlatOptions(_)
FlatOptions(options) ==
  FlattenSeq([i \in DOMAIN options |->
    CASE options[i].tag = "Never" -> <<>>
      [] options[i].tag = "Union" -> FlatOptions(options[i].options)
      [] OTHER -> <<options[i]>>])

NormalizeUnionSchema(options) ==
  LET flat == FlatOptions(options) IN
  CASE \E i \in DOMAIN flat : flat[i].tag = "Unknown" -> Unknown
    [] flat = <<>> -> Never
    [] Len(flat) = 1 -> flat[1]
    [] OTHER -> Options("Union", flat)

NumberSchema(checks) == [tag |-> "Number", checks |-> checks]
StringSchema(checks) == [tag |-> "String", checks |-> checks]
Check(kind, value) == [is |-> kind, value |-> value]

\* A check for a keyword that is there.
CheckFor(doc, field, kind) ==
  IF Has(doc, field) THEN <<Check(kind, doc[field])>> ELSE <<>>

-----------------------------------------------------------------------------
(* Pointers                                                                *)

\* The tokens of a pointer, with the escapes undone.
RECURSIVE PointerTokens(_, _, _)
PointerTokens(chars, token, done) ==
  LET next(rest, t, d) == PointerTokens(rest, t, d) IN
  CASE chars = <<>> -> Append(done, token)
    [] chars # <<>> /\ chars[1] = "/" -> next(Tail(chars), <<>>, Append(done, token))
    [] Len(chars) > 1 /\ chars[1] = "~" /\ chars[2] = "0" ->
         next(SubSeq(chars, 3, Len(chars)), Append(token, "~"), done)
    [] Len(chars) > 1 /\ chars[1] = "~" /\ chars[2] = "1" ->
         next(SubSeq(chars, 3, Len(chars)), Append(token, "/"), done)
    [] OTHER -> next(Tail(chars), Append(token, chars[1]), done)

\* The keyword a document spells with a token, and the list under a list one.
KeywordField(doc, keyword) ==
  IF keyword = "items" /\ Has(doc, "itemList") THEN "itemList" ELSE keyword

ReadPointerProperty(value, token) ==
  IF token \in Range(Digits)
  THEN LET i == CHOOSE d \in DOMAIN Digits : Digits[d] = token IN
       IF i \in DOMAIN value THEN value[i] ELSE Refused
  ELSE LET key == {k \in DOMAIN Spelling : Spelling[k] = token}
           named == {KeywordField(value, k) : k \in key} \cap DOMAIN value
       IN  IF named = {} THEN Refused ELSE value[CHOOSE k \in named : TRUE]

ReadJsonPointerTarget(root, ref) ==
  IF ref = <<"#">> THEN root
  ELSE FoldLeft(LAMBDA at, token : IF IsRefused(at) THEN at ELSE ReadPointerProperty(at, token),
                root, Tail(PointerTokens(ref, <<>>, <<>>)))

ReferenceAnnotations == {"ref", "id", "$defs", "definitions"}

-----------------------------------------------------------------------------
(* Scalars                                                                 *)

StringFormats == {"email", "ipv4"}

ReadStringSchema(doc) ==
  LET format == IF Has(doc, "format") /\ doc.format \in StringFormats
                THEN <<[is |-> "format", source |-> doc.format]>> ELSE <<>>
      pattern == IF Has(doc, "pattern") THEN <<[is |-> "regex", source |-> doc.pattern]>> ELSE <<>>
  IN  IF Has(doc, "minLength") /\ Has(doc, "maxLength") /\ doc.minLength > doc.maxLength
      THEN Failed
      ELSE StringSchema(format \o CheckFor(doc, "minLength", "min")
                          \o CheckFor(doc, "maxLength", "max") \o pattern)

\* Mutant: the draft-04 flag is not looked at.
BoundChecksUnflagged(doc, closedField, openField, flagField, closed, open) ==
  CheckFor(doc, closedField, closed) \o CheckFor(doc, openField, open)

\* The draft-04 flag qualifies the bound it stands next to.
BoundChecks(doc, closedField, openField, flagField, closed, open) ==
  IF Has(doc, flagField)
  THEN <<Check(IF doc[flagField] THEN open ELSE closed, doc[closedField])>>
  ELSE CheckFor(doc, closedField, closed) \o CheckFor(doc, openField, open)

ReadNumberSchema(doc) ==
  IF \/ Has(doc, "openMinimum") /\ ~Has(doc, "minimum")
     \/ Has(doc, "openMaximum") /\ ~Has(doc, "maximum")
  THEN Failed
  ELSE NumberSchema(
         BoundChecks(doc, "minimum", "exclusiveMinimum", "openMinimum", "gte", "gt")
           \o BoundChecks(doc, "maximum", "exclusiveMaximum", "openMaximum", "lte", "lt")
           \o CheckFor(doc, "multipleOf", "multipleOf"))

-----------------------------------------------------------------------------
(* The reader.  root holds the targets of references, resolving those being *)
(* read.                                                                   *)

RECURSIVE ReadSchema(_, _, _)

ReadAll(docs, root, resolving) ==
  [i \in DOMAIN docs |-> ReadSchema(docs[i], root, resolving)]

\* Only annotations may stand next to a reference.
ReadReferenceSchema(doc, root, resolving) ==
  LET target == ReadJsonPointerTarget(root, doc.ref) IN
  CASE ~(DOMAIN doc \subseteq ReferenceAnnotations) -> Failed
    [] doc.ref \in resolving -> Lazy(doc.ref)
    [] IsRefused(target) -> Failed
    [] OTHER -> ReadSchema(target, root, resolving \cup {doc.ref})

ReadGuardList(docs, tag, root, resolving) ==
  LET schemas == ReadAll(docs, root, resolving) IN
  CASE docs = <<>> -> Never
    [] AnyFailed(schemas) -> Failed
    [] Len(schemas) = 1 -> schemas[1]
    [] tag = "Union" -> NormalizeUnionSchema(schemas)
    [] OTHER -> Options("Xor", schemas)

ReadAllOf(docs, root, resolving) ==
  LET schemas == ReadAll(docs, root, resolving) IN
  CASE docs = <<>> -> Unknown
    [] AnyFailed(schemas) -> Failed
    [] OTHER -> FoldLeft(LAMBDA left, right :
                           [tag |-> "Intersection", left |-> left, right |-> right],
                         schemas[1], Tail(schemas))

\* Only the negation of everything or of nothing is understood.
ReadNotSchema(doc) ==
  CASE ~(DOMAIN doc \subseteq ReferenceAnnotations \cup {"not"}) -> Failed
    [] Is(doc.not, FALSE) -> Unknown
    [] Is(doc.not, TRUE) \/ DOMAIN doc.not = {} -> Never
    [] OTHER -> Failed

ReadTupleSchema(doc, root, resolving) ==
  LET items == ReadAll(IF Has(doc, "prefixItems") THEN doc.prefixItems ELSE doc.itemList,
                       root, resolving)
      open == Has(doc, "additionalItems") /\ ~Is(doc.additionalItems, FALSE)
      rest == IF open THEN ReadSchema(doc.additionalItems, root, resolving) ELSE Never
  IN  CASE AnyFailed(items) \/ IsFailed(rest) -> Failed
        [] open -> [tag |-> "Tuple", items |-> items, rest |-> rest]
        [] OTHER -> [tag |-> "Tuple", items |-> items]

ReadArraySchema(doc, root, resolving) ==
  LET item == IF Has(doc, "items") THEN ReadSchema(doc.items, root, resolving) ELSE Unknown IN
  CASE Has(doc, "prefixItems") \/ Has(doc, "itemList") -> ReadTupleSchema(doc, root, resolving)
    [] IsFailed(item) -> Failed
    [] Has(doc, "minItems") /\ Has(doc, "maxItems") /\ doc.minItems > doc.maxItems -> Failed
    [] OTHER -> [tag |-> "Array", item |-> item,
                 checks |-> CheckFor(doc, "minItems", "min") \o CheckFor(doc, "maxItems", "max")]

\* The object of the declared properties, in any order.
ReadProperties(doc, keys, root, resolving) ==
  [i \in DOMAIN keys |->
     Entry(keys[i], ReadSchema(doc.properties[keys[i]], root, resolving),
           IF Has(doc, "required") /\ keys[i] \in doc.required THEN "required" ELSE "optional")]

\* The count, the names and the patterns, each around the one before.
ApplyObjectPropertyRules(object, doc, keys, names, patterns, extra) ==
  LET counted == IF Has(doc, "minProperties") \/ Has(doc, "maxProperties")
                 THEN Wrapped("Count", object)
                        @@ (IF Has(doc, "minProperties") THEN "min" :> doc.minProperties ELSE <<>>)
                        @@ (IF Has(doc, "maxProperties") THEN "max" :> doc.maxProperties ELSE <<>>)
                 ELSE object
      named == IF Has(doc, "propertyNames")
               THEN [tag |-> "Names", inner |-> counted, key |-> names] ELSE counted
      closed == Has(doc, "additionalProperties") /\ Is(doc.additionalProperties, FALSE)
      typed == Has(doc, "additionalProperties") /\ ~IsBoolean(doc.additionalProperties)
  IN  IF patterns = <<>> THEN named
      ELSE [tag |-> "Patterns", inner |-> named, entries |-> patterns, known |-> keys,
            allow |-> ~closed]
             @@ (IF typed THEN "additional" :> extra ELSE <<>>)

ReadObjectSchema(doc, root, resolving) ==
  LET keys == IF Has(doc, "properties") THEN SetToSeq(DOMAIN doc.properties) ELSE <<>>
      entries == ReadProperties(doc, keys, root, resolving)
      sources == IF Has(doc, "patternProperties")
                 THEN SetToSeq(DOMAIN doc.patternProperties) ELSE <<>>
      patterns == [i \in DOMAIN sources |->
                     [source |-> sources[i],
                      schema |-> ReadSchema(doc.patternProperties[sources[i]], root, resolving)]]
      names == IF Has(doc, "propertyNames") THEN ReadSchema(doc.propertyNames, root, resolving)
               ELSE Unknown
      typed == Has(doc, "additionalProperties") /\ ~IsBoolean(doc.additionalProperties)
      extra == IF typed THEN ReadSchema(doc.additionalProperties, root, resolving) ELSE Unknown
      closed == Has(doc, "additionalProperties") /\ Is(doc.additionalProperties, FALSE)
      object == [tag |-> "Object", entries |-> entries,
                 mode |-> IF closed /\ patterns = <<>> THEN "strict" ELSE "passthrough"]
                  @@ (IF typed /\ patterns = <<>> THEN "catchall" :> extra ELSE <<>>)
  IN  IF \/ \E i \in DOMAIN entries : IsFailed(entries[i].schema)
         \/ \E i \in DOMAIN patterns : IsFailed(patterns[i].schema)
         \/ AnyFailed(<<names, extra>>)
         \/ Has(doc, "minProperties") /\ Has(doc, "maxProperties")
              /\ doc.minProperties > doc.maxProperties
      THEN Failed
      ELSE ApplyObjectPropertyRules(object, doc, ToSet(keys), names, patterns, extra)

\* A type name of no known kind reads as nothing.
ReadTypedSchema(doc, type, root, resolving) ==
  CASE type = "null" -> Literal(Null)
    [] type = "boolean" -> Node("Boolean")
    [] type = "string" -> ReadStringSchema(doc)
    [] type = "number" -> ReadNumberSchema(doc)
    [] type = "integer" ->
         LET number == ReadNumberSchema(doc) IN
         IF IsFailed(number) THEN Failed
         ELSE [number EXCEPT !.checks = Append(@, Check("integer", 0))]
    [] type = "array" -> ReadArraySchema(doc, root, resolving)
    [] type = "object" -> ReadObjectSchema(doc, root, resolving)
    [] OTHER -> Failed

ReadTypeUnion(doc, root, resolving) ==
  LET schemas == [i \in DOMAIN doc.types |-> ReadTypedSchema(doc, doc.types[i], root, resolving)] IN
  CASE doc.types = <<>> \/ AnyFailed(schemas) -> Failed
    [] Len(schemas) = 1 -> schemas[1]
    [] OTHER -> NormalizeUnionSchema(schemas)

ObjectKeywords == {"properties", "additionalProperties", "minProperties", "maxProperties",
                   "propertyNames", "patternProperties"}

ReadInferredSchema(doc, root, resolving) ==
  CASE DOMAIN doc \cap ObjectKeywords # {} -> ReadObjectSchema(doc, root, resolving)
    [] DOMAIN doc \cap {"items", "itemList", "prefixItems"} # {} ->
         ReadArraySchema(doc, root, resolving)
    [] OTHER -> Unknown

\* The first keyword that decides what is read; its siblings are not looked at.
ReadSchema(doc, root, resolving) ==
  CASE IsBoolean(doc) -> IF doc.boolean THEN Unknown ELSE Never
    [] Has(doc, "ref") -> ReadReferenceSchema(doc, root, resolving)
    [] Has(doc, "const") -> Literal(doc.const)
    [] Has(doc, "enum") -> IF doc.enum = <<>> THEN Failed
                           ELSE NormalizeUnionSchema([i \in DOMAIN doc.enum |-> Literal(doc.enum[i])])
    [] Has(doc, "anyOf") -> ReadGuardList(doc.anyOf, "Union", root, resolving)
    [] Has(doc, "oneOf") -> ReadGuardList(doc.oneOf, "Xor", root, resolving)
    [] Has(doc, "allOf") -> ReadAllOf(doc.allOf, root, resolving)
    [] Has(doc, "not") -> ReadNotSchema(doc)
    [] Has(doc, "types") -> ReadTypeUnion(doc, root, resolving)
    [] Has(doc, "type") -> ReadTypedSchema(doc, doc.type, root, resolving)
    [] OTHER -> ReadInferredSchema(doc, root, resolving)

\* The pointers a document refers to.
RECURSIVE References(_)
References(doc) ==
  LET under(S) == UNION {References(d) : d \in S}
      lists == {"anyOf", "oneOf", "allOf", "prefixItems", "itemList"} \cap DOMAIN doc
      tables == {"properties", "patternProperties", "$defs", "definitions"} \cap DOMAIN doc
      single == {"items", "additionalItems", "additionalProperties", "propertyNames", "not"}
                  \cap DOMAIN doc
  IN  IF IsBoolean(doc) THEN {}
      ELSE (IF Has(doc, "ref") THEN {doc.ref} ELSE {})
             \cup under({doc[f] : f \in single})
             \cup under(UNION {Range(doc[f]) : f \in lists \cup tables})

\* The schema of the document and of each reference in it.
FromJsonSchema(doc) == ReadSchema(doc, doc, {<<"#">>})

LazyTable(doc) ==
  [ref \in References(doc) |->
     LET target == ReadJsonPointerTarget(doc, ref) IN
     IF IsRefused(target) THEN Never ELSE ReadSchema(target, doc, {<<"#">>, ref})]
=============================================================================
