---------------------------- MODULE JsonValidity ----------------------------
(***************************************************************************)
(* What a JSON Schema document accepts, from the dialects' own rules and   *)
(* not from the code: the reference the exporter and the importer are      *)
(* judged by.  Every keyword constrains values of its own type only.       *)
(*                                                                         *)
(* Draft-04, draft-07 and OpenAPI ignore the siblings of a reference.  A    *)
(* document with an identifier is the base of the references below it.     *)
(* "format" is an annotation.                                              *)
(***************************************************************************)
EXTENDS JsonExport

TypeIs(type, v) ==
  CASE type = "null" -> v = Null
    [] type = "boolean" -> v.is = "boolean"
    [] type = "string" -> v.is = "text"
    [] type = "number" -> v.is = "number"
    [] type = "integer" -> v.is = "number" /\ v.number % 2 = 0
    [] type = "array" -> v.is = "list"
    [] type = "object" -> v.is = "fields"
    [] OTHER -> FALSE

\* "nullable" extends the "type" it stands next to.
TypeAllows(doc, v) ==
  /\ Has(doc, "type") => TypeIs(doc.type, v) \/ (v = Null /\ Has(doc, "nullable"))
  /\ Has(doc, "types") => \E i \in DOMAIN doc.types : TypeIs(doc.types[i], v)

TextAllowed(doc, s) ==
  /\ Has(doc, "minLength") => Sizes[s] >= doc.minLength
  /\ Has(doc, "maxLength") => Sizes[s] <= doc.maxLength
  /\ Has(doc, "pattern") => s \in Matching[doc.pattern]

NumberAllowed(doc, n) ==
  /\ Has(doc, "minimum") =>
       (IF Has(doc, "openMinimum") /\ doc.openMinimum THEN n > doc.minimum ELSE n >= doc.minimum)
  /\ Has(doc, "maximum") =>
       (IF Has(doc, "openMaximum") /\ doc.openMaximum THEN n < doc.maximum ELSE n <= doc.maximum)
  /\ Has(doc, "exclusiveMinimum") => n > doc.exclusiveMinimum
  /\ Has(doc, "exclusiveMaximum") => n < doc.exclusiveMaximum
  /\ Has(doc, "multipleOf") => n % doc.multipleOf = 0

\* A schema for each place of a list: the positional ones, then the rest.
ListAllowed(doc, list, Child(_, _)) ==
  LET positional == CASE Has(doc, "prefixItems") -> doc.prefixItems
                      [] Has(doc, "itemList") -> doc.itemList
                      [] OTHER -> <<>>
      others == CASE Has(doc, "itemList") /\ Has(doc, "additionalItems") -> doc.additionalItems
                  [] Has(doc, "items") -> doc.items
                  [] OTHER -> Doc(TRUE)
  IN  /\ Has(doc, "minItems") => Len(list) >= doc.minItems
      /\ Has(doc, "maxItems") => Len(list) <= doc.maxItems
      /\ \A i \in DOMAIN list :
           Child(IF i <= Len(positional) THEN positional[i] ELSE others, list[i])

MatchingSources(doc, key) ==
  IF Has(doc, "patternProperties")
  THEN {p \in DOMAIN doc.patternProperties : key \in Matching[p]} ELSE {}

FieldsAllowed(doc, fields, Child(_, _)) ==
  LET declared == IF Has(doc, "properties") THEN DOMAIN doc.properties ELSE {} IN
  /\ Has(doc, "required") => doc.required \subseteq DOMAIN fields
  /\ Has(doc, "minProperties") => Cardinality(DOMAIN fields) >= doc.minProperties
  /\ Has(doc, "maxProperties") => Cardinality(DOMAIN fields) <= doc.maxProperties
  /\ \A key \in DOMAIN fields :
       /\ Has(doc, "propertyNames") => Child(doc.propertyNames, Text(key))
       /\ key \in declared => Child(doc.properties[key], fields[key])
       /\ \A p \in MatchingSources(doc, key) : Child(doc.patternProperties[p], fields[key])
       /\ (/\ key \notin declared
           /\ MatchingSources(doc, key) = {}
           /\ Has(doc, "additionalProperties")) => Child(doc.additionalProperties, fields[key])

Negated(doc, v, Child(_, _)) == Has(doc, "not") => ~Child(doc.not, v)

Combined(doc, v, Child(_, _)) ==
  LET holding(field) == {i \in DOMAIN doc[field] : Child(doc[field][i], v)} IN
  /\ Has(doc, "allOf") => holding("allOf") = DOMAIN doc.allOf
  /\ Has(doc, "anyOf") => holding("anyOf") # {}
  /\ Has(doc, "oneOf") => Cardinality(holding("oneOf")) = 1
  /\ Has(doc, "const") => v = doc.const
  /\ Has(doc, "enum") => v \in {doc.enum[i] : i \in DOMAIN doc.enum}

\* The place a reference names in its base.
Named(base, ref) ==
  LET places == {<<at, d>> \in base.places : at = ref} IN
  IF places = {} THEN Doc(FALSE) ELSE (CHOOSE p \in places : TRUE)[2]

\* RFC 6901: a token is a key with its special characters escaped.
Escapes == ("~" :> <<"~", "0">>) @@ ("/" :> <<"~", "1">>)
Token(chars) ==
  FlattenSeq([i \in DOMAIN chars |->
    IF chars[i] \in DOMAIN Escapes THEN Escapes[chars[i]] ELSE <<chars[i]>>])
Below(at, key) == at \o <<"/">> \o Token(Spelling[key])

\* Every place of a document with its pointer.
ListFields == {"anyOf", "oneOf", "allOf", "prefixItems", "itemList"}
TableFields == {"properties", "patternProperties", "$defs", "definitions"}
SingleFields == {"items", "additionalItems", "additionalProperties", "propertyNames", "not"}
KeywordOf(field) == IF field = "itemList" THEN "items" ELSE field

RECURSIVE PlacesOf(_, _)
PlacesOf(doc, at) ==
  LET below(f) ==
        CASE f \in SingleFields -> PlacesOf(doc[f], Below(at, f))
          [] f \in ListFields ->
               UNION {PlacesOf(doc[f][i], Below(at, KeywordOf(f)) \o <<"/">> \o Digits[i]) : i \in DOMAIN doc[f]}
          [] f \in TableFields ->
               UNION {PlacesOf(doc[f][key], Below(Below(at, f), key)) : key \in DOMAIN doc[f]}
          [] OTHER -> {}
  IN  {<<at, doc>>} \cup
        (IF IsBoolean(doc) THEN {} ELSE UNION {below(f) : f \in DOMAIN doc})

BaseOf(doc, dialect) == [places |-> PlacesOf(doc, <<"#">>), dialect |-> dialect, busy |-> {}]

\* busy holds the (reference, value) pairs under way: a reference met again
\* with the same value adds nothing.
RECURSIVE Valid(_, _, _)
Valid(doc, v, base) ==
  LET here == IF Has(doc, "id") /\ base.dialect # "openapi-3.0"
              THEN BaseOf(doc, base.dialect) ELSE base
      Child(d, w) == Valid(d, w, here)
      referred == \/ <<doc.ref, v>> \in here.busy
                  \/ Valid(Named(here, doc.ref), v, [here EXCEPT !.busy = @ \cup {<<doc.ref, v>>}])
  IN  CASE IsBoolean(doc) -> doc.boolean
        [] ~IsBoolean(doc) /\ Has(doc, "ref") /\ base.dialect # "2020-12" -> referred
        [] OTHER ->
             /\ Has(doc, "ref") => referred
             /\ TypeAllows(doc, v)
             /\ v.is = "text" => TextAllowed(doc, v.text)
             /\ v.is = "number" => NumberAllowed(doc, v.number)
             /\ v.is = "list" => ListAllowed(doc, v.list, Child)
             /\ v.is = "fields" => FieldsAllowed(doc, v.fields, Child)
             /\ Combined(doc, v, Child)
             /\ Negated(doc, v, Child)
=============================================================================
