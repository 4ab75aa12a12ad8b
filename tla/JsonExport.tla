----------------------------- MODULE JsonExport -----------------------------
(***************************************************************************)
(* The JSON Schema document written for a schema, or a refusal.            *)
(*                                                                         *)
(* A document is a record of keywords; the boolean documents are           *)
(* [boolean |-> b].  Keywords whose value has two forms have two fields:   *)
(* "items" and "itemList", "exclusiveMinimum" and the draft-04 flag        *)
(* "openMinimum".  A pointer is a sequence of characters; a key is spelled *)
(* by Spelling.  Nodes are told apart by their structure, so equal nodes   *)
(* are one shared node.  Paths of issues are left out.                     *)
(***************************************************************************)
EXTENDS Contracts, SequencesExt

CONSTANT Spelling   \* the characters of each key and pattern source

Refused == [refused |-> TRUE]
Doc(b) == [boolean |-> b]
Open == <<>>
Typed(type) == [type |-> type]
IsRefused(doc) == Has(doc, "refused")
IsBoolean(doc) == Has(doc, "boolean")
Is(doc, b) == IsBoolean(doc) /\ doc.boolean = b

\* The tightest of the bounds on one side.
Tightest(S, side) == CHOOSE x \in S : \A y \in S : IF side = "lower" THEN x >= y ELSE x <= y

\* A field added when there is something to put in it.
WithAll(doc, field, values, side) ==
  IF values = {} THEN doc ELSE (field :> Tightest(values, side)) @@ doc

-----------------------------------------------------------------------------
(* Pointers                                                                *)

Digits == <<<<"0">>, <<"1">>, <<"2">>, <<"3">>, <<"4">>, <<"5">>, <<"6">>, <<"7">>, <<"8">>, <<"9">>>>

\* Mutant: keys are joined as they are.
RawToken(chars) == chars

EscapePointerToken(chars) ==
  FlattenSeq([i \in DOMAIN chars |->
    CASE chars[i] = "~" -> <<"~", "0">>
      [] chars[i] = "/" -> <<"~", "1">>
      [] OTHER -> <<chars[i]>>])

Member(at, key) == at \o <<"/">> \o EscapePointerToken(Spelling[key])
Index(at, i) == at \o <<"/">> \o Digits[i]

Unrepresentable(ctx) == IF ctx.open THEN Open ELSE Refused

-----------------------------------------------------------------------------
(* Scalars                                                                 *)

ChecksOf(checks, kind) == {checks[i].value : i \in {j \in DOMAIN checks : checks[j].is = kind}}

\* The patterns of the checks in order, and the last named format.
EmitString(s, ctx) ==
  LET named == SelectSeq(s.checks, LAMBDA c : c.is \in {"regex", "format"})
      formats == SelectSeq(s.checks, LAMBDA c : c.is = "format")
      sized == WithAll(WithAll(Typed("string"),
                 "minLength", ChecksOf(s.checks, "min"), "lower"),
                 "maxLength", ChecksOf(s.checks, "max"), "upper")
      formatted == IF formats = <<>> THEN sized
                   ELSE ("format" :> Last(formats).source) @@ sized
  IN  CASE \E i \in DOMAIN named : Has(named[i], "flags") -> Unrepresentable(ctx)
        [] Len(named) = 0 -> formatted
        [] Len(named) = 1 -> ("pattern" :> named[1].source) @@ formatted
        [] OTHER -> ("allOf" :> [i \in DOMAIN named |-> [pattern |-> named[i].source]])
                      @@ formatted

\* The tighter of the bounds; the exclusive one of two equal bounds.
SelectBound(closed, open, side) ==
  [value |-> Tightest(closed \cup open, side), exclusive |-> Tightest(closed \cup open, side) \in open]

\* The keywords of one side, by the dialect.
BoundFields(bound, closedField, openField, flagField, ctx) ==
  CASE ctx.target = "draft-04" ->
         (closedField :> bound.value)
           @@ (IF bound.exclusive THEN flagField :> TRUE ELSE <<>>)
    [] bound.exclusive -> openField :> bound.value
    [] OTHER -> closedField :> bound.value

EmitNumber(s, ctx) ==
  LET is(kind) == ChecksOf(s.checks, kind)
      multiples == SelectSeq(s.checks, LAMBDA c : c.is = "multipleOf")
      lower == is("gte") \cup is("gt")
      upper == is("lte") \cup is("lt")
  IN  Typed(IF is("integer") # {} THEN "integer" ELSE "number")
        @@ (IF multiples = <<>> THEN <<>> ELSE "multipleOf" :> multiples[1].value)
        @@ (IF lower = {} THEN <<>>
            ELSE BoundFields(SelectBound(is("gte"), is("gt"), "lower"),
                             "minimum", "exclusiveMinimum", "openMinimum", ctx))
        @@ (IF upper = {} THEN <<>>
            ELSE BoundFields(SelectBound(is("lte"), is("lt"), "upper"),
                             "maximum", "exclusiveMaximum", "openMaximum", ctx))

EmitLiteral(value, ctx) ==
  CASE value = Undefined -> Unrepresentable(ctx)
    [] ctx.target \in {"openapi-3.0", "draft-04"} -> [enum |-> <<value>>]
    [] OTHER -> [const |-> value]

-----------------------------------------------------------------------------
(* Composites.  Emit is the emitter of a child; seen gives the place of    *)
(* each node on the path to it, resolving the lazy nodes being followed.   *)

RECURSIVE Emit(_, _, _, _, _)

\* The children of a list, placed under a keyword; refused if one is.
EmitList(schemas, at, seen, resolving, ctx) ==
  [i \in DOMAIN schemas |-> Emit(schemas[i], Index(at, i), seen, resolving, ctx)]

AnyRefused(docs) == \E i \in DOMAIN docs : IsRefused(docs[i])

EmitOptions(keyword, schemas, at, seen, resolving, ctx) ==
  LET docs == EmitList(schemas, Member(at, keyword), seen, resolving, ctx) IN
  IF AnyRefused(docs) THEN Refused ELSE keyword :> docs

EmitArray(s, at, seen, resolving, ctx) ==
  LET item == Emit(s.item, Member(at, "items"), seen, resolving, ctx) IN
  IF IsRefused(item) THEN Refused
  ELSE WithAll(WithAll([type |-> "array", items |-> item],
         "minItems", ChecksOf(s.checks, "min"), "lower"),
         "maxItems", ChecksOf(s.checks, "max"), "upper")

EmitTuple(s, at, seen, resolving, ctx) ==
  LET modern == ctx.target = "2020-12"
      items == EmitList(s.items, Member(at, IF modern THEN "prefixItems" ELSE "items"),
                        seen, resolving, ctx)
      rest == IF Has(s, "rest")
              THEN Emit(s.rest, Member(at, IF modern THEN "items" ELSE "additionalItems"),
                        seen, resolving, ctx)
              ELSE Doc(FALSE)
      sized == [type |-> "array", minItems |-> Len(s.items)]
                 @@ (IF Has(s, "rest") THEN <<>> ELSE "maxItems" :> Len(s.items))
  IN  CASE ctx.target = "openapi-3.0" \/ AnyRefused(items \o <<rest>>) -> Refused
        [] ~modern -> [itemList |-> items, additionalItems |-> rest] @@ sized
        [] Has(s, "rest") -> [prefixItems |-> items, items |-> rest] @@ sized
        [] OTHER -> [prefixItems |-> items] @@ sized

EmitRecord(s, at, seen, resolving, ctx) ==
  LET value == Emit(s.value, Member(at, "additionalProperties"), seen, resolving, ctx)
      key == IF Has(s, "key")
             THEN Emit(s.key, Member(at, "propertyNames"), seen, resolving, ctx)
             ELSE Doc(TRUE)
  IN  CASE s.loose /\ Has(s, "key") -> Unrepresentable(ctx)
        [] AnyRefused(<<value, key>>) -> Refused
        [] Has(s, "key") /\ ctx.target \in {"draft-04", "openapi-3.0"} -> Refused
        [] OTHER -> [type |-> "object", additionalProperties |-> value]
                      @@ (IF s.required = {} THEN <<>> ELSE "required" :> s.required)
                      @@ (IF Has(s, "key") THEN "propertyNames" :> key ELSE <<>>)

EmitObject(s, at, seen, resolving, ctx) ==
  LET child(i) == Emit(s.entries[i].schema, Member(Member(at, "properties"), s.entries[i].key),
                       seen, resolving, ctx)
      docs == [i \in DOMAIN s.entries |-> child(i)]
      extra == IF Has(s, "catchall")
               THEN Emit(s.catchall, Member(at, "additionalProperties"), seen, resolving, ctx)
               ELSE Doc(s.mode # "strict")
      required == {s.entries[i].key :
                     i \in {j \in DOMAIN s.entries : ResolvedPresence(s.entries[j]) = "required"}}
  IN  IF AnyRefused(docs \o <<extra>>) THEN Refused
      ELSE [type |-> "object", additionalProperties |-> extra,
            properties |-> [key \in EntryKeys(s.entries) |->
                              docs[CHOOSE i \in DOMAIN docs : s.entries[i].key = key]]]
             @@ (IF required = {} THEN <<>> ELSE "required" :> required)

EmitNullable(s, at, seen, resolving, ctx) ==
  LET openApi == ctx.target = "openapi-3.0"
      doc == Emit(s.inner, IF openApi THEN at ELSE Index(Member(at, "anyOf"), 1),
                  seen, resolving, ctx)
  IN  CASE IsRefused(doc) -> Refused
        [] ~openApi -> [anyOf |-> <<doc, Typed("null")>>]
        [] Is(doc, TRUE) -> Open
        [] Is(doc, FALSE) -> [nullable |-> TRUE, enum |-> <<Null>>]
        [] OTHER -> ("nullable" :> TRUE) @@ doc

-----------------------------------------------------------------------------
(* Wrappers                                                                *)

\* Keywords next to the inner document, or in a conjunction with a boolean.
Beside(doc, extra) ==
  IF IsBoolean(doc) THEN [allOf |-> <<doc, extra>>] ELSE extra @@ doc

ApplyMetadata(doc, s, ctx) ==
  CASE IsRefused(doc) \/ Is(doc, FALSE) -> doc
    [] ~Has(s, "id") \/ ctx.target = "openapi-3.0" -> IF Is(doc, TRUE) THEN Open ELSE doc
    [] OTHER -> ("id" :> s.id) @@ (IF Is(doc, TRUE) THEN Open ELSE doc)

EmitKeyedObject(s, at, seen, resolving, ctx) ==
  LET doc == Emit(s.inner, Index(Member(at, "allOf"), 1), seen, resolving, ctx)
      alternatives == [i \in DOMAIN s.keys |-> [required |-> {s.keys[i]}]]
      rule == (IF s.rule = "atLeastOne" THEN "anyOf" ELSE "oneOf") :> alternatives
  IN  IF IsRefused(doc) THEN Refused ELSE [allOf |-> <<doc, rule>>]

EmitPropertyCount(s, at, seen, resolving, ctx) ==
  LET doc == Emit(s.inner, at, seen, resolving, ctx)
      count == (IF Has(s, "min") THEN "minProperties" :> s.min ELSE <<>>)
                 @@ (IF Has(s, "max") THEN "maxProperties" :> s.max ELSE <<>>)
  IN  IF IsRefused(doc) THEN Refused ELSE Beside(doc, count)

EmitPropertyNames(s, at, seen, resolving, ctx) ==
  LET doc == Emit(s.inner, at, seen, resolving, ctx)
      key == Emit(s.key, Member(at, "propertyNames"), seen, resolving, ctx)
  IN  IF ctx.target \in {"draft-04", "openapi-3.0"} \/ AnyRefused(<<doc, key>>)
      THEN Refused ELSE Beside(doc, [propertyNames |-> key])

\* A pattern child is placed at the table itself, not at its own key.
EmitPatternProperties(s, at, seen, resolving, ctx) ==
  LET doc == Emit(s.inner, at, seen, resolving, ctx)
      docs == [i \in DOMAIN s.entries |->
                 Emit(s.entries[i].schema, Member(at, "patternProperties"), seen, resolving, ctx)]
      extra == IF Has(s, "additional")
               THEN Emit(s.additional, Member(at, "additionalProperties"), seen, resolving, ctx)
               ELSE Doc(s.allow)
      sources == {s.entries[i].source : i \in DOMAIN s.entries}
      table == [p \in sources |-> docs[CHOOSE i \in DOMAIN docs : s.entries[i].source = p]]
      fragment == [patternProperties |-> table]
                    @@ (IF Is(extra, TRUE) /\ ~Has(s, "additional") THEN <<>>
                        ELSE "additionalProperties" :> extra)
  IN  IF ctx.target = "openapi-3.0" \/ AnyRefused(docs \o <<doc, extra>>)
      THEN Refused ELSE Beside(doc, fragment)

\* A chain of lazy nodes must end in another node.
RECURSIVE ResolveLazy(_, _, _)
ResolveLazy(s, resolving, ctx) ==
  CASE s.tag # "Lazy" -> s
    [] s \in resolving -> Refused
    [] OTHER -> ResolveLazy(ctx.lazies[s.name], resolving \cup {s}, ctx)

EmitLazy(s, at, seen, resolving, ctx) ==
  LET concrete == ResolveLazy(s, resolving, ctx) IN
  CASE ctx.cycles = "throw" -> Unrepresentable(ctx)
    [] IsRefused(concrete) -> Refused
    [] OTHER -> Emit(concrete, at, seen, resolving, ctx)

-----------------------------------------------------------------------------
(* The emitter                                                             *)

EmitInner(s, at, seen, resolving, ctx) ==
  LET tag == s.tag IN
  CASE tag = "Unknown" -> Doc(TRUE)
    [] tag = "Never" -> Doc(FALSE)
    [] tag = "String" -> EmitString(s, ctx)
    [] tag = "Number" -> EmitNumber(s, ctx)
    [] tag = "Boolean" -> Typed("boolean")
    [] tag = "Literal" -> EmitLiteral(s.value, ctx)
    [] tag = "Array" -> EmitArray(s, at, seen, resolving, ctx)
    [] tag = "Tuple" -> EmitTuple(s, at, seen, resolving, ctx)
    [] tag = "Record" -> EmitRecord(s, at, seen, resolving, ctx)
    [] tag = "Object" -> EmitObject(s, at, seen, resolving, ctx)
    [] tag = "Union" -> EmitOptions("anyOf", s.options, at, seen, resolving, ctx)
    [] tag = "Xor" -> EmitOptions("oneOf", s.options, at, seen, resolving, ctx)
    [] tag = "Intersection" -> EmitOptions("allOf", <<s.left, s.right>>, at, seen, resolving, ctx)
    [] tag = "Discriminated" ->
         EmitOptions("anyOf", [i \in DOMAIN s.cases |-> s.cases[i].schema], at, seen, resolving, ctx)
    [] tag = "Nullable" -> EmitNullable(s, at, seen, resolving, ctx)
    [] tag \in {"Brand", "Message"} -> Emit(s.inner, at, seen, resolving, ctx)
    [] tag = "Metadata" -> ApplyMetadata(Emit(s.inner, at, seen, resolving, ctx), s, ctx)
    [] tag = "Keyed" -> EmitKeyedObject(s, at, seen, resolving, ctx)
    [] tag = "Count" -> EmitPropertyCount(s, at, seen, resolving, ctx)
    [] tag = "Names" -> EmitPropertyNames(s, at, seen, resolving, ctx)
    [] tag = "Patterns" -> EmitPatternProperties(s, at, seen, resolving, ctx)
    [] tag = "Lazy" -> EmitLazy(s, at, seen, resolving, ctx)
    [] tag \in {"Optional", "Undefinedable", "Readonly", "Refine"} -> Unrepresentable(ctx)

\* A node met below itself is a reference to its place, a shared node one to
\* its definition.
Emit(s, at, seen, resolving, ctx) ==
  CASE s \in DOMAIN seen ->
         IF ctx.cycles = "ref" THEN [ref |-> seen[s]] ELSE Unrepresentable(ctx)
    [] s \notin DOMAIN seen /\ s \in DOMAIN ctx.refs /\ s # ctx.active -> [ref |-> ctx.refs[s]]
    [] OTHER -> EmitInner(s, at, (s :> at) @@ seen, resolving, ctx)

-----------------------------------------------------------------------------
(* Shared nodes and the document                                           *)

\* The nodes written directly under a node, in the order they are counted.
Children(s) ==
  LET tag == s.tag IN
  CASE tag = "Array" -> <<s.item>>
    [] tag = "Object" ->
         [i \in DOMAIN s.entries |-> s.entries[i].schema]
           \o (IF Has(s, "catchall") THEN <<s.catchall>> ELSE <<>>)
    [] tag \in {"Union", "Xor"} -> s.options
    [] tag = "Intersection" -> <<s.left, s.right>>
    [] tag = "Discriminated" -> [i \in DOMAIN s.cases |-> s.cases[i].schema]
    [] tag = "Tuple" -> s.items \o (IF Has(s, "rest") THEN <<s.rest>> ELSE <<>>)
    [] tag = "Record" -> (IF Has(s, "key") THEN <<s.key>> ELSE <<>>) \o <<s.value>>
    [] tag \in {"Optional", "Undefinedable", "Nullable", "Brand", "Metadata", "Message",
                "Readonly", "Refine", "Keyed", "Count"} -> <<s.inner>>
    [] tag = "Names" -> <<s.inner, s.key>>
    [] tag = "Patterns" ->
         <<s.inner>> \o [i \in DOMAIN s.entries |-> s.entries[i].schema]
           \o (IF Has(s, "additional") THEN <<s.additional>> ELSE <<>>)
    [] OTHER -> <<>>

\* How often each node is used, in order of first use; a node used again is
\* counted and not entered again.
RECURSIVE CountSchemaUse(_, _)
CountSchemaUse(s, uses) ==
  LET at == {i \in DOMAIN uses : uses[i].node = s} IN
  IF at # {}
  THEN [uses EXCEPT ![CHOOSE i \in at : TRUE].count = @ + 1]
  ELSE FoldLeft(LAMBDA acc, child : CountSchemaUse(child, acc),
                Append(uses, [node |-> s, count |-> 1]), Children(s))

DefinitionNames == <<"Schema1", "Schema2", "Schema3", "Schema4">>

DefinitionKeyword(ctx) == IF ctx.target = "2020-12" THEN "$defs" ELSE "definitions"

\* The nodes given a definition: those used twice, but the root.
ReferencePlan(s, ctx) ==
  IF ctx.reused = "inline" THEN <<>>
  ELSE SelectSeq(CountSchemaUse(s, <<>>), LAMBDA use : use.node # s /\ use.count >= 2)

DefinitionAt(name, ctx) == Member(Member(<<"#">>, DefinitionKeyword(ctx)), name)

EmitFragment(s, options) ==
  LET plan == ReferencePlan(s, options)
      nodes == [i \in DOMAIN plan |-> plan[i].node]
      place(i) == DefinitionAt(DefinitionNames[i], options)
      refs == [n \in ToSet(nodes) |-> place(CHOOSE i \in DOMAIN nodes : nodes[i] = n)]
      ctx(active) == [refs |-> refs, active |-> active] @@ options
      doc == Emit(s, <<"#">>, <<>>, {}, ctx(s))
      definition(i) == Emit(nodes[i], place(i), <<>>, {}, ctx(nodes[i]))
      docs == [i \in DOMAIN nodes |-> definition(i)]
      table == [name \in {DefinitionNames[i] : i \in DOMAIN nodes} |->
                  docs[CHOOSE i \in DOMAIN nodes : DefinitionNames[i] = name]]
  IN  CASE plan # <<>> /\ options.target = "openapi-3.0" -> Refused
        [] AnyRefused(docs \o <<doc>>) -> Refused
        [] plan = <<>> \/ Is(doc, FALSE) -> doc
        [] OTHER -> (DefinitionKeyword(options) :> table)
                      @@ (IF Is(doc, TRUE) THEN Open ELSE doc)

\* A boolean document is written as an object; OpenAPI has no false.
EmitDocument(doc, ctx) ==
  CASE IsRefused(doc) -> Refused
    [] ctx.target = "openapi-3.0" ->
         CASE Is(doc, FALSE) -> Refused [] Is(doc, TRUE) -> Open [] OTHER -> doc
    [] ~IsBoolean(doc) -> doc
    [] ctx.target # "draft-04" -> [anyOf |-> <<doc>>]
    [] Is(doc, TRUE) -> Open
    [] OTHER -> [not |-> Open]

ExportJsonSchema(s, options) == EmitDocument(EmitFragment(s, options), options)
=============================================================================
