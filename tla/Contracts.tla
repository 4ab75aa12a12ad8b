----------------------------- MODULE Contracts -----------------------------
(***************************************************************************)
(* Schemas as trees of tagged nodes, the values a JSON text can hold, and  *)
(* the verdict of the synchronous kernel on them.  The modules that build  *)
(* schemas (ObjectGuards, JsonImport) or translate them (JsonExport) use   *)
(* it to say what a schema means.                                          *)
(*                                                                         *)
(* A lazy node names an entry of the table "lazies".  Numbers count halves, *)
(* so 2 is the integer one.  A string is a name with a length and the      *)
(* patterns it matches.  Symbols, functions and other runtime objects are  *)
(* left out: a JSON text has none.                                         *)
(***************************************************************************)
EXTENDS Integers, Sequences, FiniteSets

CONSTANTS
  Sizes,     \* the length of each string
  Matching,  \* the strings each pattern or named format matches
  Holding    \* the values each predicate of a refinement holds for

Null == [is |-> "null"]
Undefined == [is |-> "undefined"]
Truth(b) == [is |-> "boolean", boolean |-> b]
Text(s) == [is |-> "text", text |-> s]
Halves(n) == [is |-> "number", number |-> n]
List(items) == [is |-> "list", list |-> items]
Fields(f) == [is |-> "fields", fields |-> f]

Node(tag) == [tag |-> tag]
Wrapped(tag, inner) == [tag |-> tag, inner |-> inner]
Unknown == Node("Unknown")
Never == Node("Never")
Literal(v) == [tag |-> "Literal", value |-> v]
Options(tag, options) == [tag |-> tag, options |-> options]
Lazy(name) == [tag |-> "Lazy", name |-> name]
Entry(key, schema, presence) == [key |-> key, schema |-> schema, presence |-> presence]

\* A field of a node or of a document that may be absent.
Has(node, field) == field \in DOMAIN node

StringCheckHolds(check, s) ==
  CASE check.is = "min" -> Sizes[s] >= check.value
    [] check.is = "max" -> Sizes[s] <= check.value
    [] OTHER -> s \in Matching[check.source]

NumberCheckHolds(check, n) ==
  CASE check.is = "integer" -> n % 2 = 0
    [] check.is = "gte" -> n >= check.value
    [] check.is = "gt" -> n > check.value
    [] check.is = "lte" -> n <= check.value
    [] check.is = "lt" -> n < check.value
    [] check.is = "multipleOf" -> n % check.value = 0

\* The presence of an entry, read from the getter when it is deferred.
ResolvedPresence(entry) ==
  IF entry.presence # "deferred" THEN entry.presence
  ELSE IF entry.schema.tag = "Lazy" /\ Has(entry.schema, "presence")
       THEN entry.schema.presence
       ELSE "required"

EntryKeys(entries) == {entries[i].key : i \in DOMAIN entries}

-----------------------------------------------------------------------------
(* The verdicts of the composite nodes.                                    *)

RECURSIVE Accepts(_, _, _, _)

ArrayAccepts(s, v, lazies, busy) ==
  /\ v.is = "list"
  /\ \A check \in {s.checks[i] : i \in DOMAIN s.checks} :
       IF check.is = "min" THEN Len(v.list) >= check.value
                           ELSE Len(v.list) <= check.value
  /\ \A i \in DOMAIN v.list : Accepts(s.item, v.list[i], lazies, busy)

TupleAccepts(s, v, lazies, busy) ==
  /\ v.is = "list"
  /\ IF Has(s, "rest") THEN Len(v.list) >= Len(s.items) ELSE Len(v.list) = Len(s.items)
  /\ \A i \in DOMAIN v.list :
       Accepts(IF i <= Len(s.items) THEN s.items[i] ELSE s.rest, v.list[i], lazies, busy)

RecordAccepts(s, v, lazies, busy) ==
  /\ v.is = "fields"
  /\ s.required \subseteq DOMAIN v.fields
  /\ \A key \in DOMAIN v.fields :
       \/ /\ Has(s, "key") => Accepts(s.key, Text(key), lazies, busy)
          /\ Accepts(s.value, v.fields[key], lazies, busy)
       \/ s.loose /\ Has(s, "key") /\ ~Accepts(s.key, Text(key), lazies, busy)

ObjectAccepts(s, v, lazies, busy) ==
  /\ v.is = "fields"
  /\ \A i \in DOMAIN s.entries :
       IF s.entries[i].key \in DOMAIN v.fields
       THEN Accepts(s.entries[i].schema, v.fields[s.entries[i].key], lazies, busy)
       ELSE ResolvedPresence(s.entries[i]) = "optional"
  /\ \A key \in DOMAIN v.fields \ EntryKeys(s.entries) :
       IF Has(s, "catchall") THEN Accepts(s.catchall, v.fields[key], lazies, busy)
                             ELSE s.mode # "strict"

DiscriminatedAccepts(s, v, lazies, busy) ==
  /\ v.is = "fields"
  /\ s.key \in DOMAIN v.fields
  /\ \E i \in DOMAIN s.cases :
       /\ s.cases[i].literal = v.fields[s.key]
       /\ \A j \in 1..(i - 1) : s.cases[j].literal # v.fields[s.key]
       /\ Accepts(s.cases[i].schema, v, lazies, busy)

KeyedAccepts(s, v) ==
  /\ v.is = "fields"
  /\ LET present == {i \in DOMAIN s.keys : s.keys[i] \in DOMAIN v.fields} IN
     IF s.rule = "atLeastOne" THEN present # {} ELSE Cardinality(present) = 1

CountAccepts(s, v) ==
  /\ v.is = "fields"
  /\ Has(s, "min") => Cardinality(DOMAIN v.fields) >= s.min
  /\ Has(s, "max") => Cardinality(DOMAIN v.fields) <= s.max

PatternsAccept(s, v, lazies, busy) ==
  /\ v.is = "fields"
  /\ \A key \in DOMAIN v.fields :
       LET matched == {i \in DOMAIN s.entries : key \in Matching[s.entries[i].source]} IN
       /\ \A i \in matched : Accepts(s.entries[i].schema, v.fields[key], lazies, busy)
       /\ (matched = {} /\ key \notin s.known) =>
            IF Has(s, "additional") THEN Accepts(s.additional, v.fields[key], lazies, busy)
                                    ELSE s.allow

\* The verdict.  busy holds the (lazy, value) pairs under way: one met again
\* is taken to hold.
Accepts(s, v, lazies, busy) ==
  LET Child(t, w) == Accepts(t, w, lazies, busy)
      Accepting == {i \in DOMAIN s.options : Child(s.options[i], v)}
      tag == s.tag
  IN
  CASE tag = "Unknown" -> TRUE
    [] tag = "Never" -> FALSE
    [] tag = "String" ->
         v.is = "text" /\ \A i \in DOMAIN s.checks : StringCheckHolds(s.checks[i], v.text)
    [] tag = "Number" ->
         v.is = "number" /\ \A i \in DOMAIN s.checks : NumberCheckHolds(s.checks[i], v.number)
    [] tag = "Boolean" -> v.is = "boolean"
    [] tag = "Literal" -> v = s.value
    [] tag = "Array" -> ArrayAccepts(s, v, lazies, busy)
    [] tag = "Tuple" -> TupleAccepts(s, v, lazies, busy)
    [] tag = "Record" -> RecordAccepts(s, v, lazies, busy)
    [] tag = "Object" -> ObjectAccepts(s, v, lazies, busy)
    [] tag = "Union" -> Accepting # {}
    [] tag = "Xor" -> Cardinality(Accepting) = 1
    [] tag = "Intersection" -> Child(s.left, v) /\ Child(s.right, v)
    [] tag = "Discriminated" -> DiscriminatedAccepts(s, v, lazies, busy)
    [] tag = "Nullable" -> v = Null \/ Child(s.inner, v)
    [] tag \in {"Optional", "Undefinedable"} -> v = Undefined \/ Child(s.inner, v)
    [] tag \in {"Brand", "Metadata", "Message", "Readonly"} -> Child(s.inner, v)
    [] tag = "Keyed" -> Child(s.inner, v) /\ KeyedAccepts(s, v)
    [] tag = "Count" -> Child(s.inner, v) /\ CountAccepts(s, v)
    [] tag = "Names" ->
         Child(s.inner, v) /\ v.is = "fields" /\ \A key \in DOMAIN v.fields : Child(s.key, Text(key))
    [] tag = "Patterns" -> Child(s.inner, v) /\ PatternsAccept(s, v, lazies, busy)
    [] tag = "Refine" -> Child(s.inner, v) /\ v \in Holding[s.holds]
    [] tag = "Lazy" ->
         \/ <<s.name, v>> \in busy
         \/ Accepts(lazies[s.name], v, lazies, busy \cup {<<s.name, v>>})
=============================================================================
