---------------------------- MODULE ScalarGuards ----------------------------
(***************************************************************************)
(* Scalar guards: the builder methods that append checks and the getters   *)
(* that describe them (src/guard, src/builders/scalar.ts), the validation  *)
(* of a check list (src/schema/validate.ts), and the values SeaFlow makes  *)
(* up for one (src/seaflow/sample.ts, scalar.ts).                          *)
(*                                                                         *)
(* A guard is [type, checks]; a method call is [method, value, pattern],   *)
(* and pattern names the expression an option selects, or is "none".       *)
(***************************************************************************)
EXTENDS ScalarChecks, FiniteSets

CONSTANTS
  Ranges,      \* int32, uint32, safe, float32, float64, int64, uint64 -> <<low, high>>
  FormatNamed, \* expression -> the format its name stands for, or "none"
  BaseLength,  \* format -> the length of the text SeaFlow starts from
  Seeds,       \* the texts SeaFlow tries on an expression
  Mapped       \* trim, slugify and so on -> text -> the string it makes of it

MinLength(n) == [is |-> "min", value |-> n]
MaxLength(n) == [is |-> "max", value |-> n]
Regex(regex) == [is |-> "regex", regex |-> regex]
Format(name) == [is |-> "format", value |-> name]
Amount(kind, n) == [is |-> kind, value |-> n]
Within(range) == <<Amount("gte", range[1]), Amount("lte", range[2])>>

-----------------------------------------------------------------------------
(* Methods of a string guard                                               *)

StringLength(checks, op) ==
  checks \o (CASE op.method = "min" -> <<MinLength(op.value)>>
               [] op.method = "max" -> <<MaxLength(op.value)>>
               [] op.method = "length" -> <<MinLength(op.value), MaxLength(op.value)>>
               [] op.method = "nonempty" -> <<MinLength(1)>>)

\* The expression is copied, so a caller's own lastIndex does not matter.
StringRegex(checks, pattern) == Append(checks, Regex(pattern))
\* startsWith, endsWith, includes, uppercase, lowercase.
StringNeedle(checks, pattern) == StringRegex(checks, pattern)

\* A built-in format, unless an option asks for an expression instead: a uuid
\* version, an email pattern, a url protocol or host.
StringIdentity(checks, op) ==
  IF op.pattern = "none" THEN Append(checks, Format(op.method)) ELSE StringRegex(checks, op.pattern)
\* httpUrl, hostname, e164, emoji, base64, hex, jwt, nanoid, cuid.
StringEncoding(checks, op) == StringRegex(checks, op.pattern)
\* xid and ksuid are built in; mac and cidr are expressions.
StringToken(checks, op) ==
  IF op.method \in {"xid", "ksuid"} THEN Append(checks, Format(op.method))
  ELSE StringRegex(checks, op.pattern)
\* isoDate is built in, isoDateTime when it has no options.
StringTime(checks, op) ==
  IF op.method = "isoDate" \/ (op.method = "isoDateTime" /\ op.pattern = "none")
  THEN Append(checks, Format(op.method)) ELSE StringRegex(checks, op.pattern)
StringAddress(checks, op) ==
  IF op.method \in {"ulid", "ipv4", "ipv6"} THEN Append(checks, Format(op.method))
  ELSE StringRegex(checks, op.pattern)

CallString(checks, op) ==
  CASE op.method \in {"min", "max", "length", "nonempty"} -> StringLength(checks, op)
    [] op.method = "regex" -> StringRegex(checks, op.pattern)
    [] op.method \in {"startsWith", "includes"} -> StringNeedle(checks, op.pattern)
    [] op.method \in {"uuid", "email", "url"} -> StringIdentity(checks, op)
    [] op.method \in {"hex", "jwt"} -> StringEncoding(checks, op)
    [] op.method \in {"xid", "ksuid", "mac"} -> StringToken(checks, op)
    [] op.method \in {"isoDate", "isoDateTime", "isoTime"} -> StringTime(checks, op)
    [] op.method \in {"ulid", "ipv4", "hash"} -> StringAddress(checks, op)

-----------------------------------------------------------------------------
(* Methods of the other guards                                             *)

NumberFormat(checks, method) ==
  checks \o (IF method \in {"int32", "uint32", "safe"} THEN <<[is |-> "integer"]>> ELSE <<>>)
         \o Within(Ranges[method])

\* gte and min, lte and max, gt, lt, multipleOf and step.
NumberBound(checks, op) ==
  Append(checks, Amount(CASE op.method = "min" -> "gte" [] op.method = "max" -> "lte"
                          [] op.method = "step" -> "multipleOf" [] OTHER -> op.method, op.value))

SignCheck(method) ==
  Amount(CASE method = "positive" -> "gt" [] method = "nonnegative" -> "gte"
           [] method = "negative" -> "lt" [] method = "nonpositive" -> "lte", 0)
NumberSign(checks, method) == Append(checks, SignCheck(method))

Signs == {"positive", "nonnegative", "negative", "nonpositive"}

CallNumber(checks, op) ==
  CASE op.method = "int" -> Append(checks, [is |-> "integer"])
    [] op.method \in DOMAIN Ranges -> NumberFormat(checks, op.method)
    [] op.method \in Signs -> NumberSign(checks, op.method)
    [] op.method = "finite" -> checks
    [] OTHER -> NumberBound(checks, op)

CallBigInt(checks, op) ==
  CASE op.method \in {"int64", "uint64"} -> checks \o Within(Ranges[op.method])
    [] op.method \in Signs -> Append(checks, SignCheck(op.method))
    [] OTHER -> NumberBound(checks, op)

CallDate(checks, op) == Append(checks, Amount(op.method, op.value))
CallFile(checks, op) ==
  Append(checks, [is |-> op.method, value |-> op.value])

Call(guard, op) ==
  [guard EXCEPT !.checks =
     CASE guard.type = "string" -> CallString(@, op)
       [] guard.type = "number" -> CallNumber(@, op)
       [] guard.type = "bigint" -> CallBigInt(@, op)
       [] guard.type = "date" -> CallDate(@, op)
       [] guard.type = "file" -> CallFile(@, op)]

-----------------------------------------------------------------------------
(* Coercing decoders.  The input is converted first; then every method     *)
(* call pipes a schema with its own checks, or a mapping.  An input stands *)
(* for what it converts to, one of another type for what does not convert. *)

Checking(type, checks) == [kind |-> "checks", schema |-> [type |-> type, checks |-> checks]]
Mapping(name) == [kind |-> "map", name |-> name]

\* Methods that take options here and look at none of them.
Deaf == {"email", "url", "isoDateTime"}
CoerceStringStage(op) ==
  Checking("string", CallString(<<>>, IF op.method \in Deaf THEN [op EXCEPT !.pattern = "none"] ELSE op))
CoerceNumberStage(op) == Checking("number", CallNumber(<<>>, op))
CoerceBigIntStage(op) == Checking("bigint", CallBigInt(<<>>, op))
CoerceDateStage(op) == Checking("date", CallDate(<<>>, op))

CoerceStage(type, op) ==
  CASE type = "string" -> CoerceStringStage(op)
    [] type = "number" -> CoerceNumberStage(op)
    [] type = "bigint" -> CoerceBigIntStage(op)
    [] type = "date" -> CoerceDateStage(op)

\* coerce.string() and its like.
Coerced(type) == <<Checking(type, <<>>)>>
\* guard.trim() and its like.
TransformStringGuard(checks, name) == <<Checking("string", checks), Mapping(name)>>

\* The first stage that rejects ends the run.
DecodeStage(st, stage) ==
  IF st.issues # <<>> THEN st
  ELSE IF stage.kind = "map" THEN [st EXCEPT !.value = Mapped[stage.name][@.text]]
  ELSE LET checked == CheckSchema(stage.schema, st.value, st.last) IN
       [st EXCEPT !.issues = checked.issues, !.last = checked.last]
ChainedDecode(stages, v, last) ==
  FoldLeft(DecodeStage, [value |-> v, issues |-> <<>>, last |-> last], stages)

-----------------------------------------------------------------------------
(* Which calls are refused, by the method and by the schema validator      *)

Bounded(op) == op.value >= 0
PositiveDivisor(op) == op.method \in {"multipleOf", "step"} => op.value > 0
NonZeroDivisor(op) == op.method \in {"multipleOf", "step"} => op.value # 0
\* checkMimePatterns: not empty and, in lower case, without repetition.
CheckMimePatterns(patterns) ==
  patterns # <<>> /\ \A i, j \in DOMAIN patterns : i < j => patterns[i] # patterns[j]

Takes(type, op) ==
  CASE type = "string" -> op.method \in {"min", "max", "length"} => Bounded(op)
    [] type = "number" -> PositiveDivisor(op)
    [] type = "bigint" -> NonZeroDivisor(op)
    [] type = "date" -> TRUE
    [] type = "file" -> IF op.method = "mime" THEN CheckMimePatterns(op.value) ELSE Bounded(op)

IsStringChecks(checks) ==
  \A i \in DOMAIN checks : checks[i].is \in {"min", "max"} => checks[i].value >= 0
IsNumberChecks(checks) ==
  \A i \in DOMAIN checks : checks[i].is = "multipleOf" => checks[i].value > 0
IsBigIntChecks(checks) ==
  \A i \in DOMAIN checks : checks[i].is = "multipleOf" => checks[i].value # 0
IsMimeArray(values) ==
  Len(values) > 0 /\ \A i \in DOMAIN values : ~\E j \in i+1..Len(values) : values[j] = values[i]
IsFileChecks(checks) ==
  \A i \in DOMAIN checks :
    IF checks[i].is = "mime" THEN IsMimeArray(checks[i].value) ELSE checks[i].value >= 0

IsCheckList(guard) ==
  CASE guard.type = "string" -> IsStringChecks(guard.checks)
    [] guard.type = "number" -> IsNumberChecks(guard.checks)
    [] guard.type = "bigint" -> IsBigIntChecks(guard.checks)
    [] guard.type = "date" -> TRUE
    [] guard.type = "file" -> IsFileChecks(guard.checks)

-----------------------------------------------------------------------------
(* Getters.  A bound is <<>> or <<n>>.                                     *)

\* The values of the checks of some kinds.
ValuesOf(checks, kinds) ==
  {checks[i].value : i \in {j \in DOMAIN checks : checks[j].is \in kinds}}
Highest(values) == IF values = {} THEN <<>> ELSE <<CHOOSE n \in values : \A m \in values : m <= n>>
Lowest(values) == IF values = {} THEN <<>> ELSE <<CHOOSE n \in values : \A m \in values : n <= m>>

MinLengthOf(checks) == Highest(ValuesOf(checks, {"min"}))
MaxLengthOf(checks) == Lowest(ValuesOf(checks, {"max"}))
\* An exclusive bound counts as it is written.
ReadNumberMinValue(checks) == Highest(ValuesOf(checks, {"gte", "gt"}))
ReadNumberMaxValue(checks) == Lowest(ValuesOf(checks, {"lte", "lt"}))
\* Exclusive bounds are not told.
BigIntMinValue(checks) == Highest(ValuesOf(checks, {"gte"}))
BigIntMaxValue(checks) == Lowest(ValuesOf(checks, {"lte"}))
MinDate(checks) == Highest(ValuesOf(checks, {"min"}))
MaxDate(checks) == Lowest(ValuesOf(checks, {"max"}))

HasIntegerCheck(checks) == \E i \in DOMAIN checks : checks[i].is = "integer"

\* The last check that stands for a format.
FormatOf(check) ==
  CASE check.is = "format" -> check.value
    [] check.is = "regex" -> FormatNamed[check.regex]
    [] OTHER -> "none"
StringFormatOf(checks) ==
  LET told == {i \in DOMAIN checks : FormatOf(checks[i]) # "none"} IN
  IF told = {} THEN "none" ELSE FormatOf(checks[CHOOSE i \in told : \A j \in told : j <= i])

NumberFormatOf(checks) ==
  LET bounds == <<ReadNumberMinValue(checks), ReadNumberMaxValue(checks)>>
      formats == IF HasIntegerCheck(checks) THEN {"int32", "uint32", "safe"} ELSE {"float32", "float64"}
      told == {f \in formats \cap DOMAIN Ranges : bounds = <<<<Ranges[f][1]>>, <<Ranges[f][2]>>>>}
  IN IF told = {} THEN "none" ELSE CHOOSE f \in told : TRUE

-----------------------------------------------------------------------------
(* SeaFlow: a sample that should be accepted                               *)

Typed(type, n) == [type |-> type, n |-> n, finite |-> TRUE]
Or0(bound) == IF bound = <<>> THEN 0 ELSE bound[1]

\* [value, exclusive]: the strictest lower or upper bound, or <<>>.
StrictLower(checks) ==
  LET n == Highest(ValuesOf(checks, {"gte", "gt"})) IN
  IF n = <<>> THEN <<>> ELSE <<[value |-> n[1], exclusive |-> n[1] \in ValuesOf(checks, {"gt"})]>>
StrictUpper(checks) ==
  LET n == Lowest(ValuesOf(checks, {"lte", "lt"})) IN
  IF n = <<>> THEN <<>> ELSE <<[value |-> n[1], exclusive |-> n[1] \in ValuesOf(checks, {"lt"})]>>
ViolatesUpper(n, upper) == n > upper.value \/ (upper.exclusive /\ n = upper.value)

\* The divisor of the last multipleOf, 0 when there is none.
LastMultiple(checks) ==
  LET at == {i \in DOMAIN checks : checks[i].is = "multipleOf"} IN
  IF at = {} THEN 0 ELSE checks[CHOOSE i \in at : \A j \in at : j <= i].value

\* To a multiple of a positive step.
RoundDown(n, step) == (n \div step) * step
RoundUp(n, step) == -RoundDown(-n, step)

\* Amounts are in halves: one is 2.
NumberFrom(lower, integer, multiple) ==
  LET first == IF lower = <<>> THEN 0
               ELSE IF lower[1].exclusive THEN lower[1].value + 2 ELSE lower[1].value
      whole == IF ~integer THEN first
               ELSE IF lower # <<>> /\ lower[1].exclusive THEN RoundDown(lower[1].value, 2) + 2
               ELSE RoundUp(first, 2)
  IN IF multiple = 0 THEN whole ELSE RoundUp(whole, multiple)

NumberTo(upper, integer, multiple) ==
  LET first == IF upper.exclusive THEN upper.value - 2 ELSE upper.value
      whole == IF integer THEN RoundDown(first, 2) ELSE first
  IN IF multiple = 0 THEN whole ELSE RoundDown(whole, multiple)

SampleNumber(checks) ==
  LET integer == HasIntegerCheck(checks)
      upper == StrictUpper(checks)
      low == NumberFrom(StrictLower(checks), integer, LastMultiple(checks))
  IN Typed("number", IF upper # <<>> /\ ViolatesUpper(low, upper[1])
                     THEN NumberTo(upper[1], integer, LastMultiple(checks)) ELSE low)

\* The remainder of BigInt has the sign of the dividend.
Magnitude(n) == IF n < 0 THEN -n ELSE n
Remainder(n, divisor) ==
  LET r == Magnitude(n) % Magnitude(divisor) IN IF n < 0 THEN -r ELSE r

SampleBigInt(checks) ==
  LET lower == StrictLower(checks)
      upper == StrictUpper(checks)
      multiple == LastMultiple(checks)
      first == IF lower = <<>> THEN 0
               ELSE IF lower[1].exclusive THEN lower[1].value + 1 ELSE lower[1].value
      low == IF multiple = 0 \/ Remainder(first, multiple) = 0 THEN first
             ELSE first + multiple - Remainder(first, multiple)
  IN Typed("bigint", IF upper # <<>> /\ ViolatesUpper(low, upper[1])
                     THEN upper[1].value - (IF upper[1].exclusive THEN 1 ELSE 0) ELSE low)

SampleDate(checks) ==
  LET lower == Or0(Highest(ValuesOf(checks, {"min"})))
      upper == Lowest(ValuesOf(checks, {"max"}))
  IN Typed("date", IF upper # <<>> /\ lower > upper[1] THEN upper[1] ELSE lower)

\* No mime: File makes one without a type.
SampleFile(checks) ==
  [type |-> "file", n |-> Or0(Highest(ValuesOf(checks, {"min"}) \cup {0})),
   mime |-> [top |-> "", sub |-> ""]]

\* Seeds are tried without going back to the start of a stateful expression.
SelectRegexSeed(regex, last) ==
  FoldLeft(LAMBDA st, seed :
             IF st.found THEN st
             ELSE LET test == RegexTest(st.last, regex, seed) IN
                  [found |-> test.ok, n |-> IF test.ok THEN seed.n ELSE st.n, last |-> test.last],
           [found |-> FALSE, n |-> 7, last |-> last], Seeds)

\* The length to start from: the first format or expression decides.
SelectStringBase(checks, last) ==
  LET named == {i \in DOMAIN checks : checks[i].is \in {"format", "regex"}}
      first == checks[CHOOSE i \in named : \A j \in named : i <= j]
  IN IF named = {} THEN [found |-> FALSE, n |-> 7, last |-> last]
     ELSE IF first.is = "format" THEN [found |-> TRUE, n |-> BaseLength[first.value], last |-> last]
     ELSE SelectRegexSeed(first.regex, last)

\* Cut to "aaa" of the maximum, or padded with "a" to the minimum.
SampleString(checks, last) ==
  LET base == SelectStringBase(checks, last)
      min == Or0(MinLengthOf(checks))
      max == MaxLengthOf(checks)
      n == IF max # <<>> /\ max[1] < base.n THEN max[1]
           ELSE IF base.n >= min THEN base.n ELSE min
  IN [value |-> [type |-> "string", n |-> n, text |-> "sample"], last |-> base.last]

SampleValidValue(guard, last) ==
  CASE guard.type = "string" -> SampleString(guard.checks, last).value
    [] guard.type = "number" -> SampleNumber(guard.checks)
    [] guard.type = "bigint" -> SampleBigInt(guard.checks)
    [] guard.type = "date" -> SampleDate(guard.checks)
    [] guard.type = "file" -> SampleFile(guard.checks)

-----------------------------------------------------------------------------
(* SeaFlow: the cases of a scalar at the extreme intensity, as sets of      *)
(* [value, valid], labelled by the solver                                  *)

Valid(v) == [value |-> v, valid |-> TRUE]
Invalid(v) == [value |-> v, valid |-> FALSE]
\* Something of another type.
Stranger == [type |-> "symbol", n |-> 0, finite |-> TRUE, text |-> "", mime |-> [top |-> "", sub |-> ""]]
Strange == {Invalid(Stranger)}

Probe(text, n) == [type |-> "string", n |-> n, text |-> text]
\* n letters "a".
Text(n) == Probe(IF n = 0 THEN "empty" ELSE "run", n)

\* The security texts are labelled by testing the checks, without going
\* back to the start of a stateful expression.
MatchesStringCheck(st, check, v) ==
  IF ~st.ok THEN st
  ELSE IF check.is # "regex" THEN [st EXCEPT !.ok = StringHolds(check, v)]
  ELSE RegexTest(st.last, check.regex, v)
MatchesStringChecks(v, checks, last) ==
  FoldLeft(LAMBDA st, check : MatchesStringCheck(st, check, v), [ok |-> TRUE, last |-> last], checks)
SecurityText == Probe("security", 11)

EmitStringCases(checks, last) ==
  LET min == MinLengthOf(checks)
      max == MaxLengthOf(checks)
  IN {Valid(SampleString(checks, last).value),
      [value |-> SecurityText, valid |-> MatchesStringChecks(SecurityText, checks, last).ok]} \cup Strange
     \cup (IF min # <<>> /\ min[1] > 0 THEN {Invalid(Text(min[1] - 1))} ELSE {})
     \cup (IF max # <<>> THEN {Invalid(Text(max[1] + 1))} ELSE {})

\* Each format and each expression gets a text that is taken not to match.
EmitStringFormatCases(checks) ==
  {Invalid(Probe("misspelled", 8)) : i \in {j \in DOMAIN checks : checks[j].is \in {"format", "regex"}}}

Boundary(check, one) ==
  CASE check.is = "gte" -> check.value - one
    [] check.is = "lte" -> check.value + one
    [] check.is \in {"gt", "lt"} -> check.value
    [] check.is = "multipleOf" -> check.value + one
    [] check.is = "integer" -> one + one \div 2

EmitNumberBoundaryCases(checks) ==
  {Invalid(Typed("number", Boundary(checks[i], 2))) : i \in DOMAIN checks}
\* -0 is called valid whatever the checks; they cannot tell it from 0.
EmitNumberCases(checks) ==
  {Valid(SampleNumber(checks)), Valid(Typed("number", 0)),
   Invalid([Typed("number", 0) EXCEPT !.finite = FALSE])}
    \cup Strange \cup EmitNumberBoundaryCases(checks)
EmitBigIntCases(checks) ==
  {Valid(SampleBigInt(checks))} \cup Strange
    \cup {Invalid(Typed("bigint", Boundary(checks[i], 1))) : i \in DOMAIN checks}
EmitDateCases(checks) ==
  {Valid(SampleDate(checks)), Invalid([Typed("date", 0) EXCEPT !.finite = FALSE])} \cup Strange
    \cup {Invalid(Typed("date", checks[i].value + (IF checks[i].is = "min" THEN -1 ELSE 1))) :
            i \in DOMAIN checks}

EmitScalarCases(guard, last) ==
  CASE guard.type = "string" -> EmitStringCases(guard.checks, last)
                                  \cup EmitStringFormatCases(guard.checks)
    [] guard.type = "number" -> EmitNumberCases(guard.checks)
    [] guard.type = "bigint" -> EmitBigIntCases(guard.checks)
    [] guard.type = "date" -> EmitDateCases(guard.checks)
    [] guard.type = "file" -> {Valid(SampleFile(guard.checks))} \cup Strange

\* Reconciled only where the solver may have been too hopeful.
ReconcileValidOnly(guard, case, last) ==
  IF case.valid THEN [case EXCEPT !.valid = IsScalar(guard, case.value, last).ok] ELSE case
\* The label that is published is the predicate's answer.
ReconcileSeaFlowCase(guard, case, last) == [case EXCEPT !.valid = IsScalar(guard, case.value, last).ok]
EmitSchemaCases(guard, last) ==
  {ReconcileSeaFlowCase(guard, case, last) : case \in EmitScalarCases(guard, last)}
=============================================================================
