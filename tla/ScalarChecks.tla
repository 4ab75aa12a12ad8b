---------------------------- MODULE ScalarChecks ----------------------------
(***************************************************************************)
(* The checks of the scalar schemas and the engines that answer them: the  *)
(* kernel (src/plan/schema-predicate.ts), the cooperative walk             *)
(* (src/async-validation), the collector (src/evaluate/check-scalar.ts),   *)
(* the compiled predicate, and the compiled check and first-issue code     *)
(* (src/compile/check-scalar.ts, first.ts).                                *)
(*                                                                         *)
(* Every engine tests the same RegExp objects.  A global or sticky one     *)
(* keeps a lastIndex between tests, so an answer may depend on the calls   *)
(* before it: the engines take the lastIndexes and return them.            *)
(*                                                                         *)
(* A schema is [type, checks], a literal [type, value].  A value has a     *)
(* type, a number n (a length, an amount in halves, a time, a size), and a *)
(* text or mime; finite is FALSE for NaN, infinities and invalid dates.    *)
(* Issues are [path, code].                                                *)
(***************************************************************************)
EXTENDS Integers, SequencesExt, TLC

CONSTANTS
  Stateful,    \* the global and sticky expressions
  MatchEnd,    \* expression, text, start -> where its match ends, or NoMatch
  Spelled      \* built-in format -> the texts it matches

NoMatch == -1

\* RegExp.prototype.test: [ok, last].
RegexTest(last, regex, v) ==
  LET start == IF regex \in Stateful THEN last[regex] ELSE 0
      end == IF start > v.n THEN NoMatch ELSE MatchEnd[regex][v.text][start]
      next == IF end = NoMatch THEN 0 ELSE end
  IN  [ok |-> end # NoMatch,
       last |-> IF regex \in Stateful THEN [last EXCEPT ![regex] = next] ELSE last]

FromStart(last, regex) == [last EXCEPT ![regex] = 0]

-----------------------------------------------------------------------------
(* What one check asks, apart from the expressions                         *)

StringHolds(check, v) ==
  CASE check.is = "min" -> v.n >= check.value
    [] check.is = "max" -> v.n <= check.value
    [] check.is = "format" -> v.text \in Spelled[check.value]

AmountHolds(check, n) ==
  CASE check.is = "gte" -> n >= check.value
    [] check.is = "lte" -> n <= check.value
    [] check.is = "gt" -> n > check.value
    [] check.is = "lt" -> n < check.value

\* isNumberMultipleOf: a tolerance absorbs the rounding of the quotient, so
\* the amounts are multiples in the rationals.
IsMultiple(n, divisor) == n % divisor = 0

NumberHolds(check, n) ==
  CASE check.is = "integer" -> IsMultiple(n, 2)
    [] check.is = "multipleOf" -> IsMultiple(n, check.value)
    [] OTHER -> AmountHolds(check, n)

BigIntHolds(check, n) ==
  IF check.is # "multipleOf" THEN AmountHolds(check, n)
  ELSE n % (IF check.value < 0 THEN -check.value ELSE check.value) = 0

DateHolds(check, time) ==
  IF check.is = "min" THEN time >= check.value ELSE time <= check.value

\* isFileMime: a pattern is [top, sub]; the sub type "*" takes any.
MimeMatches(mime, patterns) ==
  \E i \in DOMAIN patterns :
    \/ patterns[i] = mime
    \/ patterns[i].sub = "*" /\ patterns[i].top = mime.top

FileHolds(check, v) ==
  CASE check.is = "min" -> v.n >= check.value
    [] check.is = "max" -> v.n <= check.value
    [] check.is = "mime" -> MimeMatches(v.mime, check.value)

-----------------------------------------------------------------------------
(* The kernel: stops at the first check that fails                         *)

\* The lastIndex is put back to the start before the test, and after a match.
KernelStep(st, check, v) ==
  IF ~st.ok THEN st
  ELSE IF check.is # "regex" THEN [st EXCEPT !.ok = StringHolds(check, v)]
  ELSE LET found == RegexTest(FromStart(st.last, check.regex), check.regex, v) IN
       IF found.ok THEN [ok |-> TRUE, last |-> FromStart(found.last, check.regex)]
                   ELSE found

IsString(checks, v, last) ==
  FoldLeft(LAMBDA st, check : KernelStep(st, check, v),
           [ok |-> v.type = "string", last |-> last], checks)

IsNumber(checks, v) ==
  v.type = "number" /\ v.finite /\ \A i \in DOMAIN checks : NumberHolds(checks[i], v.n)
IsBigInt(checks, v) ==
  v.type = "bigint" /\ \A i \in DOMAIN checks : BigIntHolds(checks[i], v.n)
IsDate(checks, v) ==
  v.type = "date" /\ v.finite /\ \A i \in DOMAIN checks : DateHolds(checks[i], v.n)
IsFile(checks, v) ==
  v.type = "file" /\ \A i \in DOMAIN checks : FileHolds(checks[i], v)

-----------------------------------------------------------------------------
(* The cooperative walk has its own copies; testPattern resets both ways   *)

TestPattern(last, regex, v) ==
  LET found == RegexTest(FromStart(last, regex), regex, v) IN
  [ok |-> found.ok, last |-> FromStart(found.last, regex)]

AsyncStep(st, check, v) ==
  IF ~st.ok THEN st
  ELSE IF check.is # "regex" THEN [st EXCEPT !.ok = StringHolds(check, v)]
  ELSE TestPattern(st.last, check.regex, v)

AsyncString(checks, v, last) ==
  FoldLeft(LAMBDA st, check : AsyncStep(st, check, v),
           [ok |-> v.type = "string", last |-> last], checks)

AsyncNumber(checks, v) ==
  v.type = "number" /\ v.finite /\ \A i \in DOMAIN checks : NumberHolds(checks[i], v.n)
AsyncBigInt(checks, v) ==
  v.type = "bigint" /\ \A i \in DOMAIN checks : BigIntHolds(checks[i], v.n)
AsyncDate(checks, v) ==
  v.type = "date" /\ v.finite /\ \A i \in DOMAIN checks : DateHolds(checks[i], v.n)
AsyncMimeMatches(mime, patterns) ==
  \E i \in DOMAIN patterns :
    patterns[i] = mime \/ (patterns[i].sub = "*" /\ patterns[i].top = mime.top)
AsyncFile(checks, v) ==
  /\ v.type = "file"
  /\ \A i \in DOMAIN checks :
       IF checks[i].is = "mime" THEN AsyncMimeMatches(v.mime, checks[i].value)
                                ELSE FileHolds(checks[i], v)

-----------------------------------------------------------------------------
(* The collector: reports every check that fails.  It stops at its issue   *)
(* limit after any check of a string, a number or a bigint, and never      *)
(* within a date or a file.                                                *)

Unlimited == 1000
Issue(path, code) == [path |-> path, code |-> code]

Code(check) ==
  CASE check.is = "min" -> "expected_min_length"
    [] check.is = "max" -> "expected_max_length"
    [] check.is \in {"regex", "format", "mime"} -> "expected_pattern"
    [] check.is = "integer" -> "expected_integer"
    [] check.is = "gte" -> "expected_gte"
    [] check.is = "lte" -> "expected_lte"
    [] check.is = "gt" -> "expected_gt"
    [] check.is = "lt" -> "expected_lt"
    [] check.is = "multipleOf" -> "expected_multiple_of"
DateCode(check) == IF check.is = "min" THEN "expected_gte" ELSE "expected_lte"
TypeCode(type) ==
  CASE type = "string" -> "expected_string" [] type = "number" -> "expected_number"
    [] type = "bigint" -> "expected_bigint" [] type = "date" -> "expected_date"
    [] type = "file" -> "expected_file" [] type = "literal" -> "expected_literal"
    [] type = "symbol" -> "expected_symbol" [] type = "boolean" -> "expected_boolean"
    [] type = "never" -> "expected_never"

Found(issues, holds, path, code) == IF holds THEN issues ELSE Append(issues, Issue(path, code))

\* A walk is [issues, last, done].
CollectStep(st, holds, last, path, code, limit) ==
  LET issues == Found(st.issues, holds, path, code) IN
  [issues |-> issues, last |-> last, done |-> Len(issues) >= limit]

\* Before each test, not after: a match leaves its end in lastIndex.
CollectStringStep(st, check, v, path, limit) ==
  IF st.done THEN st
  ELSE IF check.is # "regex"
  THEN CollectStep(st, StringHolds(check, v), st.last, path, Code(check), limit)
  ELSE LET found == RegexTest(FromStart(st.last, check.regex), check.regex, v) IN
       CollectStep(st, found.ok, found.last, path, Code(check), limit)

Mistyped(type, path, last) == [issues |-> <<Issue(path, TypeCode(type))>>, last |-> last, done |-> TRUE]
NothingFound(last) == [issues |-> <<>>, last |-> last, done |-> FALSE]

CollectString(checks, v, path, last, limit) ==
  IF v.type # "string" THEN Mistyped("string", path, last)
  ELSE FoldLeft(LAMBDA st, check : CollectStringStep(st, check, v, path, limit),
                NothingFound(last), checks)

CollectNumber(checks, v, path, last, limit) ==
  IF v.type # "number" \/ ~v.finite THEN Mistyped("number", path, last)
  ELSE FoldLeft(LAMBDA st, check :
                  IF st.done THEN st
                  ELSE CollectStep(st, NumberHolds(check, v.n), st.last, path, Code(check), limit),
                NothingFound(last), checks)

CollectBigInt(checks, v, path, last, limit) ==
  IF v.type # "bigint" THEN Mistyped("bigint", path, last)
  ELSE FoldLeft(LAMBDA st, check :
                  IF st.done THEN st
                  ELSE CollectStep(st, BigIntHolds(check, v.n), st.last, path, Code(check), limit),
                NothingFound(last), checks)

CollectDate(checks, v, path, last) ==
  IF v.type # "date" \/ ~v.finite THEN Mistyped("date", path, last)
  ELSE FoldLeft(LAMBDA st, check :
                  CollectStep(st, DateHolds(check, v.n), st.last, path, DateCode(check), Unlimited),
                NothingFound(last), checks)

CollectMimeMatches(mime, patterns) ==
  \E i \in DOMAIN patterns :
    patterns[i] = mime \/ (patterns[i].sub = "*" /\ patterns[i].top = mime.top)
CollectFile(checks, v, path, last) ==
  IF v.type # "file" THEN Mistyped("file", path, last)
  ELSE FoldLeft(LAMBDA st, check :
                  CollectStep(st, IF check.is = "mime" THEN CollectMimeMatches(v.mime, check.value)
                                                       ELSE FileHolds(check, v),
                              st.last, path, Code(check), Unlimited),
                NothingFound(last), checks)

-----------------------------------------------------------------------------
(* The compiled predicate tests an expression from its start when it is    *)
(* stateful, and may test the checks in the order of their costs.          *)

ResetNever(last, regex) == last
Reset(last, regex) == IF regex \in Stateful THEN FromStart(last, regex) ELSE last

CompiledStep(st, check, v) ==
  IF ~st.ok THEN st
  ELSE IF check.is # "regex" THEN [st EXCEPT !.ok = StringHolds(check, v)]
  ELSE RegexTest(Reset(st.last, check.regex), check.regex, v)

CompiledString(checks, order, v, last) ==
  FoldLeft(LAMBDA st, i : CompiledStep(st, checks[i], v),
           [ok |-> v.type = "string", last |-> last], order)

-----------------------------------------------------------------------------
(* The compiled check is emitted three times: at its own path, one segment *)
(* and two segments below.                                                 *)

\* emitPatternIssue and its two copies.
PatternIssue(st, check, v, path) ==
  LET found == RegexTest(Reset(st.last, check.regex), check.regex, v) IN
  [issues |-> Found(st.issues, found.ok, path, Code(check)), last |-> found.last]

StringIssue(st, check, v, path) ==
  IF check.is = "regex" THEN PatternIssue(st, check, v, path)
  ELSE [st EXCEPT !.issues = Found(@, StringHolds(check, v), path, Code(check))]

EmitStringCheck(checks, v, path, last) ==
  IF v.type # "string" THEN [issues |-> <<Issue(path, "expected_string")>>, last |-> last]
  ELSE FoldLeft(LAMBDA st, check : StringIssue(st, check, v, path),
                [issues |-> <<>>, last |-> last], checks)

\* The issues of checks without expressions, in their order.
IssuesOf(checks, holds, path, codes) ==
  LET failed == SelectSeq([i \in DOMAIN checks |-> i], LAMBDA i : ~holds[i]) IN
  [k \in DOMAIN failed |-> Issue(path, codes[failed[k]])]

NumberIssues(checks, v, path) ==
  IssuesOf(checks, [i \in DOMAIN checks |-> NumberHolds(checks[i], v.n)], path,
           [i \in DOMAIN checks |-> Code(checks[i])])
EmitNumberCheck(checks, v, path) ==
  IF v.type # "number" \/ ~v.finite THEN <<Issue(path, "expected_number")>>
  ELSE NumberIssues(checks, v, path)

EmitBigIntConstraints(checks, v, path) ==
  IssuesOf(checks, [i \in DOMAIN checks |-> BigIntHolds(checks[i], v.n)], path,
           [i \in DOMAIN checks |-> Code(checks[i])])
EmitBigIntCheck(checks, v, path) ==
  IF v.type # "bigint" THEN <<Issue(path, "expected_bigint")>>
  ELSE EmitBigIntConstraints(checks, v, path)

EmitDateCheck(checks, v, path) ==
  IF v.type # "date" \/ ~v.finite THEN <<Issue(path, "expected_date")>>
  ELSE IssuesOf(checks, [i \in DOMAIN checks |-> DateHolds(checks[i], v.n)], path,
                [i \in DOMAIN checks |-> DateCode(checks[i])])

\* Object.is: a literal is its own value alone.
EmitLiteralCheck(literal, v, path) ==
  IF v = literal THEN <<>> ELSE <<Issue(path, "expected_literal")>>

EmitStringCheckAtSegment(checks, v, path, segment, last) ==
  EmitStringCheck(checks, v, Append(path, segment), last)
EmitStringCheckAtTwoSegments(checks, v, path, first, second, last) ==
  EmitStringCheck(checks, v, path \o <<first, second>>, last)
EmitNumberCheckAtSegment(checks, v, path, segment) ==
  EmitNumberCheck(checks, v, Append(path, segment))
EmitNumberCheckAtTwoSegments(checks, v, path, first, second) ==
  EmitNumberCheck(checks, v, path \o <<first, second>>)
EmitBigIntCheckAtSegment(checks, v, path, segment) ==
  EmitBigIntCheck(checks, v, Append(path, segment))
EmitBigIntCheckAtTwoSegments(checks, v, path, first, second) ==
  EmitBigIntCheck(checks, v, path \o <<first, second>>)
EmitLiteralCheckAtSegment(literal, v, path, segment) ==
  EmitLiteralCheck(literal, v, Append(path, segment))
EmitLiteralCheckAtTwoSegments(literal, v, path, first, second) ==
  EmitLiteralCheck(literal, v, path \o <<first, second>>)

\* A child written in line; a date with checks and a file get a function of
\* their own, the file one that runs the collector.
OutOfLine(g, v, path, last) ==
  IF g.type = "date"
  THEN [issues |-> EmitDateCheck(g.checks, v, path), last |-> last]
  ELSE [issues |-> CollectFile(g.checks, v, path, last).issues, last |-> last]

EmitLeafCheckAtSegment(g, v, path, segment, last) ==
  LET stateless(issues) == [issues |-> issues, last |-> last] IN
  CASE g.type = "string" -> EmitStringCheckAtSegment(g.checks, v, path, segment, last)
    [] g.type = "number" -> stateless(EmitNumberCheckAtSegment(g.checks, v, path, segment))
    [] g.type = "bigint" -> stateless(EmitBigIntCheckAtSegment(g.checks, v, path, segment))
    [] g.type = "literal" -> stateless(EmitLiteralCheckAtSegment(g.value, v, path, segment))
    [] OTHER -> OutOfLine(g, v, Append(path, segment), last)

EmitLeafCheckAtTwoSegments(g, v, path, first, second, last) ==
  LET stateless(issues) == [issues |-> issues, last |-> last] IN
  CASE g.type = "string" -> EmitStringCheckAtTwoSegments(g.checks, v, path, first, second, last)
    [] g.type = "number" -> stateless(EmitNumberCheckAtTwoSegments(g.checks, v, path, first, second))
    [] g.type = "bigint" -> stateless(EmitBigIntCheckAtTwoSegments(g.checks, v, path, first, second))
    [] g.type = "literal" ->
         stateless(EmitLiteralCheckAtTwoSegments(g.value, v, path, first, second))
    [] OTHER -> OutOfLine(g, v, path \o <<first, second>>, last)

\* A hole is answered when the code is generated.
EmitUndefinedLiteralAt(literal, path) ==
  IF literal.type = "undefined" THEN <<>> ELSE <<Issue(path, "expected_literal")>>
EmitUndefinedLeafCheckAtSegment(g, path, segment) ==
  IF g.type = "literal" THEN EmitUndefinedLiteralAt(g.value, Append(path, segment))
  ELSE <<Issue(Append(path, segment), TypeCode(g.type))>>
EmitUndefinedLeafCheckAtTwoSegments(g, path, first, second) ==
  IF g.type = "literal" THEN EmitUndefinedLiteralAt(g.value, path \o <<first, second>>)
  ELSE <<Issue(path \o <<first, second>>, TypeCode(g.type))>>

-----------------------------------------------------------------------------
(* The first issue alone                                                   *)

EmitPatternFirst(st, check, v, path) ==
  LET found == RegexTest(Reset(st.last, check.regex), check.regex, v) IN
  [issues |-> Found(<<>>, found.ok, path, Code(check)), last |-> found.last]

FirstStep(st, check, v, path) ==
  IF st.issues # <<>> THEN st
  ELSE IF check.is = "regex" THEN EmitPatternFirst(st, check, v, path)
  ELSE [st EXCEPT !.issues = Found(<<>>, StringHolds(check, v), path, Code(check))]

EmitStringFirst(checks, v, path, last) ==
  IF v.type # "string" THEN [issues |-> <<Issue(path, "expected_string")>>, last |-> last]
  ELSE FoldLeft(LAMBDA st, check : FirstStep(st, check, v, path),
                [issues |-> <<>>, last |-> last], checks)

First(issues) == IF issues = <<>> THEN <<>> ELSE <<issues[1]>>
EmitNumberFirst(checks, v, path) ==
  IF v.type # "number" \/ ~v.finite THEN <<Issue(path, "expected_number")>>
  ELSE First(NumberIssues(checks, v, path))
EmitBigIntFirst(checks, v, path) ==
  IF v.type # "bigint" THEN <<Issue(path, "expected_bigint")>>
  ELSE First(EmitBigIntConstraints(checks, v, path))
EmitDateFirst(checks, v, path) ==
  IF v.type # "date" \/ ~v.finite THEN <<Issue(path, "expected_date")>>
  ELSE First(IssuesOf(checks, [i \in DOMAIN checks |-> DateHolds(checks[i], v.n)], path,
                      [i \in DOMAIN checks |-> DateCode(checks[i])]))
EmitLiteralFirst(literal, v, path) ==
  IF v = literal THEN <<>> ELSE <<Issue(path, "expected_literal")>>

-----------------------------------------------------------------------------
(* Any scalar schema                                                       *)

IsScalar(g, v, last) ==
  IF g.type = "string" THEN IsString(g.checks, v, last)
  ELSE [ok |-> CASE g.type = "number" -> IsNumber(g.checks, v)
                 [] g.type = "bigint" -> IsBigInt(g.checks, v)
                 [] g.type = "date" -> IsDate(g.checks, v)
                 [] g.type = "file" -> IsFile(g.checks, v),
        last |-> last]
CollectScalar(g, v, path, last, limit) ==
  CASE g.type = "string" -> CollectString(g.checks, v, path, last, limit)
    [] g.type = "number" -> CollectNumber(g.checks, v, path, last, limit)
    [] g.type = "bigint" -> CollectBigInt(g.checks, v, path, last, limit)
    [] g.type = "date" -> CollectDate(g.checks, v, path, last)
    [] g.type = "file" -> CollectFile(g.checks, v, path, last)

\* The collector sees what the kernel rejected only; a rejection it cannot
\* explain gets one issue.
CheckSchema(g, v, last) ==
  LET accepted == IsScalar(g, v, last)
      collected == CollectScalar(g, v, <<>>, accepted.last, Unlimited)
  IN IF accepted.ok THEN NothingFound(accepted.last)
     ELSE IF collected.issues # <<>> THEN collected
     ELSE [collected EXCEPT !.issues = <<Issue(<<>>, "expected_refinement")>>]
=============================================================================
