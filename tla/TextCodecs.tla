----------------------------- MODULE TextCodecs -----------------------------
(***************************************************************************)
(* The built-in text codecs of src/decoder/index.ts: jsonCodec with its    *)
(* own parser and printer, stringToNumber and stringToInt, base64ToBytes,  *)
(* base64urlToBytes and hexToBytes.  Somebody types a text, one character  *)
(* at a time, and every prefix is decoded and encoded again.               *)
(*                                                                         *)
(* A text is a sequence of characters.  "true", "false" and "null" are one *)
(* character each, and so are the four digits after \u, which are named by *)
(* the kind of code unit they give.                                        *)
(***************************************************************************)
EXTENDS Integers, Sequences, FiniteSets
LOCAL INSTANCE SequencesExt

CONSTANTS
  CodecOf,           \* exercise |-> the codec it is about
  Start,             \* exercise |-> the text typing starts from
  Alphabet,          \* exercise |-> the characters typed
  MaxText,           \* exercise |-> bound on the length of a text
  JsonMaxDepth,      \* JSON_MAX_DEPTH
  LargestExponent,   \* a number with its point further right is not finite
  SafeDigits         \* a number with more digits is not a safe integer

VARIABLES exercise, text

vars == <<exercise, text>>
codec == CodecOf[exercise]

At(t, i) == IF i \in DOMAIN t THEN t[i] ELSE "end"
Digits == <<"0", "1", "2", "3", "4", "5", "6", "7", "8", "9">>
DigitSet == {Digits[i] : i \in 1..10}

\* Results of a parse: a value and the index after it.
Value(kind, chars, items) == [kind |-> kind, chars |-> chars, exponent |-> 0, items |-> items]
Nothing == Value("nothing", <<>>, <<>>)
Stop == [ok |-> FALSE, value |-> Nothing, index |-> 0]
Step(value, i) == [ok |-> TRUE, value |-> value, index |-> i]

-----------------------------------------------------------------------------
(* Numbers: sign, digits without outer zeros, and the exponent of the last  *)

Trimmed(s) ==
  LET used == {i \in DOMAIN s : s[i] # "0"}
      first == CHOOSE i \in used : \A j \in used : i <= j
      last == CHOOSE i \in used : \A j \in used : i >= j
  IN  IF used = {} THEN [digits |-> <<>>, dropped |-> 0]
      ELSE [digits |-> SubSeq(s, first, last), dropped |-> Len(s) - last]
Number(negative, digits, exponent) ==
  LET trimmed == Trimmed(digits)
  IN  [Value("number", IF negative THEN <<"-">> \o trimmed.digits ELSE trimmed.digits, <<>>)
         EXCEPT !.exponent = IF trimmed.digits = <<>> THEN 0
                             ELSE exponent + trimmed.dropped]
Negative(n) == n.chars # <<>> /\ Head(n.chars) = "-"
Mantissa(n) == IF Negative(n) THEN Tail(n.chars) ELSE n.chars
\* Where the decimal point stands, counted from the first digit.
Point(n) == Len(Mantissa(n)) + n.exponent
Finite(n) == Point(n) <= LargestExponent
Unsigned(n) == IF Mantissa(n) = <<>> THEN [n EXCEPT !.chars = <<>>] ELSE n

RECURSIVE Amount(_)
Amount(digits) ==
  IF digits = <<>> THEN 0
  ELSE 10 * Amount(Front(digits)) + (CHOOSE d \in 0..9 : Digits[d + 1] = Last(digits))
RECURSIVE Numeral(_)
Numeral(n) == IF n < 10 THEN <<Digits[n + 1]>> ELSE Append(Numeral(n \div 10), Digits[(n % 10) + 1])

Zeros(n) == [i \in 1..n |-> "0"]
\* String(number): a negative zero loses its sign.
Printed(n) ==
  LET m == Mantissa(n)  p == Point(n)
      plain == CASE m = <<>> -> <<"0">>
                 [] m # <<>> /\ p >= Len(m) /\ p <= 21 -> m \o Zeros(p - Len(m))
                 [] m # <<>> /\ p > 0 /\ p < Len(m) ->
                      SubSeq(m, 1, p) \o <<".">> \o SubSeq(m, p + 1, Len(m))
                 [] m # <<>> /\ p <= 0 /\ p > -6 -> <<"0", ".">> \o Zeros(-p) \o m
                 [] OTHER ->
                      <<Head(m)>> \o (IF Len(m) > 1 THEN <<".">> \o Tail(m) ELSE <<>>)
                        \o <<"e">> \o (IF p > 0 THEN <<"+">> \o Numeral(p - 1)
                                       ELSE <<"-">> \o Numeral(1 - p))
  IN  IF Negative(n) /\ m # <<>> THEN <<"-">> \o plain ELSE plain

RECURSIVE DigitsEnd(_, _)
DigitsEnd(t, i) == IF At(t, i) \in DigitSet THEN DigitsEnd(t, i + 1) ELSE i
ExponentEnd(t, i) ==
  DigitsEnd(t, IF At(t, i + 1) \in {"+", "-"} THEN i + 2 ELSE i + 1)
ExponentValue(t, i) ==
  IF At(t, i + 1) = "-" THEN -Amount(SubSeq(t, i + 2, ExponentEnd(t, i) - 1))
  ELSE Amount(SubSeq(t, IF At(t, i + 1) = "+" THEN i + 2 ELSE i + 1, ExponentEnd(t, i) - 1))

\* The parts of a decimal literal whose digits start at i: where its integer
\* part, its fraction and its exponent end.
Literal(t, i) ==
  LET whole == DigitsEnd(t, i)
      fraction == IF At(t, whole) = "." THEN DigitsEnd(t, whole + 1) ELSE whole
      exponent == IF At(t, fraction) = "e" THEN ExponentEnd(t, fraction) ELSE fraction
  IN  [whole |-> whole, fraction |-> fraction, exponent |-> exponent]
NumberOf(t, i, parts, negative) ==
  LET fraction == SubSeq(t, parts.whole + 1, parts.fraction - 1)
  IN  Number(negative, SubSeq(t, i, parts.whole - 1) \o fraction,
             (IF parts.exponent > parts.fraction THEN ExponentValue(t, parts.fraction) ELSE 0)
               - Len(fraction))

\* parseJsonNumber: no leading zero, digits after the point and after the e.
WellFormed(t, i, parts) ==
  /\ At(t, i) \in DigitSet
  /\ At(t, i) = "0" => parts.whole = i + 1
  /\ At(t, parts.whole) = "." => parts.fraction > parts.whole + 1
  /\ parts.exponent > parts.fraction => At(t, parts.exponent - 1) \in DigitSet
ParseNumber(t, i) ==
  LET first == IF At(t, i) = "-" THEN i + 1 ELSE i
      parts == Literal(t, first)
      number == NumberOf(t, first, parts, At(t, i) = "-")
  IN  IF WellFormed(t, first, parts) /\ Finite(number) THEN Step(number, parts.exponent)
      ELSE Stop

-----------------------------------------------------------------------------
(* Strings                                                                  *)

Quote == "\""
Backslash == "\\"
Control == {"nl", "ctl"}   \* code units below 32: with a short escape, without
\* What a backslash and the next character stand for.
Escapes == {Quote, Backslash, "n", "uctl", "ubmp"}
Escaped(c) == CASE c = "n" -> "nl" [] c = "uctl" -> "ctl" [] c = "ubmp" -> "x" [] OTHER -> c

RECURSIVE ReadString(_, _, _)
ReadEscape(t, i, out) ==
  CASE At(t, i + 1) \in Escapes -> ReadString(t, i + 2, Append(out, Escaped(t[i + 1])))
    [] At(t, i + 1) = "uhigh" /\ At(t, i + 2) = Backslash /\ At(t, i + 3) = "ulow" ->
         ReadString(t, i + 4, Append(out, "astral"))
    [] OTHER -> Stop
ReadString(t, i, out) ==
  CASE At(t, i) \in Control \cup {"end"} -> Stop
    [] At(t, i) = Quote -> Step(Value("string", out, <<>>), i + 1)
    [] At(t, i) = Backslash -> ReadEscape(t, i, out)
    [] OTHER -> ReadString(t, i + 1, Append(out, At(t, i)))
ParseString(t, i) == IF At(t, i) = Quote THEN ReadString(t, i + 1, <<>>) ELSE Stop

Quoted(chars) ==
  <<Quote>> \o FlattenSeq([i \in DOMAIN chars |->
      CASE chars[i] \in {Quote, Backslash} -> <<Backslash, chars[i]>>
        [] chars[i] = "nl" -> <<Backslash, "n">>
        [] chars[i] = "ctl" -> <<Backslash, "uctl">>
        [] OTHER -> <<chars[i]>>]) \o <<Quote>>

-----------------------------------------------------------------------------
(* jsonCodec: parseJsonText and stringifyJsonValue                          *)

Words == {"true", "false", "null"}
RECURSIVE Skip(_, _)
Skip(t, i) == IF At(t, i) = "space" THEN Skip(t, i + 1) ELSE i

Member(key, child) == Value("member", key.chars, <<child>>)
\* defineOutputProperty: a repeated key keeps its place and takes the new value.
Defined(members, key, child) ==
  IF \E i \in DOMAIN members : members[i].chars = key.chars
  THEN [i \in DOMAIN members |->
          IF members[i].chars = key.chars THEN Member(key, child) ELSE members[i]]
  ELSE Append(members, Member(key, child))

RECURSIVE ParseValue(_, _, _), ParseItems(_, _, _, _), ParseMembers(_, _, _, _)
ParseItems(t, i, depth, items) ==
  LET item == ParseValue(t, i, depth + 1)
      next == Skip(t, item.index)
      all == Append(items, item.value)
  IN  IF ~item.ok THEN Stop
      ELSE CASE At(t, next) = "]" -> Step(Value("array", <<>>, all), next + 1)
             [] At(t, next) = "," -> ParseItems(t, Skip(t, next + 1), depth, all)
             [] OTHER -> Stop
ParseMembers(t, i, depth, members) ==
  LET key == ParseString(t, i)
      colon == Skip(t, key.index)
      child == ParseValue(t, Skip(t, colon + 1), depth + 1)
      next == Skip(t, child.index)
      all == Defined(members, key.value, child.value)
  IN  IF ~key.ok \/ At(t, colon) # ":" THEN Stop
      ELSE IF ~child.ok THEN Stop
      ELSE CASE At(t, next) = "}" -> Step(Value("object", <<>>, all), next + 1)
             [] At(t, next) = "," -> ParseMembers(t, Skip(t, next + 1), depth, all)
             [] OTHER -> Stop
ParseArray(t, i, depth) ==
  IF At(t, Skip(t, i + 1)) = "]" THEN Step(Value("array", <<>>, <<>>), Skip(t, i + 1) + 1)
  ELSE ParseItems(t, Skip(t, i + 1), depth, <<>>)
ParseObject(t, i, depth) ==
  IF At(t, Skip(t, i + 1)) = "}" THEN Step(Value("object", <<>>, <<>>), Skip(t, i + 1) + 1)
  ELSE ParseMembers(t, Skip(t, i + 1), depth, <<>>)
ParseValue(t, i, depth) ==
  IF depth > JsonMaxDepth THEN Stop
  ELSE CASE At(t, i) = Quote -> ParseString(t, i)
         [] At(t, i) \in DigitSet \cup {"-"} -> ParseNumber(t, i)
         [] At(t, i) = "[" -> ParseArray(t, i, depth)
         [] At(t, i) = "{" -> ParseObject(t, i, depth)
         [] At(t, i) \in Words -> Step(Value("word", <<At(t, i)>>, <<>>), i + 1)
         [] OTHER -> Stop
ParseJson(t) ==
  LET parsed == ParseValue(t, Skip(t, 1), 0)
  IN  IF parsed.ok /\ Skip(t, parsed.index) = Len(t) + 1 THEN parsed ELSE Stop

Joined(parts) ==
  FlattenSeq([i \in DOMAIN parts |-> IF i < Len(parts) THEN Append(parts[i], ",") ELSE parts[i]])
RECURSIVE Stringify(_, _)
Stringify(v, depth) ==
  CASE v.kind = "word" -> v.chars
    [] v.kind = "number" -> Printed(v)
    [] v.kind = "string" -> Quoted(v.chars)
    [] v.kind = "member" -> Quoted(v.chars) \o <<":">> \o Stringify(v.items[1], depth)
    [] v.kind \in {"array", "object"} ->
         LET parts == [i \in DOMAIN v.items |-> Stringify(v.items[i], depth + 1)]
         IN  IF v.kind = "array" THEN <<"[">> \o Joined(parts) \o <<"]">>
             ELSE <<"{">> \o Joined(parts) \o <<"}">>
RECURSIVE Depth(_)
Depth(v) ==
  IF v.kind = "member" THEN Depth(v.items[1])
  ELSE IF v.items = <<>> THEN 0
  ELSE 1 + LET below == {Depth(v.items[i]) : i \in DOMAIN v.items}
           IN  CHOOSE d \in below : \A e \in below : d >= e
Give(chars) == [ok |-> TRUE, chars |-> chars]
Refuse == [ok |-> FALSE, chars |-> <<>>]
StringifyJson(v) == IF Depth(v) > JsonMaxDepth THEN Refuse ELSE Give(Stringify(v, 0))

-----------------------------------------------------------------------------
(* stringToNumber and stringToInt: they trim, and print with String()       *)

Trim(t) ==
  LET used == {i \in DOMAIN t : t[i] # "space"}
  IN  IF used = {} THEN <<>>
      ELSE SubSeq(t, CHOOSE i \in used : \A j \in used : i <= j,
                     CHOOSE i \in used : \A j \in used : i >= j)
Signed(t) == At(t, 1) \in {"+", "-"}
AfterSign(t) == IF Signed(t) THEN 2 ELSE 1
Whole(number, t) == Step(number, Len(t) + 1)

\* What Number() reads: a digit somewhere, and digits after the e.
NumberText(t, i, parts) ==
  /\ parts.exponent = Len(t) + 1
  /\ \E j \in i..(parts.fraction - 1) : t[j] \in DigitSet
  /\ parts.exponent > parts.fraction => Last(t) \in DigitSet
StringToNumber(text0) ==
  LET t == Trim(text0)
      parts == Literal(t, AfterSign(t))
      number == NumberOf(t, AfterSign(t), parts, At(t, 1) = "-")
  IN  IF t # <<>> /\ NumberText(t, AfterSign(t), parts) /\ Finite(number)
      THEN Whole(number, t) ELSE Stop

IsIntegerString(t) ==
  /\ Len(t) >= AfterSign(t)
  /\ \A i \in AfterSign(t)..Len(t) : t[i] \in DigitSet
StringToInt(text0) ==
  LET t == Trim(text0)
      number == Number(At(t, 1) = "-", SubSeq(t, AfterSign(t), Len(t)), 0)
  IN  IF IsIntegerString(t) /\ Point(number) <= SafeDigits THEN Whole(number, t) ELSE Stop

-----------------------------------------------------------------------------
(* base64ToBytes, base64urlToBytes, hexToBytes                              *)

Alphanumeric ==
  <<"A", "B", "C", "D", "E", "F", "G", "H", "I", "J", "K", "L", "M", "N", "O", "P", "Q", "R",
    "S", "T", "U", "V", "W", "X", "Y", "Z", "a", "b", "c", "d", "e", "f", "g", "h", "i", "j",
    "k", "l", "m", "n", "o", "p", "q", "r", "s", "t", "u", "v", "w", "x", "y", "z">> \o Digits
Base64(urlSafe) == Alphanumeric \o (IF urlSafe THEN <<"-", "_">> ELSE <<"+", "/">>)
Sextet(c, urlSafe) ==
  IF c = "=" THEN 0 ELSE (CHOOSE n \in 1..64 : Base64(urlSafe)[n] = c) - 1

PaddingStart(t) ==
  LET body == {i \in DOMAIN t : t[i] # "="}
  IN  IF body = {} THEN 0 ELSE CHOOSE i \in body : \A j \in body : i >= j
Padding(t) == Len(t) - PaddingStart(t)
Remainder(t) == IF Padding(t) = 0 THEN Len(t) % 4 ELSE 0
PaddedLength(t) == IF Remainder(t) # 0 THEN Len(t) + 4 - Remainder(t) ELSE Len(t)
OutputLengthPadded(t) == (PaddedLength(t) \div 4) * 3 - Padding(t)
OutputLength(t) ==
  (PaddedLength(t) \div 4) * 3
    - (IF Padding(t) # 0 THEN Padding(t) ELSE IF Remainder(t) = 0 THEN 0 ELSE 4 - Remainder(t))
Base64Text(t, urlSafe) ==
  /\ Padding(t) <= 2 /\ (Padding(t) # 0 => Len(t) % 4 = 0)
  /\ \A i \in 1..PaddingStart(t) : \E n \in 1..64 : Base64(urlSafe)[n] = t[i]
  /\ Remainder(t) # 1

Padded(t) == t \o [i \in 1..(PaddedLength(t) - Len(t)) |-> "="]
Octets(bits) == <<bits \div 2^16, (bits \div 2^8) % 2^8, bits % 2^8>>
Group(t, g, urlSafe) ==
  Octets(Sextet(t[4 * g + 1], urlSafe) * 2^18 + Sextet(t[4 * g + 2], urlSafe) * 2^12
         + Sextet(t[4 * g + 3], urlSafe) * 2^6 + Sextet(t[4 * g + 4], urlSafe))
DecodeBase64(t, urlSafe) ==
  IF ~Base64Text(t, urlSafe) THEN Stop
  ELSE LET groups == [g \in 1..(PaddedLength(t) \div 4) |-> Group(Padded(t), g - 1, urlSafe)]
       IN  Step(Value("bytes", SubSeq(FlattenSeq(groups), 1, OutputLength(t)), <<>>), Len(t) + 1)

Byte(bytes, i) == IF i \in DOMAIN bytes THEN bytes[i] ELSE 0
Sextets(bits) == <<bits \div 2^18, (bits \div 2^12) % 64, (bits \div 2^6) % 64, bits % 64>>
EncodedGroup(bytes, g, urlSafe) ==
  LET s == Sextets(Byte(bytes, 3 * g + 1) * 2^16 + Byte(bytes, 3 * g + 2) * 2^8
                   + Byte(bytes, 3 * g + 3))
      used == Len(bytes) - 3 * g
  IN  [i \in 1..4 |-> IF i <= used + 1 THEN Base64(urlSafe)[s[i] + 1] ELSE "="]
EncodeBase64(bytes, urlSafe) ==
  LET t == FlattenSeq([g \in 1..((Len(bytes) + 2) \div 3) |-> EncodedGroup(bytes, g - 1, urlSafe)])
  IN  IF urlSafe THEN SelectSeq(t, LAMBDA c : c # "=") ELSE t

Hex == Digits \o <<"a", "b", "c", "d", "e", "f">>
UpperHex == Digits \o <<"A", "B", "C", "D", "E", "F">>
IsHex(c) == \E n \in 1..16 : c \in {Hex[n], UpperHex[n]}
HexValue(c) == (CHOOSE n \in 1..16 : c \in {Hex[n], UpperHex[n]}) - 1
DecodeHex(t) ==
  IF Len(t) % 2 = 0 /\ \A i \in DOMAIN t : IsHex(t[i])
  THEN Step(Value("bytes", [i \in 1..(Len(t) \div 2) |->
                              16 * HexValue(t[2 * i - 1]) + HexValue(t[2 * i])], <<>>), Len(t) + 1)
  ELSE Stop
EncodeHex(bytes) ==
  FlattenSeq([i \in DOMAIN bytes |-> <<Hex[(bytes[i] \div 16) + 1], Hex[(bytes[i] % 16) + 1]>>])

-----------------------------------------------------------------------------
(* The codecs, and the texts typed                                          *)

Decoded(c, t) ==
  CASE c = "json" -> ParseJson(t)
    [] c = "number" -> StringToNumber(t)
    [] c = "integer" -> StringToInt(t)
    [] c \in {"base64", "base64url"} -> DecodeBase64(t, c = "base64url")
    [] c = "hex" -> DecodeHex(t)
Encoded(c, v) ==
  CASE c = "json" -> StringifyJson(v)
    [] c \in {"number", "integer"} -> Give(Printed(v))
    [] c \in {"base64", "base64url"} -> Give(EncodeBase64(v.chars, c = "base64url"))
    [] c = "hex" -> Give(EncodeHex(v.chars))

Init == exercise \in DOMAIN CodecOf /\ text = Start[exercise]
Type(c) ==
  /\ Len(text) < MaxText[exercise]
  /\ text' = Append(text, c)
  /\ UNCHANGED exercise
Next == \E c \in Alphabet[exercise] : Type(c)
Spec == Init /\ [][Next]_vars

-----------------------------------------------------------------------------
(* Properties                                                               *)

RECURSIVE UpToZero(_)
UpToZero(v) ==
  IF v.kind = "number" THEN Unsigned(v)
  ELSE [v EXCEPT !.items = [i \in DOMAIN v.items |-> UpToZero(v.items[i])]]

\* Every built-in codec reads back what it writes: what it decodes it can
\* encode, and that text decodes to the same value, but for the sign of a zero.
ReadsBack ==
  LET decoded == Decoded(codec, text)
      encoded == Encoded(codec, decoded.value)
  IN  decoded.ok => /\ encoded.ok
                    /\ Decoded(codec, encoded.chars).ok
                    /\ UpToZero(Decoded(codec, encoded.chars).value) = UpToZero(decoded.value)

\* The grammar of JSON, by splitting a text instead of reading it.
RECURSIVE CharsOf(_)
CharsOf(t) ==
  \/ t = <<>>
  \/ t[1] \notin Control \cup {Quote, Backslash} /\ CharsOf(Tail(t))
  \/ Len(t) >= 2 /\ t[1] = Backslash /\ t[2] \in Escapes /\ CharsOf(SubSeq(t, 3, Len(t)))
  \/ /\ Len(t) >= 4 /\ SubSeq(t, 1, 4) = <<Backslash, "uhigh", Backslash, "ulow">>
     /\ CharsOf(SubSeq(t, 5, Len(t)))
Inner(t) == SubSeq(t, 2, Len(t) - 1)
Between(t, a, b) == Len(t) >= 2 /\ t[1] = a /\ Last(t) = b
IsString(t) == Between(t, Quote, Quote) /\ CharsOf(Inner(t))

AllDigits(t) == t # <<>> /\ \A i \in DOMAIN t : t[i] \in DigitSet
IsFraction(t) == t = <<>> \/ (t[1] = "." /\ AllDigits(Tail(t)))
IsExponent(t) ==
  \/ t = <<>>
  \/ t[1] = "e" /\ AllDigits(Tail(t))
  \/ Len(t) > 1 /\ t[1] = "e" /\ t[2] \in {"+", "-"} /\ AllDigits(SubSeq(t, 3, Len(t)))
IsNumber(t) ==
  LET u == IF At(t, 1) = "-" THEN Tail(t) ELSE t
  IN  /\ \E i \in 1..Len(u), j \in 1..Len(u) :
           /\ i <= j /\ AllDigits(SubSeq(u, 1, i)) /\ (i > 1 => u[1] # "0")
           /\ IsFraction(SubSeq(u, i + 1, j)) /\ IsExponent(SubSeq(u, j + 1, Len(u)))
      /\ Finite(NumberOf(u, 1, Literal(u, 1), FALSE))

RECURSIVE IsElement(_, _), IsList(_, _, _)
IsMember(t, depth) ==
  \E i \in DOMAIN t : /\ t[i] = ":" /\ IsString(Trim(SubSeq(t, 1, i - 1)))
                      /\ IsElement(SubSeq(t, i + 1, Len(t)), depth)
IsPart(t, member, depth) == IF member THEN IsMember(t, depth) ELSE IsElement(t, depth)
IsList(t, member, depth) ==
  \/ IsPart(t, member, depth)
  \/ \E i \in DOMAIN t : /\ t[i] = "," /\ IsPart(SubSeq(t, 1, i - 1), member, depth)
                         /\ IsList(SubSeq(t, i + 1, Len(t)), member, depth)
IsElement(text0, depth) ==
  LET t == Trim(text0)
  IN  /\ depth <= JsonMaxDepth
      /\ \/ Len(t) = 1 /\ t[1] \in Words
         \/ IsString(t)
         \/ t # <<>> /\ IsNumber(t)
         \/ Between(t, "[", "]") /\ (Trim(Inner(t)) = <<>> \/ IsList(Inner(t), FALSE, depth + 1))
         \/ Between(t, "{", "}") /\ (Trim(Inner(t)) = <<>> \/ IsList(Inner(t), TRUE, depth + 1))

\* jsonCodec accepts the texts of the grammar, and no other.
JsonIsGrammatical ==
  codec = "json" => (ParseJson(text).ok <=> IsElement(text, 0))
=============================================================================
