------------------------------ MODULE MCFunctions -------------------------------
(***************************************************************************)
(* The functions of the libraries, each checked against a definition of      *)
(* what it is for over small inputs: the state is one input.  Two of them    *)
(* are modelled as the loops they are, and take steps: the pairing of        *)
(* elements with matchers, and Factorial().                                  *)
(***************************************************************************)
EXTENDS BipartiteMatching, Factorial, MCMatchers, FloatingPoint, TLC

SeqsUpTo(S, k) == UNION {[1 .. l -> S] : l \in 0 .. k}
Least(S) == CHOOSE x \in S : \A y \in S : x <= y

--------------------------------------------------------------------------------
(* Printed literals, read as a compiler reads them.  The codes: those with an *)
(* escape of their own, and digits and letters that could run into one.      *)
Codes == {0, 7, 31, 34, 39, 48, 55, 56, 65, 71, 92, 97, 120, 127, 200}
MCGlyph == (34 :> "\"") @@ (39 :> "'") @@ (48 :> "0") @@ (55 :> "7") @@ (56 :> "8") @@ (65 :> "A")
           @@ (71 :> "G") @@ (92 :> "\\") @@ (97 :> "a") @@ (120 :> "x")
Shown == INSTANCE Printers WITH
  Glyph <- MCGlyph, kMaxCount <- 3, kThreshold <- 4, kChunkSize <- 2, kBytes <- 7, kByteChunk <- 2

HexDigits == [c \in {"0", "1", "2", "3", "4", "5", "6", "7", "8", "9", "A", "B", "C", "D", "E", "F", "a"} |->
                IF c = "a" THEN 10 ELSE CHOOSE d \in 0 .. 15 : Shown!Digit[d + 1] = c]
Octal == {"0", "1", "2", "3", "4", "5", "6", "7"}
Escapes == ("a" :> 7) @@ ("\"" :> 34) @@ ("'" :> 39) @@ ("\\" :> 92)
(* How many of the symbols of t from the k-th on are in set *)
Run(t, k, set) == Least({n \in 0 .. Len(t) : k + n > Len(t) \/ t[k + n] \notin set})
ValueOf(digits, base) == FoldLeft(LAMBDA v, d : v * base + HexDigits[d], 0, digits)

(* Adjacent literals are one; an escape takes in all the hexadecimal digits   *)
(* that follow, or up to three octal ones.                                   *)
RECURSIVE ReadLiteral(_, _, _)
ReadLiteral(t, inside, out) ==
  CASE t = <<>> -> IF inside THEN <<-1>> ELSE out
    [] t # <<>> /\ t[1] = "\"" -> ReadLiteral(Tail(t), ~ inside, out)
    [] t # <<>> /\ t[1] # "\"" /\ ~ inside -> ReadLiteral(Tail(t), FALSE, out)
    [] inside /\ t # <<>> /\ t[1] \notin {"\"", "\\"} ->
         ReadLiteral(Tail(t), TRUE, Append(out, CHOOSE c \in DOMAIN MCGlyph : MCGlyph[c] = t[1]))
    [] inside /\ t # <<>> /\ t[1] = "\\" ->
         LET hex == Run(t, 3, DOMAIN HexDigits)
             all == Run(t, 2, Octal)
             oct == IF all < 3 THEN all ELSE 3
         IN  IF t[2] = "x" THEN ReadLiteral(SubSeq(t, 3 + hex, Len(t)), TRUE, Append(out, ValueOf(SubSeq(t, 3, 2 + hex), 16)))
             ELSE IF oct > 0 THEN ReadLiteral(SubSeq(t, 2 + oct, Len(t)), TRUE, Append(out, ValueOf(SubSeq(t, 2, 1 + oct), 8)))
             ELSE ReadLiteral(SubSeq(t, 3, Len(t)), TRUE, Append(out, Escapes[t[2]]))

LiteralInputs == {[is |-> "literal", width |-> "char", text |-> s] : s \in SeqsUpTo(Codes, 3)}
           \union {[is |-> "literal", width |-> "wchar_t", text |-> s] : s \in SeqsUpTo({65, 71, 4660}, 3)}
NulThenOctal(s) == \E k \in 1 .. Len(s) - 1 : s[k] = 0 /\ s[k + 1] \in 48 .. 55
LiteralReadsBack(width, s) ==
  ~ NulThenOctal(s) => ReadLiteral(Shown!PrintCharsAsString(width, s), FALSE, <<>>) = s

--------------------------------------------------------------------------------
(* Texts that are written for others *)
Text == INSTANCE Encodings

(* UTF-16, read: a high surrogate before a low one makes one character of two *)
High(c) == c \in 55296 .. 56319
Low(c) == c \in 56320 .. 57343
CodePoints(s, bytes) ==
  LET Lead(k) == bytes = 2 /\ k \in 1 .. Len(s) - 1 /\ High(s[k]) /\ Low(s[k + 1])
      At(k) == IF Lead(k) THEN 65536 + (s[k] - 55296) * 1024 + (s[k + 1] - 56320) ELSE s[k]
      characters == SelectSeq([k \in DOMAIN s |-> k], LAMBDA k : ~ Lead(k - 1))
  IN  [k \in DOMAIN characters |-> At(characters[k])]
(* UTF-8, read: the lead byte says how many follow, six bits each *)
RECURSIVE ReadUtf8(_)
ReadUtf8(b) ==
  IF b = <<>> THEN <<>>
  ELSE LET more == CASE b[1] < 128 -> 0 [] b[1] \in 192 .. 223 -> 1 [] b[1] \in 224 .. 239 -> 2 [] OTHER -> 3
           lead == IF more = 0 THEN b[1] ELSE b[1] % 2 ^ (6 - more)
       IN  <<FoldLeft(LAMBDA v, c : (v * 64) + (c % 64), lead, SubSeq(b, 2, more + 1))>>
           \o ReadUtf8(SubSeq(b, more + 2, Len(b)))
WideReadsBack(s, bytes) ==
  ReadUtf8(Text!WideStringToUtf8(s, bytes)) = CodePoints(CString(s), bytes)

(* An attribute, as a parser of XML reads it: white space becomes a blank *)
ReadAttribute(written) ==
  [k \in DOMAIN written |->
     LET c == written[k][2] IN
     IF written[k][1] = "ref" THEN c
     ELSE CASE c \in {60, 38, 34} -> -1 [] c \in {9, 10, 13} -> 32 [] OTHER -> c]
ReadText(written) ==
  [k \in DOMAIN written |->
     IF written[k][1] = "raw" /\ written[k][2] \in {60, 38} THEN -1 ELSE written[k][2]]
(* A CDATA section ends at the first "]]>" (the end of a line is left alone)  *)
RECURSIVE ReadCData(_, _)
ReadCData(t, inside) ==
  CASE t = <<>> -> IF inside THEN <<-1>> ELSE <<>>
    [] inside /\ Len(t) >= 3 /\ SubSeq(t, 1, 3) = Text!CDataEnd -> ReadCData(SubSeq(t, 4, Len(t)), FALSE)
    [] ~ inside /\ t # <<>> /\ t[1] = Text!Open -> ReadCData(Tail(t), TRUE)
    [] OTHER -> <<IF t[1] = Text!GreaterThan THEN 62 ELSE t[1]>> \o ReadCData(Tail(t), inside)
ReadJson(written) ==
  [k \in DOMAIN written |->
     LET c == written[k][2] IN IF written[k][1] = "raw" /\ (c < 32 \/ c \in {34, 92}) THEN -1 ELSE c]
(* What XML can't hold is left out; all the rest is read as it was *)
ReportReadsBack(s) ==
  LET valid == SelectSeq(s, LAMBDA c : c >= 32 \/ c \in {9, 10, 13})
  IN  /\ ReadAttribute(Text!EscapeXml(s, TRUE)) = valid
      /\ ReadText(Text!EscapeXml(s, FALSE)) = valid
      /\ ReadCData(Text!OutputXmlCDataSection(s), FALSE) = s
      /\ ReadJson(Text!EscapeJson(s)) = s

(* A field of the stream, as the one who listens decodes it *)
RECURSIVE ReadUrl(_)
ReadUrl(t) ==
  LET Digit(c) == IF c > 57 THEN c - 55 ELSE c - 48 IN
  CASE t = <<>> -> <<>>
    [] t # <<>> /\ t[1] = 37 -> <<16 * Digit(t[2]) + Digit(t[3])>> \o ReadUrl(SubSeq(t, 4, Len(t)))
    [] t # <<>> /\ t[1] \in {10, 38, 61} -> <<-1>>       \* ends the line or the field
    [] OTHER -> <<t[1]>> \o ReadUrl(Tail(t))
FieldReadsBack(s) == ReadUrl(Text!UrlEncode(s)) = CString(s)

(* Base64, written: six bits to a letter, filled up with zeros and "=" *)
Base64Letter(d) ==
  CASE d < 26 -> d + 65 [] d \in 26 .. 51 -> d + 71 [] d \in 52 .. 61 -> d - 4 [] d = 62 -> 43 [] d = 63 -> 47
Base64Escape(b) ==
  LET bits == [k \in 1 .. 8 * Len(b) |-> (b[(k + 7) \div 8] \div 2 ^ (7 - ((k - 1) % 8))) % 2]
      letters == (Len(bits) + 5) \div 6
      Bit(k) == IF k \in DOMAIN bits THEN bits[k] ELSE 0
  IN  [k \in 1 .. letters |-> Base64Letter(FoldLeft(LAMBDA v, n : 2 * v + Bit(6 * (k - 1) + n), 0, <<1, 2, 3, 4, 5, 6>>))]
      \o [k \in 1 .. (4 - (letters % 4)) % 4 |-> 61]
BytesReadBack(b) == Text!Base64Unescape(Base64Escape(b)) = [ok |-> TRUE, decoded |-> b]

(* The words of a name: its letters and digits, parted before a capital and   *)
(* where a number begins, never inside of a number.                          *)
WordsOf(name) ==
  LET kept == SelectSeq(name, LAMBDA c : Text!IsAlpha(c) \/ Text!IsDigit(c))
      words == Text!ConvertIdentifierNameToWords(name)
      InNumber(k) == Text!IsDigit(name[k]) /\ Text!IsDigit(name[k + 1])
      Kept(k) == Cardinality({n \in 1 .. k : Text!IsAlpha(name[n]) \/ Text!IsDigit(name[n])})
      Parted(k) == \E n \in 2 .. Len(words) - 1 :      \* after the k-th letter
                     words[n] = 32 /\ Cardinality({q \in 1 .. n : words[q] # 32}) = k
  IN  /\ SelectSeq(words, LAMBDA c : c # 32) = [k \in DOMAIN kept |-> Text!ToLower(kept[k])]
      /\ \A k \in 1 .. Len(name) - 1 :
           /\ InNumber(k) => ~ Parted(Kept(k))
           /\ Text!IsUpper(name[k + 1]) /\ Kept(k) > 0 => Parted(Kept(k))

Told == INSTANCE MCReports
TextInputs ==
  {[is |-> "wide", text |-> s, bytes |-> 2] : s \in SeqsUpTo({0, 65, 233, 2047, 2048, 55357, 56832, 65535}, 3)}
    \union {[is |-> "wide", text |-> s, bytes |-> 4] : s \in SeqsUpTo({0, 127, 128, 65536, 128512, 55357, 56832}, 3)}
    \union {[is |-> "report", text |-> s] :
              s \in SeqsUpTo({1, 9, 13, 32, 34, 38, 39, 47, 60, 62, 92, 93, 127, 200}, 3)
                    \union [1 .. 4 -> {62, 93}] \union [1 .. 5 -> {62, 93}]}
    \union {[is |-> "field", text |-> s] : s \in SeqsUpTo({0, 10, 37, 38, 48, 51, 61}, 4)}
    \union {[is |-> "bytes", text |-> b] : b \in SeqsUpTo({0, 1, 65, 170, 255}, 4)}
    \union {[is |-> "name", text |-> n] : n \in SeqsUpTo({49, 65, 95, 97}, 5)}

(* Whatever the libraries write for another reader, that reader gets back: a  *)
(* compiler, from a printed string or wide string (PrintCharsAsStringTo; but  *)
(* a NUL before an octal digit runs into it); anybody, from UTF-8; a parser,  *)
(* from the attributes, texts and CDATA sections of the XML report and the    *)
(* strings of the JSON one; who listens to the stream, from its fields; and   *)
(* what was encoded in base 64, or the name of a matcher, keeps its bytes or  *)
(* letters.  So do the results of a program: the documents of both reports    *)
(* are well-formed, are read the same, and say of every test that is not left *)
(* out what happened in it; their counts are those of what they list; a      *)
(* failure shows in them, unless it is of SetUpTestSuite() or                 *)
(* TearDownTestSuite(); and the console and the stream count and name the     *)
(* same tests (gtest.cc, gmock-internal-utils.cc).                           *)
TextsSurvive ==
  CASE input.is = "literal" -> LiteralReadsBack(input.width, input.text)
    [] input.is = "wide"    -> WideReadsBack(input.text, input.bytes)
    [] input.is = "report"  -> ReportReadsBack(input.text)
    [] input.is = "bytes"   -> BytesReadBack(input.text)
    [] input.is = "name"    -> WordsOf(input.text)
    [] input.is = "field"   -> FieldReadsBack(input.text)
    [] input.is = "results" -> Told!ResultsReadBack(input.of)
    [] OTHER -> TRUE

--------------------------------------------------------------------------------
(* Values as they are shown in a failure *)
Num(n) == [is |-> "streamed", value |-> n]
Nums(s) == [k \in DOMAIN s |-> Num(s[k])]
Str(s) == [is |-> "string", width |-> "char", value |-> s]
ShortStrings == {Str(s) : s \in SeqsUpTo({55, 34, 200}, 2)}
Maybe(S) == {[is |-> "optional", has |-> FALSE]} \union {[is |-> "optional", has |-> TRUE, value |-> v] : v \in S}
Numbers == {Num(n) : n \in 0 .. 2}

(* The values of each type; an address is a number *)
ValuesOfType ==
  [type \in {"string", "wide string", "char", "bool", "int list", "string list", "array", "bytes", "nested",
             "optional", "variant", "tuple", "pointer", "smart pointer", "char array"} |->
    CASE type = "string" -> {Str(s) : s \in SeqsUpTo({0, 48, 55, 65, 34, 92, 200}, 2)}
      [] type = "wide string" -> {[is |-> "string", width |-> "wchar_t", value |-> s] : s \in SeqsUpTo({0, 65, 4660}, 2)}
      [] type = "char" -> {[is |-> "char", width |-> "char", value |-> c] : c \in Codes}
      [] type = "bool" -> {[is |-> "bool", value |-> b] : b \in BOOLEAN}
      [] type = "int list" -> {[is |-> "container", value |-> Nums(s)] : s \in SeqsUpTo(0 .. 2, 5)}
      [] type = "string list" -> {[is |-> "container", value |-> s] : s \in SeqsUpTo(ShortStrings, 2)}
      [] type = "nested" -> {[is |-> "container", value |-> s] :
                               s \in SeqsUpTo({[is |-> "container", value |-> Nums(t)] : t \in SeqsUpTo(0 .. 1, 2)}, 2)}
      [] type = "array" -> {[is |-> "array", value |-> Nums(s)] : s \in SeqsUpTo(0 .. 1, 6)}
      [] type = "bytes" -> {[is |-> "bytes", value |-> s] : s \in SeqsUpTo({0, 161}, 7)
                                                                        \union [1 .. 9 -> {0, 161}]}
      [] type = "optional" -> Maybe(Maybe(Numbers))
      [] type = "variant" -> {[is |-> "variant", type |-> t[1], index |-> t[2], value |-> Num(t[3])] :
                                t \in {"int", "long"} \X (0 .. 1) \X (0 .. 2)}
      [] type = "tuple" -> {[is |-> "tuple", value |-> t] : t \in ShortStrings \X Maybe(Numbers)}
      [] type = "pointer" -> {[is |-> "pointer", address |-> n] : n \in 0 .. 2}
      [] type = "smart pointer" -> {[is |-> "smart", address |-> n, value |-> Num(n)] : n \in 0 .. 2}
      [] type = "char array" -> {[is |-> "char array", width |-> "char", value |-> s] : s \in SeqsUpTo({0, 65}, 3)}]

(* Too long to be shown in full *)
Elided(v) ==
  CASE v.is = "container" -> Len(v.value) > 3
    [] v.is = "array"     -> Len(v.value) > 4
    [] v.is = "bytes"     -> Len(v.value) >= 7
    [] OTHER              -> FALSE
ShowsDifference(v, type) ==
  ~ Elided(v) => LET shown == Shown!UniversalPrint(v)
                 IN  \A w \in ValuesOfType[type] : v # w /\ ~ Elided(w) => shown # Shown!UniversalPrint(w)

(* What is shown of a long value is its beginning, and for arrays and bytes   *)
(* its end; the dots are there exactly if there is more.                     *)
Dots == {" ...", ", ..., ", " ... "}
Symbols(v) ==
  IF v.is = "bytes" THEN FlattenSeq([k \in DOMAIN v.value |-> Shown!Hex(v.value[k] \div 16) \o Shown!Hex(v.value[k] % 16)])
  ELSE [k \in DOMAIN v.value |-> ToString(v.value[k].value)]
ShowsEnds(v) ==
  LET t == Tail(Shown!UniversalPrint(v))      \* without the brace, or the size
      gap == {k \in DOMAIN t : t[k] \in Dots}
      cut == IF gap = {} THEN Len(t) + 1 ELSE Least(gap)
      Values(u) == SelectSeq(u, LAMBDA x : x \in {"0", "1", "2", "A"})
      before == Values(SubSeq(t, 1, cut - 1))
      after == Values(SubSeq(t, cut + 1, Len(t)))
      all == Symbols(v)
  IN  /\ gap # {} <=> Elided(v)
      /\ before = SubSeq(all, 1, Len(before))
      /\ after = SubSeq(all, Len(all) - Len(after) + 1, Len(all))
      /\ gap # {} <=> Len(before) + Len(after) < Len(all)
      /\ v.is = "bytes" /\ gap # {} => (Len(all) - Len(after)) % 4 = 0      \* on a pair of bytes

(* The operands of a comparison.  What differs:                             *)
Operands ==
  {Str(s) : s \in SeqsUpTo({0, 65}, 2)}
    \union {[is |-> "C string", width |-> "char", address |-> 1 + Len(s), value |-> s] : s \in SeqsUpTo({65}, 2)}
    \union {[is |-> "char array", width |-> "char", address |-> 5 + Len(s), value |-> Append(s, 0)] : s \in SeqsUpTo({0, 65}, 1)}
Address(v) == v.is \in {"C string", "char array"}
SameOperand(v, w) ==
  IF Address(v) /\ Address(w) THEN v.address = w.address ELSE CString(v.value) = CString(w.value) /\
    (~ Address(v) => v.value = CString(v.value)) /\ (~ Address(w) => w.value = CString(w.value))
OperandsShownApart(v) ==
  \A w \in Operands :
    (Address(v) \/ Address(w)) /\ ~ SameOperand(v, w) => Shown!FormatForComparison(v, w) # Shown!FormatForComparison(w, v)

ValueInputs ==
  UNION {{[is |-> "value", type |-> type, v |-> v] : v \in ValuesOfType[type]} : type \in DOMAIN ValuesOfType}
    \union {[is |-> "operand", v |-> v] : v \in Operands}

(* Two values that differ are not shown alike, be they nested or of          *)
(* characters that need escapes, unless something is left out; what is left   *)
(* out is the middle or the rest, and the dots say so.  The two operands of a *)
(* failed EXPECT_EQ() differ in the message too (gtest-printers.h and .cc).   *)
ShownTruthfully ==
  CASE input.is = "value" ->
         /\ ShowsDifference(input.v, input.type)
         /\ input.type \in {"int list", "array", "bytes"} => ShowsEnds(input.v)
    [] input.is = "operand" -> OperandsShownApart(input.v)
    [] OTHER -> TRUE

--------------------------------------------------------------------------------
(* Differences of texts *)
Diff == INSTANCE Diffs
DiffInputs == {[is |-> "diff", old |-> l, new |-> r] : l, r \in SeqsUpTo({"x", "y"}, 5)}

(* The difference that a failed EXPECT_EQ() of two texts prints can be applied *)
(* to the one, and gives the other (gtest.cc, CreateUnifiedDiff).            *)
DiffsSound ==
  input.is = "diff" =>
    \A context \in 1 .. 2 : Diff!Patches(Diff!CreateUnifiedDiff(input.old, input.new, context), input.old, input.new)

(* The least number of edits from the one to the other *)
LeastEdits(old, new) ==
  LET least[p \in Diff!Table(old, new)] ==
        CASE p[1] = 0 \/ p[2] = 0 -> p[1] + p[2]
          [] OTHER -> LET kept == least[<<p[1] - 1, p[2] - 1>>]
                      IN  IF old[p[1]] = new[p[2]] THEN kept
                          ELSE 1 + Min({least[<<p[1] - 1, p[2]>>], least[<<p[1], p[2] - 1>>], kept})
  IN  least[<<Len(old), Len(new)>>]
(* No other edits are fewer: "Returns the optimal edits to go from 'left' to  *)
(* 'right'.  All edits cost the same, with replace having lower priority than *)
(* add/remove." (gtest-internal.h, CalculateOptimalEdits).                   *)
EditsOptimal ==
  input.is = "diff" =>
    LET edits == Diff!CalculateOptimalEdits(input.old, input.new)
    IN  Cardinality({k \in DOMAIN edits : edits[k] # "kMatch"}) = LeastEdits(input.old, input.new)

--------------------------------------------------------------------------------
(* Globs, filters and regular expressions *)
Pattern == INSTANCE Patterns WITH Letters <- {"a", "b"}

RECURSIVE Glob(_, _)
Glob(p, name) ==
  CASE p = <<>> -> name = <<>>
    [] p # <<>> /\ p[1] = "*" -> \E k \in 0 .. Len(name) : Glob(Tail(p), SubSeq(name, k + 1, Len(name)))
    [] OTHER -> name # <<>> /\ p[1] \in {"?", name[1]} /\ Glob(Tail(p), Tail(name))

(* The parts of a filter: between colons, before and after the first minus   *)
Parts(text) ==
  {SubSeq(text, b, e) : <<b, e>> \in
     {<<b, e>> \in (1 .. Len(text) + 1) \X (0 .. Len(text)) :
        /\ b = 1 \/ text[b - 1] = ":"
        /\ e = Len(text) \/ text[e + 1] = ":"
        /\ b <= e + 1 /\ \A k \in b .. e : text[k] # ":"}}
Selects(filter, name) ==
  LET minus == Run(filter, 1, {"a", "b", "*", "?", ":"}) + 1
      positive == SubSeq(filter, 1, minus - 1)
      negative == SubSeq(filter, minus + 1, Len(filter))
      Listed(parts) == \E p \in parts : Glob(p, name)
  IN  /\ (positive = <<>> /\ minus <= Len(filter)) \/ Listed(Parts(positive))
      /\ minus <= Len(filter) => ~ Listed(Parts(negative))

(* Regular expressions by the places of a text they can lead to *)
Once(atom, str, S) == {k + 1 : k \in {k \in S : k <= Len(str) /\ Pattern!AtomMatchesChar(atom, str[k])}}
Often(atom, str, S) ==
  {k \in 1 .. Len(str) + 1 : \E b \in S : b <= k /\ \A q \in b .. k - 1 : Pattern!AtomMatchesChar(atom, str[q])}
RECURSIVE Ends(_, _, _)
Ends(atoms, str, S) ==
  IF atoms = <<>> THEN S
  ELSE IF atoms[1] = [escaped |-> FALSE, c |-> "$"] THEN S \intersect {Len(str) + 1}
  ELSE LET repeat == IF Len(atoms) > 1 /\ ~ atoms[2].escaped THEN atoms[2].c ELSE "none"
           rest == IF repeat \in {"?", "*", "+"} THEN SubSeq(atoms, 3, Len(atoms)) ELSE Tail(atoms)
       IN  Ends(rest, str, CASE repeat = "?" -> S \union Once(atoms[1], str, S)
                             [] repeat = "*" -> Often(atoms[1], str, S)
                             [] repeat = "+" -> Often(atoms[1], str, Once(atoms[1], str, S))
                             [] OTHER -> Once(atoms[1], str, S))
EndsOf(regex, str, all) ==
  LET atoms == Pattern!Atoms(regex)
      anchored == atoms # <<>> /\ atoms[1] = [escaped |-> FALSE, c |-> "^"]
  IN  Ends(IF anchored THEN Tail(atoms) ELSE atoms, str,
           IF anchored \/ all THEN {1} ELSE 1 .. Len(str) + 1)
EscapedDollar(regex) == Last(Pattern!Atoms(regex)) = [escaped |-> TRUE, c |-> "$"]

PatternInputs ==
  {[is |-> "glob", pattern |-> p] : p \in SeqsUpTo({"a", "b", "*", "?"}, 4)}
    \union {[is |-> "filter", pattern |-> p] : p \in SeqsUpTo({"a", "*", "-", ":"}, 5)}
    \union {[is |-> "regex", pattern |-> p] :
              p \in {p \in SeqsUpTo({"a", ".", "*", "+", "?", "\\", "^", "$"}, 4) : Pattern!ValidateRegex(p)}}
Names == SeqsUpTo({"a", "b"}, 4)
Subjects == SeqsUpTo({"a", "."}, 3) \union {<<"\n">>, <<"a", "\n">>}

(* A glob and a filter select the names, and a simple regular expression     *)
(* accepts the texts, that their definitions say, though the matching of a    *)
(* glob returns to the last star only.  (A full match of an expression that   *)
(* ends in an escaped "$" is not anchored: RE::Init takes it for an anchor.)  *)
PatternsExact ==
  CASE input.is = "glob" ->
         \A name \in Names : Pattern!PatternMatchesString(name, input.pattern) <=> Glob(input.pattern, name)
    [] input.is = "filter" ->
         \A name \in SeqsUpTo({"a", "b"}, 3) \ {<<>>} : Pattern!FilterMatchesTest(input.pattern, name) <=> Selects(input.pattern, name)
    [] input.is = "regex" ->
         \A str \in Subjects :
           /\ Pattern!PartialMatch(str, input.pattern) <=> EndsOf(input.pattern, str, FALSE) # {}
           /\ input.pattern = <<>> \/ ~ EscapedDollar(input.pattern) =>
                (Pattern!FullMatch(str, input.pattern) <=> Len(str) + 1 \in EndsOf(input.pattern, str, TRUE))
    [] OTHER -> TRUE

--------------------------------------------------------------------------------
(* Floating-point numbers of six bits *)
Errors == {0, 1, 5, kInfinity}
(* How many numbers there are up to x, the two zeros being one *)
Rank(x) == Cardinality({Exact(y) : y \in {y \in AllBits : AtMost(y, x)}})
StepsApart(x, y) == LET m == Rank(x) n == Rank(y) IN IF m >= n THEN m - n ELSE n - m
FloatInputs == {[is |-> "float", x |-> x, steps |-> [y \in AllBits |-> StepsApart(x, y)]] : x \in AllBits}
Near(x, y, error) == DoubleNearPredFormat(x, y, error)
Advised(x) == {error \in Errors : \E y \in AllBits : Near(x, y, error) = "advised"}
(* EXPECT_NEAR() fails for two infinities, which the matcher takes as equal  *)
SameInfinity(x, y) == is_inf(x) /\ x = y

(* Two numbers are almost equal when at most four steps of representable      *)
(* numbers lie between them, of either sign and up to infinity; the           *)
(* assertions and the matchers agree about that and about EXPECT_NEAR(); and  *)
(* its advice that the bound is too small is true: it passes for no number    *)
(* that is as great and differs (gtest-internal.h, gtest.cc, gmock-matchers.h). *)
FloatsClose ==
  input.is = "float" =>
    LET x == input.x IN
    /\ \A y \in AllBits :
         LET nan == is_nan(x) \/ is_nan(y) IN
         /\ AlmostEquals(x, y) <=> ~ nan /\ input.steps[y] <= 4
         /\ FloatingPointLE(x, y) <=> ~ nan /\ (Exact(x) <= Exact(y) \/ input.steps[y] <= 4)
         /\ \A nan_eq_nan \in BOOLEAN : FloatingEq(x, y, nan_eq_nan, Negative(1)) <=>
              IF nan THEN nan_eq_nan /\ is_nan(x) /\ is_nan(y) ELSE input.steps[y] <= 4
         /\ \A error \in Errors :
              ~ nan /\ ~ SameInfinity(x, y) => (Near(x, y, error) = "passed" <=> FloatingEq(x, y, FALSE, error))
    /\ \A error \in Advised(x), z \in AllBits :
         AtMost(Fabs(x), Fabs(z)) /\ Exact(x) # Exact(z) => Near(x, z, error) # "passed"

--------------------------------------------------------------------------------
(* The command line.  What every argument and line means, by its manual:     *)
Argument(prefix, name, value) == [prefix |-> prefix, name |-> name, value |-> value]
Settings ==
  (Argument("--gtest_", "fail_fast", <<>>) :> <<"fail_fast", TRUE>>)
  @@ (Argument("--gtest_", "fail_fast", <<"0">>) :> <<"fail_fast", FALSE>>)
  @@ (Argument("--gtest_", "repeat", <<"3">>) :> <<"repeat", 3>>)
  @@ (Argument("--gtest_", "repeat", <<"">>) :> <<"repeat", 0>>)
  @@ (Argument("--gtest_", "filter", <<"a">>) :> <<"filter", "a">>)
  @@ (Argument("--gtest_", "flagfile", <<"lines">>) :> <<"flagfile", "lines">>)
  @@ (Argument("--gtest_", "flagfile", <<"absent">>) :> <<"flagfile", "absent">>)
  @@ (Argument("--gtest_", "internal_run_death_test", <<"x">>) :> <<"internal_run_death_test", "x">>)
  @@ (Argument("--gmock_", "verbose", <<"info">>) :> <<"verbose", "info">>)
  @@ (Argument("--gmock_", "catch_leaked_mocks", <<"0">>) :> <<"catch_leaked_mocks", FALSE>>)
  @@ (Argument("--gmock_", "default_mock_behavior", <<>>) :> <<"default_mock_behavior", 0>>)
Help ==
  {Argument("--", "help", <<>>), Argument("--gtest_", "repeat", <<"99">>), Argument("--gtest_", "repeat", <<"3x">>),
   Argument("--gtest_", "filter", <<>>), Argument("-gtest_", "filter", <<"a">>), Argument("--gtest_", "unknown", <<>>)}
Others ==
  {Argument("", "input", <<>>), Argument("--gmock_", "verbose", <<>>),
   Argument("-gtest_", "internal_run_death_test", <<"x">>)}
MCFiles ==
  "lines" :> <<Argument("--gtest_", "repeat", <<"5">>), Argument("", "", <<>>), Argument("--gtest_", "filter", <<"b">>)>>
  @@ "nested" :> <<Argument("--gtest_", "flagfile", <<"lines">>)>>
FlagFiles == {Argument("--gtest_", "flagfile", <<"nested">>)}
Flag == INSTANCE Flags WITH
  BoolFlags <- {"fail_fast", "list_tests"}, IntFlags <- {"repeat"},
  StringFlags <- {"filter", "flagfile", "output", "internal_run_death_test"},
  MockBoolFlags <- {"catch_leaked_mocks"}, MockIntFlags <- {"default_mock_behavior"}, MockStringFlags <- {"verbose"},
  Strtol <- [s \in {"", "3", "3x", "5", "99"} |->
               [all |-> s # "3x", value |-> CASE s = "" -> 0 [] s = "5" -> 5 [] s = "99" -> 99 [] OTHER -> 3]],
  IntMax <- 10, LongMax <- 100, Falsy <- {"0"}, Files <- MCFiles,
  Default <- [flag \in {"fail_fast", "list_tests", "repeat", "filter", "flagfile", "output", "internal_run_death_test",
                        "catch_leaked_mocks", "default_mock_behavior", "verbose"} |->
                CASE flag \in {"fail_fast", "list_tests"} -> FALSE [] flag = "repeat" -> 1
                  [] flag = "catch_leaked_mocks" -> TRUE [] flag = "default_mock_behavior" -> 1
                  [] flag = "verbose" -> "warning" [] flag = "filter" -> "*" [] OTHER -> ""]

(* The environments, and what they make of the flags *)
Variables == {"fail_fast", "list_tests", "repeat", "filter", "flagfile", "output", "internal_run_death_test",
              "TESTBRIDGE_TEST_ONLY", "TESTBRIDGE_TEST_RUNNER_FAIL_FAST", "XML_OUTPUT_FILE"}
Without == [variable \in Variables |-> <<>>]
Defaults == [fail_fast |-> FALSE, list_tests |-> FALSE, repeat |-> 1, filter |-> "*", flagfile |-> "", output |-> "",
             internal_run_death_test |-> "", catch_leaked_mocks |-> TRUE, default_mock_behavior |-> 1,
             verbose |-> "warning"]
Environments ==
  (Without :> Defaults)
  @@ ([Without EXCEPT !["repeat"] = <<"5">>, !["fail_fast"] = <<"0">>, !["filter"] = <<"e">>,
                      !["TESTBRIDGE_TEST_ONLY"] = <<"t">>, !["TESTBRIDGE_TEST_RUNNER_FAIL_FAST"] = <<"1">>]
        :> [Defaults EXCEPT !.repeat = 5, !.filter = "e"])
  @@ ([Without EXCEPT !["repeat"] = <<"99">>, !["list_tests"] = <<"1">>, !["TESTBRIDGE_TEST_ONLY"] = <<"t">>,
                      !["TESTBRIDGE_TEST_RUNNER_FAIL_FAST"] = <<"1">>, !["XML_OUTPUT_FILE"] = <<"f">>]
        :> [Defaults EXCEPT !.filter = "t", !.fail_fast = TRUE, !.output = "xml:f"])

FlagInputs ==
  {[is |-> "flags", args |-> args, env |-> env] :
     args \in {<<>>} \union {<<Argument("", "program", <<>>)>> \o a :
                               a \in SeqsUpTo(DOMAIN Settings \union Help \union Others \union FlagFiles, 3)},
     env \in DOMAIN Environments}
OpensFile(arg) == arg.prefix = "--gtest_" /\ arg.name = "flagfile" /\ arg.value # <<>>
(* The settings in their order, the lines of a flag file after its name *)
SaidBy(args) ==
  FlattenSeq([k \in DOMAIN args |->
                IF OpensFile(args[k]) /\ args[k].value[1] \in DOMAIN MCFiles
                  THEN <<args[k]>> \o SelectSeq(MCFiles[args[k].value[1]], LAMBDA line : ~ OpensFile(line))
                  ELSE <<args[k]>>])
Setting(arg) == IF OpensFile(arg) THEN <<"flagfile", arg.value[1]>>
                ELSE IF arg = Argument("--gtest_", "repeat", <<"5">>) THEN <<"repeat", 5>>
                ELSE IF arg = Argument("--gtest_", "filter", <<"b">>) THEN <<"filter", "b">>
                ELSE IF arg \in DOMAIN Settings THEN Settings[arg] ELSE <<"none">>

(* A flag has the value that was said last, on the command line or in a file  *)
(* of flags at its place, or else that of its environment variable, of what   *)
(* Bazel says, or its default; what was no flag is left in argv in its order, *)
(* with the NULL at its end; a flag of googletest that is none, or without a  *)
(* value that fits, shows the help; and a second initialization changes       *)
(* nothing (InitGoogleTestImpl, ParseGoogleTestFlagsOnlyImpl,                 *)
(* InitGoogleMockImpl, Int32FromGTestEnv and the rest).                      *)
FlagsParsed ==
  input.is = "flags" =>
    LET args == input.args
        t == Flag!InitGoogleMock(Flag!Started(args, input.env))
        absent == {k \in DOMAIN args : OpensFile(args[k]) /\ args[k].value[1] \notin DOMAIN MCFiles}
        IsSetting(arg) == arg \in DOMAIN Settings \union FlagFiles
        said == SaidBy(args)
        Latest(flag) == {k \in DOMAIN said : Setting(said[k])[1] = flag
                         /\ \A j \in k + 1 .. Len(said) : Setting(said[j])[1] # flag}
    IN  /\ t.died <=> absent # {}
        /\ ~ t.died =>
             /\ SubSeq(t.argv, 1, t.argc) = SelectSeq(args, LAMBDA arg : ~ IsSetting(arg))
             /\ t.argv[t.argc + 1] = Flag!NULL /\ t.g_argvs = args
             /\ \A flag \in DOMAIN Defaults :
                  IF Latest(flag) = {} THEN t.flags[flag] = Environments[input.env][flag]
                  ELSE \A k \in Latest(flag) : t.flags[flag] = Setting(said[k])[2]
             /\ t.g_help_flag <=> \E k \in 2 .. Len(args) : args[k] \in Help \union FlagFiles
             /\ Flag!InitGoogleMock(t) = t

--------------------------------------------------------------------------------
(* Factorial() is checked on ints of four bits: 3! is the last factorial that *)
(* fits.                                                                     *)
MCIntMin == -8

--------------------------------------------------------------------------------
NoMatrix == size = <<0, 0>> /\ Init
(* No call of Factorial() *)
NoCall == fact_n = 0 /\ fact_i = 1 /\ fact_result = 1 /\ fact_pc = "done"

(* The inputs by their kind; an input is chosen in the first step *)
InputsOf(kind) ==
  CASE kind = "results"   -> {[is |-> "results", of |-> p] : p \in Told!ReportInputs}
    [] kind = "text"      -> TextInputs
    [] kind = "number"    -> FloatInputs
    [] kind = "pattern"   -> PatternInputs
    [] kind = "matcher"   -> MatcherInputs
    [] kind = "flag"      -> FlagInputs
    [] kind = "value"     -> ValueInputs
    [] kind = "difference" -> DiffInputs
    [] kind = "literal"   -> LiteralInputs
InputKinds == {"results", "text", "number", "pattern", "matcher", "flag", "value", "difference", "literal"}

MCInit ==
  \/ input = [is |-> "matrix"] /\ Init /\ NoCall
  \/ input = [is |-> "factorial"] /\ NoMatrix /\ FactorialInit
  \/ input \in [is : {"any"}, kind : InputKinds] /\ NoMatrix /\ NoCall

Choose == input.is = "any" /\ input' \in InputsOf(input.kind) /\ UNCHANGED <<vars, fact_vars>>

MCNext ==
  \/ Choose
  \/ Next /\ UNCHANGED <<input, fact_vars>>
  \/ FactorialNext /\ UNCHANGED <<vars, input>>

MCSpec == MCInit /\ [][MCNext]_<<vars, input, fact_vars>>
================================================================================
