-------------------------------- MODULE Patterns --------------------------------
(***************************************************************************)
(* The patterns of googletest: the globs and filters of --gtest_filter       *)
(* (gtest.cc), and the simple regular expressions of the platforms without   *)
(* POSIX ones (gtest-port.cc).  A text is a sequence of characters, which    *)
(* are strings of one character.                                             *)
(***************************************************************************)
EXTENDS Integers, Sequences, FiniteSets, SequencesExt

CONSTANT Letters        \* the letters of the texts

--------------------------------------------------------------------------------
(* PatternMatchesString: where to go on from is kept for the last "*" only.   *)
(* A slip: the restart moves on by two characters.                           *)
RestartTwoAfter(n) == n + 2
RestartAfter(n) == n + 1

(* Where a turn of the loop finds itself; name_next is 1 before the first "*" *)
Places(name, pattern) ==
  [n : 1 .. Len(name) + 1, p : 1 .. Len(pattern) + 1, name_next : Nat, pattern_next : 1 .. Len(pattern) + 1]
Start == [n |-> 1, p |-> 1, name_next |-> 1, pattern_next |-> 1]

AtEnd(name, pattern, at) == at.n > Len(name) /\ at.p > Len(pattern)
AtStar(pattern, at) == at.p <= Len(pattern) /\ pattern[at.p] = "*"
Fits(name, pattern, at) ==
  at.n <= Len(name) /\ at.p <= Len(pattern) /\ pattern[at.p] \in {"?", name[at.n]}
Restarts(name, at) == 1 < at.name_next /\ at.name_next <= Len(name) + 1
GlobTurn(name, pattern, at) ==
  IF AtStar(pattern, at)
  THEN [at EXCEPT !.p = @ + 1, !.name_next = RestartAfter(at.n), !.pattern_next = at.p]
  ELSE IF Fits(name, pattern, at) THEN [at EXCEPT !.n = @ + 1, !.p = @ + 1]
  ELSE [at EXCEPT !.n = at.name_next, !.p = at.pattern_next]

PatternMatchesString(name, pattern) ==
  LET matches[at \in Places(name, pattern)] ==
        \/ AtEnd(name, pattern, at)
        \/ /\ AtStar(pattern, at) \/ Fits(name, pattern, at) \/ Restarts(name, at)
           /\ matches[GlobTurn(name, pattern, at)]
  IN  matches[Start]

(* SplitString: always one part at least *)
Delimiters(text, delimiter, pos) == {i \in pos .. Len(text) : text[i] = delimiter}
SplitString(text, delimiter) ==
  LET parsed[pos \in 1 .. Len(text) + 1] ==
        IF Delimiters(text, delimiter, pos) = {} THEN <<SubSeq(text, pos, Len(text))>>
        ELSE LET colon == Min(Delimiters(text, delimiter, pos))
             IN  <<SubSeq(text, pos, colon - 1)>> \o parsed[colon + 1]
  IN  parsed[1]

IsGlobPattern(pattern) == \E i \in DOMAIN pattern : pattern[i] \in {"?", "*"}

(* UnitTestFilter: patterns without a wildcard are looked up, the others tried *)
UnitTestFilter(filter) ==
  LET all_patterns == ToSet(SplitString(filter, ":"))
  IN  [glob_patterns |-> {p \in all_patterns : IsGlobPattern(p)},
       exact_match_patterns |-> {p \in all_patterns : ~ IsGlobPattern(p)}]
NoFilter == [glob_patterns |-> {}, exact_match_patterns |-> {}]
MatchesName(filter, name) ==
  \/ name \in filter.exact_match_patterns
  \/ \E p \in filter.glob_patterns : PatternMatchesString(name, p)

(* PositiveAndNegativeUnitTestFilter: what follows the first "-" is negative; *)
(* no positive patterns before it means all names.                           *)
JoinedFrom2(parts) ==
  LET negative_filter_string[i \in 2 .. Len(parts)] ==
        IF i = 2 THEN parts[2] ELSE negative_filter_string[i - 1] \o <<"-">> \o parts[i]
  IN  negative_filter_string[Len(parts)]
PositiveAndNegative(filter) ==
  LET parts == SplitString(filter, "-")
  IN  IF Len(parts) = 1 THEN [positive |-> UnitTestFilter(filter), negative |-> NoFilter]
      ELSE [positive |-> UnitTestFilter(IF parts[1] = <<>> THEN <<"*">> ELSE parts[1]),
            negative |-> UnitTestFilter(JoinedFrom2(parts))]
FilterMatchesTest(filter, name) ==
  LET both == PositiveAndNegative(filter)
  IN  MatchesName(both.positive, name) /\ ~ MatchesName(both.negative, name)

--------------------------------------------------------------------------------
(* Simple regular expressions *)
Digits == {"0", "1", "2", "3", "4", "5", "6", "7", "8", "9"}
Punctuation ==
  {"^", "-", "!", "\"", "#", "$", "%", "&", "'", "(", ")", "*", "+", ",", ".", "/", ":", ";",
   "<", "=", ">", "?", "@", "[", "\\", "]", "_", "grave", "{", "|", "}", "~"}
WhiteSpace == {" ", "\f", "\n", "\r", "\t", "VT"}
WordChars == Letters \union Digits \union {"_"}
IsRepeat(c) == c \in {"?", "*", "+"}
IsValidEscape(c) ==
  c \in Punctuation \union {"d", "D", "f", "n", "r", "s", "S", "t", "v", "w", "W"}

(* The atoms of a pattern; a backslash at the end escapes the end            *)
Atoms(regex) ==
  LET atoms[i \in 1 .. Len(regex) + 1] ==
        IF i > Len(regex) THEN <<>>
        ELSE IF regex[i] # "\\" THEN <<[escaped |-> FALSE, c |-> regex[i]]>> \o atoms[i + 1]
        ELSE IF i = Len(regex) THEN <<[escaped |-> TRUE, c |-> "end"]>>
        ELSE <<[escaped |-> TRUE, c |-> regex[i + 1]]>> \o atoms[i + 2]
  IN  atoms[1]

Plain(atom, c) == ~ atom.escaped /\ atom.c = c
Repeated(atoms, a) == a < Len(atoms) /\ ~ atoms[a + 1].escaped /\ IsRepeat(atoms[a + 1].c)

AtomMatchesChar(atom, ch) ==
  IF ~ atom.escaped THEN (atom.c = "." /\ ch # "\n") \/ atom.c = ch
  ELSE CASE atom.c = "d" -> ch \in Digits        [] atom.c = "D" -> ch \notin Digits
         [] atom.c = "s" -> ch \in WhiteSpace    [] atom.c = "S" -> ch \notin WhiteSpace
         [] atom.c = "w" -> ch \in WordChars     [] atom.c = "W" -> ch \notin WordChars
         [] atom.c = "f" -> ch = "\f" [] atom.c = "n" -> ch = "\n" [] atom.c = "r" -> ch = "\r"
         [] atom.c = "t" -> ch = "\t" [] atom.c = "v" -> ch = "VT"
         [] OTHER -> atom.c \in Punctuation /\ atom.c = ch

(* ValidateRegex *)
ValidAtoms(atoms) ==
  LET Repeatable(i) == i > 0 /\ (atoms[i].escaped \/ atoms[i].c \notin {"^", "$", "?", "*", "+"})
  IN  \A i \in DOMAIN atoms :
        LET c == atoms[i].c IN
        IF atoms[i].escaped THEN IsValidEscape(c)
        ELSE /\ c = "^" => i = 1
             /\ c = "$" => i = Len(atoms)
             /\ c \notin {"(", ")", "[", "]", "{", "}", "|"}
             /\ IsRepeat(c) => Repeatable(i - 1)
ValidateRegex(regex) == ValidAtoms(Atoms(regex))

(* How often an atom may match under a repetition, of a text this long *)
Repetitions(repeat, most) ==
  (IF repeat = "+" THEN 1 ELSE 0) .. (IF repeat = "?" THEN 1 ELSE most)

(* From the place s of the text; rest are the places the rest matches from *)
MatchRepetitionAndRegexAtHead(atom, repeat, str, s, rest) ==
  \E i \in Repetitions(repeat, Len(str)) \intersect (0 .. Len(str) + 1 - s) :
    /\ \A k \in s .. s + i - 1 : AtomMatchesChar(atom, str[k])
    /\ s + i \in rest
(* matches: the places of the text that the expression matches from the atom on *)
MatchRegexAtHead(atoms, str) ==
  LET matches[a \in 1 .. Len(atoms) + 1] ==
        {s \in 1 .. Len(str) + 1 :
           IF a > Len(atoms) THEN TRUE
           ELSE IF Plain(atoms[a], "$") THEN s = Len(str) + 1
           ELSE IF Repeated(atoms, a)
           THEN MatchRepetitionAndRegexAtHead(atoms[a], atoms[a + 1].c, str, s, matches[a + 2])
           ELSE s <= Len(str) /\ AtomMatchesChar(atoms[a], str[s]) /\ s + 1 \in matches[a + 1]}
  IN  1 \in matches[1]

MatchRegexAnywhere(atoms, str) ==
  IF atoms # <<>> /\ Plain(atoms[1], "^") THEN MatchRegexAtHead(Tail(atoms), str)
  ELSE \E i \in 1 .. Len(str) + 1 : MatchRegexAtHead(atoms, SubSeq(str, i, Len(str)))

(* RE::Init: an anchor is added unless the pattern has its character there   *)
FullPattern(regex) ==
  (IF regex = <<>> \/ regex[1] # "^" THEN <<"^">> ELSE <<>>) \o regex
  \o (IF regex = <<>> \/ Last(regex) # "$" THEN <<"$">> ELSE <<>>)
PartialMatch(str, regex) == ValidateRegex(regex) /\ MatchRegexAnywhere(Atoms(regex), str)
FullMatch(str, regex) == ValidateRegex(regex) /\ MatchRegexAnywhere(Atoms(FullPattern(regex)), str)
================================================================================
