------------------------------- MODULE Matchers --------------------------------
(***************************************************************************)
(* The matchers of gmock-matchers.h: what each accepts, with a listener that *)
(* is interested in an explanation and without, which element it names in    *)
(* the explanation, and what its two descriptions say.                       *)
(*                                                                          *)
(* A matcher is a record; its field is names the class.  A value is a number, *)
(* or a tuple: of the elements of a container, the fields of a pair or       *)
(* struct, the pointee of a pointer or the value of an optional (no element   *)
(* when it is null or disengaged), the type and value of a variant.  Text is *)
(* not built: a description is the condition it states.                      *)
(***************************************************************************)
EXTENDS Integers, Sequences, FiniteSets, SequencesExt

CONSTANT Fold(_)      \* tolower, of a character

(* An outcome: the verdict, and the element or field the explanation names *)
Nothing == 0
Verdict(ok) == [ok |-> ok, named |-> Nothing]
Naming(ok, i) == [ok |-> ok, named |-> i]

(* std::equal_to and the like, for Eq(v) and, on a pair, Eq() *)
Compare(op, a, b) ==
  CASE op = "==" -> a = b [] op = "!=" -> a # b [] op = "<" -> a < b
    [] op = ">" -> a > b [] op = "<=" -> a <= b [] op = ">=" -> a >= b

OpNegated == [o \in {"==", "!=", "<", ">", "<=", ">="} |->
  CASE o = "==" -> "!=" [] o = "!=" -> "==" [] o = "<" -> ">="
    [] o = ">" -> "<=" [] o = "<=" -> ">" [] o = ">=" -> "<"]

(* The part of x that a matcher hands to its inner matcher, as a sequence:   *)
(* empty when there is none and the verdict is false.                        *)
PointeePart(x)       == x                  \* *pointer, unless it is null
PointerPart(x)       == <<x>>              \* the raw pointer
FieldPart(m, x)      == IF x = <<>> THEN <<>> ELSE <<x[m.field]>>
PropertyPart(m, x)   == IF x = <<>> THEN <<>> ELSE <<x[m.property]>>
ResultOfPart(m, x)   == <<m.callable[x]>>
SizeIsPart(x)        == <<Len(x)>>         \* container.size()
DistancePart(x)      == <<Len(x)>>         \* std::distance(begin, end)
KeyPart(x)           == <<x[1]>>
AddressPart(x)       == <<x[1]>>           \* an object: its address, its value
OptionalPart(x)      == x
VariantPart(m, x)    == IF x[1] = m.type THEN <<x[2]>> ELSE <<>>
AnyCastPart(m, x)    == IF x # <<>> /\ x[1] = m.type THEN <<x[2]>> ELSE <<>>
DynamicRefPart(m, x) == IF x[1] = m.type THEN <<x[2]>> ELSE <<>>
(* a pointer that cannot be cast becomes null, and is matched all the same *)
DynamicPtrPart(m, x) == <<IF x # <<>> /\ x[1] = m.type THEN <<x[2]>> ELSE <<>>>>
ArgsPart(m, x)       == <<[i \in DOMAIN m.k |-> x[m.k[i]]]>>
BoundSecondPart(m, x) == <<<<x, m.second>>>>
SortedPart(m, x)     == <<SortSeq(x, LAMBDA a, b : Compare(m.op, a, b))>>
(* what a call throws: its type and what(), or nothing *)
ThrowsPart(m, x)     == IF x # <<>> /\ x[1] = m.type THEN <<x[2]>> ELSE <<>>

Part(m, x) ==
  CASE m.is = "Pointee"       -> PointeePart(x)
    [] m.is = "Pointer"       -> PointerPart(x)
    [] m.is = "Field"         -> FieldPart(m, x)
    [] m.is = "Property"      -> PropertyPart(m, x)
    [] m.is = "ResultOf"      -> ResultOfPart(m, x)
    [] m.is = "SizeIs"        -> SizeIsPart(x)
    [] m.is = "Distance"      -> DistancePart(x)
    [] m.is = "Key"           -> KeyPart(x)
    [] m.is = "Address"       -> AddressPart(x)
    [] m.is = "Optional"      -> OptionalPart(x)
    [] m.is = "VariantWith"   -> VariantPart(m, x)
    [] m.is = "AnyWith"       -> AnyCastPart(m, x)
    [] m.is = "WhenDynamicCastTo&" -> DynamicRefPart(m, x)
    [] m.is = "WhenDynamicCastTo*" -> DynamicPtrPart(m, x)
    [] m.is = "Args"          -> ArgsPart(m, x)
    [] m.is = "BoundSecond"   -> BoundSecondPart(m, x)
    [] m.is = "WhenSortedBy"  -> SortedPart(m, x)
    [] m.is = "Throws"        -> ThrowsPart(m, x)

Projections ==
  {"Pointee", "Pointer", "Field", "Property", "ResultOf", "SizeIs", "Distance",
   "Key", "Address", "Optional", "VariantWith", "AnyWith",
   "WhenDynamicCastTo&", "WhenDynamicCastTo*", "Args", "BoundSecond",
   "WhenSortedBy", "Throws"}

RECURSIVE MatchAndExplain(_, _, _)

(* Matcher::Matches: with a listener that is not interested *)
Matches(m, x) == MatchAndExplain(m, x, FALSE).ok

(* MatchPrintAndExplain: the inner explanation goes to a listener of its own *)
MatchPrintAndExplain(m, x, interested) ==
  IF interested THEN MatchAndExplain(m, x, TRUE).ok ELSE Matches(m, x)

Projection(m, x, interested) ==
  Verdict(\E i \in DOMAIN Part(m, x) :
            MatchPrintAndExplain(m.inner, Part(m, x)[i], interested))

First(set) == CHOOSE i \in set : \A j \in set : i <= j

(* AllOf() stops at the first that fails, AnyOf() at the first that holds;   *)
(* each inner matcher explains to a listener of its own.                     *)
AllOfMatcher(m, x) ==
  Verdict(\A i \in DOMAIN m.inners : MatchAndExplain(m.inners[i], x, TRUE).ok)

AnyOfMatcher(m, x) ==
  Verdict(\E i \in DOMAIN m.inners : MatchAndExplain(m.inners[i], x, TRUE).ok)

(* If(condition, m1, m2) is settled when the matcher is made *)
ConditionalMatcher(m, x, interested) ==
  MatchAndExplain(IF m.condition THEN m.yes ELSE m.no, x, interested)

(* Pair(): both fields at once, or one after the other to explain *)
PairMatcher(m, x, interested) ==
  IF ~ interested
    THEN Verdict(Matches(m.inners[1], x[1]) /\ Matches(m.inners[2], x[2]))
    ELSE LET failed == {i \in 1 .. 2 : ~ MatchAndExplain(m.inners[i], x[i], TRUE).ok}
         IN IF failed = {} THEN Verdict(TRUE) ELSE Naming(FALSE, First(failed))

(* FieldsAre(): failed_pos is the first field that does not match *)
FieldsAreMatcher(m, x, interested) ==
  LET failed == {i \in DOMAIN x : ~ MatchAndExplain(m.inners[i], x[i], interested).ok}
  IN IF ~ interested \/ failed = {} THEN Verdict(failed = {})
     ELSE Naming(FALSE, First(failed))

(* ElementsAre(): the loop stops at the first mismatch, exam_pos, or when    *)
(* elements or matchers run out; then the elements left are counted.  A      *)
(* wrong size is explained before a mismatch is.                             *)
ExamPos(m, x, interested) ==
  LET shorter == IF Len(x) < Len(m.inners) THEN Len(x) ELSE Len(m.inners)
      mismatch == {i \in 1 .. shorter :
                     ~ MatchAndExplain(m.inners[i], x[i], interested).ok}
  IN IF mismatch = {} THEN shorter + 1 ELSE First(mismatch)

ElementsAreMatcher(m, x, interested) ==
  LET exam_pos == ExamPos(m, x, interested)
      actual_count == (exam_pos - 1) + (Len(x) - (exam_pos - 1))
      mismatch_found == exam_pos <= Len(x) /\ exam_pos <= Len(m.inners)
  IN IF actual_count # Len(m.inners) THEN Verdict(FALSE)
     ELSE IF mismatch_found
            THEN IF interested THEN Naming(FALSE, exam_pos) ELSE Verdict(FALSE)
            ELSE Verdict(TRUE)

(* Pointwise(): as many values on both sides, and each pair matches *)
PointwiseMatcher(m, x, interested) ==
  LET failed == {i \in DOMAIN x :
                   ~ MatchAndExplain(m.inner, <<x[i], m.rhs[i]>>, interested).ok}
  IN IF Len(x) # Len(m.rhs) THEN Verdict(FALSE)
     ELSE IF failed = {} THEN Verdict(TRUE)
     ELSE IF interested THEN Naming(FALSE, First(failed)) ELSE Verdict(FALSE)

(* Contains() and Each(): the first element that settles the question, by    *)
(* matching for the one and by not matching for the other.                   *)
Quantifier(m, all_elements_should_match, x) ==
  LET settling == {i \in DOMAIN x : MatchAndExplain(m.inner, x[i], TRUE).ok
                                      # all_elements_should_match}
  IN IF settling = {} THEN Verdict(all_elements_should_match)
     ELSE Naming(~ all_elements_should_match, First(settling))

(* Contains().Times(): the number of elements that match is matched *)
ContainsTimes(m, x) ==
  LET match_elements == {i \in DOMAIN x : MatchAndExplain(m.inner, x[i], TRUE).ok}
  IN Verdict(MatchAndExplain(m.count, Cardinality(match_elements), TRUE).ok)

(* ContainerEq(): equality, whatever the explanation lists as missing *)
ContainerEqMatcher(m, x) == Verdict(x = m.expected)

--------------------------------------------------------------------------------
(* UnorderedElementsAre(), IsSupersetOf(), IsSubsetOf() *)

Requires(m, flag) == flag \in m.flags
ExactMatch == {"Superset", "Subset"}

(* AnalyzeElements: the matrix, filled without listening to explanations *)
AnalyzeElements(m, x) ==
  {p \in (DOMAIN x) \X (DOMAIN m.inners) : Matches(m.inners[p[2]], x[p[1]])}

(* VerifyMatchMatrix: sizes, then that nothing is left without any edge *)
VerifyMatchMatrix(m, x, matrix) ==
  \/ x = <<>> /\ m.inners = <<>>
  \/ /\ m.flags = ExactMatch => Len(x) = Len(m.inners)
     /\ Requires(m, "Superset") =>
          \A r \in DOMAIN m.inners : \E l \in DOMAIN x : <<l, r>> \in matrix
     /\ Requires(m, "Subset") =>
          \A l \in DOMAIN x : \E r \in DOMAIN m.inners : <<l, r>> \in matrix

(* FindMaxBipartiteMatching: what BipartiteMatching shows of its size *)
MaxFlow(matrix) ==
  LET Pairing(s) == \A p, q \in s : p # q => p[1] # q[1] /\ p[2] # q[2]
      sizes == {Cardinality(s) : s \in {s \in SUBSET matrix : Pairing(s)}}
  IN CHOOSE n \in sizes : \A k \in sizes : k <= n

(* FindPairing: the pairing must cover the side that is required *)
FindPairing(m, x, matrix) ==
  /\ Requires(m, "Superset") => MaxFlow(matrix) >= Len(m.inners)
  /\ Requires(m, "Subset") => MaxFlow(matrix) >= Len(x)

UnorderedElementsAreMatcher(m, x) ==
  LET matrix == AnalyzeElements(m, x)
  IN Verdict(VerifyMatchMatrix(m, x, matrix) /\ FindPairing(m, x, matrix))

--------------------------------------------------------------------------------
(* Strings: sequences of characters, of which 0 is NUL *)

NUL == 0

FirstNul(s) == {i \in DOMAIN s : s[i] = NUL /\ \A j \in 1 .. i - 1 : s[j] # NUL}
CString(s) == IF FirstNul(s) = {} THEN s ELSE SubSeq(s, 1, First(FirstNul(s)) - 1)

(* String::CaseInsensitiveCStringEquals sees a string up to its first NUL *)
CaseInsensitiveCStringEquals(s, t) ==
  LET a == CString(s) b == CString(t)
  IN Len(a) = Len(b) /\ \A i \in DOMAIN a : Fold(a[i]) = Fold(b[i])

(* A std::string may hold NULs: what follows each is compared in turn *)
RECURSIVE CaseInsensitiveStringEquals(_, _)
CaseInsensitiveStringEquals(s, t) ==
  /\ CaseInsensitiveCStringEquals(s, t)
  /\ IF FirstNul(s) = {} \/ FirstNul(t) = {} THEN FirstNul(s) = FirstNul(t)
     ELSE CaseInsensitiveStringEquals(SubSeq(s, First(FirstNul(s)) + 1, Len(s)),
                                      SubSeq(t, First(FirstNul(t)) + 1, Len(t)))

(* StrEq(), StrNe(), StrCaseEq() and StrCaseNe(), of a char* that may be null *)
StrEqualityMatcher(m, x) ==
  Verdict(IF x = <<>> THEN ~ m.expect_eq
          ELSE m.expect_eq = IF m.case_sensitive THEN x[1] = m.string
                             ELSE CaseInsensitiveStringEquals(x[1], m.string))

HasSubstrMatcher(m, x) ==
  Verdict(\E i \in 1 .. Len(x) - Len(m.substring) + 1 :
            SubSeq(x, i, i + Len(m.substring) - 1) = m.substring)

StartsWithMatcher(m, x) ==
  Verdict(Len(x) >= Len(m.prefix) /\ SubSeq(x, 1, Len(m.prefix)) = m.prefix)

EndsWithMatcher(m, x) ==
  Verdict(/\ Len(x) >= Len(m.suffix)
          /\ SubSeq(x, Len(x) - Len(m.suffix) + 1, Len(x)) = m.suffix)

--------------------------------------------------------------------------------
AnythingMatcher(x)  == Verdict(TRUE)
IsNullMatcher(x)    == Verdict(x = <<>>)
NotNullMatcher(x)   == Verdict(x # <<>>)
RefMatcher(m, x)    == Verdict(x[1] = m.object)      \* compares addresses
TrulyMatcher(m, x)  == Verdict(x \in m.predicate)
ComparisonMatcher(m, x) == Verdict(Compare(m.op, x, m.rhs))
PairMatchBase(m, x) == Verdict(Compare(m.op, x[1], x[2]))
(* Not() passes its listener on, and turns the verdict round *)
NotMatcher(m, x, interested) ==
  [MatchAndExplain(m.inner, x, interested) EXCEPT !.ok = ~ @]

MatchAndExplain(m, x, interested) ==
  CASE m.is = "_"            -> AnythingMatcher(x)
    [] m.is = "IsNull"       -> IsNullMatcher(x)
    [] m.is = "NotNull"      -> NotNullMatcher(x)
    [] m.is = "Ref"          -> RefMatcher(m, x)
    [] m.is = "Truly"        -> TrulyMatcher(m, x)
    [] m.is = "Comparison"   -> ComparisonMatcher(m, x)
    [] m.is = "PairMatch"    -> PairMatchBase(m, x)
    [] m.is = "Not"          -> NotMatcher(m, x, interested)
    [] m.is = "AllOf"        -> AllOfMatcher(m, x)
    [] m.is = "AnyOf"        -> AnyOfMatcher(m, x)
    [] m.is = "Conditional"  -> ConditionalMatcher(m, x, interested)
    [] m.is = "Pair"         -> PairMatcher(m, x, interested)
    [] m.is = "FieldsAre"    -> FieldsAreMatcher(m, x, interested)
    [] m.is = "ElementsAre"  -> ElementsAreMatcher(m, x, interested)
    [] m.is = "Pointwise"    -> PointwiseMatcher(m, x, interested)
    [] m.is = "Contains"     -> Quantifier(m, FALSE, x)
    [] m.is = "Each"         -> Quantifier(m, TRUE, x)
    [] m.is = "Times"        -> ContainsTimes(m, x)
    [] m.is = "ContainerEq"  -> ContainerEqMatcher(m, x)
    [] m.is = "Unordered"    -> UnorderedElementsAreMatcher(m, x)
    [] m.is = "StrEq"        -> StrEqualityMatcher(m, x)
    [] m.is = "HasSubstr"    -> HasSubstrMatcher(m, x)
    [] m.is = "StartsWith"   -> StartsWithMatcher(m, x)
    [] m.is = "EndsWith"     -> EndsWithMatcher(m, x)
    [] m.is \in Projections  -> Projection(m, x, interested)

(* EXPECT_THAT(x, m): matched without a listener; when that fails, once more *)
(* with one.  The outcome: passed, and what is explained.                    *)
ExpectThat(m, x) ==
  IF Matches(m, x) THEN Naming(TRUE, Nothing)
  ELSE Naming(FALSE, MatchAndExplain(m, x, TRUE).named)

(* The arguments of a call: all must match, and a mismatch names each that   *)
(* does not.                                                                 *)
TupleMatches(ms, xs) == \A i \in DOMAIN ms : Matches(ms[i], xs[i])
ExplainMatchFailures(ms, xs) ==
  {i \in DOMAIN ms : ~ MatchAndExplain(ms[i], xs[i], TRUE).ok}

--------------------------------------------------------------------------------
(* The functions that make matchers of matchers *)

ElementsAreArray(ms)     == [is |-> "ElementsAre", inners |-> ms]
UnorderedElementsAreArray(ms) == [is |-> "Unordered", flags |-> ExactMatch, inners |-> ms]
IsSupersetOf(ms)         == [is |-> "Unordered", flags |-> {"Superset"}, inners |-> ms]
IsSubsetOf(ms)           == [is |-> "Unordered", flags |-> {"Subset"}, inners |-> ms]
AllOfArray(ms)           == [is |-> "AllOf", inners |-> ms]
AnyOfArray(ms)           == [is |-> "AnyOf", inners |-> ms]
BindSecond(tm, v)        == [is |-> "BoundSecond", second |-> v, inner |-> tm]
PointwiseOf(tm, rhs)       == [is |-> "Pointwise", inner |-> tm, rhs |-> rhs]
(* one matcher for each value on the right, in any order *)
UnorderedPointwise(tm, rhs) ==
  UnorderedElementsAreArray([i \in DOMAIN rhs |-> BindSecond(tm, rhs[i])])

--------------------------------------------------------------------------------
(* What the descriptions say of x: DescribeTo, and DescribeNegationTo when    *)
(* negated.  The failure of EXPECT_THAT(x, m) prints the first, and that of   *)
(* EXPECT_THAT(x, Not(m)) the second.                                         *)

RECURSIVE Says(_, _, _)

(* "has a field that ..." keeps its verb and negates the inner description;   *)
(* "does not point to a value that ..." negates as a whole.                   *)
NegatesInside ==
  {"Field", "Property", "ResultOf", "SizeIs", "Distance", "Optional", "Args",
   "WhenDynamicCastTo&", "WhenDynamicCastTo*", "WhenSortedBy", "Throws"}
NegatesOutside == {"Pointee", "Pointer", "Key", "Address", "BoundSecond"}
NegatesBoth == {"VariantWith", "AnyWith"}   \* another type, or a value that isn't

DescribeProjection(m, negated, x) ==
  LET SaysOf(n) == \E i \in DOMAIN Part(m, x) : Says(m.inner, n, Part(m, x)[i])
  IN \/ m.is \in NegatesInside /\ SaysOf(negated)
     \/ m.is \in NegatesOutside /\ (SaysOf(FALSE) # negated)
     \/ m.is \in NegatesBoth /\ (SaysOf(negated) \/ (negated /\ Part(m, x) = <<>>))

(* each part matches; negated: some part doesn't *)
DescribeParts(inners, negated, parts) ==
  IF negated THEN \E i \in DOMAIN inners : Says(inners[i], TRUE, parts[i])
  ELSE \A i \in DOMAIN inners : Says(inners[i], FALSE, parts[i])

(* A slip: the negation of AllOf() joins its parts with "and" *)
DescribeAllOfWithAnd(m, negated, x) ==
  \A i \in DOMAIN m.inners : Says(m.inners[i], negated, x)

DescribeAllOf(m, negated, x) ==
  DescribeParts(m.inners, negated, [i \in DOMAIN m.inners |-> x])

DescribeAnyOf(m, negated, x) ==
  IF negated THEN \A i \in DOMAIN m.inners : Says(m.inners[i], TRUE, x)
  ELSE \E i \in DOMAIN m.inners : Says(m.inners[i], FALSE, x)

(* "has n elements where element #0 ..., "; "doesn't have n elements, or ..." *)
DescribeElementsAre(m, negated, x) ==
  LET sized == Len(x) = Len(m.inners)
  IN IF negated THEN ~ sized \/ DescribeParts(m.inners, TRUE, x)
     ELSE sized /\ DescribeParts(m.inners, FALSE, x)

DescribePointwise(m, negated, x) ==
  LET sized == Len(x) = Len(m.rhs)
      pairs == [i \in DOMAIN x |-> <<x[i], m.rhs[i]>>]
      inners == [i \in DOMAIN x |-> m.inner]
  IN IF negated THEN ~ sized \/ DescribeParts(inners, TRUE, pairs)
     ELSE sized /\ DescribeParts(inners, FALSE, pairs)

DescribeContains(m, negated, x) ==
  (\E i \in DOMAIN x : Says(m.inner, FALSE, x[i])) # negated

DescribeEach(m, negated, x) ==
  DescribeParts([i \in DOMAIN x |-> m.inner], negated, x)

DescribeTimes(m, negated, x) ==
  Says(m.count, negated, Cardinality({i \in DOMAIN x : Says(m.inner, FALSE, x[i])}))

(* An assignment of elements to matchers exists: one to one; onto the         *)
(* matchers; or from every element.                                           *)
DescribeUnordered(m, negated, x) ==
  LET assigns(f) == \A r \in DOMAIN f : Says(m.inners[r], FALSE, x[f[r]])
      OneToOne(f) == \A r, s \in DOMAIN f : f[r] = f[s] => r = s
      exists == \E some \in SUBSET DOMAIN m.inners :
                  /\ Requires(m, "Superset") => some = DOMAIN m.inners
                  /\ Requires(m, "Subset") => Cardinality(some) = Len(x)
                  /\ \E f \in [some -> DOMAIN x] : OneToOne(f) /\ assigns(f)
  IN exists # negated

Says(m, negated, x) ==
  CASE m.is = "Comparison"   -> Compare(IF negated THEN OpNegated[m.op] ELSE m.op,
                                        x, m.rhs)
    [] m.is = "Not"          -> Says(m.inner, ~ negated, x)
    [] m.is = "AllOf"        -> DescribeAllOf(m, negated, x)
    [] m.is = "AnyOf"        -> DescribeAnyOf(m, negated, x)
    [] m.is = "Conditional"  -> Says(IF m.condition THEN m.yes ELSE m.no, negated, x)
    [] m.is \in {"Pair", "FieldsAre"} -> DescribeParts(m.inners, negated, x)
    [] m.is = "ElementsAre"  -> DescribeElementsAre(m, negated, x)
    [] m.is = "Pointwise"    -> DescribePointwise(m, negated, x)
    [] m.is = "Contains"     -> DescribeContains(m, negated, x)
    [] m.is = "Each"         -> DescribeEach(m, negated, x)
    [] m.is = "Times"        -> DescribeTimes(m, negated, x)
    [] m.is = "Unordered"    -> DescribeUnordered(m, negated, x)
    [] m.is \in Projections  -> DescribeProjection(m, negated, x)
    [] OTHER                 -> Matches(m, x) # negated  \* "is NULL", "isn't NULL"

--------------------------------------------------------------------------------
(* Properties of a matcher m and a value x *)

(* The value can be described: it has the part the matcher speaks of.  A     *)
(* disengaged optional, or a null pointer to an object, has no "value that    *)
(* isn't equal to 1".                                                        *)
Describable(m, x) == m.is \in NegatesInside => Part(m, x) # <<>>

(* The verdict does not depend on whether somebody listens: MatchAndExplain   *)
(* takes another way through PairMatcher, FieldsAre, ElementsAre, Pointwise   *)
(* and the printers when it must explain, and EXPECT_THAT runs both.          *)
SameWhenExplained(m, x) ==
  /\ MatchAndExplain(m, x, TRUE).ok = Matches(m, x)
  /\ ExpectThat(m, x).ok = Matches(m, x)
  /\ m.is = "FieldsAre" =>
       (TupleMatches(m.inners, x) <=> ExplainMatchFailures(m.inners, x) = {})

(* StrCaseEq() compares every character, before and after a NUL; a string has *)
(* another as a substring when it can be cut before and after it.             *)
StringsWhole(m, x) ==
  /\ m.is = "StrEq" /\ ~ m.case_sensitive /\ x # <<>> =>
       Matches(m, x) = (m.expect_eq =
         (/\ Len(x[1]) = Len(m.string)
          /\ \A i \in DOMAIN x[1] : Fold(x[1][i]) = Fold(m.string[i])))
  /\ m.is = "HasSubstr" =>
       (Matches(m, x) <=> \E i \in 0 .. Len(x) :
          Matches([is |-> "StartsWith", prefix |-> m.substring], SubSeq(x, i + 1, Len(x))))
  /\ m.is = "EndsWith" =>
       (Matches(m, x) <=> Matches([is |-> "StartsWith", prefix |-> Reverse(m.suffix)], Reverse(x)))

(* What a failure prints as expected is false of the value, and what it       *)
(* prints for a negated matcher that fails is false too.                      *)
DescribedTruly(m, x) ==
  Describable(m, x) => /\ Matches(m, x) <=> Says(m, FALSE, x)
                       /\ Matches(m, x) <=> ~ Says(m, TRUE, x)

(* The element an explanation names does not match, and is the first that     *)
(* does not.                                                                  *)
NamesFirstMismatch(m, x) ==
  LET named == MatchAndExplain(m, x, TRUE).named
      fails(i) == CASE m.is = "Pointwise" -> ~ Matches(m.inner, <<x[i], m.rhs[i]>>)
                    [] m.is \in {"Each", "Contains"} ->
                         Matches(m.inner, x[i]) = (m.is = "Contains")
                    [] m.is = "Not" -> TRUE
                    [] OTHER -> ~ Matches(m.inners[i], x[i])
  IN named # Nothing => fails(named) /\ (m.is # "Not" =>
                          \A i \in 1 .. named - 1 : ~ fails(i))
================================================================================
