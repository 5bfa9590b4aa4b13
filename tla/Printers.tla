-------------------------------- MODULE Printers --------------------------------
(***************************************************************************)
(* How googletest shows a value in a failure message: gtest-printers.h and   *)
(* gtest-printers.cc.  A value is a record whose field is names its kind of  *)
(* type; what is printed is a sequence of symbols: one-character strings     *)
(* inside literals, longer ones for what needs no taking apart.  Characters  *)
(* are codes; Glyph gives the symbols of the printable ones.                 *)
(***************************************************************************)
EXTENDS Integers, Sequences, FiniteSets, SequencesExt, TLC

CONSTANTS Glyph,                   \* [printable code -> symbol]
          kMaxCount,               \* elements of a container shown: 32 in the code
          kThreshold, kChunkSize,  \* for arrays: 18 and 8 in the code
          kBytes, kByteChunk       \* for the bytes of an object: 132 and 64

--------------------------------------------------------------------------------
(* Characters *)
Digit == <<"0", "1", "2", "3", "4", "5", "6", "7", "8", "9", "A", "B", "C", "D", "E", "F">>
RECURSIVE Hex(_)
Hex(n) == IF n < 16 THEN <<Digit[n + 1]>> ELSE Append(Hex(n \div 16), Digit[(n % 16) + 1])

SpecialEscapes ==
  [c \in {0, 7, 8, 9, 10, 11, 12, 13, 34, 39, 92} |->
     CASE c = 0 -> "0" [] c = 7 -> "a" [] c = 8 -> "b" [] c = 9 -> "t" [] c = 10 -> "n"
       [] c = 11 -> "v" [] c = 12 -> "f" [] c = 13 -> "r" [] c = 34 -> "\"" [] c = 39 -> "'"
       [] c = 92 -> "\\"]

IsPrintableAscii(c) == c \in 32 .. 126
CharFormat(c) ==
  IF c \in DOMAIN SpecialEscapes \ {34} THEN "kSpecialEscape"
  ELSE IF IsPrintableAscii(c) THEN "kAsIs" ELSE "kHexEscape"
PrintAsCharLiteral(c) ==
  CASE CharFormat(c) = "kSpecialEscape" -> <<"\\", SpecialEscapes[c]>>
    [] CharFormat(c) = "kAsIs" -> <<Glyph[c]>>
    [] CharFormat(c) = "kHexEscape" -> <<"\\", "x">> \o Hex(c)
(* In a string it is the double quote that needs an escape *)
PrintAsStringLiteral(c) ==
  CASE c = 39 -> <<"'">> [] c = 34 -> <<"\\", "\"">> [] OTHER -> PrintAsCharLiteral(c)

Prefix(width) ==
  CASE width = "char" -> "" [] width = "char8_t" -> "u8" [] width = "char16_t" -> "u"
    [] width = "char32_t" -> "U" [] width = "wchar_t" -> "L"

(* PrintCharAndCodeTo; char8_t, char16_t and char32_t are shown as U+ and code *)
PrintChar(width, c) ==
  IF width \in {"char", "wchar_t"}
  THEN <<Prefix(width), "'">> \o PrintAsCharLiteral(c) \o <<"'">>
       \o IF c = 0 THEN <<>>
          ELSE <<" (", ToString(c)>>
               \o (IF CharFormat(c) = "kHexEscape" \/ c \in 1 .. 9 THEN <<>> ELSE <<", 0x">> \o Hex(c))
               \o <<")">>
  ELSE <<"U+">> \o [k \in 1 .. 4 - Len(Hex(c)) |-> "0"] \o Hex(c)

IsXDigit(c) == c \in (48 .. 57) \union (65 .. 70) \union (97 .. 102)

(* PrintCharsAsStringTo: a hexadecimal digit after a hexadecimal escape would *)
(* be read as part of it, so the literal is broken there.  A slip: not.      *)
NeverBreaks(s, i) == FALSE
BreaksBefore(s, i) == i > 1 /\ CharFormat(s[i - 1]) = "kHexEscape" /\ IsXDigit(s[i])
PrintCharsAsString(width, s) ==
  <<Prefix(width), "\"">>
  \o FlattenSeq([i \in DOMAIN s |->
       (IF BreaksBefore(s, i) THEN <<"\"", " ", Prefix(width), "\"">> ELSE <<>>)
       \o PrintAsStringLiteral(s[i])])
  \o <<"\"">>

(* UniversalPrintCharArray *)
PrintCharArray(width, s) ==
  IF s # <<>> /\ Last(s) = 0 THEN PrintCharsAsString(width, Front(s))
  ELSE PrintCharsAsString(width, s) \o <<" (no terminating NUL)">>

(* IsValidUTF8: the length of the character that starts at s[i], 0 if none   *)
Trail(s, i, n) == i + n <= Len(s) /\ \A k \in 1 .. n : s[i + k] \in 128 .. 191
CharLength(s, i) ==
  LET lead == s[i] IN
  CASE lead <= 127 -> 1
    [] lead \in 194 .. 223 /\ Trail(s, i, 1) -> 2
    [] lead \in 224 .. 239 /\ Trail(s, i, 2) /\ (lead = 224 => s[i + 1] >= 160)
         /\ (lead = 237 => s[i + 1] < 160) -> 3
    [] lead \in 240 .. 244 /\ Trail(s, i, 3) /\ (lead = 240 => s[i + 1] >= 144)
         /\ (lead = 244 => s[i + 1] < 144) -> 4
    [] OTHER -> 0
RECURSIVE IsValidUTF8From(_, _)
IsValidUTF8From(s, i) ==
  i > Len(s) \/ (CharLength(s, i) > 0 /\ IsValidUTF8From(s, i + CharLength(s, i)))
IsValidUTF8(s) == IsValidUTF8From(s, 1)

ContainsUnprintableControlCodes(s) == \E i \in DOMAIN s : s[i] \in ((0 .. 31) \union {127}) \ {9, 10, 13}

(* PrintStringTo: the text itself too, when it had to be escaped and can be  *)
PrintString(s) ==
  PrintCharsAsString("char", s)
  \o IF /\ \E i \in DOMAIN s : CharFormat(s[i]) = "kHexEscape"
        /\ ~ContainsUnprintableControlCodes(s) /\ IsValidUTF8(s)
     THEN <<"\n    As Text: \"", ToString(s), "\"">> ELSE <<>>

--------------------------------------------------------------------------------
(* Sequences: what is shown of n things, as their positions *)
Separated(parts, by) == FlattenSeq([i \in DOMAIN parts |-> IF i = 1 THEN parts[i] ELSE by \o parts[i]])

(* ContainerPrinter; a slip: looks at the bound after printing *)
ShownOneMore(n) == IF n <= kMaxCount + 1 THEN n ELSE kMaxCount + 1
ShownOfContainer(n) == IF n <= kMaxCount THEN n ELSE kMaxCount
(* PrintBytesInObjectToImpl: where the second chunk starts, on an even byte *)
ResumePos(n) == ((n - kByteChunk + 1) \div 2) * 2
PrintBytes(b) ==
  LET n == Len(b)
      Byte(i) == Hex(b[i] \div 16) \o Hex(b[i] % 16)
      Segment(from, to) ==        \* in pairs, at even offsets
        FlattenSeq([i \in 1 .. to - from |->
          (CASE i = 1 -> <<>> [] (from + i) % 2 = 1 -> <<" ">> [] OTHER -> <<"-">>) \o Byte(from + i)])
  IN  <<ToString(n), "-byte object <">>
      \o (IF n < kBytes THEN Segment(0, n)
          ELSE Segment(0, kByteChunk) \o <<" ... ">> \o Segment(ResumePos(n), n))
      \o <<">">>

RECURSIVE UniversalPrint(_), PrintTerse(_)
PrintRange(vs) == Separated([i \in DOMAIN vs |-> UniversalPrint(vs[i])], <<", ">>)

PrintContainer(vs) ==
  <<"{">>
  \o FlattenSeq([i \in 1 .. ShownOfContainer(Len(vs)) |-> (IF i > 1 THEN <<",">> ELSE <<>>) \o <<" ">> \o UniversalPrint(vs[i])])
  \o (IF ShownOfContainer(Len(vs)) < Len(vs) THEN <<",", " ...">> ELSE <<>>)
  \o (IF vs # <<>> THEN <<" ">> ELSE <<>>) \o <<"}">>

(* UniversalPrintArray *)
PrintArray(vs) ==
  CASE vs = <<>> -> <<"{}">>
    [] vs # <<>> /\ Len(vs) <= kThreshold -> <<"{ ">> \o PrintRange(vs) \o <<" }">>
    [] OTHER -> <<"{ ">> \o PrintRange(SubSeq(vs, 1, kChunkSize)) \o <<", ..., ">>
                \o PrintRange(SubSeq(vs, Len(vs) - kChunkSize + 1, Len(vs))) \o <<" }">>

PrintPointer(v) == <<IF v.address = 0 THEN "NULL" ELSE ToString(v.address)>>
PrintCString(v) ==
  IF v.address = 0 THEN <<"NULL">>
  ELSE <<ToString(v.address), " pointing to ">> \o PrintCharsAsString(v.width, v.value)
PrintSmartPointer(v) ==
  IF v.address = 0 THEN <<"(nullptr)">>
  ELSE IF v.is = "smart void" THEN <<"(", ToString(v.address), ")">>
  ELSE <<"(ptr = ", ToString(v.address), ", value = ">> \o UniversalPrint(v.value) \o <<")">>
PrintTuple(vs) == <<"(">> \o PrintRange(vs) \o <<")">>
PrintOptional(v) == <<"(">> \o (IF v.has THEN UniversalPrint(v.value) ELSE <<"nullopt">>) \o <<")">>
PrintVariant(v) ==
  <<"(", "'", v.type, "(index = ", ToString(v.index), ")' with value ">> \o UniversalPrint(v.value) \o <<")">>
PrintAny(v) == IF v.has THEN <<"value of type ", v.type>> ELSE <<"no value">>
PrintReference(v) == <<"@", ToString(v.address), " ">> \o UniversalPrint(v.value)

(* The first printer that fits a type without a PrintTo() of its own *)
PrintWithFallback(v) ==
  CASE v.is = "container"  -> PrintContainer(v.value)
    [] v.is = "pointer"    -> PrintPointer(v)
    [] v.is = "streamed"   -> <<ToString(v.value)>>
    [] v.is = "bytes"      -> PrintBytes(v.value)
    [] v.is = "incomplete" -> <<"(incomplete type)">>

UniversalPrint(v) ==
  CASE v.is = "bool"       -> <<IF v.value THEN "true" ELSE "false">>
    [] v.is = "nullptr"    -> <<"(nullptr)">>
    [] v.is = "char"       -> PrintChar(v.width, v.value)
    [] v.is = "string"     -> IF v.width = "char" THEN PrintString(v.value) ELSE PrintCharsAsString(v.width, v.value)
    [] v.is = "char array" -> PrintCharArray(v.width, v.value)
    [] v.is = "C string"   -> PrintCString(v)
    [] v.is \in {"smart", "smart void"} -> PrintSmartPointer(v)
    [] v.is = "array"      -> PrintArray(v.value)
    [] v.is = "tuple"      -> PrintTuple(v.value)
    [] v.is = "optional"   -> PrintOptional(v)
    [] v.is = "variant"    -> PrintVariant(v)
    [] v.is = "any"        -> PrintAny(v)
    [] v.is \in {"reference", "reference_wrapper"} -> PrintReference(v)
    [] OTHER               -> PrintWithFallback(v)

(* UniversalTersePrinter: without the address of a reference or a C string   *)
PrintTerse(v) ==
  CASE v.is = "reference" -> UniversalPrint(v.value)
    [] v.is = "reference_wrapper" -> PrintTerse(v.value)
    [] v.is = "C string"  -> IF v.address = 0 THEN <<"NULL">>
                             ELSE UniversalPrint([is |-> "string", width |-> v.width, value |-> v.value])
    [] OTHER -> UniversalPrint(v)

(* FormatForComparison: an array is taken as a pointer; a pointer to          *)
(* characters is shown as a string when it is compared with a string object  *)
(* of its characters, else as an address.                                    *)
AsString(v, other) == other.is = "string" /\ other.width = v.width
FormatForComparison(v, other) ==
  CASE v.is \in {"C string", "char array"} /\ AsString(v, other) ->
         PrintTerse([v EXCEPT !.is = "C string", !.value =
           SubSeq(@, 1, Cardinality({i \in DOMAIN @ : \A j \in 1 .. i : v.value[j] # 0}))])
    [] v.is \in {"C string", "char array", "array"} /\ ~AsString(v, other) ->
         UniversalPrint([is |-> "pointer", address |-> v.address])
    [] OTHER -> PrintTerse(v)
================================================================================
