-------------------------------- MODULE Encodings --------------------------------
(***************************************************************************)
(* How texts are written for others to read back: wide strings as UTF-8,     *)
(* values in the XML and JSON reports (gtest.cc), and the decoders of        *)
(* gmock-internal-utils.cc.  A text is a sequence of bytes or characters,    *)
(* which are numbers.  What a report escapes is written as a pair: how a     *)
(* character was written, and its number.                                    *)
(***************************************************************************)
EXTENDS Integers, Sequences, SequencesExt

(* CodePointToUtf8: ChopLowBits takes six bits at a time *)
kMaxCodePoint1 == 2 ^ 7 - 1
kMaxCodePoint2 == 2 ^ 11 - 1
kMaxCodePoint3 == 2 ^ 16 - 1
kMaxCodePoint4 == 2 ^ 21 - 1
Low(bits, n) == 128 + ((bits \div 2 ^ (6 * n)) % 64)     \* the n-th six bits
CodePointToUtf8(c) ==
  CASE c > kMaxCodePoint4 -> <<-1>>                     \* "(Invalid Unicode 0x...)"
    [] c <= kMaxCodePoint1 -> <<c>>
    [] c \in kMaxCodePoint1 + 1 .. kMaxCodePoint2 -> <<192 + c \div 2 ^ 6, Low(c, 0)>>
    [] c \in kMaxCodePoint2 + 1 .. kMaxCodePoint3 -> <<224 + c \div 2 ^ 12, Low(c, 1), Low(c, 0)>>
    [] c \in kMaxCodePoint3 + 1 .. kMaxCodePoint4 ->
         <<240 + c \div 2 ^ 18, Low(c, 2), Low(c, 1), Low(c, 0)>>

IsUtf16SurrogatePair(first, second) ==
  first \div 1024 = 54 /\ second \div 1024 = 55         \* 0xD800 and 0xDC00
CreateCodePoint(first, second) == (first % 1024) * 1024 + (second % 1024) + 65536
(* WideStringToUtf8, with wchar_t of two bytes or of four *)
RECURSIVE WideFrom(_, _, _)
WideFrom(str, bytes, i) ==
  IF i > Len(str) \/ str[i] = 0 THEN <<>>
  ELSE IF bytes = 2 /\ i < Len(str) /\ IsUtf16SurrogatePair(str[i], str[i + 1])
  THEN CodePointToUtf8(CreateCodePoint(str[i], str[i + 1])) \o WideFrom(str, bytes, i + 2)
  ELSE CodePointToUtf8(str[i]) \o WideFrom(str, bytes, i + 1)
WideStringToUtf8(str, bytes) == WideFrom(str, bytes, 1)

--------------------------------------------------------------------------------
(* XML *)
IsNormalizableWhitespace(c) == c \in {9, 10, 13}
IsValidXmlCharacter(c) == IsNormalizableWhitespace(c) \/ c >= 32
RemoveInvalidXmlCharacters(str) == SelectSeq(str, IsValidXmlCharacter)

(* EscapeXml: the characters to be written as references *)
Referenced(is_attribute) == {60, 62, 38} \union (IF is_attribute THEN {39, 34, 9, 10, 13} ELSE {})
EscapeXml(str, is_attribute) ==
  LET valid == RemoveInvalidXmlCharacters(str)
  IN  [i \in DOMAIN valid |->
         <<IF valid[i] \in Referenced(is_attribute) THEN "ref" ELSE "raw", valid[i]>>]

(* OutputXmlCDataSection: every "]]>" of the data is taken out of the section *)
(* and written between two; open stands for "<![CDATA[".                      *)
CDataEnd == <<93, 93, 62>>
Open == -1
GreaterThan == -2                                       \* "&gt;"
EndsAt(data, i) == i + 2 <= Len(data) /\ SubSeq(data, i, i + 2) = CDataEnd
RECURSIVE CData(_)
CData(data) ==
  LET ends == {i \in DOMAIN data : EndsAt(data, i)}
      next == CHOOSE i \in ends : \A j \in ends : i <= j
  IN  IF ends = {} THEN data
      ELSE SubSeq(data, 1, next - 1) \o CDataEnd \o <<93, 93, GreaterThan>> \o <<Open>>
           \o CData(SubSeq(data, next + 3, Len(data)))
OutputXmlCDataSection(data) == <<Open>> \o CData(data) \o CDataEnd

(* EscapeJson: char is signed, so a byte above 127 is less than a blank, and  *)
(* is written as a code point.                                              *)
Backslashed == {92, 34, 47, 8, 9, 10, 12, 13}
EscapedAs(c) == CASE c \in Backslashed -> "esc" [] c \notin Backslashed /\ (c < 32 \/ c > 127) -> "u"
                  [] OTHER -> "raw"
EscapeJson(str) == [i \in DOMAIN str |-> <<EscapedAs(str[i]), str[i]>>]

--------------------------------------------------------------------------------
(* UrlEncode of the streaming listener, of a C string: "%" and the two digits *)
(* of FormatByte                                                             *)
HexDigit(d) == IF d < 10 THEN d + 48 ELSE d + 55
FormatByte(c) == <<HexDigit(c \div 16), HexDigit(c % 16)>>
UrlEncode(str) ==
  LET ends == {i \in DOMAIN str : str[i] = 0} \union {Len(str) + 1}
      end == CHOOSE i \in ends : \A j \in ends : i <= j
  IN  FlattenSeq([i \in 1 .. end - 1 |->
        IF str[i] \in {37, 61, 38, 10} THEN <<37>> \o FormatByte(str[i]) ELSE <<str[i]>>])

--------------------------------------------------------------------------------
(* gmock-internal-utils.cc; IsSpace and the like are those of ASCII *)
IsUpper(c) == c \in 65 .. 90
IsLower(c) == c \in 97 .. 122
IsAlpha(c) == IsUpper(c) \/ IsLower(c)
IsDigit(c) == c \in 48 .. 57
ToLower(c) == IF IsUpper(c) THEN c + 32 ELSE c

(* ConvertIdentifierNameToWords *)
StartsNewWord(prev, c) ==
  IsUpper(c) \/ (~ IsAlpha(prev) /\ IsLower(c)) \/ (~ IsDigit(prev) /\ IsDigit(c))
ConvertIdentifierNameToWords(id_name) ==
  LET Next(result, i) ==
        LET c == id_name[i] prev == IF i = 1 THEN 0 ELSE id_name[i - 1] IN
        IF ~ (IsAlpha(c) \/ IsDigit(c)) THEN result
        ELSE result \o (IF StartsNewWord(prev, c) /\ result # <<>> THEN <<32>> ELSE <<>>) \o <<ToLower(c)>>
  IN  FoldLeft(Next, <<>>, [i \in DOMAIN id_name |-> i])

(* kUnBase64, with the letters of the web-safe alphabet; 65 for no digit      *)
UndoWebSafeEncoding(c) == CASE c = 45 -> 43 [] c = 95 -> 47 [] OTHER -> c
UnBase64(c) ==
  LET d == UndoWebSafeEncoding(c) IN
  CASE IsUpper(d) -> d - 65 [] IsLower(d) -> d - 71 [] IsDigit(d) -> d + 4
    [] d = 43 -> 62 [] d = 47 -> 63 [] OTHER -> 65

(* Base64Unescape: dst is a byte under construction, from bit_pos on *)
NextBitPos(bit_pos) == IF bit_pos = 0 THEN 6 ELSE (bit_pos + 6) % 8
Base64Unescape(encoded) ==
  LET Skipped(c) == c \in (9 .. 13) \union {32, 61}
      Next(s, c) ==
        LET bin == UnBase64(c) bits == s.bit_pos IN
        IF ~ s.ok \/ Skipped(c) THEN s
        ELSE IF bin >= 64 THEN [s EXCEPT !.ok = FALSE, !.decoded = <<>>]
        ELSE IF bits = 0 THEN [s EXCEPT !.dst = bin * 4, !.bit_pos = NextBitPos(bits)]
        ELSE [s EXCEPT !.decoded = Append(@, s.dst + bin \div 2 ^ (bits - 2)),
                       !.dst = (bin * 2 ^ (10 - bits)) % 256, !.bit_pos = NextBitPos(bits)]
      end == FoldLeft(Next, [ok |-> TRUE, decoded |-> <<>>, dst |-> 0, bit_pos |-> 0], encoded)
  IN  [ok |-> end.ok, decoded |-> end.decoded]
================================================================================
