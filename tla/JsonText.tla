------------------------------ MODULE JsonText ------------------------------
(***************************************************************************)
(* Characters of JSON texts, as numbers, and what a text spells: shared by *)
(* the lexer, which reads texts, and the serializer, which writes them.    *)
(***************************************************************************)
EXTENDS Integers, Sequences, SequencesExt

Digit == 48 .. 57
Digit19 == 49 .. 57
Space == {32, 9, 10, 13}
Quote == 34
Backslash == 92

EscapeChar == {34, 92, 47, 98, 102, 110, 114, 116}
Escaped(c) == CASE c \in {34, 92, 47} -> c [] c = 98 -> 8 [] c = 102 -> 12
                [] c = 110 -> 10 [] c = 114 -> 13 [] c = 116 -> 9

HexDigit == Digit \cup 65 .. 70 \cup 97 .. 102
HexValue(c) == IF c \in Digit THEN c - 48 ELSE IF c <= 70 THEN c - 55 ELSE c - 87
High == 55296 .. 56319
Low == 56320 .. 57343

-----------------------------------------------------------------------------
(* What characters spell, for comparison: a code point is decoded by       *)
(* arithmetic and must lie in the range its length is for.                 *)

Ref_bad == <<-1, 0>>
SmallestOf == <<0, 128, 2048, 65536>>
Hex4(s, i) ==
    IF i + 3 <= Len(s) /\ \A j \in i .. i + 3 : s[j] \in HexDigit
    THEN FoldLeft(LAMBDA v, c : v * 16 + HexValue(c), 0, SubSeq(s, i, i + 3))
    ELSE -1
IsU(s, i) == i + 1 <= Len(s) /\ s[i] = Backslash /\ s[i + 1] = 117

\* The code point that starts at s[i] and its length, with escapes or raw.
EscapedPoint(s, i) ==
    LET one == Hex4(s, i + 2)
        two == IF IsU(s, i + 6) THEN Hex4(s, i + 8) ELSE -1
    IN  IF i + 1 <= Len(s) /\ s[i + 1] \in EscapeChar THEN <<Escaped(s[i + 1]), 2>>
        ELSE IF ~IsU(s, i) \/ one = -1 THEN Ref_bad
        ELSE IF one \notin High \cup Low THEN <<one, 6>>
        ELSE IF one \in High /\ two \in Low
        THEN <<65536 + (one - 55296) * 1024 + (two - 56320), 12>>
        ELSE Ref_bad
RawPoint(s, i) ==
    LET n == IF s[i] < 192 THEN 1 ELSE IF s[i] < 224 THEN 2
             ELSE IF s[i] < 240 THEN 3 ELSE 4
        lead == IF n = 1 THEN s[i] ELSE s[i] % 2^(7 - n)
        cp == FoldLeft(LAMBDA v, c : v * 64 + c - 128, lead, SubSeq(s, i + 1, i + n - 1))
    IN  IF /\ i + n - 1 <= Len(s) /\ s[i] \in 0 .. 247
           /\ \A j \in i + 1 .. i + n - 1 : s[j] \in 128 .. 191
           /\ n = 1 => cp < 128
           /\ cp >= SmallestOf[n] /\ cp \notin High \cup Low /\ cp <= 1114111
        THEN <<cp, n>> ELSE Ref_bad

\* The code points of s, or a sequence with -1 in it.
Points(s, escapes) ==
    LET point(i) == IF escapes /\ s[i] = Backslash THEN EscapedPoint(s, i)
                    ELSE IF escapes /\ (s[i] < 32 \/ s[i] = Quote) THEN Ref_bad
                    ELSE RawPoint(s, i)
        from[i \in 1 .. Len(s) + 1] ==
            IF i > Len(s) THEN <<>>
            ELSE IF point(i) = Ref_bad THEN <<-1>>
            ELSE <<point(i)[1]>> \o from[i + point(i)[2]]
    IN  from[1]
WellFormed(points) == \A i \in DOMAIN points : points[i] # -1

IsString(s) ==
    /\ Len(s) > 1 /\ s[1] = Quote /\ s[Len(s)] = Quote
    /\ WellFormed(Points(SubSeq(s, 2, Len(s) - 1), TRUE))
Digits(s, i, j) == i <= j /\ \A k \in i .. j : s[k] \in Digit
\* [ - ] int [ . digits ] [ e [ + | - ] digits ]: int ends at i, the fraction at j.
IsNumber(s) ==
    LET b == IF s # <<>> /\ s[1] = 45 THEN 2 ELSE 1
    IN  \E i \in b .. Len(s) : \E j \in i .. Len(s) :
          /\ Digits(s, b, i) /\ (s[b] = 48 => i = b)
          /\ j > i => s[i + 1] = 46 /\ Digits(s, i + 2, j)
          /\ j < Len(s) =>
               /\ s[j + 1] \in {101, 69}
               /\ \/ Digits(s, j + 2, Len(s))
                  \/ j + 2 <= Len(s) /\ s[j + 2] \in {43, 45}
                     /\ Digits(s, j + 3, Len(s))
=============================================================================
