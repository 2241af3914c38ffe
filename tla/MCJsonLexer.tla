----------------------------- MODULE MCJsonLexer ----------------------------
EXTENDS JsonLexer

Single(chars) == {<<c>> : c \in chars}
\* \uxxxx for the four digits of an escape, and its parts.
U(digits) == <<92, 117>> \o digits

\* Documents of many small tokens, with white space and byte order marks.
Tokens ==
    [kind |-> "narrow", max |-> 5, tokens |-> 4,
     pieces |-> Single({32, 10, 91, 58, 49, 45, 120, 0, 34})
                \cup {<<239, 187, 191>>, <<239, 187, 32>>, <<239, 32>>}
                \cup {LiteralText(l) : l \in LiteralType}
                \cup {<<110, 117, 108>>}]
\* Strings: the first and the last byte of every range, and one beyond it.
Strings ==
    [kind |-> "narrow", max |-> 5, tokens |-> 1,
     pieces |-> Single({34, 31, 127, 128, 143, 144, 159, 160, 191, 192, 194, 223,
                        224, 225, 237, 239, 240, 243, 244, 245})
                \cup {<<128, 191>>}]
\* Escapes: the first and the last code point of every length and surrogate.
Escapes ==
    [kind |-> "narrow", max |-> 4, tokens |-> 1,
     pieces |-> Single({34, 92, 117, 110, 120, 48}) \cup
        {U(d) : d \in {<<48, 48, 55, 70>>, <<48, 48, 56, 48>>, <<48, 55, 70, 70>>,
                       <<48, 56, 48, 48>>, <<68, 55, 70, 70>>, <<68, 56, 48, 48>>,
                       <<100, 98, 102, 102>>, <<68, 67, 48, 48>>, <<100, 102, 102, 102>>,
                       <<69, 48, 48, 48>>, <<70, 102, 70, 102>>, <<48, 48, 103>>}}]
Numbers ==
    [kind |-> "narrow", max |-> 6, tokens |-> 1,
     pieces |-> Single({48, 49, 56, 46, 69, 43, 45, 10})]
WideInputs == {[kind |-> k, pieces |-> {}, max |-> 2, tokens |-> 3] : k \in {"utf16", "utf32"}}

MCInputs == {Tokens, Strings, Escapes, Numbers} \cup WideInputs

Units == {34, 49, 127, 128, 2047, 2048, 55295, 55296, 56319, 56320, 57343, 57344, 65535}
MCWideStrings ==
    [utf16 |-> UNION {[1 .. n -> Units] : n \in 0 .. 3},
     utf32 |-> UNION {[1 .. n -> Units \cup {65536, 1114111, 1114112}] : n \in 0 .. 2}]
\* A quote, a digit, an end and half of a pair.
MCGarbage == {34, 49, 0, 55296}
=============================================================================
