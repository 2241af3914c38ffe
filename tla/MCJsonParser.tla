---------------------------- MODULE MCJsonParser ----------------------------
EXTENDS JsonParser

Grammar == INSTANCE JsonGrammar WITH ScalarType <- ScalarTypes

Punctuation == {Tok(t) : t \in {"begin_object", "end_object", "begin_array",
    "end_array", "name_separator", "value_separator", "end_of_input"}}
Keys == {<<"value_string", k>> : k \in 1 .. 2}
Number == {Tok("value_unsigned")}
Bad == {Tok("value_inf"), Tok("parse_error")}

\* Calls: parse with and without exceptions, operator>> (not strict), accept,
\* and parse with a callback, whose answers multiply the cases.
Call(sax, strict, throws, tokens, max) ==
    [sax |-> sax, strict |-> strict, throws |-> throws,
     tokens |-> Punctuation \cup Keys \cup tokens, max |-> max]
MCModes ==
    {Call("dom", TRUE, TRUE, Number, 10), Call("dom", TRUE, FALSE, Bad, 6),
     Call("dom", FALSE, TRUE, Bad, 7), Call("accept", TRUE, TRUE, Bad, 8),
     Call("callback", TRUE, TRUE, {}, 9), Call("callback", TRUE, FALSE, Bad, 5)}

\* AcceptsGrammar (parser::parse, parser::accept): a strict call ends well
\* exactly when the tokens it read are one value of the JSON grammar, all of
\* its numbers finite, and the end of input.
AcceptsGrammar ==
    pc = "done" =>
        LET types == [i \in DOMAIN toks |-> toks[i][1]]
            body == IF mode.strict THEN SubSeq(types, 1, Len(types) - 1) ELSE types
        IN  (out = "ok") <=>
                /\ Grammar!IsValue(body)
                /\ mode.strict => Top(types) = "end_of_input"
=============================================================================
