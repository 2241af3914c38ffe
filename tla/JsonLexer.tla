----------------------------- MODULE JsonLexer ------------------------------
(***************************************************************************)
(* The lexical analyser of include/json.hpp (class lexer) and the input    *)
(* adapters it reads from.  One step reads one character with get(); a     *)
(* character is a number 0 .. 255, or eof.  What the input holds is chosen *)
(* while it is read: input.pieces are the character sequences that may     *)
(* come next.  A wide string is chosen at the start and converted by       *)
(* fill_buffer.                                                            *)
(***************************************************************************)
EXTENDS JsonText, FiniteSets

CONSTANTS Inputs,       \* the inputs offered: [kind, pieces, max, tokens], with
                        \* the bounds: pieces and tokens read of one input
          WideStrings,  \* wide strings: sequences of 16 or 32 bit units
          Garbage,      \* units that may be found in memory beyond a string
          NumberBits    \* width of number_unsigned_t and number_integer_t

ASSUME WidthAssumption == NumberBits \in Nat \ {0}

VARIABLES input,        \* the input that is read
          a,            \* the input adapter: what it has ready, and its place
          x,            \* the members of the lexer, and where it stands
          read,         \* history: the characters the adapter has delivered
          out           \* history: the tokens scan() has returned

vars == <<input, a, x, read, out>>

eof == -1
\* The bits n to m - 1 of v.
Bits(v, n, m) == (v \div 2^n) % 2^(m - n)

-----------------------------------------------------------------------------
(* The adapters.                                                           *)

\* fill_buffer, UTF-32 and UTF-16: the bytes and the units they take.
Bytes2(v) == <<192 + Bits(v, 6, 11), 128 + Bits(v, 0, 6)>>
Bytes3(v) == <<224 + Bits(v, 12, 16), 128 + Bits(v, 6, 12), 128 + Bits(v, 0, 6)>>
Bytes4(v) == <<240 + Bits(v, 18, 21), 128 + Bits(v, 12, 18),
               128 + Bits(v, 6, 12), 128 + Bits(v, 0, 6)>>
Filled(bytes, units) == [bytes |-> bytes, units |-> units]

fill_buffer_utf32(str, i) ==
    LET wc == str[i + 1]
    IN  IF wc < 128 THEN Filled(<<wc>>, 1)
        ELSE IF wc <= 2047 THEN Filled(Bytes2(wc), 1)
        ELSE IF wc <= 65535 THEN Filled(Bytes3(wc), 1)
        ELSE IF wc <= 1114111 THEN Filled(Bytes4(wc), 1)
        ELSE Filled(<<wc>>, 1)

\* Variant: a pair of surrogates is put together without its offset.
Pairs_without_offset(str, i) ==
    LET wc == str[i + 1]
    IN  IF wc < 128 THEN Filled(<<wc>>, 1)
        ELSE IF wc <= 2047 THEN Filled(Bytes2(wc), 1)
        ELSE IF 55296 > wc \/ wc >= 57344 \/ i + 1 >= Len(str)
        THEN Filled(Bytes3(wc), 1)
        ELSE Filled(Bytes4(Bits(wc, 0, 10) * 1024 + Bits(str[i + 2], 0, 10)), 2)

\* A surrogate of either half takes the next unit, whatever that is; without a
\* next unit current_wchar is increased all the same.
fill_buffer_utf16(str, i) ==
    LET wc == str[i + 1]
    IN  IF wc < 128 THEN Filled(<<wc>>, 1)
        ELSE IF wc <= 2047 THEN Filled(Bytes2(wc), 1)
        ELSE IF 55296 > wc \/ wc >= 57344 THEN Filled(Bytes3(wc), 1)
        ELSE IF i + 1 < Len(str)
        THEN Filled(Bytes4(65536 + Bits(wc, 0, 10) * 1024
                                 + Bits(str[i + 2], 0, 10)), 2)
        ELSE Filled(<<wc>>, 2)

\* current_wchar has passed str.size(): the test for the end is for equality,
\* so what follows the string in memory is read, undefined behaviour.
Beyond == a.current_wchar > Len(a.str)

\* What fill_buffer may do.  Beyond the string there is no next unit.
fill_buffer ==
    IF Beyond THEN {fill_buffer_utf16(<<wc>>, 0) : wc \in Garbage}
    ELSE IF a.current_wchar = Len(a.str) THEN {Filled(<<eof>>, 0)}
    ELSE IF input.kind = "utf16" THEN {fill_buffer_utf16(a.str, a.current_wchar)}
    ELSE {fill_buffer_utf32(a.str, a.current_wchar)}

\* get_character of the narrow adapters (file, stream, buffer): the next
\* character; after the end, the end.
Narrow(c) ==
    IF a.ready # <<>>
    THEN /\ c = Head(a.ready)
         /\ a' = [a EXCEPT !.ready = Tail(@)]
    ELSE \/ /\ a.used < input.max /\ ~a.ended
            /\ \E p \in input.pieces :
                 /\ c = Head(p)
                 /\ a' = [a EXCEPT !.ready = Tail(p), !.used = @ + 1]
         \/ /\ c = eof
            /\ a' = [a EXCEPT !.ended = TRUE]

\* get_character of wide_string_input_adapter; max bounds the units beyond.
Wide(c) ==
    IF a.ready # <<>>
    THEN /\ c = Head(a.ready)
         /\ a' = [a EXCEPT !.ready = Tail(@)]
    ELSE /\ Beyond => a.used < input.max
         /\ \E f \in fill_buffer :
              /\ c = Head(f.bytes)
              /\ a' = [a EXCEPT !.ready = Tail(f.bytes),
                                !.current_wchar = @ + f.units,
                                !.used = IF Beyond THEN @ + 1 ELSE @]

get_character(c) == IF input.kind = "narrow" THEN Narrow(c) ELSE Wide(c)
Chars == IF a.ready # <<>> THEN {Head(a.ready)}
         ELSE IF input.kind = "narrow"
         THEN {eof} \cup {Head(p) : p \in input.pieces}
         ELSE {Head(f.bytes) : f \in fill_buffer}

-----------------------------------------------------------------------------
(* get, unget, add.  Of token_string only the length is kept.              *)

\* The lexer after get() has returned c.
get(c) ==
    [x EXCEPT !.current = c,
              !.next_unget = FALSE,
              !.chars_read_total = @ + 1,
              !.chars_read_current_line = IF c = 10 THEN 0 ELSE @ + 1,
              !.lines_read = IF c = 10 THEN @ + 1 ELSE @,
              !.token_string = IF c = eof THEN @ ELSE @ + 1]

\* Variant: the line of a newline that is read again counts twice.
Newline_stays(y) ==
    [y EXCEPT !.next_unget = TRUE,
              !.chars_read_total = @ - 1,
              !.chars_read_current_line = IF @ = 0 THEN @ ELSE @ - 1,
              !.token_string = IF y.current = eof THEN @ ELSE @ - 1]

unget(y) ==
    [y EXCEPT !.next_unget = TRUE,
              !.chars_read_total = @ - 1,
              !.lines_read =
                  IF y.chars_read_current_line = 0 /\ @ > 0 THEN @ - 1 ELSE @,
              !.chars_read_current_line = IF @ = 0 THEN @ ELSE @ - 1,
              !.token_string = IF y.current = eof THEN @ ELSE @ - 1]

add(y, c) == [y EXCEPT !.token_buffer = Append(@, c)]
Goto(y, pc) == [y EXCEPT !.pc = pc]
reset(y) == [y EXCEPT !.token_buffer = <<>>, !.token_string = 1]

\* Reading one character: again the last one after unget, or the next one.
Reading(c) ==
    IF x.next_unget THEN c = x.current /\ UNCHANGED <<a, read>>
    ELSE get_character(c) /\ read' = Append(read, c)

\* scan() returns: the lexer is idle until it is called again.
Return(y, type) ==
    /\ x' = Goto(y, "idle")
    /\ out' = Append(out, [type |-> type, text |-> y.token_buffer,
                           first |-> y.first, last |-> y.chars_read_total])
Continue(y) == x' = y /\ UNCHANGED out
Error(y) == Return(y, "parse_error")

Init ==
    /\ input \in Inputs
    /\ \E s \in IF input.kind = "narrow" THEN {<<>>} ELSE WideStrings[input.kind] :
         a = [ready |-> <<>>, used |-> 0, ended |-> FALSE,
              str |-> s, current_wchar |-> 0]
    /\ x = [pc |-> "idle", current |-> eof, next_unget |-> FALSE,
            chars_read_total |-> 0, chars_read_current_line |-> 0,
            lines_read |-> 0, token_string |-> 0, token_buffer |-> <<>>,
            first |-> 0, type |-> "value_unsigned", todo |-> <<>>,
            codepoint1 |-> 0, codepoint |-> 0]
    /\ read = <<>>
    /\ out = <<>>

-----------------------------------------------------------------------------
(* scan                                                                    *)

\* The parser calls scan() again after a token; after an error, or an end that
\* came too soon, parse() does so once more if it is strict and does not throw.
MayScan ==
    /\ Len(out) < input.tokens
    /\ \A k \in 1 .. Len(out) - 1 : out[k].type \notin {"parse_error", "end_of_input"}
Scan ==
    /\ x.pc = "idle" /\ MayScan
    /\ x' = Goto(x, IF x.chars_read_total = 0 THEN "bom" ELSE "start")
    /\ UNCHANGED <<input, a, read, out>>

\* skip_bom: EF BB BF, or the first character is put back.
SkipBom(c) ==
    LET y == get(c)
    IN  CASE x.pc = "bom" -> Continue(IF c = 239 THEN Goto(y, "bom2")
                                      ELSE Goto(unget(y), "start"))
          [] x.pc = "bom2" -> IF c = 187 THEN Continue(Goto(y, "bom3"))
                              ELSE Error(y)
          [] x.pc = "bom3" -> IF c = 191 THEN Continue(Goto(y, "start"))
                              ELSE Error(y)

Structural == {91, 93, 123, 125, 58, 44}
StructuralType(c) ==
    CASE c = 91 -> "begin_array" [] c = 93 -> "end_array"
      [] c = 123 -> "begin_object" [] c = 125 -> "end_object"
      [] c = 58 -> "name_separator" [] c = 44 -> "value_separator"

\* true, false and null.
LiteralType == {"literal_true", "literal_false", "literal_null"}
LiteralText(type) == CASE type = "literal_true" -> <<116, 114, 117, 101>>
                       [] type = "literal_false" -> <<102, 97, 108, 115, 101>>
                       [] type = "literal_null" -> <<110, 117, 108, 108>>
LiteralStart(c) == \E l \in LiteralType : LiteralText(l)[1] = c

\* scan_number begins with the character scan has read.
FirstOfNumber(y, c) ==
    [add(Goto(y, CASE c = 45 -> "minus" [] c = 48 -> "zero" [] c \in Digit19 -> "any1"), c)
        EXCEPT !.type = IF c = 45 THEN "value_integer" ELSE "value_unsigned"]

Start(c) ==
    LET y == [get(c) EXCEPT !.first = x.chars_read_total + 1]
    IN  IF c \in Space THEN Continue(y)
        ELSE IF c \in Structural THEN Return(y, StructuralType(c))
        ELSE IF LiteralStart(c)
        THEN LET l == CHOOSE l \in LiteralType : LiteralText(l)[1] = c
             IN  Continue([Goto(y, "literal") EXCEPT !.type = l,
                                                     !.todo = Tail(LiteralText(l))])
        ELSE IF c = Quote THEN Continue(Goto(reset(y), "string"))
        ELSE IF c = 45 \/ c \in Digit THEN Continue(FirstOfNumber(reset(y), c))
        ELSE IF c \in {0, eof} THEN Return(y, "end_of_input")
        ELSE Error(y)

scan_literal(c) ==
    LET y == [get(c) EXCEPT !.todo = Tail(@)]
    IN  IF c # Head(x.todo) THEN Error(y)
        ELSE IF y.todo = <<>> THEN Return(y, x.type)
        ELSE Continue(y)

-----------------------------------------------------------------------------
(* scan_string                                                             *)

\* next_byte_in_range: the bounds of the bytes that must follow.
Follow == <<128, 191>>
Lead(lo, hi, ranges) == [lo |-> lo, hi |-> hi, ranges |-> ranges]
\* Variant: the last code points, F4 8F .., are left out.
Ends_early ==
    {Lead(194, 223, <<Follow>>),
     Lead(224, 224, << <<160, 191>>, Follow >>),
     Lead(225, 236, <<Follow, Follow>>), Lead(238, 239, <<Follow, Follow>>),
     Lead(237, 237, << <<128, 159>>, Follow >>),
     Lead(240, 240, << <<144, 191>>, Follow, Follow >>),
     Lead(241, 243, <<Follow, Follow, Follow>>),
     Lead(244, 244, << <<128, 142>>, Follow, Follow >>)}
LeadBytes ==
    {Lead(194, 223, <<Follow>>),
     Lead(224, 224, << <<160, 191>>, Follow >>),
     Lead(225, 236, <<Follow, Follow>>), Lead(238, 239, <<Follow, Follow>>),
     Lead(237, 237, << <<128, 159>>, Follow >>),
     Lead(240, 240, << <<144, 191>>, Follow, Follow >>),
     Lead(241, 243, <<Follow, Follow, Follow>>),
     Lead(244, 244, << <<128, 143>>, Follow, Follow >>)}

\* Control characters, which must be escaped, and those taken as they are.
ControlCharacter == 0 .. 31
PlainCharacter == (32 .. 127) \ {Quote, Backslash}

scan_string(c) ==
    LET y == get(c)
        leads == {l \in LeadBytes : l.lo <= c /\ c <= l.hi}
    IN  IF c = Quote THEN Return(y, "value_string")
        ELSE IF c = Backslash THEN Continue(Goto(y, "escape"))
        ELSE IF c \in ControlCharacter THEN Error(y)
        ELSE IF c \in PlainCharacter THEN Continue(add(y, c))
        ELSE IF leads # {}
        THEN Continue([add(Goto(y, "follow"), c) EXCEPT
                          !.todo = (CHOOSE l \in leads : TRUE).ranges])
        ELSE Error(y)

next_byte_in_range(c) ==
    LET y == add([get(c) EXCEPT !.todo = Tail(@)], c)
        range == Head(x.todo)
    IN  IF ~(range[1] <= c /\ c <= range[2]) THEN Error(get(c))
        ELSE Continue(IF y.todo = <<>> THEN Goto(y, "string") ELSE y)

\* After a backslash; \u starts get_codepoint with four digits to read.
Escape(c) ==
    LET y == get(c)
    IN  IF c \in EscapeChar THEN Continue(add(Goto(y, "string"), Escaped(c)))
        ELSE IF c = 117
        THEN Continue([Goto(y, "hex") EXCEPT !.todo = <<12, 8, 4, 0>>,
                          !.codepoint = 0, !.codepoint1 = -1])
        ELSE Error(y)

\* Translate a code point into bytes.
Utf8(cp) == IF cp < 128 THEN <<cp>>
            ELSE IF cp <= 2047 THEN Bytes2(cp)
            ELSE IF cp <= 65535 THEN Bytes3(cp)
            ELSE Bytes4(cp)
Encoded(y, cp) == [Goto(y, "string") EXCEPT !.token_buffer = @ \o Utf8(cp)]

\* The last digit of \uxxxx: a character, or one half of a surrogate pair.
Codepoint(y) ==
    IF y.codepoint1 = -1
    THEN IF y.codepoint \in High
         THEN Continue([Goto(y, "pair") EXCEPT !.codepoint1 = y.codepoint])
         ELSE IF y.codepoint \in Low THEN Error(y)
         ELSE Continue(Encoded(y, y.codepoint))
    ELSE IF y.codepoint \in Low
         THEN Continue(Encoded(y, y.codepoint1 * 1024 + y.codepoint - 56613888))
         ELSE Error(y)

get_codepoint(c) ==
    LET y == [get(c) EXCEPT !.codepoint = @ + HexValue(c) * 2^Head(x.todo),
                            !.todo = Tail(@)]
    IN  IF c \notin HexDigit THEN Error(get(c))
        ELSE IF y.todo = <<>> THEN Codepoint(y) ELSE Continue(y)

\* The second half must be another \u.
Pair(c) ==
    LET y == get(c)
    IN  IF x.pc = "pair" /\ c = Backslash THEN Continue(Goto(y, "pair_u"))
        ELSE IF x.pc = "pair_u" /\ c = 117
        THEN Continue([Goto(y, "hex") EXCEPT !.todo = <<12, 8, 4, 0>>,
                                             !.codepoint = 0])
        ELSE Error(y)

-----------------------------------------------------------------------------
(* scan_number                                                             *)

Value(digits) == FoldLeft(LAMBDA v, c : v * 10 + c - 48, 0, digits)

\* scan_number_done: strtoull or strtoll, and a float where errno says no.
NumberType(y) ==
    LET digits == IF y.token_buffer[1] = 45 THEN Tail(y.token_buffer)
                  ELSE y.token_buffer
    IN  CASE y.type = "value_unsigned" ->
               IF Value(digits) < 2^NumberBits THEN "value_unsigned" ELSE "value_float"
          [] y.type = "value_integer" ->
               IF Value(digits) <= 2^(NumberBits - 1) THEN "value_integer" ELSE "value_float"
          [] OTHER -> "value_float"
NumberDone(y) == Return(unget(y), NumberType(y))
Float(y) == [y EXCEPT !.type = "value_float"]

\* Variant: a number may end in its exponent's sign.
Exponent_without_digit ==
    [minus |-> "error", zero |-> "done", any1 |-> "done", decimal1 |-> "error",
     decimal2 |-> "done", exponent |-> "error", sign |-> "done", any2 |-> "done"]
\* What a state does with a character it has no case for.
Otherwise ==
    [minus |-> "error", zero |-> "done", any1 |-> "done", decimal1 |-> "error",
     decimal2 |-> "done", exponent |-> "error", sign |-> "error", any2 |-> "done"]

\* The state a character leads to, in the parts of a number.
IntegerPart(s, c) ==
    CASE s = "minus" /\ c \in Digit -> IF c = 48 THEN "zero" ELSE "any1"
      [] s = "any1" /\ c \in Digit -> "any1"
      [] s \in {"zero", "any1"} /\ c = 46 -> "decimal1"
      [] s \in {"zero", "any1"} /\ c \in {101, 69} -> "exponent"
      [] OTHER -> "none"
FractionPart(s, c) ==
    CASE c \in Digit -> "decimal2"
      [] s = "decimal2" /\ c \in {101, 69} -> "exponent"
      [] OTHER -> "none"
ExponentPart(s, c) ==
    CASE c \in Digit -> "any2"
      [] s = "exponent" /\ c \in {43, 45} -> "sign"
      [] OTHER -> "none"

scan_number(c) ==
    LET s == CASE x.pc \in {"minus", "zero", "any1"} -> IntegerPart(x.pc, c)
               [] x.pc \in {"decimal1", "decimal2"} -> FractionPart(x.pc, c)
               [] x.pc \in {"exponent", "sign", "any2"} -> ExponentPart(x.pc, c)
        y == add(Goto(get(c), s), c)
    IN  CASE s \in {"decimal1", "exponent"} -> Continue(Float(y))
          [] s \in {"zero", "any1", "decimal2", "sign", "any2"} -> Continue(y)
          [] s = "none" /\ Otherwise[x.pc] = "done" -> NumberDone(get(c))
          [] s = "none" /\ Otherwise[x.pc] = "error" -> Error(get(c))

-----------------------------------------------------------------------------

Character(pcs, Handle(_)) ==
    /\ x.pc \in pcs
    /\ \E c \in IF x.next_unget THEN {x.current} ELSE Chars :
         Reading(c) /\ Handle(c)
    /\ UNCHANGED input

BomStep == Character({"bom", "bom2", "bom3"}, SkipBom)
StartStep == Character({"start"}, Start)
LiteralStep == Character({"literal"}, scan_literal)
StringStep == Character({"string"}, scan_string)
FollowStep == Character({"follow"}, next_byte_in_range)
EscapeStep == Character({"escape"}, Escape)
HexStep == Character({"hex"}, get_codepoint)
PairStep == Character({"pair", "pair_u"}, Pair)
NumberStep == Character(DOMAIN Otherwise, scan_number)

\* Memory beyond the string cannot be read: the process ends.
Fault ==
    /\ x.pc \notin {"idle", "faulted"} /\ ~x.next_unget
    /\ a.ready = <<>> /\ Beyond
    /\ x' = Goto(x, "faulted")
    /\ UNCHANGED <<input, a, read, out>>

Finished ==
    /\ x.pc = "idle" => ~MayScan
    /\ x.pc \in {"idle", "faulted"}
    /\ UNCHANGED vars

Next == \/ Scan \/ BomStep \/ StartStep \/ LiteralStep \/ StringStep \/ FollowStep
        \/ EscapeStep \/ HexStep \/ PairStep \/ NumberStep \/ Fault \/ Finished

Spec == Init /\ [][Next]_vars

-----------------------------------------------------------------------------
(* What the characters spell, for comparison.                              *)

IsLiteral(s) == \E l \in LiteralType : LiteralText(l) = s
IsToken(s) == \/ IsString(s) \/ IsNumber(s) \/ IsLiteral(s)
              \/ Len(s) = 1 /\ s[1] \in Structural

\* Endings that make a token of any beginning that can become one.
Low_escape == <<92, 117, 68, 67, 48, 48>>
Completions ==
    {<<>>, <<48>>, <<43, 48>>}
    \cup {SubSeq(t, n, Len(t)) : n \in 1 .. 13, t \in {LiteralText(l) : l \in LiteralType}}
    \cup {Append(t, Quote) : t \in
            {<<>>, <<110>>, <<128>>, <<160>>, <<144, 128>>, <<128, 128>>, <<160, 128>>,
             <<144, 128, 128>>, <<128, 128, 128>>}
            \cup {SubSeq(Low_escape, n, 6) : n \in 1 .. 6}
            \cup {SubSeq(<<117, 48, 48, 48, 48>>, n, 5) : n \in 1 .. 5}
            \cup {SubSeq(<<48, 48, 48>>, n, 3) \o Low_escape : n \in 1 .. 4}}

Top(w) == w[Len(w)]
Spelled(t) == SubSeq(read, t.first, t.last)

(* Properties.                                                             *)

\* TokensSpelled (scan): every token is what the characters it took spell: a
\* string's token_buffer holds the UTF-8 of its code points, escapes and
\* surrogate pairs decoded, and the string is well formed; a number is a number
\* of the grammar that the next character does not carry on, and is an integer
\* only if it fits; between two tokens there is only white space.
Newest == out[Len(out)]
TokensSpelled ==
    x.pc = "idle" /\ out # <<>> =>
        LET t == Newest
            s == Spelled(t)
            next == Append(s, read[t.last + 1])
            before == IF Len(out) = 1 THEN {}
                      ELSE out[Len(out) - 1].last + 1 .. t.first - 1
            digits == IF s[1] = 45 THEN Tail(s) ELSE s
            whole == \A c \in Range(digits) : c \in Digit
        IN  /\ \A j \in before : read[j] \in Space
            /\ CASE t.type = "parse_error" -> TRUE
                 [] t.type = "end_of_input" -> s \in {<<0>>, <<eof>>}
                 [] t.type = "value_string" ->
                      IsString(s) /\ Points(t.text, FALSE)
                                       = Points(SubSeq(s, 2, Len(s) - 1), TRUE)
                 [] t.type \in {"value_unsigned", "value_integer", "value_float"} ->
                      /\ IsNumber(s) /\ t.text = s
                      /\ \A w \in {<<>>, <<48>>, <<43, 48>>} : ~IsNumber(next \o w)
                      /\ (t.type = "value_unsigned") <=>
                            (whole /\ s[1] # 45 /\ Value(digits) < 2^NumberBits)
                      /\ (t.type = "value_integer") <=>
                            (whole /\ s[1] = 45 /\ Value(digits) <= 2^(NumberBits - 1))
                 [] t.type \in LiteralType -> s = LiteralText(t.type)
                 [] OTHER -> Len(s) = 1 /\ StructuralType(s[1]) = t.type

\* ErrorsReal (scan): an error is reported only where no continuation of the
\* characters read is a token of RFC 7159 ("This function scans a string
\* according to" its sections 6 and 7), the one after an incomplete byte order
\* mark apart.
ErrorsReal ==
    x.pc = "idle" /\ out # <<>> /\ Newest.type = "parse_error" /\ Newest.first > 0 =>
        LET s == Spelled(Newest)
            tried == IF s[1] = Quote THEN {w \in Completions : w # <<>> /\ Top(w) = Quote}
                     ELSE {w \in Completions : w = <<>> \/ Top(w) # Quote}
        IN  x.current # eof => \A w \in tried : ~IsToken(s \o w)

\* PositionsRight (get, unget): whenever the lexer is idle the position counts
\* exactly the characters taken and not put back, and the newlines among them;
\* the column too, unless a newline has just been put back.
PositionsRight ==
    x.pc = "idle" =>
        LET n == Len(read) - (IF x.next_unget THEN 1 ELSE 0)
            newlines == {i \in 1 .. n : read[i] = 10}
            line == IF newlines = {} THEN 0
                    ELSE CHOOSE i \in newlines : \A j \in newlines : j <= i
        IN  /\ x.chars_read_total = n
            /\ x.lines_read = Cardinality(newlines)
            /\ ~(x.next_unget /\ x.current = 10) =>
                 x.chars_read_current_line = n - line

WidePoints(str) ==
    LET lows == {i \in DOMAIN str : str[i] \in Low}
        highs == {i \in DOMAIN str : str[i] \in High}
    IN  IF lows = {i + 1 : i \in highs} /\ (input.kind = "utf32" => lows = {})
        THEN [i \in 1 .. Len(str) - Cardinality(lows) |->
                LET k == CHOOSE k \in DOMAIN str \ lows :
                            Cardinality({j \in DOMAIN str \ lows : j <= k}) = i
                IN  IF str[k] \in High
                    THEN 65536 + (str[k] - 55296) * 1024 + str[k + 1] - 56320
                    ELSE str[k]]
        ELSE <<-1>>
\* WideExact (fill_buffer): a wide string without lone surrogates reaches the
\* lexer as the UTF-8 of its code points, in order, nothing lost.
WideExact ==
    LET points == WidePoints(a.str)
        given == SelectSeq(read, LAMBDA c : c # eof) \o SelectSeq(a.ready, LAMBDA c : c # eof)
        done == WidePoints(SubSeq(a.str, 1, a.current_wchar))
    IN  /\ input.kind # "narrow" /\ WellFormed(points)
        /\ \A i \in DOMAIN points : points[i] <= 1114111
        => a.current_wchar <= Len(a.str) /\ Points(given, FALSE) = done
=============================================================================
