--------------------------- MODULE JsonSerializer ---------------------------
(***************************************************************************)
(* dump() of include/json.hpp: class serializer writes a value as text.    *)
(* A float is what to_chars sees of it: a sign and the decimal digits and  *)
(* exponent that grisu2 delivers ("real"), or not finite ("nan").          *)
(* o are the arguments of the call: pretty, step, ascii, handler and the   *)
(* indent character.  An access beyond an array is Failed(overrun).        *)
(***************************************************************************)
EXTENDS JsonValue, JsonText

CONSTANTS BufferSize,  \* bytes of string_buffer: 512
          IndentSize   \* bytes of indent_string at the start: 512

ASSUME BufferAssumption == BufferSize \in Nat /\ BufferSize > 13
ASSUME IndentAssumption == IndentSize \in Nat \ {0}

overrun == 4
Real(neg, digits, e) == [t |-> "real", neg |-> neg, digits |-> digits, e |-> e]
Nan == [t |-> "nan"]

-----------------------------------------------------------------------------
(* decode: the automaton of UTF-8.                                         *)

UTF8_ACCEPT == 0
UTF8_REJECT == 1
TypeOf(byte) ==
    CASE byte < 128 -> 0 [] byte \in 128 .. 143 -> 1 [] byte \in 144 .. 159 -> 9
      [] byte \in 160 .. 191 -> 7 [] byte \in 194 .. 223 -> 2 [] byte = 224 -> 10
      [] byte = 237 -> 4 [] byte \in 225 .. 239 \ {237} -> 3 [] byte = 240 -> 11
      [] byte \in 241 .. 243 -> 6 [] byte = 244 -> 5 [] OTHER -> 8
\* The states that accept a type, and where it leads; all others reject.
Transition ==
    << <<0, 0, 0>>, <<0, 2, 2>>, <<0, 3, 3>>, <<0, 4, 5>>, <<0, 5, 8>>, <<0, 6, 7>>,
       <<0, 10, 4>>, <<0, 11, 6>>,
       <<2, 1, 0>>, <<2, 7, 0>>, <<2, 9, 0>>, <<3, 1, 2>>, <<3, 7, 2>>, <<3, 9, 2>>,
       <<4, 7, 2>>, <<5, 1, 2>>, <<5, 9, 2>>, <<6, 7, 3>>, <<6, 9, 3>>,
       <<7, 1, 3>>, <<7, 7, 3>>, <<7, 9, 3>>, <<8, 1, 3>> >>
utf8d == [q \in {<<Transition[i][1], Transition[i][2]>> : i \in DOMAIN Transition} |->
            (CHOOSE i \in DOMAIN Transition : SubSeq(Transition[i], 1, 2) = q)]
decode(state, codep, byte) ==
    LET q == <<state, TypeOf(byte)>>
    IN  [state |-> IF q \in DOMAIN utf8d THEN Transition[utf8d[q]][3] ELSE UTF8_REJECT,
         codep |-> IF state # UTF8_ACCEPT THEN (byte % 64) + codep * 64
                   ELSE IF TypeOf(byte) > 8 THEN 0 ELSE byte % 2^(8 - TypeOf(byte))]

-----------------------------------------------------------------------------
(* dump_escaped.  e is where the loop stands: the next index, the state of *)
(* decode, string_buffer up to bytes, the length after the last accepted   *)
(* character, the characters read since, what is written, and an error.    *)

Start == [i |-> 1, state |-> UTF8_ACCEPT, codep |-> 0, buffer |-> <<>>, accepted |-> 0,
          undumped |-> 0, out |-> <<>>, error |-> 0]
\* Room for the bytes, and for the zero that snprintf adds.
Put(e, s, zero) ==
    IF Len(e.buffer) + Len(s) + zero > BufferSize THEN [e EXCEPT !.error = overrun]
    ELSE [e EXCEPT !.buffer = @ \o s]
Flushed(e) ==
    LET f == IF BufferSize - Len(e.buffer) < 13
             THEN [e EXCEPT !.out = @ \o e.buffer, !.buffer = <<>>] ELSE e
    IN  [f EXCEPT !.accepted = Len(f.buffer)]

Hex(n) == IF n < 10 THEN 48 + n ELSE 87 + n
Unicode(u) == <<92, 117, Hex(u \div 4096), Hex((u \div 256) % 16),
                Hex((u \div 16) % 16), Hex(u % 16)>>
Short == [c \in {8, 9, 10, 12, 13, 34, 92} |->
            CASE c = 8 -> 98 [] c = 9 -> 116 [] c = 10 -> 110 [] c = 12 -> 102
              [] c = 13 -> 114 [] OTHER -> c]
\* A code point is complete: it is escaped, or its last byte copied.
Accept(e, byte, o) ==
    LET c == e.codep
        escaped ==
            CASE c \in DOMAIN Short -> Put(e, <<92, Short[c]>>, 0)
              [] c \notin DOMAIN Short /\ (c <= 31 \/ (o.ascii /\ c >= 127)) ->
                   IF c <= 65535 THEN Put(e, Unicode(c), 1)
                   ELSE Put(e, Unicode(55232 + c \div 1024) \o Unicode(56320 + (c % 1024)), 1)
              [] OTHER -> Put(e, <<byte>>, 0)
    IN  [Flushed(escaped) EXCEPT !.undumped = 0]

Replacement(o) == IF o.ascii THEN Unicode(65533) ELSE <<239, 191, 189>>
\* An invalid byte.  After others it is read again, for it may start a character.
\* Variant: it is not.
Skips_byte(e, o) ==
    LET cut == [e EXCEPT !.buffer = SubSeq(@, 1, e.accepted)]
        f == IF o.handler = "replace" THEN Flushed(Put(cut, Replacement(o), 0)) ELSE cut
    IN  IF o.handler = "strict" THEN [e EXCEPT !.error = 316]
        ELSE [f EXCEPT !.undumped = 0, !.state = UTF8_ACCEPT]
Reject(e, o) ==
    LET cut == [e EXCEPT !.i = IF e.undumped > 0 THEN @ - 1 ELSE @,
                         !.buffer = SubSeq(@, 1, e.accepted)]
        f == IF o.handler = "replace" THEN Flushed(Put(cut, Replacement(o), 0)) ELSE cut
    IN  IF o.handler = "strict" THEN [e EXCEPT !.error = 316]
        ELSE [f EXCEPT !.undumped = 0, !.state = UTF8_ACCEPT]
\* A byte of a character that is not complete yet.
Incomplete(e, byte, o) ==
    [IF o.ascii THEN e ELSE Put(e, <<byte>>, 0) EXCEPT !.undumped = @ + 1]

\* The end of the string, inside a character or not.
Finish(e, o) ==
    IF e.state = UTF8_ACCEPT THEN Ok(e.out \o e.buffer, 0)
    ELSE CASE o.handler = "strict" -> Failed(316)
           [] o.handler = "ignore" -> Ok(e.out \o SubSeq(e.buffer, 1, e.accepted), 0)
           [] o.handler = "replace" ->
                Ok(e.out \o SubSeq(e.buffer, 1, e.accepted) \o Replacement(o), 0)

RECURSIVE Escape(_, _, _)
Escape(s, o, e) ==
    IF e.error # 0 THEN Failed(e.error)
    ELSE IF e.i > Len(s) THEN Finish(e, o)
    ELSE LET d == decode(e.state, e.codep, s[e.i])
             f == [e EXCEPT !.state = d.state, !.codep = d.codep, !.i = @ + 1]
         IN  Escape(s, o, IF d.state = UTF8_ACCEPT THEN Accept(f, s[e.i], o)
                          ELSE IF d.state = UTF8_REJECT THEN Reject(f, o)
                          ELSE Incomplete(f, s[e.i], o))
dump_escaped(s, o) == Escape(s, o, Start)

-----------------------------------------------------------------------------
(* Numbers.                                                                *)

\* Eight bytes divided by d, and is b less than n, for n of at most 10000?
Divided(b, d) ==
    LET rest[i \in 0 .. 8] == IF i = 0 THEN 0 ELSE (rest[i - 1] * 256 + b[i]) % d
    IN  [q |-> [i \in 1 .. 8 |-> (rest[i - 1] * 256 + b[i]) \div d], r |-> rest[8]]
Below(b, n) == Size(b) \in 0 .. n - 1
\* std::abs and the cast to unsigned.  std::abs of the lowest integer is undefined;
\* here it is what the usual builds make of it, the number itself.
Negated(b) ==
    LET borrow == {i \in 1 .. 8 : \A j \in i + 1 .. 8 : b[j] = 0}
    IN  [i \in 1 .. 8 |-> IF i \in borrow THEN (256 - b[i]) % 256 ELSE 255 - b[i]]

RECURSIVE count_digits(_), FillDigits(_)
count_digits(b) ==
    IF Below(b, 10) THEN 1 ELSE IF Below(b, 100) THEN 2
    ELSE IF Below(b, 1000) THEN 3 ELSE IF Below(b, 10000) THEN 4
    ELSE 4 + count_digits(Divided(b, 10000).q)
\* digits_to_99
TwoDigits(n) == <<48 + n \div 10, 48 + (n % 10)>>
\* From the end of the buffer, two digits at a time.
FillDigits(b) ==
    IF Below(b, 10) THEN <<48 + Size(b)>> ELSE IF Below(b, 100) THEN TwoDigits(Size(b))
    ELSE FillDigits(Divided(b, 100).q) \o TwoDigits(Divided(b, 100).r)
\* The digits end at n_chars; the zeros of the buffer show where they are too few.
dump_integer(v) ==
    LET negative == v.t = "int" /\ Negative(v.b)
        abs_value == IF negative THEN Negated(v.b) ELSE v.b
        sign == IF negative THEN <<45>> ELSE <<>>
        digits == FillDigits(abs_value)
        gap == count_digits(abs_value) - Len(digits)
    IN  IF gap < 0 THEN Failed(overrun)
        ELSE Ok(sign \o [i \in 1 .. gap |-> 0] \o digits, 0)

Zeros(n) == [i \in 1 .. n |-> 48]
append_exponent(e) ==
    LET k == IF e < 0 THEN -e ELSE e
    IN  <<IF e < 0 THEN 45 ELSE 43>>
        \o (IF k < 100 THEN TwoDigits(k) ELSE <<48 + k \div 100>> \o TwoDigits(k % 100))
format_buffer(buf, decimal_exponent, min_exp, max_exp) ==
    LET k == Len(buf)
        n == k + decimal_exponent
    IN  IF k <= n /\ n <= max_exp THEN buf \o Zeros(n - k) \o <<46, 48>>
        ELSE IF 0 < n /\ n <= max_exp THEN SubSeq(buf, 1, n) \o <<46>> \o SubSeq(buf, n + 1, k)
        ELSE IF min_exp < n /\ n <= 0 THEN <<48, 46>> \o Zeros(-n) \o buf
        ELSE (IF k = 1 THEN buf ELSE <<buf[1], 46>> \o Tail(buf))
             \o <<101>> \o append_exponent(n - 1)
\* kMinExp and kMaxExp (digits10) of a double.
to_chars(v) ==
    (IF v.neg THEN <<45>> ELSE <<>>)
    \o (IF v.digits = <<48>> THEN <<48, 46, 48>> ELSE format_buffer(v.digits, v.e, -4, 15))
null == <<110, 117, 108, 108>>
discarded == <<60, 100, 105, 115, 99, 97, 114, 100, 101, 100, 62>>
dump_float(v) == IF v = Nan THEN null ELSE to_chars(v)

-----------------------------------------------------------------------------
(* dump.  The result is Ok(text, indent_string): that grows and stays.     *)

Newline(o) == IF o.pretty THEN <<10>> ELSE <<>>
Indent(o, n, indent_string) == IF o.pretty THEN SubSeq(indent_string, 1, n) ELSE <<>>
KeyText(item, o) ==
    IF "key" \notin DOMAIN item THEN Ok(<<>>, 0)
    ELSE Then(dump_escaped(item.key, o), LAMBDA s, i :
             Ok(<<34>> \o s \o (IF o.pretty THEN <<34, 58, 32>> ELSE <<34, 58>>), 0))

RECURSIVE dump(_, _, _, _), dump_items(_, _, _, _)
dump_items(items, o, indent, indent_string) ==
    IF items = <<>> THEN Ok(<<>>, indent_string)
    ELSE Then(KeyText(Head(items), o), LAMBDA key, i :
         Then(dump(Head(items).value, o, indent, indent_string), LAMBDA text, ind :
         Then(dump_items(Tail(items), o, indent, ind), LAMBDA rest, last :
             Ok(Indent(o, indent, indent_string) \o key \o text
                  \o (IF Len(items) > 1 THEN <<44>> \o Newline(o) ELSE <<>>) \o rest, last))))
\* If it is too short indent_string is made twice as long, once.
dump_container(items, open, close, o, current_indent, indent_string) ==
    LET new_indent == IF o.pretty THEN current_indent + o.step ELSE current_indent
        grown == IF o.pretty /\ Len(indent_string) < new_indent
                 THEN indent_string \o [i \in DOMAIN indent_string |-> 32] ELSE indent_string
    IN  IF items = <<>> THEN Ok(<<open, close>>, indent_string)
        ELSE IF o.pretty /\ new_indent > Len(grown) THEN Failed(overrun)
        ELSE Then(dump_items(items, o, new_indent, grown), LAMBDA text, ind :
                 Ok(<<open>> \o Newline(o) \o text \o Newline(o)
                      \o Indent(o, current_indent, ind) \o <<close>>, ind))
Items(v) ==
    IF v.t = "array" THEN [i \in DOMAIN v.a |-> [value |-> v.a[i]]]
    ELSE LET keys == KeysOf(v.m)
         IN  [i \in DOMAIN keys |-> [key |-> keys[i], value |-> v.m[keys[i]]]]
dump(v, o, indent, indent_string) ==
    LET Written_as(r) == Then(r, LAMBDA s, i : Ok(s, indent_string))
    IN  CASE v.t = "object" -> dump_container(Items(v), 123, 125, o, indent, indent_string)
          [] v.t = "array" -> dump_container(Items(v), 91, 93, o, indent, indent_string)
          [] v.t = "string" ->
               Written_as(Then(dump_escaped(v.s, o), LAMBDA s, i : Ok(<<34>> \o s \o <<34>>, 0)))
          [] v.t \in {"int", "uint"} -> Written_as(dump_integer(v))
          [] v.t \in {"real", "nan"} -> Ok(dump_float(v), indent_string)
          [] v.t = "boolean" -> Ok(IF v.v THEN <<116, 114, 117, 101>>
                                   ELSE <<102, 97, 108, 115, 101>>, indent_string)
          [] v.t = "null" -> Ok(null, indent_string)
          [] v.t = "discarded" -> Ok(discarded, indent_string)
\* basic_json::dump
Dumped(v, o) == dump(v, o, 0, [i \in 1 .. IndentSize |-> o.char])
=============================================================================
