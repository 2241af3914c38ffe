----------------------------- MODULE JsonBinary -----------------------------
(***************************************************************************)
(* The binary formats of include/json.hpp: binary_writer writes a value as *)
(* CBOR, MessagePack, UBJSON or BSON, binary_reader reads it back.  In     *)
(* between the bytes may be cut short or get a byte more.                  *)
(*                                                                         *)
(* Exceptions are on, as they are by default: the first error ends a call. *)
(***************************************************************************)
EXTENDS JsonValue, FiniteSets

CONSTANTS Values,     \* the values written
          Documents,  \* [format, bytes, ok, v or id]: bytes no writer produces,
                      \* and what they stand for
          ExtraBytes  \* the bytes that may be found after the value

VARIABLES job,        \* what is written: [format, count, type, value], or a document
          bytes,      \* what is written to the output, or found there
          fault,      \* what happened to it: "intact", "cut" or "longer"
          pc,
          res         \* the result of the call

vars == <<job, bytes, fault, pc, res>>

eof == -1
Byte(s, i) == IF i <= Len(s) THEN s[i] ELSE eof

-----------------------------------------------------------------------------
\* write_number: big endian, or little endian for BSON.
LittleEndian(s) == Reverse(s)

-----------------------------------------------------------------------------
(* binary_writer: CBOR.  One head for all: the size follows the lead byte. *)

CborHead(lead, b) ==
    IF FitsU(1, b) /\ b[8] <= 23 THEN <<lead + b[8]>>
    ELSE IF FitsU(1, b) THEN <<lead + 24>> \o Lowest(1, b)
    ELSE IF FitsU(2, b) THEN <<lead + 25>> \o Lowest(2, b)
    ELSE IF FitsU(4, b) THEN <<lead + 26>> \o Lowest(4, b)
    ELSE <<lead + 27>> \o b
write_cbor_integer(b) ==
    IF ~Negative(b) THEN CborHead(0, b) ELSE CborHead(32, Complement(b))
write_cbor_unsigned(b) == CborHead(0, b)
write_cbor_float(f) == <<251>> \o f
write_cbor_string(s) == CborHead(96, Eight(Len(s))) \o s

RECURSIVE write_cbor(_)
write_cbor_array(a) ==
    CborHead(128, Eight(Len(a))) \o FlattenSeq([i \in DOMAIN a |-> write_cbor(a[i])])
write_cbor_object(m) ==
    LET k == KeysOf(m)
    IN  CborHead(160, Eight(Len(k)))
        \o FlattenSeq([i \in DOMAIN k |-> write_cbor_string(k[i]) \o write_cbor(m[k[i]])])
write_cbor(v) ==
    CASE v.t = "null" -> <<246>>
      [] v.t = "boolean" -> IF v.v THEN <<245>> ELSE <<244>>
      [] v.t = "int" -> write_cbor_integer(v.b)
      [] v.t = "uint" -> write_cbor_unsigned(v.b)
      [] v.t = "float" -> write_cbor_float(v.f)
      [] v.t = "string" -> write_cbor_string(v.s)
      [] v.t = "array" -> write_cbor_array(v.a)
      [] v.t = "object" -> write_cbor_object(v.m)

-----------------------------------------------------------------------------
(* binary_writer: MessagePack.                                             *)

write_msgpack_unsigned(b) ==
    IF FitsU(1, b) /\ b[8] < 128 THEN Lowest(1, b)
    ELSE IF FitsU(1, b) THEN <<204>> \o Lowest(1, b)
    ELSE IF FitsU(2, b) THEN <<205>> \o Lowest(2, b)
    ELSE IF FitsU(4, b) THEN <<206>> \o Lowest(4, b)
    ELSE <<207>> \o b
write_msgpack_integer(b) ==
    IF ~Negative(b) THEN write_msgpack_unsigned(b)
    ELSE IF FitsS(1, b) /\ b[8] >= 224 THEN Lowest(1, b)
    ELSE IF FitsS(1, b) THEN <<208>> \o Lowest(1, b)
    ELSE IF FitsS(2, b) THEN <<209>> \o Lowest(2, b)
    ELSE IF FitsS(4, b) THEN <<210>> \o Lowest(4, b)
    ELSE <<211>> \o b
write_msgpack_float(f) == <<203>> \o f
write_msgpack_string(s) ==
    LET b == Eight(Len(s))
    IN  (IF Len(s) <= 31 THEN <<160 + Len(s)>>
         ELSE IF FitsU(1, b) THEN <<217>> \o Lowest(1, b)
         ELSE IF FitsU(2, b) THEN <<218>> \o Lowest(2, b)
         ELSE <<219>> \o Lowest(4, b)) \o s
MsgpackHead(fix, long, n) ==
    IF n <= 15 THEN <<fix + n>>
    ELSE IF FitsU(2, Eight(n)) THEN <<long>> \o Lowest(2, Eight(n))
    ELSE <<long + 1>> \o Lowest(4, Eight(n))

RECURSIVE write_msgpack(_)
write_msgpack_array(a) ==
    MsgpackHead(144, 220, Len(a)) \o FlattenSeq([i \in DOMAIN a |-> write_msgpack(a[i])])
write_msgpack_object(m) ==
    LET k == KeysOf(m)
    IN  MsgpackHead(128, 222, Len(k))
        \o FlattenSeq([i \in DOMAIN k |->
                      write_msgpack_string(k[i]) \o write_msgpack(m[k[i]])])
write_msgpack(v) ==
    CASE v.t = "null" -> <<192>>
      [] v.t = "boolean" -> IF v.v THEN <<195>> ELSE <<194>>
      [] v.t = "int" -> write_msgpack_integer(v.b)
      [] v.t = "uint" -> write_msgpack_unsigned(v.b)
      [] v.t = "float" -> write_msgpack_float(v.f)
      [] v.t = "string" -> write_msgpack_string(v.s)
      [] v.t = "array" -> write_msgpack_array(v.a)
      [] v.t = "object" -> write_msgpack_object(v.m)

-----------------------------------------------------------------------------
(* binary_writer: UBJSON.  A byte of -1 stands for an exception (407).     *)

Overflow == <<-1>>
Prefixed(add, prefix, s) == IF add THEN <<prefix>> \o s ELSE s
write_unsigned_ubjson(b, add) ==
    IF FitsU(1, b) /\ b[8] < 128 THEN Prefixed(add, 105, Lowest(1, b))
    ELSE IF FitsU(1, b) THEN Prefixed(add, 85, Lowest(1, b))
    ELSE IF FitsU(2, b) /\ b[7] < 128 THEN Prefixed(add, 73, Lowest(2, b))
    ELSE IF FitsU(4, b) /\ b[5] < 128 THEN Prefixed(add, 108, Lowest(4, b))
    ELSE IF b[1] < 128 THEN Prefixed(add, 76, b)
    ELSE Overflow
write_signed_ubjson(b, add) ==
    IF FitsS(1, b) THEN Prefixed(add, 105, Lowest(1, b))
    ELSE IF FitsU(1, b) THEN Prefixed(add, 85, Lowest(1, b))
    ELSE IF FitsS(2, b) THEN Prefixed(add, 73, Lowest(2, b))
    ELSE IF FitsS(4, b) THEN Prefixed(add, 108, Lowest(4, b))
    ELSE Prefixed(add, 76, b)

\* The type of a value; L for an unsigned that does not fit.
ubjson_prefix(v) ==
    CASE v.t = "null" -> 90
      [] v.t = "boolean" -> IF v.v THEN 84 ELSE 70
      [] v.t = "int" -> write_signed_ubjson(v.b, TRUE)[1]
      [] v.t = "uint" -> IF Negative(v.b) THEN 76 ELSE write_unsigned_ubjson(v.b, TRUE)[1]
      [] v.t = "float" -> 68
      [] v.t = "string" -> 83
      [] v.t = "array" -> 91
      [] v.t = "object" -> 123

\* $ and the type if all elements have the same, # and the size.
Typed(elements, use_type) ==
    use_type /\ Cardinality({ubjson_prefix(e) : e \in elements}) = 1
UbjsonHead(elements, n, use_count, use_type) ==
    (IF Typed(elements, use_type)
     THEN <<36, ubjson_prefix(CHOOSE e \in elements : TRUE)>> ELSE <<>>)
    \o (IF use_count THEN <<35>> \o write_unsigned_ubjson(Eight(n), TRUE) ELSE <<>>)

RECURSIVE write_ubjson(_, _, _, _)
write_ubjson_array(a, use_count, use_type, add) ==
    Prefixed(add, 91,
        UbjsonHead(Range(a), Len(a), use_count, use_type)
        \o FlattenSeq([i \in DOMAIN a |->
             write_ubjson(a[i], use_count, use_type, ~Typed(Range(a), use_type))])
        \o (IF use_count THEN <<>> ELSE <<93>>))
write_ubjson_object(m, use_count, use_type, add) ==
    LET k == KeysOf(m)
    IN  Prefixed(add, 123,
            UbjsonHead(Range(m), Len(k), use_count, use_type)
            \o FlattenSeq([i \in DOMAIN k |->
                 write_unsigned_ubjson(Eight(Len(k[i])), TRUE) \o k[i]
                 \o write_ubjson(m[k[i]], use_count, use_type, ~Typed(Range(m), use_type))])
            \o (IF use_count THEN <<>> ELSE <<125>>))
write_ubjson(v, use_count, use_type, add) ==
    CASE v.t = "null" -> Prefixed(add, 90, <<>>)
      [] v.t = "boolean" -> Prefixed(add, IF v.v THEN 84 ELSE 70, <<>>)
      [] v.t = "int" -> write_signed_ubjson(v.b, add)
      [] v.t = "uint" -> write_unsigned_ubjson(v.b, add)
      [] v.t = "float" -> Prefixed(add, 68, v.f)
      [] v.t = "string" ->
           Prefixed(add, 83, write_unsigned_ubjson(Eight(Len(v.s)), TRUE) \o v.s)
      [] v.t = "array" -> write_ubjson_array(v.a, use_count, use_type, add)
      [] v.t = "object" -> write_ubjson_object(v.m, use_count, use_type, add)

-----------------------------------------------------------------------------
(* binary_writer: BSON.  calc_bson_* gives the size that write_bson_* then *)
(* writes in front of a document, before its elements are written.         *)

calc_bson_entry_header_size(name) == 1 + Len(name) + 1
calc_bson_string_size(s) == 4 + Len(s) + 1
\* Variant: an int32 is counted as what an unsigned of its size would be.
Counts_negative_as_wide(b) == IF FitsU(4, b) /\ b[5] < 128 THEN 4 ELSE 8
calc_bson_integer_size(b) == IF FitsS(4, b) THEN 4 ELSE 8
calc_bson_unsigned_size(b) == IF FitsU(4, b) /\ b[5] < 128 THEN 4 ELSE 8
RECURSIVE calc_bson_element_size(_, _)
calc_bson_array_size(a) ==
    4 + SumFunction([i \in DOMAIN a |-> calc_bson_element_size(Decimal(i - 1), a[i])]) + 1
calc_bson_object_size(m) ==
    4 + SumFunction([k \in DOMAIN m |-> calc_bson_element_size(k, m[k])]) + 1
calc_bson_element_size(name, v) ==
    calc_bson_entry_header_size(name)
    + CASE v.t = "object" -> calc_bson_object_size(v.m)
        [] v.t = "array" -> calc_bson_array_size(v.a)
        [] v.t = "boolean" -> 1
        [] v.t = "float" -> 8
        [] v.t = "int" -> calc_bson_integer_size(v.b)
        [] v.t = "uint" -> calc_bson_unsigned_size(v.b)
        [] v.t = "string" -> calc_bson_string_size(v.s)
        [] v.t = "null" -> 0

write_bson_entry_header(name, element_type) == <<element_type>> \o name \o <<0>>
write_bson_int32(n) == LittleEndian(Lowest(4, Eight(n)))
write_bson_boolean(name, v) ==
    write_bson_entry_header(name, 8) \o <<IF v THEN 1 ELSE 0>>
write_bson_double(name, f) == write_bson_entry_header(name, 1) \o LittleEndian(f)
write_bson_string(name, s) ==
    write_bson_entry_header(name, 2) \o write_bson_int32(Len(s) + 1) \o s \o <<0>>
write_bson_null(name) == write_bson_entry_header(name, 10)
write_bson_integer(name, b) ==
    IF FitsS(4, b)
    THEN write_bson_entry_header(name, 16) \o LittleEndian(Lowest(4, b))
    ELSE write_bson_entry_header(name, 18) \o LittleEndian(b)
write_bson_unsigned(name, b) ==
    IF FitsU(4, b) /\ b[5] < 128
    THEN write_bson_entry_header(name, 16) \o LittleEndian(Lowest(4, b))
    ELSE IF b[1] < 128 THEN write_bson_entry_header(name, 18) \o LittleEndian(b)
    ELSE Overflow

RECURSIVE write_bson_element(_, _)
write_bson_array(name, a) ==
    write_bson_entry_header(name, 4) \o write_bson_int32(calc_bson_array_size(a))
    \o FlattenSeq([i \in DOMAIN a |-> write_bson_element(Decimal(i - 1), a[i])]) \o <<0>>
write_bson_object(m) ==
    LET k == KeysOf(m)
    IN  write_bson_int32(calc_bson_object_size(m))
        \o FlattenSeq([i \in DOMAIN k |-> write_bson_element(k[i], m[k[i]])]) \o <<0>>
write_bson_element(name, v) ==
    CASE v.t = "object" -> write_bson_entry_header(name, 3) \o write_bson_object(v.m)
      [] v.t = "array" -> write_bson_array(name, v.a)
      [] v.t = "boolean" -> write_bson_boolean(name, v.v)
      [] v.t = "float" -> write_bson_double(name, v.f)
      [] v.t = "int" -> write_bson_integer(name, v.b)
      [] v.t = "uint" -> write_bson_unsigned(name, v.b)
      [] v.t = "string" -> write_bson_string(name, v.s)
      [] v.t = "null" -> write_bson_null(name)

\* calc_bson_entry_header_size throws for a key that holds a zero byte; the size
\* of the whole document is computed before anything of it is written.
RECURSIVE ZeroInKey(_)
ZeroInKey(v) ==
    \/ v.t = "array" /\ \E i \in DOMAIN v.a : ZeroInKey(v.a[i])
    \/ v.t = "object" /\ \E k \in DOMAIN v.m : 0 \in Range(k) \/ ZeroInKey(v.m[k])
write_bson(v) ==
    IF v.t # "object" THEN Failed(317)
    ELSE IF ZeroInKey(v) THEN Failed(409)
    ELSE Ok(write_bson_object(v.m), 0)

-----------------------------------------------------------------------------
(* binary_reader.  i is the index of the next byte.                        *)

\* Variant: the end of the input is not looked for.
Reads_zeros(s, i, k) ==
    Ok([j \in 1 .. k |-> IF i + j - 1 <= Len(s) THEN s[i + j - 1] ELSE 0], i + k)
\* k bytes, in the order of the input; unexpect_eof throws 110.
get_number(s, i, k) ==
    IF i + k - 1 > Len(s) THEN Failed(110) ELSE Ok(SubSeq(s, i, i + k - 1), i + k)
get_unsigned(s, i, k) == Then(get_number(s, i, k), LAMBDA b, j : Ok(ZeroExtended(b), j))
get_signed(s, i, k) == Then(get_number(s, i, k), LAMBDA b, j : Ok(SignExtended(b), j))
\* n bytes; of 2^64 - 1, whose Size is -1, the end of the input comes first.
get_string(s, i, n) == IF n = -1 THEN Failed(110) ELSE get_number(s, i, n)

\* The double with a sign, an exponent and the first 23 bits of its fraction.
Double(sign, e, f) ==
    <<sign * 128 + e \div 16, (e % 16) * 16 + f \div 524288, (f \div 2048) % 256,
      (f \div 8) % 256, (f % 8) * 32, 0, 0, 0>>
HighestBit(m) == CHOOSE h \in 0 .. 23 : 2 ^ h <= m /\ m < 2 ^ (h + 1)
\* m * 2^(low - 1023), for a mantissa without its leading bit.
Subnormal(sign, m, low) ==
    IF m = 0 THEN Double(sign, 0, 0)
    ELSE LET h == HighestBit(m) IN Double(sign, low + h, (m - 2 ^ h) * 2 ^ (23 - h))
\* Half precision, by its two bytes.
HalfPrecision(b) ==
    LET sign == b[1] \div 128
        e == (b[1] \div 4) % 32
        mant == (b[1] % 4) * 256 + b[2]
    IN  CASE e = 0 -> Subnormal(sign, mant, 999)
          [] e = 31 -> Double(sign, 2047, IF mant = 0 THEN 0 ELSE 2 ^ 22)
          [] OTHER -> Double(sign, e + 1008, mant * 8192)
\* float to double, by its four bytes.
SinglePrecision(b) ==
    LET sign == b[1] \div 128
        e == (b[1] % 128) * 2 + b[2] \div 128
        mant == (b[2] % 128) * 65536 + b[3] * 256 + b[4]
    IN  CASE e = 0 -> Subnormal(sign, mant, 874)
          [] e = 255 -> Double(sign, 2047, mant)
          [] OTHER -> Double(sign, e + 896, mant)
get_float(s, i) ==
    Then(get_number(s, i, 4), LAMBDA b, j : Ok(Float(SinglePrecision(b)), j))
get_double(s, i) == Then(get_number(s, i, 8), LAMBDA b, j : Ok(Float(b), j))

\* max_size(), of a vector of 16 byte values and of a map of 80 byte nodes.
\* Bound: a count from 2^24 up to there is read as 2^24 elements.  They end the
\* input with an error unless they take no bytes; no document has such.
Npos == [i \in 1 .. 8 |-> 255]
ArrayMaxSize == <<7, 255, 255, 255, 255, 255, 255, 255>>
ObjectMaxSize == <<1, 153, 153, 153, 153, 153, 153, 153>>
\* start_array, start_object: len, by its eight bytes, is above max_size.
TooLarge(len, max_size) == len # Npos /\ KeyLess(max_size, len)
\* sax->key: of two members with one key the later stays.
WithMember(m, k, v) == (k :> v) @@ m

-----------------------------------------------------------------------------
(* binary_reader: CBOR.                                                    *)

\* The number in the lead byte or after it.
CborSize(s, i) ==
    LET a == s[i] % 32
    IN  IF a <= 23 THEN Ok(Eight(a), i + 1) ELSE get_unsigned(s, i + 1, 2 ^ (a - 24))

RECURSIVE get_cbor_string(_, _), CborChunks(_, _, _)
\* Of indefinite length: chunks until 0xFF.
CborChunks(s, i, acc) ==
    IF Byte(s, i) = 255 THEN Ok(acc, i + 1)
    ELSE Then(get_cbor_string(s, i), LAMBDA c, j : CborChunks(s, j, acc \o c))
get_cbor_string(s, i) ==
    LET c == Byte(s, i)
    IN  CASE c = eof -> Failed(110)
          [] c \in 96 .. 123 -> Then(CborSize(s, i), LAMBDA b, j : get_string(s, j, Size(b)))
          [] c = 127 -> CborChunks(s, i + 1, <<>>)
          [] OTHER -> Failed(113)

RECURSIVE parse_cbor_internal(_, _), CborElements(_, _, _, _), CborMembers(_, _, _, _)
\* n more elements, or until 0xFF if n = -1.
CborElements(s, i, n, acc) ==
    CASE n = 0 -> Ok(Array(acc), i)
      [] n = -1 /\ Byte(s, i) = 255 -> Ok(Array(acc), i + 1)
      [] OTHER -> Then(parse_cbor_internal(s, i), LAMBDA v, j :
                      CborElements(s, j, IF n = -1 THEN n ELSE n - 1, Append(acc, v)))
get_cbor_array(s, i, len) ==
    IF TooLarge(len, ArrayMaxSize) THEN Failed(408) ELSE CborElements(s, i, Size(len), <<>>)
CborMembers(s, i, n, acc) ==
    CASE n = 0 -> Ok(Object(acc), i)
      [] n = -1 /\ Byte(s, i) = 255 -> Ok(Object(acc), i + 1)
      [] OTHER -> Then(get_cbor_string(s, i), LAMBDA k, j :
                  Then(parse_cbor_internal(s, j), LAMBDA v, l :
                      CborMembers(s, l, IF n = -1 THEN n ELSE n - 1, WithMember(acc, k, v))))
get_cbor_object(s, i, len) ==
    IF TooLarge(len, ObjectMaxSize) THEN Failed(408)
    ELSE CborMembers(s, i, Size(len), NoMembers)

\* The ranges of the lead byte; a negative integer is -1 minus the number.
cbor_unsigned(s, i) == Then(CborSize(s, i), LAMBDA b, j : Ok(Unsigned(b), j))
cbor_negative(s, i) == Then(CborSize(s, i), LAMBDA b, j : Ok(Integer(Complement(b)), j))
cbor_array(s, i, c) ==
    IF c = 159 THEN get_cbor_array(s, i + 1, Npos)
    ELSE Then(CborSize(s, i), LAMBDA b, j : get_cbor_array(s, j, b))
cbor_map(s, i, c) ==
    IF c = 191 THEN get_cbor_object(s, i + 1, Npos)
    ELSE Then(CborSize(s, i), LAMBDA b, j : get_cbor_object(s, j, b))
cbor_simple(s, i, c) ==
    CASE c = 244 -> Ok(Bool(FALSE), i + 1)
      [] c = 245 -> Ok(Bool(TRUE), i + 1)
      [] c = 246 -> Ok(Null, i + 1)
      [] c = 249 -> Then(get_number(s, i + 1, 2), LAMBDA b, j : Ok(Float(HalfPrecision(b)), j))
      [] c = 250 -> get_float(s, i + 1)
      [] c = 251 -> get_double(s, i + 1)
      [] OTHER -> Failed(112)
parse_cbor_internal(s, i) ==
    LET c == Byte(s, i)
    IN  CASE c = eof -> Failed(110)
          [] c \in 0 .. 27 -> cbor_unsigned(s, i)
          [] c \in 32 .. 59 -> cbor_negative(s, i)
          [] c \in 96 .. 123 \cup {127} ->
               Then(get_cbor_string(s, i), LAMBDA x, j : Ok(Text(x), j))
          [] c \in 128 .. 155 \cup {159} -> cbor_array(s, i, c)
          [] c \in 160 .. 187 \cup {191} -> cbor_map(s, i, c)
          [] OTHER -> cbor_simple(s, i, c)

-----------------------------------------------------------------------------
(* binary_reader: MessagePack.                                             *)

get_msgpack_string(s, i) ==
    LET c == Byte(s, i)
    IN  CASE c = eof -> Failed(110)
          [] c \in 160 .. 191 -> get_string(s, i + 1, c - 160)
          [] c \in 217 .. 219 -> Then(get_unsigned(s, i + 1, 2 ^ (c - 217)), LAMBDA b, j :
                                     get_string(s, j, Size(b)))
          [] OTHER -> Failed(113)

RECURSIVE parse_msgpack_internal(_, _)
RECURSIVE get_msgpack_array(_, _, _, _), get_msgpack_object(_, _, _, _)
get_msgpack_array(s, i, n, acc) ==
    IF n = 0 THEN Ok(Array(acc), i)
    ELSE Then(parse_msgpack_internal(s, i), LAMBDA v, j :
             get_msgpack_array(s, j, n - 1, Append(acc, v)))
get_msgpack_object(s, i, n, acc) ==
    IF n = 0 THEN Ok(Object(acc), i)
    ELSE Then(get_msgpack_string(s, i), LAMBDA k, j :
         Then(parse_msgpack_internal(s, j), LAMBDA v, l :
             get_msgpack_object(s, l, n - 1, WithMember(acc, k, v))))

msgpack_number(s, i, c) ==
    CASE c \in 204 .. 207 -> Then(get_unsigned(s, i + 1, 2 ^ (c - 204)), LAMBDA b, j :
                                  Ok(Unsigned(b), j))
      [] c \in 208 .. 211 -> Then(get_signed(s, i + 1, 2 ^ (c - 208)), LAMBDA b, j :
                                  Ok(Integer(b), j))
      [] c = 202 -> get_float(s, i + 1)
      [] c = 203 -> get_double(s, i + 1)
msgpack_fixint(i, c) == Ok(Unsigned(Eight(c)), i + 1)
msgpack_negative_fixint(i, c) == Ok(Integer(SignExtended(<<c>>)), i + 1)
msgpack_fixmap(s, i, c) == get_msgpack_object(s, i + 1, c - 128, NoMembers)
msgpack_fixarray(s, i, c) == get_msgpack_array(s, i + 1, c - 144, <<>>)
parse_msgpack_internal(s, i) ==
    LET c == Byte(s, i)
    IN  CASE c = eof -> Failed(110)
          [] c \in 0 .. 127 -> msgpack_fixint(i, c)
          [] c \in 128 .. 143 -> msgpack_fixmap(s, i, c)
          [] c \in 144 .. 159 -> msgpack_fixarray(s, i, c)
          [] c \in 224 .. 255 -> msgpack_negative_fixint(i, c)
          [] c \in 160 .. 191 \cup 217 .. 219 ->
               Then(get_msgpack_string(s, i), LAMBDA x, j : Ok(Text(x), j))
          [] c = 192 -> Ok(Null, i + 1)
          [] c = 194 -> Ok(Bool(FALSE), i + 1)
          [] c = 195 -> Ok(Bool(TRUE), i + 1)
          [] c \in 202 .. 211 -> msgpack_number(s, i, c)
          [] c \in 220 .. 221 -> Then(get_unsigned(s, i + 1, 2 ^ (c - 219)), LAMBDA b, j :
                                     get_msgpack_array(s, j, Size(b), <<>>))
          [] c \in 222 .. 223 -> Then(get_unsigned(s, i + 1, 2 ^ (c - 221)), LAMBDA b, j :
                                     get_msgpack_object(s, j, Size(b), NoMembers))
          [] OTHER -> Failed(112)

-----------------------------------------------------------------------------
(* binary_reader: UBJSON.                                                  *)

\* get_ignore_noop: the index of the next byte that is not N.
RECURSIVE get_ignore_noop(_, _)
get_ignore_noop(s, i) == IF Byte(s, i) = 78 THEN get_ignore_noop(s, i + 1) ELSE i

IntegerTypes == {85, 105, 73, 108, 76}
\* A number of type U, i, I, l or L.
get_ubjson_integer(s, i, type) ==
    CASE type = 85 -> get_unsigned(s, i, 1)
      [] type = 105 -> get_signed(s, i, 1)
      [] type = 73 -> get_signed(s, i, 2)
      [] type = 108 -> get_signed(s, i, 4)
      [] type = 76 -> get_signed(s, i, 8)
\* generate_n does nothing for a negative length.
get_ubjson_string(s, i) ==
    LET c == Byte(s, i)
    IN  CASE c = eof -> Failed(110)
          [] c \in IntegerTypes ->
               Then(get_ubjson_integer(s, i + 1, c), LAMBDA b, j :
                   get_string(s, j, IF Negative(b) THEN 0 ELSE Size(b)))
          [] OTHER -> Failed(113)
\* The end of the input is no length type either.
get_ubjson_size_value(s, i) ==
    LET j == get_ignore_noop(s, i)
    IN  IF Byte(s, j) \in IntegerTypes
        THEN get_ubjson_integer(s, j + 1, Byte(s, j))
        ELSE Failed(113)
\* The size and the type of a container.  Without #, or with a size of -1, which
\* is npos, the elements go on until the closing bracket; they begin with the
\* byte read last.
Sized(s, i, type) ==
    Then(get_ubjson_size_value(s, i), LAMBDA len, j :
        Ok([len |-> len, type |-> type], IF len = Npos THEN j - 1 ELSE j))
get_ubjson_size_type(s, i) ==
    LET j == get_ignore_noop(s, i)
        h == get_ignore_noop(s, j + 2)
    IN  CASE Byte(s, j) = 36 /\ Byte(s, j + 1) = eof -> Failed(110)
          [] Byte(s, j) = 36 /\ Byte(s, j + 1) # eof ->
               (CASE Byte(s, h) = 35 -> Sized(s, h + 1, Byte(s, j + 1))
                  [] Byte(s, h) = eof -> Failed(110)
                  [] OTHER -> Failed(112))
          [] Byte(s, j) = 35 -> Sized(s, j + 1, 0)
          [] OTHER -> Ok([len |-> Npos, type |-> 0], j)

RECURSIVE get_ubjson_value(_, _, _)
RECURSIVE UbjsonElements(_, _, _, _, _), UbjsonMembers(_, _, _, _, _)
\* parse_ubjson_internal, for an element of a container of type (0: none).
parse_ubjson_internal(s, i, type) ==
    IF type # 0 THEN get_ubjson_value(s, i, type)
    ELSE LET j == get_ignore_noop(s, i) IN get_ubjson_value(s, j + 1, Byte(s, j))
UbjsonElements(s, i, n, type, acc) ==
    CASE n = 0 -> Ok(Array(acc), i)
      [] n = -1 /\ Byte(s, i) = 93 -> Ok(Array(acc), i + 1)
      [] n = -1 /\ Byte(s, i) # 93 ->
           Then(get_ubjson_value(s, i + 1, Byte(s, i)), LAMBDA v, j :
               UbjsonElements(s, get_ignore_noop(s, j), -1, type, Append(acc, v)))
      [] OTHER -> Then(parse_ubjson_internal(s, i, type), LAMBDA v, j :
                      UbjsonElements(s, j, n - 1, type, Append(acc, v)))
\* Variant: the no-ops of an array are read.
Reads_noops(s, i) ==
    Then(get_ubjson_size_type(s, i), LAMBDA st, j :
        IF TooLarge(st.len, ArrayMaxSize) THEN Failed(408)
        ELSE UbjsonElements(s, j, Size(st.len), st.type, <<>>))
\* An array of no-ops has none of them.
get_ubjson_array(s, i) ==
    Then(get_ubjson_size_type(s, i), LAMBDA st, j :
        IF TooLarge(st.len, ArrayMaxSize) THEN Failed(408)
        ELSE UbjsonElements(s, j, IF st.type = 78 /\ st.len # Npos THEN 0 ELSE Size(st.len),
                            st.type, <<>>))
UbjsonMembers(s, i, n, type, acc) ==
    CASE n = 0 -> Ok(Object(acc), i)
      [] n = -1 /\ Byte(s, i) = 125 -> Ok(Object(acc), i + 1)
      [] n = -1 /\ Byte(s, i) # 125 ->
           Then(get_ubjson_string(s, i), LAMBDA k, j :
           Then(parse_ubjson_internal(s, j, 0), LAMBDA v, l :
               UbjsonMembers(s, get_ignore_noop(s, l), -1, type, WithMember(acc, k, v))))
      [] OTHER ->
           Then(get_ubjson_string(s, i), LAMBDA k, j :
           Then(parse_ubjson_internal(s, j, type), LAMBDA v, l :
               UbjsonMembers(s, l, n - 1, type, WithMember(acc, k, v))))
get_ubjson_object(s, i) ==
    Then(get_ubjson_size_type(s, i), LAMBDA st, j :
        IF TooLarge(st.len, ObjectMaxSize) THEN Failed(408)
        ELSE UbjsonMembers(s, j, Size(st.len), st.type, NoMembers))
get_ubjson_char(s, i) ==
    CASE Byte(s, i) = eof -> Failed(110)
      [] Byte(s, i) > 127 -> Failed(113)
      [] OTHER -> Ok(Text(<<s[i]>>), i + 1)
get_ubjson_value(s, i, prefix) ==
    CASE prefix = eof -> Failed(110)
      [] prefix = 84 -> Ok(Bool(TRUE), i)
      [] prefix = 70 -> Ok(Bool(FALSE), i)
      [] prefix = 90 -> Ok(Null, i)
      [] prefix \in IntegerTypes ->
           Then(get_ubjson_integer(s, i, prefix), LAMBDA b, j :
               Ok(IF prefix = 85 THEN Unsigned(b) ELSE Integer(b), j))
      [] prefix = 100 -> get_float(s, i)
      [] prefix = 68 -> get_double(s, i)
      [] prefix = 67 -> get_ubjson_char(s, i)
      [] prefix = 83 -> Then(get_ubjson_string(s, i), LAMBDA x, j : Ok(Text(x), j))
      [] prefix = 91 -> get_ubjson_array(s, i)
      [] prefix = 123 -> get_ubjson_object(s, i)
      [] OTHER -> Failed(112)

-----------------------------------------------------------------------------
(* binary_reader: BSON.  The sizes of documents are read and not used.     *)

get_bson_number(s, i, k) ==
    Then(get_number(s, i, k), LAMBDA b, j : Ok(LittleEndian(b), j))
\* Up to the next zero byte.
RECURSIVE get_bson_cstr(_, _, _)
get_bson_cstr(s, i, acc) ==
    CASE Byte(s, i) = eof -> Failed(110)
      [] Byte(s, i) = 0 -> Ok(acc, i + 1)
      [] OTHER -> get_bson_cstr(s, i + 1, Append(acc, s[i]))
\* len counts the zero byte after the string; when that one is missing the
\* call fails without an exception.
get_bson_string(s, i, len) ==
    IF Negative(len) \/ Size(len) = 0 THEN Failed(112)
    ELSE Then(get_string(s, i, Size(len) - 1), LAMBDA x, j :
             IF Byte(s, j) = eof THEN Failed(0) ELSE Ok(x, j + 1))

RECURSIVE parse_bson_element_internal(_, _, _), parse_bson_element_list(_, _, _)
\* Variant: the key of an element is kept for the next one.
Key_not_cleared(s, i, acc) ==
    CASE Byte(s, i) = 0 -> Ok(acc, i + 1)
      [] Byte(s, i) = eof -> Failed(110)
      [] OTHER ->
           Then(get_bson_cstr(s, i + 1, IF acc = <<>> THEN <<>> ELSE Last(acc).key),
                LAMBDA k, j :
           Then(parse_bson_element_internal(s, j, s[i]), LAMBDA v, l :
               parse_bson_element_list(s, l, Append(acc, [key |-> k, value |-> v]))))
\* The keys and values, of an array too.
parse_bson_element_list(s, i, acc) ==
    CASE Byte(s, i) = 0 -> Ok(acc, i + 1)
      [] Byte(s, i) = eof -> Failed(110)
      [] OTHER ->
           Then(get_bson_cstr(s, i + 1, <<>>), LAMBDA k, j :
           Then(parse_bson_element_internal(s, j, s[i]), LAMBDA v, l :
               parse_bson_element_list(s, l, Append(acc, [key |-> k, value |-> v]))))
parse_bson_internal(s, i) ==
    Then(get_bson_number(s, i, 4), LAMBDA size, j :
    Then(parse_bson_element_list(s, j, <<>>), LAMBDA ms, l :
        Ok(Object(FoldLeft(LAMBDA m, e : WithMember(m, e.key, e.value), NoMembers, ms)), l)))
parse_bson_array(s, i) ==
    Then(get_bson_number(s, i, 4), LAMBDA size, j :
    Then(parse_bson_element_list(s, j, <<>>), LAMBDA ms, l :
        Ok(Array([n \in DOMAIN ms |-> ms[n].value]), l)))
\* A boolean at the end of the input is true; the list then misses its end.
parse_bson_element_internal(s, i, element_type) ==
    CASE element_type = 1 ->
           Then(get_bson_number(s, i, 8), LAMBDA b, j : Ok(Float(b), j))
      [] element_type = 2 ->
           Then(get_bson_number(s, i, 4), LAMBDA b, j :
           Then(get_bson_string(s, j, SignExtended(b)), LAMBDA x, l : Ok(Text(x), l)))
      [] element_type = 3 -> parse_bson_internal(s, i)
      [] element_type = 4 -> parse_bson_array(s, i)
      [] element_type = 8 -> Ok(Bool(Byte(s, i) # 0), i + 1)
      [] element_type = 10 -> Ok(Null, i)
      [] element_type = 16 ->
           Then(get_bson_number(s, i, 4), LAMBDA b, j : Ok(Integer(SignExtended(b)), j))
      [] element_type = 18 ->
           Then(get_bson_number(s, i, 8), LAMBDA b, j : Ok(Integer(b), j))
      [] OTHER -> Failed(114)

-----------------------------------------------------------------------------
(* The calls: to_cbor, to_msgpack, to_ubjson, to_bson; from_cbor, ...      *)

Written(j) ==
    CASE j.format = "cbor" -> Ok(write_cbor(j.value), 0)
      [] j.format = "msgpack" -> Ok(write_msgpack(j.value), 0)
      [] j.format = "ubjson" -> Ok(write_ubjson(j.value, j.count, j.type, TRUE), 0)
      [] j.format = "bson" -> write_bson(j.value)
parse(format, s) ==
    CASE format = "cbor" -> parse_cbor_internal(s, 1)
      [] format = "msgpack" -> parse_msgpack_internal(s, 1)
      [] format = "ubjson" -> parse_ubjson_internal(s, 1, 0)
      [] format = "bson" -> parse_bson_internal(s, 1)
\* In strict mode the input ends after the value, with UBJSON after no-ops.
sax_parse(format, s, strict) ==
    Then(parse(format, s), LAMBDA v, i :
        LET e == IF format = "ubjson" THEN get_ignore_noop(s, i) ELSE i
        IN  IF strict /\ Byte(s, e) # eof THEN Failed(110) ELSE Ok(v, i))

Formats == {[format |-> f, count |-> FALSE, type |-> FALSE] :
                f \in {"cbor", "msgpack", "ubjson", "bson"}}
           \cup {[format |-> "ubjson", count |-> TRUE, type |-> t] : t \in BOOLEAN}
None == [ok |-> FALSE, id |-> -1]

Init == /\ \/ /\ job \in {("value" :> v) @@ f : f \in Formats, v \in Values}
              /\ bytes = <<>> /\ pc = "write"
           \/ /\ job \in Documents
              /\ bytes = job.bytes /\ pc = "read"
        /\ fault = "intact" /\ res = None

\* to_*: an exception leaves no bytes to the caller.
Write == /\ pc = "write"
         /\ LET w == Written(job)
            IN  IF w.ok /\ -1 \notin Range(w.v)
                THEN /\ bytes' = w.v /\ pc' = "read" /\ UNCHANGED res
                ELSE /\ res' = IF w.ok THEN Failed(407) ELSE w
                     /\ pc' = "thrown" /\ UNCHANGED bytes
         /\ UNCHANGED <<job, fault>>

\* Of the bytes written only the first ones arrive, or one more.
Arriving == pc = "read" /\ fault = "intact" /\ "value" \in DOMAIN job
Cut == /\ Arriving
       /\ \E n \in 0 .. Len(bytes) - 1 : bytes' = SubSeq(bytes, 1, n)
       /\ fault' = "cut" /\ UNCHANGED <<job, pc, res>>
Longer == /\ Arriving
          /\ \E b \in ExtraBytes : bytes' = Append(bytes, b)
          /\ fault' = "longer" /\ UNCHANGED <<job, pc, res>>

\* from_*, strict or not.
Read(strict) == /\ pc = "read"
                /\ res' = sax_parse(job.format, bytes, strict)
                /\ pc' = IF strict THEN "strict" ELSE "lenient"
                /\ UNCHANGED <<job, bytes, fault>>

Next == Write \/ Cut \/ Longer \/ \E strict \in BOOLEAN : Read(strict)

Spec == Init /\ [][Next]_vars

-----------------------------------------------------------------------------
(* Properties.                                                             *)

IsRead == pc \in {"strict", "lenient"}
IsWritten == "value" \in DOMAIN job

RECURSIVE SubValues(_)
SubValues(v) ==
    {v} \cup (IF v.t = "array" THEN UNION {SubValues(e) : e \in Range(v.a)}
             ELSE IF v.t = "object" THEN UNION {SubValues(e) : e \in Range(v.m)} ELSE {})
NotInInt64(v) == \E w \in SubValues(v) : w.t = "uint" /\ Negative(w.b)
NotInBson(v) ==
    \/ v.t # "object"
    \/ \E w \in SubValues(v) : w.t = "object" /\ \E k \in DOMAIN w.m : 0 \in Range(k)
\* The error a format must report for a value it cannot hold (json.hpp, 19649),
\* 0 if it can hold it: 317 for BSON of no object, 409 for a zero in a key, 407
\* for a number above int64 in UBJSON and BSON.
Refusal(j) ==
    CASE j.format = "bson" /\ j.value.t # "object" -> 317
      [] j.format = "bson" /\ j.value.t = "object" /\ NotInBson(j.value) -> 409
      [] j.format \in {"ubjson", "bson"} /\ NotInInt64(j.value)
           /\ ~(j.format = "bson" /\ NotInBson(j.value)) -> 407
      [] OTHER -> 0
\* What follows the value is an error in strict mode, but for a no-op of UBJSON.
Surplus == fault = "longer" /\ pc = "strict" /\ ~(job.format = "ubjson" /\ Last(bytes) = 78)

\* What to_cbor, to_msgpack, to_ubjson or to_bson wrote is read back by the
\* from_ of the format as the same value, whatever follows it, and exactly the
\* values that a format cannot hold are refused when they are written.  The
\* integers are those at all limits of the encodings; the lengths reach the
\* limits up to 256 bytes of a string and 24 elements or members.
RoundTrip ==
    IsWritten =>
        /\ pc = "thrown" => res.id = Refusal(job)
        /\ IsRead => Refusal(job) = 0
        /\ IsRead /\ fault # "cut" =>
             IF Surplus THEN res = Failed(110) ELSE res.ok /\ Same(res.v, job.value)

\* No proper prefix of what was written is read as a value, in any format and
\* strict or not: each loop of the reader looks for the end of the input.
PrefixRejected == IsRead /\ fault = "cut" => ~res.ok

\* The size that BSON writes in front of a document, computed before the document
\* is written, is its length.  The outermost one is looked at, into which those
\* of all documents within it count; the reader would not notice a wrong one.
BsonSizes ==
    IsWritten /\ job.format = "bson" /\ pc = "read" /\ fault = "intact" =>
        LittleEndian(SubSeq(bytes, 1, 4)) = Lowest(4, Eight(Len(bytes)))

\* Documents no writer of this library produces (indefinite lengths, no-ops, half
\* and single precision, wider numbers than needed) are read as what they mean,
\* ill-formed ones and lengths beyond the input are refused with the error that
\* fits.  Four ill-formed ones are expected to be read, as the code does: a
\* negative length of a UBJSON string as 0, a count of 2^64 - 1 in CBOR as an
\* indefinite one, a BSON size that is wrong, a BSON boolean beyond 0 and 1.
DocumentsRead ==
    IsRead /\ ~IsWritten =>
        IF job.ok THEN res.ok /\ Same(res.v, job.v) ELSE ~res.ok /\ res.id = job.id
=============================================================================
