----------------------------- MODULE JsonValue ------------------------------
(***************************************************************************)
(* The values of basic_json (include/json.hpp).  An integer is its eight   *)
(* bytes, the highest first, in two's complement where it is signed ("int")*)
(* and not where it is unsigned ("uint"), so all limits are those of the   *)
(* C++ types.  A double is its eight bytes.  A string is a sequence of     *)
(* bytes, an object a function from keys.                                  *)
(***************************************************************************)
EXTENDS Integers, Sequences, SequencesExt, Folds, TLC

(* Eight byte integers.                                                    *)

\* Does b fit k bytes, unsigned or signed?
FitsU(k, b) == \A i \in 1 .. 8 - k : b[i] = 0
FitsS(k, b) == \A i \in 1 .. 8 - k : b[i] = IF b[9 - k] >= 128 THEN 255 ELSE 0
Lowest(k, b) == SubSeq(b, 9 - k, 8)
Negative(b) == b[1] >= 128
\* -1 - b
Complement(b) == [i \in 1 .. 8 |-> 255 - b[i]]
\* A length, and the eight bytes read as one: -1 for the highest of size_t,
\* which is npos, and Huge for all others from 2^24 on, more than any input holds.
Eight(n) == <<0, 0, 0, 0, 0, n \div 65536, (n \div 256) % 256, n % 256>>
Huge == 2 ^ 24
Size(b) == IF \A i \in 1 .. 8 : b[i] = 255 THEN -1
           ELSE IF \E i \in 1 .. 5 : b[i] # 0 THEN Huge
           ELSE b[6] * 65536 + b[7] * 256 + b[8]
ZeroExtended(s) == [i \in 1 .. 8 - Len(s) |-> 0] \o s
SignExtended(s) == [i \in 1 .. 8 - Len(s) |-> IF s[1] >= 128 THEN 255 ELSE 0] \o s

Null == [t |-> "null"]
Bool(v) == [t |-> "boolean", v |-> v]
Integer(b) == [t |-> "int", b |-> b]
Unsigned(b) == [t |-> "uint", b |-> b]
Float(b) == [t |-> "float", f |-> b]
Text(s) == [t |-> "string", s |-> s]
Array(a) == [t |-> "array", a |-> a]
Object(m) == [t |-> "object", m |-> m]
NoMembers == [k \in {} |-> Null]

\* std::map: the keys in lexicographic order.
KeyLess(k, l) ==
    \E n \in 0 .. Len(k) :
        /\ n < Len(l) /\ SubSeq(k, 1, n) = SubSeq(l, 1, n)
        /\ n = Len(k) \/ k[n + 1] < l[n + 1]
KeysOf(m) ==
    MapThenFoldSet(LAMBDA k, ks : <<k>> \o ks, <<>>, LAMBDA k : k,
                   LAMBDA S : CHOOSE k \in S : \A l \in S \ {k} : KeyLess(k, l), DOMAIN m)

\* std::to_string(array_index), for the indices below 100.
Decimal(n) ==
    (IF n >= 10 THEN <<48 + n \div 10>> ELSE <<>>) \o <<48 + (n % 10)>>

\* The outcome of a call: ok with what was read and the next byte's index, or
\* an error with the id of its exception (0: false is returned, none thrown).
Ok(v, i) == [ok |-> TRUE, v |-> v, i |-> i]
Failed(id) == [ok |-> FALSE, id |-> id]
\* A call that goes on only when the one before it succeeded.
Then(r, Next_call(_, _)) == IF r.ok THEN Next_call(r.v, r.i) ELSE r

\* Equal values: a number is the same whether it is read as signed or not.
RECURSIVE Same(_, _)
Same(v, w) ==
    IF {v.t, w.t} \subseteq {"int", "uint"}
    THEN v.b = w.b /\ (v.t = w.t \/ ~Negative(v.b))
    ELSE /\ v.t = w.t
         /\ CASE v.t = "array" ->
                   /\ DOMAIN v.a = DOMAIN w.a
                   /\ \A i \in DOMAIN v.a : Same(v.a[i], w.a[i])
              [] v.t = "object" ->
                   /\ DOMAIN v.m = DOMAIN w.m
                   /\ \A k \in DOMAIN v.m : Same(v.m[k], w.m[k])
              [] OTHER -> v = w
=============================================================================
