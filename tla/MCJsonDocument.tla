---------------------------- MODULE MCJsonDocument ---------------------------
(* The values the calls are made with: the limits of the encodings, and    *)
(* small documents of all shapes.                                          *)
EXTENDS JsonDocument

\* 0, 23, 24, ... as eight bytes: where an encoding changes, and one further.
Limits ==
    {Eight(n) : n \in {0, 1, 23, 24, 127, 128, 255, 256, 32767, 32768, 65535, 65536}}
    \cup {<<0, 0, 0, 0, 127, 255, 255, 255>>, <<0, 0, 0, 0, 128, 0, 0, 0>>,
          <<0, 0, 0, 0, 255, 255, 255, 255>>, <<0, 0, 0, 1, 0, 0, 0, 0>>,
          <<127, 255, 255, 255, 255, 255, 255, 255>>}
\* -1, -24, -25, -32, -33, -128, -129, ... are -1 - n.
NegativeLimits ==
    {Complement(b) : b \in Limits \cup {Eight(31), Eight(32)}}
AboveInt64 == {<<128, 0, 0, 0, 0, 0, 0, 0>>, <<255, 255, 255, 255, 255, 255, 255, 255>>}

Zero == Unsigned(Eight(0))
Letters(n) == [i \in 1 .. n |-> 97 + (i % 26)]
Numbers == {Integer(b) : b \in Limits \cup NegativeLimits}
           \cup {Unsigned(b) : b \in Limits \cup AboveInt64}
Half == Float(<<63, 224, 0, 0, 0, 0, 0, 0>>)
Scalars == Numbers \cup {Null, Bool(TRUE), Bool(FALSE), Half, Text(<<0>>)}
           \cup {Text(Letters(n)) : n \in {0, 1, 23, 24, 31, 32, 127, 128, 255, 256}}

\* n elements, a few of one type and some of each.
Repeated(n, v) == Array([i \in 1 .. n |-> v])
Numbered(n) == Object([k \in {Decimal(i) : i \in 1 .. n} |-> Zero])
A == <<97>>
Nested == {Array(<<Array(<<>>), Array(<<Null, Zero>>)>>),
           Array(<<Object(NoMembers), Object(A :> Bool(TRUE))>>),
           Object(A :> Object(A :> Array(<<Zero, Text(A)>>)) @@ <<>> :> Half),
           Object(<<97, 0>> :> Null), Array(<<Object(<<0>> :> Zero)>>),
           Object(A :> Object(<<0>> :> Unsigned(<<255, 0, 0, 0, 0, 0, 0, 0>>))),
           Object(A :> Zero @@ <<97, 97>> :> Integer(Eight(200)) @@ <<98>> :> Text(A))}
MCValues ==
    Scalars \cup Nested
    \cup {Array(<<v, w>>) : v \in Numbers \cup {Bool(TRUE)},
                           w \in {Unsigned(Eight(100)), Integer(Eight(200)), Bool(TRUE)}}
    \cup {Object(A :> v) : v \in Scalars}
    \cup {Repeated(n, Zero) : n \in {0, 15, 16, 17, 23, 24}}
    \cup {Repeated(n, Null) : n \in {1, 16}}
    \cup {Object(A :> Repeated(n, Zero)) : n \in {0, 10, 11}}
    \cup {Numbered(n) : n \in {15, 16, 24}} \cup {Object(NoMembers)}

Reads(f, s, v) == [format |-> f, bytes |-> s, ok |-> TRUE, v |-> v]
Refused(f, s, id) == [format |-> f, bytes |-> s, ok |-> FALSE, id |-> id]
OneHalf(f, s) == Reads(f, s, Half)
Members == Object(A :> Zero @@ <<98>> :> Null)
MCDocuments ==
    { \* indefinite lengths: an array, an object, a string in chunks, and their ends
      Reads("cbor", <<159, 0, 246, 255>>, Array(<<Zero, Null>>)),
      Reads("cbor", <<191, 97, 97, 0, 97, 98, 246, 255>>, Members),
      Reads("cbor", <<127, 97, 97, 96, 98, 98, 99, 255>>, Text(<<97, 98, 99>>)),
      Refused("cbor", <<159, 0>>, 110), Refused("cbor", <<127, 97>>, 110),
      Refused("cbor", <<191, 0, 0, 255>>, 113), Refused("cbor", <<127, 0, 255>>, 113),
      Refused("cbor", <<255>>, 112), Refused("cbor", <<28>>, 112), Refused("cbor", <<64>>, 112),
      \* lengths of 2^24, at and above max_size, and the highest, which is npos
      Refused("cbor", <<123>> \o Npos, 110), Refused("cbor", <<122, 1, 0, 0, 0, 97>>, 110),
      Refused("cbor", <<161, 123>> \o Npos, 110),
      Refused("cbor", <<155>> \o ArrayMaxSize, 110), Refused("cbor", <<187>> \o ObjectMaxSize, 110),
      Refused("cbor", <<155, 8, 0, 0, 0, 0, 0, 0, 0>>, 408),
      Refused("cbor", <<187, 2, 0, 0, 0, 0, 0, 0, 0>>, 408),
      Reads("cbor", <<155>> \o Npos \o <<0, 255>>, Array(<<Zero>>)),
      \* a number wider than needed, a duplicate key
      Reads("cbor", <<25, 0, 1>>, Unsigned(Eight(1))),
      Reads("cbor", <<58, 0, 0, 0, 1>>, Integer(Complement(Eight(1)))),
      Reads("cbor", <<162, 97, 97, 246, 97, 97, 0>>, Object(A :> Zero)),
      \* half and single precision: normal, subnormal, infinite
      OneHalf("cbor", <<249, 56, 0>>), OneHalf("cbor", <<250, 63, 0, 0, 0>>),
      Reads("cbor", <<249, 129, 0>>, Float(<<190, 240, 0, 0, 0, 0, 0, 0>>)),
      Reads("cbor", <<249, 252, 0>>, Float(<<255, 240, 0, 0, 0, 0, 0, 0>>)),
      Reads("cbor", <<250, 0, 64, 0, 0>>, Float(<<56, 0, 0, 0, 0, 0, 0, 0>>)),
      Reads("cbor", <<250, 127, 128, 0, 0>>, Float(<<127, 240, 0, 0, 0, 0, 0, 0>>)),
      OneHalf("msgpack", <<202, 63, 0, 0, 0>>),
      Reads("msgpack", <<221, 0, 0, 0, 1, 192>>, Array(<<Null>>)),
      Reads("msgpack", <<223, 0, 0, 0, 1, 219, 0, 0, 0, 1, 97, 0>>, Object(A :> Zero)),
      Refused("msgpack", <<193>>, 112), Refused("msgpack", <<129, 0, 0>>, 113),
      Refused("msgpack", <<212, 0, 0>>, 112),
      \* no-ops, a char, a single, an array of no-ops, sizes below zero
      Reads("ubjson", <<78, 91, 78, 90, 78, 105, 0, 78, 93, 78>>, Array(<<Null, Zero>>)),
      Reads("ubjson", <<123, 78, 105, 1, 97, 78, 105, 0, 78, 125>>, Object(A :> Zero)),
      Refused("ubjson", <<123, 35, 105, 1, 78, 105, 1, 97, 90>>, 113),
      Reads("ubjson", <<67, 97>>, Text(A)), Refused("ubjson", <<67, 128>>, 113),
      OneHalf("ubjson", <<100, 63, 0, 0, 0>>),
      Reads("ubjson", <<91, 36, 78, 35, 105, 3>>, Array(<<>>)),
      Reads("ubjson", <<91, 36, 90, 35, 105, 2>>, Array(<<Null, Null>>)),
      Reads("ubjson", <<123, 36, 105, 35, 85, 1, 85, 1, 97, 0>>, Object(A :> Zero)),
      Reads("ubjson", <<83, 105, 255>>, Text(<<>>)),
      Refused("ubjson", <<91, 35, 105, 254>>, 408), Refused("ubjson", <<91, 35, 105, 255>>, 112),
      Refused("ubjson", <<123, 35, 105, 255>>, 113), Refused("ubjson", <<91, 36, 105, 90>>, 112),
      Refused("ubjson", <<91, 35, 108, 1, 0, 0, 0>>, 110),
      Refused("ubjson", <<91, 35, 90>>, 113), Refused("ubjson", <<72>>, 112),
      \* an array's keys are not looked at, its size neither; unsupported types
      Reads("bson", <<0, 0, 0, 0, 4, 97, 0, 9, 9, 9, 9, 10, 55, 0, 0, 0>>,
            Object(A :> Array(<<Null>>))),
      Reads("bson", <<5, 0, 0, 0, 8, 97, 0, 7, 0>>, Object(A :> Bool(TRUE))),
      Refused("bson", <<5, 0, 0, 0, 5, 97, 0, 0>>, 114),
      Refused("bson", <<5, 0, 0, 0, 2, 97, 0, 0, 0, 0, 0, 0, 0>>, 112) }

-----------------------------------------------------------------------------
(* Values to diff, patch and flatten: keys that look like indices, hold / or *)
(* ~ or are empty; arrays of different lengths; two levels.                *)

One == Unsigned(Eight(1))
Minus == Integer(Complement(Eight(0)))
Leaves == {Null, One, Minus}
Keys == {<<>>, A, <<126>>, <<126, 49>>, <<47>>, <<49>>}
SmallArrays(vs) == {Array(<<>>)} \cup {Array(<<v>>) : v \in vs} \cup {Array(<<v, w>>) : v, w \in vs}
SmallObjects(vs) ==
    {Object(NoMembers)} \cup {Object(k :> v) : k \in Keys, v \in vs}
    \cup {Object(A :> v @@ k :> w) : k \in Keys \ {A}, v \in vs, w \in vs}
Shallow == Leaves \cup {Array(<<>>), Array(<<One, Null>>), Array(<<One, One, Minus>>),
                        Object(NoMembers), Object(A :> One), Object(A :> Null @@ <<126, 49>> :> One)}
Deep ==
    Shallow \cup SmallArrays({Null, One})
    \cup {Array(<<v>>) : v \in Shallow} \cup {Array(<<One, v>>) : v \in Shallow}
    \cup {Array(<<v, Null, One>>) : v \in Shallow}
    \cup {Object(A :> v) : v \in Shallow} \cup {Object(<<47>> :> v @@ A :> One) : v \in Shallow}
    \cup SmallObjects({One, Null})
MCPairs == {[source |-> v, target |-> w] : v \in Deep, w \in Deep}

Elements(n) == Array([i \in 1 .. n |-> Unsigned(Eight(i))])
MCFlats ==
    {[flat |-> v] : v \in Deep \cup {Elements(12), Object(A :> Elements(11)),
                                     Array(<<Elements(11), Object(<<48>> :> One)>>),
                                     Object(<<48>> :> One @@ <<45>> :> Null),
                                     Object(<<48, 49>> :> One @@ <<45>> :> Null)}}

\* Moves within one document, all pairs of its references and those next to them.
Movable == Object(A :> Array(<<One, Minus, Object(<<126>> :> Null)>>)
                  @@ <<47>> :> Object(<<49>> :> One @@ A :> Array(<<>>)))
Under(p, ks) == {p \o Slash \o k : k \in ks}
Digits2 == {<<48>>, <<49>>, <<50>>, <<51>>}
References ==
    Under(<<>>, {A, <<126, 49>>, <<98>>})
    \cup Under(Slash \o A, Digits2 \cup {Dash})
    \cup Under(Slash \o A \o Slash \o <<50>>, {<<126, 48>>, A})
    \cup Under(Slash \o A \o Slash \o <<49>>, {<<126, 48>>, A})
    \cup Under(Slash \o <<126, 49>>, {<<49>>, A, <<98>>})
    \cup Under(Slash \o <<126, 49>> \o Slash \o A, {<<48>>, Dash})
MCMoves == {[source |-> Movable, from |-> f, path |-> p] : f \in References, p \in References}

-----------------------------------------------------------------------------
(* Values to dump: strings of all pieces of characters, by three or four.  *)

Pieces == {97, 34, 31, 127, 128, 191, 195, 224, 160, 237, 240, 144, 255}
Bytes3 == {s \in [1 .. 3 -> Pieces] : TRUE}
Long(s) == [i \in 1 .. 15 |-> 97] \o s
Strings ==
    {<<>>} \cup {<<b>> : b \in 0 .. 255} \cup Bytes3
    \cup {Letters(n) \o s : n \in 0 .. 5,
          s \in {<<240, 159, 152, 128>>, <<224, 160, 128>>, <<195, 191, 10, 0>>,
                 <<240, 159, 152>>, <<237, 160, 128>>, <<255, 240, 159>>, <<34, 92, 8, 31>>}}
Opts(pretty, step, ch) ==
    {[pretty |-> pretty, step |-> step, char |-> ch, ascii |-> a, handler |-> h] :
        a \in BOOLEAN, h \in {"strict", "replace", "ignore"}}
Plain == [pretty |-> FALSE, step |-> 0, char |-> 32, ascii |-> FALSE, handler |-> "strict"]
Digits17 == <<49, 50, 51, 52, 53, 54, 55, 56, 57, 48, 49, 50, 51, 52, 53, 54, 55>>
Reals ==
    {Real(n, d, e) : n \in BOOLEAN, d \in {<<49>>, <<49, 53>>, Digits17},
                     e \in {-324, -120, -21, -20, -17, -5, -4, -2, -1, 0, 1, 13, 14, 15, 16, 99, 100, 291}}
    \cup {Real(FALSE, <<48>>, 0), Nan}
Tens == {Unsigned(Eight(n)) : n \in {9, 10, 99, 100, 999, 1000, 9999, 10000, 99999, 100000, 999999}}
Nest(v, n) == LET deep[i \in 0 .. n] ==
                      IF i = 0 THEN v ELSE IF i % 2 = 1 THEN Array(<<deep[i - 1]>>)
                                           ELSE Object(A :> deep[i - 1] @@ <<98>> :> One)
              IN  deep[n]
MCDumps ==
    {[dumped |-> Text(s), o |-> o] : s \in Strings, o \in Opts(FALSE, 0, 32)}
    \cup {[dumped |-> Object(s :> Text(s)), o |-> o] :
            s \in {<<98, 255>>, <<195, 191>>, <<0>>, <<92>>}, o \in Opts(TRUE, 2, 9)}
    \cup {[dumped |-> v, o |-> Plain] : v \in Numbers \cup Tens \cup Reals \cup {Bool(TRUE), Bool(FALSE)}}
    \cup {[dumped |-> v, o |-> [Plain EXCEPT !.pretty = p[1], !.step = p[2], !.char = p[3]]] :
            v \in Deep \cup {Nest(One, n) : n \in 1 .. 6},
            p \in {<<FALSE, 0, 32>>, <<TRUE, 0, 32>>, <<TRUE, 1, 9>>, <<TRUE, 4, 32>>}}
=============================================================================
