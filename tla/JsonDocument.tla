---------------------------- MODULE JsonDocument ----------------------------
(***************************************************************************)
(* Calls on a JSON document (include/json.hpp), each the next step of a    *)
(* program that uses it: to and from the binary formats (JsonBinary), diff *)
(* and then patch, a move there and back, flatten and unflatten, dump.     *)
(***************************************************************************)
EXTENDS JsonBinary, JsonPointer, JsonSerializer

CONSTANTS Pairs,    \* [source, target]: patched from one to the other
          Moves,    \* [source, from, path]: a value is moved, and moved back
          Flats,    \* [flat]: values that are flattened
          Dumps     \* [dumped, o]: values that are written as text

Starts(jobs, at) == job \in jobs /\ pc = at /\ bytes = <<>> /\ fault = "intact" /\ res = None
DocumentInit ==
    \/ Init
    \/ Starts(Pairs, "diff") \/ Starts(Moves, "move")
    \/ Starts(Flats, "flatten") \/ Starts(Dumps, "dump")

Called(from, to, r) == pc = from /\ pc' = to /\ res' = r /\ UNCHANGED <<job, bytes, fault>>
Diff == pc = "diff" /\ Called("diff", "patch", Got(Array(diff(job.source, job.target, <<>>))))
Patch == pc = "patch" /\ Called("patch", "patched", patch(job.source, res.v))
MoveOp(from, path) ==
    Array(<<Object([op |-> Text("move"), path |-> Text(path), from |-> Text(from)])>>)
Move == pc = "move" /\ Called("move", "moved", patch(job.source, MoveOp(job.from, job.path)))
Back == /\ pc = "moved" /\ res.ok
        /\ Called("moved", "back", patch(res.v, MoveOp(job.path, job.from)))
Flatten == pc = "flatten" /\ Called("flatten", "flat", Got(Object(flatten(<<>>, job.flat))))
Unflatten == pc = "flat" /\ Called("flat", "unflattened", unflatten(res.v))
Dump == pc = "dump" /\ Called("dump", "dumped", Dumped(job.dumped, job.o))

DocumentNext == Next \/ Diff \/ Patch \/ Move \/ Back \/ Flatten \/ Unflatten \/ Dump

DocumentSpec == DocumentInit /\ [][DocumentNext]_vars

-----------------------------------------------------------------------------
(* Properties.                                                             *)

\* "source.patch(diff(source, target)) == target" (json.hpp, 20667), for values
\* that differ in any depth, in types, lengths and keys with / and ~ in them.
PatchMakesTarget ==
    pc = "patched" => res.ok /\ operator_eq(res.v, job.target)

Tokens(text) == split(text).v
\* Does p take a member or an element there without a change to anything else?
Takes(p, token) ==
    /\ token # Dash /\ p.t # "null"
    /\ p.t = "object" => token \notin DOMAIN p.m
Clean ==
    LET path == Tokens(job.path)
        parent == Then(operation_remove(job.source, Tokens(job.from)), LAMBDA v, i :
                  Then(get_checked(v, Front(path)), LAMBDA ref, j : Got(At(v, ref))))
    IN  path # <<>> /\ parent.ok /\ Takes(parent.v, Last(path))
\* A move is undone by the move back.  Not if the target's parent is made up on
\* the way or the target overwrites a member: then something else has changed.
MoveBack ==
    pc \in {"moved", "back"} /\ (pc = "moved" => res.ok) /\ Clean =>
        IF pc = "back" THEN res.ok /\ res.v = job.source
        ELSE ValueAt(res.v, job.path) = ValueAt(job.source, job.from)

RECURSIVE WithoutEmpty(_)
WithoutEmpty(v) ==
    CASE v.t = "array" -> IF v.a = <<>> THEN Null
                          ELSE Array([i \in DOMAIN v.a |-> WithoutEmpty(v.a[i])])
      [] v.t = "object" -> IF DOMAIN v.m = {} THEN Null
                           ELSE Object([k \in DOMAIN v.m |-> WithoutEmpty(v.m[k])])
      [] OTHER -> v
HasKeyZero(v) == \E w \in SubValues(v) : w.t = "object" /\ <<48>> \in DOMAIN w.m
\* unflatten restores what flatten has taken apart, empty arrays and objects as
\* null, unless an object has the key "0" (json.hpp, 20318 knows the first
\* exception only: {"0": null} comes back as an array).
UnflattenRestores ==
    pc = "unflattened" /\ ~HasKeyZero(job.flat) => res.ok /\ res.v = WithoutEmpty(job.flat)

\* The code points a string is read back as: each longest piece that begins a
\* character and is none is replaced or left out.
Begins(s) ==
    \E c \in {<<128>>, <<160>>, <<144, 128>>, <<128, 128>>, <<160, 128>>,
              <<144, 128, 128>>, <<128, 128, 128>>} :
        RawPoint(s \o c, 1) # Ref_bad /\ RawPoint(s \o c, 1)[2] = Len(s \o c)
Repaired(s, handler) ==
    LET piece(i) == CHOOSE n \in 1 .. 3 :
                       /\ n > 1 => i + n - 1 <= Len(s) /\ Begins(SubSeq(s, i, i + n - 1))
                       /\ i + n <= Len(s) => ~Begins(SubSeq(s, i, i + n))
        from[i \in 1 .. Len(s) + 1] ==
            IF i > Len(s) THEN <<>>
            ELSE IF RawPoint(s, i) # Ref_bad
            THEN <<RawPoint(s, i)[1]>> \o from[i + RawPoint(s, i)[2]]
            ELSE (IF handler = "replace" THEN <<65533>> ELSE <<>>) \o from[i + piece(i)]
    IN  from[1]

\* The number a text denotes, as digits without outer zeros and an exponent.
Norm(digits, e) ==
    LET used == {i \in DOMAIN digits : digits[i] # 48}
        first == CHOOSE i \in used : \A j \in used : i <= j
        last == CHOOSE i \in used : \A j \in used : i >= j
    IN  IF used = {} THEN <<<<>>, 0>>
        ELSE <<SubSeq(digits, first, last), e + Len(digits) - last>>
Unsigned_value(digits) == FoldLeft(LAMBDA n, c : 10 * n + c - 48, 0, digits)
Denoted(s) ==
    LET b == IF s[1] = 45 THEN 2 ELSE 1
        es == {i \in DOMAIN s : s[i] = 101}
        end == IF es = {} THEN Len(s) ELSE (CHOOSE i \in es : TRUE) - 1
        fraction == {i \in 1 .. end : \E j \in 1 .. i - 1 : s[j] = 46}
        exponent == IF es = {} THEN 0
                    ELSE Unsigned_value(SubSeq(s, end + 3, Len(s)))
                           * (IF s[end + 2] = 45 THEN -1 ELSE 1)
    IN  Norm(SelectSeq(SubSeq(s, b, end), LAMBDA c : c # 46), exponent - Cardinality(fraction))
\* The eight bytes of a decimal number.
EightOf(digits) ==
    LET TimesTen(b, d) ==
            LET carry[i \in 1 .. 9] == IF i = 9 THEN d ELSE (b[i] * 10 + carry[i + 1]) \div 256
            IN  [i \in 1 .. 8 |-> (b[i] * 10 + carry[i + 1]) % 256]
    IN  FoldLeft(LAMBDA b, c : TimesTen(b, c - 48), Eight(0), digits)
Means(s, v) ==
    /\ IsNumber(s)
    /\ IF v.t = "real"
       THEN /\ 46 \in Range(s) \/ 101 \in Range(s)
            /\ v.neg <=> s[1] = 45
            /\ Denoted(s) = Norm(v.digits, v.e)
       ELSE LET negative == v.t = "int" /\ Negative(v.b)
            IN  /\ negative <=> s[1] = 45
                /\ Range(Tail(s)) \subseteq Digit
                /\ EightOf(IF negative THEN Tail(s) ELSE s) = IF negative THEN Negated(v.b) ELSE v.b

\* Where the text of v that starts at s[i], after white space, may end.
Skip(s, i) ==
    CHOOSE j \in i .. Len(s) + 1 :
        (\A k \in i .. j - 1 : s[k] \in Space) /\ (j <= Len(s) => s[j] \notin Space)
Match(s, i, text) == IF SubSeq(s, i, i + Len(text) - 1) = text THEN {i + Len(text)} ELSE {}
RECURSIVE Ends(_, _, _, _)
Ends(s, i, v, handler) ==
    LET b == Skip(s, i)
        After(ends, text) == UNION {Match(s, Skip(s, e), text) : e \in ends}
        Value(ends, w) == UNION {Ends(s, e, w, handler) : e \in ends}
        String(from, text) ==
            {e \in from + 2 .. Len(s) + 1 :
                /\ s[from] = Quote /\ s[e - 1] = Quote
                /\ Points(SubSeq(s, from + 1, e - 2), TRUE) = Repaired(text, handler)}
        Key(ends, k) == After(UNION {String(Skip(s, e), k) : e \in ends}, <<58>>)
        keys == KeysOf(v.m)
        Comma(ends, n) == IF n = 1 THEN ends ELSE After(ends, <<44>>)
        elements[n \in 0 .. Len(v.a)] ==
            IF n = 0 THEN Match(s, b, <<91>>) ELSE Value(Comma(elements[n - 1], n), v.a[n])
        members[n \in 0 .. Len(keys)] ==
            IF n = 0 THEN Match(s, b, <<123>>)
            ELSE Value(Key(Comma(members[n - 1], n), keys[n]), v.m[keys[n]])
    IN  CASE v.t = "array" -> After(elements[Len(v.a)], <<93>>)
          [] v.t = "object" -> After(members[Len(keys)], <<125>>)
          [] v.t = "string" -> String(b, v.s)
          [] v.t \in {"int", "uint", "real"} ->
               {e \in b + 1 .. Len(s) + 1 : /\ e <= Len(s) => s[e] \in Space \cup {44, 93, 125}
                                            /\ Means(SubSeq(s, b, e - 1), v)}
          [] v.t = "boolean" -> Match(s, b, IF v.v THEN <<116, 114, 117, 101>>
                                            ELSE <<102, 97, 108, 115, 101>>)
          [] OTHER -> Match(s, b, <<110, 117, 108, 108>>)

IllFormed(v) ==
    \E w \in SubValues(v) :
        \/ w.t = "string" /\ ~WellFormed(Points(w.s, FALSE))
        \/ w.t = "object" /\ \E k \in DOMAIN w.m : ~WellFormed(Points(k, FALSE))
\* dump writes a text of the grammar that spells the value, ASCII if asked for,
\* whatever the sizes of its buffers; strict throws exactly for ill-formed UTF-8,
\* replace puts one U+FFFD for each ill-formed piece and ignore leaves it out.
DumpReadsBack ==
    pc = "dumped" =>
        IF job.o.handler = "strict" /\ IllFormed(job.dumped) THEN res = Failed(316)
        ELSE /\ res.ok
             /\ Len(res.v) + 1 \in Ends(res.v, 1, job.dumped, job.o.handler)
             /\ job.o.ascii => \A i \in DOMAIN res.v : res.v[i] < 128
=============================================================================
