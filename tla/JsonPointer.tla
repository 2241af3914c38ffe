---------------------------- MODULE JsonPointer -----------------------------
(***************************************************************************)
(* JSON pointers and what is built on them (include/json.hpp): access,     *)
(* flatten and unflatten, patch and diff.                                  *)
(*                                                                         *)
(* A reference into a value is the sequence of keys and positions that     *)
(* lead to it; an exception is Failed(id).  Bound: indices have at most    *)
(* two digits where they are written and nine where they are read.         *)
(***************************************************************************)
EXTENDS JsonValue

\* What is thrown besides the library's own exceptions, and a failed assert.
invalid_argument == 1
length_error == 2
assertion == 3

Slash == <<47>>
Dash == <<45>>
Got(v) == Ok(v, 0)

-----------------------------------------------------------------------------
(* basic_json: elements and members.                                       *)

Child(v, step) == IF v.t = "array" THEN v.a[step] ELSE v.m[step]
WithChild(v, step, w) ==
    IF v.t = "array" THEN Array([v.a EXCEPT ![step] = w]) ELSE Object((step :> w) @@ v.m)

\* at: the element or the member must exist.
AtIndex(v, n) == IF n < Len(v.a) THEN Got(n + 1) ELSE Failed(401)
AtKey(v, k) == IF k \in DOMAIN v.m THEN Got(k) ELSE Failed(403)
\* operator[]: null becomes an array or an object, what is missing null.
Grown(v, n) ==
    LET a == IF v.t = "null" THEN <<>> ELSE v.a
    IN  IF n < Len(a) THEN v ELSE Array(a \o [i \in 1 .. n + 1 - Len(a) |-> Null])
Entered(v, k) ==
    LET m == IF v.t = "null" THEN NoMembers ELSE v.m
    IN  IF k \in DOMAIN m THEN v ELSE Object((k :> Null) @@ m)
EraseIndex(v, n) == IF n < Len(v.a) THEN Got(Array(RemoveAt(v.a, n + 1))) ELSE Failed(401)
EraseKey(v, k) == Object([l \in DOMAIN v.m \ {k} |-> v.m[l]])
Insert(v, n, w) == Array(InsertAt(v.a, n + 1, w))
PushBack(v, w) == Array(Append(v.a, w))

\* operator==.  Floats are compared as they are: the values that are patched
\* hold no NaN, no negative zero and no float next to an equal integer.
RECURSIVE operator_eq(_, _)
operator_eq(v, w) ==
    IF {v.t, w.t} \subseteq {"int", "uint"} THEN v.b = w.b
    ELSE /\ v.t = w.t
         /\ CASE v.t = "array" ->
                   /\ DOMAIN v.a = DOMAIN w.a
                   /\ \A i \in DOMAIN v.a : operator_eq(v.a[i], w.a[i])
              [] v.t = "object" ->
                   /\ DOMAIN v.m = DOMAIN w.m
                   /\ \A k \in DOMAIN v.m : operator_eq(v.m[k], w.m[k])
              [] OTHER -> v = w

-----------------------------------------------------------------------------
(* json_pointer: the text and its reference tokens.                        *)

RECURSIVE replace_substring(_, _, _, _)
\* All occurrences of f from position pos on, the replacement not looked at again.
replace_substring(s, f, t, pos) ==
    LET at == {i \in pos .. Len(s) - Len(f) + 1 : SubSeq(s, i, i + Len(f) - 1) = f}
        i == CHOOSE i \in at : \A j \in at : i <= j
    IN  IF at = {} THEN s
        ELSE replace_substring(SubSeq(s, 1, i - 1) \o t \o SubSeq(s, i + Len(f), Len(s)),
                               f, t, i + Len(t))
escape(s) ==
    replace_substring(replace_substring(s, <<126>>, <<126, 48>>, 1), Slash, <<126, 49>>, 1)
\* Variant: the tildes first.
Unescapes_tilde_first(s) ==
    replace_substring(replace_substring(s, <<126, 48>>, <<126>>, 1), <<126, 49>>, Slash, 1)
unescape(s) ==
    replace_substring(replace_substring(s, <<126, 49>>, Slash, 1), <<126, 48>>, <<126>>, 1)

\* Every tilde is followed by 0 or 1.
Escaping(token) ==
    \A i \in DOMAIN token :
        token[i] = 126 => i < Len(token) /\ token[i + 1] \in {48, 49}
split(s) ==
    LET slashes == {i \in DOMAIN s : s[i] = 47}
        end(i) == CHOOSE j \in i .. Len(s) + 1 :
                     (j = Len(s) + 1 \/ j \in slashes) /\ slashes \cap i .. j - 1 = {}
        from[i \in 1 .. Len(s) + 2] ==
            IF i > Len(s) + 1 THEN <<>> ELSE <<SubSeq(s, i, end(i) - 1)>> \o from[end(i) + 1]
        tokens == from[2]
    IN  IF s = <<>> THEN Got(<<>>)
        ELSE IF s[1] # 47 THEN Failed(107)
        ELSE IF \E i \in DOMAIN tokens : ~Escaping(tokens[i]) THEN Failed(108)
        ELSE Got([i \in DOMAIN tokens |-> unescape(tokens[i])])

\* stoi: white space, a sign and digits; a negative number is a huge size_type.
array_index(token) ==
    LET blank == {32} \cup 9 .. 13
        skip == CHOOSE i \in 0 .. Len(token) :
                   /\ \A j \in 1 .. i : token[j] \in blank
                   /\ i < Len(token) => token[i + 1] \notin blank
        signed == skip < Len(token) /\ token[skip + 1] \in {43, 45}
        first == skip + (IF signed THEN 2 ELSE 1)
        last == CHOOSE i \in first - 1 .. Len(token) :
                   /\ \A j \in first .. i : token[j] \in 48 .. 57
                   /\ i < Len(token) => token[i + 1] \notin 48 .. 57
        n == FoldLeft(LAMBDA x, c : 10 * x + c - 48, 0, SubSeq(token, first, last))
    IN  IF last < first THEN Failed(invalid_argument)
        ELSE IF last < Len(token) THEN Failed(404)
        ELSE Got(IF signed /\ token[skip + 1] = 45 /\ n > 0 THEN Huge ELSE n)
\* The index a reference token stands for on the way to a value.
Number(token) ==
    LET r == array_index(token)
    IN  IF ~r.ok /\ r.id = invalid_argument THEN Failed(109) ELSE r
Index(token) == IF Len(token) > 1 /\ token[1] = 48 THEN Failed(106) ELSE Number(token)

-----------------------------------------------------------------------------
(* json_pointer: from the tokens to a reference.                           *)

RECURSIVE get_checked(_, _)
get_checked(v, tokens) ==
    IF tokens = <<>> THEN Got(<<>>)
    ELSE LET token == Head(tokens)
             step == CASE v.t = "object" -> AtKey(v, token)
                       [] v.t = "array" ->
                            IF token = Dash THEN Failed(402)
                            ELSE Then(Index(token), LAMBDA n, i : AtIndex(v, n))
                       [] OTHER -> Failed(404)
         IN  Then(step, LAMBDA s, i :
                 Then(get_checked(Child(v, s), Tail(tokens)), LAMBDA path, j : Got(<<s>> \o path)))

\* What is missing is created: the value after that, and the reference into it.
Created(w, step, r) ==
    Then(r, LAMBDA c, i : Got([v |-> WithChild(w, step, c.v), path |-> <<step>> \o c.path]))
RECURSIVE get_unchecked(_, _)
get_unchecked(v, tokens) ==
    IF tokens = <<>> THEN Got([v |-> v, path |-> <<>>])
    ELSE LET token == Head(tokens)
             number == (\A i \in DOMAIN token : token[i] \in 48 .. 57) \/ token = Dash
             u == IF v.t # "null" THEN v ELSE IF number THEN Array(<<>>) ELSE Object(NoMembers)
             Into(w, step) == Created(w, step, get_unchecked(Child(w, step), Tail(tokens)))
         IN  CASE u.t = "object" -> Into(Entered(u, token), token)
               [] u.t = "array" ->
                    Then(IF token = Dash THEN Got(Len(u.a)) ELSE Index(token), LAMBDA n, i :
                        IF n = Huge THEN Failed(length_error) ELSE Into(Grown(u, n), n + 1))
               [] OTHER -> Failed(404)

\* For unflatten: a null that is entered at "0" becomes an array.
RECURSIVE get_and_create(_, _)
get_and_create(v, tokens) ==
    IF tokens = <<>> THEN Got([v |-> v, path |-> <<>>])
    ELSE LET token == Head(tokens)
             Into(w, step) == Created(w, step, get_and_create(Child(w, step), Tail(tokens)))
         IN  CASE v.t = "null" /\ token = <<48>> -> Into(Grown(v, 0), 1)
               [] v.t \in {"null", "object"} /\ ~(v.t = "null" /\ token = <<48>>) ->
                    Into(Entered(v, token), token)
               [] v.t = "array" ->
                    Then(Number(token), LAMBDA n, i :
                        IF n = Huge THEN Failed(length_error) ELSE Into(Grown(v, n), n + 1))
               [] OTHER -> Failed(313)

RECURSIVE At(_, _), Assigned(_, _, _)
At(v, path) == IF path = <<>> THEN v ELSE At(Child(v, Head(path)), Tail(path))
Assigned(v, path, w) ==
    IF path = <<>> THEN w
    ELSE WithChild(v, Head(path), Assigned(Child(v, Head(path)), Tail(path), w))

-----------------------------------------------------------------------------
(* flatten and unflatten: an object from pointers to primitive values.     *)

RECURSIVE flatten(_, _)
flatten(reference_string, v) ==
    LET Below(text, w) == flatten(reference_string \o Slash \o text, w)
    IN  CASE v.t = "array" /\ v.a # <<>> ->
               FoldLeft(LAMBDA m, i : Below(Decimal(i - 1), v.a[i]) @@ m, NoMembers,
                        [i \in DOMAIN v.a |-> i])
          [] v.t = "object" /\ DOMAIN v.m # {} ->
               FoldLeft(LAMBDA m, k : Below(escape(k), v.m[k]) @@ m, NoMembers, KeysOf(v.m))
          [] v \in {Array(<<>>), Object(NoMembers)} -> reference_string :> Null
          [] OTHER -> reference_string :> v
\* In the order of the keys.
is_primitive(v) == v.t \notin {"array", "object", "discarded"}
unflatten(value) ==
    IF value.t # "object" THEN Failed(314)
    ELSE FoldLeft(LAMBDA r, k :
                      Then(r, LAMBDA v, i :
                      Then(IF is_primitive(value.m[k]) THEN split(k) ELSE Failed(315),
                           LAMBDA tokens, j :
                      Then(get_and_create(v, tokens), LAMBDA c, l :
                          Got(Assigned(c.v, c.path, value.m[k]))))),
                  Got(Null), KeysOf(value.m))

-----------------------------------------------------------------------------
(* patch.  An operation is an object; its members op, path, from and value *)
(* have names for keys, and an op is a name too.                           *)

operation_add(v, ptr, w) ==
    LET last == Last(ptr)
        parent == get_unchecked(v, Front(ptr))
        Into(c, p) ==
            CASE p.t \in {"null", "object"} -> Got(WithChild(Entered(p, last), last, w))
              [] p.t = "array" /\ last = Dash -> Got(PushBack(p, w))
              [] p.t = "array" /\ last # Dash ->
                   Then(array_index(last), LAMBDA n, i :
                       IF n > Len(p.a) THEN Failed(401) ELSE Got(Insert(p, n, w)))
              [] OTHER -> Failed(assertion)
        Add == Then(parent, LAMBDA c, i :
               Then(Into(c, At(c.v, c.path)), LAMBDA p, j : Got(Assigned(c.v, c.path, p))))
    IN  IF ptr = <<>> THEN Got(w)
        ELSE IF Len(ptr) = 1 THEN Add
        ELSE Then(get_checked(v, <<ptr[1]>>), LAMBDA top, i : Add)

\* Nothing is removed from a parent that is neither object nor array.
operation_remove(v, ptr) ==
    LET last == Last(ptr)
        From(p) == CASE p.t = "object" ->
                          IF last \in DOMAIN p.m THEN Got(EraseKey(p, last)) ELSE Failed(403)
                     [] p.t = "array" -> Then(array_index(last), LAMBDA n, i : EraseIndex(p, n))
                     [] OTHER -> Got(p)
    IN  IF ptr = <<>> THEN Failed(405)
        ELSE Then(get_checked(v, Front(ptr)), LAMBDA path, i :
             Then(From(At(v, path)), LAMBDA p, j : Got(Assigned(v, path, p))))

get_value(operation, member, string_type) ==
    IF \/ member \notin DOMAIN operation.m
       \/ string_type /\ operation.m[member].t # "string"
    THEN Failed(105) ELSE Got(operation.m[member])
\* The value at a pointer's text, which must exist.
ValueAt(v, text) ==
    Then(split(text), LAMBDA tokens, i :
    Then(get_checked(v, tokens), LAMBDA path, j : Got(At(v, path))))

operation_replace(v, ptr, operation) ==
    Then(get_checked(v, ptr), LAMBDA path, i :
    Then(get_value(operation, "value", FALSE), LAMBDA w, j : Got(Assigned(v, path, w))))
\* Variant: the value is added before it is removed.
Adds_first(v, ptr, operation) ==
    Then(get_value(operation, "from", TRUE), LAMBDA from, i :
    Then(ValueAt(v, from.s), LAMBDA w, j :
    Then(operation_add(v, ptr, w), LAMBDA u, l : operation_remove(u, split(from.s).v))))
operation_move(v, ptr, operation) ==
    Then(get_value(operation, "from", TRUE), LAMBDA from, i :
    Then(ValueAt(v, from.s), LAMBDA w, j :
    Then(operation_remove(v, split(from.s).v), LAMBDA u, l : operation_add(u, ptr, w))))
operation_copy(v, ptr, operation) ==
    Then(get_value(operation, "from", TRUE), LAMBDA from, i :
    Then(ValueAt(v, from.s), LAMBDA w, j : operation_add(v, ptr, w)))
\* Only an out_of_range of at() counts as an unsuccessful test.
operation_test(v, ptr, operation) ==
    LET r == get_checked(v, ptr)
        w == get_value(operation, "value", FALSE)
    IN  CASE ~r.ok -> IF r.id \in 401 .. 404 THEN Failed(501) ELSE r
          [] r.ok /\ ~w.ok -> w
          [] OTHER -> IF operator_eq(At(v, r.v), w.v) THEN Got(v) ELSE Failed(501)

apply(v, operation) ==
    Then(IF operation.t = "object" THEN get_value(operation, "op", TRUE) ELSE Failed(104),
         LAMBDA op, i :
    Then(get_value(operation, "path", TRUE), LAMBDA path, j :
    Then(split(path.s), LAMBDA ptr, l :
        CASE op.s = "add" ->
               Then(get_value(operation, "value", FALSE), LAMBDA w, h :
                   operation_add(v, ptr, w))
          [] op.s = "remove" -> operation_remove(v, ptr)
          [] op.s = "replace" -> operation_replace(v, ptr, operation)
          [] op.s = "move" -> operation_move(v, ptr, operation)
          [] op.s = "copy" -> operation_copy(v, ptr, operation)
          [] op.s = "test" -> operation_test(v, ptr, operation)
          [] OTHER -> Failed(105))))
patch(v, json_patch) ==
    IF json_patch.t # "array" THEN Failed(104)
    ELSE FoldLeft(LAMBDA r, operation : Then(r, LAMBDA u, i : apply(u, operation)),
                  Got(v), json_patch.a)

-----------------------------------------------------------------------------
(* diff                                                                    *)

ToReplace(path, w) == Object([op |-> Text("replace"), path |-> Text(path), value |-> w])
ToRemove(path) == Object([op |-> Text("remove"), path |-> Text(path)])
ToAdd(path, w) == Object([op |-> Text("add"), path |-> Text(path), value |-> w])

RECURSIVE diff(_, _, _)
\* Variant: the surplus elements are removed from the first to the last.
Removes_in_order(v, w, path) ==
    LET common == IF Len(v.a) < Len(w.a) THEN Len(v.a) ELSE Len(w.a)
        Below(i) == path \o Slash \o Decimal(i - 1)
    IN  FlattenSeq([i \in 1 .. common |-> diff(v.a[i], w.a[i], Below(i))])
        \o [i \in 1 .. Len(v.a) - common |-> ToRemove(Below(common + i))]
        \o [i \in 1 .. Len(w.a) - common |-> ToAdd(Below(common + i), w.a[common + i])]
\* Elements both have, then those to remove, the last one first, or to add.
diff_arrays(v, w, path) ==
    LET common == IF Len(v.a) < Len(w.a) THEN Len(v.a) ELSE Len(w.a)
        Below(i) == path \o Slash \o Decimal(i - 1)
    IN  FlattenSeq([i \in 1 .. common |-> diff(v.a[i], w.a[i], Below(i))])
        \o [i \in 1 .. Len(v.a) - common |-> ToRemove(Below(Len(v.a) + 1 - i))]
        \o [i \in 1 .. Len(w.a) - common |-> ToAdd(Below(common + i), w.a[common + i])]
diff_objects(v, w, path) ==
    LET Below(k) == path \o Slash \o escape(k)
        mine == KeysOf(v.m)
        new == SelectSeq(KeysOf(w.m), LAMBDA k : k \notin DOMAIN v.m)
    IN  FlattenSeq([i \in DOMAIN mine |->
            IF mine[i] \in DOMAIN w.m THEN diff(v.m[mine[i]], w.m[mine[i]], Below(mine[i]))
            ELSE <<ToRemove(Below(mine[i]))>>])
        \o [i \in DOMAIN new |-> ToAdd(Below(new[i]), w.m[new[i]])]
diff(v, w, path) ==
    IF operator_eq(v, w) THEN <<>>
    ELSE IF v.t # w.t THEN <<ToReplace(path, w)>>
    ELSE CASE v.t = "array" -> diff_arrays(v, w, path)
           [] v.t = "object" -> diff_objects(v, w, path)
           [] OTHER -> <<ToReplace(path, w)>>
=============================================================================
