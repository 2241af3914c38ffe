----------------------------- MODULE JsonParser -----------------------------
(***************************************************************************)
(* The JSON parser of include/json.hpp (class parser) with its three SAX   *)
(* consumers: json_sax_dom_parser and json_sax_dom_callback_parser, which  *)
(* build the value, and json_sax_acceptor, which only says yes or no.      *)
(* master.cpp and file.hpp reach it through json::parse.                   *)
(*                                                                         *)
(* A token is <<type, key>>: key is the text of a string token, a number   *)
(* whose order is the order of the keys in std::map, and 0 otherwise.  The *)
(* lexer delivers any token at any time (JsonLexer models which).          *)
(*                                                                         *)
(* The value under construction is a function from paths to node labels:   *)
(* a path is a sequence of array indices (from 1) and object keys, and a   *)
(* pointer into the value is a path.                                       *)
(***************************************************************************)
EXTENDS Integers, Sequences, FiniteSets

CONSTANT Modes   \* the calls offered: [sax, strict, throws, tokens, max]: the
                 \* consumer, the arguments, the tokens the lexer delivers, and
                 \* the bound: after max tokens only the end of input is left

VARIABLES mode,        \* which entry point runs, and its arguments
          toks,        \* history: the tokens get_token has delivered
          pc,          \* where sax_parse_internal stands
          states,      \* its stack: TRUE = array, FALSE = object
          d,           \* the members of the SAX consumer
          cut,         \* history: positions in toks the callback rejected
          out          \* the outcome: "running", or how the call ended

vars == <<mode, toks, pc, states, d, cut, out>>

Tok(type) == <<type, 0>>
ScalarTypes == {"literal_null", "literal_true", "literal_false", "value_integer",
                "value_unsigned", "value_float", "value_string"}
\* A number that is not finite has a type of its own.
token_type == ScalarTypes \cup
    {"begin_object", "end_object", "begin_array", "end_array", "name_separator",
     "value_separator", "end_of_input", "parse_error", "value_inf"}

ASSUME ModesAssumption ==
    \A m \in Modes : /\ m.sax \in {"dom", "callback", "accept"} /\ m.max \in Nat
                     /\ m.tokens \subseteq token_type \X Nat

last_token == toks[Len(toks)]
Type == last_token[1]

\* What the lexer may return next: after the end of input, again the end.
Readable ==
    IF \/ Len(toks) >= mode.max
       \/ toks # <<>> /\ Type = "end_of_input"
    THEN {Tok("end_of_input")} ELSE mode.tokens
get_token == \E t \in Readable : toks' = Append(toks, t)

-----------------------------------------------------------------------------
(* The value under construction.                                           *)

Null == Tok("literal_null")
Object == Tok("object")
Array == Tok("array")
Discarded == Tok("discarded")
NullValue == [q \in {<<>>} |-> Null]
nullptr == <<-1>>

Prefix(r, q) == Len(r) <= Len(q) /\ SubSeq(q, 1, Len(r)) = r
Children(dom, r) == {q \in DOMAIN dom : Len(q) = Len(r) + 1 /\ Prefix(r, q)}
Erase(dom, r) == [q \in {q \in DOMAIN dom : ~Prefix(r, q)} |-> dom[q]]
Assign(dom, r, v) ==
    [q \in {q \in DOMAIN dom : ~Prefix(r, q)} \cup {r} |->
        IF q = r THEN v ELSE dom[q]]
\* emplace_back: the new element's path.
Back(dom, r) == Append(r, Cardinality(Children(dom, r)) + 1)

Top(s) == s[Len(s)]
Pop(s) == SubSeq(s, 1, Len(s) - 1)
back == Top(d.ref)
HasBack == d.ref # <<>> /\ back # nullptr

(* json_sax_dom_parser.  d.ref is ref_stack, d.elem is object_element.     *)

DomPlace == IF d.ref = <<>> THEN <<>>
            ELSE IF d.dom[back] = Array THEN Back(d.dom, back) ELSE d.elem
DomHandleValue(v) == [d EXCEPT !.dom = Assign(@, DomPlace, v)]
DomStart(v) == [d EXCEPT !.dom = Assign(@, DomPlace, v),
                         !.ref = Append(@, DomPlace)]
\* Variant: object_element moves only for a first member.
Keeps_element(k) ==
    LET q == Append(back, k)
    IN  [d EXCEPT !.dom = IF q \in DOMAIN @ THEN @ ELSE Assign(@, q, Null),
                  !.elem = IF Children(d.dom, back) = {} THEN q ELSE @]

\* operator[]: a new member is null, an old one keeps its value for now.
DomKey(k) ==
    LET q == Append(back, k)
    IN  [d EXCEPT !.dom = IF q \in DOMAIN @ THEN @ ELSE Assign(@, q, Null),
                  !.elem = q]
DomEnd == [d EXCEPT !.ref = Pop(@)]

(* json_sax_dom_callback_parser.  c is the answer of the callback.  d.keep *)
(* and d.keys are keep_stack and key_keep_stack.                           *)

\* handle_value behind the callback: where the value goes, or nullptr.
Placed(keep) ==
    IF ~Top(keep) THEN nullptr
    ELSE IF d.ref = <<>> THEN <<>>
    ELSE IF back = nullptr THEN nullptr
    ELSE IF d.dom[back] = Array THEN Back(d.dom, back)
    ELSE IF Top(d.keys) THEN d.elem ELSE nullptr
\* handle_value pops key_keep_stack only when it gets to the object's member.
KeysAfter(keep) ==
    IF Top(keep) /\ HasBack /\ d.dom[back] = Object THEN Pop(d.keys) ELSE d.keys

CbHandleValue(v, c) ==
    IF c /\ Top(d.keep)
    THEN [d EXCEPT !.dom = IF Placed(d.keep) = nullptr THEN @
                           ELSE Assign(@, Placed(d.keep), v),
                   !.keys = KeysAfter(d.keep)]
    ELSE d
\* Variant: only a container that is kept gets a place on ref_stack.
Pushes_kept_only(v, c) ==
    LET keep == Append(d.keep, c)
    IN  IF Placed(keep) = nullptr THEN [d EXCEPT !.keep = keep]
        ELSE [d EXCEPT !.dom = Assign(@, Placed(keep), v),
                       !.ref = Append(@, Placed(keep)), !.keep = keep,
                       !.keys = KeysAfter(keep)]

CbStart(v, c) ==
    LET keep == Append(d.keep, c)
    IN  [d EXCEPT !.dom = IF Placed(keep) = nullptr THEN @
                          ELSE Assign(@, Placed(keep), v),
                  !.ref = Append(@, Placed(keep)),
                  !.keep = keep,
                  !.keys = KeysAfter(keep)]
\* Variant: the answer about the key is not looked at.
Stores_rejected_key(k, c) ==
    IF back = nullptr THEN [d EXCEPT !.keys = Append(@, TRUE)]
    ELSE [d EXCEPT !.keys = Append(@, TRUE), !.elem = Append(back, k),
                   !.dom = Assign(@, Append(back, k), Discarded)]

CbKey(k, c) ==
    LET q == Append(back, k)
        store == c /\ back # nullptr
    IN  [d EXCEPT !.keys = Append(@, c),
                  !.dom = IF store THEN Assign(@, q, Discarded) ELSE @,
                  !.elem = IF store THEN q ELSE @]

\* Only the first discarded member of the parent object is erased.
EraseDiscarded(dom, r) ==
    LET gone == {q \in Children(dom, r) : dom[q] = Discarded}
    IN  IF gone = {} THEN dom
        ELSE Erase(dom, CHOOSE q \in gone : \A g \in gone : Top(q) <= Top(g))
CbEndObject(c) ==
    LET dom == IF back # nullptr /\ ~c THEN Assign(d.dom, back, Discarded)
               ELSE d.dom
        ref == Pop(d.ref)
        clean == ref # <<>> /\ Top(ref) # nullptr /\ dom[Top(ref)] = Object
    IN  [d EXCEPT !.dom = IF clean THEN EraseDiscarded(dom, Top(ref)) ELSE dom,
                  !.ref = ref, !.keep = Pop(@)]
\* A rejected array leaves its parent array, but not its parent object.
CbEndArray(c) ==
    LET ref == Pop(d.ref)
        drop == back # nullptr /\ ~c
    IN  [d EXCEPT !.dom = IF ~drop THEN @
                          ELSE IF ref # <<>> /\ @[Top(ref)] = Array
                          THEN Erase(@, back) ELSE Assign(@, back, Discarded),
                  !.ref = ref, !.keep = Pop(@)]

-----------------------------------------------------------------------------
(* The SAX events, for whichever consumer is attached.                     *)

\* The positions of the brackets of toks that are still open.
Opens == {i \in DOMAIN toks : toks[i][1] \in {"begin_object", "begin_array"}}
Closes == {i \in DOMAIN toks : toks[i][1] \in {"end_object", "end_array"}}
Depth(i) == Cardinality({j \in Opens : j < i}) - Cardinality({j \in Closes : j < i})
Enclosing(i) ==
    {j \in Opens : j < i /\ \A n \in j + 1 .. i : Depth(n) > Depth(j)}
Innermost(i) == CHOOSE j \in Enclosing(i) : \A n \in Enclosing(i) : n <= j

\* The callback is asked (asked) and answers c; pos is what it is asked about.
Ask(asked, pos, c) ==
    /\ c \in (IF mode.sax = "callback" /\ asked THEN BOOLEAN ELSE {TRUE})
    /\ cut' = IF c THEN cut ELSE cut \cup {pos}

SaxValue(v) ==
    \E c \in BOOLEAN :
        /\ Ask(Top(d.keep), Len(toks), c)
        /\ d' = CASE mode.sax = "dom" -> DomHandleValue(v)
                  [] mode.sax = "callback" -> CbHandleValue(v, c)
                  [] OTHER -> d
SaxStart(v) ==
    \E c \in BOOLEAN :
        /\ Ask(TRUE, Len(toks), c)
        /\ d' = CASE mode.sax = "dom" -> DomStart(v)
                  [] mode.sax = "callback" -> CbStart(v, c)
                  [] OTHER -> d
SaxKey(k) ==
    \E c \in BOOLEAN :
        /\ Ask(TRUE, Len(toks), c)
        /\ d' = CASE mode.sax = "dom" -> DomKey(k)
                  [] mode.sax = "callback" -> CbKey(k, c)
                  [] OTHER -> d
SaxEnd(v) ==
    \E c \in BOOLEAN :
        /\ Ask(HasBack, Innermost(Len(toks)), c)
        /\ d' = CASE mode.sax = "dom" -> DomEnd
                  [] mode.sax = "callback" /\ v = Object -> CbEndObject(c)
                  [] mode.sax = "callback" /\ v = Array -> CbEndArray(c)
                  [] OTHER -> d

\* parse_error: the exception is thrown by its id, or the call goes on to the
\* end of parse() with errored set; sax_parse just returns false.
Fail(id) ==
    /\ IF mode.sax # "accept" /\ ~mode.throws
       THEN /\ pc' = IF mode.strict /\ pc # "strict" THEN "errored" ELSE "done"
            /\ out' = "discarded"
       ELSE /\ pc' = "done"
            /\ out' = IF mode.sax = "accept" THEN "false"
                      ELSE IF id = 406 THEN "out_of_range" ELSE "parse_error"
    /\ UNCHANGED <<mode, toks, states, d, cut>>

-----------------------------------------------------------------------------
(* sax_parse_internal.  Every action reads at most one token, last.        *)

EmptyDom == [dom |-> NullValue, ref |-> <<>>, elem |-> nullptr,
             keep |-> <<TRUE>>, keys |-> <<>>]

\* The constructor of parser reads the first token.
Init ==
    /\ mode \in Modes
    /\ toks \in {<<t>> : t \in mode.tokens}
    /\ pc = "value"
    /\ states = <<>>
    /\ d = EmptyDom
    /\ cut = {}
    /\ out = "running"

BeginObject ==
    /\ pc = "value" /\ Type = "begin_object"
    /\ SaxStart(Object)
    /\ pc' = "first_key"
    /\ get_token
    /\ UNCHANGED <<mode, states, out>>

EmptyObject ==
    /\ pc = "first_key" /\ Type = "end_object"
    /\ SaxEnd(Object)
    /\ pc' = "evaluate"
    /\ UNCHANGED <<mode, toks, states, out>>

FirstKey ==
    /\ pc = "first_key" /\ Type = "value_string"
    /\ SaxKey(last_token[2])
    /\ pc' = "first_colon"
    /\ get_token
    /\ UNCHANGED <<mode, states, out>>

FirstColon ==
    /\ pc = "first_colon" /\ Type = "name_separator"
    /\ states' = Append(states, FALSE)
    /\ pc' = "value"
    /\ get_token
    /\ UNCHANGED <<mode, d, cut, out>>

BeginArray ==
    /\ pc = "value" /\ Type = "begin_array"
    /\ SaxStart(Array)
    /\ pc' = "first_elem"
    /\ get_token
    /\ UNCHANGED <<mode, states, out>>

EmptyArray ==
    /\ pc = "first_elem" /\ Type = "end_array"
    /\ SaxEnd(Array)
    /\ pc' = "evaluate"
    /\ UNCHANGED <<mode, toks, states, out>>

FirstElement ==
    /\ pc = "first_elem" /\ Type # "end_array"
    /\ states' = Append(states, TRUE)
    /\ pc' = "value"
    /\ UNCHANGED <<mode, toks, d, cut, out>>

Scalar ==
    /\ pc = "value" /\ Type \in ScalarTypes
    /\ SaxValue(last_token)
    /\ pc' = "evaluate"
    /\ UNCHANGED <<mode, toks, states, out>>

\* Variant: what follows the document is not looked at.
Stops_at_value ==
    /\ pc = "evaluate" /\ states = <<>>
    /\ pc' = "done" /\ out' = "ok"
    /\ UNCHANGED <<mode, toks, states, d, cut>>

\* The end of the hierarchy: parse() and sax_parse() want the end of input.
TopLevelDone ==
    /\ pc = "evaluate" /\ states = <<>>
    /\ IF mode.strict
       THEN pc' = "strict" /\ get_token /\ UNCHANGED out
       ELSE pc' = "done" /\ UNCHANGED toks /\ out' = "ok"
    /\ UNCHANGED <<mode, states, d, cut>>

StrictEnd ==
    /\ pc = "strict" /\ Type = "end_of_input"
    /\ pc' = "done" /\ out' = "ok"
    /\ UNCHANGED <<mode, toks, states, d, cut>>

NextInContainer ==
    /\ pc = "evaluate" /\ states # <<>>
    /\ pc' = IF Top(states) THEN "array_next" ELSE "object_next"
    /\ get_token
    /\ UNCHANGED <<mode, states, d, cut, out>>

NextElement ==
    /\ pc = "array_next" /\ Type = "value_separator"
    /\ pc' = "value"
    /\ get_token
    /\ UNCHANGED <<mode, states, d, cut, out>>

EndArray ==
    /\ pc = "array_next" /\ Type = "end_array"
    /\ SaxEnd(Array)
    /\ states' = Pop(states)
    /\ pc' = "evaluate"
    /\ UNCHANGED <<mode, toks, out>>

NextMember ==
    /\ pc = "object_next" /\ Type = "value_separator"
    /\ pc' = "key"
    /\ get_token
    /\ UNCHANGED <<mode, states, d, cut, out>>

MemberKey ==
    /\ pc = "key" /\ Type = "value_string"
    /\ SaxKey(last_token[2])
    /\ pc' = "colon"
    /\ get_token
    /\ UNCHANGED <<mode, states, out>>

MemberColon ==
    /\ pc = "colon" /\ Type = "name_separator"
    /\ pc' = "value"
    /\ get_token
    /\ UNCHANGED <<mode, states, d, cut, out>>

EndObject ==
    /\ pc = "object_next" /\ Type = "end_object"
    /\ SaxEnd(Object)
    /\ states' = Pop(states)
    /\ pc' = "evaluate"
    /\ UNCHANGED <<mode, toks, out>>

\* What each place expects; any other token is error 101.
Expected ==
    [value |-> ScalarTypes \cup {"begin_object", "begin_array", "value_inf"},
     first_key |-> {"end_object", "value_string"},
     first_colon |-> {"name_separator"},
     array_next |-> {"value_separator", "end_array"},
     object_next |-> {"value_separator", "end_object"},
     key |-> {"value_string"},
     colon |-> {"name_separator"},
     strict |-> {"end_of_input"}]
Unexpected ==
    \/ pc \in DOMAIN Expected /\ Type \notin Expected[pc] /\ Fail(101)
    \/ pc = "value" /\ Type = "value_inf" /\ Fail(406)

\* parse() reads one more token although the document is already in error.
ReadAfterError ==
    /\ pc = "errored"
    /\ pc' = "done"
    /\ get_token
    /\ UNCHANGED <<mode, states, d, cut, out>>

Done == pc = "done" /\ UNCHANGED vars

Next ==
    \/ BeginObject \/ EmptyObject \/ FirstKey \/ FirstColon
    \/ BeginArray \/ EmptyArray \/ FirstElement \/ Scalar
    \/ TopLevelDone \/ StrictEnd \/ NextInContainer \/ NextElement \/ EndArray
    \/ NextMember \/ MemberKey \/ MemberColon \/ EndObject
    \/ Unexpected \/ ReadAfterError \/ Done

Spec == Init /\ [][Next]_vars

\* The value parse() leaves in result: a document that is discarded as a whole
\* by the callback reads as null.
result == IF mode.sax = "callback" /\ d.dom[<<>>] = Discarded
          THEN NullValue ELSE d.dom

-----------------------------------------------------------------------------
(* What the tokens denote, said without a stack: the path of a position is *)
(* read off the brackets, commas and keys around it.                       *)

IsKey(i) == /\ toks[i][1] = "value_string"
            /\ i < Len(toks) /\ toks[i + 1][1] = "name_separator"
Values == {i \in DOMAIN toks : ~IsKey(i) /\ toks[i][1] \in
              ScalarTypes \cup {"begin_object", "begin_array"}}
Inside(e, i, type) ==
    {j \in e + 1 .. i : toks[j][1] = type /\ Innermost(j) = e}
StepAt(e, i) ==
    IF toks[e][1] = "begin_array"
    THEN 1 + Cardinality(Inside(e, i, "value_separator"))
    ELSE LET keys == {j \in Inside(e, i, "value_string") : IsKey(j)}
         IN  toks[CHOOSE j \in keys : \A n \in keys : n <= j][2]
PathOf(i) ==
    [n \in 1 .. Cardinality(Enclosing(i)) |->
        StepAt(CHOOSE e \in Enclosing(i) : Depth(e) = n - 1, i)]
Label(i) == CASE toks[i][1] = "begin_object" -> Object
              [] toks[i][1] = "begin_array" -> Array
              [] OTHER -> toks[i]

\* A value is overwritten by a later one at its path or above it.
Document ==
    LET path == [i \in Values |-> PathOf(i)]
        live == {i \in Values : ~\E j \in Values : j > i /\ Prefix(path[j], path[i])}
    IN  [q \in {path[i] : i \in live} |->
            Label(CHOOSE i \in live : path[i] = q)]
NoDuplicates == \A i, j \in Values : PathOf(i) = PathOf(j) => i = j

\* m without the nodes outside keep, the elements of its arrays moved up.
Moved(m, keep, q) ==
    [n \in DOMAIN q |->
        LET r == SubSeq(q, 1, n - 1)
        IN  IF m[r] = Array
            THEN Cardinality({k \in Children(m, r) \cap keep : Top(k) <= q[n]})
            ELSE q[n]]
Compact(m, keep) ==
    IF keep = {} THEN NullValue
    ELSE [r \in {Moved(m, keep, q) : q \in keep} |->
             m[CHOOSE q \in keep : Moved(m, keep, q) = r]]

(* Properties.                                                             *)

\* StacksAgree (json_sax_dom_parser, json_sax_dom_callback_parser and the
\* vector states of sax_parse_internal): between two tokens ref_stack is one
\* pointer per open bracket; a pointer that is not null points to a container
\* of the bracket's kind, child of the pointer below it and the last element
\* if that is an array, so no emplace_back has moved what it points to; above
\* a null pointer there are only null pointers; keep_stack is one longer; and
\* an object waiting for a member's value has object_element at that member.
StacksAgree ==
    mode.sax # "accept" /\ out = "running" =>
        LET opening == pc \in {"first_key", "first_colon", "first_elem"}
            open == IF opening THEN Append(states, pc = "first_elem") ELSE states
        IN  /\ Len(d.ref) = Len(open)
            /\ mode.sax = "callback" => Len(d.keep) = Len(d.ref) + 1
            /\ \A i \in DOMAIN d.ref :
                 LET r == d.ref[i]
                     below == d.ref[i - 1]
                 IN  r # nullptr =>
                       /\ d.dom[r] = (IF open[i] THEN Array ELSE Object)
                       /\ IF i = 1 THEN r = <<>>
                          ELSE /\ below # nullptr /\ r \in Children(d.dom, below)
                               /\ d.dom[below] = Array =>
                                    Top(r) = Cardinality(Children(d.dom, below))
            /\ pc = "value" /\ HasBack /\ d.dom[back] = Object
                 /\ (mode.sax = "callback" => Top(d.keys))
               => d.elem \in Children(d.dom, back)

\* BuildsDocument (parser::parse with json_sax_dom_parser): a call that ends
\* well leaves exactly the value its tokens denote, the last of two members
\* with one key winning, whatever was half built for the first of them.
BuildsDocument ==
    mode.sax = "dom" /\ out = "ok" => result = Document

\* FilterExact (json_sax_dom_callback_parser): everything the callback kept is
\* in the value, in order, and of what it rejected, at its start, at its end, as a
\* key or as a value, at most a mark is left.  No mark is left, and the value is
\* exactly the document without what was rejected, if that is keys, scalars and
\* arrays in arrays, or the whole document.
LeavesNoMark(r) ==
    \/ IsKey(r) \/ Enclosing(r) = {}
    \/ toks[Innermost(r)][1] = "begin_array" /\ toks[r][1] # "begin_object"
FilterExact ==
    mode.sax = "callback" /\ out = "ok" /\ NoDuplicates =>
        LET gone == {PathOf(r) : r \in cut}
            kept == {q \in DOMAIN Document : \A g \in gone : ~Prefix(g, q)}
            real == {q \in DOMAIN result :
                        \A n \in 0 .. Len(q) : result[SubSeq(q, 1, n)] # Discarded}
        IN  /\ Compact(result, real) = Compact(Document, kept)
            /\ (\A r \in cut : LeavesNoMark(r)) => result = Compact(Document, kept)

\* NoneDiscarded (is_discarded): "This function will always be `false` for JSON
\* values after parsing. That is, discarded values can only occur during
\* parsing, but will be removed when inside a structured value".
NoneDiscarded == out = "ok" => \A q \in DOMAIN result : result[q] # Discarded
=============================================================================
