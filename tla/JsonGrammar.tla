---------------------------- MODULE JsonGrammar ----------------------------
(***************************************************************************)
(* The grammar of JSON over token types, for comparison with the parser of *)
(* JsonParser.  Recursive: only TLC uses this module.                      *)
(***************************************************************************)
EXTENDS Integers, Sequences

CONSTANT ScalarType   \* the token types that are a value on their own

RECURSIVE IsValue(_), IsElements(_), IsMembers(_)

Within(s) == SubSeq(s, 2, Len(s) - 1)
Until(s, i) == SubSeq(s, 1, i - 1)
After(s, i) == SubSeq(s, i + 1, Len(s))
Bracketed(s, open, close) == Len(s) > 1 /\ s[1] = open /\ s[Len(s)] = close

IsValue(s) ==
    \/ Len(s) = 1 /\ s[1] \in ScalarType
    \/ /\ Bracketed(s, "begin_array", "end_array")
       /\ Within(s) = <<>> \/ IsElements(Within(s))
    \/ /\ Bracketed(s, "begin_object", "end_object")
       /\ Within(s) = <<>> \/ IsMembers(Within(s))
IsElements(s) ==
    \/ IsValue(s)
    \/ \E i \in DOMAIN s : /\ s[i] = "value_separator"
                           /\ IsValue(Until(s, i)) /\ IsElements(After(s, i))
IsMember(s) == /\ Len(s) > 2 /\ s[1] = "value_string" /\ s[2] = "name_separator"
               /\ IsValue(After(s, 2))
IsMembers(s) ==
    \/ IsMember(s)
    \/ \E i \in DOMAIN s : /\ s[i] = "value_separator"
                           /\ IsMember(Until(s, i)) /\ IsMembers(After(s, i))
=============================================================================
