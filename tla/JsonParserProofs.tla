-------------------------- MODULE JsonParserProofs --------------------------
(***************************************************************************)
(* The pointers of the JSON parser's SAX consumers stay valid, for every   *)
(* sequence of tokens and every answer of the callback: what the raw       *)
(* pointers of ref_stack and object_element refer to is still there and is *)
(* what the parser takes it for.                                           *)
(***************************************************************************)
EXTENDS JsonParser, FiniteSetTheorems, SequenceTheorems, TLAPS

Path == Seq(Nat)

\* The children of an array are numbered from 1 to n.
Numbered(dom, r, n) == n \in Nat /\ Children(dom, r) = {Append(r, k) : k \in 1 .. n}

\* The i-th pointer: open[i] says whether its bracket opened an array.
Link(dom, ref, open, i) ==
    ref[i] # nullptr =>
        /\ ref[i] \in DOMAIN dom /\ Len(ref[i]) = i - 1
        /\ dom[ref[i]] = (IF open[i] THEN Array ELSE Object)
        /\ open[i] => \E n \in Nat : Numbered(dom, ref[i], n)
        /\ i > 1 => /\ ref[i - 1] # nullptr /\ ref[i] \in Children(dom, ref[i - 1])
                    /\ open[i - 1] => Top(ref[i]) = Cardinality(Children(dom, ref[i - 1]))

Chain(dom, ref, open) ==
    /\ DOMAIN dom \subseteq Path
    /\ ref \in Seq(Seq(Int)) /\ open \in Seq(BOOLEAN) /\ Len(ref) = Len(open)
    /\ \A i \in 1 .. Len(ref) : Link(dom, ref, open, i)

\* Two values that are the same above level n.
Agree(dom, dom2, n) ==
    \A q \in Path : Len(q) < n =>
        /\ q \in DOMAIN dom2 <=> q \in DOMAIN dom
        /\ q \in DOMAIN dom => dom2[q] = dom[q]
-----------------------------------------------------------------------------
(* Paths.                                                                  *)

LEMMA NullNotPath == nullptr \notin Path /\ nullptr \in Seq(Int)
<1>1. nullptr \in Seq(Int) /\ Len(nullptr) = 1 /\ nullptr[1] = -1
  BY DEF nullptr
<1>2. ASSUME nullptr \in Path PROVE FALSE
  <2>1. nullptr[1] \in Nat
    BY <1>1, <1>2, ElementOfSeq DEF Path
  <2> QED
    BY <1>1, <2>1
<1> QED
  BY <1>1, <1>2

\* The path of an element or member.
LEMMA ChildPath ==
    ASSUME NEW r \in Path, NEW k \in Nat
    PROVE  /\ Append(r, k) \in Path /\ Len(Append(r, k)) = Len(r) + 1
           /\ Prefix(r, Append(r, k)) /\ Top(Append(r, k)) = k
<1> DEFINE a == Append(r, k)
<1>1. /\ a \in Seq(Nat) /\ Len(a) = Len(r) + 1 /\ Len(r) \in Nat
      /\ \A i \in 1 .. Len(r) : a[i] = r[i]
      /\ a[Len(r) + 1] = k
  BY AppendProperties, LenProperties DEF Path
<1> HIDE DEF a
<1>2. \A i \in 1 .. Len(r) : a[i] \in Nat
  BY <1>1, ElementOfSeq DEF Path
<1>3. /\ SubSeq(a, 1, Len(r)) \in Seq(Nat)
      /\ Len(SubSeq(a, 1, Len(r))) = Len(r)
      /\ \A i \in 1 .. Len(r) : SubSeq(a, 1, Len(r))[i] = a[i]
  BY <1>1, <1>2, SubSeqProperties
<1>4. SubSeq(a, 1, Len(r)) = r
  BY <1>1, <1>3, SeqEqual DEF Path
<1> QED
  BY <1>1, <1>4 DEF a, Prefix, Top, Path

\* A path is the path of its parent and a last step.
LEMMA PathSplit ==
    ASSUME NEW r \in Path, NEW q \in Path, Len(q) = Len(r) + 1, Prefix(r, q)
    PROVE  Top(q) \in Nat /\ q = Append(r, Top(q))
<1>1. Len(r) \in Nat /\ Len(q) \in 1 .. Len(q) /\ Top(q) \in Nat
  BY LenProperties, ElementOfSeq DEF Path, Top
<1> DEFINE a == Append(r, Top(q))
<1>2. /\ a \in Seq(Nat) /\ Len(a) = Len(r) + 1
      /\ \A i \in 1 .. Len(r) : a[i] = r[i]
      /\ a[Len(r) + 1] = Top(q)
  BY <1>1, AppendProperties DEF Path
<1> HIDE DEF a
<1>3. \A i \in 1 .. Len(r) : q[i] \in Nat
  BY <1>1, ElementOfSeq DEF Path
<1>4. \A i \in 1 .. Len(r) : SubSeq(q, 1, Len(r))[i] = q[i]
  BY <1>1, <1>3, SubSeqProperties
<1>5. \A i \in 1 .. Len(r) : q[i] = r[i]
  BY <1>4 DEF Prefix
<1>6. \A i \in 1 .. Len(q) : q[i] = a[i]
  BY <1>1, <1>2, <1>5 DEF Top
<1>7. q = a
  BY <1>2, <1>6, SeqEqual DEF Path
<1> QED
  BY <1>1, <1>7 DEF a

LEMMA SamePath ==
    ASSUME NEW p \in Path, NEW q \in Path, Len(p) = Len(q), Prefix(p, q)
    PROVE  p = q
  BY SubSeqFull DEF Prefix, Path

LEMMA PrefixOfSelf ==
    ASSUME NEW p \in Path
    PROVE  Prefix(p, p) /\ Len(p) \in Nat
  BY SubSeqFull, LenProperties DEF Prefix, Path

\* n numbered children are n children.
LEMMA NumberedCount ==
    ASSUME NEW dom, NEW r \in Path, NEW n, Numbered(dom, r, n)
    PROVE  Cardinality(Children(dom, r)) = n /\ IsFiniteSet(Children(dom, r))
<1> DEFINE S == {Append(r, k) : k \in 1 .. n}
           f == [k \in 1 .. n |-> Append(r, k)]
<1>1. n \in Nat /\ Children(dom, r) = S
  BY DEF Numbered
<1>2. \A k, l \in 1 .. n : Append(r, k) = Append(r, l) => k = l
  BY <1>1, AppendInjective DEF Path
<1>3. f \in Bijection(1 .. n, S)
  BY <1>2 DEF Bijection, Injection, Surjection, IsInjective
<1>4. IsFiniteSet(1 .. n) /\ Cardinality(1 .. n) = n
  BY <1>1, FS_Interval
<1>5. ExistsBijection(1 .. n, S)
  BY <1>3 DEF ExistsBijection
<1> QED
  BY <1>1, <1>4, <1>5, FS_Bijection

LEMMA LeastNatural ==
    ASSUME NEW T, T \subseteq Nat, T # {}
    PROVE  \E x \in T : \A y \in T : x <= y
<1> DEFINE R == OpToRel(<, Nat)
<1>1. IsWellFoundedOn(R, Nat)
  BY NatLessThanWellFounded
<1> HIDE DEF R
<1>2. PICK x \in T : \A y \in T : ~ (<<y, x>> \in R)
  BY <1>1, WFMin, Zenon
<1>3. \A y \in T : y < x => <<y, x>> \in R
  BY DEF R, OpToRel
<1>4. \A y \in T : ~ (y < x)
  BY <1>2, <1>3, Zenon
<1> QED
  BY <1>4
-----------------------------------------------------------------------------
(* Assigning to a path and erasing one.                                    *)

LEMMA AssignFacts ==
    ASSUME NEW dom, DOMAIN dom \subseteq Path, NEW p \in Path, NEW v
    PROVE  LET dom2 == Assign(dom, p, v)
           IN  /\ DOMAIN dom2 \subseteq Path /\ p \in DOMAIN dom2 /\ dom2[p] = v
               /\ Agree(dom, dom2, Len(p)) /\ Children(dom2, p) = {}
               /\ \A r \in Path : Len(p) = Len(r) + 1 /\ Prefix(r, p) =>
                    Children(dom2, r) = Children(dom, r) \cup {p}
<1> DEFINE dom2 == Assign(dom, p, v)
<1>1. /\ DOMAIN dom2 = {q \in DOMAIN dom : ~ Prefix(p, q)} \cup {p}
      /\ dom2[p] = v /\ \A q \in DOMAIN dom : ~ Prefix(p, q) /\ q # p => dom2[q] = dom[q]
  BY DEF Assign
<1>2. \A q \in Path : Len(q) < Len(p) => ~ Prefix(p, q) /\ q # p
  BY LenProperties DEF Prefix, Path
<1>3. Len(p) \in Nat /\ Prefix(p, p)
  BY PrefixOfSelf
<1> HIDE DEF dom2
<1>4. Children(dom2, p) = {}
  <2>1. \A q \in DOMAIN dom2 : Len(q) = Len(p) + 1 => ~ Prefix(p, q)
    BY <1>1, <1>3
  <2> QED
    BY <2>1 DEF Children
<1>5. ASSUME NEW r \in Path, Len(p) = Len(r) + 1, Prefix(r, p)
      PROVE  Children(dom2, r) = Children(dom, r) \cup {p}
  <2>1. \A q \in DOMAIN dom : Len(q) = Len(p) /\ Prefix(p, q) => q = p
    BY SamePath
  <2> QED
    BY <1>1, <1>5, <2>1 DEF Children
<1>6. Agree(dom, dom2, Len(p))
  BY <1>1, <1>2 DEF Agree
<1> QED
  BY <1>1, <1>4, <1>5, <1>6 DEF dom2

LEMMA EraseFacts ==
    ASSUME NEW dom, DOMAIN dom \subseteq Path, NEW p \in Path
    PROVE  LET dom2 == Erase(dom, p)
           IN  /\ DOMAIN dom2 \subseteq Path /\ Agree(dom, dom2, Len(p))
               /\ \A r \in Path : Len(p) = Len(r) + 1 /\ Prefix(r, p) =>
                    Children(dom2, r) = Children(dom, r) \ {p}
<1> DEFINE dom2 == Erase(dom, p)
<1>1. /\ DOMAIN dom2 = {q \in DOMAIN dom : ~ Prefix(p, q)}
      /\ \A q \in DOMAIN dom2 : dom2[q] = dom[q]
  BY DEF Erase
<1>2. \A q \in Path : Len(q) < Len(p) => ~ Prefix(p, q)
  BY LenProperties DEF Prefix, Path
<1>3. Prefix(p, p)
  BY PrefixOfSelf
<1> HIDE DEF dom2
<1>4. ASSUME NEW r \in Path, Len(p) = Len(r) + 1, Prefix(r, p)
      PROVE  Children(dom2, r) = Children(dom, r) \ {p}
  <2>1. \A q \in DOMAIN dom : Len(q) = Len(p) /\ Prefix(p, q) => q = p
    BY SamePath
  <2> QED
    BY <1>1, <1>3, <1>4, <2>1 DEF Children
<1>5. Agree(dom, dom2, Len(p))
  BY <1>1, <1>2 DEF Agree
<1> QED
  BY <1>1, <1>4, <1>5 DEF dom2
-----------------------------------------------------------------------------
(* The chain of pointers.                                                  *)

\* The lengths and children of a pointer that is not null.
LEMMA LinkFacts ==
    ASSUME NEW dom, NEW ref, NEW open, Chain(dom, ref, open),
           NEW i \in 1 .. Len(ref), ref[i] # nullptr
    PROVE  /\ ref[i] \in Path /\ ref[i] \in DOMAIN dom /\ Len(ref[i]) = i - 1
           /\ open[i] \in BOOLEAN
           /\ open[i] => dom[ref[i]] = Array /\ dom[ref[i]] # Object
           /\ ~ open[i] => dom[ref[i]] = Object /\ dom[ref[i]] # Array
<1>1. Link(dom, ref, open, i) /\ DOMAIN dom \subseteq Path /\ open[i] \in BOOLEAN
  BY DEF Chain
<1>2. Array # Object
  BY DEF Array, Object, Tok
<1> QED
  BY <1>1, <1>2 DEF Link

\* The last pointer.
LEMMA TopFacts ==
    ASSUME NEW dom, NEW ref, NEW open, Chain(dom, ref, open), ref # <<>>, Top(ref) # nullptr
    PROVE  /\ Len(ref) \in Nat \ {0} /\ DOMAIN dom \subseteq Path
           /\ Top(ref) \in Path /\ Top(ref) \in DOMAIN dom /\ Len(Top(ref)) = Len(ref) - 1
           /\ Top(open) \in BOOLEAN
           /\ Top(open) => dom[Top(ref)] = Array /\ dom[Top(ref)] # Object
           /\ ~ Top(open) => dom[Top(ref)] = Object /\ dom[Top(ref)] # Array
<1>1. /\ ref \in Seq(Seq(Int)) /\ open \in Seq(BOOLEAN) /\ Len(ref) = Len(open)
      /\ DOMAIN dom \subseteq Path
  BY DEF Chain
<1>2. Len(ref) \in Nat \ {0}
  BY <1>1, EmptySeq
<1>3. Len(ref) \in 1 .. Len(ref) /\ Top(ref) = ref[Len(ref)] /\ Top(open) = open[Len(ref)]
  BY <1>1, <1>2 DEF Top
<1> DEFINE i == Len(ref)
<1>4. i \in 1 .. Len(ref) /\ ref[i] # nullptr
  BY <1>3
<1> HIDE DEF i
<1>5. /\ ref[i] \in Path /\ ref[i] \in DOMAIN dom /\ Len(ref[i]) = i - 1
      /\ open[i] \in BOOLEAN
      /\ open[i] => dom[ref[i]] = Array /\ dom[ref[i]] # Object
      /\ ~ open[i] => dom[ref[i]] = Object /\ dom[ref[i]] # Array
  BY <1>4, LinkFacts
<1> QED
  BY <1>1, <1>2, <1>3, <1>5 DEF i

\* What changes below the last pointer leaves the chain alone, as long as the
\* elements of an array stay numbered.
LEMMA ChainKept ==
    ASSUME NEW dom, NEW ref, NEW open, Chain(dom, ref, open),
           NEW dom2, DOMAIN dom2 \subseteq Path, Agree(dom, dom2, Len(ref)),
           ref # <<>> /\ Top(ref) # nullptr /\ Top(open) =>
               \E n \in Nat : Numbered(dom2, Top(ref), n)
    PROVE  Chain(dom2, ref, open)
<1>1. /\ DOMAIN dom \subseteq Path /\ ref \in Seq(Seq(Int)) /\ open \in Seq(BOOLEAN)
      /\ Len(ref) = Len(open) /\ Len(ref) \in Nat
  BY LenProperties DEF Chain
<1>2. SUFFICES ASSUME NEW i \in 1 .. Len(ref), ref[i] # nullptr
               PROVE  Link(dom2, ref, open, i)
  BY <1>1 DEF Chain, Link
<1>3. Link(dom, ref, open, i) /\ ref[i] \in Path /\ Len(ref[i]) = i - 1 /\ ref[i] \in DOMAIN dom
  <2>1. Link(dom, ref, open, i)
    BY DEF Chain
  <2> QED
    BY <1>2, <2>1, LinkFacts
<1>4. ref[i] \in DOMAIN dom2 /\ dom2[ref[i]] = dom[ref[i]]
  BY <1>1, <1>3 DEF Agree
<1>5. ASSUME NEW r \in Path, Len(r) + 1 < Len(ref)
      PROVE  Children(dom2, r) = Children(dom, r)
  <2>1. \A q \in Path : Len(q) = Len(r) + 1 => (q \in DOMAIN dom2 <=> q \in DOMAIN dom)
    BY <1>5 DEF Agree
  <2> QED
    BY <1>1, <2>1 DEF Children
<1>6. open[i] => \E n \in Nat : Numbered(dom2, ref[i], n)
  <2>1. CASE i = Len(ref)
    BY <1>1, <1>2, <2>1 DEF Top
  <2>2. CASE i < Len(ref)
    <3>1. Children(dom2, ref[i]) = Children(dom, ref[i])
      BY <1>3, <1>5, <2>2
    <3> QED
      BY <1>2, <1>3, <3>1 DEF Link, Numbered
  <2> QED
    BY <1>1, <2>1, <2>2
<1>7. i > 1 => /\ ref[i - 1] # nullptr /\ ref[i] \in Children(dom2, ref[i - 1])
               /\ open[i - 1] => Top(ref[i]) = Cardinality(Children(dom2, ref[i - 1]))
  <2>1. SUFFICES ASSUME i > 1
                 PROVE  /\ ref[i - 1] # nullptr /\ ref[i] \in Children(dom2, ref[i - 1])
                        /\ open[i - 1] => Top(ref[i]) = Cardinality(Children(dom2, ref[i - 1]))
    OBVIOUS
  <2>2. i - 1 \in 1 .. Len(ref) /\ ref[i - 1] # nullptr
    BY <1>1, <1>2, <1>3, <2>1 DEF Link
  <2>3. ref[i - 1] \in Path /\ Len(ref[i - 1]) = (i - 1) - 1
    BY <2>2, LinkFacts
  <2>4. Children(dom2, ref[i - 1]) = Children(dom, ref[i - 1])
    BY <1>1, <1>5, <2>3
  <2> QED
    BY <1>2, <1>3, <2>1, <2>2, <2>4 DEF Link
<1> QED
  BY <1>2, <1>3, <1>4, <1>6, <1>7 DEF Link

LEMMA PopFacts ==
    ASSUME NEW S, NEW s \in Seq(S)
    PROVE  /\ Pop(s) \in Seq(S)
           /\ s # <<>> => /\ Len(s) \in Nat \ {0} /\ Len(Pop(s)) = Len(s) - 1
                          /\ \A i \in 1 .. Len(s) - 1 : Pop(s)[i] = s[i]
<1>1. Len(s) \in Nat /\ \A i \in 1 .. Len(s) - 1 : s[i] \in S
  BY LenProperties, ElementOfSeq
<1>2. /\ Pop(s) \in Seq(S)
      /\ Len(Pop(s)) = IF 1 <= Len(s) - 1 THEN Len(s) - 1 - 1 + 1 ELSE 0
      /\ \A i \in 1 .. (Len(s) - 1) - 1 + 1 : Pop(s)[i] = s[1 + i - 1]
  BY <1>1, SubSeqProperties DEF Pop
<1>3. s # <<>> => Len(s) \in Nat \ {0}
  BY EmptySeq
<1>4. ASSUME s # <<>>, NEW i \in 1 .. Len(s) - 1
      PROVE  Pop(s)[i] = s[i]
  <2>1. i \in 1 .. (Len(s) - 1) - 1 + 1 /\ 1 + i - 1 = i
    BY <1>1
  <2> QED
    BY <1>2, <2>1
<1>5. s # <<>> => Len(Pop(s)) = Len(s) - 1
  <2> DEFINE n == Len(s)
             m == Len(Pop(s))
  <2>1. n \in Nat /\ (s # <<>> => n \in Nat \ {0})
    BY <1>1, <1>3
  <2>2. m = IF 1 <= n - 1 THEN n - 1 - 1 + 1 ELSE 0
    BY <1>2
  <2> HIDE DEF n, m
  <2>3. s # <<>> => m = n - 1
    BY <2>1, <2>2
  <2> QED
    BY <2>3 DEF n, m
<1>6. s # <<>> => \A i \in 1 .. Len(s) - 1 : Pop(s)[i] = s[i]
  BY <1>4
<1>7. Pop(s) \in Seq(S)
  BY <1>2
<1> QED
  BY ONLY <1>3, <1>5, <1>6, <1>7

LEMMA ChainPop ==
    ASSUME NEW dom, NEW ref, NEW open, Chain(dom, ref, open), ref # <<>>
    PROVE  Chain(dom, Pop(ref), Pop(open)) /\ Len(Pop(ref)) = Len(ref) - 1
<1>1. /\ ref \in Seq(Seq(Int)) /\ open \in Seq(BOOLEAN) /\ Len(ref) = Len(open)
      /\ Len(ref) \in Nat \ {0} /\ open # <<>>
  BY EmptySeq DEF Chain
<1>2. /\ Pop(ref) \in Seq(Seq(Int)) /\ Len(Pop(ref)) = Len(ref) - 1
      /\ \A i \in 1 .. Len(ref) - 1 : Pop(ref)[i] = ref[i]
  BY <1>1, PopFacts
<1>3. /\ Pop(open) \in Seq(BOOLEAN) /\ Len(Pop(open)) = Len(ref) - 1
      /\ \A i \in 1 .. Len(ref) - 1 : Pop(open)[i] = open[i]
  BY <1>1, PopFacts
<1>4. ASSUME NEW i \in 1 .. Len(ref) - 1
      PROVE  Link(dom, Pop(ref), Pop(open), i)
  <2>1. Link(dom, ref, open, i)
    BY <1>1 DEF Chain
  <2>2. i > 1 => Pop(ref)[i - 1] = ref[i - 1] /\ Pop(open)[i - 1] = open[i - 1]
    <3>1. i > 1 => i - 1 \in 1 .. Len(ref) - 1
      BY <1>1
    <3> QED
      BY <1>2, <1>3, <3>1
  <2> QED
    BY <1>2, <1>3, <2>1, <2>2 DEF Link
<1> QED
  BY <1>2, <1>3, <1>4 DEF Chain

\* A null pointer is pushed.
LEMMA ChainPushNull ==
    ASSUME NEW dom, NEW ref, NEW open, Chain(dom, ref, open), NEW a \in BOOLEAN
    PROVE  Chain(dom, Append(ref, nullptr), Append(open, a))
<1>1. /\ ref \in Seq(Seq(Int)) /\ open \in Seq(BOOLEAN) /\ Len(ref) = Len(open)
      /\ Len(ref) \in Nat /\ nullptr \in Seq(Int)
  BY LenProperties, NullNotPath DEF Chain
<1> DEFINE ref2 == Append(ref, nullptr)
           open2 == Append(open, a)
<1>2. /\ ref2 \in Seq(Seq(Int)) /\ Len(ref2) = Len(ref) + 1 /\ ref2[Len(ref) + 1] = nullptr
      /\ \A i \in 1 .. Len(ref) : ref2[i] = ref[i]
  BY <1>1, AppendProperties
<1>3. /\ open2 \in Seq(BOOLEAN) /\ Len(open2) = Len(ref) + 1
      /\ \A i \in 1 .. Len(ref) : open2[i] = open[i]
  BY <1>1, AppendProperties
<1> HIDE DEF ref2, open2
<1>4. ASSUME NEW i \in 1 .. Len(ref) + 1
      PROVE  Link(dom, ref2, open2, i)
  <2>1. CASE i = Len(ref) + 1
    BY <1>2, <2>1 DEF Link
  <2>2. CASE i # Len(ref) + 1
    <3>1. i \in 1 .. Len(ref) /\ Link(dom, ref, open, i)
      BY <1>1, <2>2 DEF Chain
    <3>2. i > 1 => ref2[i - 1] = ref[i - 1] /\ open2[i - 1] = open[i - 1]
      BY <1>1, <1>2, <1>3, <3>1
    <3> QED
      BY <1>2, <1>3, <3>1, <3>2 DEF Link
  <2> QED
    BY <2>1, <2>2
<1> QED
  BY <1>2, <1>3, <1>4 DEF Chain, ref2, open2

\* Where a value goes: the document itself, the next element, or a member.
Place(dom, ref, open, p) ==
    IF ref = <<>> THEN p = <<>>
    ELSE /\ Top(ref) # nullptr
         /\ p \in Path /\ Len(p) = Len(Top(ref)) + 1 /\ Prefix(Top(ref), p)
         /\ Top(open) => p = Back(dom, Top(ref))

\* A value is assigned there: the chain stays, and the path is there.
LEMMA ChainAssign ==
    ASSUME NEW dom, NEW ref, NEW open, Chain(dom, ref, open),
           NEW p, Place(dom, ref, open, p), NEW v
    PROVE  LET dom2 == Assign(dom, p, v)
           IN  /\ Chain(dom2, ref, open) /\ p \in Path /\ Len(p) = Len(ref)
               /\ p \in DOMAIN dom2 /\ dom2[p] = v /\ Children(dom2, p) = {}
               /\ ref # <<>> =>
                    /\ p \in Children(dom2, Top(ref))
                    /\ Top(open) => Top(p) = Cardinality(Children(dom2, Top(ref)))
<1> DEFINE dom2 == Assign(dom, p, v)
<1>1. /\ ref \in Seq(Seq(Int)) /\ open \in Seq(BOOLEAN) /\ Len(ref) = Len(open)
      /\ Len(ref) \in Nat /\ DOMAIN dom \subseteq Path
  BY LenProperties DEF Chain
<1>2. CASE ref = <<>>
  <2>1. p \in Path /\ Len(p) = 0 /\ Len(ref) = 0
    BY <1>2, EmptySeq DEF Path, Place
  <2>2. /\ DOMAIN dom2 \subseteq Path /\ p \in DOMAIN dom2 /\ dom2[p] = v
        /\ Agree(dom, dom2, Len(p)) /\ Children(dom2, p) = {}
    BY <1>1, <2>1, AssignFacts
  <2> HIDE DEF dom2
  <2>3. Chain(dom2, ref, open)
    BY <1>1, <2>1, <2>2 DEF Chain
  <2> QED
    BY <1>2, <2>1, <2>2, <2>3 DEF dom2
<1>3. CASE ref # <<>>
  <2> DEFINE r == Top(ref)
  <2>1. /\ Len(ref) \in 1 .. Len(ref) /\ r # nullptr /\ r = ref[Len(ref)]
        /\ p \in Path /\ Len(p) = Len(r) + 1 /\ Prefix(r, p)
        /\ Top(open) => p = Back(dom, r)
        /\ Top(open) = open[Len(ref)]
    BY <1>1, <1>3, EmptySeq DEF Place, Top
  <2>2. /\ r \in Path /\ Len(r) = Len(ref) - 1 /\ Top(open) \in BOOLEAN
    BY <2>1, LinkFacts
  <2>3. /\ DOMAIN dom2 \subseteq Path /\ p \in DOMAIN dom2 /\ dom2[p] = v
        /\ Agree(dom, dom2, Len(p)) /\ Children(dom2, p) = {}
        /\ Children(dom2, r) = Children(dom, r) \cup {p}
    <3>1. /\ DOMAIN dom2 \subseteq Path /\ p \in DOMAIN dom2 /\ dom2[p] = v
          /\ Agree(dom, dom2, Len(p)) /\ Children(dom2, p) = {}
          /\ \A t \in Path : Len(p) = Len(t) + 1 /\ Prefix(t, p) =>
               Children(dom2, t) = Children(dom, t) \cup {p}
      <4> HIDE DEF r
      <4>1. DOMAIN dom \subseteq Path /\ p \in Path
        BY <1>1, <2>1
      <4> QED
        BY ONLY <4>1, AssignFacts
    <3> HIDE DEF dom2, r
    <3> QED
      BY <2>1, <2>2, <3>1
  <2> HIDE DEF dom2, r
  <2>4. Len(p) = Len(ref)
    BY <1>1, <2>1, <2>2
  <2>5. ASSUME Top(open)
        PROVE  \E n \in Nat : Numbered(dom2, r, n) /\ Top(p) = n
    <3>1. PICK n \in Nat : Numbered(dom, r, n)
      BY <2>1, <2>2, <2>5 DEF Chain, Link
    <3>2. Cardinality(Children(dom, r)) = n
      BY <2>2, <3>1, NumberedCount
    <3>3. p = Append(r, n + 1)
      BY <2>1, <2>5, <3>2 DEF Back
    <3>4. Top(p) = n + 1
      BY <2>2, <3>3, ChildPath
    <3>5. Children(dom2, r) = {Append(r, k) : k \in 1 .. n} \cup {Append(r, n + 1)}
      BY <2>3, <3>1, <3>3 DEF Numbered
    <3>6. 1 .. n + 1 = (1 .. n) \cup {n + 1}
      OBVIOUS
    <3>7. Numbered(dom2, r, n + 1)
      BY <3>5, <3>6 DEF Numbered
    <3> QED
      BY <3>4, <3>7
  <2>6. Chain(dom2, ref, open)
    BY <2>3, <2>4, <2>5, ChainKept DEF r
  <2>7. Top(open) => Top(p) = Cardinality(Children(dom2, r))
    BY <2>2, <2>5, NumberedCount
  <2> QED
    BY <2>1, <2>3, <2>4, <2>6, <2>7 DEF dom2, r
<1> QED
  BY <1>2, <1>3

\* A container that is placed is pushed.
LEMMA ChainPush ==
    ASSUME NEW dom, NEW ref, NEW open, Chain(dom, ref, open),
           NEW p, Place(dom, ref, open, p), NEW a \in BOOLEAN,
           NEW v, v = IF a THEN Array ELSE Object
    PROVE  Chain(Assign(dom, p, v), Append(ref, p), Append(open, a))
<1> DEFINE dom2 == Assign(dom, p, v)
           ref2 == Append(ref, p)
           open2 == Append(open, a)
<1>1. /\ Chain(dom2, ref, open) /\ p \in Path /\ Len(p) = Len(ref)
      /\ p \in DOMAIN dom2 /\ dom2[p] = v /\ Children(dom2, p) = {}
      /\ ref # <<>> =>
           /\ p \in Children(dom2, Top(ref))
           /\ Top(open) => Top(p) = Cardinality(Children(dom2, Top(ref)))
  BY ChainAssign
<1> HIDE DEF dom2
<1>2. /\ ref \in Seq(Seq(Int)) /\ open \in Seq(BOOLEAN) /\ Len(ref) = Len(open)
      /\ Len(ref) \in Nat /\ p \in Seq(Int)
  BY <1>1, LenProperties, SeqMonotonic DEF Chain, Path
<1>3. /\ ref2 \in Seq(Seq(Int)) /\ Len(ref2) = Len(ref) + 1 /\ ref2[Len(ref) + 1] = p
      /\ \A i \in 1 .. Len(ref) : ref2[i] = ref[i]
  BY <1>2, AppendProperties
<1>4. /\ open2 \in Seq(BOOLEAN) /\ Len(open2) = Len(ref) + 1 /\ open2[Len(ref) + 1] = a
      /\ \A i \in 1 .. Len(ref) : open2[i] = open[i]
  BY <1>2, AppendProperties
<1> HIDE DEF ref2, open2
<1>5. ASSUME NEW i \in 1 .. Len(ref) + 1
      PROVE  Link(dom2, ref2, open2, i)
  <2>1. CASE i = Len(ref) + 1
    <3>1. Numbered(dom2, p, 0)
      BY <1>1 DEF Numbered
    <3>2. ASSUME i > 1
          PROVE  /\ ref2[i - 1] # nullptr /\ p \in Children(dom2, ref2[i - 1])
                 /\ open2[i - 1] => Top(p) = Cardinality(Children(dom2, ref2[i - 1]))
      <4>1. Len(ref) \in 1 .. Len(ref) /\ i - 1 = Len(ref) /\ ref # <<>>
        BY <1>2, <2>1, <3>2, EmptySeq
      <4>2. ref2[i - 1] = Top(ref) /\ open2[i - 1] = Top(open)
        BY <1>2, <1>3, <1>4, <4>1 DEF Top
      <4> QED
        BY <1>1, <4>1, <4>2 DEF Place
    <3> QED
      BY <1>1, <1>2, <1>3, <1>4, <2>1, <3>1, <3>2 DEF Link
  <2>2. CASE i # Len(ref) + 1
    <3>1. i \in 1 .. Len(ref) /\ Link(dom2, ref, open, i)
      BY <1>1, <1>2, <2>2 DEF Chain
    <3>2. i > 1 => ref2[i - 1] = ref[i - 1] /\ open2[i - 1] = open[i - 1]
      <4>1. i > 1 => i - 1 \in 1 .. Len(ref)
        BY <1>2, <3>1
      <4> QED
        BY <1>3, <1>4, <4>1
    <3> QED
      BY <1>3, <1>4, <3>1, <3>2 DEF Link
  <2> QED
    BY <2>1, <2>2
<1> QED
  BY <1>1, <1>3, <1>4, <1>5 DEF Chain, dom2, ref2, open2

\* The pointer below the last one.
LEMMA BelowTop ==
    ASSUME NEW dom, NEW ref, NEW open, Chain(dom, ref, open), ref # <<>>, Top(ref) # nullptr,
           Pop(ref) # <<>>
    PROVE  LET r == Top(Pop(ref))
           IN  /\ r # nullptr /\ r \in Path /\ Top(ref) \in Children(dom, r)
               /\ Len(Top(ref)) = Len(r) + 1 /\ Prefix(r, Top(ref))
               /\ Top(Pop(open)) \in BOOLEAN
               /\ Top(Pop(open)) =>
                    \E n \in Nat : Numbered(dom, r, n) /\ Top(Top(ref)) = n
               /\ r \in DOMAIN dom /\ dom[r] = IF Top(Pop(open)) THEN Array ELSE Object
<1> DEFINE i == Len(ref)
           r == ref[i - 1]
<1>1. /\ ref \in Seq(Seq(Int)) /\ open \in Seq(BOOLEAN) /\ Len(ref) = Len(open)
      /\ i \in Nat \ {0} /\ open # <<>>
  BY EmptySeq DEF Chain
<1>2. Len(Pop(ref)) = i - 1 /\ \A j \in 1 .. i - 1 : Pop(ref)[j] = ref[j]
  BY <1>1, PopFacts
<1>3. Len(Pop(open)) = i - 1 /\ \A j \in 1 .. i - 1 : Pop(open)[j] = open[j]
  BY <1>1, PopFacts
<1>4. i > 1
  <2>1. Pop(ref) \in Seq(Seq(Int))
    BY <1>1, PopFacts
  <2>2. Len(Pop(ref)) \in Nat \ {0}
    BY <2>1, EmptySeq
  <2> QED
    BY <1>1, <1>2, <2>2
<1>5. i - 1 \in 1 .. i - 1 /\ i \in 1 .. i /\ i - 1 \in 1 .. i
  BY <1>1, <1>4
<1>6. r = Top(Pop(ref)) /\ open[i - 1] = Top(Pop(open)) /\ Top(ref) = ref[i]
  BY <1>2, <1>3, <1>5 DEF Top
<1>7. Link(dom, ref, open, i) /\ Link(dom, ref, open, i - 1)
  BY <1>5 DEF Chain
<1> HIDE DEF i
<1>8. /\ r # nullptr /\ Top(ref) \in Children(dom, r)
      /\ open[i - 1] => Top(Top(ref)) = Cardinality(Children(dom, r))
  BY <1>4, <1>6, <1>7 DEF Link
<1>9. r \in Path /\ r \in DOMAIN dom /\ open[i - 1] \in BOOLEAN
  BY <1>5, <1>8, LinkFacts DEF i
<1>10. Len(Top(ref)) = Len(r) + 1 /\ Prefix(r, Top(ref))
  BY <1>8 DEF Children
<1>11. dom[r] = (IF open[i - 1] THEN Array ELSE Object)
  BY <1>7, <1>8 DEF Link
<1>12. ASSUME open[i - 1]
       PROVE  \E n \in Nat : Numbered(dom, r, n) /\ Top(Top(ref)) = n
  <2>1. PICK n \in Nat : Numbered(dom, r, n)
    BY <1>7, <1>8, <1>12 DEF Link
  <2>2. Cardinality(Children(dom, r)) = n
    BY <1>9, <2>1, NumberedCount
  <2> QED
    BY <1>8, <1>12, <2>1, <2>2
<1> QED
  BY <1>6, <1>8, <1>9, <1>10, <1>11, <1>12

\* The last container is replaced by a discarded value and popped.
LEMMA ChainDiscard ==
    ASSUME NEW dom, NEW ref, NEW open, Chain(dom, ref, open), ref # <<>>, Top(ref) # nullptr, NEW v
    PROVE  Chain(Assign(dom, Top(ref), v), Pop(ref), Pop(open))
<1> DEFINE p == Top(ref)
           dom2 == Assign(dom, p, v)
<1>1. Chain(dom, Pop(ref), Pop(open)) /\ Len(Pop(ref)) = Len(ref) - 1
  BY ChainPop
<1>2. p \in Path /\ Len(p) = Len(ref) - 1 /\ DOMAIN dom \subseteq Path
  BY TopFacts
<1>3. /\ DOMAIN dom2 \subseteq Path /\ Agree(dom, dom2, Len(p))
      /\ \A t \in Path : Len(p) = Len(t) + 1 /\ Prefix(t, p) =>
           Children(dom2, t) = Children(dom, t) \cup {p}
  <2> HIDE DEF p
  <2> QED
    BY ONLY <1>2, AssignFacts
<1> HIDE DEF dom2
<1>4. ASSUME Pop(ref) # <<>>, Top(Pop(ref)) # nullptr, Top(Pop(open))
      PROVE  \E n \in Nat : Numbered(dom2, Top(Pop(ref)), n)
  <2> DEFINE r == Top(Pop(ref))
  <2>1. /\ r \in Path /\ p \in Children(dom, r) /\ Len(p) = Len(r) + 1 /\ Prefix(r, p)
        /\ \E n \in Nat : Numbered(dom, r, n)
    BY <1>4, BelowTop
  <2> HIDE DEF r, p
  <2>2. Children(dom2, r) = Children(dom, r)
    BY <1>3, <2>1
  <2> QED
    BY <2>1, <2>2 DEF Numbered, r
<1> QED
  BY <1>1, <1>2, <1>3, <1>4, ChainKept DEF dom2

\* The last container is an element of an array; it is erased and popped.
LEMMA ChainEraseLast ==
    ASSUME NEW dom, NEW ref, NEW open, Chain(dom, ref, open), ref # <<>>, Top(ref) # nullptr,
           Pop(ref) # <<>>, dom[Top(Pop(ref))] = Array
    PROVE  Chain(Erase(dom, Top(ref)), Pop(ref), Pop(open))
<1> DEFINE p == Top(ref)
           r == Top(Pop(ref))
           dom2 == Erase(dom, p)
<1>1. Chain(dom, Pop(ref), Pop(open)) /\ Len(Pop(ref)) = Len(ref) - 1
  BY ChainPop
<1>2. p \in Path /\ Len(p) = Len(ref) - 1 /\ DOMAIN dom \subseteq Path
  BY TopFacts
<1>3. /\ DOMAIN dom2 \subseteq Path /\ Agree(dom, dom2, Len(p))
      /\ \A t \in Path : Len(p) = Len(t) + 1 /\ Prefix(t, p) =>
           Children(dom2, t) = Children(dom, t) \ {p}
  <2> HIDE DEF p
  <2> QED
    BY ONLY <1>2, EraseFacts
<1> HIDE DEF dom2
<1>4. /\ r \in Path /\ p \in Children(dom, r) /\ Len(p) = Len(r) + 1 /\ Prefix(r, p)
      /\ Top(Pop(open)) \in BOOLEAN
      /\ Top(Pop(open)) => \E n \in Nat : Numbered(dom, r, n) /\ Top(p) = n
      /\ dom[r] = IF Top(Pop(open)) THEN Array ELSE Object
  BY BelowTop
<1>5. Top(Pop(open))
  BY <1>4 DEF Array, Object, Tok
<1> HIDE DEF r, p
<1>6. PICK n \in Nat : Numbered(dom, r, n) /\ Top(p) = n
  BY <1>4, <1>5
<1>7. p = Append(r, n)
  BY <1>2, <1>4, <1>6, PathSplit
<1>8. \A k \in 1 .. n : Append(r, k) = Append(r, n) => k = n
  BY <1>4, AppendInjective DEF Path
<1>9. n \in 1 .. n
  <2>1. \E k \in 1 .. n : p = Append(r, k)
    BY <1>4, <1>6 DEF Numbered
  <2> QED
    BY <2>1
<1>10. Children(dom2, r) = {Append(r, k) : k \in 1 .. n} \ {Append(r, n)}
  BY <1>3, <1>4, <1>6, <1>7 DEF Numbered
<1>11. (1 .. n) \ {n} = 1 .. n - 1 /\ n - 1 \in Nat
  BY <1>9
<1>12. Children(dom2, r) = {Append(r, k) : k \in (1 .. n) \ {n}}
  BY <1>8, <1>10
<1>13. Numbered(dom2, r, n - 1)
  BY <1>11, <1>12 DEF Numbered
<1> QED
  BY <1>1, <1>2, <1>3, <1>11, <1>13, ChainKept DEF dom2, r, p

\* A discarded member of the last object is erased.
LEMMA ChainEraseDiscarded ==
    ASSUME NEW dom, NEW ref, NEW open, Chain(dom, ref, open), ref # <<>>, Top(ref) # nullptr,
           dom[Top(ref)] = Object
    PROVE  Chain(EraseDiscarded(dom, Top(ref)), ref, open)
<1> DEFINE r == Top(ref)
           gone == {q \in Children(dom, r) : dom[q] = Discarded}
<1>1. CASE gone = {}
  BY <1>1 DEF EraseDiscarded
<1>2. CASE gone # {}
  <2>1. Len(ref) \in Nat /\ DOMAIN dom \subseteq Path
    BY TopFacts
  <2>2. r \in Path /\ Len(r) = Len(ref) - 1 /\ ~ Top(open)
    BY TopFacts
  <2>3. \A q \in gone : q \in Path /\ Top(q) \in Nat /\ Len(q) = Len(r) + 1
    BY <2>1, <2>2, PathSplit DEF Children
  <2> DEFINE T == {Top(q) : q \in gone}
  <2>4. T \subseteq Nat /\ T # {}
    BY <1>2, <2>3
  <2> HIDE DEF T
  <2>5. \E x \in T : \A y \in T : x <= y
    BY <2>4, LeastNatural
  <2> HIDE DEF gone
  <2>6. \E q \in gone : \A g \in gone : Top(q) <= Top(g)
    BY <2>5 DEF T
  <2> DEFINE p == CHOOSE q \in gone : \A g \in gone : Top(q) <= Top(g)
  <2>7. p \in gone
    BY <2>6
  <2>8. EraseDiscarded(dom, r) = Erase(dom, p)
    BY <1>2 DEF EraseDiscarded, gone
  <2> HIDE DEF p, r
  <2>9. p \in Path /\ Len(p) = Len(ref)
    BY <2>1, <2>2, <2>3, <2>7
  <2>10. DOMAIN Erase(dom, p) \subseteq Path /\ Agree(dom, Erase(dom, p), Len(p))
    BY ONLY <2>1, <2>9, EraseFacts
  <2> QED
    BY <2>2, <2>8, <2>9, <2>10, ChainKept DEF r
<1> QED
  BY <1>1, <1>2
-----------------------------------------------------------------------------
(* The SAX events keep the consumer's stacks in order.  open is the kind   *)
(* of each open bracket.                                                   *)

Good(sax, x, open) ==
    /\ x = [dom |-> x.dom, ref |-> x.ref, elem |-> x.elem, keep |-> x.keep, keys |-> x.keys]
    /\ Chain(x.dom, x.ref, open)
    /\ x.keep \in Seq(BOOLEAN) /\ x.keys \in Seq(BOOLEAN)
    /\ sax = "callback" => Len(x.keep) = Len(x.ref) + 1
    /\ sax = "dom" => \A i \in 1 .. Len(x.ref) : x.ref[i] # nullptr

\* An object that waits for a member's value has object_element at the member.
Element(sax, x) ==
    x.ref # <<>> /\ Top(x.ref) # nullptr /\ x.dom[Top(x.ref)] = Object =>
        /\ sax = "callback" => x.keys # <<>>
        /\ (sax = "callback" => Top(x.keys)) => x.elem \in Children(x.dom, Top(x.ref))

\* The last pointer of json_sax_dom_parser is not null.
LEMMA DomTop ==
    ASSUME NEW open, Good("dom", d, open), d.ref # <<>>
    PROVE  back # nullptr
<1>1. d.ref \in Seq(Seq(Int)) /\ \A i \in 1 .. Len(d.ref) : d.ref[i] # nullptr
  BY DEF Good, Chain
<1>2. Len(d.ref) \in 1 .. Len(d.ref)
  BY <1>1, EmptySeq
<1> QED
  BY <1>1, <1>2 DEF back, Top

\* The next element of an array, and the member of an object.
LEMMA PlaceInside ==
    ASSUME NEW open, Chain(d.dom, d.ref, open), d.ref # <<>>, back # nullptr
    PROVE  /\ d.dom[back] = Array => Place(d.dom, d.ref, open, Back(d.dom, back))
           /\ d.dom[back] # Array => d.dom[back] = Object
           /\ d.dom[back] # Array =>
                \A q \in Children(d.dom, back) : Place(d.dom, d.ref, open, q)
           /\ d.dom[back] # Array =>
                \A k \in Nat : Place(d.dom, d.ref, open, Append(back, k))
<1>1. back = Top(d.ref)
  BY DEF back
<1>2. /\ Len(d.ref) \in Nat \ {0} /\ DOMAIN d.dom \subseteq Path /\ back \in Path
      /\ Top(open) \in BOOLEAN
      /\ Top(open) => d.dom[back] = Array /\ d.dom[back] # Object
      /\ ~ Top(open) => d.dom[back] = Object /\ d.dom[back] # Array
  BY <1>1, TopFacts
<1>3. ASSUME Top(open) PROVE Cardinality(Children(d.dom, back)) \in Nat
  <2>1. Len(d.ref) \in 1 .. Len(d.ref) /\ back = d.ref[Len(d.ref)] /\ Top(open) = open[Len(d.ref)]
    BY <1>1, <1>2 DEF Chain, Top
  <2>2. \E n \in Nat : Numbered(d.dom, back, n)
    BY <1>3, <2>1 DEF Chain, Link
  <2> QED
    BY <1>2, <2>2, NumberedCount
<1>4. \A k \in Nat : /\ Append(back, k) \in Path /\ Len(Append(back, k)) = Len(back) + 1
                     /\ Prefix(back, Append(back, k))
  BY <1>2, ChildPath
<1>5. \A q \in Children(d.dom, back) : q \in Path /\ Len(q) = Len(back) + 1 /\ Prefix(back, q)
  BY <1>2 DEF Children
<1>6. ASSUME d.dom[back] = Array PROVE Place(d.dom, d.ref, open, Back(d.dom, back))
  <2>1. Top(open)
    BY <1>2, <1>6
  <2>2. Cardinality(Children(d.dom, back)) + 1 \in Nat
    BY <1>3, <2>1
  <2> QED
    BY <1>1, <1>4, <2>2 DEF Place, Back
<1>7. ASSUME d.dom[back] # Array
      PROVE  /\ d.dom[back] = Object
             /\ \A q \in Children(d.dom, back) : Place(d.dom, d.ref, open, q)
             /\ \A k \in Nat : Place(d.dom, d.ref, open, Append(back, k))
  <2>1. ~ Top(open) /\ d.dom[back] = Object
    BY <1>2, <1>7
  <2> QED
    BY <1>1, <1>4, <1>5, <2>1 DEF Place
<1> QED
  BY <1>6, <1>7

LEMMA DomPlaced ==
    ASSUME NEW open, Good("dom", d, open), Element("dom", d)
    PROVE  Place(d.dom, d.ref, open, DomPlace) /\ DomPlace # nullptr
<1>1. Chain(d.dom, d.ref, open)
  BY DEF Good
<1>2. Place(d.dom, d.ref, open, DomPlace)
  <2>1. CASE d.ref = <<>>
    BY <2>1 DEF Place, DomPlace
  <2>2. CASE d.ref # <<>>
    <3>1. back # nullptr
      BY <2>2, DomTop
    <3>2. d.dom[back] = Object => d.elem \in Children(d.dom, back)
      BY <2>2, <3>1 DEF Element, back
    <3> QED
      BY <1>1, <2>2, <3>1, <3>2, PlaceInside DEF DomPlace
  <2> QED
    BY <2>1, <2>2
<1>3. DomPlace \in Path
  BY <1>1, <1>2, ChainAssign
<1> QED
  BY <1>2, <1>3, NullNotPath

LEMMA CbPlaced ==
    ASSUME NEW open, Good("callback", d, open), Element("callback", d), NEW keep,
           Placed(keep) # nullptr
    PROVE  Place(d.dom, d.ref, open, Placed(keep))
<1>1. Chain(d.dom, d.ref, open)
  BY DEF Good
<1>2. CASE d.ref = <<>>
  BY <1>2 DEF Place, Placed
<1>3. CASE d.ref # <<>>
  <2>1. back # nullptr
    BY <1>3 DEF Placed
  <2>2. CASE d.dom[back] = Array
    BY <1>1, <1>3, <2>1, <2>2, PlaceInside DEF Placed
  <2>3. CASE d.dom[back] # Array
    <3>1. Top(d.keys) /\ Placed(keep) = d.elem
      BY <1>3, <2>1, <2>3 DEF Placed
    <3>2. d.dom[back] = Object
      BY <1>1, <1>3, <2>1, <2>3, PlaceInside
    <3>3. d.elem \in Children(d.dom, back)
      BY <1>3, <2>1, <3>1, <3>2 DEF Element, back
    <3> QED
      BY <1>1, <1>3, <2>1, <2>3, <3>1, <3>3, PlaceInside
  <2> QED
    BY <2>2, <2>3
<1> QED
  BY <1>2, <1>3

\* A scalar is stored, or not, and nothing is pushed or popped.
LEMMA ValueGood ==
    ASSUME mode.sax \in {"dom", "callback"}, NEW open, Good(mode.sax, d, open),
           Element(mode.sax, d), NEW v, SaxValue(v)
    PROVE  Good(mode.sax, d', open)
<1>1. CASE mode.sax = "dom"
  <2>1. d' = [d EXCEPT !.dom = Assign(@, DomPlace, v)]
    BY <1>1 DEF SaxValue, DomHandleValue
  <2>2. Place(d.dom, d.ref, open, DomPlace)
    BY <1>1, DomPlaced
  <2>3. Chain(Assign(d.dom, DomPlace, v), d.ref, open)
    BY <1>1, <2>2, ChainAssign DEF Good
  <2> QED
    BY <1>1, <2>1, <2>3 DEF Good
<1>2. CASE mode.sax = "callback"
  <2>1. PICK c \in BOOLEAN : d' = CbHandleValue(v, c)
    BY <1>2 DEF SaxValue
  <2>2. CASE d' = d
    BY <2>2 DEF Good
  <2>3. CASE d' # d
    <3> DEFINE p == Placed(d.keep)
    <3>1. d' = [d EXCEPT !.dom = IF p = nullptr THEN @ ELSE Assign(@, p, v),
                         !.keys = KeysAfter(d.keep)]
      BY <2>1, <2>3 DEF CbHandleValue
    <3>2. KeysAfter(d.keep) \in Seq(BOOLEAN)
      BY PopFacts DEF Good, KeysAfter
    <3>3. p # nullptr => Chain(Assign(d.dom, p, v), d.ref, open)
      <4>1. SUFFICES ASSUME p # nullptr PROVE Chain(Assign(d.dom, p, v), d.ref, open)
        OBVIOUS
      <4>2. Place(d.dom, d.ref, open, p)
        BY <1>2, <4>1, CbPlaced
      <4> QED
        BY <4>2, ChainAssign DEF Good
    <3> HIDE DEF p
    <3>4. /\ d'.dom = (IF p = nullptr THEN d.dom ELSE Assign(d.dom, p, v))
          /\ d'.ref = d.ref /\ d'.keep = d.keep /\ d'.keys = KeysAfter(d.keep)
          /\ d' = [dom |-> d'.dom, ref |-> d'.ref, elem |-> d'.elem, keep |-> d'.keep,
                   keys |-> d'.keys]
      BY <3>1 DEF Good
    <3>5. Chain(d'.dom, d'.ref, open)
      BY <3>3, <3>4 DEF Good
    <3> QED
      BY <1>2, <3>2, <3>4, <3>5 DEF Good
  <2> QED
    BY <2>2, <2>3
<1> QED
  BY <1>1, <1>2

\* A bracket opens: one more pointer, null when the container is not kept.
LEMMA StartGood ==
    ASSUME mode.sax \in {"dom", "callback"}, NEW open, Good(mode.sax, d, open),
           Element(mode.sax, d), NEW a \in BOOLEAN, NEW v, v = IF a THEN Array ELSE Object,
           SaxStart(v)
    PROVE  Good(mode.sax, d', Append(open, a))
<1>0. d.ref \in Seq(Seq(Int)) /\ Len(d.ref) \in Nat /\ Chain(d.dom, d.ref, open)
  BY LenProperties DEF Good, Chain
<1>1. CASE mode.sax = "dom"
  <2> DEFINE p == DomPlace
  <2>1. d' = [d EXCEPT !.dom = Assign(@, p, v), !.ref = Append(@, p)]
    BY <1>1 DEF SaxStart, DomStart
  <2>2. Place(d.dom, d.ref, open, p) /\ p # nullptr
    BY <1>1, DomPlaced
  <2> HIDE DEF p
  <2>3. Chain(Assign(d.dom, p, v), Append(d.ref, p), Append(open, a))
    BY <1>0, <2>2, ChainPush
  <2>4. /\ d'.dom = Assign(d.dom, p, v) /\ d'.ref = Append(d.ref, p)
        /\ d'.keep = d.keep /\ d'.keys = d.keys
        /\ d' = [dom |-> d'.dom, ref |-> d'.ref, elem |-> d'.elem, keep |-> d'.keep,
                 keys |-> d'.keys]
    BY <2>1 DEF Good
  <2>5. \A i \in 1 .. Len(d'.ref) : d'.ref[i] # nullptr
    <3>1. p \in Seq(Int)
      <4>1. p \in Path
        BY <1>0, <2>2, ChainAssign
      <4> QED
        BY <4>1, SeqMonotonic DEF Path
    <3>2. /\ Len(d'.ref) = Len(d.ref) + 1 /\ d'.ref[Len(d.ref) + 1] = p
          /\ \A i \in 1 .. Len(d.ref) : d'.ref[i] = d.ref[i]
      BY <1>0, <2>4, <3>1, AppendProperties
    <3>3. \A i \in 1 .. Len(d.ref) + 1 : i = Len(d.ref) + 1 \/ i \in 1 .. Len(d.ref)
      BY <1>0
    <3> QED
      BY <1>1, <2>2, <3>2, <3>3 DEF Good
  <2> QED
    BY <1>1, <2>3, <2>4, <2>5 DEF Good
<1>2. CASE mode.sax = "callback"
  <2>1. PICK c \in BOOLEAN : d' = CbStart(v, c)
    BY <1>2 DEF SaxStart
  <2> DEFINE keep == Append(d.keep, c)
             p == Placed(keep)
  <2>2. d' = [d EXCEPT !.dom = IF p = nullptr THEN @ ELSE Assign(@, p, v),
                       !.ref = Append(@, p), !.keep = keep, !.keys = KeysAfter(keep)]
    BY <2>1 DEF CbStart
  <2>3. keep \in Seq(BOOLEAN) /\ Len(keep) = Len(d.keep) + 1
    BY AppendProperties DEF Good
  <2> HIDE DEF keep
  <2>4. KeysAfter(keep) \in Seq(BOOLEAN)
    BY PopFacts DEF Good, KeysAfter
  <2>5. ASSUME p # nullptr
        PROVE  Chain(Assign(d.dom, p, v), Append(d.ref, p), Append(open, a)) /\ p \in Path
    <3>1. Place(d.dom, d.ref, open, p)
      BY <1>2, <2>5, CbPlaced
    <3> QED
      BY <1>0, <3>1, ChainPush, ChainAssign
  <2>6. p = nullptr => Chain(d.dom, Append(d.ref, p), Append(open, a))
    BY <1>0, ChainPushNull
  <2> HIDE DEF p
  <2>7. /\ d'.dom = (IF p = nullptr THEN d.dom ELSE Assign(d.dom, p, v))
        /\ d'.ref = Append(d.ref, p) /\ d'.keep = keep /\ d'.keys = KeysAfter(keep)
        /\ d' = [dom |-> d'.dom, ref |-> d'.ref, elem |-> d'.elem, keep |-> d'.keep,
                 keys |-> d'.keys]
    BY <2>2 DEF Good
  <2>8. p \in Seq(Int)
    BY <2>5, NullNotPath, SeqMonotonic DEF Path
  <2>9. Len(d'.ref) = Len(d.ref) + 1
    BY <1>0, <2>7, <2>8, AppendProperties
  <2>10. Chain(d'.dom, d'.ref, Append(open, a))
    BY <2>5, <2>6, <2>7
  <2> QED
    BY <1>2, <2>3, <2>4, <2>7, <2>9, <2>10 DEF Good
<1> QED
  BY <1>1, <1>2

\* A key makes its member, unless it is rejected.
LEMMA KeyGood ==
    ASSUME mode.sax \in {"dom", "callback"}, NEW open, Good(mode.sax, d, open),
           open # <<>>, ~ Top(open), NEW k \in Nat, SaxKey(k)
    PROVE  Good(mode.sax, d', open) /\ Element(mode.sax, d')
<1>0. /\ d.ref \in Seq(Seq(Int)) /\ Len(d.ref) \in Nat /\ Chain(d.dom, d.ref, open)
      /\ d.keep \in Seq(BOOLEAN) /\ d.keys \in Seq(BOOLEAN)
  BY LenProperties DEF Good, Chain
<1>1. d.ref # <<>>
  <2>1. open \in Seq(BOOLEAN) /\ Len(d.ref) = Len(open)
    BY <1>0 DEF Chain
  <2> QED
    BY <2>1, EmptySeq
<1> DEFINE q == Append(back, k)
<1>2. ASSUME back # nullptr
      PROVE  /\ d.dom[back] = Object /\ Place(d.dom, d.ref, open, q)
             /\ q \in Path /\ Len(q) = Len(back) + 1 /\ Prefix(back, q)
  <2>1. d.dom[back] = Object /\ d.dom[back] # Array /\ back \in Path
    BY <1>0, <1>1, <1>2, TopFacts DEF back
  <2> QED
    BY <1>0, <1>1, <1>2, <2>1, PlaceInside, ChildPath
<1>3. ASSUME back # nullptr, NEW v
      PROVE  Chain(Assign(d.dom, q, v), d.ref, open) /\ q \in Children(Assign(d.dom, q, v), back)
  BY <1>0, <1>1, <1>2, <1>3, ChainAssign DEF back
<1>4. CASE mode.sax = "dom"
  <2>1. back # nullptr
    BY <1>1, <1>4, DomTop
  <2>2. d' = [d EXCEPT !.dom = IF q \in DOMAIN @ THEN @ ELSE Assign(@, q, Null), !.elem = q]
    BY <1>4 DEF SaxKey, DomKey
  <2> HIDE DEF q
  <2>3. /\ d'.dom = (IF q \in DOMAIN d.dom THEN d.dom ELSE Assign(d.dom, q, Null))
        /\ d'.elem = q /\ d'.ref = d.ref /\ d'.keep = d.keep /\ d'.keys = d.keys
        /\ d' = [dom |-> d'.dom, ref |-> d'.ref, elem |-> d'.elem, keep |-> d'.keep,
                 keys |-> d'.keys]
    BY <2>2 DEF Good
  <2>4. Chain(d'.dom, d'.ref, open) /\ q \in Children(d'.dom, back)
    <3>1. CASE q \in DOMAIN d.dom
      BY <1>0, <1>2, <2>1, <2>3, <3>1 DEF Children
    <3>2. CASE q \notin DOMAIN d.dom
      BY <1>3, <2>1, <2>3, <3>2
    <3> QED
      BY <3>1, <3>2
  <2>5. Good(mode.sax, d', open)
    BY <1>4, <2>3, <2>4 DEF Good
  <2>6. Element(mode.sax, d')
    BY <1>4, <2>3, <2>4 DEF Element, back
  <2> QED
    BY <2>5, <2>6
<1>5. CASE mode.sax = "callback"
  <2>1. PICK c \in BOOLEAN : d' = CbKey(k, c)
    BY <1>5 DEF SaxKey
  <2> DEFINE store == c /\ back # nullptr
  <2>2. d' = [d EXCEPT !.keys = Append(@, c),
                       !.dom = IF store THEN Assign(@, q, Discarded) ELSE @,
                       !.elem = IF store THEN q ELSE @]
    BY <2>1 DEF CbKey
  <2> HIDE DEF q
  <2>3. /\ d'.dom = (IF store THEN Assign(d.dom, q, Discarded) ELSE d.dom)
        /\ d'.elem = (IF store THEN q ELSE d.elem)
        /\ d'.ref = d.ref /\ d'.keep = d.keep /\ d'.keys = Append(d.keys, c)
        /\ d' = [dom |-> d'.dom, ref |-> d'.ref, elem |-> d'.elem, keep |-> d'.keep,
                 keys |-> d'.keys]
    BY <2>2 DEF Good
  <2>4. d'.keys \in Seq(BOOLEAN) /\ d'.keys # <<>> /\ Top(d'.keys) = c
    <3>1. /\ Append(d.keys, c) \in Seq(BOOLEAN) /\ Append(d.keys, c) # <<>>
          /\ Len(Append(d.keys, c)) = Len(d.keys) + 1 /\ Append(d.keys, c)[Len(d.keys) + 1] = c
      BY <1>0, AppendProperties
    <3> QED
      BY <2>3, <3>1 DEF Top
  <2>5. Chain(d'.dom, d'.ref, open) /\ (store => q \in Children(d'.dom, back))
    BY <1>0, <1>3, <2>3
  <2>6. Good(mode.sax, d', open)
    BY <1>0, <1>5, <2>3, <2>4, <2>5 DEF Good
  <2>7. Element(mode.sax, d')
    <3>1. SUFFICES ASSUME back # nullptr, c PROVE d'.elem \in Children(d'.dom, back)
      BY <1>5, <2>3, <2>4 DEF Element, back
    <3> QED
      BY <2>3, <2>5, <3>1
  <2> QED
    BY <2>6, <2>7
<1> QED
  BY <1>4, <1>5

\* A bracket closes: the container stays, is discarded, or leaves its array.
LEMMA EndGood ==
    ASSUME mode.sax \in {"dom", "callback"}, NEW open, Good(mode.sax, d, open),
           open # <<>>, NEW v, v \in {Array, Object}, SaxEnd(v)
    PROVE  Good(mode.sax, d', Pop(open))
<1>0. /\ d.ref \in Seq(Seq(Int)) /\ Len(d.ref) \in Nat /\ Chain(d.dom, d.ref, open)
      /\ d.keep \in Seq(BOOLEAN) /\ d.keys \in Seq(BOOLEAN)
  BY LenProperties DEF Good, Chain
<1>1. d.ref # <<>>
  <2>1. open \in Seq(BOOLEAN) /\ Len(d.ref) = Len(open)
    BY <1>0 DEF Chain
  <2> QED
    BY <2>1, EmptySeq
<1> DEFINE ref == Pop(d.ref)
<1>2. /\ Chain(d.dom, ref, Pop(open)) /\ Len(ref) = Len(d.ref) - 1
      /\ ref \in Seq(Seq(Int)) /\ \A i \in 1 .. Len(d.ref) - 1 : ref[i] = d.ref[i]
  BY <1>0, <1>1, ChainPop, PopFacts
<1> HIDE DEF ref
<1>3. ASSUME back # nullptr, NEW u
      PROVE  Chain(Assign(d.dom, back, u), ref, Pop(open))
  BY <1>0, <1>1, <1>3, ChainDiscard DEF back, ref
<1>4. CASE mode.sax = "dom"
  <2>1. d' = [d EXCEPT !.ref = ref]
    BY <1>4 DEF SaxEnd, DomEnd, ref
  <2>2. \A i \in 1 .. Len(ref) : ref[i] # nullptr
    <3>1. \A i \in 1 .. Len(d.ref) - 1 : i \in 1 .. Len(d.ref)
      BY <1>0
    <3> QED
      BY <1>2, <1>4, <3>1 DEF Good
  <2>3. /\ d'.dom = d.dom /\ d'.ref = ref /\ d'.keep = d.keep /\ d'.keys = d.keys
        /\ d' = [dom |-> d'.dom, ref |-> d'.ref, elem |-> d'.elem, keep |-> d'.keep,
                 keys |-> d'.keys]
    BY <2>1 DEF Good
  <2> QED
    BY <1>0, <1>2, <1>4, <2>2, <2>3 DEF Good
<1>5. CASE mode.sax = "callback"
  <2>0. Array # Object
    BY DEF Array, Object, Tok
  <2>1. Pop(d.keep) \in Seq(BOOLEAN) /\ Len(Pop(d.keep)) = Len(ref) + 1
    <3>1. Len(d.keep) = Len(d.ref) + 1
      BY <1>5 DEF Good
    <3>2. d.keep # <<>>
      BY <1>0, <3>1, EmptySeq
    <3> QED
      BY <1>0, <1>2, <3>1, <3>2, PopFacts
  <2>2. ASSUME NEW dom, Chain(dom, ref, Pop(open)), d' = [d EXCEPT !.dom = dom, !.ref = ref, !.keep = Pop(@)]
        PROVE  Good(mode.sax, d', Pop(open))
    <3>1. /\ d'.dom = dom /\ d'.ref = ref /\ d'.keep = Pop(d.keep) /\ d'.keys = d.keys
          /\ d' = [dom |-> d'.dom, ref |-> d'.ref, elem |-> d'.elem, keep |-> d'.keep,
                   keys |-> d'.keys]
      BY <2>2 DEF Good
    <3> QED
      BY <1>0, <1>5, <2>1, <2>2, <3>1 DEF Good
  <2>3. CASE v = Object
    <3>1. PICK c \in BOOLEAN : d' = CbEndObject(c)
      BY <1>5, <2>0, <2>3 DEF SaxEnd
    <3> DEFINE dom == IF back # nullptr /\ ~c THEN Assign(d.dom, back, Discarded) ELSE d.dom
               clean == ref # <<>> /\ Top(ref) # nullptr /\ dom[Top(ref)] = Object
               dom2 == IF clean THEN EraseDiscarded(dom, Top(ref)) ELSE dom
    <3>2. d' = [d EXCEPT !.dom = dom2, !.ref = ref, !.keep = Pop(@)]
      BY <3>1 DEF CbEndObject, ref
    <3>3. Chain(dom, ref, Pop(open))
      BY <1>2, <1>3
    <3> HIDE DEF dom
    <3>4. Chain(dom2, ref, Pop(open))
      BY <3>3, ChainEraseDiscarded
    <3> HIDE DEF dom2
    <3> QED
      BY <2>2, <3>2, <3>4
  <2>4. CASE v = Array
    <3>1. PICK c \in BOOLEAN : d' = CbEndArray(c)
      BY <1>5, <2>0, <2>4 DEF SaxEnd
    <3> DEFINE dom2 == IF back = nullptr \/ c THEN d.dom
                       ELSE IF ref # <<>> /\ d.dom[Top(ref)] = Array
                       THEN Erase(d.dom, back) ELSE Assign(d.dom, back, Discarded)
    <3>2. d' = [d EXCEPT !.dom = dom2, !.ref = ref, !.keep = Pop(@)]
      BY <3>1 DEF CbEndArray, ref
    <3>3. Chain(dom2, ref, Pop(open))
      <4>1. CASE back = nullptr \/ c
        BY <1>2, <4>1
      <4>2. CASE ~ (back = nullptr \/ c) /\ ref # <<>> /\ d.dom[Top(ref)] = Array
        BY <1>0, <1>1, <4>2, ChainEraseLast DEF back, ref
      <4>3. CASE ~ (back = nullptr \/ c) /\ ~ (ref # <<>> /\ d.dom[Top(ref)] = Array)
        BY <1>3, <4>3
      <4> QED
        BY <4>1, <4>2, <4>3
    <3> HIDE DEF dom2
    <3> QED
      BY <2>2, <3>2, <3>3
  <2> QED
    BY <2>3, <2>4
<1> QED
  BY <1>4, <1>5
-----------------------------------------------------------------------------
(* The parser.                                                             *)

OpenNow ==
    IF pc \in {"first_key", "first_colon", "first_elem"}
    THEN Append(states, pc = "first_elem") ELSE states

Places == {"value", "first_key", "first_colon", "first_elem", "evaluate", "strict", "array_next",
           "object_next", "key", "colon", "errored", "done"}

ParserType ==
    /\ mode \in Modes /\ toks \in Seq(token_type \X Nat) /\ toks # <<>>
    /\ states \in Seq(BOOLEAN) /\ pc \in Places

\* The place in the parser and the kind of the innermost bracket.
Inner ==
    /\ pc \in {"object_next", "key", "colon"} => states # <<>> /\ ~ Top(states)
    /\ pc = "array_next" => states # <<>> /\ Top(states)

ParserInv ==
    /\ ParserType /\ Inner
    /\ mode.sax # "accept" /\ out = "running" =>
         /\ Good(mode.sax, d, OpenNow)
         /\ pc \in {"value", "first_colon", "colon"} => Element(mode.sax, d)

LEMMA ParserInit == Init => ParserInv
<1> SUFFICES ASSUME Init PROVE ParserInv
  OBVIOUS
<1>1. ParserType
  <2>1. PICK t \in mode.tokens : toks = <<t>>
    BY DEF Init
  <2>2. mode \in Modes /\ t \in token_type \X Nat
    BY <2>1, ModesAssumption DEF Init
  <2> QED
    BY <2>1, <2>2 DEF ParserType, Init, Places
<1>2. OpenNow = <<>> /\ d = EmptyDom /\ pc = "value"
  BY DEF Init, OpenNow
<1>3. /\ EmptyDom = [dom |-> NullValue, ref |-> <<>>, elem |-> nullptr,
                     keep |-> <<TRUE>>, keys |-> <<>>]
      /\ EmptyDom.ref = <<>> /\ EmptyDom.dom = NullValue
      /\ EmptyDom.keep = <<TRUE>> /\ EmptyDom.keys = <<>>
  BY DEF EmptyDom
<1>4. DOMAIN NullValue \subseteq Path
  BY DEF Path, NullValue
<1>5. Good(mode.sax, d, OpenNow)
  <2>1. Chain(d.dom, d.ref, OpenNow)
    BY <1>2, <1>3, <1>4 DEF Chain
  <2> QED
    BY <1>2, <1>3, <2>1 DEF Good, EmptyDom
<1>6. Element(mode.sax, d)
  BY <1>2, <1>3 DEF Element
<1> QED
  BY <1>1, <1>2, <1>5, <1>6 DEF ParserInv, Inner

\* The lexer delivers a token.
LEMMA TokenRead ==
    ASSUME ParserType, get_token
    PROVE  toks' \in Seq(token_type \X Nat) /\ toks' # <<>>
<1>1. Readable \subseteq token_type \X Nat
  <2>1. mode.tokens \subseteq token_type \X Nat
    BY ModesAssumption DEF ParserType
  <2>2. Tok("end_of_input") \in token_type \X Nat
    BY DEF Tok, token_type
  <2> QED
    BY <2>1, <2>2 DEF Readable
<1>2. PICK t \in token_type \X Nat : toks' = Append(toks, t)
  BY <1>1 DEF get_token
<1> QED
  BY <1>2, AppendProperties DEF ParserType

LEMMA LastKey ==
    ASSUME ParserType
    PROVE  last_token[2] \in Nat
<1>1. toks \in Seq(token_type \X Nat) /\ Len(toks) \in 1 .. Len(toks)
  BY EmptySeq DEF ParserType
<1>2. last_token \in token_type \X Nat
  BY <1>1, ElementOfSeq DEF last_token
<1> QED
  BY <1>2

LEMMA PopAppend ==
    ASSUME NEW S, NEW s \in Seq(S), NEW x \in S
    PROVE  Pop(Append(s, x)) = s /\ Top(Append(s, x)) = x /\ Append(s, x) # <<>>
<1> DEFINE a == Append(s, x)
<1>1. /\ a \in Seq(S) /\ a # <<>> /\ Len(a) = Len(s) + 1 /\ Len(s) \in Nat
      /\ a[Len(s) + 1] = x /\ \A i \in 1 .. Len(s) : a[i] = s[i]
  BY AppendProperties, LenProperties
<1> HIDE DEF a
<1>2. /\ Pop(a) \in Seq(S) /\ Len(Pop(a)) = Len(a) - 1
      /\ \A i \in 1 .. Len(a) - 1 : Pop(a)[i] = a[i]
  BY <1>1, PopFacts
<1>3. Len(Pop(a)) = Len(s) /\ \A i \in 1 .. Len(s) : Pop(a)[i] = s[i]
  BY <1>1, <1>2
<1>4. Pop(a) = s
  BY <1>2, <1>3, SeqEqual
<1> QED
  BY <1>1, <1>4 DEF a, Top

\* In an array object_element is not used.
LEMMA NoElement ==
    ASSUME NEW sax, NEW x, NEW open, Good(sax, x, open), Top(open)
    PROVE  Element(sax, x)
<1>1. Chain(x.dom, x.ref, open)
  BY DEF Good
<1>2. ASSUME x.ref # <<>>, Top(x.ref) # nullptr PROVE x.dom[Top(x.ref)] # Object
  BY <1>1, <1>2, TopFacts
<1> QED
  BY <1>2 DEF Element

Running == mode.sax # "accept" /\ out = "running"

LEMMA BracketStep ==
    ASSUME ParserInv, BeginObject \/ BeginArray \/ EmptyObject \/ EmptyArray \/ EndObject \/ EndArray
    PROVE  ParserInv'
<1> USE DEF ParserInv
<1>1. UNCHANGED <<mode, out>>
  BY DEF BeginObject, BeginArray, EmptyObject, EmptyArray, EndObject, EndArray
<1>2. states \in Seq(BOOLEAN) /\ (Running => mode.sax \in {"dom", "callback"})
  BY ModesAssumption DEF ParserType, Running
<1>3. /\ \A b \in BOOLEAN : Pop(Append(states, b)) = states /\ Append(states, b) # <<>>
      /\ Pop(states) \in Seq(BOOLEAN)
  BY <1>2, PopAppend, PopFacts
<1>4. ASSUME BeginObject \/ BeginArray PROVE ParserInv'
  <2> DEFINE a == (pc' = "first_elem")
             v == IF a THEN Array ELSE Object
  <2>1. /\ pc = "value" /\ pc' \in {"first_key", "first_elem"} /\ SaxStart(v)
        /\ get_token /\ UNCHANGED states
    BY <1>4 DEF BeginObject, BeginArray
  <2>2. OpenNow = states /\ OpenNow' = Append(states, a)
    BY <2>1 DEF OpenNow
  <2>3. ParserType'
    BY <1>1, <2>1, TokenRead DEF ParserType, Places
  <2>4. Running => Good(mode.sax, d', OpenNow')
    <3> HIDE DEF v, a
    <3>1. a \in BOOLEAN /\ v = IF a THEN Array ELSE Object
      BY DEF a, v
    <3>2. Running => Good(mode.sax, d, states) /\ Element(mode.sax, d)
      BY <2>1, <2>2 DEF Running
    <3> QED
      BY <1>2, <2>1, <2>2, <3>1, <3>2, StartGood
  <2> QED
    BY <1>1, <2>1, <2>3, <2>4 DEF Inner, Running
<1>5. ASSUME EmptyObject \/ EmptyArray PROVE ParserInv'
  <2> DEFINE a == (pc = "first_elem")
             v == IF a THEN Array ELSE Object
  <2>1. /\ pc \in {"first_key", "first_elem"} /\ pc' = "evaluate" /\ SaxEnd(v)
        /\ UNCHANGED <<states, toks>>
    BY <1>5 DEF EmptyObject, EmptyArray
  <2>2. OpenNow = Append(states, a) /\ OpenNow' = states
    BY <2>1 DEF OpenNow
  <2>3. ParserType'
    BY <1>1, <2>1 DEF ParserType, Places
  <2>4. Running => Good(mode.sax, d', OpenNow')
    <3> HIDE DEF v, a
    <3>1. a \in BOOLEAN /\ v \in {Array, Object}
      BY DEF a, v
    <3>2. Running => Good(mode.sax, d, Append(states, a))
      BY <2>2 DEF Running
    <3>3. Running => Good(mode.sax, d', Pop(Append(states, a)))
      BY <1>2, <1>3, <2>1, <3>1, <3>2, EndGood
    <3> QED
      BY <1>3, <2>2, <3>1, <3>3
  <2> QED
    BY <1>1, <2>1, <2>3, <2>4 DEF Inner, Running
<1>6. ASSUME EndObject \/ EndArray PROVE ParserInv'
  <2>1. PICK v \in {Array, Object} :
          /\ pc \in {"object_next", "array_next"} /\ pc' = "evaluate" /\ SaxEnd(v)
          /\ states' = Pop(states) /\ UNCHANGED toks
    BY <1>6 DEF EndObject, EndArray
  <2>2. OpenNow = states /\ OpenNow' = Pop(states) /\ states # <<>>
    BY <2>1 DEF OpenNow, Inner
  <2>3. ParserType'
    BY <1>1, <1>3, <2>1 DEF ParserType, Places
  <2>4. Running => Good(mode.sax, d', OpenNow')
    <3>1. Running => Good(mode.sax, d, states)
      BY <2>2 DEF Running
    <3> QED
      BY <1>2, <2>1, <2>2, <3>1, EndGood
  <2> QED
    BY <1>1, <2>1, <2>3, <2>4 DEF Inner, Running
<1> QED
  BY <1>4, <1>5, <1>6

LEMMA KeyStep ==
    ASSUME ParserInv, FirstKey \/ MemberKey
    PROVE  ParserInv'
<1> USE DEF ParserInv
<1> DEFINE k == last_token[2]
<1>1. /\ UNCHANGED <<mode, states, out>> /\ SaxKey(k) /\ get_token
      /\ \/ pc = "first_key" /\ pc' = "first_colon"
         \/ pc = "key" /\ pc' = "colon"
  BY DEF FirstKey, MemberKey
<1>2. states \in Seq(BOOLEAN) /\ (Running => mode.sax \in {"dom", "callback"})
  BY ModesAssumption DEF ParserType, Running
<1>3. OpenNow' = OpenNow
  BY <1>1 DEF OpenNow
<1>4. OpenNow # <<>> /\ ~ Top(OpenNow)
  <2>1. CASE pc = "first_key"
    <3>1. OpenNow = Append(states, FALSE)
      BY <2>1 DEF OpenNow
    <3> QED
      BY <1>2, <3>1, PopAppend
  <2>2. CASE pc = "key"
    BY <2>2 DEF OpenNow, Inner
  <2> QED
    BY <1>1, <2>1, <2>2
<1>5. ParserType'
  BY <1>1, TokenRead DEF ParserType, Places
<1>6. Running => Good(mode.sax, d', OpenNow') /\ Element(mode.sax, d')
  <2>1. k \in Nat
    BY LastKey
  <2>2. Running => Good(mode.sax, d, OpenNow)
    BY DEF Running
  <2> HIDE DEF k
  <2> QED
    BY <1>1, <1>2, <1>3, <1>4, <2>1, <2>2, KeyGood
<1> QED
  BY <1>1, <1>5, <1>6 DEF Inner, Running

LEMMA ScalarStep ==
    ASSUME ParserInv, Scalar
    PROVE  ParserInv'
<1> USE DEF ParserInv
<1>1. /\ UNCHANGED <<mode, toks, states, out>> /\ SaxValue(last_token)
      /\ pc = "value" /\ pc' = "evaluate"
  BY DEF Scalar
<1>2. Running => mode.sax \in {"dom", "callback"}
  BY ModesAssumption DEF ParserType, Running
<1>3. OpenNow = states /\ OpenNow' = states
  BY <1>1 DEF OpenNow
<1>4. Running => Good(mode.sax, d', OpenNow')
  <2>1. Running => Good(mode.sax, d, states) /\ Element(mode.sax, d)
    BY <1>1, <1>3 DEF Running
  <2> QED
    BY <1>1, <1>2, <1>3, <2>1, ValueGood
<1> QED
  BY <1>1, <1>4 DEF Inner, Running, ParserType, Places

\* The steps that leave the consumer alone.
LEMMA QuietStep ==
    ASSUME ParserInv,
           \/ FirstColon \/ FirstElement \/ TopLevelDone \/ StrictEnd \/ NextInContainer
           \/ NextElement \/ NextMember \/ MemberColon \/ ReadAfterError
    PROVE  ParserInv'
<1> USE DEF ParserInv
<1>1. UNCHANGED <<mode, d>> /\ (toks' = toks \/ get_token)
  BY DEF FirstColon, FirstElement, TopLevelDone, StrictEnd, NextInContainer, NextElement,
         NextMember, MemberColon, ReadAfterError
<1>2. mode' \in Modes /\ toks' \in Seq(token_type \X Nat) /\ toks' # <<>>
  BY <1>1, TokenRead DEF ParserType
<1>3. states \in Seq(BOOLEAN)
  BY DEF ParserType
<1>4. \A b \in BOOLEAN : Append(states, b) \in Seq(BOOLEAN) /\ Top(Append(states, b)) = b
  BY <1>3, PopAppend, AppendProperties
<1>5. ASSUME FirstColon PROVE ParserInv'
  <2>1. /\ pc = "first_colon" /\ pc' = "value" /\ states' = Append(states, FALSE) /\ out' = out
    BY <1>5 DEF FirstColon
  <2>2. OpenNow' = OpenNow
    BY <2>1 DEF OpenNow
  <2> QED
    BY <1>1, <1>2, <1>4, <2>1, <2>2 DEF ParserType, Places, Inner
<1>6. ASSUME FirstElement PROVE ParserInv'
  <2>1. /\ pc = "first_elem" /\ pc' = "value" /\ states' = Append(states, TRUE) /\ out' = out
    BY <1>6 DEF FirstElement
  <2>2. OpenNow' = OpenNow /\ Top(OpenNow)
    BY <1>4, <2>1 DEF OpenNow
  <2>3. Running => Element(mode.sax, d)
    BY <2>2, NoElement DEF Running
  <2> QED
    BY <1>1, <1>2, <1>4, <2>1, <2>2, <2>3 DEF ParserType, Places, Inner, Running
<1>7. ASSUME NextElement PROVE ParserInv'
  <2>1. /\ pc = "array_next" /\ pc' = "value" /\ states' = states /\ out' = out
    BY <1>7 DEF NextElement
  <2>2. OpenNow' = OpenNow /\ Top(OpenNow)
    BY <2>1 DEF OpenNow, Inner
  <2>3. Running => Element(mode.sax, d)
    BY <2>2, NoElement DEF Running
  <2> QED
    BY <1>1, <1>2, <2>1, <2>2, <2>3 DEF ParserType, Places, Inner, Running
<1>8. ASSUME MemberColon PROVE ParserInv'
  <2>1. pc = "colon" /\ pc' = "value" /\ states' = states /\ out' = out /\ OpenNow' = OpenNow
    BY <1>8 DEF MemberColon, OpenNow
  <2> QED
    BY <1>1, <1>2, <2>1 DEF ParserType, Places, Inner
<1>9. ASSUME NextInContainer \/ NextMember PROVE ParserInv'
  <2>1. /\ pc \in {"evaluate", "object_next"} /\ pc' \in {"array_next", "object_next", "key"}
        /\ states' = states /\ out' = out
    BY <1>9 DEF NextInContainer, NextMember
  <2>2. OpenNow' = OpenNow
    BY <2>1 DEF OpenNow
  <2>3. Inner'
    BY <1>9 DEF NextInContainer, NextMember, Inner
  <2> QED
    BY <1>1, <1>2, <2>1, <2>2, <2>3 DEF ParserType, Places
<1>10. ASSUME TopLevelDone \/ StrictEnd \/ ReadAfterError PROVE ParserInv'
  <2>1. /\ pc \in {"evaluate", "strict", "errored"} /\ pc' \in {"strict", "done"}
        /\ states' = states /\ (out' = "running" => out = "running")
    BY <1>10 DEF TopLevelDone, StrictEnd, ReadAfterError
  <2>2. OpenNow' = OpenNow
    BY <2>1 DEF OpenNow
  <2> QED
    BY <1>1, <1>2, <2>1, <2>2 DEF ParserType, Places, Inner
<1> QED
  BY <1>5, <1>6, <1>7, <1>8, <1>9, <1>10

LEMMA FailStep ==
    ASSUME ParserInv, Unexpected
    PROVE  ParserInv'
<1>1. PICK id \in {101, 406} : Fail(id)
  BY DEF Unexpected
<1>2. /\ UNCHANGED <<mode, toks, states>> /\ pc' \in {"errored", "done"} /\ out' # "running"
  BY <1>1 DEF Fail
<1> QED
  BY <1>2 DEF ParserInv, ParserType, Places, Inner

LEMMA ParserStep == ParserInv /\ [Next]_vars => ParserInv'
<1> SUFFICES ASSUME ParserInv, [Next]_vars PROVE ParserInv'
  OBVIOUS
<1>1. CASE UNCHANGED vars
  BY <1>1 DEF vars, ParserInv, ParserType, Inner, OpenNow
<1>2. CASE Next
  BY <1>1, <1>2, BracketStep, KeyStep, ScalarStep, QuietStep, FailStep DEF Next, Done
<1> QED
  BY <1>1, <1>2

\* The pointers that the SAX consumers keep are valid whenever they are used: one
\* for each open bracket, to a container of its kind, the last element of the array
\* it is in; object_element is the member that waits for its value.
THEOREM PointersValid == Spec => []StacksAgree
<1>1. ParserInv => StacksAgree
  <2>1. SUFFICES ASSUME ParserInv, Running PROVE StacksAgree
    BY DEF StacksAgree, Running
  <2>2. /\ Good(mode.sax, d, OpenNow) /\ Chain(d.dom, d.ref, OpenNow)
        /\ pc = "value" => Element(mode.sax, d)
        /\ d.ref \in Seq(Seq(Int))
    BY <2>1 DEF ParserInv, Running, Good, Chain
  <2>3. Len(d.ref) \in Nat /\ DOMAIN d.ref = 1 .. Len(d.ref)
    BY <2>2, LenProperties
  <2>4. ASSUME NEW i \in DOMAIN d.ref, d.ref[i] # nullptr
        PROVE  /\ d.dom[d.ref[i]] = (IF OpenNow[i] THEN Array ELSE Object)
               /\ IF i = 1 THEN d.ref[i] = <<>>
                  ELSE /\ d.ref[i - 1] # nullptr /\ d.ref[i] \in Children(d.dom, d.ref[i - 1])
                       /\ d.dom[d.ref[i - 1]] = Array =>
                            Top(d.ref[i]) = Cardinality(Children(d.dom, d.ref[i - 1]))
    <3>1. i \in 1 .. Len(d.ref) /\ Link(d.dom, d.ref, OpenNow, i)
      BY <2>2, <2>3 DEF Chain
    <3>2. d.ref[i] \in Path /\ Len(d.ref[i]) = i - 1
      BY <2>2, <2>4, <3>1, LinkFacts
    <3>3. i = 1 => d.ref[i] = <<>>
      BY <3>2, EmptySeq DEF Path
    <3>4. ASSUME i # 1
          PROVE  /\ d.ref[i - 1] # nullptr /\ d.ref[i] \in Children(d.dom, d.ref[i - 1])
                 /\ d.dom[d.ref[i - 1]] = Array =>
                      Top(d.ref[i]) = Cardinality(Children(d.dom, d.ref[i - 1]))
      <4>1. i > 1 /\ i - 1 \in 1 .. Len(d.ref)
        BY <2>3, <3>1, <3>4
      <4>2. d.ref[i - 1] # nullptr
        BY <2>4, <3>1, <4>1 DEF Link
      <4>3. d.dom[d.ref[i - 1]] = Array => OpenNow[i - 1]
        <5> DEFINE j == i - 1
        <5>1. j \in 1 .. Len(d.ref) /\ d.ref[j] # nullptr
          BY <4>1, <4>2
        <5> HIDE DEF j
        <5>2. OpenNow[j] \in BOOLEAN /\ (~ OpenNow[j] => d.dom[d.ref[j]] # Array)
          BY <2>2, <5>1, LinkFacts
        <5> QED
          BY <5>2 DEF j
      <4> QED
        BY <2>4, <3>1, <4>1, <4>2, <4>3 DEF Link
    <3>5. d.dom[d.ref[i]] = (IF OpenNow[i] THEN Array ELSE Object)
      BY <2>4, <3>1 DEF Link
    <3> QED
      BY <3>3, <3>4, <3>5
  <2>5. Len(d.ref) = Len(OpenNow) /\ (mode.sax = "callback" => Len(d.keep) = Len(d.ref) + 1)
    BY <2>2 DEF Good, Chain
  <2>6. pc = "value" /\ HasBack /\ d.dom[back] = Object /\ (mode.sax = "callback" => Top(d.keys))
          => d.elem \in Children(d.dom, back)
    BY <2>2 DEF Element, HasBack, back
  <2> DEFINE opening == pc \in {"first_key", "first_colon", "first_elem"}
             open == IF opening THEN Append(states, pc = "first_elem") ELSE states
  <2>7. open = OpenNow
    BY DEF OpenNow
  <2> QED
    BY <2>4, <2>5, <2>6, <2>7 DEF StacksAgree
<1>2. Spec => []ParserInv
  BY ParserInit, ParserStep, PTL DEF Spec
<1> QED
  BY <1>1, <1>2, PTL
=============================================================================
