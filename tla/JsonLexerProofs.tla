--------------------------- MODULE JsonLexerProofs ---------------------------
(***************************************************************************)
(* Proofs about the lexical analyser of include/json.hpp, for every text.  *)
(***************************************************************************)
EXTENDS JsonLexer, FiniteSetTheorems, TLAPS

\* The members of the lexer.
Members ==
    {"pc", "current", "next_unget", "chars_read_total", "chars_read_current_line",
     "lines_read", "token_string", "token_buffer", "first", "type", "todo",
     "codepoint1", "codepoint"}

\* The newlines among the first n characters of r, and the place of the last.
Newlines(r, n) == {i \in 1 .. n : r[i] = 10}
LastOf(S) == IF S = {} THEN 0 ELSE CHOOSE i \in S : \A j \in S : j <= i

\* What the members must be when n characters of r count as read.
Counts(y, r, n) ==
    /\ y.chars_read_total = n
    /\ y.lines_read = Cardinality(Newlines(r, n))
    /\ ~(y.next_unget /\ y.current = 10) =>
          y.chars_read_current_line = n - LastOf(Newlines(r, n))

\* A sequence of characters; where its lines end are numbers.
Characters(r) ==
    /\ Len(r) \in Nat /\ \E S : r \in Seq(S)
    /\ \A n \in 0 .. Len(r) : LastOf(Newlines(r, n)) \in Nat
Taken(y, r) == Len(r) - (IF y.next_unget THEN 1 ELSE 0)

\* The inductive invariant: the counts are right after every step, and what
\* has been put back is the last character delivered.
Position(y, r) ==
    /\ DOMAIN y = Members
    /\ y.next_unget \in BOOLEAN
    /\ y.chars_read_current_line \in Nat
    /\ Characters(r)
    /\ y.next_unget => 0 < Len(r) /\ r[Len(r)] = y.current
    /\ Counts(y, r, Taken(y, r))

\* z is y but for members that the position does not depend on.
SameTracking(y, z) ==
    /\ DOMAIN z = Members
    /\ z.current = y.current /\ z.next_unget = y.next_unget
    /\ z.chars_read_total = y.chars_read_total /\ z.lines_read = y.lines_read
    /\ z.chars_read_current_line = y.chars_read_current_line

LEMMA SamePosition ==
    ASSUME NEW y, NEW z, NEW r, Position(y, r), SameTracking(y, z)
    PROVE  Position(z, r)
BY DEF Position, SameTracking, Counts, Taken

LEMMA PositionsCounted ==
    ASSUME Position(x, read)
    PROVE  PositionsRight
<1>1. PICK n : n = Taken(x, read)
  OBVIOUS
<1>2. Counts(x, read, n)
  BY <1>1 DEF Position
<1> QED
  BY <1>1, <1>2 DEF PositionsRight, Counts, Taken, Newlines, LastOf

\* One more character: a newline ends the line, another one does not.
LEMMA NextCounts ==
    ASSUME NEW r, NEW s, NEW n \in Nat, \A i \in 1 .. n : s[i] = r[i]
    PROVE  LET A == Newlines(r, n)
               B == Newlines(s, n + 1)
           IN  /\ Cardinality(A) \in Nat
               /\ s[n + 1] = 10 => /\ Cardinality(B) = Cardinality(A) + 1
                                   /\ LastOf(B) = n + 1
               /\ s[n + 1] # 10 => B = A
<1> DEFINE A == Newlines(r, n)
           B == Newlines(s, n + 1)
<1>1. A \in SUBSET (1 .. n) /\ n + 1 \notin A
  BY DEF Newlines
<1>2. IsFiniteSet(A)
  <2>1. 1 \in Int /\ n \in Int
    OBVIOUS
  <2>2. IsFiniteSet(1 .. n)
    BY <2>1, FS_Interval
  <2> HIDE DEF A
  <2> QED
    BY <1>1, <2>2, FS_Subset
<1>3. Cardinality(A) \in Nat
  BY <1>2, FS_CardinalityType
<1>4. ASSUME s[n + 1] # 10
      PROVE  B = A
  <2>1. \A i : i \in 1 .. n + 1 <=> i \in 1 .. n \/ i = n + 1
    OBVIOUS
  <2> QED
    BY <1>4, <2>1 DEF Newlines
<1>5. ASSUME s[n + 1] = 10
      PROVE  B = A \cup {n + 1}
  <2>1. \A i : i \in 1 .. n + 1 <=> i \in 1 .. n \/ i = n + 1
    OBVIOUS
  <2> QED
    BY <1>5, <2>1 DEF Newlines
<1>6. ASSUME s[n + 1] = 10
      PROVE  Cardinality(B) = Cardinality(A) + 1
  <2> HIDE DEF A, B
  <2> QED
    BY <1>1, <1>2, <1>5, <1>6, FS_AddElement
<1>7. ASSUME s[n + 1] = 10
      PROVE  LastOf(B) = n + 1
  <2> HIDE DEF A, B
  <2>0. B = A \cup {n + 1}
    BY <1>5, <1>7
  <2>1. n + 1 \in B /\ \A j \in B : j \in Nat /\ j <= n + 1
    BY <1>1, <2>0
  <2>2. \A i \in B : (\A j \in B : j <= i) => i = n + 1
    BY <2>1
  <2> QED
    BY <2>1, <2>2 DEF LastOf
<1> QED
  BY <1>3, <1>4, <1>6, <1>7

\* get(): the last character again, or the next one.
LEMMA GetPosition ==
    ASSUME Position(x, read), NEW c, Reading(c)
    PROVE  /\ Position(get(c), read') /\ get(c).next_unget = FALSE
           /\ 0 < Len(read') /\ read'[Len(read')] = c /\ get(c).current = c
           /\ get(c).chars_read_current_line = 0 <=> c = 10
<1> DEFINE n == Taken(x, read)
           y == get(c)
<1>1. /\ DOMAIN x = Members /\ x.next_unget \in BOOLEAN /\ Characters(read)
      /\ x.chars_read_current_line \in Nat /\ Counts(x, read, n)
      /\ x.next_unget => 0 < Len(read) /\ read[Len(read)] = x.current
  BY DEF Position
<1>2. /\ \E S : read' \in Seq(S)
      /\ n \in Nat /\ Len(read') = n + 1 /\ read'[n + 1] = c
      /\ \A i \in 1 .. n : read'[i] = read[i]
      /\ \A k \in 0 .. n : LastOf(Newlines(read, k)) \in Nat
  <2>1. CASE x.next_unget
    <3>1. read' = read /\ c = x.current
      BY <2>1 DEF Reading
    <3>2. n = Len(read) - 1 /\ Len(read) \in Nat /\ 0 < Len(read) /\ read[Len(read)] = x.current
      BY <1>1, <2>1 DEF Taken, Characters
    <3> QED
      BY <1>1, <3>1, <3>2 DEF Characters
  <2>2. CASE ~x.next_unget
    <3>1. read' = Append(read, c)
      BY <2>2 DEF Reading
    <3>2. n = Len(read) /\ Len(read) \in Nat
      BY <1>1, <2>2 DEF Taken, Characters
    <3>3. PICK S : read \in Seq(S)
      BY <1>1 DEF Characters
    <3>4. read \in Seq(S \cup {c}) /\ c \in S \cup {c}
      BY <3>3
    <3>5. Append(read, c) \in Seq(S \cup {c})
      BY <3>4
    <3>6. Len(Append(read, c)) = n + 1 /\ Append(read, c)[n + 1] = c
          /\ \A i \in 1 .. n : Append(read, c)[i] = read[i]
      BY <3>2, <3>4
    <3> QED
      BY <1>1, <3>1, <3>2, <3>5, <3>6 DEF Characters
  <2> QED
    BY <2>1, <2>2
<1> HIDE DEF n
<1>3. /\ DOMAIN y = Members /\ y.next_unget = FALSE /\ y.current = c
      /\ y.chars_read_total = x.chars_read_total + 1
      /\ y.chars_read_current_line = (IF c = 10 THEN 0 ELSE x.chars_read_current_line + 1)
      /\ y.lines_read = (IF c = 10 THEN x.lines_read + 1 ELSE x.lines_read)
  BY <1>1 DEF get, Members
<1> HIDE DEF y
<1>4. /\ Cardinality(Newlines(read, n)) \in Nat
      /\ c = 10 => /\ Cardinality(Newlines(read', n + 1)) = Cardinality(Newlines(read, n)) + 1
                   /\ LastOf(Newlines(read', n + 1)) = n + 1
      /\ c # 10 => Newlines(read', n + 1) = Newlines(read, n)
  BY <1>2, NextCounts
<1>10. Characters(read')
  <2>1. LastOf(Newlines(read', n + 1)) \in Nat
    BY <1>2, <1>4
  <2>2. ASSUME NEW k \in 0 .. n
        PROVE  Newlines(read', k) = Newlines(read, k)
    <3>1. \A i \in 1 .. k : read'[i] = read[i]
      BY <1>2
    <3> QED
      BY <3>1 DEF Newlines
  <2>3. \A k \in 0 .. n + 1 : k \in 0 .. n \/ k = n + 1
    BY <1>2
  <2> QED
    BY <1>2, <2>1, <2>2, <2>3 DEF Characters
<1>5. x.chars_read_total = n /\ x.lines_read = Cardinality(Newlines(read, n))
  BY <1>1 DEF Counts
<1>6. y.chars_read_total = n + 1 /\ y.lines_read = Cardinality(Newlines(read', n + 1))
  BY <1>3, <1>4, <1>5
<1>7. y.chars_read_current_line = n + 1 - LastOf(Newlines(read', n + 1))
  <2>1. CASE c = 10
    BY <1>2, <1>3, <1>4, <2>1
  <2>2. CASE c # 10
    <3>1. ~(x.next_unget /\ x.current = 10)
      BY <2>2 DEF Reading
    <3>2. x.chars_read_current_line = n - LastOf(Newlines(read, n))
      BY <1>1, <3>1 DEF Counts
    <3> QED
      BY <1>1, <1>2, <1>3, <1>4, <2>2, <3>2
  <2> QED
    BY <2>1, <2>2
<1>8. Taken(y, read') = n + 1
  BY <1>2, <1>3 DEF Taken
<1>9. Position(y, read')
  <2>1. y.next_unget \in BOOLEAN /\ ~y.next_unget
    BY <1>3, Zenon
  <2>2. y.chars_read_current_line \in Nat
    BY <1>1, <1>3
  <2>3. Counts(y, read', n + 1)
    <3>1. PICK m : m = n + 1
      OBVIOUS
    <3>2. /\ y.chars_read_total = m /\ y.lines_read = Cardinality(Newlines(read', m))
          /\ y.chars_read_current_line = m - LastOf(Newlines(read', m))
      BY <1>2, <1>4, <1>6, <1>7, <1>10, <3>1 DEF Characters
    <3>3. Counts(y, read', m)
      BY <3>2, Zenon DEF Counts
    <3> QED
      BY <3>1, <3>3
  <2> QED
    BY <1>3, <1>8, <1>10, <2>1, <2>2, <2>3, Zenon DEF Position
<1> QED
  BY <1>1, <1>2, <1>3, <1>9 DEF y

\* unget() after get().
LEMMA UngetPosition ==
    ASSUME NEW y, NEW r, Position(y, r), y.next_unget = FALSE, 0 < Len(r),
           r[Len(r)] = y.current, y.chars_read_current_line = 0 <=> y.current = 10
    PROVE  Position(unget(y), r)
<1> DEFINE z == unget(y)
           n == Len(r) - 1
<1>1. /\ DOMAIN y = Members /\ y.chars_read_current_line \in Nat /\ Characters(r)
      /\ Counts(y, r, Taken(y, r))
  BY DEF Position
<1>2. Len(r) \in Nat /\ n \in Nat /\ n + 1 = Len(r) /\ Taken(y, r) = n + 1
  BY <1>1 DEF Characters, Taken
<1>3. LastOf(Newlines(r, n)) \in Nat
  BY <1>1, <1>2 DEF Characters
<1> HIDE DEF n
<1>4. /\ y.chars_read_total = n + 1 /\ y.lines_read = Cardinality(Newlines(r, n + 1))
      /\ y.chars_read_current_line = n + 1 - LastOf(Newlines(r, n + 1))
  <2>1. ~y.next_unget
    BY Zenon
  <2>2. PICK m : m = n + 1
    OBVIOUS
  <2>3. Counts(y, r, m)
    BY <1>1, <1>2, <2>2
  <2>4. /\ y.chars_read_total = m /\ y.lines_read = Cardinality(Newlines(r, m))
        /\ y.chars_read_current_line = m - LastOf(Newlines(r, m))
    BY <2>1, <2>3, Zenon DEF Counts
  <2> QED
    BY <1>1, <1>2, <2>2, <2>4 DEF Characters
<1>5. /\ Cardinality(Newlines(r, n)) \in Nat
      /\ r[n + 1] = 10 => Cardinality(Newlines(r, n + 1)) = Cardinality(Newlines(r, n)) + 1
      /\ r[n + 1] # 10 => Newlines(r, n + 1) = Newlines(r, n)
  BY <1>2, NextCounts
<1>6. /\ DOMAIN z = Members /\ z.next_unget = TRUE /\ z.current = y.current
      /\ z.chars_read_total = y.chars_read_total - 1
      /\ z.lines_read = (IF y.chars_read_current_line = 0 /\ y.lines_read > 0
                         THEN y.lines_read - 1 ELSE y.lines_read)
      /\ z.chars_read_current_line = (IF y.chars_read_current_line = 0 THEN 0
                                      ELSE y.chars_read_current_line - 1)
  BY <1>1 DEF unget, Members
<1> HIDE DEF z
<1>7. z.chars_read_total = n /\ z.lines_read = Cardinality(Newlines(r, n))
      /\ z.chars_read_current_line \in Nat
  <2>1. CASE y.current = 10
    BY <1>2, <1>4, <1>5, <1>6, <2>1
  <2>2. CASE y.current # 10
    BY <1>1, <1>2, <1>4, <1>5, <1>6, <2>2
  <2> QED
    BY <2>1, <2>2
<1>8. y.current # 10 => z.chars_read_current_line = n - LastOf(Newlines(r, n))
  BY <1>1, <1>2, <1>3, <1>4, <1>5, <1>6
<1>9. Taken(z, r) = n
  <2>1. z.next_unget
    BY <1>6, Zenon
  <2> QED
    BY <1>2, <2>1 DEF Taken
<1>10. Counts(z, r, n)
  BY <1>6, <1>7, <1>8, Zenon DEF Counts
<1>11. z.next_unget \in BOOLEAN
  BY <1>6, Zenon
<1> QED
  BY <1>1, <1>6, <1>7, <1>9, <1>10, <1>11, Zenon DEF Position, z

\* The handler counts the character as get() does, or puts it back.
Tracks(c) == SameTracking(get(c), x') \/ SameTracking(unget(get(c)), x')

LEMMA TracksPosition ==
    ASSUME Position(x, read), NEW c, Reading(c), Tracks(c)
    PROVE  Position(x, read)'
<1>1. PICK y : y = get(c)
  OBVIOUS
<1>2. /\ Position(y, read') /\ y.next_unget = FALSE
      /\ 0 < Len(read') /\ read'[Len(read')] = y.current
      /\ y.chars_read_current_line = 0 <=> y.current = 10
  BY <1>1, GetPosition
<1>3. Position(unget(y), read')
  BY <1>2, UngetPosition
<1>4. Position(x', read')
  BY <1>1, <1>2, <1>3, SamePosition DEF Tracks
<1> QED
  BY <1>4 DEF Position, Counts, Taken, Characters, Newlines, LastOf

\* What the handlers do to a lexer besides reading.
LEMMA Kept ==
    ASSUME NEW y, DOMAIN y = Members
    PROVE  /\ SameTracking(y, y)
           /\ \A v : SameTracking(y, Goto(y, v)) /\ SameTracking(y, add(y, v))
           /\ SameTracking(y, reset(y)) /\ SameTracking(y, Float(y))
           /\ \A v : /\ SameTracking(y, [y EXCEPT !.todo = v])
                     /\ SameTracking(y, [y EXCEPT !.first = v])
                     /\ SameTracking(y, [y EXCEPT !.type = v])
                     /\ SameTracking(y, [y EXCEPT !.codepoint = v])
                     /\ SameTracking(y, [y EXCEPT !.codepoint1 = v])
                     /\ SameTracking(y, [y EXCEPT !.token_buffer = v])
BY DEF SameTracking, Goto, add, reset, Float, Members

LEMMA KeptTrans ==
    ASSUME NEW y, NEW z, NEW w, SameTracking(y, z), SameTracking(z, w)
    PROVE  SameTracking(y, w)
BY DEF SameTracking

LEMMA GetMembers ==
    ASSUME DOMAIN x = Members, NEW c
    PROVE  DOMAIN get(c) = Members /\ DOMAIN unget(get(c)) = Members
<1>1. DOMAIN get(c) = Members
  BY DEF get
<1> QED
  BY <1>1 DEF unget

LEMMA SkipBomTracks ==
    ASSUME DOMAIN x = Members, x.pc \in {"bom", "bom2", "bom3"}, NEW c, SkipBom(c)
    PROVE  Tracks(c)
<1>1. PICK y : y = get(c)
  OBVIOUS
<1>2. DOMAIN y = Members /\ DOMAIN unget(y) = Members
  BY <1>1, GetMembers
<1>3. \E v : x' = Goto(y, v) \/ x' = Goto(unget(y), v)
  <2>1. CASE x.pc = "bom"
    BY <1>1, <2>1 DEF SkipBom, Continue
  <2>2. CASE x.pc = "bom2"
    BY <1>1, <2>2 DEF SkipBom, Continue, Error, Return
  <2>3. CASE x.pc = "bom3"
    BY <1>1, <2>3 DEF SkipBom, Continue, Error, Return
  <2> QED
    BY <2>1, <2>2, <2>3
<1> QED
  BY <1>1, <1>2, <1>3, Kept DEF Tracks

LEMMA StartTracks ==
    ASSUME DOMAIN x = Members, NEW c, Start(c)
    PROVE  Tracks(c)
<1> DEFINE y == get(c)
           f == [y EXCEPT !.first = x.chars_read_total + 1]
           lit == CHOOSE l \in LiteralType : LiteralText(l)[1] = c
           g == [Goto(f, "literal") EXCEPT !.type = lit, !.todo = Tail(LiteralText(lit))]
<1>5. x' \in {f, Goto(f, "idle"), g, Goto(reset(f), "string"), FirstOfNumber(reset(f), c)}
  BY Zenon DEF Start, Continue, Return, Error
<1>2. DOMAIN y = Members
  BY GetMembers
<1> HIDE DEF y, lit
<1>4. SameTracking(y, f) /\ DOMAIN f = Members
  BY <1>2, Kept DEF SameTracking
<1> HIDE DEF f
<1>6. SameTracking(f, x')
  <2>1. SameTracking(f, g)
    BY <1>4 DEF SameTracking, Goto, Members
  <2>2. SameTracking(f, reset(f)) /\ DOMAIN reset(f) = Members
    BY <1>4, Kept DEF SameTracking
  <2>3. SameTracking(reset(f), FirstOfNumber(reset(f), c))
    <3>1. PICK r : r = reset(f)
      OBVIOUS
    <3>2. \E u, v : FirstOfNumber(r, c) = [add(Goto(r, u), c) EXCEPT !.type = v]
      BY DEF FirstOfNumber
    <3> QED
      BY <2>2, <3>1, <3>2 DEF SameTracking, Goto, add, Members
  <2>4. SameTracking(reset(f), Goto(reset(f), "string"))
    BY <2>2, Kept
  <2> HIDE DEF g
  <2> QED
    BY <1>4, <1>5, <2>1, <2>2, <2>3, <2>4, Kept, KeptTrans
<1> QED
  BY <1>4, <1>6, KeptTrans DEF Tracks, y

LEMMA LiteralTracks ==
    ASSUME DOMAIN x = Members, NEW c, scan_literal(c)
    PROVE  Tracks(c)
<1>1. PICK y : y = get(c)
  OBVIOUS
<1>2. DOMAIN y = Members
  BY <1>1, GetMembers
<1>3. PICK t : t = [y EXCEPT !.todo = Tail(@)]
  OBVIOUS
<1>4. SameTracking(y, t) /\ DOMAIN t = Members
  BY <1>2, <1>3, Kept DEF SameTracking
<1>5. x' = t \/ x' = Goto(t, "idle")
  BY <1>1, <1>3 DEF scan_literal, Continue, Return, Error
<1> QED
  BY <1>1, <1>4, <1>5, Kept, KeptTrans DEF Tracks

LEMMA StringTracks ==
    ASSUME DOMAIN x = Members, NEW c, scan_string(c)
    PROVE  Tracks(c)
<1>1. PICK y : y = get(c)
  OBVIOUS
<1>2. DOMAIN y = Members
  BY <1>1, GetMembers
<1>3. \/ \E v : x' = Goto(y, v)
      \/ x' = add(y, c)
      \/ \E v : x' = [add(Goto(y, "follow"), c) EXCEPT !.todo = v]
  BY <1>1 DEF scan_string, Continue, Return, Error
<1>4. ASSUME NEW v
      PROVE  SameTracking(y, [add(Goto(y, "follow"), c) EXCEPT !.todo = v])
  BY <1>2 DEF SameTracking, Goto, add, Members
<1> QED
  BY <1>1, <1>2, <1>3, <1>4, Kept DEF Tracks

LEMMA FollowTracks ==
    ASSUME DOMAIN x = Members, NEW c, next_byte_in_range(c)
    PROVE  Tracks(c)
<1>1. PICK y : y = get(c)
  OBVIOUS
<1>2. DOMAIN y = Members
  BY <1>1, GetMembers
<1>3. PICK t : t = add([y EXCEPT !.todo = Tail(@)], c)
  OBVIOUS
<1>4. SameTracking(y, t) /\ DOMAIN t = Members
  BY <1>2, <1>3 DEF SameTracking, add, Members
<1>5. x' = t \/ x' = Goto(t, "string") \/ x' = Goto(y, "idle")
  BY <1>1, <1>3 DEF next_byte_in_range, Continue, Return, Error
<1> QED
  BY <1>1, <1>2, <1>4, <1>5, Kept, KeptTrans DEF Tracks

LEMMA EscapeTracks ==
    ASSUME DOMAIN x = Members, NEW c, Escape(c)
    PROVE  Tracks(c)
<1>1. PICK y : y = get(c)
  OBVIOUS
<1>2. DOMAIN y = Members
  BY <1>1, GetMembers
<1>3. \/ \E v : x' = Goto(y, v)
      \/ \E v : x' = add(Goto(y, "string"), v)
      \/ x' = [Goto(y, "hex") EXCEPT !.todo = <<12, 8, 4, 0>>,
                          !.codepoint = 0, !.codepoint1 = -1]
  BY <1>1 DEF Escape, Continue, Return, Error
<1>4. /\ \A v : SameTracking(y, add(Goto(y, "string"), v))
      /\ SameTracking(y, [Goto(y, "hex") EXCEPT !.todo = <<12, 8, 4, 0>>,
                          !.codepoint = 0, !.codepoint1 = -1])
  BY <1>2 DEF SameTracking, Goto, add, Members
<1> QED
  BY <1>1, <1>2, <1>3, <1>4, Kept DEF Tracks

LEMMA HexTracks ==
    ASSUME DOMAIN x = Members, NEW c, get_codepoint(c)
    PROVE  Tracks(c)
<1>1. PICK y : y = get(c)
  OBVIOUS
<1>2. DOMAIN y = Members
  BY <1>1, GetMembers
<1>3. PICK h : h = [y EXCEPT !.codepoint = @ + HexValue(c) * 2^Head(x.todo), !.todo = Tail(@)]
  OBVIOUS
<1>4. SameTracking(y, h) /\ DOMAIN h = Members
  BY <1>2, <1>3 DEF SameTracking, Members
<1>5. x' = Goto(y, "idle") \/ x' = h \/ Codepoint(h)
  BY <1>1, <1>3 DEF get_codepoint, Continue, Return, Error
<1>6. ASSUME Codepoint(h)
      PROVE  SameTracking(h, x')
  <2>1. \/ \E v : x' = Goto(h, v)
        \/ x' = [Goto(h, "pair") EXCEPT !.codepoint1 = h.codepoint]
        \/ \E v : x' = Encoded(h, v)
    BY <1>6 DEF Codepoint, Continue, Return, Error
  <2>2. /\ SameTracking(h, [Goto(h, "pair") EXCEPT !.codepoint1 = h.codepoint])
        /\ \A v : SameTracking(h, Encoded(h, v))
    BY <1>4 DEF SameTracking, Goto, Encoded, Members
  <2> QED
    BY <1>4, <2>1, <2>2, Kept
<1> QED
  BY <1>1, <1>2, <1>4, <1>5, <1>6, Kept, KeptTrans DEF Tracks

LEMMA PairTracks ==
    ASSUME DOMAIN x = Members, NEW c, Pair(c)
    PROVE  Tracks(c)
<1>1. PICK y : y = get(c)
  OBVIOUS
<1>2. DOMAIN y = Members
  BY <1>1, GetMembers
<1>3. \/ \E v : x' = Goto(y, v)
      \/ x' = [Goto(y, "hex") EXCEPT !.todo = <<12, 8, 4, 0>>, !.codepoint = 0]
  BY <1>1 DEF Pair, Continue, Return, Error
<1>4. SameTracking(y, [Goto(y, "hex") EXCEPT !.todo = <<12, 8, 4, 0>>, !.codepoint = 0])
  BY <1>2 DEF SameTracking, Goto, Members
<1> QED
  BY <1>1, <1>2, <1>3, <1>4, Kept DEF Tracks

LEMMA NumberTracks ==
    ASSUME DOMAIN x = Members, x.pc \in DOMAIN Otherwise, NEW c, scan_number(c)
    PROVE  Tracks(c)
<1> DEFINE s == CASE x.pc \in {"minus", "zero", "any1"} -> IntegerPart(x.pc, c)
                  [] x.pc \in {"decimal1", "decimal2"} -> FractionPart(x.pc, c)
                  [] x.pc \in {"exponent", "sign", "any2"} -> ExponentPart(x.pc, c)
<1>1. PICK y : y = get(c)
  OBVIOUS
<1>2. DOMAIN y = Members /\ DOMAIN unget(y) = Members
  BY <1>1, GetMembers
<1>3. /\ x.pc \in {"minus", "zero", "any1", "decimal1", "decimal2", "exponent", "sign", "any2"}
      /\ Otherwise[x.pc] \in {"done", "error"}
  BY DEF Otherwise
<1>4. s \in {"zero", "any1", "decimal1", "decimal2", "exponent", "sign", "any2", "none"}
  BY <1>3 DEF IntegerPart, FractionPart, ExponentPart
<1>5. PICK t : t = add(Goto(y, s), c)
  OBVIOUS
<1>6. SameTracking(y, t) /\ DOMAIN t = Members
  BY <1>2, <1>5 DEF SameTracking, Goto, add, Members
<1>7. CASE s \in {"decimal1", "exponent"}
  <2>1. x' = Float(t)
    BY <1>1, <1>5, <1>7 DEF scan_number, Continue
  <2> QED
    BY <1>1, <1>6, <2>1, Kept, KeptTrans DEF Tracks
<1>8. CASE s \in {"zero", "any1", "decimal2", "sign", "any2"}
  <2>1. x' = t
    BY <1>1, <1>5, <1>8 DEF scan_number, Continue
  <2> QED
    BY <1>1, <1>6, <2>1 DEF Tracks
<1>9. CASE s = "none"
  <2>1. x' = Goto(unget(y), "idle") \/ x' = Goto(y, "idle")
    BY <1>1, <1>3, <1>9 DEF scan_number, NumberDone, Error, Return
  <2> QED
    BY <1>1, <1>2, <2>1, Kept DEF Tracks
<1> QED
  BY <1>4, <1>7, <1>8, <1>9

\* Whenever the lexer is idle its position (chars_read_total, lines_read,
\* chars_read_current_line, which every parse_error reports) counts exactly the
\* characters that get() has taken and unget() has not put back, for every text
\* and every adapter.
THEOREM PositionsExact == Spec => []PositionsRight
<1>1. Init => Position(x, read)
  <2> SUFFICES ASSUME Init PROVE Position(x, read)
    OBVIOUS
  <2>1. Newlines(<<>>, 0) = {} /\ LastOf({}) = 0 /\ Cardinality({}) = 0
    BY FS_EmptySet DEF Newlines, LastOf
  <2>2. /\ DOMAIN x = Members /\ read = <<>> /\ x.chars_read_total = 0
        /\ x.chars_read_current_line = 0 /\ x.lines_read = 0 /\ x.next_unget = FALSE
    BY DEF Init, Members
  <2>3. Characters(read)
    <3>1. read \in Seq({}) /\ Len(read) = 0
      BY <2>2
    <3>2. ASSUME NEW n \in 0 .. Len(read)
          PROVE  LastOf(Newlines(read, n)) \in Nat
      <4>1. n = 0
        BY <3>1, <3>2
      <4>2. Newlines(read, n) = {}
        BY <2>1, <2>2, <4>1
      <4> QED
        BY <2>1, <4>2
    <3> QED
      BY <3>1, <3>2 DEF Characters
  <2>4. Taken(x, read) = 0
    BY <2>2 DEF Taken
  <2>5. Counts(x, read, 0)
    BY <2>1, <2>2 DEF Counts
  <2>6. x.next_unget \in BOOLEAN /\ ~x.next_unget
    BY <2>2, Zenon
  <2>7. x.chars_read_current_line \in Nat
    BY <2>2
  <2> QED
    BY <2>2, <2>3, <2>4, <2>5, <2>6, <2>7, Zenon DEF Position
<1>2. Position(x, read) /\ [Next]_vars => Position(x, read)'
  <2> SUFFICES ASSUME Position(x, read), [Next]_vars PROVE Position(x, read)'
    OBVIOUS
  <2>1. DOMAIN x = Members
    BY DEF Position
  <2>2. ASSUME SameTracking(x, x'), read' = read
        PROVE  Position(x, read)'
    <3>1. Position(x', read')
      BY <2>2, SamePosition
    <3> QED
      BY <3>1 DEF Position, Counts, Taken, Characters, Newlines, LastOf
  <2>3. ASSUME NEW c, Reading(c), Tracks(c)
        PROVE  Position(x, read)'
    BY <2>3, TracksPosition
  <2>4. CASE Scan
    <3>1. \E v : x' = Goto(x, v)
      BY <2>4 DEF Scan
    <3> QED
      BY <2>1, <2>2, <2>4, <3>1, Kept DEF Scan
  <2>5. CASE BomStep
    BY <2>1, <2>3, <2>5, SkipBomTracks DEF BomStep, Character
  <2>6. CASE StartStep
    BY <2>1, <2>3, <2>6, StartTracks DEF StartStep, Character
  <2>7. CASE LiteralStep
    BY <2>1, <2>3, <2>7, LiteralTracks DEF LiteralStep, Character
  <2>8. CASE StringStep
    BY <2>1, <2>3, <2>8, StringTracks DEF StringStep, Character
  <2>9. CASE FollowStep
    BY <2>1, <2>3, <2>9, FollowTracks DEF FollowStep, Character
  <2>10. CASE EscapeStep
    BY <2>1, <2>3, <2>10, EscapeTracks DEF EscapeStep, Character
  <2>11. CASE HexStep
    BY <2>1, <2>3, <2>11, HexTracks DEF HexStep, Character
  <2>12. CASE PairStep
    BY <2>1, <2>3, <2>12, PairTracks DEF PairStep, Character
  <2>13. CASE NumberStep
    BY <2>1, <2>3, <2>13, NumberTracks DEF NumberStep, Character
  <2>14. CASE Finished \/ UNCHANGED vars
    BY <2>1, <2>2, <2>14, Kept DEF Finished, vars
  <2>15. CASE Fault
    <3>1. \E v : x' = Goto(x, v)
      BY <2>15 DEF Fault
    <3> QED
      BY <2>1, <2>2, <2>15, <3>1, Kept DEF Fault
  <2> QED
    BY <2>4, <2>5, <2>6, <2>7, <2>8, <2>9, <2>10, <2>11, <2>12, <2>13, <2>14, <2>15
    DEF Next
<1>3. Position(x, read) => PositionsRight
  BY PositionsCounted
<1> QED
  BY <1>1, <1>2, <1>3, PTL DEF Spec
=============================================================================
