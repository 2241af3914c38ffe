-------------------------- MODULE RaftSafetyProofs --------------------------
(***************************************************************************)
(* Proofs about what the servers of raft/raft_server.c commit and apply,   *)
(* for every number of servers, entries, terms, messages and restarts,     *)
(* with losses, reordering, duplicates and failing callbacks, and without  *)
(* snapshots (MaxSnapshots = 0, as for the proofs these rest on).          *)
(*                                                                         *)
(* A history P is the beginning of a log, up to an entry that the leader   *)
(* of EndTerm(P) has appended.  The invariant says when a majority Q keeps *)
(* P for good (Safe), that a leader's entry is safe with every majority    *)
(* that has not yet left the leader's term without it (Office), and that   *)
(* whatever is committed anywhere is part of a history that is safe and    *)
(* held by a majority (Chosen).                                            *)
(***************************************************************************)
EXTENDS RaftReplicationProofs

Majority(Q) == Q \in SUBSET Server /\ N < 2 * Cardinality(Q)

\* The terms in segment s never decrease and none is above t.
InOrder(s, t) ==
    \A y, z \in s.lo .. Hi(s) : y <= z => Tm(s, y) <= Tm(s, z) /\ Tm(s, z) <= t

Ordered ==
    /\ \A i \in Server : InOrder(LogSeg(srv[i].log), srv[i].current_term)
    /\ \A m \in net : IsAppend(m) => InOrder(MsgSeg(m), m.term)

IsRequest(m) == m.type = "requestvote"

\* The request for votes m says where log ends.
Ends(m, log) ==
    m.last_log_idx = Len(log) /\ m.last_log_term = Tm(LogSeg(log), Len(log))

\* The test that a voter's log puts to a request.
UpToDate(m, log) ==
    \/ Len(log) = 0
    \/ log[Len(log)].term < m.last_log_term
    \/ log[Len(log)].term = m.last_log_term /\ Len(log) <= m.last_log_idx

\* A candidate's requests are about the log it still has, and no vote is on
\* its way to a server that has not yet reached its term.
Asked ==
    \A m \in net :
        /\ IsRequest(m) =>
             /\ m.term <= srv[m.src].current_term
             /\ m.term = srv[m.src].current_term /\ srv[m.src].state = "candidate"
                => Ends(m, srv[m.src].log)
        /\ IsGrant(m) => m.term <= srv[m.dst].current_term

\* A leader leaves no gap after its log, and what it sends reaches as far as
\* the commit index it sends.
Sent ==
    /\ \A i, k \in Server : srv[i].state = "leader" /\ k # i =>
           srv[i].next_idx[k] <= Len(srv[i].log) + 1
    /\ \A m \in net : IsAppend(m) => m.leader_commit <= Hi(MsgSeg(m))

\* k has told leader i, or is about to, that it has i's first x entries.
Heard(i, k, x) ==
    \/ x <= srv[i].match_idx[k]
    \/ \E m \in net : /\ IsSuccess(m) /\ m.src = k /\ m.dst = i
                      /\ m.term = srv[i].current_term /\ x <= m.current_idx

HeardWithin ==
    \A i, k \in Server : srv[i].state = "leader" => ~Heard(i, k, Len(srv[i].log) + 1)

Has(log, P) == Len(P) <= Len(log) /\ \A y \in 1 .. Len(P) : log[y] = P[y]
EndTerm(P) == P[Len(P)].term
History(P) == P \in Seq(Entries) /\ 0 < Len(P)

\* Segment s agrees with P as far as P goes and is not older beyond.
Extends(s, P) ==
    \A y \in s.lo .. Hi(s) :
        /\ y <= Len(P) => /\ Tm(s, y) = Tm(LogSeg(P), y)
                          /\ s.lo < y => Ent(s, y) = P[y]
        /\ Len(P) <= y => EndTerm(P) <= Tm(s, y)

\* log is at least as up to date as P.
Reaches(log, P) ==
    \E y \in 1 .. Len(log) :
        EndTerm(P) < log[y].term \/ (log[y].term = EndTerm(P) /\ Len(P) <= y)

\* No server gets past EndTerm(P) without P: whoever of Q has left that term
\* has P, what is sent in it or later agrees with P, leaders from then on have
\* P, so has every log that is as up to date, and every candidate that someone
\* in Q has voted for.
Safe(Q, P) ==
    /\ \A k \in Q : EndTerm(P) < srv[k].current_term => Has(srv[k].log, P)
    /\ \A m \in net : IsAppend(m) /\ EndTerm(P) <= m.term => Extends(MsgSeg(m), P)
    /\ \A i \in Server :
          srv[i].state = "leader" /\ EndTerm(P) <= srv[i].current_term => Has(srv[i].log, P)
    /\ \A j \in Server : Reaches(srv[j].log, P) => Has(srv[j].log, P)
    /\ \A j \in Server, k \in Q :
          /\ srv[j].state = "candidate" /\ EndTerm(P) < srv[j].current_term
          /\ Claim(k, j, srv[j].current_term)
          => Has(srv[j].log, P)

\* An entry of the leader's own term is safe with every majority whose members
\* have each acknowledged it or not left the term.
Office ==
    \A i \in Server : srv[i].state = "leader" =>
        \A P, Q :
            /\ History(P) /\ Has(srv[i].log, P) /\ EndTerm(P) = srv[i].current_term
            /\ Majority(Q) /\ \A k \in Q : \/ srv[k].current_term <= srv[i].current_term
                                          \/ Heard(i, k, Len(P))
            => Safe(Q, P)

Chosen(P) ==
    \E Q \in SUBSET Server :
        /\ Majority(Q) /\ Safe(Q, P)
        /\ \A k \in Q : EndTerm(P) <= srv[k].current_term /\ Has(srv[k].log, P)

CommitsChosen ==
    /\ \A i \in Server :
         \/ srv[i].commit_idx = 0
         \/ \E P : /\ History(P) /\ Chosen(P) /\ EndTerm(P) <= srv[i].current_term
                   /\ srv[i].commit_idx <= Len(P)
                   /\ \A y \in 1 .. srv[i].commit_idx : srv[i].log[y] = P[y]
    /\ \A m \in net : IsAppend(m) =>
         \/ m.leader_commit = 0
         \/ \E P : /\ History(P) /\ Chosen(P) /\ EndTerm(P) <= m.term
                   /\ m.leader_commit <= Len(P)

\* The state machine was given the entries of the log.
FsmLog ==
    \A i \in Server : \A y \in 1 .. Len(srv[i].fsm) : srv[i].fsm[y] = srv[i].log[y]

\* The servers of a cluster of one have nobody to hear from.
SafetyInv ==
    /\ ReplicationInv /\ FsmLog
    /\ 1 < N => /\ Ordered /\ Asked /\ Sent /\ HeardWithin /\ Office
                /\ CommitsChosen
-----------------------------------------------------------------------------
(* Histories, logs and segments.                                           *)

LEMMA HistoryFacts ==
    ASSUME NEW P, History(P)
    PROVE  /\ Len(P) \in Nat /\ 0 < Len(P) /\ EndTerm(P) \in Nat
           /\ \A y \in 1 .. Len(P) : P[y] \in Entries /\ P[y].term \in Nat
           /\ Tm(LogSeg(P), 0) = 0
           /\ \A y \in 1 .. Len(P) : Tm(LogSeg(P), y) = P[y].term
           /\ Len(P) \in 1 .. Len(P)
<1>1. P \in Seq(Entries) /\ Len(P) \in Nat /\ 0 < Len(P) /\ Len(P) \in 1 .. Len(P)
  BY DEF History
<1>2. \A e \in Entries : e.term \in Nat
  BY DEF Entries
<1>3. \A y \in 1 .. Len(P) : P[y] \in Entries
  BY <1>1
<1> QED
  BY <1>1, <1>2, <1>3, LogSegFacts DEF EndTerm

\* The first x entries of a log are a history that the log has.
LEMMA Beginning ==
    ASSUME NEW l \in Seq(Entries), NEW x \in 1 .. Len(l)
    PROVE  LET P == SubSeq(l, 1, x)
           IN  /\ History(P) /\ Len(P) = x /\ Has(l, P) /\ EndTerm(P) = l[x].term
               /\ \A y \in 1 .. x : P[y] = l[y]
<1> DEFINE P == SubSeq(l, 1, x)
<1>1. x \in Nat /\ x <= Len(l) /\ 1 <= x /\ Len(l) \in Nat /\ 1 \in Nat \ {0}
  OBVIOUS
<1>2. /\ P \in Seq(Entries) /\ Len(P) = x - 1 + 1
      /\ \A y \in 1 .. x - 1 + 1 : P[y] = l[1 + y - 1]
  BY <1>1, SubSeqFacts
<1> HIDE DEF P
<1>3. Len(P) = x /\ \A y \in 1 .. x : P[y] = l[y]
  BY <1>1, <1>2
<1>4. History(P) /\ Has(l, P)
  BY <1>1, <1>2, <1>3 DEF History, Has
<1>5. EndTerm(P) = l[x].term
  BY <1>1, <1>3 DEF EndTerm
<1> QED
  BY <1>3, <1>4, <1>5 DEF P

\* A history whose log is in order ends with its highest term.
LEMMA HasOrder ==
    ASSUME NEW P, History(P), NEW l \in Seq(Entries), Has(l, P), NEW t \in Nat,
           InOrder(LogSeg(l), t)
    PROVE  /\ EndTerm(P) <= t /\ \A y \in 1 .. Len(P) : P[y].term <= EndTerm(P)
           /\ \A y \in Len(P) .. Len(l) : EndTerm(P) <= l[y].term
<1>1. /\ Len(P) \in Nat /\ 0 < Len(P) /\ EndTerm(P) = P[Len(P)].term
  BY HistoryFacts DEF EndTerm
<1>2. /\ LogSeg(l).lo = 0 /\ Hi(LogSeg(l)) = Len(l) /\ Len(l) \in Nat
      /\ \A y \in 1 .. Len(l) : Tm(LogSeg(l), y) = l[y].term
  BY LogSegFacts
<1>3. Len(P) <= Len(l) /\ \A y \in 1 .. Len(P) : l[y] = P[y]
  BY DEF Has
<1>4. \A y, z \in 1 .. Len(l) : y <= z => l[y].term <= l[z].term /\ l[z].term <= t
  BY <1>2 DEF InOrder
<1>5. Len(P) \in 1 .. Len(l) /\ l[Len(P)].term = EndTerm(P)
  BY <1>1, <1>2, <1>3
<1> QED
  BY <1>1, <1>2, <1>3, <1>4, <1>5

LEMMA PartOrder ==
    ASSUME NEW s, NEW r, Segment(s), Segment(r), Part(s, r), NEW t, InOrder(r, t)
    PROVE  InOrder(s, t)
<1>1. s.lo \in Nat /\ r.lo \in Nat /\ Hi(s) \in Nat /\ Hi(r) \in Nat
  BY SegmentFacts
<1>2. /\ r.lo <= s.lo /\ Hi(s) <= Hi(r)
      /\ \A y \in s.lo .. Hi(s) : Tm(s, y) = Tm(r, y)
  BY DEF Part
<1> QED
  BY <1>1, <1>2 DEF InOrder

\* A log that has P and takes over from a segment that extends P has P.
LEMMA TakeOverHas ==
    ASSUME NEW a \in Seq(Entries), NEW g \in Seq(Entries), NEW s, Segment(s), NEW p,
           FromSeg(a, s, g, p), NEW P, History(P), Has(a, P), Extends(s, P)
    PROVE  Has(g, P)
<1>1. /\ Len(a) \in Nat /\ Len(g) \in Nat /\ s.lo \in Nat /\ Hi(s) \in Nat
      /\ Len(P) \in Nat
  BY SegmentFacts, HistoryFacts
<1>2. p \in 0 .. Len(a) /\ p <= Len(g) /\ \A y \in 1 .. p : g[y] = a[y]
  BY DEF FromSeg
<1>3. Len(P) <= Len(a) /\ \A y \in 1 .. Len(P) : a[y] = P[y]
  BY DEF Has
<1>4. Len(P) <= p
  <2> SUFFICES ASSUME p < Len(P) PROVE FALSE
    BY <1>1, <1>2
  <2>1. p + 1 \in s.lo .. Hi(s) /\ a[p + 1].term # Tm(s, p + 1)
    BY <1>1, <1>2, <1>3 DEF FromSeg
  <2>2. p + 1 \in 1 .. Len(P) /\ p + 1 <= Len(P)
    BY <1>1, <1>2
  <2>3. Tm(s, p + 1) = Tm(LogSeg(P), p + 1)
    BY <2>1, <2>2 DEF Extends
  <2>4. Tm(LogSeg(P), p + 1) = P[p + 1].term
    BY <2>2, HistoryFacts
  <2> QED
    BY <1>3, <2>1, <2>2, <2>3, <2>4
<1> QED
  BY <1>1, <1>2, <1>3, <1>4 DEF Has

\* A part of an ordered log that has P extends P.
LEMMA PartExtends ==
    ASSUME NEW l \in Seq(Entries), NEW s, Segment(s), Part(s, LogSeg(l)),
           NEW P, History(P), Has(l, P), NEW t \in Nat, InOrder(LogSeg(l), t)
    PROVE  Extends(s, P)
<1>1. /\ Len(l) \in Nat /\ s.lo \in Nat /\ Hi(s) \in Nat /\ Len(P) \in Nat /\ 0 < Len(P)
      /\ Tm(LogSeg(P), 0) = 0
      /\ \A y \in 1 .. Len(P) : Tm(LogSeg(P), y) = P[y].term
  BY SegmentFacts, HistoryFacts
<1>2. /\ LogSeg(l).lo = 0 /\ Hi(LogSeg(l)) = Len(l) /\ Tm(LogSeg(l), 0) = 0
      /\ \A y \in 1 .. Len(l) : Ent(LogSeg(l), y) = l[y] /\ Tm(LogSeg(l), y) = l[y].term
  BY LogSegFacts
<1>3. Len(P) <= Len(l) /\ \A y \in 1 .. Len(P) : l[y] = P[y]
  BY DEF Has
<1>4. \A y \in Len(P) .. Len(l) : EndTerm(P) <= l[y].term
  BY HasOrder
<1>5. /\ Hi(s) <= Len(l)
      /\ \A y \in s.lo .. Hi(s) : /\ Tm(s, y) = Tm(LogSeg(l), y)
                                  /\ s.lo < y => Ent(s, y) = Ent(LogSeg(l), y)
  BY <1>2 DEF Part
<1> SUFFICES ASSUME NEW y \in s.lo .. Hi(s)
             PROVE  /\ y <= Len(P) => /\ Tm(s, y) = Tm(LogSeg(P), y)
                                      /\ s.lo < y => Ent(s, y) = P[y]
                    /\ Len(P) <= y => EndTerm(P) <= Tm(s, y)
  BY DEF Extends
<1>6. CASE y = 0
  BY <1>1, <1>2, <1>5, <1>6
<1>7. CASE y # 0
  <2>1. y \in 1 .. Len(l)
    BY <1>1, <1>5, <1>7
  <2>2. Tm(s, y) = l[y].term /\ (s.lo < y => Ent(s, y) = l[y])
    BY <1>2, <1>5, <2>1
  <2>3. y <= Len(P) => y \in 1 .. Len(P)
    BY <1>1, <2>1
  <2>4. Len(P) <= y => y \in Len(P) .. Len(l)
    BY <1>1, <2>1
  <2> QED
    BY <1>1, <1>3, <1>4, <2>2, <2>3, <2>4
<1> QED
  BY <1>6, <1>7

LEMMA InOrderLog ==
    ASSUME NEW l \in Seq(Entries), NEW t \in Nat
    PROVE  InOrder(LogSeg(l), t) <=>
               \A y, z \in 1 .. Len(l) : y <= z => l[y].term <= l[z].term /\ l[z].term <= t
<1>1. /\ LogSeg(l).lo = 0 /\ Hi(LogSeg(l)) = Len(l) /\ Len(l) \in Nat
      /\ Tm(LogSeg(l), 0) = 0
      /\ \A y \in 1 .. Len(l) : Tm(LogSeg(l), y) = l[y].term
  BY LogSegFacts
<1>2. \A y \in 1 .. Len(l) : l[y].term \in Nat
  <2>1. \A e \in Entries : e.term \in Nat
    BY DEF Entries
  <2> QED
    BY <2>1
<1>3. ASSUME InOrder(LogSeg(l), t), NEW y \in 1 .. Len(l), NEW z \in 1 .. Len(l), y <= z
      PROVE  l[y].term <= l[z].term /\ l[z].term <= t
  BY <1>1, <1>3 DEF InOrder
<1>4. ASSUME \A y, z \in 1 .. Len(l) : y <= z => l[y].term <= l[z].term /\ l[z].term <= t,
             NEW y \in 0 .. Len(l), NEW z \in 0 .. Len(l), y <= z
      PROVE  Tm(LogSeg(l), y) <= Tm(LogSeg(l), z) /\ Tm(LogSeg(l), z) <= t
  <2>1. CASE z = 0
    BY <1>1, <1>4, <2>1
  <2>2. CASE z # 0 /\ y = 0
    BY <1>1, <1>2, <1>4, <2>2
  <2>3. CASE z # 0 /\ y # 0
    BY <1>1, <1>4, <2>3
  <2> QED
    BY <2>1, <2>2, <2>3
<1> QED
  BY <1>1, <1>3, <1>4 DEF InOrder

\* What is taken over from a segment in order leaves the log in order.
LEMMA TakeOverOrder ==
    ASSUME NEW a \in Seq(Entries), NEW g \in Seq(Entries), NEW s, Segment(s), NEW p,
           FromSeg(a, s, g, p), NEW t \in Nat, InOrder(LogSeg(a), t), InOrder(s, t)
    PROVE  InOrder(LogSeg(g), t)
<1>1. /\ Len(a) \in Nat /\ Len(g) \in Nat /\ s.lo \in Nat /\ Hi(s) \in Nat
      /\ \A y \in s.lo + 1 .. Hi(s) : Tm(s, y) = Ent(s, y).term
  BY SegmentFacts
<1>2. p \in 0 .. Len(a) /\ p <= Len(g) /\ \A y \in 1 .. p : g[y] = a[y]
  BY DEF FromSeg
<1>3. \A y, z \in 1 .. Len(a) : y <= z => a[y].term <= a[z].term /\ a[z].term <= t
  BY InOrderLog
<1>4. \A y, z \in s.lo .. Hi(s) : y <= z => Tm(s, y) <= Tm(s, z) /\ Tm(s, z) <= t
  BY DEF InOrder
<1> SUFFICES ASSUME NEW y \in 1 .. Len(g), NEW z \in 1 .. Len(g), y <= z
             PROVE  g[y].term <= g[z].term /\ g[z].term <= t
  BY InOrderLog
<1>5. CASE z <= p
  BY <1>1, <1>2, <1>3, <1>5
<1>6. CASE p < z
  <2>1. /\ Follows(a, s, p) /\ Len(g) <= Hi(s)
        /\ \A x \in p + 1 .. Len(g) : g[x] = Ent(s, x)
    BY <1>1, <1>2, <1>6 DEF FromSeg
  <2>2. s.lo <= p /\ Tm(LogSeg(a), p) = Tm(s, p) /\ p \in s.lo .. Hi(s)
    BY <1>1, <1>2, <2>1 DEF Follows
  <2>3. z \in s.lo .. Hi(s) /\ g[z].term = Tm(s, z)
    BY <1>1, <1>2, <1>6, <2>1, <2>2
  <2>4. CASE p < y
    <3>1. y \in s.lo .. Hi(s) /\ g[y].term = Tm(s, y)
      BY <1>1, <1>2, <2>1, <2>2, <2>4
    <3> QED
      BY <1>4, <2>3, <3>1
  <2>5. CASE y <= p
    <3>1. y \in 1 .. Len(a) /\ p \in 1 .. Len(a) /\ g[y] = a[y] /\ a[y].term <= a[p].term
      BY <1>1, <1>2, <1>3, <2>5
    <3>2. a[p].term = Tm(s, p)
      BY <2>2, <3>1, LogSegFacts
    <3>3. Tm(s, p) <= Tm(s, z) /\ Tm(s, z) <= t
      BY <1>1, <1>2, <1>4, <1>6, <2>2, <2>3
    <3>4. a[y].term \in Nat /\ a[p].term \in Nat /\ g[z].term \in Nat
      <4>1. \A e \in Entries : e.term \in Nat
        BY DEF Entries
      <4> QED
        BY <3>1, <4>1
    <3> QED
      BY <2>3, <3>1, <3>2, <3>3, <3>4
  <2> QED
    BY <1>1, <1>2, <2>4, <2>5
<1> QED
  BY <1>1, <1>2, <1>5, <1>6

LEMMA HasPart ==
    ASSUME NEW P, History(P), NEW l \in Seq(Entries), Has(l, P)
    PROVE  Part(LogSeg(P), LogSeg(l)) /\ Segment(LogSeg(P)) /\ Segment(LogSeg(l))
<1>1. P \in Seq(Entries) /\ Len(P) \in Nat /\ Len(l) \in Nat
  BY DEF History
<1>2. /\ LogSeg(l).lo = 0 /\ Hi(LogSeg(l)) = Len(l) /\ Tm(LogSeg(l), 0) = 0
      /\ \A y \in 1 .. Len(l) : Ent(LogSeg(l), y) = l[y] /\ Tm(LogSeg(l), y) = l[y].term
      /\ Segment(LogSeg(l))
  BY LogSegFacts
<1>3. /\ LogSeg(P).lo = 0 /\ Hi(LogSeg(P)) = Len(P) /\ Tm(LogSeg(P), 0) = 0
      /\ \A y \in 1 .. Len(P) : Ent(LogSeg(P), y) = P[y] /\ Tm(LogSeg(P), y) = P[y].term
      /\ Segment(LogSeg(P))
  BY <1>1, LogSegFacts
<1>4. Len(P) <= Len(l) /\ \A y \in 1 .. Len(P) : l[y] = P[y]
  BY DEF Has
<1>5. ASSUME NEW y \in 0 .. Len(P)
      PROVE  /\ Tm(LogSeg(P), y) = Tm(LogSeg(l), y)
             /\ 0 < y => Ent(LogSeg(P), y) = Ent(LogSeg(l), y)
  <2>1. CASE y = 0
    BY <1>2, <1>3, <2>1
  <2>2. CASE y # 0
    <3>1. y \in 1 .. Len(P) /\ y \in 1 .. Len(l)
      BY <1>1, <1>4, <2>2
    <3> QED
      BY <1>2, <1>3, <1>4, <3>1
  <2> QED
    BY <2>1, <2>2
<1> QED
  BY <1>1, <1>2, <1>3, <1>4, <1>5 DEF Part

\* A log that has the term of P at an index has P's entries up to there.
LEMMA AlikeHistory ==
    ASSUME NEW P, History(P), NEW l \in Seq(Entries), Alike(LogSeg(l), LogSeg(P)),
           NEW x \in 1 .. Len(l), x <= Len(P), l[x].term = P[x].term
    PROVE  \A y \in 1 .. x : l[y] = P[y]
<1>1. P \in Seq(Entries) /\ Len(P) \in Nat /\ Len(l) \in Nat /\ x \in 1 .. Len(P)
  BY DEF History
<1>2. /\ LogSeg(l).lo = 0 /\ Hi(LogSeg(l)) = Len(l)
      /\ \A y \in 1 .. Len(l) : Ent(LogSeg(l), y) = l[y] /\ Tm(LogSeg(l), y) = l[y].term
  BY LogSegFacts
<1>3. /\ LogSeg(P).lo = 0 /\ Hi(LogSeg(P)) = Len(P)
      /\ \A y \in 1 .. Len(P) : Ent(LogSeg(P), y) = P[y] /\ Tm(LogSeg(P), y) = P[y].term
  BY <1>1, LogSegFacts
<1>4. \A y \in 0 .. x : 0 < y => Ent(LogSeg(l), y) = Ent(LogSeg(P), y)
  BY <1>1, <1>2, <1>3 DEF Alike
<1> QED
  BY <1>1, <1>2, <1>3, <1>4

\* A log that is as up to date as P once it has taken over from a segment that
\* extends P has P, if this holds for the log before.
LEMMA TakeOverReaches ==
    ASSUME NEW a \in Seq(Entries), NEW g \in Seq(Entries), NEW s, Segment(s), NEW p,
           FromSeg(a, s, g, p), NEW P, History(P), Extends(s, P), Reaches(g, P),
           Reaches(a, P) => Has(a, P), Alike(LogSeg(a), LogSeg(P)),
           \A y \in 1 .. Len(P) : P[y].term <= EndTerm(P)
    PROVE  Has(g, P)
<1>1. /\ Len(a) \in Nat /\ Len(g) \in Nat /\ s.lo \in Nat /\ Hi(s) \in Nat
      /\ Len(P) \in Nat /\ 0 < Len(P) /\ EndTerm(P) \in Nat
      /\ \A y \in s.lo + 1 .. Hi(s) : Tm(s, y) = Ent(s, y).term
      /\ \A y \in 1 .. Len(P) : Tm(LogSeg(P), y) = P[y].term
  BY SegmentFacts, HistoryFacts
<1>2. p \in 0 .. Len(a) /\ p <= Len(g) /\ \A y \in 1 .. p : g[y] = a[y]
  BY DEF FromSeg
<1>3. PICK y \in 1 .. Len(g) :
        EndTerm(P) < g[y].term \/ (g[y].term = EndTerm(P) /\ Len(P) <= y)
  BY DEF Reaches
<1>4. Reaches(a, P) => Has(g, P)
  BY TakeOverHas
<1>5. CASE y <= p
  <2>1. y \in 1 .. Len(a) /\ g[y] = a[y]
    BY <1>1, <1>2, <1>5
  <2> QED
    BY <1>3, <1>4, <2>1 DEF Reaches
<1>6. CASE p < y
  <2>1. /\ Follows(a, s, p) /\ Len(g) <= Hi(s)
        /\ \A x \in p + 1 .. Len(g) : g[x] = Ent(s, x)
    BY <1>1, <1>2, <1>6 DEF FromSeg
  <2>2. s.lo <= p /\ \A x \in s.lo .. p : Tm(LogSeg(a), x) = Tm(s, x)
    BY <2>1 DEF Follows
  <2>3. CASE Len(P) <= p
    <3>1. PICK z \in s.lo .. p : Len(P) <= z
      BY <1>1, <1>2, <2>2, <2>3
    <3>2. z \in 1 .. Len(a) /\ z \in s.lo .. Hi(s)
      BY <1>1, <1>2, <1>6, <2>1, <3>1
    <3>3. a[z].term = Tm(s, z) /\ EndTerm(P) <= Tm(s, z)
      BY <2>2, <3>1, <3>2, LogSegFacts DEF Extends
    <3>4. a[z].term \in Nat
      <4>1. \A e \in Entries : e.term \in Nat
        BY DEF Entries
      <4> QED
        BY <3>2, <4>1
    <3>5. EndTerm(P) < a[z].term \/ (a[z].term = EndTerm(P) /\ Len(P) <= z)
      BY <1>1, <3>1, <3>3, <3>4
    <3>6. Reaches(a, P)
      BY <3>2, <3>5 DEF Reaches
    <3> QED
      BY <1>4, <3>6
  <2>4. CASE p < Len(P)
    <3>1. y \in s.lo + 1 .. Hi(s) /\ y \in s.lo .. Hi(s) /\ g[y].term = Tm(s, y)
      BY <1>1, <1>2, <1>6, <2>1, <2>2
    <3>2. Len(P) <= y
      <4> SUFFICES ASSUME y < Len(P) PROVE FALSE
        BY <1>1
      <4>1. y \in 1 .. Len(P) /\ Tm(s, y) = Tm(LogSeg(P), y)
        BY <1>1, <3>1 DEF Extends
      <4>2. g[y].term = P[y].term /\ P[y].term <= EndTerm(P) /\ P[y].term \in Nat
        BY <1>1, <3>1, <4>1, HistoryFacts
      <4> QED
        BY <1>1, <1>3, <4>2
    <3>3. ASSUME NEW z \in p + 1 .. Len(P) PROVE g[z] = P[z]
      <4>1. z \in p + 1 .. Len(g) /\ z \in s.lo .. Hi(s) /\ s.lo < z /\ z <= Len(P)
        BY <1>1, <1>2, <2>1, <2>2, <3>2
      <4> QED
        BY <2>1, <4>1 DEF Extends
    <3>4. ASSUME NEW z \in 1 .. p PROVE g[z] = P[z]
      <4>1. p \in 1 .. Len(a) /\ p \in s.lo .. p /\ p \in s.lo .. Hi(s) /\ p \in 1 .. Len(P)
        BY <1>1, <1>2, <1>6, <2>1, <2>2, <2>4
      <4>2. a[p].term = Tm(s, p)
        BY <2>2, <4>1, LogSegFacts
      <4>3. Tm(s, p) = P[p].term
        BY <1>1, <4>1 DEF Extends
      <4>4. a[z] = P[z]
        BY <1>1, <4>1, <4>2, <4>3, AlikeHistory
      <4> QED
        BY <1>2, <4>4
    <3>5. ASSUME NEW z \in 1 .. Len(P) PROVE g[z] = P[z]
      <4>1. z \in p + 1 .. Len(P) \/ z \in 1 .. p
        BY <1>1, <1>2
      <4> QED
        BY <3>3, <3>4, <4>1
    <3> QED
      BY <1>1, <3>2, <3>5 DEF Has
  <2> QED
    BY <1>1, <1>2, <2>3, <2>4
<1> QED
  BY <1>1, <1>2, <1>5, <1>6

\* A candidate whose request passes the test of a log that has P is as up to
\* date as P.
LEMMA VoteReaches ==
    ASSUME NEW P, History(P), NEW k \in Seq(Entries), Has(k, P), NEW t \in Nat,
           InOrder(LogSeg(k), t), NEW j \in Seq(Entries), NEW m, UpToDate(m, k), Ends(m, j)
    PROVE  Reaches(j, P)
<1>1. /\ Len(P) \in Nat /\ 0 < Len(P) /\ EndTerm(P) \in Nat
      /\ Len(k) \in Nat /\ Len(j) \in Nat /\ Len(P) <= Len(k)
  BY HistoryFacts DEF Has
<1>2. Len(k) \in 1 .. Len(k) /\ EndTerm(P) <= k[Len(k)].term
  BY <1>1, HasOrder
<1>3. m.last_log_idx = Len(j) /\ m.last_log_term = Tm(LogSeg(j), Len(j))
  BY DEF Ends
<1>4. k[Len(k)].term \in Nat
  <2>1. \A e \in Entries : e.term \in Nat
    BY DEF Entries
  <2> QED
    BY <1>2, <2>1
<1>5. \/ k[Len(k)].term < m.last_log_term
      \/ k[Len(k)].term = m.last_log_term /\ Len(k) <= m.last_log_idx
  BY <1>1, <1>2 DEF UpToDate
<1>6. Len(j) # 0
  <2>1. Tm(LogSeg(j), 0) = 0
    BY LogSegFacts
  <2> QED
    BY <1>1, <1>3, <1>4, <1>5, <2>1
<1>7. Len(j) \in 1 .. Len(j) /\ m.last_log_term = j[Len(j)].term
  BY <1>1, <1>3, <1>6, LogSegFacts
<1>8. j[Len(j)].term \in Nat
  <2>1. \A e \in Entries : e.term \in Nat
    BY DEF Entries
  <2> QED
    BY <1>7, <2>1
<1>9. \/ EndTerm(P) < j[Len(j)].term
      \/ j[Len(j)].term = EndTerm(P) /\ Len(P) <= Len(j)
  BY <1>1, <1>2, <1>3, <1>4, <1>5, <1>7, <1>8
<1> QED
  BY <1>7, <1>9 DEF Reaches
-----------------------------------------------------------------------------
(* One call of the library at server i, which becomes b.                   *)

\* The state machine keeps its entries, starts anew, or is given entries of
\* the log.
FsmStep(i, b) ==
    \A y \in 1 .. Len(b.fsm) :
        \/ y <= Len(srv[i].fsm) /\ b.fsm[y] = srv[i].fsm[y]
        \/ b.fsm[y] = b.log[y]

\* A leader commits an entry of its term that a majority has acknowledged, a
\* follower what its leader has committed and sent.
LeaderCommits(i, b) ==
    /\ srv[i].state = "leader" /\ b.state = "leader" /\ b.log = srv[i].log
    /\ b.commit_idx \in 1 .. Len(srv[i].log)
    /\ srv[i].log[b.commit_idx].term = srv[i].current_term
    /\ \E Q \in SUBSET Server :
         Majority(Q) /\ \A k \in Q : k = i \/ b.commit_idx <= b.match_idx[k]

FollowerCommits(i, b) ==
    \E m \in net : /\ IsAppend(m) /\ m.term = b.current_term
                   /\ b.commit_idx <= m.leader_commit
                   /\ Follows(b.log, MsgSeg(m), Hi(MsgSeg(m)))

CommitStep(i, b) ==
    \/ b.commit_idx = 0 \/ b.commit_idx = srv[i].commit_idx
    \/ LeaderCommits(i, b) \/ FollowerCommits(i, b)

NextStep(i, b) ==
    b.state = "leader" => \A k \in Server : k # i => b.next_idx[k] <= Len(b.log) + 1

\* What i sends: requests about its log, votes for a request that passed the
\* test, its commit index with what reaches that far.
Speaks(i, b, m) ==
    /\ IsRequest(m) => /\ b.state = "candidate" /\ m.src = i
                       /\ m.term = b.current_term /\ Ends(m, b.log)
    /\ IsGrant(m) =>
         \E vr \in net : /\ IsRequest(vr) /\ vr.src = m.dst /\ vr.term = m.term
                         /\ UpToDate(vr, b.log)
    /\ IsAppend(m) => m.leader_commit = b.commit_idx /\ m.leader_commit <= Hi(MsgSeg(m))

SafeCall(i, b) ==
    /\ FsmStep(i, b)
    /\ 1 < N => /\ CommitStep(i, b) /\ NextStep(i, b)
                /\ \A m \in b.out : Speaks(i, b, m)

Serves(i, b) ==
    /\ Becomes(i, b) /\ GoodStep(i, b) /\ SafeCall(i, b)
    /\ srv'[i].commit_idx = b.commit_idx /\ srv'[i].fsm = b.fsm
    /\ srv'[i].next_idx = b.next_idx /\ srv'[i].votes = b.votes
-----------------------------------------------------------------------------
(* Terms stay in order.                                                    *)

LEMMA OrderStep ==
    ASSUME ReplicationInv, Ordered, NEW i \in Server, NEW b, Becomes(i, b)
    PROVE  InOrder(LogSeg(b.log), b.current_term) /\ Ordered'
<1> DEFINE a == srv[i].log
           t == srv[i].current_term
           u == b.current_term
<1>1. /\ a \in Seq(Entries) /\ Len(a) \in Nat /\ t \in Nat
      /\ b.log \in Seq(Entries) /\ Len(b.log) \in Nat /\ u \in Nat /\ t <= u
  BY StateTypes, StepTypes
<1>2. LogStep(i, b)
  BY DEF Becomes, RepStep
<1>3. \A y, z \in 1 .. Len(a) : y <= z => a[y].term <= a[z].term /\ a[z].term <= t
  <2>1. InOrder(LogSeg(a), t)
    BY DEF Ordered
  <2> QED
    BY <1>1, <2>1, InOrderLog
<1>4. \A y \in 1 .. Len(a) : a[y].term \in Nat
  <2>1. \A e \in Entries : e.term \in Nat
    BY DEF Entries
  <2> QED
    BY <1>1, <2>1
<1>5. InOrder(LogSeg(a), u)
  <2>1. \A y, z \in 1 .. Len(a) : y <= z => a[y].term <= a[z].term /\ a[z].term <= u
    BY <1>1, <1>3, <1>4
  <2> QED
    BY <1>1, <2>1, InOrderLog
<1>6. InOrder(LogSeg(b.log), u)
  <2>1. CASE b.log = a
    BY <1>5, <2>1
  <2>2. CASE Appends(i, b)
    <3>1. PICK e \in Entries : e.term = t /\ b.log = Append(a, e)
      BY <2>2 DEF Appends
    <3>2. /\ Len(b.log) = Len(a) + 1 /\ b.log[Len(a) + 1] = e
          /\ \A y \in 1 .. Len(a) : b.log[y] = a[y]
      BY <1>1, <3>1
    <3>3. ASSUME NEW y \in 1 .. Len(b.log), NEW z \in 1 .. Len(b.log), y <= z
          PROVE  b.log[y].term <= b.log[z].term /\ b.log[z].term <= u
      <4>1. CASE z \in 1 .. Len(a)
        <5>1. y \in 1 .. Len(a)
          BY <1>1, <3>3, <4>1
        <5>2. b.log[y] = a[y] /\ b.log[z] = a[z] /\ a[z].term \in Nat
          BY <1>4, <3>2, <4>1, <5>1
        <5>3. a[y].term <= a[z].term /\ a[z].term <= t
          BY <1>3, <3>3, <4>1, <5>1
        <5> QED
          BY <1>1, <5>2, <5>3
      <4>2. CASE z = Len(a) + 1 /\ y \in 1 .. Len(a)
        BY <1>1, <1>3, <1>4, <3>1, <3>2, <4>2
      <4>3. CASE z = Len(a) + 1 /\ y = Len(a) + 1
        BY <1>1, <3>1, <3>2, <4>3
      <4> QED
        BY <1>1, <3>2, <3>3, <4>1, <4>2, <4>3
    <3> QED
      BY <1>1, <3>3, InOrderLog
  <2>3. CASE TakesOver(i, b)
    <3>1. PICK m \in net : /\ IsAppend(m) /\ m.term = u
                           /\ \E p : FromSeg(a, MsgSeg(m), b.log, p)
      BY <2>3 DEF TakesOver
    <3>2. Segment(MsgSeg(m)) /\ InOrder(MsgSeg(m), u)
      BY <3>1, StateTypes DEF Ordered
    <3> QED
      BY <1>1, <1>5, <3>1, <3>2, TakeOverOrder
  <2> QED
    BY <1>2, <2>1, <2>2, <2>3 DEF LogStep
<1>7. ASSUME NEW j \in Server PROVE InOrder(LogSeg(srv'[j].log), srv'[j].current_term)
  BY <1>6 DEF Becomes, Ordered
<1>8. ASSUME NEW m \in net', IsAppend(m) PROVE InOrder(MsgSeg(m), m.term)
  <2>1. CASE m \in net
    BY <1>8, <2>1 DEF Ordered
  <2>2. CASE m \in b.out
    <3>1. m.term = u /\ Segment(MsgSeg(m)) /\ Part(MsgSeg(m), LogSeg(b.log))
      BY <1>8, <2>2, StepTypes
    <3> QED
      BY <1>1, <1>6, <3>1, LogSegFacts, PartOrder
  <2> QED
    BY <2>1, <2>2 DEF Becomes
<1> QED
  BY <1>6, <1>7, <1>8 DEF Ordered
-----------------------------------------------------------------------------
(* A step keeps what is safe.                                              *)

LEMMA MajoritiesMeet ==
    ASSUME NEW Q, NEW R, Majority(Q), Majority(R)
    PROVE  \E k \in Server : k \in Q /\ k \in R
<1>1. IsFiniteSet(Server) /\ Cardinality(Server) = N
  BY NAssumption, FS_Interval DEF Server
<1>2. IsFiniteSet(Q) /\ IsFiniteSet(R) /\ Q \subseteq Server /\ R \subseteq Server
  BY <1>1, FS_Subset DEF Majority
<1>3. Cardinality(Q) \in Nat /\ Cardinality(R) \in Nat
  BY <1>2, FS_CardinalityType
<1>4. Cardinality(Q) + Cardinality(R) > Cardinality(Server)
  BY <1>1, <1>3, NAssumption DEF Majority
<1>5. Q \cap R # {}
  BY <1>1, <1>2, <1>4, FS_MajoritiesIntersect
<1> QED
  BY <1>2, <1>5

\* What is known of a history that some server h has.
LEMMA HolderFacts ==
    ASSUME ReplicationInv, Ordered, NEW P, History(P), NEW h \in Server, Has(srv[h].log, P)
    PROVE  /\ EndTerm(P) \in Nat /\ EndTerm(P) <= srv[h].current_term
           /\ \A y \in 1 .. Len(P) : P[y].term <= EndTerm(P)
           /\ \E l \in Server : <<EndTerm(P), l>> \in elected
           /\ \A s \in Segments : Alike(s, LogSeg(P))
<1> DEFINE l == srv[h].log
<1>1. l \in Seq(Entries) /\ Len(l) \in Nat /\ srv[h].current_term \in Nat
  BY StateTypes
<1>2. InOrder(LogSeg(l), srv[h].current_term)
  BY DEF Ordered
<1>3. /\ EndTerm(P) <= srv[h].current_term
      /\ \A y \in 1 .. Len(P) : P[y].term <= EndTerm(P)
  BY <1>1, <1>2, HasOrder
<1>4. Len(P) \in 1 .. Len(l) /\ l[Len(P)].term = EndTerm(P) /\ EndTerm(P) \in Nat
  BY <1>1, HistoryFacts DEF Has, EndTerm
<1>5. LogSeg(l) \in Segments
  BY DEF Segments
<1>6. \E j \in Server : <<EndTerm(P), j>> \in elected
  <2>1. /\ LogSeg(l).lo = 0 /\ Hi(LogSeg(l)) = Len(l)
        /\ Tm(LogSeg(l), Len(P)) = EndTerm(P)
    BY <1>1, <1>4, LogSegFacts
  <2>2. Len(P) \in LogSeg(l).lo + 1 .. Hi(LogSeg(l))
    BY <1>4, <2>1
  <2> QED
    BY <1>5, <2>1, <2>2 DEF ReplicationInv, EntriesFromLeaders
<1>7. ASSUME NEW s \in Segments PROVE Alike(s, LogSeg(P))
  <2>1. Segment(s) /\ Part(LogSeg(P), LogSeg(l)) /\ Segment(LogSeg(P)) /\ Segment(LogSeg(l))
    BY <1>1, StateTypes, HasPart
  <2>2. Alike(LogSeg(l), s)
    BY <1>5 DEF ReplicationInv, Matching
  <2>3. Alike(LogSeg(P), s)
    BY <2>1, <2>2, PartAlike
  <2> QED
    BY <2>1, <2>3, AlikeSym
<1> QED
  BY <1>3, <1>4, <1>6, <1>7

\* A server that has a safe history keeps it.
LEMMA KeepsHistory ==
    ASSUME ReplicationInv, Ordered, NEW i \in Server, NEW b, Becomes(i, b),
           NEW P, History(P), NEW Q, Safe(Q, P), Has(srv[i].log, P)
    PROVE  Has(b.log, P)
<1> DEFINE a == srv[i].log
<1>1. /\ a \in Seq(Entries) /\ Len(a) \in Nat /\ srv[i].current_term \in Nat
      /\ b.log \in Seq(Entries) /\ Len(b.log) \in Nat /\ b.current_term \in Nat
      /\ srv[i].current_term <= b.current_term
  BY StateTypes, StepTypes
<1>2. LogStep(i, b)
  BY DEF Becomes, RepStep
<1>3. EndTerm(P) \in Nat /\ EndTerm(P) <= srv[i].current_term /\ Len(P) \in Nat
  BY HolderFacts, HistoryFacts
<1>4. CASE b.log = a
  BY <1>4
<1>5. CASE Appends(i, b)
  <2>1. PICK e \in Entries : b.log = Append(a, e)
    BY <1>5 DEF Appends
  <2>2. Len(b.log) = Len(a) + 1 /\ \A y \in 1 .. Len(a) : b.log[y] = a[y]
    BY <1>1, <2>1
  <2> QED
    BY <1>1, <1>3, <2>2 DEF Has
<1>6. CASE TakesOver(i, b)
  <2>1. PICK m \in net : /\ IsAppend(m) /\ m.term = b.current_term
                         /\ \E p : FromSeg(a, MsgSeg(m), b.log, p)
    BY <1>6 DEF TakesOver
  <2>2. Segment(MsgSeg(m)) /\ EndTerm(P) <= m.term
    BY <1>1, <1>3, <2>1, StateTypes
  <2>3. Extends(MsgSeg(m), P)
    BY <2>1, <2>2 DEF Safe
  <2> QED
    BY <1>1, <2>1, <2>2, <2>3, TakeOverHas
<1> QED
  BY <1>2, <1>4, <1>5, <1>6 DEF LogStep

\* A vote that can be claimed after the step could be before, or i gives it.
LEMMA ClaimStep ==
    ASSUME NEW i \in Server, NEW b, Serves(i, b),
           NEW k \in Server, NEW j \in Server, NEW t, Claim(k, j, t)'
    PROVE  \/ Claim(k, j, t)
           \/ \E m \in b.out : IsGrant(m) /\ m.src = k /\ m.dst = j /\ m.term = t /\ k = i
<1>1. /\ GoodStep(i, b) /\ \A m \in net' : m \in net \/ m \in b.out
      /\ \A n \in Server : n # i => srv'[n] = srv[n]
      /\ srv'[i].state = b.state /\ srv'[i].current_term = b.current_term
      /\ srv'[i].votes = b.votes
  BY DEF Serves, Becomes
<1>2. CASE Granted(k, j, t)'
  <2>1. PICK m \in net' : IsGrant(m) /\ m.src = k /\ m.dst = j /\ m.term = t
    BY <1>2 DEF Granted
  <2>2. CASE m \in net
    BY <2>1, <2>2 DEF Claim, Granted
  <2>3. CASE m \in b.out
    BY <1>1, <2>1, <2>3 DEF GoodStep, Grants
  <2> QED
    BY <1>1, <2>2, <2>3
<1>3. CASE Counted(k, j, t)'
  <2>1. CASE j # i
    BY <1>1, <1>3, <2>1 DEF Counted, Claim
  <2>2. CASE j = i
    BY <1>1, <1>3, <2>2 DEF Counted, GoodStep
  <2> QED
    BY <2>1, <2>2
<1> QED
  BY <1>2, <1>3 DEF Claim

\* A history that is safe with Q stays so, provided the server that takes the
\* step does not leave EndTerm(P) without it.
LEMMA SafeStep ==
    ASSUME ReplicationInv, Ordered, Asked, 1 < N, NEW i \in Server, NEW b, Serves(i, b),
           NEW P, History(P), NEW Q, Majority(Q), Safe(Q, P),
           NEW h \in Server, Has(srv[h].log, P),
           /\ i \in Q /\ srv[i].current_term <= EndTerm(P) /\ EndTerm(P) < b.current_term
           => Has(srv[i].log, P)
    PROVE  Safe(Q, P)'
<1> DEFINE a == srv[i]
           t == EndTerm(P)
<1>1. Becomes(i, b) /\ GoodStep(i, b) /\ \A m \in b.out : Speaks(i, b, m)
  BY DEF Serves, SafeCall
<1>2. /\ \A j \in Server : j # i => srv'[j] = srv[j]
      /\ srv'[i].state = b.state /\ srv'[i].current_term = b.current_term
      /\ srv'[i].log = b.log /\ \A m \in net' : m \in net \/ m \in b.out
  BY <1>1 DEF Becomes
<1>3. /\ a.log \in Seq(Entries) /\ Len(a.log) \in Nat /\ a.current_term \in Nat
      /\ b.log \in Seq(Entries) /\ Len(b.log) \in Nat /\ b.current_term \in Nat
      /\ a.current_term <= b.current_term
  BY <1>1, StateTypes, StepTypes
<1>4. /\ t \in Nat /\ \A y \in 1 .. Len(P) : P[y].term <= t
      /\ \E l \in Server : <<t, l>> \in elected
      /\ \A s \in Segments : Alike(s, LogSeg(P))
  BY HolderFacts
<1>5. LogStep(i, b) /\ RoleStep(i, b)
  BY <1>1 DEF Becomes, RepStep
<1>6. InOrder(LogSeg(b.log), b.current_term) /\ InOrder(LogSeg(a.log), a.current_term)
  BY <1>1, OrderStep DEF Ordered
<1>7. Q \subseteq Server
  BY DEF Majority
<1>8. /\ \A k \in Q : t < srv[k].current_term => Has(srv[k].log, P)
      /\ \A m \in net : IsAppend(m) /\ t <= m.term => Extends(MsgSeg(m), P)
      /\ \A j \in Server :
          srv[j].state = "leader" /\ t <= srv[j].current_term => Has(srv[j].log, P)
      /\ \A j \in Server : Reaches(srv[j].log, P) => Has(srv[j].log, P)
      /\ \A j \in Server, k \in Q :
          /\ srv[j].state = "candidate" /\ t < srv[j].current_term
          /\ Claim(k, j, srv[j].current_term)
          => Has(srv[j].log, P)
  BY DEF Safe
<1>9. Has(a.log, P) => Has(b.log, P)
  BY <1>1, KeepsHistory
<1> HIDE DEF t, a
\* Whoever of Q has left the term has P.
<1>10. ASSUME NEW k \in Q, t < srv'[k].current_term PROVE Has(srv'[k].log, P)
  <2>1. CASE k # i
    BY <1>2, <1>7, <1>8, <1>10, <2>1
  <2>2. CASE k = i
    <3>1. t < b.current_term
      BY <1>2, <1>10, <2>2
    <3>2. CASE t < a.current_term
      BY <1>2, <1>8, <1>9, <2>2, <3>2 DEF a
    <3>3. CASE a.current_term <= t
      BY <1>2, <1>9, <2>2, <3>1, <3>3 DEF a, t
    <3> QED
      BY <1>3, <1>4, <3>2, <3>3
  <2> QED
    BY <2>1, <2>2
\* Leaders have P.
<1>11. ASSUME b.state = "leader", t <= b.current_term PROVE Has(b.log, P)
  <2>1. a.current_term = b.current_term
    BY <1>5, <1>11 DEF RoleStep, a
  <2>2. CASE a.state = "leader"
    BY <1>8, <1>9, <1>11, <2>1, <2>2 DEF a
  <2>3. CASE a.state # "leader"
    <3>1. a.state = "candidate"
      BY <1>5, <1>11, <2>3 DEF RoleStep, a
    <3>2. t < b.current_term
      <4>1. \A l \in Server : <<b.current_term, l>> \notin elected
        BY <1>1, <1>11, <2>3, NewLeader DEF a
      <4>2. t # b.current_term
        BY <1>4, <4>1
      <4> QED
        BY <1>3, <1>4, <1>11, <4>2
    <3>3. Wins(i, b)
      BY <1>1, <1>11, <2>3 DEF GoodStep, a
    <3>4. PICK V \in SUBSET Server :
             /\ \A j \in V : Claim(j, i, b.current_term)
             /\ N < 2 * Cardinality((V \ {i}) \cup (IF b.voted_for = i THEN {i} ELSE {}))
      BY <3>3 DEF Wins
    <3>5. PICK W : W = (V \ {i}) \cup (IF b.voted_for = i THEN {i} ELSE {})
      OBVIOUS
    <3>6. Majority(W)
      BY <3>4, <3>5 DEF Majority
    <3>7. PICK k \in Server : k \in W /\ k \in Q
      BY <3>6, MajoritiesMeet
    <3>8. CASE k = i
      BY <1>8, <1>9, <2>1, <3>2, <3>7, <3>8 DEF a
    <3>9. CASE k # i
      <4>1. k \in V
        BY <3>5, <3>7, <3>9
      <4>2. Claim(k, i, srv[i].current_term)
        BY <2>1, <3>4, <4>1 DEF a
      <4> QED
        BY <1>8, <1>9, <2>1, <3>1, <3>2, <3>7, <4>2 DEF a
    <3> QED
      BY <3>8, <3>9
  <2> QED
    BY <2>2, <2>3
<1>12. ASSUME NEW j \in Server, srv'[j].state = "leader", t <= srv'[j].current_term
       PROVE  Has(srv'[j].log, P)
  <2>1. CASE j = i
    BY <1>2, <1>11, <1>12, <2>1
  <2>2. CASE j # i
    BY <1>2, <1>8, <1>12, <2>2
  <2> QED
    BY <2>1, <2>2
\* What is sent extends P.
<1>13. ASSUME NEW m \in net', IsAppend(m), t <= m.term PROVE Extends(MsgSeg(m), P)
  <2>1. CASE m \in net
    BY <1>8, <1>13, <2>1
  <2>2. CASE m \in b.out
    <3>1. /\ b.state = "leader" /\ m.term = b.current_term
          /\ Segment(MsgSeg(m)) /\ Part(MsgSeg(m), LogSeg(b.log))
      BY <1>1, <1>13, <2>2, StepTypes
    <3>2. Has(b.log, P)
      BY <1>11, <1>13, <3>1
    <3> QED
      BY <1>3, <1>6, <3>1, <3>2, PartExtends
  <2> QED
    BY <1>2, <2>1, <2>2
\* A log that is as up to date has P.
<1>14. ASSUME Reaches(b.log, P) PROVE Has(b.log, P)
  <2>1. Reaches(a.log, P) => Has(a.log, P)
    BY <1>8 DEF a
  <2>2. CASE b.log = a.log
    BY <1>14, <2>1, <2>2
  <2>3. CASE Appends(i, b)
    <3>1. PICK e \in Entries : e.term = a.current_term /\ b.log = Append(a.log, e)
      BY <2>3 DEF Appends, a
    <3>2. /\ Len(b.log) = Len(a.log) + 1 /\ b.log[Len(a.log) + 1] = e
          /\ \A y \in 1 .. Len(a.log) : b.log[y] = a.log[y]
      BY <1>3, <3>1
    <3>3. PICK y \in 1 .. Len(b.log) :
            t < b.log[y].term \/ (b.log[y].term = t /\ Len(P) <= y)
      BY <1>14 DEF Reaches, t
    <3>4. CASE y \in 1 .. Len(a.log)
      <4>1. Reaches(a.log, P)
        BY <3>2, <3>3, <3>4 DEF Reaches, t
      <4> QED
        BY <1>9, <2>1, <4>1
    <3>5. CASE y = Len(a.log) + 1
      <4>1. b.state = "leader" /\ a.current_term = b.current_term
        BY <1>5, <2>3 DEF Appends, RoleStep, a
      <4>2. t <= b.current_term
        BY <1>3, <1>4, <3>1, <3>2, <3>3, <3>5, <4>1
      <4> QED
        BY <1>11, <4>1, <4>2
    <3> QED
      BY <1>3, <3>2, <3>4, <3>5
  <2>4. CASE TakesOver(i, b)
    <3>1. PICK m \in net : /\ IsAppend(m) /\ m.term = b.current_term
                           /\ \E p : FromSeg(a.log, MsgSeg(m), b.log, p)
      BY <2>4 DEF TakesOver, a
    <3>2. Segment(MsgSeg(m))
      BY <3>1, StateTypes
    <3>3. PICK y \in 1 .. Len(b.log) :
            t < b.log[y].term \/ (b.log[y].term = t /\ Len(P) <= y)
      BY <1>14 DEF Reaches, t
    <3>4. b.log[y].term <= b.current_term /\ b.log[y].term \in Nat
      <4>1. \A e \in Entries : e.term \in Nat
        BY DEF Entries
      <4> QED
        BY <1>3, <1>6, <4>1, InOrderLog
    <3>5. Extends(MsgSeg(m), P)
      BY <1>3, <1>4, <1>8, <3>1, <3>3, <3>4
    <3>6. Alike(LogSeg(a.log), LogSeg(P))
      <4>1. LogSeg(a.log) \in Segments
        BY DEF Segments, a
      <4> QED
        BY <1>4, <4>1
    <3> QED
      BY <1>3, <1>4, <1>14, <2>1, <3>1, <3>2, <3>5, <3>6, TakeOverReaches DEF t
  <2> QED
    BY <1>5, <2>2, <2>3, <2>4 DEF LogStep, a
<1>15. ASSUME NEW j \in Server, Reaches(srv'[j].log, P) PROVE Has(srv'[j].log, P)
  <2>1. CASE j = i
    BY <1>2, <1>14, <1>15, <2>1
  <2>2. CASE j # i
    BY <1>2, <1>8, <1>15, <2>2
  <2> QED
    BY <2>1, <2>2
\* A candidate with a vote of Q has P.
<1>16. ASSUME NEW j \in Server, NEW k \in Q, srv'[j].state = "candidate",
              t < srv'[j].current_term, Claim(k, j, srv[j].current_term)'
       PROVE  Has(srv'[j].log, P)
  <2> DEFINE u == srv'[j].current_term
  <2>1. PICK v : v = u
    OBVIOUS
  <2>2. Claim(k, j, v)'
    <3>1. v = srv'[j].current_term
      BY <2>1
    <3> QED
      BY <1>16, <3>1 DEF Claim, Granted, Counted
  <2>3. \/ Claim(k, j, v)
        \/ \E m \in b.out : IsGrant(m) /\ m.src = k /\ m.dst = j /\ m.term = v /\ k = i
    BY <1>7, <2>2, ClaimStep
  <2>4. t < v /\ v \in Nat
    BY <1>2, <1>3, <1>16, <2>1, StateTypes
  <2>5. CASE j # i /\ Claim(k, j, v)
    <3>1. srv'[j] = srv[j]
      BY <1>2, <2>5
    <3> QED
      BY <1>8, <1>16, <2>1, <2>5, <3>1
  <2>6. CASE j = i /\ Claim(k, j, v)
    <3>1. b.state = "candidate" /\ v = b.current_term
      BY <1>2, <1>16, <2>1, <2>6
    <3>2. v <= a.current_term
      <4>1. CASE Granted(k, j, v)
        <5>1. PICK m \in net : IsGrant(m) /\ m.dst = j /\ m.term = v
          BY <4>1 DEF Granted
        <5> QED
          BY <2>6, <5>1 DEF Asked, a
      <4>2. CASE Counted(k, j, v)
        BY <2>4, <2>6, <4>2 DEF Counted, a
      <4> QED
        BY <2>6, <4>1, <4>2 DEF Claim
    <3>3. a.current_term = v /\ a.state = "candidate"
      <4>1. a.current_term = v
        BY <1>3, <3>1, <3>2
      <4> QED
        BY <1>3, <1>5, <3>1, <4>1 DEF RoleStep, a
    <3>4. Has(a.log, P)
      BY <1>8, <2>4, <2>6, <3>3 DEF a
    <3> QED
      BY <1>2, <1>9, <2>6, <3>4
  <2>7. ASSUME NEW m \in b.out, IsGrant(m), m.src = k, m.dst = j, m.term = v, k = i
        PROVE  Has(srv'[j].log, P)
    <3>1. v = b.current_term
      BY <1>1, <2>7 DEF GoodStep, Grants
    <3>2. Has(b.log, P)
      BY <1>2, <1>10, <2>4, <2>7, <3>1
    <3>3. CASE j = i
      BY <1>2, <3>2, <3>3
    <3>4. CASE j # i
      <4>1. PICK vr \in net : /\ IsRequest(vr) /\ vr.src = j /\ vr.term = v
                              /\ UpToDate(vr, b.log)
        BY <1>1, <2>7 DEF Speaks
      <4>2. srv'[j] = srv[j] /\ srv[j].log \in Seq(Entries)
        BY <1>2, <3>4, StateTypes
      <4>3. Ends(vr, srv[j].log)
        BY <1>16, <2>1, <4>1, <4>2 DEF Asked
      <4>4. Reaches(srv[j].log, P)
        BY <1>3, <1>6, <3>2, <4>1, <4>2, <4>3, VoteReaches
      <4> QED
        BY <1>8, <4>2, <4>4
    <3> QED
      BY <3>3, <3>4
  <2> QED
    BY <2>3, <2>5, <2>6, <2>7
<1> QED
  BY <1>10, <1>12, <1>13, <1>15, <1>16 DEF Safe, t
-----------------------------------------------------------------------------
(* A leader's entries.                                                     *)

\* No leader has been elected in a term that a majority has not reached.
LEMMA NotElected ==
    ASSUME ReplicationInv, 1 < N, NEW Q, Majority(Q), NEW t \in Nat,
           \A k \in Q : srv[k].current_term <= t, NEW u \in Nat, NEW l \in Server,
           <<u, l>> \in elected
    PROVE  u <= t
<1> SUFFICES ASSUME t < u PROVE FALSE
  OBVIOUS
<1>1. PICK R \in SUBSET Server : N < 2 * Cardinality(R) /\ \A j \in R : Gave(j, l, u)
  BY DEF ReplicationInv, ElectionInv, LeadersBacked, Backed
<1>2. PICK k \in Server : k \in Q /\ k \in R
  BY <1>1, MajoritiesMeet DEF Majority
<1>3. srv[k].current_term \in Nat /\ srv[k].current_term <= t
  BY <1>2, StateTypes
<1> QED
  BY <1>1, <1>2, <1>3 DEF Gave

\* What a leader has just appended is safe with every majority that has not
\* left its term.
FreshEntries ==
    \A i \in Server : srv[i].state = "leader" =>
        \A P, Q :
            /\ P = srv[i].log /\ 0 < Len(P) /\ EndTerm(P) = srv[i].current_term
            /\ Majority(Q) /\ \A k \in Q : srv[k].current_term <= srv[i].current_term
            => Safe(Q, P)

LEMMA FreshSafe ==
    ReplicationInv /\ Ordered /\ 1 < N => FreshEntries
<1> SUFFICES ASSUME ReplicationInv, Ordered, 1 < N, NEW i \in Server, NEW Q,
                    srv[i].state = "leader", 0 < Len(srv[i].log),
                    EndTerm(srv[i].log) = srv[i].current_term,
                    Majority(Q), \A k \in Q : srv[k].current_term <= srv[i].current_term
             PROVE  Safe(Q, srv[i].log)
  BY DEF FreshEntries
<1> DEFINE P == srv[i].log
           t == srv[i].current_term
<1>1. P \in Seq(Entries) /\ Len(P) \in Nat /\ t \in Nat /\ History(P) /\ EndTerm(P) = t
  BY StateTypes DEF History
<1>2. InOrder(LogSeg(P), t) /\ Has(P, P)
  BY <1>1 DEF Ordered, Has
<1>3. \A u \in Nat, l \in Server : <<u, l>> \in elected => u <= t
  BY <1>1, NotElected
<1>4. <<t, i>> \in elected /\ Elected /\ EntriesFromLeaders /\ Matching /\ AppendsFromLog
  BY DEF ReplicationInv, Elected
<1>5. \A k \in Q : srv[k].current_term <= t /\ srv[k].current_term \in Nat /\ k \in Server
  BY StateTypes DEF Majority
<1> HIDE DEF P, t
<1>6. \A k \in Q : ~(t < srv[k].current_term)
  BY <1>1, <1>5
<1>7. ASSUME NEW m \in net, IsAppend(m), t <= m.term PROVE Extends(MsgSeg(m), P)
  <2>1. m.term \in Nat /\ m.src \in Server /\ Segment(MsgSeg(m))
    BY <1>7, StateTypes
  <2>2. <<m.term, m.src>> \in elected
    BY <1>4, <1>7 DEF Elected
  <2>3. m.term = t
    BY <1>1, <1>3, <1>7, <2>1, <2>2
  <2>4. Part(MsgSeg(m), LogSeg(P))
    BY <1>4, <1>7, <2>3 DEF AppendsFromLog, P, t
  <2> QED
    BY <1>1, <1>2, <2>1, <2>4, PartExtends
<1>8. ASSUME NEW j \in Server, srv[j].state = "leader", t <= srv[j].current_term
      PROVE  Has(srv[j].log, P)
  <2>1. <<srv[j].current_term, j>> \in elected /\ srv[j].current_term \in Nat
    BY <1>4, <1>8, StateTypes DEF Elected
  <2>2. srv[j].current_term = t
    BY <1>1, <1>3, <1>8, <2>1
  <2>3. j = i
    BY <1>4, <2>1, <2>2 DEF ReplicationInv, ElectionInv, ElectionSafety
  <2> QED
    BY <1>2, <2>3 DEF P
<1>9. ASSUME NEW j \in Server, Reaches(srv[j].log, P) PROVE Has(srv[j].log, P)
  <2> DEFINE l == srv[j].log
  <2>1. l \in Seq(Entries) /\ Len(l) \in Nat /\ LogSeg(l) \in Segments
        /\ LogSeg(P) \in Segments
    BY StateTypes DEF Segments, P
  <2>2. PICK y \in 1 .. Len(l) : t < l[y].term \/ (l[y].term = t /\ Len(P) <= y)
    BY <1>1, <1>9 DEF Reaches
  <2>3. /\ LogSeg(l).lo = 0 /\ Hi(LogSeg(l)) = Len(l) /\ Tm(LogSeg(l), y) = l[y].term
    BY <2>1, LogSegFacts
  <2>4. y \in LogSeg(l).lo + 1 .. Hi(LogSeg(l))
    BY <2>3
  <2>5. /\ \E q \in Server : <<l[y].term, q>> \in elected
        /\ t = l[y].term => y <= Len(P)
    BY <1>4, <2>1, <2>3, <2>4 DEF EntriesFromLeaders, P, t
  <2>6. l[y].term \in Nat
    <3>1. \A e \in Entries : e.term \in Nat
      BY DEF Entries
    <3> QED
      BY <2>1, <3>1
  <2>7. l[y].term = t /\ y = Len(P)
    BY <1>1, <1>3, <2>1, <2>2, <2>5, <2>6
  <2>8. Alike(LogSeg(l), LogSeg(P))
    BY <1>4, <2>1 DEF Matching
  <2>9. P[y].term = t
    BY <1>1, <2>7 DEF EndTerm
  <2>10. y <= Len(P) /\ l[y].term = P[y].term
    BY <1>1, <2>7, <2>9
  <2> HIDE DEF l
  <2>11. \A z \in 1 .. y : l[z] = P[z]
    BY <1>1, <2>1, <2>8, <2>10, AlikeHistory
  <2>12. Has(l, P)
    BY <2>1, <2>7, <2>11 DEF Has
  <2> QED
    BY <2>12 DEF l
<1>10. ASSUME NEW j \in Server, NEW k \in Q, t < srv[j].current_term,
              Claim(k, j, srv[j].current_term)
       PROVE  FALSE
  <2>1. srv[j].current_term \in Nat
    BY StateTypes
  <2>2. Gave(k, j, srv[j].current_term)
    BY <1>5, <1>10, <2>1 DEF ReplicationInv, ElectionInv, ClaimsGiven
  <2> QED
    BY <1>1, <1>5, <1>10, <2>1, <2>2 DEF Gave
<1>11. Safe(Q, P)
  BY <1>1, <1>6, <1>7, <1>8, <1>9, <1>10 DEF Safe
<1> QED
  BY <1>11 DEF P

\* What a leader hears after the step it heard before, or i has just confirmed
\* it in the leader's term, and then not more than the leader has.
LEMMA HeardStep ==
    ASSUME ReplicationInv, NEW i \in Server, NEW b, Becomes(i, b),
           NEW j \in Server, NEW k \in Server, NEW x \in Nat \ {0},
           srv[j].state = "leader", srv'[j].state = "leader", Heard(j, k, x)'
    PROVE  \/ Heard(j, k, x)
           \/ /\ k = i /\ b.current_term = srv[j].current_term /\ x <= Len(srv[j].log)
<1>1. /\ \A n \in Server : n # i => srv'[n] = srv[n]
      /\ srv'[i].state = b.state /\ srv'[i].current_term = b.current_term
      /\ srv'[i].match_idx = b.match_idx /\ \A m \in net' : m \in net \/ m \in b.out
      /\ MatchStep(i, b) /\ RoleStep(i, b)
  BY DEF Becomes, RepStep
<1>2. srv'[j].current_term = srv[j].current_term
  BY <1>1 DEF RoleStep
<1>3. CASE x <= srv'[j].match_idx[k]
  <2>1. CASE j # i
    BY <1>1, <1>3, <2>1 DEF Heard
  <2>2. CASE j = i
    <3>1. x <= b.match_idx[k] /\ b.state = "leader"
      BY <1>1, <1>3, <2>2
    <3>2. CASE b.match_idx[k] = 0
      BY <3>1, <3>2
    <3>3. CASE b.match_idx[k] = srv[i].match_idx[k]
      BY <2>2, <3>1, <3>3 DEF Heard
    <3>4. CASE \E m \in net : /\ IsSuccess(m) /\ m.src = k /\ m.dst = i
                              /\ m.term = srv[i].current_term
                              /\ m.current_idx = b.match_idx[k]
      BY <2>2, <3>1, <3>4 DEF Heard
    <3> QED
      BY <1>1, <3>1, <3>2, <3>3, <3>4 DEF MatchStep
  <2> QED
    BY <2>1, <2>2
<1>4. ASSUME NEW m \in net', IsSuccess(m), m.src = k, m.dst = j,
             m.term = srv'[j].current_term, x <= m.current_idx
      PROVE  \/ Heard(j, k, x)
             \/ k = i /\ b.current_term = srv[j].current_term /\ x <= Len(srv[j].log)
  <2>1. CASE m \in net
    BY <1>2, <1>4, <2>1 DEF Heard
  <2>2. CASE m \in b.out
    <3>1. Confirms(i, b, m) /\ m.src = i /\ m.term = b.current_term /\ m.current_idx \in Nat
      BY <1>4, <2>2, StepTypes DEF IsSuccess, ResponseTyped
    <3>2. PICK ae \in net : /\ IsAppend(ae) /\ ae.term = b.current_term
                            /\ Follows(b.log, MsgSeg(ae), m.current_idx)
      BY <3>1 DEF Confirms
    <3>3. Part(MsgSeg(ae), LogSeg(srv[j].log)) /\ Segment(MsgSeg(ae))
      BY <1>2, <1>4, <3>1, <3>2, StateTypes DEF ReplicationInv, AppendsFromLog
    <3>4. m.current_idx <= Hi(MsgSeg(ae)) /\ Hi(MsgSeg(ae)) <= Hi(LogSeg(srv[j].log))
      BY <3>2, <3>3 DEF Follows, Part
    <3>5. /\ Hi(LogSeg(srv[j].log)) = Len(srv[j].log) /\ Hi(MsgSeg(ae)) \in Nat
          /\ Len(srv[j].log) \in Nat
      BY <3>3, StateTypes, LogSegFacts, SegmentFacts
    <3>6. x <= Len(srv[j].log)
      BY <1>4, <3>1, <3>4, <3>5
    <3> QED
      BY <1>2, <1>4, <3>1, <3>6
  <2> QED
    BY <1>1, <2>1, <2>2
<1> QED
  BY <1>3, <1>4 DEF Heard

\* A new leader has heard nothing.
LEMMA NothingHeard ==
    ASSUME ReplicationInv, 1 < N, NEW i \in Server, NEW b, Becomes(i, b),
           b.state = "leader", srv[i].state # "leader", NEW k \in Server,
           NEW x \in Nat \ {0}
    PROVE  ~Heard(i, k, x)'
<1>1. /\ srv'[i].current_term = b.current_term /\ srv'[i].match_idx = b.match_idx
      /\ \A m \in net' : m \in net \/ m \in b.out
      /\ MatchStep(i, b)
  BY DEF Becomes, RepStep
<1>2. \A l \in Server : <<b.current_term, l>> \notin elected
  BY NewLeader
<1>3. ~(x <= srv'[i].match_idx[k])
  BY <1>1 DEF MatchStep
<1>4. ASSUME NEW m \in net', IsSuccess(m), m.dst = i, m.term = b.current_term
      PROVE  FALSE
  <2>1. CASE m \in net
    BY <1>2, <1>4, <2>1 DEF ReplicationInv, Elected
  <2>2. CASE m \in b.out
    BY <1>4, <2>2, StepTypes DEF Confirms
  <2> QED
    BY <1>1, <2>1, <2>2
<1> QED
  BY <1>1, <1>3, <1>4 DEF Heard

LEMMA HeardMore ==
    ASSUME NEW i, NEW k, NEW x \in Nat, NEW z \in Nat, x <= z,
           srv[i].match_idx[k] \in Nat,
           \A m \in net : IsSuccess(m) => m.current_idx \in Nat, Heard(i, k, z)
    PROVE  Heard(i, k, x)
BY DEF Heard

LEMMA HeardWithinStep ==
    ASSUME ReplicationInv, HeardWithin, 1 < N, NEW i \in Server, NEW b, Becomes(i, b)
    PROVE  HeardWithin'
<1> SUFFICES ASSUME NEW j \in Server, NEW k \in Server, srv'[j].state = "leader",
                    Heard(j, k, Len(srv[j].log) + 1)'
             PROVE  FALSE
  BY DEF HeardWithin
<1>1. /\ \A n \in Server : n # i => srv'[n] = srv[n]
      /\ srv'[i].state = b.state /\ srv'[i].log = b.log
  BY DEF Becomes
<1>2. PICK z : z = Len(srv'[j].log) + 1
  OBVIOUS
<1>3. Heard(j, k, z)'
  BY <1>2 DEF Heard
<1>4. Len(srv'[j].log) \in Nat /\ Len(srv[j].log) \in Nat
  BY <1>1, StateTypes, StepTypes
<1>5. z \in Nat \ {0}
  BY <1>2, <1>4
<1>6. CASE srv[j].state # "leader"
  <2>1. j = i /\ b.state = "leader"
    BY <1>1, <1>6
  <2> QED
    BY <1>3, <1>5, <1>6, <2>1, NothingHeard
<1>7. CASE srv[j].state = "leader"
  <2>1. Len(srv[j].log) <= Len(srv'[j].log)
    BY <1>1, <1>4, LeaderLog
  <2>2. \/ Heard(j, k, z)
        \/ z <= Len(srv[j].log)
    BY <1>3, <1>5, <1>7, HeardStep
  <2>3. ~(z <= Len(srv[j].log))
    BY <1>2, <1>4, <2>1
  <2>4. Len(srv[j].log) + 1 <= z /\ Len(srv[j].log) + 1 \in Nat
    BY <1>2, <1>4, <2>1
  <2>5. /\ srv[j].match_idx[k] \in Nat
        /\ \A m \in net : IsSuccess(m) => m.current_idx \in Nat
    BY StateTypes DEF Typed, IsSuccess
  <2>6. Heard(j, k, Len(srv[j].log) + 1)
    BY <1>5, <2>2, <2>3, <2>4, <2>5, HeardMore
  <2> QED
    BY <1>7, <2>6 DEF HeardWithin
<1> QED
  BY <1>6, <1>7

LEMMA HeardAcked ==
    ASSUME ReplicationInv, NEW j \in Server, NEW k \in Server, srv[j].state = "leader",
           NEW x \in Nat, Heard(j, k, x)
    PROVE  \E z \in Nat : x <= z /\ Acked(j, k, z)
<1>1. Acknowledged /\ srv[j].match_idx[k] \in Nat
  BY StateTypes DEF ReplicationInv, Typed
<1>2. CASE x <= srv[j].match_idx[k]
  BY <1>1, <1>2 DEF Acknowledged
<1>3. ASSUME NEW m \in net, IsSuccess(m), m.src = k, m.dst = j,
             m.term = srv[j].current_term, x <= m.current_idx
      PROVE  Acked(j, k, m.current_idx) /\ m.current_idx \in Nat
  BY <1>1, <1>3, StateTypes DEF Acknowledged, IsSuccess
<1> QED
  BY <1>2, <1>3 DEF Heard

LEMMA SameUpToHas ==
    ASSUME NEW a, NEW l, NEW z \in Nat, SameUpTo(a, l, z), Len(a) \in Nat,
           NEW P, History(P), Has(l, P), Len(P) <= z
    PROVE  Has(a, P)
BY HistoryFacts DEF SameUpTo, Has

LEMMA OfficeStep ==
    ASSUME ReplicationInv, Ordered, Asked, HeardWithin, Office, 1 < N,
           NEW i \in Server, NEW b, Serves(i, b)
    PROVE  Office'
<1> SUFFICES ASSUME NEW j \in Server, srv'[j].state = "leader", NEW P, NEW Q, History(P),
                    Has(srv'[j].log, P), EndTerm(P) = srv'[j].current_term, Majority(Q),
                    \A k \in Q : \/ srv'[k].current_term <= srv'[j].current_term
                                 \/ Heard(j, k, Len(P))'
             PROVE  Safe(Q, P)'
  BY DEF Office
<1> DEFINE x == Len(P)
<1>1. Becomes(i, b)
  BY DEF Serves
<1>2. /\ \A n \in Server : n # i => srv'[n] = srv[n]
      /\ srv'[i].state = b.state /\ srv'[i].log = b.log
      /\ srv'[i].current_term = b.current_term /\ RoleStep(i, b)
  BY <1>1 DEF Becomes, RepStep
<1>3. /\ srv[j].log \in Seq(Entries) /\ Len(srv[j].log) \in Nat
      /\ srv'[j].log \in Seq(Entries) /\ Len(srv'[j].log) \in Nat
      /\ srv[j].current_term \in Nat
      /\ srv[i].current_term \in Nat /\ b.current_term \in Nat
      /\ srv[i].current_term <= b.current_term
  BY <1>1, <1>2, StateTypes, StepTypes
<1>4. /\ x \in Nat \ {0} /\ x <= Len(srv'[j].log) /\ P[x].term = srv'[j].current_term
      /\ \A y \in 1 .. x : srv'[j].log[y] = P[y]
  BY HistoryFacts DEF Has, EndTerm
<1>10. Q \subseteq Server
  BY DEF Majority
<1> HIDE DEF x
\* A new leader has no entry of its term.
<1>5. CASE srv[j].state # "leader"
  <2>1. j = i /\ b.state = "leader"
    BY <1>2, <1>5
  <2>2. b.log = srv[j].log /\ \A l \in Server : <<b.current_term, l>> \notin elected
    BY <1>1, <1>5, <2>1, LeaderLog, NewLeader
  <2>3. x \in 1 .. Len(srv[j].log) /\ srv[j].log[x].term = b.current_term
    BY <1>2, <1>3, <1>4, <2>1, <2>2
  <2>4. LogSeg(srv[j].log) \in Segments
    BY DEF Segments
  <2>5. \E l \in Server : <<b.current_term, l>> \in elected
    <3>1. /\ LogSeg(srv[j].log).lo = 0 /\ Hi(LogSeg(srv[j].log)) = Len(srv[j].log)
          /\ Tm(LogSeg(srv[j].log), x) = b.current_term
      BY <1>3, <2>3, LogSegFacts
    <3>2. x \in LogSeg(srv[j].log).lo + 1 .. Hi(LogSeg(srv[j].log))
      BY <2>3, <3>1
    <3> QED
      BY <2>4, <3>1, <3>2 DEF ReplicationInv, EntriesFromLeaders
  <2> QED
    BY <2>2, <2>5
<1>6. CASE srv[j].state = "leader"
  <2>1. srv'[j].current_term = srv[j].current_term
    BY <1>2 DEF RoleStep
  <2>2. /\ Len(srv[j].log) <= Len(srv'[j].log)
        /\ \A y \in 1 .. Len(srv[j].log) : srv'[j].log[y] = srv[j].log[y]
    BY <1>1, <1>2, <1>3, LeaderLog
\* A history it had.
  <2>3. CASE x <= Len(srv[j].log)
    <3>1. Has(srv[j].log, P) /\ EndTerm(P) = srv[j].current_term
      <4>1. \A y \in 1 .. x : srv[j].log[y] = P[y]
        BY <1>3, <1>4, <2>2, <2>3
      <4> QED
        BY <2>1, <2>3, <4>1 DEF Has, x
    <3>5. ASSUME NEW k \in Q
          PROVE  srv[k].current_term <= srv[j].current_term \/ Heard(j, k, x)
      <4>1. CASE srv'[k].current_term <= srv'[j].current_term
        <5>1. CASE k = i
          BY <1>2, <1>3, <2>1, <4>1, <5>1
        <5>2. CASE k # i
          BY <1>2, <1>10, <2>1, <4>1, <5>2
        <5> QED
          BY <5>1, <5>2
      <4>2. CASE Heard(j, k, x)'
        <5>1. \/ Heard(j, k, x)
              \/ k = i /\ b.current_term = srv[j].current_term
          BY <1>1, <1>4, <1>6, <1>10, <4>2, HeardStep
        <5> QED
          BY <1>3, <5>1
      <4> QED
        BY <4>1, <4>2 DEF x
    <3>6. Safe(Q, P)
      BY <1>6, <3>1, <3>5 DEF Office, x
    <3>7. ASSUME i \in Q, srv[i].current_term <= EndTerm(P), EndTerm(P) < b.current_term
          PROVE  Has(srv[i].log, P)
      <4>1. ~(srv'[i].current_term <= srv'[j].current_term)
        BY <1>2, <1>3, <2>1, <3>1, <3>7
      <4>2. Heard(j, i, x)'
        BY <3>7, <4>1 DEF x
      <4>3. Heard(j, i, x)
        <5>1. b.current_term # srv[j].current_term
          BY <1>3, <3>1, <3>7
        <5> QED
          BY <1>1, <1>4, <1>6, <4>2, <5>1, HeardStep
      <4>4. PICK z \in Nat : x <= z /\ Acked(j, i, z)
        <5>1. x \in Nat
          BY <1>4
        <5> QED
          BY <1>6, <4>3, <5>1, HeardAcked
      <4>5. SameUpTo(srv[i].log, srv[j].log, z)
        BY <1>3, <1>4, <3>1, <3>7, <4>4 DEF Acked
      <4>6. Len(P) <= z /\ Len(srv[i].log) \in Nat
        BY <4>4, StateTypes DEF x
      <4> QED
        BY <3>1, <4>5, <4>6, SameUpToHas
    <3> QED
      BY <3>1, <3>6, <3>7, SafeStep
\* A history that ends with the entry it has just appended.
  <2>4. CASE Len(srv[j].log) < x
    <3>1. j = i /\ b.state = "leader" /\ x = Len(srv'[j].log) /\ x = Len(srv[j].log) + 1
      <4>1. j = i
        BY <1>2, <1>3, <1>4, <2>4
      <4>2. LogStep(i, b) /\ b.state = "leader"
        BY <1>1, <1>2, <4>1 DEF Becomes, RepStep
      <4>3. \E e \in Entries : b.log = Append(srv[i].log, e)
        BY <1>2, <1>3, <1>4, <2>4, <4>1, <4>2 DEF LogStep, Appends, TakesOver
      <4>4. Len(b.log) = Len(srv[i].log) + 1
        BY <1>3, <4>1, <4>3
      <4> QED
        BY <1>2, <1>3, <1>4, <2>4, <4>1, <4>2, <4>4
    <3>2. ASSUME NEW k \in Q PROVE ~Heard(j, k, x)'
      <4> SUFFICES ASSUME Heard(j, k, x)' PROVE FALSE
        OBVIOUS
      <4>1. Heard(j, k, x)
        BY <1>1, <1>3, <1>4, <1>6, <1>10, <2>4, HeardStep
      <4> QED
        BY <1>6, <1>10, <3>1, <4>1 DEF HeardWithin
    <3>3. \A k \in Q : srv'[k].current_term <= srv'[j].current_term
      BY <3>2 DEF x
    <3>4. ReplicationInv' /\ Ordered'
      BY <1>1, BecomesInv, OrderStep
    <3>5. FreshEntries'
      BY <3>4, FreshSafe, PTL
    <3>6. P = srv'[j].log
      BY <1>3, <1>4, <3>1, SeqEqual DEF x, History
    <3> QED
      BY <1>4, <3>3, <3>5, <3>6 DEF FreshEntries, x
  <2> QED
    BY <1>3, <1>4, <2>3, <2>4
<1> QED
  BY <1>5, <1>6
-----------------------------------------------------------------------------
(* Requests, what is sent and what is applied.                             *)

LEMMA AskedStep ==
    ASSUME ReplicationInv, Asked, 1 < N, NEW i \in Server, NEW b, Serves(i, b)
    PROVE  Asked'
<1>1. /\ Becomes(i, b) /\ \A m \in b.out : Speaks(i, b, m)
  BY DEF Serves, SafeCall
<1>2. /\ \A j \in Server : j # i => srv'[j] = srv[j]
      /\ srv'[i].state = b.state /\ srv'[i].current_term = b.current_term
      /\ srv'[i].log = b.log /\ \A m \in net' : m \in net \/ m \in b.out
      /\ RoleStep(i, b) /\ LogStep(i, b)
  BY <1>1 DEF Becomes, RepStep
<1>3. /\ \A j \in Server : srv[j].current_term \in Nat
      /\ \A m \in net : m.src \in Server /\ m.dst \in Server /\ m.term \in Nat
      /\ b.current_term \in Nat /\ srv[i].current_term <= b.current_term
  BY <1>1, StateTypes, StepTypes
<1>4. \A j \in Server : srv[j].current_term <= srv'[j].current_term
                        /\ srv'[j].current_term \in Nat
  BY <1>2, <1>3
<1>5. ASSUME NEW m \in net, IsRequest(m)
      PROVE  /\ m.term <= srv'[m.src].current_term
             /\ m.term = srv'[m.src].current_term /\ srv'[m.src].state = "candidate"
                => Ends(m, srv'[m.src].log)
  <2>1. /\ m.term <= srv[m.src].current_term /\ m.src \in Server
        /\ m.term = srv[m.src].current_term /\ srv[m.src].state = "candidate"
                => Ends(m, srv[m.src].log)
    BY <1>3, <1>5 DEF Asked
  <2>2. CASE m.src # i
    BY <1>2, <2>1, <2>2
  <2>3. CASE m.src = i
    <3>1. m.term <= b.current_term
      BY <1>3, <2>1, <2>3
    <3>2. ASSUME m.term = b.current_term, b.state = "candidate" PROVE Ends(m, b.log)
      <4>1. m.term = srv[i].current_term /\ srv[i].current_term = b.current_term
        BY <1>3, <2>1, <2>3, <3>2
      <4>2. srv[i].state = "candidate"
        BY <1>2, <1>3, <3>2, <4>1 DEF RoleStep
      <4>3. b.log = srv[i].log
        BY <1>2, <3>2 DEF LogStep, Appends, TakesOver
      <4> QED
        BY <2>1, <2>3, <4>1, <4>2, <4>3
    <3> QED
      BY <1>2, <2>3, <3>1, <3>2
  <2> QED
    BY <2>2, <2>3
<1>6. ASSUME NEW m \in b.out, IsRequest(m)
      PROVE  /\ m.term <= srv'[m.src].current_term
             /\ m.term = srv'[m.src].current_term /\ srv'[m.src].state = "candidate"
                => Ends(m, srv'[m.src].log)
  <2>1. m.src = i /\ m.term = b.current_term /\ Ends(m, b.log)
    BY <1>1, <1>6 DEF Speaks
  <2> QED
    BY <1>2, <1>3, <2>1
<1>7. ASSUME NEW m \in net', IsGrant(m) PROVE m.term <= srv'[m.dst].current_term
  <2>1. CASE m \in net
    <3>1. m.term <= srv[m.dst].current_term /\ m.dst \in Server /\ m.term \in Nat
      BY <1>3, <1>7, <2>1 DEF Asked
    <3> QED
      BY <1>3, <1>4, <3>1
  <2>2. CASE m \in b.out
    <3>1. PICK vr \in net : IsRequest(vr) /\ vr.src = m.dst /\ vr.term = m.term
      BY <1>1, <1>7, <2>2 DEF Speaks
    <3>2. vr.term <= srv[vr.src].current_term /\ vr.src \in Server /\ vr.term \in Nat
      BY <1>3, <3>1 DEF Asked
    <3>3. vr.term <= srv'[vr.src].current_term
      BY <1>3, <1>4, <3>2
    <3> QED
      BY <3>1, <3>3
  <2> QED
    BY <1>2, <2>1, <2>2
<1>8. ASSUME NEW m \in net', IsRequest(m)
      PROVE  /\ m.term <= srv'[m.src].current_term
             /\ m.term = srv'[m.src].current_term /\ srv'[m.src].state = "candidate"
                => Ends(m, srv'[m.src].log)
  BY <1>2, <1>5, <1>6, <1>8
<1> QED
  BY <1>7, <1>8 DEF Asked

LEMMA SentStep ==
    ASSUME Sent, 1 < N, NEW i \in Server, NEW b, Serves(i, b)
    PROVE  Sent'
<1>1. /\ Becomes(i, b) /\ NextStep(i, b) /\ \A m \in b.out : Speaks(i, b, m)
      /\ srv'[i].next_idx = b.next_idx
  BY DEF Serves, SafeCall
<1>2. /\ \A j \in Server : j # i => srv'[j] = srv[j]
      /\ srv'[i].state = b.state /\ srv'[i].log = b.log
      /\ \A m \in net' : m \in net \/ m \in b.out
  BY <1>1 DEF Becomes
<1>3. ASSUME NEW j \in Server, NEW k \in Server, srv'[j].state = "leader", k # j
      PROVE  srv'[j].next_idx[k] <= Len(srv'[j].log) + 1
  <2>1. CASE j = i
    BY <1>1, <1>2, <1>3, <2>1 DEF NextStep
  <2>2. CASE j # i
    BY <1>2, <1>3, <2>2 DEF Sent
  <2> QED
    BY <2>1, <2>2
<1>4. ASSUME NEW m \in net', IsAppend(m) PROVE m.leader_commit <= Hi(MsgSeg(m))
  BY <1>1, <1>2, <1>4 DEF Sent, Speaks
<1> QED
  BY <1>3, <1>4 DEF Sent

\* What a server knows to be committed stays in its log.
LEMMA CommitKept ==
    ASSUME ReplicationInv, NEW i \in Server, NEW b, Becomes(i, b)
    PROVE  /\ srv[i].commit_idx \in Nat /\ srv[i].commit_idx <= Len(b.log)
           /\ srv[i].commit_idx <= Len(srv[i].log)
           /\ \A y \in 1 .. srv[i].commit_idx : b.log[y] = srv[i].log[y]
<1>1. /\ srv[i].log \in Seq(Entries) /\ Len(srv[i].log) \in Nat
      /\ b.log \in Seq(Entries) /\ Len(b.log) \in Nat
      /\ srv[i].commit_idx \in Nat /\ srv[i].commit_idx <= Len(srv[i].log)
  BY StateTypes, StepTypes DEF Typed
<1>2. LogStep(i, b)
  BY DEF Becomes, RepStep
<1>3. CASE b.log = srv[i].log
  BY <1>1, <1>3
<1>4. CASE Appends(i, b)
  <2>1. PICK e \in Entries : b.log = Append(srv[i].log, e)
    BY <1>4 DEF Appends
  <2>2. Len(b.log) = Len(srv[i].log) + 1
        /\ \A y \in 1 .. Len(srv[i].log) : b.log[y] = srv[i].log[y]
    BY <1>1, <2>1
  <2> QED
    BY <1>1, <2>2
<1>5. CASE TakesOver(i, b)
  <2>1. PICK m \in net : \E p : /\ FromSeg(srv[i].log, MsgSeg(m), b.log, p)
                                /\ srv[i].commit_idx <= p
    BY <1>5 DEF TakesOver
  <2>2. PICK p : FromSeg(srv[i].log, MsgSeg(m), b.log, p) /\ srv[i].commit_idx <= p
    BY <2>1
  <2>3. /\ p \in 0 .. Len(srv[i].log) /\ p <= Len(b.log)
        /\ \A y \in 1 .. p : b.log[y] = srv[i].log[y]
    BY <2>2 DEF FromSeg
  <2> QED
    BY <1>1, <2>2, <2>3
<1> QED
  BY <1>2, <1>3, <1>4, <1>5 DEF LogStep

LEMMA FsmLogStep ==
    ASSUME ReplicationInv, FsmLog, NEW i \in Server, NEW b, Serves(i, b)
    PROVE  FsmLog'
<1>1. /\ Becomes(i, b) /\ FsmStep(i, b) /\ srv'[i].fsm = b.fsm
  BY DEF Serves, SafeCall
<1>2. /\ \A j \in Server : j # i => srv'[j] = srv[j]
      /\ srv'[i].log = b.log
  BY <1>1 DEF Becomes
<1>3. /\ srv[i].commit_idx \in Nat
      /\ \A y \in 1 .. srv[i].commit_idx : b.log[y] = srv[i].log[y]
  BY <1>1, CommitKept
<1>4. Len(srv[i].fsm) \in Nat /\ Len(srv[i].fsm) <= srv[i].commit_idx
  BY StateTypes DEF Typed
<1>5. ASSUME NEW y \in 1 .. Len(b.fsm) PROVE b.fsm[y] = b.log[y]
  <2>1. CASE y <= Len(srv[i].fsm) /\ b.fsm[y] = srv[i].fsm[y]
    <3>1. y \in 1 .. Len(srv[i].fsm) /\ y \in 1 .. srv[i].commit_idx
      BY <1>3, <1>4, <2>1
    <3>2. srv[i].fsm[y] = srv[i].log[y]
      BY <3>1 DEF FsmLog
    <3> QED
      BY <1>3, <2>1, <3>1, <3>2
  <2> QED
    BY <1>1, <2>1 DEF FsmStep
<1>6. ASSUME NEW j \in Server PROVE \A y \in 1 .. Len(srv'[j].fsm) : srv'[j].fsm[y] = srv'[j].log[y]
  <2>1. CASE j = i
    BY <1>1, <1>2, <1>5, <2>1
  <2>2. CASE j # i
    BY <1>2, <2>2 DEF FsmLog
  <2> QED
    BY <2>1, <2>2
<1> QED
  BY <1>6 DEF FsmLog
-----------------------------------------------------------------------------
(* What is chosen stays chosen, and only that is committed.                *)

LEMMA ChosenStep ==
    ASSUME ReplicationInv, Ordered, Asked, 1 < N, NEW i \in Server, NEW b, Serves(i, b),
           NEW P, History(P), Chosen(P)
    PROVE  Chosen(P)'
<1>1. PICK Q \in SUBSET Server :
        /\ Majority(Q) /\ Safe(Q, P)
        /\ \A k \in Q : EndTerm(P) <= srv[k].current_term /\ Has(srv[k].log, P)
  BY DEF Chosen
<1>2. PICK h \in Server : h \in Q
  BY <1>1, MajoritiesMeet
<1>3. Becomes(i, b)
  BY DEF Serves
<1>4. Safe(Q, P)'
  BY <1>1, <1>2, SafeStep
<1>5. /\ \A j \in Server : j # i => srv'[j] = srv[j]
      /\ srv'[i].current_term = b.current_term /\ srv'[i].log = b.log
  BY <1>3 DEF Becomes
<1>6. /\ srv[i].current_term \in Nat /\ b.current_term \in Nat
      /\ srv[i].current_term <= b.current_term /\ EndTerm(P) \in Nat
  BY <1>3, StateTypes, StepTypes, HistoryFacts
<1>7. ASSUME NEW k \in Q
      PROVE  EndTerm(P) <= srv'[k].current_term /\ Has(srv'[k].log, P)
  <2>1. CASE k = i
    <3>1. Has(b.log, P)
      BY <1>1, <1>3, <2>1, KeepsHistory
    <3>2. EndTerm(P) <= b.current_term
      BY <1>1, <1>6, <2>1
    <3> QED
      BY <1>5, <2>1, <3>1, <3>2
  <2>2. CASE k # i
    BY <1>1, <1>5, <2>2
  <2> QED
    BY <2>1, <2>2
<1> QED
  BY <1>1, <1>4, <1>7 DEF Chosen

\* What a leader commits is chosen by then.
LEMMA LeaderChooses ==
    ASSUME ReplicationInv, Ordered, Office, NEW i \in Server, NEW b, Becomes(i, b),
           LeaderCommits(i, b)
    PROVE  Chosen(SubSeq(srv[i].log, 1, b.commit_idx))
<1> DEFINE c == b.commit_idx
           P == SubSeq(srv[i].log, 1, c)
           t == srv[i].current_term
<1>1. /\ srv[i].state = "leader" /\ b.state = "leader" /\ c \in 1 .. Len(srv[i].log)
      /\ srv[i].log[c].term = t
  BY DEF LeaderCommits
<1>2. PICK Q \in SUBSET Server : Majority(Q) /\ \A k \in Q : k = i \/ c <= b.match_idx[k]
  BY DEF LeaderCommits
<1>3. srv[i].log \in Seq(Entries) /\ t \in Nat /\ \A k \in Server : srv[k].current_term \in Nat
  BY StateTypes
<1>4. /\ History(P) /\ Len(P) = c /\ Has(srv[i].log, P) /\ EndTerm(P) = t
  BY <1>1, <1>3, Beginning
<1>5. MatchStep(i, b) /\ c \in Nat /\ c # 0
  BY <1>1 DEF Becomes, RepStep
<1> HIDE DEF P, c
<1>6. ASSUME NEW k \in Q, k # i PROVE Heard(i, k, c)
  <2>1. c <= b.match_idx[k]
    BY <1>2, <1>6
  <2>2. CASE b.match_idx[k] = 0
    BY <1>5, <2>1, <2>2
  <2>3. CASE b.match_idx[k] = srv[i].match_idx[k]
    BY <2>1, <2>3 DEF Heard
  <2>4. CASE \E m \in net : /\ IsSuccess(m) /\ m.src = k /\ m.dst = i
                            /\ m.term = srv[i].current_term
                            /\ m.current_idx = b.match_idx[k]
    BY <2>1, <2>4 DEF Heard
  <2> QED
    BY <1>1, <1>5, <2>2, <2>3, <2>4 DEF MatchStep
<1>7. Safe(Q, P)
  <2>1. \A k \in Q : srv[k].current_term <= srv[i].current_term \/ Heard(i, k, Len(P))
    BY <1>3, <1>4, <1>6
  <2> QED
    BY <1>1, <1>2, <1>4, <2>1 DEF Office
<1>8. ASSUME NEW k \in Q PROVE EndTerm(P) <= srv[k].current_term /\ Has(srv[k].log, P)
  <2>1. CASE k = i
    BY <1>3, <1>4, <2>1
  <2>2. CASE k # i
    <3>1. PICK z \in Nat : c <= z /\ Acked(i, k, z)
      BY <1>1, <1>5, <1>6, <2>2, HeardAcked
    <3>2. CASE t < srv[k].current_term
      <4>1. Has(srv[k].log, P)
        BY <1>4, <1>7, <3>2 DEF Safe
      <4> QED
        BY <1>3, <1>4, <3>2, <4>1
    <3>3. CASE t = srv[k].current_term /\ SameUpTo(srv[k].log, srv[i].log, z)
      <4>1. Len(P) <= z /\ Len(srv[k].log) \in Nat
        BY <1>4, <3>1, StateTypes
      <4>2. Has(srv[k].log, P)
        BY <1>4, <3>3, <4>1, SameUpToHas
      <4> QED
        BY <1>3, <1>4, <3>3, <4>2
    <3> QED
      BY <1>5, <3>1, <3>2, <3>3 DEF Acked
  <2> QED
    BY <2>1, <2>2
<1> QED
  BY <1>2, <1>7, <1>8 DEF Chosen, P, c

\* Logs agree with what some server has.
HistoriesAlike ==
    \A h \in Server : \A P : History(P) /\ Has(srv[h].log, P) =>
        \A j \in Server : Alike(LogSeg(srv[j].log), LogSeg(P))

LEMMA HistoriesAgree == ReplicationInv /\ Ordered => HistoriesAlike
<1> SUFFICES ASSUME ReplicationInv, Ordered, NEW h \in Server, NEW P, History(P),
                    Has(srv[h].log, P), NEW j \in Server
             PROVE  Alike(LogSeg(srv[j].log), LogSeg(P))
  BY DEF HistoriesAlike
<1>1. LogSeg(srv[j].log) \in Segments
  BY DEF Segments
<1> QED
  BY <1>1, HolderFacts

\* A log with the terms of a message that reaches beyond x and extends P has
\* the entries of P up to x.
LEMMA FollowsHistory ==
    ASSUME NEW l \in Seq(Entries), NEW s, Segment(s), Follows(l, s, Hi(s)),
           NEW P, History(P), Extends(s, P), Alike(LogSeg(l), LogSeg(P)),
           Reaches(l, P) => Has(l, P), NEW x \in Nat \ {0}, x <= Hi(s), x <= Len(P)
    PROVE  \A y \in 1 .. x : l[y] = P[y]
<1>1. /\ Len(l) \in Nat /\ s.lo \in Nat /\ Hi(s) \in Nat /\ s.lo <= Hi(s)
      /\ Len(P) \in Nat /\ 0 < Len(P) /\ EndTerm(P) \in Nat
      /\ \A y \in 1 .. Len(P) : Tm(LogSeg(P), y) = P[y].term
  BY SegmentFacts, HistoryFacts
<1>2. PICK z \in Nat : z = IF x < s.lo THEN s.lo ELSE x
  BY <1>1
<1>3. z \in s.lo .. Hi(s) /\ x <= z /\ z \in Nat \ {0}
  BY <1>1, <1>2
<1>4. z \in 1 .. Len(l) /\ Tm(LogSeg(l), z) = Tm(s, z)
  BY <1>1, <1>3 DEF Follows
<1>5. l[z].term = Tm(s, z) /\ l[z].term \in Nat
  <2>1. \A e \in Entries : e.term \in Nat
    BY DEF Entries
  <2> QED
    BY <1>4, <2>1, LogSegFacts
<1>6. CASE z <= Len(P)
  <2>1. z \in 1 .. Len(P) /\ Tm(s, z) = Tm(LogSeg(P), z)
    BY <1>1, <1>3, <1>6 DEF Extends
  <2>2. l[z].term = P[z].term
    BY <1>1, <1>5, <2>1
  <2>3. \A y \in 1 .. z : l[y] = P[y]
    BY <1>4, <1>6, <2>2, AlikeHistory
  <2> QED
    BY <1>3, <2>3
<1>7. CASE Len(P) < z
  <2>1. EndTerm(P) <= Tm(s, z)
    BY <1>1, <1>3, <1>7 DEF Extends
  <2>2. EndTerm(P) < l[z].term \/ (l[z].term = EndTerm(P) /\ Len(P) <= z)
    BY <1>1, <1>5, <1>7, <2>1
  <2>3. Has(l, P)
    BY <1>4, <2>2 DEF Reaches
  <2> QED
    BY <1>1, <2>3 DEF Has
<1> QED
  BY <1>1, <1>3, <1>6, <1>7

\* What i has committed is part of a chosen history.
LEMMA ServerCommits ==
    ASSUME ReplicationInv, Ordered, Asked, Sent, Office, CommitsChosen, 1 < N,
           NEW i \in Server, NEW b, Serves(i, b), b.commit_idx # 0
    PROVE  \E P : /\ History(P) /\ Chosen(P)' /\ EndTerm(P) <= b.current_term
                  /\ b.commit_idx <= Len(P)
                  /\ \A y \in 1 .. b.commit_idx : b.log[y] = P[y]
<1> DEFINE c == b.commit_idx
<1>1. Becomes(i, b) /\ CommitStep(i, b)
  BY DEF Serves, SafeCall
<1>2. /\ srv[i].log \in Seq(Entries) /\ Len(srv[i].log) \in Nat /\ srv[i].current_term \in Nat
      /\ b.log \in Seq(Entries) /\ Len(b.log) \in Nat /\ b.current_term \in Nat
      /\ srv[i].current_term <= b.current_term
  BY <1>1, StateTypes, StepTypes
<1>3. c \in Nat /\ c \in Nat \ {0} /\ c <= Len(b.log)
  BY <1>1 DEF Becomes, RepStep, WellTyped, Typed
<1>4. CASE c = srv[i].commit_idx
  <2>1. PICK P : /\ History(P) /\ Chosen(P) /\ EndTerm(P) <= srv[i].current_term
                 /\ srv[i].commit_idx <= Len(P)
                 /\ \A y \in 1 .. srv[i].commit_idx : srv[i].log[y] = P[y]
    BY <1>3, <1>4 DEF CommitsChosen
  <2>2. Chosen(P)'
    BY <2>1, ChosenStep
  <2>3. EndTerm(P) <= b.current_term
    BY <1>2, <2>1, HistoryFacts
  <2>4. \A y \in 1 .. c : b.log[y] = P[y]
    BY <1>1, <1>4, <2>1, CommitKept
  <2> QED
    BY <1>4, <2>1, <2>2, <2>3, <2>4
<1>5. CASE LeaderCommits(i, b)
  <2> DEFINE P == SubSeq(srv[i].log, 1, c)
  <2>1. /\ b.log = srv[i].log /\ c \in 1 .. Len(srv[i].log)
        /\ srv[i].log[c].term = srv[i].current_term
    BY <1>5 DEF LeaderCommits
  <2>2. /\ History(P) /\ Len(P) = c /\ EndTerm(P) = srv[i].current_term
        /\ \A y \in 1 .. c : P[y] = srv[i].log[y]
    BY <1>2, <2>1, Beginning
  <2>3. Chosen(P)
    BY <1>1, <1>5, LeaderChooses
  <2>4. PICK R : R = P
    OBVIOUS
  <2> HIDE DEF P
  <2>5. Chosen(R)'
    BY <2>2, <2>3, <2>4, ChosenStep
  <2> QED
    BY <1>2, <1>3, <2>1, <2>2, <2>4, <2>5
<1>6. CASE FollowerCommits(i, b)
  <2>1. PICK m \in net : /\ IsAppend(m) /\ m.term = b.current_term /\ c <= m.leader_commit
                         /\ Follows(b.log, MsgSeg(m), Hi(MsgSeg(m)))
    BY <1>6 DEF FollowerCommits
  <2>2. m.leader_commit \in Nat /\ Segment(MsgSeg(m)) /\ m.leader_commit <= Hi(MsgSeg(m))
    BY <2>1, StateTypes DEF AppendTyped, Sent
  <2>3. m.leader_commit # 0
    BY <1>3, <2>1, <2>2
  <2>4. PICK P : /\ History(P) /\ Chosen(P) /\ EndTerm(P) <= m.term
                 /\ m.leader_commit <= Len(P)
    BY <2>1, <2>3 DEF CommitsChosen
  <2>5. Chosen(P)'
    BY <2>4, ChosenStep
  <2>6. Extends(MsgSeg(m), P)
    <3>1. PICK Q \in SUBSET Server : Safe(Q, P)
      BY <2>4 DEF Chosen
    <3> QED
      BY <2>1, <2>4, <3>1 DEF Safe
  <2>7. PICK Q \in SUBSET Server :
          /\ Majority(Q) /\ Safe(Q, P)' /\ \A k \in Q : Has(srv'[k].log, P)
    BY <2>5 DEF Chosen
  <2>8. PICK h \in Server : h \in Q
    BY <2>7, MajoritiesMeet
  <2>9. srv'[i].log = b.log
    BY <1>1 DEF Becomes
  <2>10. Reaches(b.log, P) => Has(b.log, P)
    BY <2>7, <2>9 DEF Safe
  <2>11. Alike(LogSeg(b.log), LogSeg(P))
    <3>1. HistoriesAlike'
      <4>1. ReplicationInv' /\ Ordered'
        BY <1>1, BecomesInv, OrderStep
      <4> QED
        BY <4>1, HistoriesAgree, PTL
    <3> QED
      BY <2>4, <2>7, <2>8, <2>9, <3>1 DEF HistoriesAlike
  <2>12. c <= Hi(MsgSeg(m)) /\ c <= Len(P)
    <3>1. Hi(MsgSeg(m)) \in Nat /\ Len(P) \in Nat
      BY <2>2, <2>4, SegmentFacts, HistoryFacts
    <3> QED
      BY <1>3, <2>1, <2>2, <2>4, <3>1
  <2> HIDE DEF c
  <2>13. \A y \in 1 .. c : b.log[y] = P[y]
    BY <1>2, <1>3, <2>1, <2>2, <2>4, <2>6, <2>10, <2>11, <2>12, FollowsHistory
  <2> QED
    BY <2>1, <2>4, <2>5, <2>12, <2>13 DEF c
<1> QED
  BY <1>1, <1>4, <1>5, <1>6 DEF CommitStep

LEMMA CommitsStep ==
    ASSUME ReplicationInv, Ordered, Asked, Sent, Office, CommitsChosen, 1 < N,
           NEW i \in Server, NEW b, Serves(i, b)
    PROVE  CommitsChosen'
<1>1. /\ Becomes(i, b) /\ \A m \in b.out : Speaks(i, b, m)
      /\ srv'[i].commit_idx = b.commit_idx
  BY DEF Serves, SafeCall
<1>2. /\ \A j \in Server : j # i => srv'[j] = srv[j]
      /\ srv'[i].current_term = b.current_term /\ srv'[i].log = b.log
      /\ \A m \in net' : m \in net \/ m \in b.out
  BY <1>1 DEF Becomes
<1>3. ASSUME b.commit_idx # 0
      PROVE  \E P : /\ History(P) /\ Chosen(P)' /\ EndTerm(P) <= b.current_term
                    /\ b.commit_idx <= Len(P)
                    /\ \A y \in 1 .. b.commit_idx : b.log[y] = P[y]
  BY <1>3, ServerCommits
<1>4. ASSUME NEW j \in Server
      PROVE  \/ srv'[j].commit_idx = 0
             \/ \E P : /\ History(P) /\ Chosen(P)' /\ EndTerm(P) <= srv'[j].current_term
                       /\ srv'[j].commit_idx <= Len(P)
                       /\ \A y \in 1 .. srv'[j].commit_idx : srv'[j].log[y] = P[y]
  <2>1. CASE j = i
    BY <1>1, <1>2, <1>3, <2>1
  <2>2. CASE j # i /\ srv[j].commit_idx # 0
    <3>1. PICK P : /\ History(P) /\ Chosen(P) /\ EndTerm(P) <= srv[j].current_term
                   /\ srv[j].commit_idx <= Len(P)
                   /\ \A y \in 1 .. srv[j].commit_idx : srv[j].log[y] = P[y]
      BY <2>2 DEF CommitsChosen
    <3>2. Chosen(P)'
      BY <3>1, ChosenStep
    <3>3. srv'[j] = srv[j]
      BY <1>2, <2>2
    <3> QED
      BY <3>1, <3>2, <3>3
  <2>3. CASE j # i /\ srv[j].commit_idx = 0
    BY <1>2, <2>3
  <2> QED
    BY <2>1, <2>2, <2>3
<1>5. ASSUME NEW m \in net', IsAppend(m)
      PROVE  \/ m.leader_commit = 0
             \/ \E P : /\ History(P) /\ Chosen(P)' /\ EndTerm(P) <= m.term
                       /\ m.leader_commit <= Len(P)
  <2>1. CASE m \in net /\ m.leader_commit # 0
    <3>1. PICK P : /\ History(P) /\ Chosen(P) /\ EndTerm(P) <= m.term
                   /\ m.leader_commit <= Len(P)
      BY <1>5, <2>1 DEF CommitsChosen
    <3>2. Chosen(P)'
      BY <3>1, ChosenStep
    <3> QED
      BY <3>1, <3>2
  <2>2. CASE m \in b.out
    <3>1. m.leader_commit = b.commit_idx /\ m.term = b.current_term
      BY <1>1, <1>5, <2>2, StepTypes DEF Speaks
    <3> QED
      BY <1>3, <3>1
  <2> QED
    BY <1>2, <2>1, <2>2
<1> QED
  BY <1>4, <1>5 DEF CommitsChosen

\* One call of the library preserves the invariant.
LEMMA SafetyStep ==
    ASSUME SafetyInv, NEW i \in Server, NEW b, Serves(i, b)
    PROVE  SafetyInv'
<1>1. ReplicationInv /\ FsmLog /\ Becomes(i, b)
  BY DEF SafetyInv, Serves
<1>2. ReplicationInv' /\ FsmLog'
  BY <1>1, BecomesInv, FsmLogStep
<1>3. ASSUME 1 < N
      PROVE  (Ordered /\ Asked /\ Sent /\ HeardWithin /\ Office /\ CommitsChosen)'
  <2>1. Ordered /\ Asked /\ Sent /\ HeardWithin /\ Office /\ CommitsChosen
    BY <1>3 DEF SafetyInv
  <2>2. Ordered'
    BY <1>1, <2>1, OrderStep
  <2>3. Asked' /\ Sent'
    BY <1>1, <1>3, <2>1, AskedStep, SentStep
  <2>4. HeardWithin' /\ Office'
    BY <1>1, <1>3, <2>1, HeardWithinStep, OfficeStep
  <2>5. CommitsChosen'
    BY <1>1, <1>3, <2>1, CommitsStep
  <2> QED
    BY <2>2, <2>3, <2>4, <2>5
<1> QED
  BY <1>2, <1>3 DEF SafetyInv
-----------------------------------------------------------------------------
(* What the operators commit, apply and send.                              *)

\* m is no request and no vote; appendentries reach as far as the commit index
\* they bring.
Reports(b, m) ==
    /\ ~IsRequest(m) /\ ~IsGrant(m)
    /\ IsAppend(m) => m.leader_commit = b.commit_idx /\ m.leader_commit <= Hi(MsgSeg(m))

\* Nothing is committed or applied between a and b.
Stays(a, b) ==
    b.fsm = a.fsm /\ b.commit_idx = a.commit_idx /\ b.next_idx = a.next_idx

LEMMA StaysTrans ==
    ASSUME NEW a, NEW b, NEW c, Stays(a, b), Stays(b, c)
    PROVE  Stays(a, c)
BY DEF Stays

LEMMA WithStays ==
    ASSUME ReplicationInv, NEW i \in Server, NEW cb
    PROVE  Stays(srv[i], With(i, cb))
<1>1. DOMAIN srv[i] = Fields
  BY DEF ReplicationInv, ElectionInv, ElectionType, ServerOK
<1> QED
  BY <1>1 DEF With, Stays, Fields

LEMMA SendReports ==
    ASSUME NEW i \in Server, NEW me, WellTyped(i, me), me.state = "leader",
           NEW ks \in SUBSET (Server \ {i}), \A k \in ks : me.next_idx[k] <= Len(me.log) + 1
    PROVE  LET b == raft_send_appendentries(me, ks)
           IN  /\ Stays(me, b)
               /\ \A m \in b.out : m \notin me.out => Reports(b, m)
<1> DEFINE sent == UNION {IF NeedsSnapshot(me, k) THEN send_snapshot(me, k)
                          ELSE send_appendentries(me, k) : k \in ks}
           b == [me EXCEPT !.out = @ \cup sent]
<1>1. \A k \in ks : ~NeedsSnapshot(me, k)
  BY DEF NeedsSnapshot, WellTyped, ServerOK
<1>2. me.commit_idx <= Len(me.log)
  BY DEF WellTyped, Typed
<1>3. ASSUME NEW k \in ks, NEW m \in send_appendentries(me, k) PROVE Reports(me, m)
  <2>1. m.type = "appendentries"
    BY DEF send_appendentries
  <2>2. m.leader_commit = me.commit_idx /\ Hi(MsgSeg(m)) = Len(me.log)
    BY SendPart
  <2> QED
    BY <1>2, <2>1, <2>2 DEF Reports, IsRequest, IsGrant
<1>4. \A m \in sent : Reports(me, m)
  BY <1>1, <1>3
<1>5. raft_send_appendentries(me, ks) = b
  BY DEF raft_send_appendentries
<1>6. DOMAIN me = Fields
  BY DEF WellTyped, ServerOK
<1> HIDE DEF sent
<1>7. Stays(me, b) /\ b.out = me.out \cup sent
  BY <1>6 DEF Stays, Fields
<1> HIDE DEF b
<1> QED
  BY <1>4, <1>5, <1>7 DEF Stays, Reports

LEMMA AbortStays ==
    ASSUME NEW i, NEW me, WellTyped(i, me), NEW why
    PROVE  Stays(me, Abort(me, why)) /\ Abort(me, why).out = {}
BY DEF Abort, Stays, WellTyped, ServerOK, Fields

LEMMA StepDownStays ==
    ASSUME NEW i \in Server, NEW me, WellTyped(i, me), NEW t
    PROVE  Stays(me, StepDown(me, t))
BY DEF StepDown, raft_become_follower, raft_set_current_term, Stays, WellTyped, ServerOK,
       Fields

LEMMA ConcatFacts ==
    ASSUME NEW S, NEW f \in Seq(S), NEW g \in Seq(S), NEW h, h = f \o g
    PROVE  /\ Len(h) = Len(f) + Len(g)
           /\ \A y \in 1 .. Len(f) + Len(g) : h[y] = IF y <= Len(f) THEN f[y] ELSE g[y - Len(f)]
BY ConcatProperties, Zenon

\* A position behind l, counted from l.
LEMMA Offset ==
    ASSUME NEW y \in Int, NEW l \in Int, NEW c \in Int, l < y, y <= c
    PROVE  y - l \in 1 .. c - l /\ y = l + (y - l)
OBVIOUS

\* What raft_apply_all adds to the state machine is in the log.
LEMMA ApplyStays ==
    ASSUME NEW i \in Server, NEW me, WellTyped(i, me)
    PROVE  LET b == raft_apply_all(me)
           IN  /\ b.commit_idx = me.commit_idx /\ b.next_idx = me.next_idx
               /\ b.out = me.out
               /\ \A y \in 1 .. Len(b.fsm) : \/ y <= Len(me.fsm) /\ b.fsm[y] = me.fsm[y]
                                             \/ b.fsm[y] = b.log[y]
<1> DEFINE la == me.last_applied_idx
           more == SubSeq(me.log, la + 1 - me.base, me.commit_idx - me.base)
           b == [me EXCEPT !.last_applied_idx = me.commit_idx, !.fsm = @ \o more]
<1>1. DOMAIN me = Fields
  BY DEF WellTyped, ServerOK
<1>2. raft_apply_all(me) = me \/ (raft_apply_all(me) = b /\ la < me.commit_idx)
  BY DEF raft_apply_all
<1>3. /\ me.log \in Seq(Entries) /\ me.fsm \in Seq(Entries) /\ me.base = 0
      /\ la \in Nat /\ me.commit_idx \in Nat /\ me.commit_idx <= Len(me.log)
      /\ Len(me.fsm) = la
  BY DEF WellTyped, Typed
<1>4. CASE raft_apply_all(me) = me
  BY <1>3, <1>4
<1>5. CASE raft_apply_all(me) = b /\ la < me.commit_idx
  <2>1. /\ la + 1 - me.base \in Nat \ {0} /\ la + 1 - me.base = la + 1
        /\ me.commit_idx - me.base = me.commit_idx
    BY <1>3
  <2>2. /\ more \in Seq(Entries) /\ Len(more) = me.commit_idx - la
        /\ \A y \in 1 .. me.commit_idx - (la + 1) + 1 : more[y] = me.log[la + 1 + y - 1]
    <3>1. more = SubSeq(me.log, la + 1, me.commit_idx)
      BY <2>1
    <3> DEFINE x == la + 1
    <3>2. x \in Nat \ {0} /\ x <= me.commit_idx /\ me.commit_idx - x + 1 = me.commit_idx - la
      BY <1>3, <1>5
    <3> HIDE DEF x, more
    <3>3. more = SubSeq(me.log, x, me.commit_idx)
      BY <3>1 DEF x
    <3>4. /\ more \in Seq(Entries) /\ Len(more) = me.commit_idx - x + 1
          /\ \A y \in 1 .. me.commit_idx - x + 1 : more[y] = me.log[x + y - 1]
      BY <1>3, <3>2, <3>3, SubSeqFacts
    <3> QED
      BY <3>2, <3>4 DEF x
  <2> HIDE DEF more
  <2>3. \A y \in 1 .. me.commit_idx - la : more[y] = me.log[la + y]
    <3>1. me.commit_idx - (la + 1) + 1 = me.commit_idx - la
      BY <1>3
    <3>2. \A y \in 1 .. me.commit_idx - la : la + 1 + y - 1 = la + y
      BY <1>3
    <3> QED
      BY <2>2, <3>1, <3>2
  <2>4. /\ b.commit_idx = me.commit_idx /\ b.next_idx = me.next_idx /\ b.out = me.out
        /\ b.log = me.log /\ b.fsm = me.fsm \o more
    <3> DEFINE all == me.fsm \o more
    <3>1. b = [me EXCEPT !.last_applied_idx = me.commit_idx, !.fsm = all]
      OBVIOUS
    <3> HIDE DEF all, b
    <3>2. /\ b.commit_idx = me.commit_idx /\ b.next_idx = me.next_idx /\ b.out = me.out
          /\ b.log = me.log /\ b.fsm = all
      BY <1>1, <3>1 DEF Fields
    <3> QED
      BY <3>2 DEF all
  <2> HIDE DEF b
  <2>7. /\ Len(b.fsm) = Len(me.fsm) + Len(more)
        /\ \A y \in 1 .. Len(me.fsm) + Len(more) :
              b.fsm[y] = IF y <= Len(me.fsm) THEN me.fsm[y] ELSE more[y - Len(me.fsm)]
    <3>1. me.fsm \in Seq(Entries) /\ more \in Seq(Entries) /\ b.fsm = me.fsm \o more
      BY <1>3, <2>2, <2>4
    <3> QED
      BY ONLY <3>1, ConcatFacts
  <2>5. Len(b.fsm) = me.commit_idx /\ Len(me.fsm) + Len(more) = me.commit_idx
    BY <1>3, <2>2, <2>7
  <2>6. ASSUME NEW y \in 1 .. Len(b.fsm)
        PROVE  \/ y <= Len(me.fsm) /\ b.fsm[y] = me.fsm[y]
               \/ b.fsm[y] = b.log[y]
    <3>1. CASE y <= la
      BY <1>3, <2>5, <2>7, <3>1
    <3>2. CASE la < y
      <4>1. PICK z \in 1 .. me.commit_idx - la : y = la + z
        <5>1. y \in Int /\ la \in Int /\ me.commit_idx \in Int /\ la < y /\ y <= me.commit_idx
          BY <1>3, <2>5, <3>2
        <5>2. y - la \in 1 .. me.commit_idx - la /\ y = la + (y - la)
          BY <5>1, Offset
        <5> QED
          BY <5>2
      <4>2. b.fsm[y] = more[z]
        <5>1. y - Len(me.fsm) = z /\ ~(y <= Len(me.fsm))
          BY <1>3, <3>2, <4>1
        <5> QED
          BY <2>5, <2>7, <5>1
      <4> QED
        BY <2>3, <2>4, <4>1, <4>2
    <3> QED
      BY <1>3, <3>1, <3>2
  <2> QED
    BY <1>5, <2>4, <2>6
<1> QED
  BY <1>2, <1>4, <1>5

\* A call that only sends appendentries.
LEMMA SendsSafe ==
    ASSUME SafetyInv, NEW i \in Server, NEW b, FsmStep(i, b),
           b.commit_idx = srv[i].commit_idx, NextStep(i, b),
           \A m \in b.out : Reports(b, m)
    PROVE  SafeCall(i, b)
BY DEF SafeCall, CommitStep, Speaks, Reports

LEMMA StaysFsm ==
    ASSUME NEW i, NEW b, Stays(srv[i], b)
    PROVE  FsmStep(i, b)
BY DEF Stays, FsmStep

\* A leader that has kept its role and the ends of its peers.
LEMMA StaysNext ==
    ASSUME SafetyInv, NEW i \in Server, NEW b, b.next_idx = srv[i].next_idx,
           b.state = "leader" => srv[i].state = "leader",
           Len(srv[i].log) <= Len(b.log), Len(b.log) \in Nat, 1 < N
    PROVE  NextStep(i, b)
<1>1. ReplicationInv /\ Sent
  BY DEF SafetyInv
<1>2. Len(srv[i].log) \in Nat /\ srv[i].next_idx \in [Server -> Nat \ {0}]
  BY <1>1, StateTypes DEF Typed
<1> SUFFICES ASSUME b.state = "leader", NEW k \in Server, k # i
             PROVE  b.next_idx[k] <= Len(b.log) + 1
  BY DEF NextStep
<1>3. srv[i].next_idx[k] <= Len(srv[i].log) + 1 /\ srv[i].next_idx[k] \in Nat
  BY <1>1, <1>2 DEF Sent
<1> QED
  BY <1>2, <1>3
-----------------------------------------------------------------------------
(* The handlers.                                                           *)

\* Becoming leader.
LEMMA LeaderStays ==
    ASSUME NEW i \in Server, NEW me, WellTyped(i, me), me.out = {}
    PROVE  LET b == raft_become_leader(me)
           IN  /\ b.fsm = me.fsm /\ b.commit_idx = me.commit_idx
               /\ \A k \in Server : k # i => b.next_idx[k] = Len(me.log) + 1
               /\ \A m \in b.out : Reports(b, m)
<1> DEFINE next == [k \in Server |-> IF k = me.id THEN me.next_idx[k]
                                     ELSE raft_get_current_idx(me) + 1]
           match == [k \in Server |-> IF k = me.id THEN me.match_idx[k] ELSE 0]
           m == [me EXCEPT !.state = "leader", !.current_leader = me.id, !.late = FALSE,
                           !.next_idx = next, !.match_idx = match]
           b == raft_become_leader(me)
<1>1. DOMAIN me = Fields /\ me.id = i
  BY DEF WellTyped, ServerOK
<1>2. b = raft_send_appendentries(m, Peers(me))
  BY <1>1 DEF raft_become_leader, Fields
<1>3. raft_get_current_idx(me) = Len(me.log) /\ Len(me.log) \in Nat
  BY CurrentIdx DEF WellTyped
<1>4. next \in [Server -> Nat \ {0}] /\ \A k \in Server : k # i => next[k] = Len(me.log) + 1
  BY <1>1, <1>3 DEF WellTyped, Typed
<1>5. match \in [Server -> Nat] /\ \A k \in Server : match[k] = 0
  BY <1>1 DEF WellTyped, Typed
<1> HIDE DEF next, match
<1>6. /\ DOMAIN m = Fields /\ m.id = i /\ m.state = "leader" /\ m.current_leader = i
      /\ m.out = {} /\ m.log = me.log /\ m.current_term = me.current_term
      /\ m.next_idx = next /\ m.match_idx = match /\ m.fsm = me.fsm
      /\ m.base = me.base /\ m.front = me.front /\ m.size = me.size
      /\ m.last_applied_idx = me.last_applied_idx /\ m.commit_idx = me.commit_idx
      /\ m.snap = me.snap /\ m.voted_for = me.voted_for /\ m.votes = me.votes
      /\ m.disk = me.disk /\ m.snapshot_in_progress = me.snapshot_in_progress
  BY <1>1 DEF Fields
<1> HIDE DEF m, b
<1>7. WellTyped(i, m)
  <2>1. ServerOK(i, m)
    BY <1>6 DEF WellTyped, ServerOK
  <2>2. Typed(m)
    BY <1>4, <1>5, <1>6 DEF WellTyped, Typed
  <2> QED
    BY <2>1, <2>2 DEF WellTyped
<1>8. Peers(me) \in SUBSET (Server \ {i})
  BY <1>1 DEF Peers
<1>9. \A k \in Peers(me) : m.next_idx[k] <= Len(m.log) + 1
  BY <1>3, <1>4, <1>6, <1>8
<1>10. Stays(m, b) /\ \A x \in b.out : x \notin m.out => Reports(b, x)
  BY <1>2, <1>6, <1>7, <1>8, <1>9, SendReports
<1> QED
  BY <1>4, <1>6, <1>10 DEF Stays, b

\* The heartbeats of a leader.
LEMMA SendAllStays ==
    ASSUME NEW i \in Server, NEW me, WellTyped(i, me), me.state = "leader", me.out = {},
           \A k \in Server : k # i => me.next_idx[k] <= Len(me.log) + 1
    PROVE  LET b == raft_send_appendentries_all(me)
           IN  Stays(me, b) /\ \A m \in b.out : Reports(b, m)
<1> DEFINE m == [me EXCEPT !.late = FALSE]
           ks == {k \in Peers(me) : \A j \in Peers(me) : j < k => ~NeedsSnapshot(me, j)}
<1>1. DOMAIN me = Fields /\ me.id = i
  BY DEF WellTyped, ServerOK
<1>2. /\ ServerOK(i, m) /\ Typed(m) /\ Stays(me, m) /\ m.state = "leader" /\ m.out = {}
      /\ m.log = me.log
  BY <1>1 DEF WellTyped, ServerOK, Typed, Stays, Fields
<1>3. ks \in SUBSET (Server \ {i})
  BY <1>1 DEF Peers
<1>4. raft_send_appendentries_all(me) = raft_send_appendentries(m, ks)
  BY DEF raft_send_appendentries_all
<1> HIDE DEF m, ks
<1>5. \A k \in ks : m.next_idx[k] <= Len(m.log) + 1
  BY <1>2, <1>3 DEF Stays
<1>6. LET b == raft_send_appendentries(m, ks)
      IN  Stays(m, b) /\ \A x \in b.out : x \notin m.out => Reports(b, x)
  BY <1>2, <1>3, <1>5, SendReports DEF WellTyped
<1> QED
  BY <1>2, <1>4, <1>6, StaysTrans

\* The requests of a candidate.
LEMMA CandidateStays ==
    ASSUME NEW i \in Server, NEW me, WellTyped(i, me), me.out = {},
           ~TermNotPersisted(me, me.current_term + 1)
    PROVE  LET b == raft_become_candidate(me)
           IN  /\ Stays(me, b)
               /\ \A m \in b.out : /\ m.type = "requestvote" /\ m.src = i
                                   /\ m.term = b.current_term /\ Ends(m, b.log)
<1> DEFINE t == raft_set_current_term(me, me.current_term + 1)
           e == [t EXCEPT !.votes = {}]
           m == raft_vote_for_nodeid(e, me.id)
           c == [m EXCEPT !.current_leader = Nil, !.state = "candidate", !.late = FALSE]
           asked == {raft_send_requestvote(c, k) : k \in Peers(c)}
           b == raft_become_candidate(me)
<1>1. WellTyped(i, b)
  BY CandidateTyped
<1>2. b = [c EXCEPT !.out = @ \cup asked]
  BY DEF raft_become_candidate
<1>3. DOMAIN me = Fields /\ me.id = i
  BY DEF WellTyped, ServerOK
<1>4. DOMAIN t = Fields /\ SameData(me, t) /\ t.out = {}
  BY <1>3 DEF raft_set_current_term, SameData, Fields
<1> HIDE DEF t
<1>5. DOMAIN m = Fields /\ SameData(me, m) /\ m.out = {}
  BY <1>4 DEF raft_vote_for_nodeid, SameData, Fields
<1> HIDE DEF m
<1>6. DOMAIN c = Fields /\ SameData(me, c) /\ c.out = {}
  BY <1>5 DEF SameData, Fields
<1> HIDE DEF c, b
<1>7. c.log \in Seq(Entries) /\ Len(c.log) \in Nat /\ c.base = 0 /\ c.id = i
  BY <1>3, <1>6 DEF SameData, WellTyped, Typed
<1>8. /\ raft_get_current_idx(c) = Len(c.log)
      /\ raft_get_last_log_term(c) = Tm(LogSeg(c.log), Len(c.log))
  <2>1. /\ raft_get_current_idx(c) = Len(c.log)
        /\ \A idx : HasEntry(c, idx) <=> idx \in 1 .. Len(c.log)
        /\ \A idx \in 1 .. Len(c.log) : EntryAt(c, idx) = c.log[idx]
    BY <1>7 DEF raft_get_current_idx, HasEntry, EntryAt
  <2>2. CASE Len(c.log) = 0
    <3>1. raft_get_last_log_term(c) = 0
      BY <2>1, <2>2 DEF raft_get_last_log_term
    <3> QED
      BY <1>7, <2>1, <2>2, <3>1, LogSegFacts
  <2>3. CASE Len(c.log) # 0
    <3>1. Len(c.log) \in 1 .. Len(c.log)
      BY <1>7, <2>3
    <3>2. raft_get_last_log_term(c) = c.log[Len(c.log)].term
      BY <2>1, <3>1 DEF raft_get_last_log_term
    <3> QED
      BY <1>7, <2>1, <3>1, <3>2, LogSegFacts
  <2> QED
    BY <2>2, <2>3
<1>9. \A x \in asked : /\ x.type = "requestvote" /\ x.src = i
                       /\ x.term = c.current_term /\ Ends(x, c.log)
  BY <1>7, <1>8 DEF raft_send_requestvote, Ends
<1> HIDE DEF asked
<1>10. SameData(c, b) /\ b.out = asked /\ b.current_term = c.current_term
  BY <1>2, <1>6 DEF SameData, Fields
<1> QED
  BY <1>6, <1>9, <1>10 DEF SameData, Stays, b

LEMMA PeriodicSafe ==
    ASSUME SafetyInv, NEW i \in Server, NEW cb, NEW timer
    PROVE  SafeCall(i, raft_periodic(With(i, cb), timer))
<1> DEFINE me == With(i, cb)
           l == raft_become_leader(me)
           s == raft_send_appendentries_all(me)
           m == [me EXCEPT !.late = me.current_leader # Nil /\ timer # "early"]
           c == raft_become_candidate(m)
           b == raft_periodic(me, timer)
<1> SUFFICES SafeCall(i, b)
  OBVIOUS
<1>0. ReplicationInv /\ (1 < N => Sent)
  BY DEF SafetyInv
<1>1. WellTyped(i, me) /\ SameLog(srv[i], me) /\ me.out = {} /\ Stays(srv[i], me)
  BY <1>0, TypedWith, WithStays
<1>2. \/ N = 1 /\ b = raft_apply_all(l)
      \/ me.state = "leader" /\ b = raft_apply_all(s) /\ N # 1
      \/ b = raft_apply_all(me)
      \/ b = raft_apply_all(m)
      \/ b = m
      \/ /\ ~TermNotPersisted(m, m.current_term + 1)
         /\ b = raft_apply_all(c)
      \/ N = 1 /\ b = raft_apply_all(s) /\ me.state = "leader"
  BY DEF raft_periodic
<1>3. /\ srv[i].current_term = me.current_term /\ srv[i].log = me.log
      /\ srv[i].state = me.state /\ Len(me.log) \in Nat
      /\ me.current_term \in Nat /\ DOMAIN me = Fields
  BY <1>1 DEF SameLog, WellTyped, ServerOK, Typed
<1>4. /\ ServerOK(i, m) /\ SameData(me, m) /\ m.out = {} /\ m.state = me.state
      /\ m.current_leader = me.current_leader /\ Stays(me, m)
  BY <1>1, <1>3 DEF WellTyped, ServerOK, SameData, Stays, Fields
<1> HIDE DEF m, b, me
<1>5. WellTyped(i, m)
  BY <1>1, <1>4, SameDataTyped DEF WellTyped, Typed
\* A server x that has applied nothing since the call.
<1>6. ASSUME NEW x, WellTyped(i, x), x.fsm = srv[i].fsm, b = x \/ b = raft_apply_all(x)
      PROVE  /\ FsmStep(i, b) /\ b.commit_idx = x.commit_idx /\ b.next_idx = x.next_idx
             /\ b.out = x.out /\ b.log = x.log /\ b.state = x.state
             /\ b.current_term = x.current_term
  <2>1. Carries(x, raft_apply_all(x))
    BY <1>6, ApplyCarries
  <2>2. LET a == raft_apply_all(x)
        IN  /\ a.commit_idx = x.commit_idx /\ a.next_idx = x.next_idx
            /\ a.out = x.out
            /\ \A y \in 1 .. Len(a.fsm) : \/ y <= Len(x.fsm) /\ a.fsm[y] = x.fsm[y]
                                          \/ a.fsm[y] = a.log[y]
    BY <1>6, ApplyStays
  <2> QED
    BY <1>6, <2>1, <2>2 DEF FsmStep, Carries, SameLog
<1>7. ASSUME NEW x, WellTyped(i, x), Stays(srv[i], x), x.state = me.state, x.log = me.log,
             \A y \in x.out : Reports(x, y), b = x \/ b = raft_apply_all(x)
      PROVE  SafeCall(i, b)
  <2>1. x.fsm = srv[i].fsm /\ x.commit_idx = srv[i].commit_idx /\ x.next_idx = srv[i].next_idx
    BY <1>7 DEF Stays
  <2>2. /\ FsmStep(i, b) /\ b.commit_idx = x.commit_idx /\ b.next_idx = x.next_idx
        /\ b.out = x.out /\ b.log = x.log /\ b.state = x.state
    BY <1>6, <1>7, <2>1
  <2>3. Len(srv[i].log) <= Len(b.log) /\ Len(b.log) \in Nat
    BY <1>3, <1>7, <2>2
  <2>4. 1 < N => NextStep(i, b)
    BY <1>3, <1>7, <2>1, <2>2, <2>3, StaysNext
  <2>5. \A y \in b.out : Reports(b, y)
    BY <1>7, <2>2 DEF Reports
  <2> QED
    BY <2>1, <2>2, <2>4, <2>5 DEF SafeCall, CommitStep, Speaks, Reports
<1>8. CASE /\ N = 1
           /\ b = raft_apply_all(l) \/ (b = raft_apply_all(s) /\ me.state = "leader")
  <2>1. WellTyped(i, l) /\ l.fsm = srv[i].fsm
    <3>1. WellTyped(i, l) /\ l.fsm = me.fsm
      BY <1>1, LeaderTyped, LeaderStays
    <3> QED
      BY <1>1, <3>1 DEF Stays
  <2>2. me.state = "leader" => WellTyped(i, s)
    BY <1>1, SendAllCarries
  <2>3. s.fsm = srv[i].fsm
    <3>1. s.fsm = me.fsm
      BY <1>3 DEF raft_send_appendentries_all, raft_send_appendentries, Fields
    <3> QED
      BY <1>1, <3>1 DEF Stays
  <2> HIDE DEF l, s
  <2>4. FsmStep(i, b)
    BY <1>6, <1>8, <2>1, <2>2, <2>3
  <2> QED
    BY <1>8, <2>4 DEF SafeCall
<1>9. CASE me.state = "leader" /\ b = raft_apply_all(s) /\ N # 1
  <2>1. \A k \in Server : k # i => me.next_idx[k] <= Len(me.log) + 1
    <3>1. 1 < N
      BY <1>9, NAssumption
    <3> QED
      BY <1>0, <1>1, <1>3, <1>9, <3>1 DEF Sent, Stays
  <2>2. WellTyped(i, s) /\ Carries(me, s)
    BY <1>1, <1>9, SendAllCarries
  <2>3. Stays(me, s) /\ \A x \in s.out : Reports(s, x)
    BY <1>1, <1>9, <2>1, SendAllStays
  <2> HIDE DEF s
  <2> QED
    BY <1>1, <1>7, <1>9, <2>2, <2>3, StaysTrans DEF Carries, SameLog
<1>10. CASE b = raft_apply_all(me)
  BY <1>1, <1>7, <1>10
<1>11. CASE b = raft_apply_all(m) \/ b = m
  BY <1>1, <1>4, <1>5, <1>7, <1>11, StaysTrans DEF SameData
<1>12. CASE /\ ~TermNotPersisted(m, m.current_term + 1)
            /\ b = raft_apply_all(c)
  <2>1. WellTyped(i, c) /\ c.state = "candidate"
    BY <1>4, <1>5, <1>12, CandidateTyped
  <2>2. /\ Stays(m, c)
        /\ \A x \in c.out : /\ x.type = "requestvote" /\ x.src = i
                            /\ x.term = c.current_term /\ Ends(x, c.log)
    BY <1>4, <1>5, <1>12, CandidateStays
  <2> HIDE DEF c
  <2>3. Stays(srv[i], c)
    BY <1>1, <1>4, <2>2, StaysTrans
  <2>4. /\ FsmStep(i, b) /\ b.commit_idx = c.commit_idx /\ b.out = c.out /\ b.log = c.log
        /\ b.state = c.state /\ b.current_term = c.current_term
    BY <1>6, <1>12, <2>1, <2>3 DEF Stays
  <2>5. \A x \in b.out : Speaks(i, b, x)
    BY <2>1, <2>2, <2>4 DEF Speaks, IsRequest, IsGrant, IsAppend
  <2> QED
    BY <2>1, <2>3, <2>4, <2>5 DEF SafeCall, CommitStep, NextStep, Stays
<1> HIDE DEF l, s, c
<1> QED
  BY ONLY <1>2, <1>8, <1>9, <1>10, <1>11, <1>12

\* The server goes on unless ae contradicts it, and does not stand in another
\* term.
Goes(i, b, ae) ==
    /\ b.stopped # srv[i].stopped => /\ srv[i].current_term <= ae.term
                                     /\ Conflicts(srv[i], ae)
    /\ b.state = "candidate" => b.current_term = srv[i].current_term

LEMMA AppendEntriesSafe ==
    ASSUME SafetyInv, NEW i \in Server, NEW cb \in Callbacks, NEW ae \in net,
           IsAppend(ae), ae.dst = i
    PROVE  LET b == raft_recv_appendentries(With(i, cb), ae)
           IN  SafeCall(i, b) /\ Goes(i, b, ae)
<1> DEFINE me == With(i, cb)
           up == \/ me.current_term < ae.term
                 \/ me.state = "candidate" /\ me.current_term = ae.term
           t == raft_set_current_term(me, ae.term)
           m == IF up THEN raft_become_follower(t) ELSE me
           f == [m EXCEPT !.current_leader = ae.src, !.late = FALSE]
           b == raft_recv_appendentries(me, ae)
<1> SUFFICES SafeCall(i, b) /\ Goes(i, b, ae)
  OBVIOUS
<1>0. ReplicationInv
  BY DEF SafetyInv
<1>1. /\ WellTyped(i, me) /\ SameLog(srv[i], me) /\ me.out = {} /\ me.cb = cb
      /\ Stays(srv[i], me) /\ me.stopped = srv[i].stopped
  <2>1. me.stopped = srv[i].stopped
    BY <1>0 DEF ReplicationInv, ElectionInv, ElectionType, ServerOK, With, Fields
  <2> QED
    BY <1>0, <2>1, TypedWith, WithStays
<1>2. /\ ae.src \in Server /\ ae.term \in Nat /\ AppendTyped(ae) /\ ae.src # i
  BY <1>0 DEF ReplicationInv, ElectionInv, ElectionType, Message, ReplicationType, AppendTyped
<1>3. \/ b = Refuse(me, ae)
      \/ /\ ~(ae.term < me.current_term)
         /\ \/ 0 < ae.prev_log_idx /\ b = CheckPrev(f, ae)
            \/ ~(0 < ae.prev_log_idx) /\ b = AcceptEntries(f, ae)
  BY DEF raft_recv_appendentries
<1>4. cb.log_offer \in Nat /\ me.current_term \in Nat /\ DOMAIN me = Fields
  BY <1>1, OfferNat DEF WellTyped, ServerOK
<1>5. /\ srv[i].state = me.state /\ srv[i].current_term = me.current_term
      /\ srv[i].log = me.log /\ Len(me.log) \in Nat
  BY <1>1 DEF SameLog, WellTyped, Typed
<1> HIDE DEF me, b
\* An answer is no request, no vote and no appendentries.
<1>6. ASSUME NEW n, NEW x, Reply(i, n, ae, x) PROVE Reports(b, x)
  BY <1>6 DEF Reply, Reports, IsResponse, IsRequest, IsGrant
<1>7. CASE b = Refuse(me, ae)
  <2>1. Handled(i, me, ae, b)
    BY <1>1, <1>2, <1>7, RefuseHandled
  <2>2. SameLog(me, b) /\ Stays(me, b)
    BY <1>4, <1>7 DEF Refuse, Answer, SameLog, Stays, Fields
  <2>3. Stays(srv[i], b)
    BY <1>1, <2>2, StaysTrans
  <2>4. \A x \in b.out : Reports(b, x)
    BY <1>1, <1>6, <2>1 DEF Handled
  <2>5. b.state = srv[i].state /\ b.log = srv[i].log /\ Len(b.log) <= Len(b.log)
    BY <1>5, <2>2 DEF SameLog
  <2>6. 1 < N => NextStep(i, b)
    <3>1. b.next_idx = srv[i].next_idx /\ Len(b.log) \in Nat
      BY <1>5, <2>3, <2>5 DEF Stays
    <3> QED
      BY <2>5, <3>1, StaysNext
  <2>7. FsmStep(i, b) /\ b.commit_idx = srv[i].commit_idx
    BY <2>3, StaysFsm DEF Stays
  <2>8. b.stopped = me.stopped /\ b.current_term = me.current_term
    BY <1>4, <1>7 DEF Refuse, Answer, Fields
  <2>9. Goes(i, b, ae)
    BY <1>1, <1>5, <2>8 DEF Goes
  <2> QED
    BY <2>4, <2>6, <2>7, <2>9 DEF SafeCall, CommitStep, Speaks, Reports
<1>8. CASE ~(ae.term < me.current_term) /\ Handled(i, f, ae, b)
  <2>1. /\ f.state = "follower" /\ f.current_term = ae.term /\ f.out = {}
        /\ Stays(me, f) /\ f.log = me.log /\ f.stopped = me.stopped
    <3>1. CASE up
      BY <1>1, <1>2, <1>4, <3>1, <1>8
         DEF raft_become_follower, raft_set_current_term, Fields, Stays
    <3>2. CASE ~up
      <4>1. me.current_term = ae.term /\ me.state # "candidate"
        BY <1>2, <1>4, <1>8, <3>2
      <4>2. me.state # "leader"
        BY <1>0, <1>2, <1>5, <4>1, LeaderSends
      <4>3. me.state = "follower"
        BY <1>1, <4>1, <4>2 DEF WellTyped, Typed
      <4> QED
        BY <1>1, <1>4, <3>2, <4>1, <4>3 DEF Fields, Stays
    <3> QED
      BY <3>1, <3>2
  <2> HIDE DEF f
  <2>2. /\ b.state = "follower" /\ b.current_term = ae.term /\ b.fsm = f.fsm
        /\ LearnsCommit(f, ae, b)
    BY <1>8, <2>1 DEF Handled
  <2>3. FsmStep(i, b) /\ f.commit_idx = srv[i].commit_idx
    BY <1>1, <2>1, <2>2 DEF FsmStep, Stays
  <2>4. CommitStep(i, b)
    BY <2>2, <2>3 DEF CommitStep, FollowerCommits, LearnsCommit
  <2>5. NextStep(i, b)
    BY <2>2 DEF NextStep
  <2>6. \A x \in b.out : Reports(b, x)
    BY <1>6, <1>8, <2>1 DEF Handled
  <2>7. \A x \in b.out : Speaks(i, b, x)
    BY <2>6 DEF Speaks, Reports
  <2>8. Goes(i, b, ae)
    <3>1. f.log = srv[i].log /\ f.stopped = srv[i].stopped
      BY <1>1, <1>5, <2>1
    <3>2. b.stopped # f.stopped => Conflicts(f, ae)
      BY <1>8 DEF Handled
    <3>3. Conflicts(f, ae) => Conflicts(srv[i], ae)
      BY <2>3, <3>1 DEF Conflicts
    <3>4. srv[i].current_term <= ae.term
      BY <1>2, <1>4, <1>5, <1>8
    <3> QED
      BY <2>2, <3>1, <3>2, <3>3, <3>4 DEF Goes
  <2> QED
    BY <2>3, <2>4, <2>5, <2>7, <2>8 DEF SafeCall
<1>9. WellTyped(i, f) /\ f.cb = cb
  <2>1. CASE up
    <3>1. ServerOK(i, t) /\ t.cb = cb
      BY <1>1, <1>2, SetTermOK DEF WellTyped
    <3>2. SameData(me, t)
      BY <1>4 DEF raft_set_current_term, SameData, Fields
    <3> HIDE DEF t
    <3>3. ServerOK(i, f) /\ SameData(me, f) /\ f.cb = cb /\ f.state = "follower"
          /\ f.current_leader = ae.src
      BY <2>1, <3>1, <3>2 DEF raft_become_follower, ServerOK, SameData, Fields
    <3> HIDE DEF f
    <3> QED
      BY <1>1, <1>2, <3>3, SameDataTyped DEF WellTyped
  <2>2. CASE ~up
    <3>1. ServerOK(i, f) /\ SameData(me, f) /\ f.cb = cb /\ f.state = me.state
          /\ f.current_leader = ae.src
      BY <1>1, <2>2 DEF WellTyped, ServerOK, SameData, Fields
    <3>2. me.state \in {"follower", "candidate", "leader"}
      BY <1>1 DEF WellTyped, Typed
    <3> HIDE DEF f
    <3> QED
      BY <1>1, <1>2, <3>1, <3>2, SameDataTyped DEF WellTyped
  <2> QED
    BY <2>1, <2>2
<1> HIDE DEF f
<1>10. ae.prev_log_idx \in Nat
  BY <1>2 DEF AppendTyped, Segment, MsgSeg
<1> QED
  BY <1>2, <1>3, <1>4, <1>7, <1>8, <1>9, <1>10, CheckPrevHandled

\* The peers that have acknowledged x and i are a majority.
LEMMA MatchMajority ==
    ASSUME NEW i \in Server, NEW S \in SUBSET (Server \ {i}),
           N \div 2 < 1 + Cardinality(S)
    PROVE  Majority(S \cup {i})
<1>1. IsFiniteSet(Server)
  BY NAssumption, FS_Interval DEF Server
<1>2. IsFiniteSet(S) /\ i \notin S
  BY <1>1, FS_Subset
<1>3. Cardinality(S) \in Nat /\ Cardinality(S \cup {i}) = Cardinality(S) + 1
  BY <1>2, FS_CardinalityType, FS_AddElement
<1>4. N < 2 * Cardinality(S \cup {i})
  BY <1>3, NAssumption
<1> QED
  BY <1>4 DEF Majority

\* A refusal: the next index goes back, but not beyond the end of the log.
LEMMA BackOffSafe ==
    ASSUME NEW i \in Server, NEW me, WellTyped(i, me), me.state = "leader", me.out = {},
           \A j \in Server : j # i => me.next_idx[j] <= Len(me.log) + 1,
           NEW k \in Server, k # i, NEW r, r.current_idx \in Nat
    PROVE  LET b == BackOff(me, k, r)
           IN  /\ b.fsm = me.fsm /\ b.commit_idx = me.commit_idx
               /\ \A j \in Server : j # i => b.next_idx[j] <= Len(me.log) + 1
               /\ \A m \in b.out : Reports(b, m)
<1> DEFINE next == me.next_idx[k]
           idx == IF r.current_idx < next - 1
                  THEN Lesser(r.current_idx + 1, raft_get_current_idx(me)) ELSE next - 1
           m == raft_node_set_next_idx(me, k, idx)
           s == raft_send_appendentries(m, {k})
           b == BackOff(me, k, r)
<1>1. /\ DOMAIN me = Fields /\ next \in Nat \ {0} /\ Len(me.log) \in Nat
      /\ raft_get_current_idx(me) = Len(me.log) /\ me.next_idx \in [Server -> Nat \ {0}]
  BY CurrentIdx DEF WellTyped, ServerOK, Typed
<1>2. idx \in Nat /\ idx <= Len(me.log) + 1
  <2>1. next <= Len(me.log) + 1
    OBVIOUS
  <2>2. Lesser(r.current_idx + 1, Len(me.log)) \in Nat
        /\ Lesser(r.current_idx + 1, Len(me.log)) <= Len(me.log)
    BY <1>1 DEF Lesser
  <2> HIDE DEF next
  <2> QED
    BY <1>1, <2>1, <2>2
<1>3. b = Abort(me, "next_idx") \/ b = me \/ b = s
  BY DEF BackOff
<1> HIDE DEF idx, b
<1>4. Greater(idx, 1) \in Nat \ {0} /\ Greater(idx, 1) <= Len(me.log) + 1
  BY <1>1, <1>2 DEF Greater
<1>5. CASE b = Abort(me, "next_idx")
  BY <1>5, AbortStays DEF Stays, b
<1>6. CASE b = me
  BY <1>6 DEF b
<1>7. CASE b = s
  <2> DEFINE q == [me.next_idx EXCEPT ![k] = Greater(idx, 1)]
  <2>1. m = [me EXCEPT !.next_idx = q]
    BY <1>1 DEF raft_node_set_next_idx, Fields
  <2>2. /\ q \in [Server -> Nat \ {0}]
        /\ \A j \in Server : j # i => q[j] <= Len(me.log) + 1
    BY <1>1, <1>4
  <2> HIDE DEF q, m
  <2>3. /\ ServerOK(i, m) /\ Typed(m) /\ m.state = "leader" /\ m.out = {}
        /\ m.log = me.log /\ m.next_idx = q /\ m.fsm = me.fsm
        /\ m.commit_idx = me.commit_idx
    BY <1>1, <2>1, <2>2 DEF WellTyped, ServerOK, Typed, Fields
  <2>4. {k} \in SUBSET (Server \ {i}) /\ \A j \in {k} : m.next_idx[j] <= Len(m.log) + 1
    BY <2>2, <2>3
  <2>5. Stays(m, s) /\ \A x \in s.out : x \notin m.out => Reports(s, x)
    BY <2>3, <2>4, SendReports DEF WellTyped
  <2> HIDE DEF s
  <2> QED
    BY <1>7, <2>2, <2>3, <2>5 DEF Stays, b
<1> QED
  BY <1>3, <1>5, <1>6, <1>7

LEMMA AppendEntriesResponseSafe ==
    ASSUME SafetyInv, NEW i \in Server, NEW cb, NEW r \in net,
           IsResponse(r), r.dst = i
    PROVE  SafeCall(i, raft_recv_appendentries_response(With(i, cb), r))
<1> DEFINE me == With(i, cb)
           k == r.src
           x == r.current_idx
           n == [raft_node_set_next_idx(me, k, x + 1) EXCEPT !.match_idx[k] = x]
           m == raft_leader_commit(n, x)
           b == raft_recv_appendentries_response(me, r)
<1> SUFFICES SafeCall(i, b)
  OBVIOUS
<1>0. ReplicationInv /\ (1 < N => Sent)
  BY DEF SafetyInv
<1>1. /\ WellTyped(i, me) /\ SameLog(srv[i], me) /\ me.out = {} /\ Stays(srv[i], me)
  BY <1>0, TypedWith, WithStays
<1>2. k \in Server /\ k # i /\ x \in Nat /\ r.term \in Nat
  BY <1>0 DEF ReplicationInv, ElectionInv, ElectionType, Message, ReplicationType, ResponseTyped
<1>20. 1 < N
  BY <1>2, NAssumption DEF Server
<1>3. \/ b = me
      \/ me.current_term < r.term /\ b = StepDown(me, r.term)
      \/ me.state = "leader" /\ b = BackOff(me, k, r)
      \/ b = Abort(me, "response beyond log")
      \/ /\ me.state = "leader" /\ ~(raft_get_current_idx(me) < x)
         /\ b = raft_send_appendentries(m, {k}) \/ b = m
  BY Zenon DEF raft_recv_appendentries_response
<1>4. /\ srv[i].state = me.state /\ srv[i].current_term = me.current_term
      /\ srv[i].log = me.log /\ DOMAIN me = Fields /\ me.current_term \in Nat
      /\ me.log \in Seq(Entries) /\ Len(me.log) \in Nat
      /\ me.fsm = srv[i].fsm /\ me.commit_idx = srv[i].commit_idx
      /\ me.next_idx = srv[i].next_idx /\ me.next_idx \in [Server -> Nat \ {0}]
      /\ me.match_idx \in [Server -> Nat] /\ me.match_idx[i] = 0 /\ me.id = i
      /\ me.commit_idx \in Nat
  BY <1>1 DEF SameLog, WellTyped, ServerOK, Typed, Stays
<1> HIDE DEF me, b
\* The server is as before the call, but for its role.
<1>5. ASSUME Stays(srv[i], b), b.log = srv[i].log, b.state = "leader" => srv[i].state = "leader",
             b.out = {}
      PROVE  SafeCall(i, b)
  <2>1. FsmStep(i, b) /\ b.commit_idx = srv[i].commit_idx /\ b.next_idx = srv[i].next_idx
    BY <1>5, StaysFsm DEF Stays
  <2>2. Len(srv[i].log) <= Len(b.log) /\ Len(b.log) \in Nat
    BY <1>4, <1>5
  <2>3. NextStep(i, b)
    BY <1>5, <1>20, <2>1, <2>2, StaysNext
  <2> QED
    BY <1>5, <2>1, <2>3 DEF SafeCall, CommitStep
<1>6. CASE b = me
  BY <1>1, <1>4, <1>5, <1>6
<1>7. CASE me.current_term < r.term /\ b = StepDown(me, r.term)
  <2>1. b.log = me.log /\ b.state = "follower" /\ b.out = {} /\ Stays(me, b)
    BY <1>1, <1>2, <1>7, StepDownTyped, StepDownStays
  <2> QED
    BY <1>1, <1>4, <1>5, <2>1, StaysTrans
<1>8. CASE b = Abort(me, "response beyond log")
  <2>1. Stays(me, b) /\ b.out = {} /\ SameLog(me, b)
    BY <1>1, <1>8, AbortStays, AbortCarries DEF Carries
  <2> QED
    BY <1>1, <1>4, <1>5, <2>1, StaysTrans DEF SameLog
<1>9. ASSUME me.state = "leader"
      PROVE  \A j \in Server : j # i => me.next_idx[j] <= Len(me.log) + 1
  BY <1>0, <1>4, <1>9, <1>20 DEF Sent
<1>10. CASE me.state = "leader" /\ b = BackOff(me, k, r)
  <2>1. /\ b.fsm = me.fsm /\ b.commit_idx = me.commit_idx
        /\ \A j \in Server : j # i => b.next_idx[j] <= Len(me.log) + 1
        /\ \A y \in b.out : Reports(b, y)
    BY <1>1, <1>2, <1>9, <1>10, BackOffSafe
  <2>2. b.log = me.log
    BY <1>1, <1>2, <1>10, BackOffCarries DEF Carries, SameLog
  <2>3. FsmStep(i, b) /\ NextStep(i, b) /\ b.commit_idx = srv[i].commit_idx
    BY <1>4, <2>1, <2>2 DEF FsmStep, NextStep
  <2> QED
    BY <2>1, <2>3, SendsSafe
<1>11. CASE /\ me.state = "leader" /\ ~(raft_get_current_idx(me) < x)
            /\ b = raft_send_appendentries(m, {k}) \/ b = m
  <2> DEFINE next == [me.next_idx EXCEPT ![k] = Greater(x + 1, 1)]
             match == [me.match_idx EXCEPT ![k] = x]
  <2>1. n = [me EXCEPT !.next_idx = next, !.match_idx = match]
    BY <1>4 DEF raft_node_set_next_idx, Fields
  <2>2. x <= Len(me.log)
    BY <1>1, <1>2, <1>4, <1>11, CurrentIdx DEF WellTyped
  <2>3. /\ next \in [Server -> Nat \ {0}]
        /\ \A j \in Server : j # i => next[j] <= Len(me.log) + 1
    <3>1. Greater(x + 1, 1) \in Nat \ {0} /\ Greater(x + 1, 1) <= Len(me.log) + 1
      BY <1>2, <1>4, <2>2 DEF Greater
    <3> QED
      BY <1>2, <1>4, <1>9, <1>11, <3>1
  <2>4. match \in [Server -> Nat] /\ match[i] = 0
    BY <1>2, <1>4
  <2> HIDE DEF n, next, match
  <2>5. /\ WellTyped(i, n) /\ n.state = "leader" /\ n.out = {} /\ n.match_idx = match
        /\ n.log = me.log /\ n.current_term = me.current_term /\ n.next_idx = next
        /\ n.fsm = me.fsm /\ n.commit_idx = me.commit_idx /\ n.id = i
    BY <1>1, <1>4, <1>11, <2>1, <2>3, <2>4 DEF WellTyped, ServerOK, Typed, Fields
\* The leader commits x or nothing.
  <2>6. /\ WellTyped(i, m) /\ Carries(n, m) /\ m.fsm = n.fsm /\ m.next_idx = n.next_idx
        /\ m.out = {}
        /\ \/ m.commit_idx = n.commit_idx
           \/ /\ m.commit_idx = x /\ n.commit_idx < x
              /\ EntryAt(n, x).term = n.current_term
              /\ N \div 2 < 1 + Cardinality({j \in Peers(n) : x <= n.match_idx[j]})
    <3>1. WellTyped(i, m) /\ Carries(n, m)
      BY <1>2, <2>5, LeaderCommitCarries
    <3>2. m = n \/ (/\ m = raft_set_commit_idx(n, x) /\ n.commit_idx < x
                    /\ EntryAt(n, x).term = n.current_term
                    /\ N \div 2 < 1 + Cardinality({j \in Peers(n) : x <= n.match_idx[j]}))
      BY DEF raft_leader_commit
    <3>3. /\ raft_set_commit_idx(n, x).fsm = n.fsm
          /\ raft_set_commit_idx(n, x).next_idx = n.next_idx
          /\ raft_set_commit_idx(n, x).out = {}
          /\ raft_set_commit_idx(n, x).commit_idx \in {n.commit_idx, x}
      BY <2>5 DEF raft_set_commit_idx, Abort, WellTyped, ServerOK, Fields
    <3> HIDE DEF m
    <3> QED
      BY <2>5, <3>1, <3>2, <3>3
  <2> HIDE DEF m
  <2>7. m.state = "leader" /\ m.log = me.log /\ m.match_idx = match
    BY <2>5, <2>6 DEF Carries, SameLog
  <2>8. /\ b.state = "leader" /\ b.log = me.log /\ b.match_idx = match /\ Stays(m, b)
        /\ \A y \in b.out : Reports(b, y)
    <3>1. {k} \in SUBSET (Server \ {i}) /\ \A j \in {k} : m.next_idx[j] <= Len(m.log) + 1
      BY <1>2, <2>3, <2>5, <2>6, <2>7
    <3>2. CASE b = m
      BY <2>6, <2>7, <3>2 DEF Stays
    <3>3. CASE b = raft_send_appendentries(m, {k})
      <4>1. Carries(m, b)
        BY <2>6, <2>7, <3>1, <3>3, SendCarries
      <4>2. Stays(m, b) /\ \A y \in b.out : y \notin m.out => Reports(b, y)
        BY <2>6, <2>7, <3>1, <3>3, SendReports
      <4> QED
        BY <2>6, <2>7, <4>1, <4>2 DEF Carries, SameLog
    <3> QED
      BY <1>11, <3>2, <3>3
  <2>9. FsmStep(i, b)
    BY <1>4, <2>5, <2>6, <2>8 DEF FsmStep, Stays
  <2>10. NextStep(i, b)
    BY <2>3, <2>5, <2>6, <2>8 DEF NextStep, Stays
  <2>11. CommitStep(i, b)
    <3>1. CASE m.commit_idx = n.commit_idx
      BY <1>4, <2>5, <2>8, <3>1 DEF CommitStep, Stays
    <3>2. CASE /\ m.commit_idx = x /\ n.commit_idx < x
               /\ EntryAt(n, x).term = n.current_term
               /\ N \div 2 < 1 + Cardinality({j \in Peers(n) : x <= n.match_idx[j]})
      <4> DEFINE S == {j \in Peers(n) : x <= n.match_idx[j]}
      <4>1. x \in 1 .. Len(me.log) /\ b.commit_idx = x
        BY <1>2, <1>4, <2>2, <2>5, <2>8, <3>2 DEF Stays
      <4>2. srv[i].log[x].term = srv[i].current_term
        <5>1. EntryAt(n, x) = me.log[x]
          BY <2>5, <4>1, CurrentIdx DEF WellTyped
        <5> QED
          BY <1>4, <2>5, <3>2, <5>1
      <4>3. S \in SUBSET (Server \ {i})
        BY <2>5 DEF Peers
      <4>4. \A j \in S \cup {i} : j = i \/ b.commit_idx <= b.match_idx[j]
        BY <2>5, <2>8, <4>1
      <4> HIDE DEF S
      <4>5. Majority(S \cup {i}) /\ S \cup {i} \in SUBSET Server
        BY <3>2, <4>3, MatchMajority DEF S
      <4>6. LeaderCommits(i, b)
        BY <1>4, <1>11, <2>8, <4>1, <4>2, <4>4, <4>5 DEF LeaderCommits
      <4> QED
        BY <4>6 DEF CommitStep
    <3> QED
      BY <2>6, <3>1, <3>2
  <2> QED
    BY <2>8, <2>9, <2>10, <2>11 DEF SafeCall, Speaks, Reports
<1> HIDE DEF m
<1> QED
  BY <1>3, <1>6, <1>7, <1>8, <1>10, <1>11

LEMMA VoteAnswerOut ==
    ASSUME NEW i \in Server, NEW me, WellTyped(i, me), NEW vr, NEW granted
    PROVE  LET b == VoteAnswer(me, vr, granted)
           IN  /\ Stays(me, b)
               /\ \A m \in b.out : m \notin me.out =>
                     /\ m.type = "requestvote_response" /\ m.dst = vr.src
                     /\ m.term = me.current_term
<1> DEFINE r == [type |-> "requestvote_response", src |-> me.id, dst |-> vr.src,
                 term |-> me.current_term, vote_granted |-> granted]
           b == VoteAnswer(me, vr, granted)
<1>1. DOMAIN me = Fields
  BY DEF WellTyped, ServerOK
<1>2. r.type = "requestvote_response" /\ r.dst = vr.src /\ r.term = me.current_term
  OBVIOUS
<1> HIDE DEF r
<1>4. b = [me EXCEPT !.out = @ \cup {r}]
  BY DEF VoteAnswer, r
<1>5. Stays(me, b) /\ b.out = me.out \cup {r}
  BY <1>1, <1>4 DEF Stays, Fields
<1> HIDE DEF b
<1> QED
  BY <1>2, <1>5 DEF b

LEMMA VoteRefused ==
    ASSUME NEW i \in Server, NEW me, WellTyped(i, me), NEW vr
    PROVE  \A m \in VoteAnswer(me, vr, FALSE).out : m \notin me.out => ~IsGrant(m)
<1> DEFINE r == [type |-> "requestvote_response", src |-> me.id, dst |-> vr.src,
                 term |-> me.current_term, vote_granted |-> FALSE]
           b == VoteAnswer(me, vr, FALSE)
<1>1. DOMAIN me = Fields
  BY DEF WellTyped, ServerOK
<1>2. r.vote_granted = FALSE
  BY Zenon
<1>3. ~IsGrant(r)
  BY <1>2, Zenon DEF IsGrant
<1> HIDE DEF r
<1>4. b = [me EXCEPT !.out = @ \cup {r}]
  BY DEF VoteAnswer, r
<1>5. b.out = me.out \cup {r}
  BY <1>1, <1>4 DEF Fields
<1> HIDE DEF b
<1> QED
  BY <1>3, <1>5 DEF b

LEMMA RequestVoteSafe ==
    ASSUME SafetyInv, NEW i \in Server, NEW cb, NEW vr \in net, IsRequest(vr), vr.dst = i
    PROVE  SafeCall(i, raft_recv_requestvote(With(i, cb), vr))
<1> DEFINE me == With(i, cb)
           m == IF me.current_term < vr.term THEN StepDown(me, vr.term) ELSE me
           v == raft_vote_for_nodeid(m, vr.src)
           w == [v EXCEPT !.current_leader = Nil, !.late = FALSE]
           b == raft_recv_requestvote(me, vr)
<1> SUFFICES SafeCall(i, b)
  OBVIOUS
<1>0. ReplicationInv
  BY DEF SafetyInv
<1>1. WellTyped(i, me) /\ SameLog(srv[i], me) /\ me.out = {} /\ Stays(srv[i], me)
  BY <1>0, TypedWith, WithStays
<1>2. vr.src \in Server /\ vr.term \in Nat
  BY <1>0 DEF ReplicationInv, ElectionInv, ElectionType, Message
<1>3. \/ b = VoteAnswer(me, vr, FALSE)
      \/ b = VoteAnswer(m, vr, FALSE)
      \/ b = Abort(m, "leader or candidate grants")
      \/ /\ m.state = "follower" /\ b = VoteAnswer(w, vr, m.cb.persist_vote)
         /\ __should_grant_vote(m, vr)
  BY DEF raft_recv_requestvote
<1>4. /\ srv[i].current_term = me.current_term /\ srv[i].log = me.log
      /\ me.current_term \in Nat /\ srv[i].state = me.state
      /\ me.log \in Seq(Entries) /\ Len(me.log) \in Nat
  BY <1>1 DEF SameLog, WellTyped, ServerOK, Typed
<1>5. /\ WellTyped(i, m) /\ m.out = {} /\ m.log = me.log /\ Stays(srv[i], m)
      /\ m.state = me.state \/ m.state = "follower"
      /\ m.current_term \in Nat /\ vr.term <= m.current_term
  <2>1. CASE me.current_term < vr.term
    <3> HIDE DEF me
    <3>1. Stays(srv[i], m)
      BY <1>1, <2>1, StepDownStays, StaysTrans
    <3> QED
      BY <1>1, <1>2, <1>4, <2>1, <3>1, StepDownTyped
  <2>2. CASE ~(me.current_term < vr.term)
    BY <1>1, <1>2, <1>4, <2>2
  <2> QED
    BY <2>1, <2>2
<1> HIDE DEF me, m, b
<1>6. ASSUME Stays(srv[i], b), b.log = srv[i].log, b.state \in {srv[i].state, "follower"},
             \A x \in b.out : Speaks(i, b, x)
      PROVE  SafeCall(i, b)
  <2>1. FsmStep(i, b) /\ b.commit_idx = srv[i].commit_idx /\ b.next_idx = srv[i].next_idx
    BY <1>6, StaysFsm DEF Stays
  <2>2. Len(srv[i].log) <= Len(b.log) /\ Len(b.log) \in Nat
    BY <1>4, <1>6
  <2>3. 1 < N => NextStep(i, b)
    BY <1>6, <2>1, <2>2, StaysNext
  <2> QED
    BY <1>6, <2>1, <2>3 DEF SafeCall, CommitStep
\* A refusal.
<1>7. ASSUME NEW n, WellTyped(i, n), n.out = {}, Stays(srv[i], n), n.log = srv[i].log,
             n.state \in {srv[i].state, "follower"}, b = VoteAnswer(n, vr, FALSE)
      PROVE  SafeCall(i, b)
  <2>1. Carries(n, b)
    BY <1>2, <1>7, VoteAnswerCarries
  <2>2. Stays(n, b) /\ \A x \in b.out : /\ x.type = "requestvote_response"
                                        /\ ~IsGrant(x)
    <3>1. Stays(n, b) /\ \A x \in b.out : x \notin n.out => x.type = "requestvote_response"
      <4> DEFINE c == FALSE
      <4>1. b = VoteAnswer(n, vr, c)
        BY <1>7
      <4>2. WellTyped(i, n)
        BY <1>7
      <4> HIDE DEF c
      <4> QED
        BY ONLY <4>1, <4>2, i \in Server, VoteAnswerOut
    <3>2. \A x \in b.out : x \notin n.out => ~IsGrant(x)
      BY <1>7, VoteRefused
    <3> QED
      BY <1>7, <3>1, <3>2
  <2>3. \A x \in b.out : Speaks(i, b, x)
    BY <2>2 DEF Speaks, IsRequest, IsAppend
  <2> QED
    BY <1>6, <1>7, <2>1, <2>2, <2>3, StaysTrans DEF Carries, SameLog
<1>8. CASE b = VoteAnswer(me, vr, FALSE)
  BY <1>1, <1>4, <1>7, <1>8
<1>9. CASE b = VoteAnswer(m, vr, FALSE)
  BY <1>4, <1>5, <1>7, <1>9
<1>10. CASE b = Abort(m, "leader or candidate grants")
  <2>1. Carries(m, b) /\ Stays(m, b) /\ b.out = {}
    BY <1>5, <1>10, AbortCarries, AbortStays
  <2> QED
    BY <1>4, <1>5, <1>6, <2>1, StaysTrans DEF Carries, SameLog
<1>11. CASE /\ m.state = "follower" /\ b = VoteAnswer(w, vr, m.cb.persist_vote)
            /\ __should_grant_vote(m, vr)
  <2>1. ServerOK(i, v) /\ v.out = {} /\ v.state = "follower"
        /\ v.current_term = m.current_term
    BY <1>2, <1>5, <1>11, VoteOK DEF WellTyped
  <2>2. SameData(m, v)
    BY <1>5 DEF raft_vote_for_nodeid, SameData, WellTyped, ServerOK, Fields
  <2> HIDE DEF v
  <2>3. /\ ServerOK(i, w) /\ SameData(m, w) /\ w.out = {} /\ w.state = "follower"
        /\ w.current_term = m.current_term /\ w.current_leader = Nil /\ Stays(m, w)
    BY <2>1, <2>2 DEF ServerOK, SameData, Stays, Fields
  <2> HIDE DEF w
  <2>4. WellTyped(i, w)
    BY <1>5, <2>3, SameDataTyped DEF WellTyped
  <2>5. /\ Carries(w, b) /\ Stays(w, b)
        /\ \A x \in b.out : /\ x.type = "requestvote_response" /\ x.dst = vr.src
                            /\ x.term = w.current_term
    <3> DEFINE c == m.cb.persist_vote
    <3>1. b = VoteAnswer(w, vr, c)
      BY <1>11
    <3> HIDE DEF c
    <3>2. Carries(w, b)
      BY <1>2, <2>4, <3>1, VoteAnswerCarries
    <3>3. /\ Stays(w, b)
          /\ \A x \in b.out : x \notin w.out =>
                /\ x.type = "requestvote_response" /\ x.dst = vr.src
                /\ x.term = w.current_term
      BY <2>4, <3>1, VoteAnswerOut
    <3> QED
      BY <2>3, <3>2, <3>3
  <2>6. vr.term = m.current_term
    BY <1>2, <1>5, <1>11 DEF __should_grant_vote
  <2>7. UpToDate(vr, m.log)
    <3>1. /\ raft_get_current_idx(m) = Len(m.log) /\ Len(m.log) \in Nat
          /\ \A idx : HasEntry(m, idx) <=> idx \in 1 .. Len(m.log)
          /\ \A idx \in 1 .. Len(m.log) : EntryAt(m, idx) = m.log[idx]
      BY <1>5, CurrentIdx DEF WellTyped
    <3>2. CASE Len(m.log) = 0
      BY <3>2 DEF UpToDate
    <3>3. CASE Len(m.log) # 0
      <4>1. Len(m.log) \in 1 .. Len(m.log)
        BY <3>1, <3>3
      <4>2. HasEntry(m, Len(m.log)) /\ EntryAt(m, Len(m.log)) = m.log[Len(m.log)]
        BY <3>1, <4>1
      <4> QED
        BY <1>11, <3>1, <3>3, <4>2 DEF __should_grant_vote, UpToDate
    <3> QED
      BY <3>2, <3>3
  <2>8. /\ b.log = m.log /\ b.state = "follower" /\ b.log = srv[i].log
    BY <1>4, <1>5, <2>3, <2>5 DEF Carries, SameLog, SameData
  <2>9. \A x \in b.out : Speaks(i, b, x)
    BY <2>3, <2>5, <2>6, <2>7, <2>8 DEF Speaks, IsRequest, IsAppend
  <2>10. Stays(srv[i], b)
    BY <1>5, <2>3, <2>5, StaysTrans
  <2> QED
    BY <1>6, <2>8, <2>9, <2>10
<1> HIDE DEF w, v
<1> QED
  BY <1>3, <1>8, <1>9, <1>10, <1>11

LEMMA RequestVoteResponseSafe ==
    ASSUME SafetyInv, NEW i \in Server, NEW cb, NEW r \in net, r.dst = i
    PROVE  SafeCall(i, raft_recv_requestvote_response(With(i, cb), r))
<1> DEFINE me == With(i, cb)
           m == [me EXCEPT !.votes = @ \cup {r.src}]
           b == raft_recv_requestvote_response(me, r)
<1> SUFFICES SafeCall(i, b)
  OBVIOUS
<1>0. ReplicationInv
  BY DEF SafetyInv
<1>1. WellTyped(i, me) /\ SameLog(srv[i], me) /\ me.out = {} /\ Stays(srv[i], me)
  BY <1>0, TypedWith, WithStays
<1>2. r.src \in Server /\ r.term \in Nat
  BY <1>0 DEF ReplicationInv, ElectionInv, ElectionType, Message
<1>3. \/ b = me
      \/ me.current_term < r.term /\ b = StepDown(me, r.term)
      \/ b = m
      \/ me.state = "candidate" /\ b = raft_become_leader(m)
  BY DEF raft_recv_requestvote_response
<1>4. /\ srv[i].current_term = me.current_term /\ srv[i].log = me.log
      /\ srv[i].state = me.state /\ me.current_term \in Nat /\ DOMAIN me = Fields
      /\ Len(me.log) \in Nat
  BY <1>1 DEF SameLog, WellTyped, ServerOK, Typed
<1>5. ServerOK(i, m) /\ SameData(me, m) /\ m.out = {} /\ Stays(me, m)
      /\ m.state = me.state /\ m.current_leader = me.current_leader
  BY <1>1, <1>2, <1>4 DEF WellTyped, ServerOK, SameData, Stays, Fields
<1> HIDE DEF me, m, b
<1>6. WellTyped(i, m) /\ m.log = me.log
  BY <1>1, <1>5, SameDataTyped DEF WellTyped, Typed, SameData
<1>7. ASSUME Stays(srv[i], b), b.log = srv[i].log, b.state \in {srv[i].state, "follower"},
             b.out = {}
      PROVE  SafeCall(i, b)
  <2>1. FsmStep(i, b) /\ b.commit_idx = srv[i].commit_idx /\ b.next_idx = srv[i].next_idx
    BY <1>7, StaysFsm DEF Stays
  <2>2. Len(srv[i].log) <= Len(b.log) /\ Len(b.log) \in Nat
    BY <1>4, <1>7
  <2>3. 1 < N => NextStep(i, b)
    BY <1>7, <2>1, <2>2, StaysNext
  <2> QED
    BY <1>7, <2>1, <2>3 DEF SafeCall, CommitStep
<1>8. CASE b = me
  BY <1>1, <1>4, <1>7, <1>8
<1>9. CASE me.current_term < r.term /\ b = StepDown(me, r.term)
  <2>1. b.log = me.log /\ b.state = "follower" /\ b.out = {} /\ Stays(me, b)
    BY <1>1, <1>2, <1>9, StepDownTyped, StepDownStays
  <2> QED
    BY <1>1, <1>4, <1>7, <2>1, StaysTrans
<1>10. CASE b = m
  BY <1>1, <1>4, <1>5, <1>6, <1>7, <1>10, StaysTrans
<1>11. CASE me.state = "candidate" /\ b = raft_become_leader(m)
  <2>1. b.log = m.log
    BY <1>5, <1>6, <1>11, LeaderTyped
  <2>2. /\ b.fsm = m.fsm /\ b.commit_idx = m.commit_idx
        /\ \A k \in Server : k # i => b.next_idx[k] = Len(m.log) + 1
        /\ \A x \in b.out : Reports(b, x)
    BY <1>5, <1>6, <1>11, LeaderStays
  <2>3. FsmStep(i, b) /\ b.commit_idx = srv[i].commit_idx
    BY <1>1, <1>5, <2>2 DEF FsmStep, Stays
  <2>4. NextStep(i, b)
    BY <1>4, <1>6, <2>1, <2>2 DEF NextStep
  <2> QED
    BY <2>2, <2>3, <2>4, SendsSafe
<1> QED
  BY <1>3, <1>8, <1>9, <1>10, <1>11

LEMMA EntrySafe ==
    ASSUME SafetyInv, NEW i \in Server, NEW cb \in Callbacks, NEW id \in 1 .. MaxRequests,
           srv[i].state = "leader"
    PROVE  SafeCall(i, raft_recv_entry(With(i, cb), id))
<1> DEFINE me == With(i, cb)
           e == [term |-> me.current_term, id |-> id]
           m == raft_append_entry(me, e)
           ks == {k \in Peers(m) : m.next_idx[k] = raft_get_current_idx(m)}
           s == raft_send_appendentries(m, ks)
           c == raft_set_commit_idx(s, raft_get_current_idx(s))
           b == raft_recv_entry(me, id)
           q == <<e>>
           n == Lesser(me.cb.log_offer, Len(q))
<1> SUFFICES SafeCall(i, b)
  OBVIOUS
<1>0. ReplicationInv /\ (1 < N => Sent)
  BY DEF SafetyInv
<1>1. /\ WellTyped(i, me) /\ SameLog(srv[i], me) /\ me.out = {} /\ me.cb.log_offer \in Nat
      /\ Stays(srv[i], me)
  BY <1>0, TypedWith, OfferNat, WithStays
<1>2. b = m \/ b = s \/ (N = 1 /\ b = c)
  BY DEF raft_recv_entry
<1>3. /\ srv[i].log = me.log /\ srv[i].state = me.state /\ me.current_term \in Nat
      /\ Len(me.log) \in Nat
  BY <1>1 DEF SameLog, WellTyped, ServerOK, Typed
<1> HIDE DEF me, b
<1>4. q \in Seq(Entries) /\ Len(q) = 1
  BY <1>3 DEF Entries
<1>5. m = raft_append_entries(me, q)
  BY DEF raft_append_entry
<1> HIDE DEF e, q, m
<1>6. /\ WellTyped(i, m) /\ m.out = me.out /\ m.fsm = me.fsm /\ m.next_idx = me.next_idx
      /\ m.state = me.state /\ m.commit_idx = me.commit_idx
      /\ n \in 0 .. Len(q) /\ Len(m.log) = Len(me.log) + n
  <2>1. WellTyped(i, me) /\ me.cb.log_offer \in Nat /\ q \in Seq(Entries)
    BY <1>1, <1>4
  <2> QED
    BY <1>5, <2>1, AppendLog
<1> HIDE DEF n
<1>7. /\ Len(m.log) \in Nat /\ Len(me.log) <= Len(m.log) /\ m.id = i
  BY <1>3, <1>4, <1>6 DEF WellTyped, ServerOK
<1>8. 1 < N => \A k \in Server : k # i => m.next_idx[k] <= Len(m.log) + 1
  <2>1. me.next_idx = srv[i].next_idx /\ m.next_idx \in [Server -> Nat \ {0}]
    BY <1>1, <1>6 DEF Stays, WellTyped, Typed
  <2>2. 1 < N => \A k \in Server : k # i => m.next_idx[k] <= Len(me.log) + 1
    BY <1>0, <1>3, <1>6, <2>1 DEF Sent
  <2> QED
    BY <1>3, <1>7, <2>1, <2>2
<1>9. m.fsm = srv[i].fsm /\ m.commit_idx = srv[i].commit_idx /\ m.out = {}
      /\ m.state = "leader"
  BY <1>1, <1>3, <1>6 DEF Stays
<1>10. ks \in SUBSET (Server \ {i})
  BY <1>7 DEF Peers
<1> HIDE DEF ks
<1>11. WellTyped(i, s) /\ Carries(m, s)
  BY <1>6, <1>9, <1>10, SendCarries
<1>12. s.fsm = m.fsm
  BY <1>6 DEF raft_send_appendentries, WellTyped, ServerOK, Fields
<1>13. 1 < N => Stays(m, s) /\ \A x \in s.out : Reports(s, x)
  BY <1>6, <1>8, <1>9, <1>10, SendReports
<1> HIDE DEF s
<1>14. c.fsm = s.fsm
  BY <1>11, CommitData
<1> HIDE DEF c
<1>15. FsmStep(i, b)
  BY <1>2, <1>9, <1>12, <1>14 DEF FsmStep
<1>16. ASSUME 1 < N
       PROVE  /\ b.commit_idx = srv[i].commit_idx /\ NextStep(i, b)
              /\ \A x \in b.out : Reports(b, x)
  <2>1. CASE b = m
    BY <1>8, <1>9, <1>16, <2>1 DEF NextStep
  <2>2. CASE b = s
    <3>1. s.log = m.log
      BY <1>11 DEF Carries, SameLog
    <3> QED
      BY <1>8, <1>9, <1>13, <1>16, <2>2, <3>1 DEF NextStep, Stays
  <2> QED
    BY <1>2, <1>16, <2>1, <2>2
<1>17. CASE 1 < N
  BY <1>15, <1>16, <1>17, SendsSafe
<1> QED
  BY <1>15, <1>17 DEF SafeCall

\* A restarted server has applied and committed nothing.
LEMMA RestartSafe ==
    ASSUME SafetyInv, NEW i \in Server
    PROVE  SafeCall(i, Reload(srv[i]))
<1> DEFINE me == srv[i]
           new == [raft_new(i) EXCEPT !.disk = me.disk,
                                      !.cb.log_offer = Len(me.log)]
           t == raft_set_current_term(new, me.disk.term)
           v == raft_vote_for_nodeid(t, me.disk.vote)
           a == raft_append_entries(v, me.log)
           b == [a EXCEPT !.disk = me.disk]
<1>0. ReplicationInv
  BY DEF SafetyInv
<1>1. ServerOK(i, me)
  BY <1>0 DEF ReplicationInv, ElectionInv, ElectionType
<1>2. Reload(me) = b
  BY <1>1 DEF Reload, Complete, ServerOK
<1>3. /\ DOMAIN new = Fields /\ new.state = "follower" /\ new.out = {}
      /\ new.fsm = <<>> /\ new.commit_idx = 0
  BY DEF raft_new, Fields, AllWell
<1> HIDE DEF new
<1>4. /\ DOMAIN t = Fields /\ t.state = "follower" /\ t.out = {}
      /\ t.fsm = <<>> /\ t.commit_idx = 0
  BY <1>3 DEF raft_set_current_term, Fields
<1> HIDE DEF t
<1>5. /\ DOMAIN v = Fields /\ v.state = "follower" /\ v.out = {}
      /\ v.fsm = <<>> /\ v.commit_idx = 0
  BY <1>4 DEF raft_vote_for_nodeid, Fields
<1> HIDE DEF v
<1>6. /\ DOMAIN a = Fields /\ a.state = "follower" /\ a.out = {}
      /\ a.fsm = <<>> /\ a.commit_idx = 0
  BY <1>5 DEF raft_append_entries, Fields
<1> HIDE DEF a
<1>7. b.state = "follower" /\ b.out = {} /\ b.fsm = <<>> /\ b.commit_idx = 0
  BY <1>6 DEF Fields
<1> HIDE DEF b
<1>8. FsmStep(i, b)
  BY <1>7 DEF FsmStep
<1> QED
  BY <1>2, <1>7, <1>8 DEF SafeCall, CommitStep, NextStep
-----------------------------------------------------------------------------
(* The invariant.                                                          *)

LEMMA UpdateServes ==
    ASSUME ReplicationInv, NEW i \in Server, NEW b, RepStep(i, b), GoodStep(i, b),
           SafeCall(i, b), ElectionInv', NEW given \in SUBSET net, Update(i, b, given),
           used'.requests \in Nat
    PROVE  Serves(i, b)
<1>1. Becomes(i, b)
  BY UpdateBecomes
<1>2. DOMAIN srv = Server /\ DOMAIN b = Fields
  BY DEF ReplicationInv, ElectionInv, ElectionType, GoodStep, ServerOK
<1>3. srv' = [srv EXCEPT ![i] = [b EXCEPT !.out = {}, !.cb = AllWell]]
  BY DEF Update
<1>4. srv'[i] = [b EXCEPT !.out = {}, !.cb = AllWell]
  BY <1>2, <1>3
<1>5. /\ srv'[i].commit_idx = b.commit_idx /\ srv'[i].fsm = b.fsm
      /\ srv'[i].next_idx = b.next_idx /\ srv'[i].votes = b.votes
  BY <1>2, <1>4 DEF Fields
<1> QED
  BY <1>1, <1>5 DEF Serves

\* Every action is such a step of one server.
LEMMA NextServes ==
    ASSUME MaxSnapshots = 0, SafetyInv, Next
    PROVE  \E i \in Server : \E b : Serves(i, b)
<1>0. ReplicationInv
  BY DEF SafetyInv
<1>1. ElectionInv /\ used.requests \in Nat
  BY <1>0 DEF ReplicationInv, ReplicationType
<1>2. ElectionInv'
  BY <1>1, NextIsGood, StepInv
<1>3. /\ \A m \in net : Message(m)
      /\ DOMAIN used = {"requests", "snapshots", "restarts"} /\ used.snapshots = 0
      /\ \A i \in Server : srv[i].snapshot_in_progress = FALSE
  BY <1>1 DEF ElectionInv, ElectionType, ServerOK
<1>4. ASSUME NEW i \in Server, NEW b, RepStep(i, b), GoodStep(i, b), SafeCall(i, b),
             NEW given \in SUBSET net, Update(i, b, given), used'.requests \in Nat
      PROVE  \E j \in Server : \E c : Serves(j, c)
  BY <1>0, <1>2, <1>4, UpdateServes
<1>5. ASSUME NEW i \in Server, Periodic(i)
      PROVE  \E j \in Server : \E c : Serves(j, c)
  <2>1. PICK timer, cb : Update(i, raft_periodic(With(i, cb), timer), {}) /\ used' = used
    BY <1>5 DEF Periodic
  <2>2. PICK b : b = raft_periodic(With(i, cb), timer)
    OBVIOUS
  <2>3. RepStep(i, b) /\ GoodStep(i, b) /\ SafeCall(i, b)
    BY <1>0, <1>1, <2>2, PeriodicRep, PeriodicGood, PeriodicSafe
  <2> QED
    BY <1>1, <1>4, <2>1, <2>2, <2>3
<1>6. CASE RecvAppendEntries
  <2>1. PICK m \in net, cb \in Callbacks :
          /\ m.type = "appendentries"
          /\ Update(m.dst, raft_recv_appendentries(With(m.dst, cb), m), {m})
          /\ used' = used
    BY <1>6 DEF RecvAppendEntries, Receive
  <2>2. m.dst \in Server /\ IsAppend(m)
    BY <1>3, <2>1 DEF Message, IsAppend
  <2>3. PICK b : b = raft_recv_appendentries(With(m.dst, cb), m)
    OBVIOUS
  <2>4. RepStep(m.dst, b) /\ GoodStep(m.dst, b) /\ SafeCall(m.dst, b)
    BY <1>0, <1>1, <1>3, <2>2, <2>3, AppendEntriesRep, AppendEntriesGood, AppendEntriesSafe
  <2> QED
    BY <1>1, <1>4, <2>1, <2>2, <2>3, <2>4
<1>7. CASE RecvAppendEntriesResponse
  <2>1. PICK m \in net, cb \in Callbacks :
          /\ m.type = "appendentries_response"
          /\ Update(m.dst, raft_recv_appendentries_response(With(m.dst, cb), m), {m})
          /\ used' = used
    BY <1>7 DEF RecvAppendEntriesResponse, Receive
  <2>2. m.dst \in Server /\ IsResponse(m)
    BY <1>3, <2>1 DEF Message, IsResponse
  <2>3. PICK b : b = raft_recv_appendentries_response(With(m.dst, cb), m)
    OBVIOUS
  <2>4. RepStep(m.dst, b) /\ GoodStep(m.dst, b) /\ SafeCall(m.dst, b)
    <3>1. RepStep(m.dst, b)
      BY <1>0, <1>1, <2>2, <2>3, AppendEntriesResponseRep
    <3>2. GoodStep(m.dst, b)
      BY <1>0, <1>1, <1>3, <2>2, <2>3, AppendEntriesResponseGood
    <3>3. SafeCall(m.dst, b)
      BY <1>0, <1>1, <2>2, <2>3, AppendEntriesResponseSafe
    <3> QED
      BY <3>1, <3>2, <3>3
  <2> QED
    BY <1>1, <1>4, <2>1, <2>2, <2>3, <2>4
<1>8. CASE RecvRequestVote
  <2>1. PICK m \in net, cb \in Callbacks :
          /\ m.type = "requestvote"
          /\ Update(m.dst, raft_recv_requestvote(With(m.dst, cb), m), {m})
          /\ used' = used
    BY <1>8 DEF RecvRequestVote, Receive
  <2>2. m.dst \in Server /\ IsRequest(m)
    BY <1>3, <2>1 DEF Message, IsRequest
  <2>3. PICK b : b = raft_recv_requestvote(With(m.dst, cb), m)
    OBVIOUS
  <2>4. RepStep(m.dst, b) /\ GoodStep(m.dst, b) /\ SafeCall(m.dst, b)
    <3>1. RepStep(m.dst, b)
      BY <1>0, <1>1, <2>2, <2>3, RequestVoteRep
    <3>2. GoodStep(m.dst, b)
      BY <1>0, <1>1, <1>3, <2>2, <2>3, RequestVoteGood
    <3>3. SafeCall(m.dst, b)
      BY <1>0, <1>1, <2>2, <2>3, RequestVoteSafe
    <3> QED
      BY <3>1, <3>2, <3>3
  <2> QED
    BY <1>1, <1>4, <2>1, <2>2, <2>3, <2>4
<1>9. CASE RecvRequestVoteResponse
  <2>1. PICK m \in net, cb \in Callbacks :
          /\ m.type = "requestvote_response"
          /\ Update(m.dst, raft_recv_requestvote_response(With(m.dst, cb), m), {m})
          /\ used' = used
    BY <1>9 DEF RecvRequestVoteResponse, Receive
  <2>2. m.dst \in Server
    BY <1>3 DEF Message
  <2>3. PICK b : b = raft_recv_requestvote_response(With(m.dst, cb), m)
    OBVIOUS
  <2>4. RepStep(m.dst, b) /\ GoodStep(m.dst, b) /\ SafeCall(m.dst, b)
    <3>1. RepStep(m.dst, b)
      BY <1>0, <1>1, <2>1, <2>2, <2>3, RequestVoteResponseRep
    <3>2. GoodStep(m.dst, b)
      BY <1>0, <1>1, <2>1, <2>2, <2>3, RequestVoteResponseGood
    <3>3. SafeCall(m.dst, b)
      BY <1>0, <1>1, <2>1, <2>2, <2>3, RequestVoteResponseSafe
    <3> QED
      BY <3>1, <3>2, <3>3
  <2> QED
    BY <1>1, <1>4, <2>1, <2>2, <2>3, <2>4
<1>10. CASE RecvSnapshot
  BY <1>3, <1>10 DEF RecvSnapshot, Receive, Message
<1>11. ASSUME NEW i \in Server, RecvEntry(i)
       PROVE  \E j \in Server : \E c : Serves(j, c)
  <2>1. PICK cb \in Callbacks : Update(i, raft_recv_entry(With(i, cb), used'.requests), {})
    BY <1>11 DEF RecvEntry
  <2>2. /\ srv[i].state = "leader" /\ used.requests < MaxRequests
        /\ used'.requests = used.requests + 1
    BY <1>3, <1>11 DEF RecvEntry
  <2>3. PICK id : id = used'.requests
    OBVIOUS
  <2>4. id \in 1 .. MaxRequests /\ used'.requests \in Nat
    BY <1>1, <2>2, <2>3, BoundAssumption
  <2>5. PICK b : b = raft_recv_entry(With(i, cb), id)
    OBVIOUS
  <2>6. RepStep(i, b) /\ GoodStep(i, b) /\ SafeCall(i, b)
    BY <1>0, <1>1, <2>2, <2>4, <2>5, EntryRep, EntryGood, EntrySafe
  <2> QED
    BY <1>4, <2>1, <2>3, <2>4, <2>5, <2>6
<1>12. ASSUME NEW i \in Server, BeginSnapshot(i) \/ CancelSnapshot(i) \/ EndSnapshot(i)
       PROVE  FALSE
  BY <1>3, <1>12 DEF BeginSnapshot, CancelSnapshot, EndSnapshot
<1>13. ASSUME NEW i \in Server, Restart(i)
       PROVE  \E j \in Server : \E c : Serves(j, c)
  <2>1. Update(i, Reload(srv[i]), {})
    BY <1>13 DEF Restart
  <2>2. used'.requests = used.requests
    BY <1>3, <1>13 DEF Restart
  <2> QED
    BY <1>0, <1>1, <1>4, <2>1, <2>2, RestartRep, RestartGood, RestartSafe
<1> QED
  BY <1>5, <1>6, <1>7, <1>8, <1>9, <1>10, <1>11, <1>12, <1>13 DEF Next

LEMMA SafetyInit == Init => SafetyInv
<1> SUFFICES ASSUME Init PROVE SafetyInv
  OBVIOUS
<1>1. ReplicationInv
  BY ReplicationInit
<1>2. net = {}
  BY DEF Init
<1>3. ASSUME NEW i \in Server
      PROVE  /\ srv[i].state = "follower" /\ srv[i].log = <<>> /\ srv[i].fsm = <<>>
             /\ srv[i].commit_idx = 0 /\ srv[i].current_term = 0
  BY DEF Init, raft_new
<1>4. FsmLog
  BY <1>3 DEF FsmLog
<1>5. InOrder(LogSeg(<<>>), 0)
  <2>1. LogSeg(<<>>).lo = 0 /\ Hi(LogSeg(<<>>)) = 0 /\ Tm(LogSeg(<<>>), 0) = 0
    BY DEF LogSeg, Hi, Tm
  <2> QED
    BY <2>1 DEF InOrder
<1>6. Ordered
  BY <1>2, <1>3, <1>5 DEF Ordered
<1>7. Asked /\ Sent /\ HeardWithin
  BY <1>2, <1>3 DEF Asked, Sent, HeardWithin
<1>8. Office
  BY <1>3 DEF Office
<1>9. CommitsChosen
  BY <1>2, <1>3 DEF CommitsChosen
<1> QED
  BY <1>1, <1>4, <1>6, <1>7, <1>8, <1>9 DEF SafetyInv

LEMMA SafetyInvariant ==
    ASSUME MaxSnapshots = 0
    PROVE  Spec => []SafetyInv
<1>1. SafetyInv /\ ReplicationInv' /\ [Next]_vars => SafetyInv'
  <2>1. CASE SafetyInv /\ Next
    BY <2>1, NextServes, SafetyStep
  <2>2. CASE SafetyInv /\ ReplicationInv' /\ UNCHANGED vars
    <3>1. srv' = srv /\ net' = net
      BY <2>2 DEF vars
    <3>2. FsmLog /\ (1 < N => /\ Ordered /\ Asked /\ Sent /\ HeardWithin /\ Office
                              /\ CommitsChosen)
      BY <2>2 DEF SafetyInv
    <3>3. FsmLog' = FsmLog /\ Ordered' = Ordered /\ Asked' = Asked /\ Sent' = Sent
      BY <3>1 DEF FsmLog, Ordered, Asked, Sent
    <3>4. HeardWithin' = HeardWithin
      BY <3>1 DEF HeardWithin, Heard
    <3>5. Office' = Office
      BY <3>1 DEF Office, Safe, Heard, Claim, Granted, Counted
    <3>6. CommitsChosen' = CommitsChosen
      BY <3>1 DEF CommitsChosen, Chosen, Safe, Claim, Granted, Counted
    <3> QED
      BY <2>2, <3>2, <3>3, <3>4, <3>5, <3>6 DEF SafetyInv
  <2> QED
    BY <2>1, <2>2
<1> QED
  BY <1>1, SafetyInit, ReplicationInvariant, PTL DEF Spec
-----------------------------------------------------------------------------
(* The properties.                                                         *)

\* Of a cluster of one everybody is the one server.
LEMMA Alone ==
    ASSUME ~(1 < N), NEW i \in Server, NEW j \in Server
    PROVE  N = 1 /\ i = j /\ Server = {i}
<1>1. N = 1
  BY NAssumption
<1> QED
  BY <1>1 DEF Server

\* What a server has committed is the beginning of a history that is chosen.
LEMMA CommittedChosen ==
    ASSUME SafetyInv, 1 < N, NEW i \in Server, srv[i].commit_idx # 0
    PROVE  \E P : /\ History(P) /\ Chosen(P) /\ EndTerm(P) <= srv[i].current_term
                  /\ srv[i].commit_idx <= Len(P)
                  /\ \A y \in 1 .. srv[i].commit_idx : srv[i].log[y] = P[y]
BY DEF SafetyInv, CommitsChosen

\* What a server has applied is in its log, and committed.
LEMMA AppliedLog ==
    ASSUME SafetyInv, NEW i \in Server
    PROVE  /\ srv[i].fsm \in Seq(Entries) /\ Len(srv[i].fsm) \in Nat
           /\ srv[i].log \in Seq(Entries) /\ Len(srv[i].log) \in Nat
           /\ srv[i].commit_idx \in Nat /\ srv[i].commit_idx <= Len(srv[i].log)
           /\ Len(srv[i].fsm) <= srv[i].commit_idx
           /\ \A y \in 1 .. Len(srv[i].fsm) : srv[i].fsm[y] = srv[i].log[y]
<1>1. ReplicationInv /\ FsmLog
  BY DEF SafetyInv
<1>2. Typed(srv[i])
  BY <1>1, StateTypes
<1> QED
  BY <1>1, <1>2 DEF Typed, FsmLog

\* A leader has what servers of its own and earlier terms have committed,
\* whichever server was elected with whichever votes, lost, late or repeated
\* (the up-to-date test of __should_grant_vote and the current-term rule of
\* raft_recv_appendentries_response).
THEOREM LeadersComplete ==
    ASSUME MaxSnapshots = 0
    PROVE  Spec => []LeaderCompleteness
<1>1. SafetyInv => LeaderCompleteness
  <2> SUFFICES ASSUME SafetyInv, NEW i \in Server, NEW j \in Server,
                      srv[i].state = "leader",
                      srv[j].current_term <= srv[i].current_term
               PROVE  IsPrefix(Committed(srv[j]), Whole(srv[i]))
    BY DEF LeaderCompleteness
  <2>1. PICK a, g, c : a = srv[j].log /\ g = srv[i].log /\ c = srv[j].commit_idx
    OBVIOUS
  <2>2. /\ Typed(srv[i]) /\ Typed(srv[j])
        /\ srv[i].current_term \in Nat /\ srv[j].current_term \in Nat
    BY StateTypes DEF SafetyInv
  <2>3. /\ Whole(srv[i]) = g /\ g \in Seq(Entries) /\ Len(g) \in Nat
        /\ a \in Seq(Entries) /\ Len(a) \in Nat
        /\ Committed(srv[j]) = SubSeq(a, 1, c) /\ c \in Nat /\ c <= Len(a)
    BY <2>1, <2>2, WholeLog
  <2>4. SameUpTo(a, g, c)
    <3>1. CASE ~(1 < N)
      BY <2>1, <2>3, <3>1, Alone DEF SameUpTo
    <3>2. CASE c = 0
      BY <2>3, <3>2 DEF SameUpTo
    <3>3. CASE 1 < N /\ c # 0
      <4>1. PICK P : /\ History(P) /\ Chosen(P) /\ EndTerm(P) <= srv[j].current_term
                     /\ c <= Len(P) /\ \A y \in 1 .. c : a[y] = P[y]
        BY <2>1, <3>3, CommittedChosen
      <4>2. Len(P) \in Nat /\ EndTerm(P) \in Nat
        BY <4>1, HistoryFacts
      <4>3. EndTerm(P) <= srv[i].current_term
        BY <2>2, <4>1, <4>2
      <4>4. Has(g, P)
        BY <2>1, <4>1, <4>3 DEF Chosen, Safe
      <4> QED
        BY <2>3, <4>1, <4>2, <4>4 DEF Has, SameUpTo
    <3> QED
      BY <3>1, <3>2, <3>3
  <2> QED
    BY <2>3, <2>4, SamePrefix
<1> QED
  BY <1>1, SafetyInvariant, PTL

\* Two servers have committed the same entry at an index.
LEMMA CommittedAgree ==
    ASSUME SafetyInv, NEW i \in Server, NEW j \in Server,
           NEW y \in 1 .. srv[i].commit_idx, y \in 1 .. srv[j].commit_idx
    PROVE  srv[i].log[y] = srv[j].log[y]
<1>1. CASE ~(1 < N)
  BY <1>1, Alone
<1>2. CASE 1 < N
  <2>1. srv[i].commit_idx \in Nat /\ srv[j].commit_idx \in Nat /\ srv[i].commit_idx # 0
        /\ srv[j].commit_idx # 0
    BY AppliedLog
  <2>2. PICK P : /\ History(P) /\ Chosen(P) /\ srv[i].commit_idx <= Len(P)
                 /\ \A x \in 1 .. srv[i].commit_idx : srv[i].log[x] = P[x]
    BY <1>2, <2>1, CommittedChosen
  <2>3. PICK R : /\ History(R) /\ Chosen(R) /\ srv[j].commit_idx <= Len(R)
                 /\ \A x \in 1 .. srv[j].commit_idx : srv[j].log[x] = R[x]
    BY <1>2, <2>1, CommittedChosen
  <2>4. PICK Q : Majority(Q) /\ \A k \in Q : Has(srv[k].log, P)
    BY <2>2 DEF Chosen
  <2>5. PICK S : Majority(S) /\ \A k \in S : Has(srv[k].log, R)
    BY <2>3 DEF Chosen
  <2>6. PICK k : k \in Q /\ k \in S
    BY <2>4, <2>5, MajoritiesMeet
  <2>7. Len(P) \in Nat /\ Len(R) \in Nat
    BY <2>2, <2>3, HistoryFacts
  <2>8. y \in 1 .. Len(P) /\ y \in 1 .. Len(R)
    BY <2>1, <2>2, <2>3, <2>7
  <2>9. srv[k].log[y] = P[y] /\ srv[k].log[y] = R[y]
    BY <2>4, <2>5, <2>6, <2>8 DEF Has
  <2> QED
    BY <2>2, <2>3, <2>9
<1> QED
  BY <1>1, <1>2

\* The state machines of two servers are given the same entries in the same
\* order, whatever crashes, elections and deliveries come between
\* (raft_apply_entry).
THEOREM StateMachinesAgree ==
    ASSUME MaxSnapshots = 0
    PROVE  Spec => []StateMachineSafety
<1>1. ASSUME SafetyInv, NEW i \in Server, NEW j \in Server,
             Len(srv[i].fsm) <= Len(srv[j].fsm)
      PROVE  IsPrefix(srv[i].fsm, srv[j].fsm)
  <2>1. PICK a, g, c : a = srv[i].fsm /\ g = srv[j].fsm /\ c = Len(a)
    OBVIOUS
  <2>2. /\ a \in Seq(Entries) /\ Len(a) \in Nat /\ c <= srv[i].commit_idx
        /\ g \in Seq(Entries) /\ Len(g) \in Nat /\ Len(g) <= srv[j].commit_idx
        /\ srv[i].commit_idx \in Nat /\ srv[j].commit_idx \in Nat
        /\ \A y \in 1 .. Len(a) : a[y] = srv[i].log[y]
        /\ \A y \in 1 .. Len(g) : g[y] = srv[j].log[y]
    BY <1>1, <2>1, AppliedLog
  <2>3. ASSUME NEW y \in 1 .. c PROVE a[y] = g[y]
    <3>1. y \in 1 .. Len(g) /\ y \in 1 .. Len(a)
      BY <1>1, <2>1, <2>2
    <3>2. y \in 1 .. srv[i].commit_idx /\ y \in 1 .. srv[j].commit_idx
      BY <2>1, <2>2, <3>1
    <3>3. srv[i].log[y] = srv[j].log[y]
      BY <1>1, <3>2, CommittedAgree
    <3> QED
      BY <2>2, <3>1, <3>3
  <2>4. c \in Nat /\ SameUpTo(a, g, c)
    BY <1>1, <2>1, <2>2, <2>3 DEF SameUpTo
  <2>5. IsPrefix(SubSeq(a, 1, c), g)
    BY <2>2, <2>4, SamePrefix
  <2>6. SubSeq(a, 1, c) = a
    BY <2>1, <2>2
  <2> QED
    BY <2>1, <2>5, <2>6
<1>2. SafetyInv => StateMachineSafety
  <2> SUFFICES ASSUME SafetyInv, NEW i \in Server, NEW j \in Server
               PROVE  \/ IsPrefix(srv[i].fsm, srv[j].fsm)
                      \/ IsPrefix(srv[j].fsm, srv[i].fsm)
    BY DEF StateMachineSafety
  <2>1. Len(srv[i].fsm) \in Nat /\ Len(srv[j].fsm) \in Nat
    BY AppliedLog
  <2>2. Len(srv[i].fsm) <= Len(srv[j].fsm) \/ Len(srv[j].fsm) <= Len(srv[i].fsm)
    BY <2>1
  <2> QED
    BY <1>1, <2>2
<1> QED
  BY <1>2, SafetyInvariant, PTL

\* What is applied anywhere is in the logs of a majority at its index, and
\* stays there through elections and restarts (raft_leader_commit's majority,
\* raft_recv_appendentries' deletions).
THEOREM AppliedHeld ==
    ASSUME MaxSnapshots = 0
    PROVE  Spec => []AppliedOnMajority
<1>1. SafetyInv => AppliedOnMajority
  <2> SUFFICES ASSUME SafetyInv, NEW i \in Server, NEW idx \in 1 .. Len(srv[i].fsm)
               PROVE  N \div 2 < Cardinality({j \in Server :
                          /\ idx <= Len(Whole(srv[j]))
                          /\ Whole(srv[j])[idx] = srv[i].fsm[idx]})
    BY DEF AppliedOnMajority
  <2> DEFINE H == {j \in Server : /\ idx <= Len(Whole(srv[j]))
                                  /\ Whole(srv[j])[idx] = srv[i].fsm[idx]}
  <2>1. \A j \in Server : Whole(srv[j]) = srv[j].log /\ Len(srv[j].log) \in Nat
    BY StateTypes, WholeLog DEF SafetyInv
  <2>2. /\ Len(srv[i].fsm) \in Nat /\ srv[i].commit_idx \in Nat
        /\ srv[i].commit_idx <= Len(srv[i].log) /\ Len(srv[i].fsm) <= srv[i].commit_idx
        /\ srv[i].fsm[idx] = srv[i].log[idx] /\ idx \in 1 .. srv[i].commit_idx
    <3>1. /\ Len(srv[i].fsm) \in Nat /\ srv[i].commit_idx \in Nat
          /\ srv[i].commit_idx <= Len(srv[i].log) /\ Len(srv[i].fsm) <= srv[i].commit_idx
          /\ srv[i].fsm[idx] = srv[i].log[idx]
      BY AppliedLog
    <3> QED
      BY <3>1
  <2>3. IsFiniteSet(H) /\ Cardinality(H) \in Nat
    <3>1. IsFiniteSet(Server)
      BY NAssumption, FS_Interval DEF Server
    <3> QED
      BY <3>1, FS_Subset, FS_CardinalityType
  <2>4. ASSUME NEW Q \in SUBSET Server, Majority(Q), \A k \in Q : k \in H
        PROVE  N \div 2 < Cardinality(H)
    <3>1. Q \in SUBSET H
      BY <2>4
    <3> HIDE DEF H
    <3>2. Cardinality(Q) <= Cardinality(H) /\ Cardinality(Q) \in Nat
      BY <2>3, <3>1, FS_Subset, FS_CardinalityType
    <3> QED
      BY <2>3, <2>4, <3>2, NAssumption DEF Majority
  <2>5. CASE ~(1 < N)
    <3>1. N = 1
      BY <2>5, NAssumption
    <3>2. i \in H
      BY <2>1, <2>2
    <3>3. Cardinality({i}) = 1
      BY FS_Singleton
    <3> HIDE DEF H
    <3>4. PICK Q : Q = {i}
      OBVIOUS
    <3>5. Q \in SUBSET Server /\ Majority(Q) /\ \A k \in Q : k \in H
      BY <3>1, <3>2, <3>3, <3>4 DEF Majority
    <3> QED
      BY <2>4, <3>5 DEF H
  <2>6. CASE 1 < N
    <3>1. srv[i].commit_idx # 0
      BY <2>2
    <3>2. PICK P : /\ History(P) /\ Chosen(P) /\ srv[i].commit_idx <= Len(P)
                   /\ \A y \in 1 .. srv[i].commit_idx : srv[i].log[y] = P[y]
      BY <2>6, <3>1, CommittedChosen
    <3>3. PICK Q \in SUBSET Server : Majority(Q) /\ \A k \in Q : Has(srv[k].log, P)
      BY <3>2 DEF Chosen
    <3>4. Len(P) \in Nat /\ idx \in 1 .. Len(P) /\ P[idx] = srv[i].fsm[idx]
      BY <2>2, <3>2, HistoryFacts
    <3>5. ASSUME NEW k \in Q PROVE k \in H
      BY <2>1, <3>3, <3>4, <3>5 DEF Has
    <3> QED
      BY <2>4, <3>3, <3>5
  <2> QED
    BY <2>5, <2>6
<1> QED
  BY <1>1, SafetyInvariant, PTL
-----------------------------------------------------------------------------
(* What raft_recv_entry has answered.                                      *)

\* Where there is an entry with an answer's index and term, it is the one the
\* answer is for; and no leader of the term is without the index, so that
\* none can put another entry there.
Kept(r) ==
    /\ r.idx \in Nat \ {0} /\ r.term \in Nat /\ r.at \in Server
    /\ Covered(r.term, r.idx)
    /\ N = 1 => \A i \in Server : r.idx <= Len(srv[i].log)
    /\ \A s \in Segments :
          r.idx \in s.lo + 1 .. Hi(s) /\ Tm(s, r.idx) = r.term => Ent(s, r.idx).id = r.id

AnswersKept == \A r \in answers : Kept(r)

LEMMA AnswerCovered ==
    ASSUME ReplicationInv, NEW i \in Server, NEW b, Becomes(i, b), NEW r, Kept(r)
    PROVE  Covered(r.term, r.idx)'
<1>1. PICK t, y : t = r.term /\ y = r.idx
  OBVIOUS
<1>2. Covered(t, y) /\ y \in Nat /\ (N = 1 => y <= Len(srv[i].log))
  BY <1>1 DEF Kept
<1>3. elected \subseteq elected' /\ \A j \in Server : j # i => srv'[j] = srv[j]
  BY DEF Becomes
<1>4. ASSUME srv'[i].state = "leader", srv'[i].current_term = t
      PROVE  y <= Len(srv'[i].log)
  <2>1. b.state = "leader" /\ b.current_term = t /\ srv'[i].log = b.log
    BY <1>4 DEF Becomes
  <2>2. /\ srv[i].current_term = t /\ Len(srv[i].log) <= Len(b.log)
        /\ Len(srv[i].log) \in Nat /\ Len(b.log) \in Nat
    BY <2>1, LeaderLog, StateTypes, StepTypes
  <2>3. y <= Len(srv[i].log)
    <3>1. CASE srv[i].state = "leader"
      BY <1>2, <2>2, <3>1 DEF Covered
    <3>2. CASE srv[i].state # "leader"
      BY <1>2, <2>1, <3>2, NewLeader DEF Covered
    <3> QED
      BY <3>1, <3>2
  <2> QED
    BY <1>2, <2>1, <2>2, <2>3
<1>5. \E l \in Server : <<t, l>> \in elected'
  BY <1>2, <1>3 DEF Covered
<1>6. \A j \in Server : srv'[j].state = "leader" /\ srv'[j].current_term = t
                          => y <= Len(srv'[j].log)
  BY <1>2, <1>3, <1>4 DEF Covered
<1>7. Covered(t, y)'
  BY <1>5, <1>6 DEF Covered
<1> QED
  BY <1>1, <1>7

\* No step makes another entry with the index and the term.
LEMMA AnswerLog ==
    ASSUME ReplicationInv, NEW i \in Server, NEW b, Becomes(i, b), NEW r, Kept(r),
           r.idx \in 1 .. Len(b.log), b.log[r.idx].term = r.term
    PROVE  b.log[r.idx].id = r.id
<1>1. PICK a, y : a = srv[i].log /\ y = r.idx
  OBVIOUS
<1>2. /\ a \in Seq(Entries) /\ Len(a) \in Nat /\ b.log \in Seq(Entries)
      /\ Len(b.log) \in Nat /\ y \in 1 .. Len(b.log)
  BY <1>1, StateTypes, StepTypes
<1>3. \A s \in Segments :
          y \in s.lo + 1 .. Hi(s) /\ Tm(s, y) = r.term => Ent(s, y).id = r.id
  BY <1>1 DEF Kept
<1>4. ASSUME y \in 1 .. Len(a), b.log[y] = a[y]
      PROVE  b.log[y].id = r.id
  <2>1. PICK s \in Segments : s = LogSeg(a)
    BY <1>1 DEF Segments
  <2>2. /\ s.lo = 0 /\ Hi(s) = Len(a) /\ Tm(s, y) = a[y].term /\ Ent(s, y) = a[y]
    BY <1>2, <1>4, <2>1, LogSegFacts
  <2>3. Tm(s, y) = r.term /\ y \in s.lo + 1 .. Hi(s)
    BY <1>1, <1>4, <2>2
  <2>4. Ent(s, y).id = r.id
    BY <1>3, <2>3
  <2> QED
    BY <1>4, <2>2, <2>4
<1>5. LogStep(i, b)
  BY DEF Becomes, RepStep
<1>6. CASE b.log = a
  BY <1>1, <1>2, <1>4, <1>6
<1>7. CASE Appends(i, b)
  <2>1. PICK e \in Entries : e.term = srv[i].current_term /\ b.log = Append(a, e)
    BY <1>1, <1>7 DEF Appends
  <2>2. /\ Len(b.log) = Len(a) + 1 /\ b.log[Len(a) + 1] = e
        /\ \A x \in 1 .. Len(a) : b.log[x] = a[x]
    BY <1>2, <2>1
  <2>3. CASE y \in 1 .. Len(a)
    BY <1>1, <1>4, <2>2, <2>3
  <2>4. CASE y = Len(a) + 1
    <3>1. srv[i].state = "leader" /\ srv[i].current_term = r.term
      BY <1>1, <1>7, <2>1, <2>2, <2>4 DEF Appends
    <3>2. y <= Len(a)
      BY <1>1, <3>1 DEF Kept, Covered
    <3> QED
      BY <1>2, <2>4, <3>2
  <2> QED
    BY <1>2, <2>2, <2>3, <2>4
<1>8. CASE TakesOver(i, b)
  <2>1. PICK m \in net : IsAppend(m) /\ \E p : FromSeg(a, MsgSeg(m), b.log, p)
    BY <1>1, <1>8 DEF TakesOver
  <2>2. PICK s, p : s = MsgSeg(m) /\ FromSeg(a, s, b.log, p)
    BY <2>1
  <2>3. s \in Segments /\ Segment(s)
    BY <2>1, <2>2, StateTypes DEF Segments
  <2>4. p \in 0 .. Len(a) /\ p <= Len(b.log) /\ \A x \in 1 .. p : b.log[x] = a[x]
    BY <2>2 DEF FromSeg
  <2>5. CASE y <= p
    <3>1. y \in 1 .. p /\ y \in 1 .. Len(a)
      BY <1>2, <2>4, <2>5
    <3> QED
      BY <1>1, <1>4, <2>4, <3>1
  <2>6. CASE p < y
    <3>1. s.lo \in Nat /\ Hi(s) \in Nat
      BY <2>3, SegmentFacts
    <3>2. /\ s.lo <= p /\ Len(b.log) <= Hi(s)
          /\ \A x \in p + 1 .. Len(b.log) : b.log[x] = Ent(s, x)
      BY <1>2, <2>2, <2>4, <2>6 DEF FromSeg, Follows
    <3>3. y \in p + 1 .. Len(b.log) /\ y \in s.lo + 1 .. Hi(s)
      BY <1>2, <2>4, <2>6, <3>1, <3>2
    <3>4. b.log[y] = Ent(s, y) /\ Tm(s, y) = r.term
      BY <1>1, <2>3, <3>2, <3>3, SegmentFacts
    <3>5. Ent(s, y).id = r.id
      BY <1>3, <2>3, <3>3, <3>4
    <3> QED
      BY <1>1, <3>4, <3>5
  <2> QED
    BY <1>2, <2>4, <2>5, <2>6
<1> QED
  BY <1>5, <1>1, <1>6, <1>7, <1>8 DEF LogStep

LEMMA AnswerStays ==
    ASSUME ReplicationInv, NEW i \in Server, NEW b, Becomes(i, b), NEW r, Kept(r)
    PROVE  Kept(r)'
<1>1. /\ r.idx \in Nat \ {0} /\ r.term \in Nat /\ r.at \in Server
  BY DEF Kept
<1>2. Covered(r.term, r.idx)'
  BY AnswerCovered
<1>3. ASSUME N = 1, NEW j \in Server PROVE r.idx <= Len(srv'[j].log)
  <2>1. \A m \in net : IsAppend(m) => m.src # m.dst /\ m.src \in Server /\ m.dst \in Server
    BY StateTypes DEF AppendTyped
  <2>2. \A l, k \in Server : l = k
    BY <1>3 DEF Server
  <2>3. ~TakesOver(i, b) /\ j = i
    BY <2>1, <2>2 DEF TakesOver
  <2>4. srv[i].log \in Seq(Entries) /\ Len(srv[i].log) \in Nat
    BY StateTypes
  <2>5. b.log = srv[i].log \/ \E e \in Entries : b.log = Append(srv[i].log, e)
    BY <2>3 DEF Becomes, RepStep, LogStep, Appends
  <2>6. Len(srv[i].log) <= Len(b.log) /\ Len(b.log) \in Nat
    BY <2>4, <2>5
  <2>7. r.idx <= Len(srv[i].log) /\ srv'[j].log = b.log
    BY <1>3, <2>3 DEF Kept, Becomes
  <2> QED
    BY <1>1, <2>4, <2>6, <2>7
<1>4. ASSUME NEW s \in Segments', r.idx \in s.lo + 1 .. Hi(s), Tm(s, r.idx) = r.term
      PROVE  Ent(s, r.idx).id = r.id
  <2>1. Segment(s) /\ (s \in Segments \/ Part(s, LogSeg(b.log)))
    BY SegmentsStep
  <2>2. CASE s \in Segments
    BY <1>4, <2>2 DEF Kept
  <2>3. CASE Part(s, LogSeg(b.log))
    <3>1. s.lo \in Nat /\ Hi(s) \in Nat /\ b.log \in Seq(Entries) /\ Len(b.log) \in Nat
      BY <2>1, SegmentFacts, StepTypes
    <3>2. /\ LogSeg(b.log).lo = 0 /\ Hi(LogSeg(b.log)) = Len(b.log)
          /\ \A x \in 1 .. Len(b.log) : /\ Ent(LogSeg(b.log), x) = b.log[x]
                                        /\ Tm(LogSeg(b.log), x) = b.log[x].term
      BY <3>1, LogSegFacts
    <3>3. /\ r.idx \in 1 .. Len(b.log) /\ Tm(s, r.idx) = Tm(LogSeg(b.log), r.idx)
          /\ Ent(s, r.idx) = Ent(LogSeg(b.log), r.idx)
      BY <1>4, <2>3, <3>1, <3>2 DEF Part
    <3>4. b.log[r.idx].term = r.term /\ Ent(s, r.idx) = b.log[r.idx]
      BY <1>4, <3>2, <3>3
    <3> QED
      BY <3>3, <3>4, AnswerLog
  <2> QED
    BY <2>1, <2>2, <2>3
<1> QED
  BY <1>1, <1>2, <1>3, <1>4 DEF Kept

\* A new answer is for the entry that its leader has just appended.
LEMMA AnswerNew ==
    ASSUME ReplicationInv, NEW i \in Server, NEW b, Becomes(i, b), NEW id,
           srv[i].state = "leader", b.state = "leader", Len(b.log) # Len(srv[i].log),
           TakesEntry(i, b, id)
    PROVE  Kept([at |-> i, id |-> id, idx |-> Len(b.log), term |-> b.current_term])'
<1>1. PICK r : r = [at |-> i, id |-> id, idx |-> Len(b.log), term |-> b.current_term]
  OBVIOUS
<1>2. PICK a, y : a = srv[i].log /\ y = Len(b.log)
  OBVIOUS
<1>3. /\ a \in Seq(Entries) /\ Len(a) \in Nat /\ b.log \in Seq(Entries) /\ y \in Nat
      /\ b.current_term \in Nat
  BY <1>2, StateTypes, StepTypes
<1>4. PICK e : e = [term |-> b.current_term, id |-> id] /\ b.log = Append(a, e)
  BY <1>2 DEF TakesEntry
<1>5. y = Len(a) + 1 /\ b.log[y] = e /\ e.term = b.current_term /\ e.id = id
  BY <1>2, <1>3, <1>4
<1>6. y \in 1 .. Len(b.log) /\ y # 0
  BY <1>2, <1>3, <1>5
<1>7. ReplicationInv' /\ srv'[i].log = b.log
  BY BecomesInv DEF Becomes
<1>8. Covered(b.log[y].term, y)'
  BY <1>6, <1>7, NewEntries DEF ReplicationInv
<1>9. Covered(b.current_term, y)'
  BY <1>5, <1>8
<1>10. ASSUME N = 1, NEW j \in Server PROVE y <= Len(srv'[j].log)
  <2>1. j = i
    BY <1>10 DEF Server
  <2> QED
    BY <1>2, <1>3, <1>7, <2>1
<1>11. ASSUME NEW s \in Segments', y \in s.lo + 1 .. Hi(s), Tm(s, y) = b.current_term
       PROVE  Ent(s, y).id = id
  <2>1. PICK g : g = LogSeg(b.log)
    OBVIOUS
  <2>2. g \in Segments'
    BY <1>7, <2>1 DEF Segments
  <2>3. Alike(s, g)
    BY <1>7, <2>2 DEF ReplicationInv, Matching
  <2>4. g.lo = 0 /\ Hi(g) = Len(b.log) /\ Ent(g, y) = e /\ Tm(g, y) = b.current_term
    BY <1>3, <1>5, <1>6, <2>1, LogSegFacts
  <2>5. Segment(s)
    BY SegmentsStep
  <2>6. s.lo \in Nat /\ Hi(s) \in Nat
    BY <2>5, SegmentFacts
  <2>7. Ent(s, y) = Ent(g, y)
    <3>1. y \in g.lo + 1 .. Hi(g) /\ Tm(s, y) = Tm(g, y)
      BY <1>6, <1>11, <2>4
    <3>2. y \in s.lo .. y /\ s.lo < y /\ g.lo < y
      BY <1>3, <1>6, <1>11, <2>4, <2>6
    <3> QED
      BY <1>11, <2>3, <3>1, <3>2 DEF Alike
  <2> QED
    BY <1>5, <2>4, <2>7
<1>12. Kept(r)'
  <2>1. r.at = i /\ r.id = id /\ r.idx = y /\ r.term = b.current_term
    BY <1>1, <1>2
  <2> QED
    BY <1>3, <1>6, <1>9, <1>10, <1>11, <2>1 DEF Kept
<1> QED
  BY <1>1, <1>12

LEMMA AnswersStep ==
    ASSUME MaxSnapshots = 0, ReplicationInv, AnswersKept, Next
    PROVE  AnswersKept'
<1>1. CASE answers' = answers
  <2>1. PICK i \in Server : \E b : Becomes(i, b)
    BY NextBecomes
  <2>2. PICK b : Becomes(i, b)
    BY <2>1
  <2> QED
    BY <1>1, <2>2, AnswerStays DEF AnswersKept
<1>2. ASSUME NEW i \in Server, RecvEntry(i) PROVE AnswersKept'
  <2>1. PICK id : id = used'.requests
    OBVIOUS
  <2>2. PICK cb \in Callbacks :
          LET m == raft_recv_entry(With(i, cb), id)
          IN  /\ Update(i, m, {})
              /\ answers' = IF Len(m.log) = Len(srv[i].log) THEN answers
                            ELSE answers \cup {[at |-> i, id |-> id,
                                                idx |-> raft_get_current_idx(m),
                                                term |-> m.current_term]}
    BY <1>2, <2>1 DEF RecvEntry
  <2>3. PICK b : b = raft_recv_entry(With(i, cb), id)
    OBVIOUS
  <2>4. /\ Update(i, b, {})
        /\ answers' = IF Len(b.log) = Len(srv[i].log) THEN answers
                      ELSE answers \cup {[at |-> i, id |-> id,
                                          idx |-> raft_get_current_idx(b),
                                          term |-> b.current_term]}
    BY <2>2, <2>3
  <2>5. /\ ElectionInv /\ used.requests \in Nat
        /\ DOMAIN used = {"requests", "snapshots", "restarts"}
    BY DEF ReplicationInv, ReplicationType, ElectionInv, ElectionType
  <2>6. /\ srv[i].state = "leader" /\ used.requests < MaxRequests
        /\ id = used.requests + 1
    BY <1>2, <2>1, <2>5 DEF RecvEntry
  <2>7. id \in 1 .. MaxRequests /\ used'.requests \in Nat
    BY <2>1, <2>5, <2>6, BoundAssumption
  <2>8. RepStep(i, b) /\ TakesEntry(i, b, id)
    BY <2>3, <2>6, <2>7, EntryRep
  <2>9. Becomes(i, b)
    <3>1. ElectionInv'
      BY <2>5, NextIsGood, StepInv
    <3> QED
      BY <2>4, <2>7, <2>8, <3>1, UpdateBecomes
  <2>10. \A r \in answers : Kept(r)'
    BY <2>9, AnswerStays DEF AnswersKept
  <2>11. CASE Len(b.log) = Len(srv[i].log)
    BY <2>4, <2>10, <2>11 DEF AnswersKept
  <2>12. CASE Len(b.log) # Len(srv[i].log)
    <3>1. raft_get_current_idx(b) = Len(b.log) /\ b.state = "leader"
      BY <2>8, CurrentIdx DEF RepStep, WellTyped, TakesEntry
    <3>2. Kept([at |-> i, id |-> id, idx |-> Len(b.log), term |-> b.current_term])'
      BY <2>6, <2>8, <2>9, <2>12, <3>1, AnswerNew
    <3> QED
      BY <2>4, <2>10, <2>12, <3>1, <3>2 DEF AnswersKept
  <2> QED
    BY <2>11, <2>12
<1>3. answers' = answers \/ \E i \in Server : RecvEntry(i)
  BY DEF Next, Periodic, RecvAppendEntries, RecvAppendEntriesResponse, RecvRequestVote,
         RecvRequestVoteResponse, RecvSnapshot, Receive, BeginSnapshot, CancelSnapshot,
         EndSnapshot, Restart
<1> QED
  BY <1>1, <1>2, <1>3

\* When the leader that took a client's entry says that it is committed,
\* whatever any server has applied or will apply at the index of its answer is
\* that entry (raft_msg_entry_response_committed asks for the term as well as
\* the index).
THEOREM AnswersCommitted ==
    ASSUME MaxSnapshots = 0
    PROVE  Spec => []CommittedFinal
<1>1. SafetyInv /\ AnswersKept => CommittedFinal
  <2> SUFFICES ASSUME SafetyInv, AnswersKept, NEW r \in answers, NEW j \in Server,
                      r.idx <= Len(srv[j].fsm),
                      raft_msg_entry_response_committed(srv[r.at], r) = 1
               PROVE  srv[j].fsm[r.idx].id = r.id
    BY DEF CommittedFinal
  <2>1. Kept(r)
    BY DEF AnswersKept
  <2>2. PICK i, y : i = r.at /\ y = r.idx
    OBVIOUS
  <2>3. i \in Server /\ y \in Nat \ {0}
    BY <2>1, <2>2 DEF Kept
  <2>4. Typed(srv[i]) /\ srv[i].log \in Seq(Entries) /\ Len(srv[i].log) \in Nat
    BY <2>3, StateTypes DEF SafetyInv
  <2>5. raft_get_current_idx(srv[i]) = Len(srv[i].log) /\ srv[i].base = 0
    BY <2>4, CurrentIdx DEF Typed
  <2>6. /\ y \in 1 .. Len(srv[i].log) /\ srv[i].log[y].term = r.term
        /\ y <= srv[i].commit_idx
    BY <2>2, <2>3, <2>4, <2>5 DEF raft_msg_entry_response_committed, HasEntry, EntryAt
  <2>7. srv[i].log[y].id = r.id
    <3>1. PICK s \in Segments : s = LogSeg(srv[i].log)
      BY <2>3 DEF Segments
    <3>2. /\ y \in s.lo + 1 .. Hi(s) /\ Tm(s, y) = r.term /\ Ent(s, y) = srv[i].log[y]
      BY <2>4, <2>6, <3>1, LogSegFacts
    <3> QED
      BY <2>1, <2>2, <3>2 DEF Kept
  <2>8. /\ Len(srv[j].fsm) \in Nat /\ srv[j].commit_idx \in Nat
        /\ srv[i].commit_idx \in Nat /\ Len(srv[j].fsm) <= srv[j].commit_idx
        /\ \A x \in 1 .. Len(srv[j].fsm) : srv[j].fsm[x] = srv[j].log[x]
    BY <2>3, AppliedLog
  <2>9. y \in 1 .. Len(srv[j].fsm) /\ y \in 1 .. srv[j].commit_idx
        /\ y \in 1 .. srv[i].commit_idx
    BY <2>2, <2>3, <2>6, <2>8
  <2>10. srv[i].log[y] = srv[j].log[y]
    BY <2>3, <2>9, CommittedAgree
  <2> QED
    BY <2>2, <2>7, <2>8, <2>9, <2>10
<1>2. Init => AnswersKept
  BY DEF Init, AnswersKept
<1>3. ReplicationInv /\ AnswersKept /\ [Next]_vars => AnswersKept'
  <2>1. CASE ReplicationInv /\ AnswersKept /\ Next
    BY <2>1, AnswersStep
  <2>2. CASE AnswersKept /\ UNCHANGED vars
    <3>1. srv' = srv /\ net' = net /\ elected' = elected /\ answers' = answers
      BY <2>2 DEF vars
    <3>2. Segments' = Segments
      BY <3>1 DEF Segments
    <3> QED
      BY <2>2, <3>1, <3>2 DEF AnswersKept, Kept, Covered
  <2> QED
    BY <2>1, <2>2
<1> QED
  BY <1>1, <1>2, <1>3, SafetyInvariant, ReplicationInvariant, PTL DEF Spec
-----------------------------------------------------------------------------
(* No assertion fails.                                                     *)

\* A server that stands for election or leads has voted, and a cluster of one
\* sends nothing.
Standing ==
    /\ NeverStopped
    /\ 1 < N => \A i \in Server : srv[i].state # "follower" => srv[i].voted_for # Nil
    /\ N = 1 => net = {}

\* The call goes through, and who becomes a candidate votes for itself.
Stands(i, b) ==
    /\ b.stopped = "no"
    /\ b.state = "candidate" /\ srv[i].current_term < b.current_term => b.voted_for # Nil
    /\ N = 1 => b.out = {}

\* b runs as a does, in its term and role.
Alive(a, b) ==
    /\ DOMAIN b = Fields /\ b.stopped = a.stopped /\ b.state = a.state
    /\ b.current_term = a.current_term /\ b.voted_for = a.voted_for

LEMMA AliveTrans ==
    ASSUME NEW a, NEW b, NEW c, Alive(a, b), Alive(b, c)
    PROVE  Alive(a, c)
BY DEF Alive

LEMMA ApplyAlive ==
    ASSUME NEW me, DOMAIN me = Fields
    PROVE  Alive(me, raft_apply_all(me)) /\ raft_apply_all(me).out = me.out
BY DEF raft_apply_all, Alive, Fields

LEMMA SendAlive ==
    ASSUME NEW me, DOMAIN me = Fields, NEW ks
    PROVE  LET b == raft_send_appendentries(me, ks)
           IN  Alive(me, b) /\ (ks = {} => b.out = me.out)
<1> DEFINE sent == UNION {IF NeedsSnapshot(me, k) THEN send_snapshot(me, k)
                          ELSE send_appendentries(me, k) : k \in ks}
<1>1. raft_send_appendentries(me, ks) = [me EXCEPT !.out = @ \cup sent]
  BY DEF raft_send_appendentries
<1>2. ks = {} => sent = {}
  OBVIOUS
<1> HIDE DEF sent
<1> QED
  BY <1>1, <1>2 DEF Alive, Fields

LEMMA CommitAlive ==
    ASSUME NEW i, NEW me, WellTyped(i, me), NEW idx, me.commit_idx <= idx, idx <= Len(me.log)
    PROVE  Alive(me, raft_set_commit_idx(me, idx)) /\ raft_set_commit_idx(me, idx).out = me.out
<1>1. DOMAIN me = Fields /\ raft_get_current_idx(me) = Len(me.log)
  BY CurrentIdx DEF WellTyped, ServerOK
<1> QED
  BY <1>1 DEF raft_set_commit_idx, Alive, Fields

LEMMA StepDownAlive ==
    ASSUME NEW me, DOMAIN me = Fields, NEW t
    PROVE  LET b == StepDown(me, t)
           IN  DOMAIN b = Fields /\ b.stopped = me.stopped /\ b.state = "follower"
BY DEF StepDown, raft_become_follower, raft_set_current_term, Fields

LEMMA LeaderAlive ==
    ASSUME NEW me, DOMAIN me = Fields
    PROVE  LET b == raft_become_leader(me)
           IN  /\ DOMAIN b = Fields /\ b.stopped = me.stopped /\ b.state = "leader"
               /\ Peers(me) = {} => b.out = me.out
<1> DEFINE m == [me EXCEPT !.state = "leader", !.current_leader = me.id,
                        !.late = FALSE,
                        !.next_idx = [k \in Server |->
                            IF k = me.id THEN @[k] ELSE raft_get_current_idx(me) + 1],
                        !.match_idx = [k \in Server |->
                            IF k = me.id THEN @[k] ELSE 0]]
<1>1. raft_become_leader(me) = raft_send_appendentries(m, Peers(me))
  BY DEF raft_become_leader
<1>2. DOMAIN m = Fields /\ m.stopped = me.stopped /\ m.state = "leader" /\ m.out = me.out
  BY DEF Fields
<1> HIDE DEF m
<1>3. Alive(m, raft_send_appendentries(m, Peers(me)))
      /\ (Peers(me) = {} => raft_send_appendentries(m, Peers(me)).out = m.out)
  BY <1>2, SendAlive
<1> QED
  BY <1>1, <1>2, <1>3 DEF Alive

LEMMA CandidateAlive ==
    ASSUME NEW i \in Server, NEW me, ServerOK(i, me), me.cb.persist_vote = TRUE,
           ~TermNotPersisted(me, me.current_term + 1)
    PROVE  LET b == raft_become_candidate(me)
           IN  DOMAIN b = Fields /\ b.stopped = me.stopped /\ b.voted_for = i
<1> DEFINE t == raft_set_current_term(me, me.current_term + 1)
           e == [t EXCEPT !.votes = {}]
           m == raft_vote_for_nodeid(e, me.id)
           c == [m EXCEPT !.current_leader = Nil, !.state = "candidate", !.late = FALSE]
           asked == {raft_send_requestvote(c, k) : k \in Peers(c)}
           b == [c EXCEPT !.out = @ \cup asked]
<1>1. raft_become_candidate(me) = b
  BY DEF raft_become_candidate
<1>2. DOMAIN me = Fields /\ me.id = i /\ me.current_term + 1 \in Nat
  BY DEF ServerOK
<1>3. ServerOK(i, t) /\ t.cb = me.cb
  BY <1>2, SetTermOK
<1>4. t.stopped = me.stopped
  BY <1>2 DEF raft_set_current_term, Fields
<1> HIDE DEF t
<1>5. ServerOK(i, e) /\ e.cb = me.cb /\ e.stopped = me.stopped
  BY <1>3, <1>4 DEF ServerOK, Fields
<1> HIDE DEF e
<1>6. DOMAIN m = Fields /\ m.voted_for = i
  <2>1. e.cb.persist_vote
    BY <1>5, Zenon
  <2>2. m = [e EXCEPT !.voted_for = me.id, !.disk.vote = me.id]
    BY <2>1, Zenon DEF raft_vote_for_nodeid
  <2> HIDE DEF m
  <2>3. DOMAIN e = Fields
    BY <1>5 DEF ServerOK
  <2> QED
    BY <1>2, <2>2, <2>3 DEF Fields
<1>7. m.stopped = me.stopped
  BY <1>5 DEF raft_vote_for_nodeid, ServerOK, Fields
<1> HIDE DEF m
<1>8. DOMAIN c = Fields /\ c.stopped = me.stopped /\ c.voted_for = i
  BY <1>6, <1>7 DEF Fields
<1> HIDE DEF c, asked
<1> QED
  BY <1>1, <1>8 DEF Fields

\* The server the library is called with.
LEMMA WithAlive ==
    ASSUME ElectionInv, Standing, NEW i \in Server, NEW cb
    PROVE  LET me == With(i, cb)
           IN  /\ ServerOK(i, me) /\ DOMAIN me = Fields /\ me.cb = cb /\ me.out = {}
               /\ Alive(srv[i], me) /\ me.stopped = "no" /\ me.current_term \in Nat
               /\ N = 1 => Peers(me) = {}
<1>1. /\ ServerOK(i, With(i, cb)) /\ DOMAIN With(i, cb) = Fields /\ With(i, cb).cb = cb
      /\ With(i, cb).out = {}
  BY WithOK
<1>2. Alive(srv[i], With(i, cb)) /\ srv[i].stopped = "no"
  <2>1. DOMAIN srv[i] = Fields
    BY DEF ElectionInv, ElectionType, ServerOK
  <2>2. srv[i].stopped = "no"
    BY DEF Standing, NeverStopped
  <2> QED
    BY <2>1, <2>2 DEF With, Alive, Fields
<1>3. N = 1 => Peers(With(i, cb)) = {}
  BY <1>1 DEF Peers, Server, ServerOK
<1> QED
  BY <1>1, <1>2, <1>3 DEF Alive, ServerOK

\* A server that only goes on stands.
LEMMA AliveStands ==
    ASSUME ElectionInv, Standing, NEW i \in Server, NEW b, Alive(srv[i], b),
           N = 1 => b.out = {}
    PROVE  Stands(i, b)
<1>1. srv[i].current_term \in Nat /\ srv[i].stopped = "no"
  BY DEF ElectionInv, ElectionType, ServerOK, Standing, NeverStopped
<1> QED
  BY <1>1 DEF Alive, Stands

LEMMA PeriodicStands ==
    ASSUME ElectionInv, Standing, "persist_vote" \notin MayFail, NEW i \in Server,
           NEW cb \in Callbacks, NEW timer
    PROVE  Stands(i, raft_periodic(With(i, cb), timer))
<1> DEFINE me == With(i, cb)
           l == raft_become_leader(me)
           q == [me EXCEPT !.late = FALSE]
           ks == {k \in Peers(me) : \A j \in Peers(me) : j < k => ~NeedsSnapshot(me, j)}
           s == raft_send_appendentries(q, ks)
           m == [me EXCEPT !.late = me.current_leader # Nil /\ timer # "early"]
           c == raft_become_candidate(m)
           b == raft_periodic(me, timer)
<1> SUFFICES Stands(i, b)
  OBVIOUS
<1>1. /\ ServerOK(i, me) /\ DOMAIN me = Fields /\ me.cb = cb /\ me.out = {}
      /\ Alive(srv[i], me) /\ me.stopped = "no" /\ me.current_term \in Nat
      /\ N = 1 => Peers(me) = {}
  BY WithAlive
<1>2. \/ b = raft_apply_all(l)
      \/ b = raft_apply_all(s)
      \/ b = raft_apply_all(me)
      \/ b = raft_apply_all(m)
      \/ b = m
      \/ /\ ~TermNotPersisted(m, m.current_term + 1) /\ 1 < N
         /\ b = raft_apply_all(c)
  BY DEF raft_periodic, raft_send_appendentries_all, Elects
<1>3. N = 1 => ks = {}
  BY <1>1
<1> HIDE DEF me, b, ks
<1>4. cb.persist_vote = TRUE
  BY Zenon DEF Callbacks
<1>5. ServerOK(i, m) /\ Alive(me, m) /\ m.out = {} /\ m.cb = cb
  BY <1>1 DEF ServerOK, Alive, Fields
<1>6. DOMAIN q = Fields /\ Alive(me, q) /\ q.out = {}
  BY <1>1 DEF Alive, Fields
<1> HIDE DEF m, q
<1>7. ASSUME NEW x, Alive(me, x), N = 1 => x.out = {}
      PROVE  /\ b = raft_apply_all(x) => Stands(i, b)
             /\ b = x => Stands(i, b)
  <2>1. Alive(x, raft_apply_all(x)) /\ raft_apply_all(x).out = x.out
    BY <1>7, ApplyAlive DEF Alive
  <2> QED
    BY <1>1, <1>7, <2>1, AliveTrans, AliveStands
<1>8. CASE b = raft_apply_all(l)
  <2>1. DOMAIN l = Fields /\ l.stopped = "no" /\ l.state = "leader" /\ (N = 1 => l.out = {})
    BY <1>1, LeaderAlive
  <2> HIDE DEF l
  <2>2. Alive(l, b) /\ b.out = l.out
    BY <1>8, <2>1, ApplyAlive
  <2> QED
    BY <2>1, <2>2 DEF Alive, Stands
<1>9. CASE b = raft_apply_all(s)
  <2>1. Alive(q, s) /\ (ks = {} => s.out = q.out)
    BY <1>6, SendAlive
  <2> HIDE DEF s
  <2>2. Alive(me, s) /\ (N = 1 => s.out = {})
    BY <1>3, <1>6, <2>1, AliveTrans
  <2> QED
    BY <1>7, <1>9, <2>2
<1>10. CASE b = raft_apply_all(me)
  BY <1>1, <1>7, <1>10 DEF Alive
<1>11. CASE b = raft_apply_all(m) \/ b = m
  BY <1>5, <1>7, <1>11
<1>12. CASE /\ ~TermNotPersisted(m, m.current_term + 1) /\ 1 < N
            /\ b = raft_apply_all(c)
  <2>1. m.cb.persist_vote = TRUE
    BY <1>4, <1>5, Zenon
  <2>2. DOMAIN c = Fields /\ c.stopped = m.stopped /\ c.voted_for = i
    BY <1>5, <1>12, <2>1, CandidateAlive
  <2> HIDE DEF c
  <2>3. Alive(c, b)
    BY <1>12, <2>2, ApplyAlive
  <2>4. b.stopped = "no" /\ b.voted_for = i /\ i # Nil
    BY <1>1, <1>5, <2>2, <2>3 DEF Alive, Server, Nil
  <2> QED
    BY <1>12, <2>4 DEF Stands
<1> HIDE DEF l, s, c
<1> QED
  BY <1>2, <1>8, <1>9, <1>10, <1>11, <1>12

\* Appendentries that reach a server contradict nothing it has committed.
LEMMA NoConflict ==
    ASSUME SafetyInv, NEW i \in Server, NEW ae \in net, IsAppend(ae), ae.dst = i,
           srv[i].current_term <= ae.term
    PROVE  ~Conflicts(srv[i], ae)
<1>0. ReplicationInv
  BY DEF SafetyInv
<1>1. /\ ae.src \in Server /\ ae.src # i /\ ae.term \in Nat /\ Segment(MsgSeg(ae))
      /\ ae.leader_commit \in Nat
  BY <1>0, StateTypes DEF AppendTyped
<1>2. 1 < N
  BY <1>1, NAssumption DEF Server
<1>3. PICK s : s = MsgSeg(ae)
  OBVIOUS
<1>4. ae.leader_commit <= Hi(s) /\ Hi(s) \in Nat
  BY <1>1, <1>2, <1>3, SegmentFacts DEF SafetyInv, Sent
<1>5. ASSUME NEW y \in s.lo .. Hi(s), y \in 1 .. srv[i].commit_idx
      PROVE  srv[i].log[y].term = Tm(s, y)
  <2>1. srv[i].commit_idx \in Nat /\ srv[i].commit_idx # 0 /\ srv[i].current_term \in Nat
    BY <1>0, <1>5, StateTypes DEF Typed
  <2>2. PICK P : /\ History(P) /\ Chosen(P) /\ EndTerm(P) <= srv[i].current_term
                 /\ srv[i].commit_idx <= Len(P)
                 /\ \A x \in 1 .. srv[i].commit_idx : srv[i].log[x] = P[x]
    BY <1>2, <2>1, CommittedChosen
  <2>3. /\ Len(P) \in Nat /\ EndTerm(P) \in Nat
        /\ \A x \in 1 .. Len(P) : Tm(LogSeg(P), x) = P[x].term
    BY <2>2, HistoryFacts
  <2>4. EndTerm(P) <= ae.term /\ y \in 1 .. Len(P) /\ y <= Len(P)
    BY <1>1, <1>5, <2>1, <2>2, <2>3
  <2>5. Extends(s, P)
    BY <1>3, <2>2, <2>4 DEF Chosen, Safe
  <2>6. Tm(s, y) = Tm(LogSeg(P), y)
    BY <2>4, <2>5 DEF Extends
  <2> QED
    BY <1>5, <2>2, <2>3, <2>4, <2>6
<1>6. ~(Hi(s) < ae.leader_commit)
  BY <1>1, <1>4
<1> QED
  BY <1>3, <1>5, <1>6 DEF Conflicts

LEMMA AppendEntriesStands ==
    ASSUME SafetyInv, Standing, NEW i \in Server, NEW cb \in Callbacks, NEW ae \in net,
           IsAppend(ae), ae.dst = i
    PROVE  Stands(i, raft_recv_appendentries(With(i, cb), ae))
<1>1. PICK b : b = raft_recv_appendentries(With(i, cb), ae)
  OBVIOUS
<1>2. Goes(i, b, ae)
  BY <1>1, AppendEntriesSafe
<1>3. b.stopped = "no"
  BY <1>2, NoConflict DEF Goes, Standing, NeverStopped
<1>4. N # 1
  BY DEF Standing
<1>5. srv[i].current_term \in Nat
  BY StateTypes DEF SafetyInv
<1> QED
  BY <1>1, <1>2, <1>3, <1>4, <1>5 DEF Goes, Stands

LEMMA BackOffAlive ==
    ASSUME NEW i \in Server, NEW me, WellTyped(i, me), NEW k \in Server, NEW r
    PROVE  Alive(me, BackOff(me, k, r))
<1> DEFINE next == me.next_idx[k]
           idx == IF r.current_idx < next - 1
                  THEN Lesser(r.current_idx + 1, raft_get_current_idx(me)) ELSE next - 1
           m == raft_node_set_next_idx(me, k, idx)
           s == raft_send_appendentries(m, {k})
           b == BackOff(me, k, r)
<1>1. DOMAIN me = Fields /\ next \in Nat \ {0}
  BY DEF WellTyped, ServerOK, Typed
<1>2. ~(next <= 0)
  BY <1>1
<1>3. b = me \/ b = s
  BY <1>2, Zenon DEF BackOff
<1> HIDE DEF idx, b, next
<1>4. Alive(me, m) /\ DOMAIN m = Fields
  BY <1>1 DEF raft_node_set_next_idx, Alive, Fields
<1> HIDE DEF m
<1>5. Alive(m, s)
  BY <1>4, SendAlive
<1> HIDE DEF s
<1>6. Alive(me, me)
  BY <1>1 DEF Alive
<1> QED
  BY <1>3, <1>4, <1>5, <1>6, AliveTrans DEF b

LEMMA AppendEntriesResponseStands ==
    ASSUME SafetyInv, Standing, NEW i \in Server, NEW cb, NEW r \in net,
           IsResponse(r), r.dst = i
    PROVE  Stands(i, raft_recv_appendentries_response(With(i, cb), r))
<1> DEFINE me == With(i, cb)
           k == r.src
           x == r.current_idx
           n == [raft_node_set_next_idx(me, k, x + 1) EXCEPT !.match_idx[k] = x]
           m == raft_leader_commit(n, x)
           b == raft_recv_appendentries_response(me, r)
<1> SUFFICES Stands(i, b)
  OBVIOUS
<1>0. ReplicationInv /\ ElectionInv
  BY DEF SafetyInv, ReplicationInv
<1>1. /\ WellTyped(i, me) /\ SameLog(srv[i], me) /\ me.out = {} /\ Alive(srv[i], me)
      /\ me.stopped = "no" /\ DOMAIN me = Fields
  BY <1>0, TypedWith, WithAlive
<1>2. k \in Server /\ k # i /\ x \in Nat /\ r.term \in Nat /\ N # 1
  BY <1>0, StateTypes DEF ResponseTyped, Standing
<1>3. \/ b = me
      \/ b = StepDown(me, r.term)
      \/ b = BackOff(me, k, r)
      \/ /\ me.state = "leader" /\ me.current_term = r.term /\ r.success
         /\ raft_get_current_idx(me) < x
      \/ /\ ~(raft_get_current_idx(me) < x)
         /\ b = raft_send_appendentries(m, {k}) \/ b = m
  BY Zenon DEF raft_recv_appendentries_response
<1>4. /\ srv[i].state = me.state /\ srv[i].current_term = me.current_term
      /\ srv[i].log = me.log /\ Len(me.log) \in Nat
      /\ raft_get_current_idx(me) = Len(me.log)
      /\ me.next_idx \in [Server -> Nat \ {0}] /\ me.match_idx \in [Server -> Nat]
      /\ me.match_idx[i] = 0 /\ me.id = i /\ me.commit_idx \in Nat
  BY <1>1, CurrentIdx DEF SameLog, WellTyped, ServerOK, Typed
<1> HIDE DEF me, b
<1>5. ASSUME Alive(me, b)
      PROVE  Stands(i, b)
  BY <1>0, <1>1, <1>2, <1>5, AliveTrans, AliveStands
<1>6. CASE b = me
  BY <1>1, <1>5, <1>6 DEF Alive
<1>7. CASE b = StepDown(me, r.term)
  <2>1. b.stopped = "no" /\ b.state = "follower"
    BY <1>1, <1>7, StepDownAlive
  <2> QED
    BY <1>2, <2>1 DEF Stands
<1>8. CASE b = BackOff(me, k, r)
  BY <1>1, <1>2, <1>5, <1>8, BackOffAlive
\* A follower acknowledges entries that the leader has.
<1>9. CASE /\ me.state = "leader" /\ me.current_term = r.term /\ r.success
           /\ raft_get_current_idx(me) < x
  <2>1. IsSuccess(r)
    BY <1>9 DEF IsSuccess
  <2>2. Len(srv[i].log) + 1 <= x
    BY <1>2, <1>4, <1>9
  <2>3. Heard(i, k, Len(srv[i].log) + 1)
    BY <1>4, <1>9, <2>1, <2>2 DEF Heard
  <2>4. HeardWithin
    BY <1>2, NAssumption DEF SafetyInv
  <2> QED
    BY <1>2, <1>4, <1>9, <2>3, <2>4 DEF HeardWithin
<1>10. CASE /\ ~(raft_get_current_idx(me) < x)
            /\ b = raft_send_appendentries(m, {k}) \/ b = m
  <2> DEFINE next == [me.next_idx EXCEPT ![k] = Greater(x + 1, 1)]
             match == [me.match_idx EXCEPT ![k] = x]
  <2>1. n = [me EXCEPT !.next_idx = next, !.match_idx = match]
    BY <1>1 DEF raft_node_set_next_idx, Fields
  <2>2. x <= Len(me.log)
    BY <1>2, <1>4, <1>10
  <2>3. next \in [Server -> Nat \ {0}]
    <3>1. Greater(x + 1, 1) \in Nat \ {0}
      BY <1>2 DEF Greater
    <3> QED
      BY <1>2, <1>4, <3>1
  <2>4. match \in [Server -> Nat] /\ match[i] = 0
    BY <1>2, <1>4
  <2> HIDE DEF n, next, match
  <2>5. WellTyped(i, n) /\ Alive(me, n) /\ n.log = me.log
    BY <1>1, <1>4, <2>1, <2>3, <2>4 DEF WellTyped, ServerOK, Typed, Alive, Fields
  <2>6. m = n \/ (m = raft_set_commit_idx(n, x) /\ n.commit_idx < x)
    BY DEF raft_leader_commit
  <2>7. n.commit_idx \in Nat
    BY <2>5 DEF WellTyped, Typed
  <2> HIDE DEF m
  <2>8. Alive(n, m)
    <3>1. CASE m = n
      BY <2>5, <3>1 DEF Alive
    <3>2. CASE m = raft_set_commit_idx(n, x) /\ n.commit_idx < x
      <4>1. n.commit_idx <= x /\ x <= Len(n.log)
        BY <1>2, <2>2, <2>5, <2>7, <3>2
      <4> QED
        BY <2>5, <3>2, <4>1, CommitAlive
    <3> QED
      BY <2>6, <3>1, <3>2
  <2>9. Alive(me, m)
    BY <2>5, <2>8, AliveTrans
  <2>10. Alive(m, raft_send_appendentries(m, {k}))
    BY <2>9, SendAlive DEF Alive
  <2> QED
    BY <1>5, <1>10, <2>9, <2>10, AliveTrans
<1> HIDE DEF m
<1> QED
  BY <1>3, <1>6, <1>7, <1>8, <1>9, <1>10

\* A vote is granted by who has not voted in the term: a follower.
LEMMA RequestVoteStands ==
    ASSUME SafetyInv, Standing, NEW i \in Server, NEW cb, NEW vr \in net, IsRequest(vr), vr.dst = i
    PROVE  Stands(i, raft_recv_requestvote(With(i, cb), vr))
<1> DEFINE me == With(i, cb)
           m == IF me.current_term < vr.term THEN StepDown(me, vr.term) ELSE me
           v == raft_vote_for_nodeid(m, vr.src)
           w == [v EXCEPT !.current_leader = Nil, !.late = FALSE]
           b == raft_recv_requestvote(me, vr)
<1> SUFFICES Stands(i, b)
  OBVIOUS
<1>0. ReplicationInv /\ ElectionInv
  BY DEF SafetyInv, ReplicationInv
<1>1. /\ DOMAIN me = Fields /\ Alive(srv[i], me) /\ me.stopped = "no"
      /\ me.current_term \in Nat
  BY <1>0, WithAlive
<1>2. N # 1 /\ 1 < N
  <2>1. N # 1
    BY DEF Standing
  <2> QED
    BY <2>1, NAssumption
<1>3. \/ b = VoteAnswer(me, vr, FALSE)
      \/ b = VoteAnswer(m, vr, FALSE)
      \/ m.voted_for = Nil /\ m.state # "follower"
      \/ m.state = "follower" /\ b = VoteAnswer(w, vr, m.cb.persist_vote)
  BY DEF raft_recv_requestvote, __should_grant_vote
<1>4. /\ DOMAIN m = Fields /\ m.stopped = "no"
      /\ m = me \/ m.state = "follower"
  BY <1>1, StepDownAlive
<1>5. me.state # "follower" => me.voted_for # Nil
  BY <1>1, <1>2 DEF Alive, Standing
<1> HIDE DEF me, m, b
<1>6. ASSUME NEW n, DOMAIN n = Fields
      PROVE  \A granted : LET c == VoteAnswer(n, vr, granted)
                          IN  c.stopped = n.stopped /\ c.state = n.state
                              /\ c.current_term = n.current_term
  BY <1>6 DEF VoteAnswer, Fields
<1>7. ASSUME NEW n, n = me \/ n.state = "follower", b.stopped = "no",
             b.state = n.state, b.current_term = n.current_term
      PROVE  Stands(i, b)
  BY <1>1, <1>2, <1>7 DEF Alive, Stands
<1>8. CASE b = VoteAnswer(me, vr, FALSE)
  BY <1>1, <1>6, <1>7, <1>8
<1>9. CASE b = VoteAnswer(m, vr, FALSE)
  BY <1>4, <1>6, <1>7, <1>9
<1>10. CASE m.voted_for = Nil /\ m.state # "follower"
  BY <1>4, <1>5, <1>10
<1>11. CASE m.state = "follower" /\ b = VoteAnswer(w, vr, m.cb.persist_vote)
  <2>1. DOMAIN v = Fields /\ v.stopped = m.stopped /\ v.state = m.state
    BY <1>4 DEF raft_vote_for_nodeid, Fields
  <2> HIDE DEF v
  <2>2. DOMAIN w = Fields /\ w.stopped = m.stopped /\ w.state = m.state
    BY <2>1 DEF Fields
  <2> HIDE DEF w
  <2>3. b.stopped = "no" /\ b.state = "follower"
    BY <1>4, <1>6, <1>11, <2>2
  <2> QED
    BY <1>2, <2>3 DEF Stands
<1> HIDE DEF w, v
<1> QED
  BY <1>3, <1>8, <1>9, <1>10, <1>11

LEMMA RequestVoteResponseStands ==
    ASSUME SafetyInv, Standing, NEW i \in Server, NEW cb, NEW r \in net, r.dst = i
    PROVE  Stands(i, raft_recv_requestvote_response(With(i, cb), r))
<1> DEFINE me == With(i, cb)
           m == [me EXCEPT !.votes = @ \cup {r.src}]
           b == raft_recv_requestvote_response(me, r)
<1> SUFFICES Stands(i, b)
  OBVIOUS
<1>0. ElectionInv
  BY DEF SafetyInv, ReplicationInv
<1>1. DOMAIN me = Fields /\ Alive(srv[i], me) /\ me.stopped = "no"
  BY <1>0, WithAlive
<1>2. N # 1
  BY DEF Standing
<1>3. \/ b = me
      \/ b = StepDown(me, r.term)
      \/ b = m
      \/ b = raft_become_leader(m)
  BY DEF raft_recv_requestvote_response
<1> HIDE DEF me, b
<1>4. DOMAIN m = Fields /\ Alive(me, m)
  BY <1>1 DEF Alive, Fields
<1> HIDE DEF m
<1>5. CASE b = me \/ b = m
  BY <1>0, <1>1, <1>2, <1>4, <1>5, AliveTrans, AliveStands
<1>6. CASE b = StepDown(me, r.term)
  BY <1>1, <1>2, <1>6, StepDownAlive DEF Stands
<1>7. CASE b = raft_become_leader(m)
  <2>1. b.stopped = "no" /\ b.state = "leader"
    BY <1>1, <1>4, <1>7, LeaderAlive DEF Alive
  <2> QED
    BY <1>2, <2>1 DEF Stands
<1> QED
  BY <1>3, <1>5, <1>6, <1>7

LEMMA EntryStands ==
    ASSUME SafetyInv, Standing, NEW i \in Server, NEW cb \in Callbacks,
           NEW id \in 1 .. MaxRequests, srv[i].state = "leader"
    PROVE  Stands(i, raft_recv_entry(With(i, cb), id))
<1> DEFINE me == With(i, cb)
           e == [term |-> me.current_term, id |-> id]
           m == raft_append_entry(me, e)
           ks == {k \in Peers(m) : m.next_idx[k] = raft_get_current_idx(m)}
           s == raft_send_appendentries(m, ks)
           c == raft_set_commit_idx(s, raft_get_current_idx(s))
           b == raft_recv_entry(me, id)
           q == <<e>>
<1> SUFFICES Stands(i, b)
  OBVIOUS
<1>0. ReplicationInv /\ ElectionInv
  BY DEF SafetyInv, ReplicationInv
<1>1. /\ WellTyped(i, me) /\ SameLog(srv[i], me) /\ me.out = {} /\ me.cb.log_offer \in Nat
      /\ Alive(srv[i], me) /\ me.stopped = "no" /\ DOMAIN me = Fields
  BY <1>0, TypedWith, OfferNat, WithAlive
<1>2. b = m \/ b = s \/ b = c
  BY DEF raft_recv_entry
<1>3. me.current_term \in Nat
  BY <1>1 DEF WellTyped, ServerOK
<1> HIDE DEF me, b
<1>4. q \in Seq(Entries)
  BY <1>3 DEF Entries
<1>5. m = raft_append_entries(me, q)
  BY DEF raft_append_entry
<1> HIDE DEF e, q
<1>6. Alive(me, m) /\ m.out = {}
  BY <1>1, <1>5 DEF raft_append_entries, Alive, Fields
<1> HIDE DEF m
<1>7. WellTyped(i, m) /\ m.state = "leader" /\ m.id = i
  <2>1. WellTyped(i, me) /\ me.cb.log_offer \in Nat /\ q \in Seq(Entries)
    BY <1>1, <1>4
  <2>2. WellTyped(i, m)
    BY <1>5, <2>1, AppendLog
  <2> QED
    BY <1>1, <1>6, <2>2 DEF Alive, WellTyped, ServerOK
<1>8. ks \in SUBSET (Server \ {i}) /\ (N = 1 => ks = {})
  BY <1>7 DEF Peers, Server
<1> HIDE DEF ks
<1>9. WellTyped(i, s) /\ Alive(m, s) /\ (N = 1 => s.out = {})
  <2>1. WellTyped(i, s)
    BY <1>7, <1>8, SendCarries
  <2>2. Alive(m, s) /\ (ks = {} => s.out = m.out)
    BY <1>6, SendAlive DEF Alive
  <2> QED
    BY <1>6, <1>8, <2>1, <2>2
<1> HIDE DEF s
<1>10. Alive(s, c) /\ c.out = s.out
  <2>1. /\ raft_get_current_idx(s) = Len(s.log) /\ s.commit_idx <= Len(s.log)
        /\ Len(s.log) \in Nat
    BY <1>9, CurrentIdx DEF WellTyped, Typed
  <2> QED
    BY <1>9, <2>1, CommitAlive
<1> HIDE DEF c
<1> QED
  BY <1>0, <1>1, <1>2, <1>6, <1>9, <1>10, AliveTrans, AliveStands

LEMMA RestartStands ==
    ASSUME ElectionInv, NEW i \in Server
    PROVE  Stands(i, Reload(srv[i]))
<1> DEFINE me == srv[i]
           new == [raft_new(i) EXCEPT !.disk = me.disk,
                                      !.cb.log_offer = Len(me.log)]
           t == raft_set_current_term(new, me.disk.term)
           v == raft_vote_for_nodeid(t, me.disk.vote)
           a == raft_append_entries(v, me.log)
           b == [a EXCEPT !.disk = me.disk]
<1>1. ServerOK(i, me)
  BY DEF ElectionInv, ElectionType
<1>2. Reload(me) = b
  BY <1>1 DEF Reload, Complete, ServerOK
<1>3. DOMAIN new = Fields /\ new.state = "follower" /\ new.out = {} /\ new.stopped = "no"
  BY DEF raft_new, Fields, AllWell
<1> HIDE DEF new
<1>4. DOMAIN t = Fields /\ t.state = "follower" /\ t.out = {} /\ t.stopped = "no"
  BY <1>3 DEF raft_set_current_term, Fields
<1> HIDE DEF t
<1>5. DOMAIN v = Fields /\ v.state = "follower" /\ v.out = {} /\ v.stopped = "no"
  BY <1>4 DEF raft_vote_for_nodeid, Fields
<1> HIDE DEF v
<1>6. DOMAIN a = Fields /\ a.state = "follower" /\ a.out = {} /\ a.stopped = "no"
  BY <1>5 DEF raft_append_entries, Fields
<1> HIDE DEF a
<1>7. b.state = "follower" /\ b.out = {} /\ b.stopped = "no"
  BY <1>6 DEF Fields
<1> HIDE DEF b
<1> QED
  BY <1>2, <1>7 DEF Stands

LEMMA StandingStep ==
    ASSUME ElectionInv, ElectionInv', Standing, NEW i \in Server, NEW b, RepStep(i, b),
           GoodStep(i, b), Stands(i, b), NEW given \in SUBSET net, Update(i, b, given)
    PROVE  Standing'
<1>1. DOMAIN srv = Server /\ DOMAIN b = Fields /\ srv[i].current_term \in Nat
      /\ b.current_term \in Nat
  BY DEF ElectionInv, ElectionType, GoodStep, ServerOK
<1>2. srv' = [srv EXCEPT ![i] = [b EXCEPT !.out = {}, !.cb = AllWell]]
  BY DEF Update
<1>3. srv'[i] = [b EXCEPT !.out = {}, !.cb = AllWell]
      /\ \A j \in Server : j # i => srv'[j] = srv[j]
  BY <1>1, <1>2
<1>4. /\ srv'[i].stopped = b.stopped /\ srv'[i].state = b.state
      /\ srv'[i].voted_for = b.voted_for
  BY <1>1, <1>3 DEF Fields
<1>5. NeverStopped'
  BY <1>3, <1>4 DEF Stands, Standing, NeverStopped
<1>6. ASSUME 1 < N, b.state # "follower"
      PROVE  b.voted_for # Nil
  <2>1. srv[i].current_term = b.current_term => srv[i].voted_for \in {Nil, b.voted_for}
    BY DEF GoodStep, TermGrows
  <2>2. srv[i].state # "follower" => srv[i].voted_for # Nil
    BY <1>6 DEF Standing
  <2>3. b.state \in {"candidate", "leader"} /\ srv[i].current_term <= b.current_term
    BY <1>6 DEF RepStep, WellTyped, Typed, RoleStep
  <2>4. CASE b.state = "leader"
    <3>1. srv[i].current_term = b.current_term /\ srv[i].state \in {"leader", "candidate"}
      BY <1>6, <2>4 DEF RepStep, RoleStep
    <3> QED
      BY <2>1, <2>2, <3>1
  <2>5. CASE b.state = "candidate"
    <3>1. srv[i].current_term < b.current_term \/ srv[i].state = "candidate"
      BY <2>5 DEF RepStep, RoleStep
    <3>2. CASE srv[i].current_term < b.current_term
      BY <2>5, <3>2 DEF Stands
    <3>3. CASE srv[i].current_term = b.current_term
      BY <1>1, <2>1, <2>2, <3>1, <3>3
    <3> QED
      BY <1>1, <2>3, <3>2, <3>3
  <2> QED
    BY <2>3, <2>4, <2>5
<1>7. 1 < N => \A j \in Server : srv'[j].state # "follower" => srv'[j].voted_for # Nil
  BY <1>3, <1>4, <1>6 DEF Standing
<1>8. N = 1 => net' = {}
  <2>1. PICK lost, again : /\ again \in {{}, given}
                           /\ net' = (net \ given) \cup again \cup (b.out \ lost)
    BY DEF Update
  <2> QED
    BY <2>1 DEF Standing, Stands
<1> QED
  BY <1>5, <1>7, <1>8 DEF Standing

\* Every call goes through.
LEMMA NextStands ==
    ASSUME MaxSnapshots = 0, "persist_vote" \notin MayFail, SafetyInv, Standing, Next
    PROVE  Standing'
<1>0. ReplicationInv
  BY DEF SafetyInv
<1>1. ElectionInv /\ used.requests \in Nat
  BY <1>0 DEF ReplicationInv, ReplicationType
<1>2. ElectionInv'
  BY <1>1, NextIsGood, StepInv
<1>3. /\ \A m \in net : Message(m)
      /\ DOMAIN used = {"requests", "snapshots", "restarts"} /\ used.snapshots = 0
      /\ \A i \in Server : srv[i].snapshot_in_progress = FALSE
  BY <1>1 DEF ElectionInv, ElectionType, ServerOK
<1>4. ASSUME NEW i \in Server, NEW b, RepStep(i, b), GoodStep(i, b), Stands(i, b),
             NEW given \in SUBSET net, Update(i, b, given)
      PROVE  Standing'
  BY <1>1, <1>2, <1>4, StandingStep
<1>5. ASSUME NEW i \in Server, Periodic(i)
      PROVE  Standing'
  <2>1. PICK timer \in Timers(srv[i]), cb \in Callbacks :
          Update(i, raft_periodic(With(i, cb), timer), {})
    BY <1>5 DEF Periodic
  <2>2. PICK b : b = raft_periodic(With(i, cb), timer)
    OBVIOUS
  <2>3. RepStep(i, b) /\ GoodStep(i, b) /\ Stands(i, b)
    BY <1>0, <1>1, <2>2, PeriodicRep, PeriodicGood, PeriodicStands
  <2> QED
    BY <1>4, <2>1, <2>2, <2>3
<1>6. CASE RecvAppendEntries
  <2>1. PICK m \in net, cb \in Callbacks :
          /\ m.type = "appendentries"
          /\ Update(m.dst, raft_recv_appendentries(With(m.dst, cb), m), {m})
    BY <1>6 DEF RecvAppendEntries, Receive
  <2>2. m.dst \in Server /\ IsAppend(m)
    BY <1>3, <2>1 DEF Message, IsAppend
  <2>3. PICK b : b = raft_recv_appendentries(With(m.dst, cb), m)
    OBVIOUS
  <2>4. RepStep(m.dst, b) /\ GoodStep(m.dst, b) /\ Stands(m.dst, b)
    BY <1>0, <1>1, <1>3, <2>2, <2>3, AppendEntriesRep, AppendEntriesGood, AppendEntriesStands
  <2> QED
    BY <1>4, <2>1, <2>2, <2>3, <2>4
<1>7. CASE RecvAppendEntriesResponse
  <2>1. PICK m \in net, cb \in Callbacks :
          /\ m.type = "appendentries_response"
          /\ Update(m.dst, raft_recv_appendentries_response(With(m.dst, cb), m), {m})
    BY <1>7 DEF RecvAppendEntriesResponse, Receive
  <2>2. m.dst \in Server /\ IsResponse(m)
    BY <1>3, <2>1 DEF Message, IsResponse
  <2>3. PICK b : b = raft_recv_appendentries_response(With(m.dst, cb), m)
    OBVIOUS
  <2>4. RepStep(m.dst, b)
    BY <1>0, <1>1, <2>2, <2>3, AppendEntriesResponseRep
  <2>5. GoodStep(m.dst, b)
    BY <1>0, <1>1, <1>3, <2>2, <2>3, AppendEntriesResponseGood
  <2>6. Stands(m.dst, b)
    BY <2>2, <2>3, AppendEntriesResponseStands
  <2> QED
    BY <1>4, <2>1, <2>2, <2>3, <2>4, <2>5, <2>6
<1>8. CASE RecvRequestVote
  <2>1. PICK m \in net, cb \in Callbacks :
          /\ m.type = "requestvote"
          /\ Update(m.dst, raft_recv_requestvote(With(m.dst, cb), m), {m})
    BY <1>8 DEF RecvRequestVote, Receive
  <2>2. m.dst \in Server /\ IsRequest(m)
    BY <1>3, <2>1 DEF Message, IsRequest
  <2>3. PICK b : b = raft_recv_requestvote(With(m.dst, cb), m)
    OBVIOUS
  <2>4. RepStep(m.dst, b)
    BY <1>0, <1>1, <2>2, <2>3, RequestVoteRep
  <2>5. GoodStep(m.dst, b)
    BY <1>0, <1>1, <1>3, <2>2, <2>3, RequestVoteGood
  <2>6. Stands(m.dst, b)
    BY <2>2, <2>3, RequestVoteStands
  <2> QED
    BY <1>4, <2>1, <2>2, <2>3, <2>4, <2>5, <2>6
<1>9. CASE RecvRequestVoteResponse
  <2>1. PICK m \in net, cb \in Callbacks :
          /\ m.type = "requestvote_response"
          /\ Update(m.dst, raft_recv_requestvote_response(With(m.dst, cb), m), {m})
    BY <1>9 DEF RecvRequestVoteResponse, Receive
  <2>2. m.dst \in Server
    BY <1>3 DEF Message
  <2>3. PICK b : b = raft_recv_requestvote_response(With(m.dst, cb), m)
    OBVIOUS
  <2>4. RepStep(m.dst, b)
    BY <1>0, <1>1, <2>1, <2>2, <2>3, RequestVoteResponseRep
  <2>5. GoodStep(m.dst, b)
    BY <1>0, <1>1, <2>1, <2>2, <2>3, RequestVoteResponseGood
  <2>6. Stands(m.dst, b)
    BY <2>2, <2>3, RequestVoteResponseStands
  <2> QED
    BY <1>4, <2>1, <2>2, <2>3, <2>4, <2>5, <2>6
<1>10. CASE RecvSnapshot
  BY <1>3, <1>10 DEF RecvSnapshot, Receive, Message
<1>11. ASSUME NEW i \in Server, RecvEntry(i)
       PROVE  Standing'
  <2>1. PICK cb \in Callbacks : Update(i, raft_recv_entry(With(i, cb), used'.requests), {})
    BY <1>11 DEF RecvEntry
  <2>2. /\ srv[i].state = "leader" /\ used.requests < MaxRequests
        /\ used'.requests = used.requests + 1
    BY <1>3, <1>11 DEF RecvEntry
  <2>3. PICK id : id = used'.requests
    OBVIOUS
  <2>4. id \in 1 .. MaxRequests
    BY <1>1, <2>2, <2>3, BoundAssumption
  <2>5. PICK b : b = raft_recv_entry(With(i, cb), id)
    OBVIOUS
  <2>6. RepStep(i, b) /\ GoodStep(i, b) /\ Stands(i, b)
    BY <1>0, <1>1, <2>2, <2>4, <2>5, EntryRep, EntryGood, EntryStands
  <2> QED
    BY <1>4, <2>1, <2>3, <2>5, <2>6
<1>12. ASSUME NEW i \in Server, BeginSnapshot(i) \/ CancelSnapshot(i) \/ EndSnapshot(i)
       PROVE  FALSE
  BY <1>3, <1>12 DEF BeginSnapshot, CancelSnapshot, EndSnapshot
<1>13. ASSUME NEW i \in Server, Restart(i)
       PROVE  Standing'
  <2>1. Update(i, Reload(srv[i]), {})
    BY <1>13 DEF Restart
  <2> QED
    BY <1>0, <1>1, <1>4, <2>1, RestartRep, RestartGood, RestartStands
<1> QED
  BY <1>5, <1>6, <1>7, <1>8, <1>9, <1>10, <1>11, <1>12, <1>13 DEF Next

\* No assert of raft_server.c fails and none of its branches marked "Should
\* never happen; something is seriously wrong!" is taken, however messages are
\* lost, delayed, duplicated and reordered, and servers restart: appendentries
\* never contradict a committed entry, a response never acknowledges more than
\* the leader has, a commit index never passes the log, and a leader or
\* candidate is never asked for a vote that it would grant.  persist_vote must
\* succeed: raft_become_candidate ignores its result, and a candidate without
\* a vote of its own meets the assert in raft_recv_requestvote.
THEOREM NeverStops ==
    ASSUME MaxSnapshots = 0, "persist_vote" \notin MayFail
    PROVE  Spec => []NeverStopped
<1>1. Init => Standing
  <2> SUFFICES ASSUME Init PROVE Standing
    OBVIOUS
  <2>1. \A i \in Server : srv[i].stopped = "no" /\ srv[i].state = "follower"
    BY DEF Init, raft_new
  <2> QED
    BY <2>1 DEF Init, Standing, NeverStopped
<1>2. Standing /\ SafetyInv /\ [Next]_vars => Standing'
  <2>1. CASE Standing /\ SafetyInv /\ Next
    BY <2>1, NextStands
  <2>2. CASE Standing /\ UNCHANGED vars
    BY <2>2 DEF Standing, NeverStopped, vars
  <2> QED
    BY <2>1, <2>2
<1>3. Standing => NeverStopped
  BY DEF Standing
<1> QED
  BY <1>1, <1>2, <1>3, SafetyInvariant, PTL DEF Spec
=============================================================================
