----------------------- MODULE RaftReplicationProofs -----------------------
(***************************************************************************)
(* Proofs about elections and log replication in raft/raft_server.c, for   *)
(* every number of servers, entries, terms, messages and restarts, with    *)
(* losses, reordering, duplicates and failing callbacks.                   *)
(*                                                                         *)
(* They need MaxSnapshots = 0: raft_begin_load_snapshot sets the term back *)
(* to the snapshot's and forgets the vote, so a server that loads one can  *)
(* vote twice in a term.                                                   *)
(***************************************************************************)
EXTENDS RaftServer, FiniteSetTheorems, SequenceTheorems, NaturalsInduction,
        WellFoundedInduction, TLAPS

\* The fields of a raft_server_private_t and of its user.
Fields ==
    {"id", "current_term", "voted_for", "state", "current_leader", "late",
     "log", "base", "front", "size", "commit_idx", "last_applied_idx",
     "next_idx", "match_idx", "votes", "snapshot_in_progress", "nonblocking",
     "snap", "saved", "disk", "fsm", "out", "cb", "stopped"}

\* A server between two calls of the library: what it has persisted is its
\* term and its vote.
ServerOK(i, me) ==
    /\ DOMAIN me = Fields
    /\ me.id = i
    /\ me.current_term \in Nat
    /\ me.voted_for \in Server \cup {Nil}
    /\ me.votes \subseteq Server
    /\ me.disk = [term |-> me.current_term, vote |-> me.voted_for]
    /\ me.snap.idx = 0 /\ me.snapshot_in_progress = FALSE

\* A message the servers send while there are no snapshots.
Message(m) ==
    /\ m.type \in {"appendentries", "appendentries_response", "requestvote",
                   "requestvote_response"}
    /\ m.src \in Server /\ m.dst \in Server /\ m.term \in Nat

IsGrant(m) == m.type = "requestvote_response" /\ m.vote_granted = TRUE

\* j's vote for i in term t is on its way to i, or i counts it.
Granted(j, i, t) ==
    \E m \in net : IsGrant(m) /\ m.src = j /\ m.dst = i /\ m.term = t
Counted(j, i, t) ==
    /\ srv[i].state = "candidate" /\ srv[i].current_term = t
    /\ j \in srv[i].votes
Claim(j, i, t) == Granted(j, i, t) \/ Counted(j, i, t)

\* j has left term t or remembers its vote for i.
Gave(j, i, t) ==
    \/ t < srv[j].current_term
    \/ srv[j].current_term = t /\ srv[j].voted_for = i

\* A majority has given i its vote in term t, and nobody else can claim it.
Backed(t, i) ==
    \E Q \in SUBSET Server :
        /\ N < 2 * Cardinality(Q)
        /\ \A j \in Q : /\ Gave(j, i, t)
                        /\ \A k \in Server : Claim(j, k, t) => k = i

ElectionType ==
    /\ DOMAIN srv = Server
    /\ \A i \in Server : ServerOK(i, srv[i]) /\ srv[i].out = {}
    /\ \A m \in net : Message(m)
    /\ DOMAIN used = {"requests", "snapshots", "restarts"} /\ used.snapshots = 0
    /\ elected \subseteq Nat \X Server

ClaimsGiven ==
    \A i, j \in Server, t \in Nat : Claim(j, i, t) => Gave(j, i, t)
OneClaim ==
    \A i, j, k \in Server, t \in Nat : Claim(j, i, t) /\ Claim(j, k, t) => i = k
LeadersBacked ==
    \A t \in Nat, i \in Server : <<t, i>> \in elected /\ 1 < N => Backed(t, i)

ElectionInv ==
    /\ ElectionType /\ ClaimsGiven /\ OneClaim /\ LeadersBacked
    /\ ElectionSafety
-----------------------------------------------------------------------------
(* What the operators that are not about votes leave alone.                *)

\* What an election is about is the same in a and b.
SameVotes(a, b) ==
    /\ DOMAIN b = Fields
    /\ b.id = a.id /\ b.current_term = a.current_term
    /\ b.voted_for = a.voted_for /\ b.votes = a.votes /\ b.disk = a.disk
    /\ b.snap = a.snap /\ b.snapshot_in_progress = a.snapshot_in_progress

\* What b has sent beyond a is no granted vote.
Talks(a, b) ==
    \A m \in b.out : m \notin a.out => Message(m) /\ ~IsGrant(m)

Quiet(a, b) == SameVotes(a, b) /\ b.state = a.state /\ Talks(a, b)

LEMMA QuietRefl ==
    ASSUME NEW a, DOMAIN a = Fields
    PROVE  Quiet(a, a)
BY DEF Quiet, SameVotes, Talks

LEMMA QuietTrans ==
    ASSUME NEW a, NEW b, NEW c, Quiet(a, b), Quiet(b, c)
    PROVE  Quiet(a, c)
BY DEF Quiet, SameVotes, Talks

\* A quiet operator leaves a server that is well formed.
LEMMA QuietOK ==
    ASSUME NEW i, NEW a, NEW b, ServerOK(i, a), Quiet(a, b)
    PROVE  ServerOK(i, b)
BY DEF Quiet, SameVotes, ServerOK

LEMMA AbortQuiet ==
    ASSUME NEW me, NEW why, DOMAIN me = Fields
    PROVE  Quiet(me, Abort(me, why))
BY DEF Quiet, SameVotes, Talks, Abort, Fields

LEMMA AppendQuiet ==
    ASSUME NEW me, NEW etys, DOMAIN me = Fields
    PROVE  Quiet(me, raft_append_entries(me, etys))
BY DEF Quiet, SameVotes, Talks, raft_append_entries, Fields

LEMMA DeleteQuiet ==
    ASSUME NEW me, NEW idx, DOMAIN me = Fields
    PROVE  Quiet(me, raft_delete_entry_from_idx(me, idx))
BY AbortQuiet
DEF Quiet, SameVotes, Talks, raft_delete_entry_from_idx, Fields

LEMMA CommitQuiet ==
    ASSUME NEW me, NEW idx, DOMAIN me = Fields
    PROVE  Quiet(me, raft_set_commit_idx(me, idx))
BY AbortQuiet DEF Quiet, SameVotes, Talks, raft_set_commit_idx, Fields

LEMMA ApplyQuiet ==
    ASSUME NEW me, DOMAIN me = Fields
    PROVE  Quiet(me, raft_apply_all(me))
BY DEF Quiet, SameVotes, Talks, raft_apply_all, Fields

\* Without a snapshot every peer is sent appendentries.
LEMMA SendQuiet ==
    ASSUME NEW i \in Server, NEW me, ServerOK(i, me), NEW ks \in SUBSET Server
    PROVE  Quiet(me, raft_send_appendentries(me, ks))
<1>1. \A k \in ks : ~NeedsSnapshot(me, k)
  BY DEF NeedsSnapshot, ServerOK
<1>2. \A k \in ks : \A m \in send_appendentries(me, k) : Message(m) /\ ~IsGrant(m)
  BY DEF send_appendentries, Message, IsGrant, ServerOK
<1> DEFINE sent == UNION {IF NeedsSnapshot(me, k) THEN send_snapshot(me, k)
                          ELSE send_appendentries(me, k) : k \in ks}
<1>3. \A m \in sent : Message(m) /\ ~IsGrant(m)
  BY <1>1, <1>2
<1>4. raft_send_appendentries(me, ks) = [me EXCEPT !.out = @ \cup sent]
  BY DEF raft_send_appendentries
<1> HIDE DEF sent
<1> QED
  BY <1>3, <1>4 DEF Quiet, SameVotes, Talks, ServerOK, Fields

LEMMA SendAllQuiet ==
    ASSUME NEW i \in Server, NEW me, ServerOK(i, me)
    PROVE  Quiet(me, raft_send_appendentries_all(me))
<1> DEFINE m == [me EXCEPT !.late = FALSE]
           ks == {k \in Peers(me) : \A j \in Peers(me) : j < k => ~NeedsSnapshot(me, j)}
<1>1. Quiet(me, m)
  BY DEF Quiet, SameVotes, Talks, ServerOK, Fields
<1>2. ks \in SUBSET Server
  BY DEF Peers
<1>3. raft_send_appendentries_all(me) = raft_send_appendentries(m, ks)
  BY DEF raft_send_appendentries_all
<1> HIDE DEF m, ks
<1> QED
  BY <1>1, <1>2, <1>3, QuietOK, SendQuiet, QuietTrans

LEMMA AnswerQuiet ==
    ASSUME NEW i \in Server, NEW me, ServerOK(i, me), NEW ae, ae.src \in Server,
           NEW success, NEW idx
    PROVE  Quiet(me, Answer(me, ae, success, idx))
BY DEF Answer, Quiet, SameVotes, Talks, ServerOK, Message, IsGrant, Fields

LEMMA RefuseQuiet ==
    ASSUME NEW i \in Server, NEW me, ServerOK(i, me), NEW ae, ae.src \in Server
    PROVE  Quiet(me, Refuse(me, ae))
BY AnswerQuiet DEF Refuse

LEMMA FollowQuiet ==
    ASSUME NEW me, NEW idx, DOMAIN me = Fields
    PROVE  Quiet(me, FollowCommit(me, idx))
BY CommitQuiet, QuietRefl DEF FollowCommit

LEMMA AcceptQuiet ==
    ASSUME NEW i \in Server, NEW me, ServerOK(i, me), NEW ae, ae.src \in Server
    PROVE  Quiet(me, AcceptEntries(me, ae))
<1>1. DOMAIN me = Fields
  BY DEF ServerOK
<1>2. ASSUME NEW cut, Quiet(me, cut), NEW rest, NEW idx, NEW commit, NEW test
      PROVE  LET grown == raft_append_entries(cut, rest)
             IN  Quiet(me, Answer(IF test THEN grown ELSE FollowCommit(grown, commit),
                                  ae, TRUE, idx))
  <2> DEFINE grown == raft_append_entries(cut, rest)
             m == IF test THEN grown ELSE FollowCommit(grown, commit)
  <2>1. DOMAIN cut = Fields
    BY <1>2 DEF Quiet, SameVotes
  <2>2. Quiet(cut, grown)
    BY <2>1, AppendQuiet
  <2>3. DOMAIN grown = Fields
    BY <2>2 DEF Quiet, SameVotes
  <2> HIDE DEF grown
  <2>4. Quiet(grown, m)
    BY <2>3, FollowQuiet, QuietRefl
  <2> HIDE DEF m
  <2>5. Quiet(me, m)
    BY <1>2, <2>2, <2>4, QuietTrans
  <2>6. Quiet(m, Answer(m, ae, TRUE, idx))
    BY <2>5, QuietOK, AnswerQuiet
  <2>7. Quiet(me, Answer(m, ae, TRUE, idx))
    BY <2>5, <2>6, QuietTrans
  <2> QED
    BY <2>7 DEF m, grown
<1>3. \A test, idx : Quiet(me, IF test THEN raft_delete_entry_from_idx(me, idx) ELSE me)
  BY <1>1, DeleteQuiet, QuietRefl
<1> QED
  BY <1>1, <1>2, <1>3, AbortQuiet DEF AcceptEntries

LEMMA CheckPrevQuiet ==
    ASSUME NEW i \in Server, NEW me, ServerOK(i, me), NEW ae, ae.src \in Server
    PROVE  Quiet(me, CheckPrev(me, ae))
<1>1. DOMAIN me = Fields
  BY DEF ServerOK
<1>2. Quiet(me, Refuse(raft_delete_entry_from_idx(me, ae.prev_log_idx), ae))
  <2> DEFINE m == raft_delete_entry_from_idx(me, ae.prev_log_idx)
  <2>1. Quiet(me, m)
    BY <1>1, DeleteQuiet
  <2> HIDE DEF m
  <2>2. Quiet(me, Refuse(m, ae))
    BY <2>1, QuietOK, RefuseQuiet, QuietTrans
  <2> QED
    BY <2>2 DEF m
<1> QED
  BY <1>1, <1>2, AbortQuiet, AcceptQuiet, RefuseQuiet DEF CheckPrev

LEMMA BackOffQuiet ==
    ASSUME NEW i \in Server, NEW me, ServerOK(i, me), NEW k \in Server, NEW r
    PROVE  Quiet(me, BackOff(me, k, r))
<1>1. DOMAIN me = Fields
  BY DEF ServerOK
<1>2. ASSUME NEW idx
      PROVE  Quiet(me, raft_send_appendentries(raft_node_set_next_idx(me, k, idx), {k}))
  <2> DEFINE m == raft_node_set_next_idx(me, k, idx)
  <2>1. Quiet(me, m)
    BY <1>1 DEF raft_node_set_next_idx, Quiet, SameVotes, Talks, Fields
  <2> HIDE DEF m
  <2>2. Quiet(me, raft_send_appendentries(m, {k}))
    BY <2>1, QuietOK, SendQuiet, QuietTrans
  <2> QED
    BY <2>2 DEF m
<1> QED
  BY <1>1, <1>2, AbortQuiet, QuietRefl DEF BackOff
-----------------------------------------------------------------------------
(* One call of the library at server i, which becomes b.                   *)

\* The votes that i has in its term, its own included, are a majority.
Wins(i, b) ==
    /\ b.current_term = srv[i].current_term /\ b.voted_for = srv[i].voted_for
    /\ \E V \in SUBSET Server :
         /\ \A j \in V : Claim(j, i, b.current_term)
         /\ N < 2 * Cardinality((V \ {i}) \cup (IF b.voted_for = i THEN {i} ELSE {}))

TermGrows(a, b) ==
    /\ a.current_term <= b.current_term
    /\ a.current_term = b.current_term => a.voted_for \in {Nil, b.voted_for}

\* A vote is granted in the term the server is in, to the one it remembers,
\* and only if it had not voted in that term.
Grants(i, b, m) ==
    /\ m.src = i /\ m.term = b.current_term /\ m.dst = b.voted_for
    /\ srv[i].current_term = b.current_term => srv[i].voted_for = Nil

GoodStep(i, b) ==
    /\ ServerOK(i, b)
    /\ TermGrows(srv[i], b)
    /\ b.state = "candidate" => \A j \in b.votes : Claim(j, i, b.current_term)
    /\ \A m \in b.out : Message(m) /\ (IsGrant(m) => Grants(i, b, m))
    /\ b.state = "leader" /\ srv[i].state # "leader" => N = 1 \/ Wins(i, b)

\* The server the library is called with.
LEMMA WithOK ==
    ASSUME ElectionInv, NEW i \in Server, NEW cb
    PROVE  /\ ServerOK(i, With(i, cb)) /\ Quiet(srv[i], With(i, cb))
           /\ With(i, cb).out = {} /\ With(i, cb).cb = cb
           /\ DOMAIN With(i, cb) = Fields
BY DEF ElectionInv, ElectionType, ServerOK, With, Quiet, SameVotes, Talks, Fields

LEMMA QuietGood ==
    ASSUME ElectionInv, NEW i \in Server, NEW b, Quiet(srv[i], b)
    PROVE  GoodStep(i, b)
<1>1. ServerOK(i, srv[i]) /\ srv[i].out = {}
  BY DEF ElectionInv, ElectionType
<1>2. ServerOK(i, b)
  BY <1>1, QuietOK
<1>3. b.state = "candidate" => \A j \in b.votes : Claim(j, i, b.current_term)
  BY DEF Quiet, SameVotes, Claim, Counted
<1> QED
  BY <1>1, <1>2, <1>3
  DEF Quiet, SameVotes, Talks, GoodStep, TermGrows, ServerOK

\* A server that is or becomes a follower, and grants no vote.
LEMMA FollowerGood ==
    ASSUME ElectionInv, NEW i \in Server, NEW b, ServerOK(i, b),
           b.state = "follower", TermGrows(srv[i], b),
           \A m \in b.out : Message(m) /\ ~IsGrant(m)
    PROVE  GoodStep(i, b)
BY DEF GoodStep

\* A higher term is taken over and persisted, the vote forgotten.
LEMMA SetTermOK ==
    ASSUME NEW i \in Server, NEW me, ServerOK(i, me), NEW t \in Nat
    PROVE  LET m == raft_set_current_term(me, t)
           IN  /\ ServerOK(i, m) /\ TermGrows(me, m)
               /\ m.state = me.state /\ m.out = me.out /\ m.cb = me.cb
               /\ m.votes = me.votes
               /\ me.current_term < t => m.current_term = t /\ m.voted_for = Nil
BY DEF raft_set_current_term, ServerOK, TermGrows, Fields

LEMMA StepDownOK ==
    ASSUME NEW i \in Server, NEW me, ServerOK(i, me), NEW t \in Nat,
           me.current_term < t
    PROVE  LET m == StepDown(me, t)
           IN  /\ ServerOK(i, m) /\ TermGrows(me, m)
               /\ m.state = "follower" /\ m.out = me.out /\ m.cb = me.cb
               /\ m.current_term = t /\ m.voted_for = Nil
<1> DEFINE r == raft_set_current_term(me, t)
<1>1. /\ ServerOK(i, r) /\ TermGrows(me, r) /\ r.out = me.out /\ r.cb = me.cb
      /\ r.current_term = t /\ r.voted_for = Nil
  BY SetTermOK
<1>2. StepDown(me, t) =
        [[r EXCEPT !.state = "follower", !.late = FALSE] EXCEPT !.current_leader = Nil]
  BY DEF StepDown, raft_become_follower
<1> HIDE DEF r
<1> QED
  BY <1>1, <1>2 DEF ServerOK, TermGrows, Fields

LEMMA BecomeLeaderOK ==
    ASSUME NEW i \in Server, NEW me, ServerOK(i, me)
    PROVE  LET b == raft_become_leader(me)
           IN  SameVotes(me, b) /\ Talks(me, b) /\ b.state = "leader"
<1> DEFINE m == [me EXCEPT !.state = "leader", !.current_leader = me.id,
                        !.late = FALSE,
                        !.next_idx = [k \in Server |->
                            IF k = me.id THEN @[k] ELSE raft_get_current_idx(me) + 1],
                        !.match_idx = [k \in Server |->
                            IF k = me.id THEN @[k] ELSE 0]]
<1>1. ServerOK(i, m) /\ SameVotes(me, m) /\ m.state = "leader" /\ m.out = me.out
  BY DEF ServerOK, SameVotes, Fields
<1>2. raft_become_leader(me) = raft_send_appendentries(m, Peers(me))
  BY DEF raft_become_leader
<1>3. Peers(me) \in SUBSET Server
  BY DEF Peers
<1> HIDE DEF m
<1>4. Quiet(m, raft_send_appendentries(m, Peers(me)))
  BY <1>1, <1>3, SendQuiet
<1> QED
  BY <1>1, <1>2, <1>4 DEF Quiet, SameVotes, Talks
-----------------------------------------------------------------------------
(* The handlers.                                                           *)

LEMMA AppendEntriesGood ==
    ASSUME ElectionInv, NEW i \in Server, NEW cb, NEW ae, Message(ae)
    PROVE  GoodStep(i, raft_recv_appendentries(With(i, cb), ae))
<1> DEFINE me == With(i, cb)
           up == \/ me.current_term < ae.term
                 \/ me.state = "candidate" /\ me.current_term = ae.term
           t == raft_set_current_term(me, ae.term)
           m == IF up THEN raft_become_follower(t) ELSE me
           f == [m EXCEPT !.current_leader = ae.src, !.late = FALSE]
           b == raft_recv_appendentries(me, ae)
<1> SUFFICES GoodStep(i, b)
  OBVIOUS
<1>1. /\ ServerOK(i, me) /\ Quiet(srv[i], me) /\ me.out = {} /\ DOMAIN me = Fields
      /\ ae.src \in Server /\ ae.term \in Nat
  BY WithOK DEF Message
<1>2. /\ ServerOK(i, t) /\ TermGrows(me, t) /\ t.out = me.out
  BY <1>1, SetTermOK
<1>3. \/ b = Refuse(me, ae)
      \/ b = CheckPrev(f, ae)
      \/ b = AcceptEntries(f, ae)
  BY DEF raft_recv_appendentries
<1> HIDE DEF me, t, b
<1>4. /\ ServerOK(i, f) /\ f.out = {} /\ TermGrows(me, f)
      /\ f.state = "follower" \/ Quiet(me, f)
  <2>1. CASE up
    BY <1>1, <1>2, <2>1 DEF raft_become_follower, ServerOK, TermGrows, Fields
  <2>2. CASE ~up
    <3>1. Quiet(me, f) /\ f.out = {}
      BY <1>1, <2>2 DEF Quiet, SameVotes, Talks, Fields
    <3> HIDE DEF f
    <3>2. ServerOK(i, f)
      BY <1>1, <3>1, QuietOK
    <3>3. TermGrows(me, f)
      BY <1>1, <3>1 DEF TermGrows, Quiet, SameVotes, ServerOK
    <3> QED
      BY <3>1, <3>2, <3>3
  <2> QED
    BY <2>1, <2>2
<1> HIDE DEF f
<1>5. CASE b = Refuse(me, ae)
  BY <1>1, <1>5, RefuseQuiet, QuietTrans, QuietGood
<1>6. CASE Quiet(f, b)
  <2>1. CASE Quiet(me, f)
    BY <1>1, <1>6, <2>1, QuietTrans, QuietGood
  <2>2. CASE f.state = "follower"
    <3>1. ServerOK(i, b) /\ b.state = "follower"
      BY <1>4, <1>6, <2>2, QuietOK DEF Quiet
    <3>2. \A x \in b.out : Message(x) /\ ~IsGrant(x)
      BY <1>4, <1>6 DEF Quiet, Talks
    <3>3. TermGrows(srv[i], b)
      BY <1>1, <1>4, <1>6 DEF Quiet, SameVotes, TermGrows
    <3> QED
      BY <3>1, <3>2, <3>3, FollowerGood
  <2> QED
    BY <1>4, <2>1, <2>2
<1> QED
  BY <1>1, <1>3, <1>4, <1>5, <1>6, CheckPrevQuiet, AcceptQuiet

LEMMA LeaderCommitQuiet ==
    ASSUME NEW me, NEW point, DOMAIN me = Fields
    PROVE  Quiet(me, raft_leader_commit(me, point))
BY CommitQuiet, QuietRefl DEF raft_leader_commit

LEMMA AppendEntriesResponseGood ==
    ASSUME ElectionInv, NEW i \in Server, NEW cb, NEW r, Message(r)
    PROVE  GoodStep(i, raft_recv_appendentries_response(With(i, cb), r))
<1> DEFINE me == With(i, cb)
           n == [raft_node_set_next_idx(me, r.src, r.current_idx + 1)
                   EXCEPT !.match_idx[r.src] = r.current_idx]
           m == raft_leader_commit(n, r.current_idx)
           b == raft_recv_appendentries_response(me, r)
<1> SUFFICES GoodStep(i, b)
  OBVIOUS
<1>1. /\ ServerOK(i, me) /\ Quiet(srv[i], me) /\ me.out = {} /\ DOMAIN me = Fields
      /\ r.src \in Server /\ r.term \in Nat
  BY WithOK DEF Message
<1>2. \/ b = me
      \/ me.current_term < r.term /\ b = StepDown(me, r.term)
      \/ b = BackOff(me, r.src, r)
      \/ b = Abort(me, "response beyond log")
      \/ b = raft_send_appendentries(m, {r.src})
      \/ b = m
  BY DEF raft_recv_appendentries_response
<1>3. Quiet(me, n)
  BY <1>1 DEF raft_node_set_next_idx, Quiet, SameVotes, Talks, Fields
<1> HIDE DEF n
<1>4. Quiet(n, m)
  BY <1>3, LeaderCommitQuiet DEF Quiet, SameVotes
<1> HIDE DEF m, b
<1>5. Quiet(me, m)
  BY <1>3, <1>4, QuietTrans
<1>6. Quiet(me, raft_send_appendentries(m, {r.src}))
  BY <1>1, <1>5, QuietOK, SendQuiet, QuietTrans
<1>7. CASE Quiet(me, b)
  BY <1>1, <1>7, QuietTrans, QuietGood
<1>8. CASE me.current_term < r.term /\ b = StepDown(me, r.term)
  <2> HIDE DEF me
  <2>1. /\ ServerOK(i, b) /\ TermGrows(me, b) /\ b.state = "follower"
        /\ b.out = {}
    BY <1>1, <1>8, StepDownOK
  <2>2. TermGrows(srv[i], b)
    BY <1>1, <2>1 DEF TermGrows, Quiet, SameVotes
  <2> QED
    BY <2>1, <2>2, FollowerGood
<1> QED
  BY <1>1, <1>2, <1>5, <1>6, <1>7, <1>8, QuietRefl, BackOffQuiet, AbortQuiet

\* persist_vote says whether the vote counts.
LEMMA VoteOK ==
    ASSUME NEW i \in Server, NEW me, ServerOK(i, me), NEW k \in Server \cup {Nil}
    PROVE  LET v == raft_vote_for_nodeid(me, k)
           IN  /\ ServerOK(i, v) /\ v.state = me.state /\ v.out = me.out
               /\ v.current_term = me.current_term /\ v.votes = me.votes
               /\ v.voted_for = IF me.cb.persist_vote THEN k ELSE me.voted_for
<1>1. [[term |-> me.current_term, vote |-> me.voted_for] EXCEPT !.vote = k]
        = [term |-> me.current_term, vote |-> k]
  OBVIOUS
<1> QED
  BY <1>1 DEF raft_vote_for_nodeid, ServerOK, Fields

LEMMA RequestVoteGood ==
    ASSUME ElectionInv, NEW i \in Server, NEW cb \in Callbacks, NEW vr, Message(vr)
    PROVE  GoodStep(i, raft_recv_requestvote(With(i, cb), vr))
<1> DEFINE me == With(i, cb)
           m == IF me.current_term < vr.term THEN StepDown(me, vr.term) ELSE me
           v == raft_vote_for_nodeid(m, vr.src)
           w == [v EXCEPT !.current_leader = Nil, !.late = FALSE]
           b == raft_recv_requestvote(me, vr)
<1> SUFFICES GoodStep(i, b)
  OBVIOUS
<1>1. /\ ServerOK(i, me) /\ Quiet(srv[i], me) /\ me.out = {} /\ me.cb = cb
      /\ DOMAIN me = Fields /\ vr.src \in Server /\ vr.term \in Nat
  BY WithOK DEF Message
<1>2. \/ b = VoteAnswer(me, vr, FALSE)
      \/ b = VoteAnswer(m, vr, FALSE)
      \/ __should_grant_vote(m, vr) /\ b = Abort(m, "leader or candidate grants")
      \/ /\ __should_grant_vote(m, vr) /\ m.state = "follower"
         /\ b = VoteAnswer(w, vr, m.cb.persist_vote)
  BY DEF raft_recv_requestvote
<1> HIDE DEF me, b
<1>3. /\ ServerOK(i, m) /\ TermGrows(me, m) /\ m.out = {} /\ m.cb = cb
      /\ Quiet(me, m) \/ m.state = "follower"
  <2>1. CASE me.current_term < vr.term
    BY <1>1, <2>1, StepDownOK
  <2>2. CASE ~(me.current_term < vr.term)
    BY <1>1, <2>2, QuietRefl DEF TermGrows, ServerOK
  <2> QED
    BY <2>1, <2>2
<1> HIDE DEF m
<1>4. cb.persist_vote \in BOOLEAN
  BY DEF Callbacks
<1>5. ASSUME NEW x, ServerOK(i, x)
      PROVE  Quiet(x, VoteAnswer(x, vr, FALSE))
  <2> DEFINE a == [type |-> "requestvote_response", src |-> x.id, dst |-> vr.src,
                   term |-> x.current_term, vote_granted |-> FALSE]
  <2>1. a.vote_granted = FALSE
    OBVIOUS
  <2>2. ~IsGrant(a)
    BY <2>1, Zenon DEF IsGrant
  <2>3. Message(a)
    BY <1>1, <1>5 DEF Message, ServerOK
  <2>4. VoteAnswer(x, vr, FALSE) = [x EXCEPT !.out = @ \cup {a}]
    BY DEF VoteAnswer
  <2> HIDE DEF a
  <2>5. DOMAIN x = Fields
    BY <1>5 DEF ServerOK
  <2> QED
    BY <2>2, <2>3, <2>4, <2>5 DEF Quiet, SameVotes, Talks, Fields
<1>6. ASSUME Quiet(m, b) PROVE GoodStep(i, b)
  <2>1. CASE Quiet(me, m)
    BY <1>1, <1>6, <2>1, QuietTrans, QuietGood
  <2>2. CASE m.state = "follower"
    <3>1. ServerOK(i, b) /\ b.state = "follower"
      BY <1>3, <1>6, <2>2, QuietOK DEF Quiet
    <3>2. \A x \in b.out : Message(x) /\ ~IsGrant(x)
      BY <1>3, <1>6 DEF Quiet, Talks
    <3>3. TermGrows(srv[i], b)
      BY <1>1, <1>3, <1>6 DEF Quiet, SameVotes, TermGrows
    <3> QED
      BY <3>1, <3>2, <3>3, FollowerGood
  <2> QED
    BY <1>3, <2>1, <2>2
<1>7. CASE b = VoteAnswer(me, vr, FALSE)
  BY <1>1, <1>5, <1>7, QuietTrans, QuietGood
<1>8. CASE b = VoteAnswer(m, vr, FALSE)
  BY <1>3, <1>5, <1>6, <1>8
<1>9. CASE b = Abort(m, "leader or candidate grants")
  BY <1>3, <1>6, <1>9, AbortQuiet DEF ServerOK
<1>10. CASE /\ __should_grant_vote(m, vr) /\ m.state = "follower"
            /\ b = VoteAnswer(w, vr, m.cb.persist_vote)
  <2>1. m.voted_for = Nil
    BY <1>10 DEF __should_grant_vote
  <2>2. /\ ServerOK(i, v) /\ v.state = m.state /\ v.out = m.out
        /\ v.current_term = m.current_term
        /\ v.voted_for = IF cb.persist_vote THEN vr.src ELSE m.voted_for
    BY <1>1, <1>3, VoteOK
  <2> HIDE DEF v
  <2>3. /\ ServerOK(i, w) /\ w.state = "follower" /\ w.out = {}
        /\ w.current_term = m.current_term
        /\ w.voted_for = IF cb.persist_vote THEN vr.src ELSE Nil
    BY <1>3, <1>10, <2>1, <2>2 DEF ServerOK, Fields
  <2> HIDE DEF w
  <2> DEFINE a == [type |-> "requestvote_response", src |-> w.id, dst |-> vr.src,
                   term |-> w.current_term, vote_granted |-> cb.persist_vote]
  <2>4. b = [w EXCEPT !.out = @ \cup {a}]
    BY <1>3, <1>10 DEF VoteAnswer
  <2>5. Message(a) /\ a.term = w.current_term /\ a.src = i /\ a.dst = vr.src
    BY <1>1, <2>3 DEF Message, ServerOK
  <2>6. IsGrant(a) => cb.persist_vote
    BY <1>4 DEF IsGrant
  <2> HIDE DEF a
  <2>7. /\ ServerOK(i, b) /\ b.state = "follower" /\ b.out = {a}
        /\ b.current_term = m.current_term
        /\ b.voted_for = IF cb.persist_vote THEN vr.src ELSE Nil
    BY <2>3, <2>4 DEF ServerOK, Fields
  <2>8. /\ srv[i].current_term <= m.current_term
        /\ srv[i].current_term = m.current_term => srv[i].voted_for = Nil
    BY <1>1, <1>3, <2>1 DEF TermGrows, Quiet, SameVotes
  <2>9. TermGrows(srv[i], b)
    BY <2>7, <2>8 DEF TermGrows
  <2>10. IsGrant(a) => Grants(i, b, a)
    BY <2>3, <2>5, <2>6, <2>7, <2>8 DEF Grants
  <2> QED
    BY <2>5, <2>7, <2>9, <2>10 DEF GoodStep
<1> QED
  BY <1>2, <1>7, <1>8, <1>9, <1>10

\* What raft_votes_is_majority counts is a majority of the servers.
LEMMA MajorityCounted ==
    ASSUME NEW i \in Server, NEW me, ServerOK(i, me),
           raft_votes_is_majority(N, raft_get_nvotes_for_me(me))
    PROVE  N < 2 * Cardinality((me.votes \ {i})
                                 \cup (IF me.voted_for = i THEN {i} ELSE {}))
<1> DEFINE V == me.votes \ {i}
<1>1. IsFiniteSet(Server)
  BY NAssumption, FS_Interval DEF Server
<1>2. IsFiniteSet(V) /\ i \notin V
  BY <1>1, FS_Subset DEF ServerOK
<1>3. Cardinality(V) \in Nat /\ Cardinality(V \cup {i}) = Cardinality(V) + 1
  BY <1>2, FS_CardinalityType, FS_AddElement
<1>4. N \div 2 + 1 <= Cardinality(V) + (IF me.voted_for = i THEN 1 ELSE 0)
  BY DEF raft_votes_is_majority, raft_get_nvotes_for_me, ServerOK
<1> HIDE DEF V
<1>5. N < 2 * Cardinality(V \cup (IF me.voted_for = i THEN {i} ELSE {}))
  <2>1. CASE me.voted_for = i
    BY <1>3, <1>4, <2>1, NAssumption
  <2>2. CASE me.voted_for # i
    <3>1. V \cup {} = V
      OBVIOUS
    <3>2. N \div 2 + 1 <= Cardinality(V)
      BY <1>3, <1>4, <2>2
    <3>3. N < 2 * Cardinality(V)
      BY <1>3, <3>2, NAssumption
    <3> QED
      BY <2>2, <3>1, <3>3
  <2> QED
    BY <2>1, <2>2
<1> QED
  BY <1>5 DEF V

LEMMA RequestVoteResponseGood ==
    ASSUME ElectionInv, NEW cb, NEW r \in net, r.type = "requestvote_response",
           NEW i \in Server, r.dst = i
    PROVE  GoodStep(i, raft_recv_requestvote_response(With(i, cb), r))
<1> DEFINE me == With(i, cb)
           m == [me EXCEPT !.votes = @ \cup {r.src}]
           l == raft_become_leader(m)
           b == raft_recv_requestvote_response(me, r)
<1> SUFFICES GoodStep(i, b)
  OBVIOUS
<1>1. /\ ServerOK(i, me) /\ Quiet(srv[i], me) /\ me.out = {} /\ DOMAIN me = Fields
      /\ r.src \in Server /\ r.term \in Nat
  BY WithOK DEF Message, ElectionInv, ElectionType
<1>2. \/ b = me
      \/ me.current_term < r.term /\ b = StepDown(me, r.term)
      \/ /\ me.state = "candidate" /\ me.current_term = r.term /\ r.vote_granted
         /\ \/ b = m
            \/ /\ b = l
               /\ raft_votes_is_majority(N, raft_get_nvotes_for_me(m))
  BY DEF raft_recv_requestvote_response
<1> HIDE DEF me, b
<1>3. CASE b = me
  BY <1>1, <1>3, QuietGood
<1>4. CASE me.current_term < r.term /\ b = StepDown(me, r.term)
  <2>1. /\ ServerOK(i, b) /\ TermGrows(me, b) /\ b.state = "follower"
        /\ b.out = {}
    BY <1>1, <1>4, StepDownOK
  <2>2. TermGrows(srv[i], b)
    BY <1>1, <2>1 DEF TermGrows, Quiet, SameVotes
  <2> QED
    BY <2>1, <2>2, FollowerGood
<1>5. ASSUME me.state = "candidate", me.current_term = r.term, r.vote_granted,
             \/ b = m
             \/ b = l /\ raft_votes_is_majority(N, raft_get_nvotes_for_me(m))
      PROVE  GoodStep(i, b)
  <2>1. ServerOK(i, m) /\ m.out = {} /\ m.state = "candidate"
    BY <1>1, <1>5 DEF ServerOK, Fields
  <2>2. /\ m.votes = srv[i].votes \cup {r.src}
        /\ m.current_term = srv[i].current_term
        /\ m.voted_for = srv[i].voted_for
    BY <1>1 DEF Quiet, SameVotes, Fields
  <2>3. m.current_term = r.term /\ srv[i].state = "candidate"
    BY <1>1, <1>5, <2>2 DEF Quiet, SameVotes
  <2> HIDE DEF m
  <2>4. Granted(r.src, i, r.term)
    BY <1>5 DEF Granted, IsGrant
  <2>6. \A j \in m.votes : Claim(j, i, m.current_term)
    BY <2>2, <2>3, <2>4 DEF Claim, Counted
  <2>7. TermGrows(srv[i], m)
    BY <2>1, <2>2 DEF TermGrows, ServerOK
  <2>8. CASE b = m
    BY <2>1, <2>6, <2>7, <2>8 DEF GoodStep
  <2>9. CASE b = l /\ raft_votes_is_majority(N, raft_get_nvotes_for_me(m))
    <3>1. SameVotes(m, b) /\ Talks(m, b) /\ b.state = "leader"
      BY <2>1, <2>9, BecomeLeaderOK
    <3>2. ServerOK(i, b)
      BY <2>1, <3>1 DEF SameVotes, ServerOK
    <3>3. N < 2 * Cardinality((m.votes \ {i})
                               \cup (IF m.voted_for = i THEN {i} ELSE {}))
      BY <2>1, <2>9, MajorityCounted
    <3>4. Wins(i, b)
      <4>1. m.votes \in SUBSET Server /\ m.voted_for = b.voted_for
            /\ m.current_term = b.current_term
        BY <2>1, <3>1 DEF ServerOK, SameVotes
      <4> QED
        BY <2>2, <2>6, <3>3, <4>1 DEF Wins
    <3>5. \A x \in b.out : Message(x) /\ ~IsGrant(x)
      BY <2>1, <3>1 DEF Talks
    <3>6. TermGrows(srv[i], b)
      BY <2>7, <3>1 DEF TermGrows, SameVotes
    <3> QED
      BY <3>1, <3>2, <3>4, <3>5, <3>6 DEF GoodStep
  <2> QED
    BY <1>5, <2>8, <2>9
<1> QED
  BY <1>2, <1>3, <1>4, <1>5

\* A candidate has a new term, no vote of another yet, and asks for them.
LEMMA CandidateOK ==
    ASSUME NEW i \in Server, NEW me, ServerOK(i, me),
           ~TermNotPersisted(me, me.current_term + 1)
    PROVE  LET b == raft_become_candidate(me)
           IN  /\ ServerOK(i, b) /\ b.state = "candidate" /\ b.votes = {}
               /\ b.current_term = me.current_term + 1 /\ Talks(me, b)
<1> DEFINE t == raft_set_current_term(me, me.current_term + 1)
           e == [t EXCEPT !.votes = {}]
           m == raft_vote_for_nodeid(e, me.id)
           c == [m EXCEPT !.current_leader = Nil, !.state = "candidate", !.late = FALSE]
           asked == {raft_send_requestvote(c, k) : k \in Peers(c)}
           b == [c EXCEPT !.out = @ \cup asked]
<1>1. /\ me.current_term \in Nat /\ me.id = i
      /\ me.current_term + 1 \in Nat /\ me.current_term < me.current_term + 1
  BY DEF ServerOK
<1>2. ServerOK(i, t) /\ t.out = me.out /\ t.current_term = me.current_term + 1
  BY <1>1, SetTermOK
<1>3. raft_become_candidate(me) = b
  BY DEF raft_become_candidate
<1> HIDE DEF t
<1>4. /\ ServerOK(i, e) /\ e.out = me.out /\ e.votes = {}
      /\ e.current_term = me.current_term + 1
  BY <1>2 DEF ServerOK, Fields
<1> HIDE DEF e
<1>5. /\ ServerOK(i, m) /\ m.out = me.out /\ m.votes = {}
      /\ m.current_term = me.current_term + 1
  BY <1>1, <1>4, VoteOK
<1> HIDE DEF m
<1>6. /\ ServerOK(i, c) /\ c.out = me.out /\ c.votes = {}
      /\ c.current_term = me.current_term + 1 /\ c.state = "candidate"
  BY <1>5 DEF ServerOK, Fields
<1> HIDE DEF c
<1>7. \A x \in asked : Message(x) /\ ~IsGrant(x)
  BY <1>6 DEF raft_send_requestvote, Peers, Message, IsGrant, ServerOK
<1> HIDE DEF asked
<1>8. /\ ServerOK(i, b) /\ b.state = "candidate" /\ b.votes = {}
      /\ b.current_term = me.current_term + 1 /\ b.out = me.out \cup asked
  BY <1>6 DEF ServerOK, Fields
<1> HIDE DEF b
<1>9. Talks(me, b)
  BY <1>7, <1>8 DEF Talks
<1> QED
  BY <1>3, <1>8, <1>9

LEMMA PeriodicGood ==
    ASSUME ElectionInv, NEW i \in Server, NEW cb, NEW timer
    PROVE  GoodStep(i, raft_periodic(With(i, cb), timer))
<1> DEFINE me == With(i, cb)
           l == raft_become_leader(me)
           s == IF timer = "due" THEN raft_send_appendentries_all(me) ELSE me
           m == [me EXCEPT !.late = me.current_leader # Nil /\ timer # "early"]
           c == raft_become_candidate(m)
           b == raft_periodic(me, timer)
<1> SUFFICES GoodStep(i, b)
  OBVIOUS
<1>1. ServerOK(i, me) /\ Quiet(srv[i], me) /\ me.out = {} /\ DOMAIN me = Fields
  BY WithOK
<1>2. \/ N = 1 /\ b = raft_apply_all(l)
      \/ b = raft_apply_all(s)
      \/ b = raft_apply_all(m)
      \/ b = m
      \/ /\ ~TermNotPersisted(m, m.current_term + 1)
         /\ b = raft_apply_all(c)
  BY DEF raft_periodic
<1> HIDE DEF me, b
<1>3. CASE N = 1 /\ b = raft_apply_all(l)
  <2>1. SameVotes(me, l) /\ Talks(me, l) /\ l.state = "leader"
    BY <1>1, BecomeLeaderOK
  <2> HIDE DEF l
  <2>2. Quiet(l, b)
    BY <1>3, <2>1, ApplyQuiet DEF SameVotes
  <2>3. SameVotes(srv[i], b) /\ Talks(me, b) /\ b.state = "leader"
    BY <1>1, <2>1, <2>2 DEF Quiet, SameVotes, Talks
  <2>4. ServerOK(i, b)
    BY <1>1, <2>1, <2>2 DEF Quiet, SameVotes, ServerOK
  <2>5. TermGrows(srv[i], b)
    BY <2>3, <2>4 DEF TermGrows, SameVotes, ServerOK
  <2> QED
    BY <1>1, <1>3, <2>3, <2>4, <2>5 DEF GoodStep, Talks
<1>4. Quiet(me, s)
  BY <1>1, SendAllQuiet, QuietRefl
<1>5. Quiet(me, m)
  BY <1>1 DEF Quiet, SameVotes, Talks, Fields
<1>6. ASSUME NEW x, Quiet(me, x), b = x \/ b = raft_apply_all(x)
      PROVE  GoodStep(i, b)
  <2>1. Quiet(x, b)
    BY <1>6, ApplyQuiet, QuietRefl DEF Quiet, SameVotes
  <2> QED
    BY <1>1, <1>6, <2>1, QuietTrans, QuietGood
<1> HIDE DEF m
<1>7. CASE /\ ~TermNotPersisted(m, m.current_term + 1)
           /\ b = raft_apply_all(c)
  <2>1. /\ ServerOK(i, c) /\ c.state = "candidate" /\ c.votes = {}
        /\ c.current_term = m.current_term + 1 /\ Talks(m, c)
    BY <1>1, <1>5, <1>7, QuietOK, CandidateOK
  <2> HIDE DEF c
  <2>2. Quiet(c, b)
    BY <1>7, <2>1, ApplyQuiet DEF ServerOK
  <2>3. ServerOK(i, b) /\ b.votes = {} /\ b.state = "candidate"
    BY <2>1, <2>2, QuietOK DEF Quiet, SameVotes
  <2>4. \A x \in b.out : Message(x) /\ ~IsGrant(x)
    BY <1>1, <1>5, <2>1, <2>2 DEF Quiet, Talks
  <2>5. TermGrows(srv[i], b)
    <3>1. /\ srv[i].current_term = m.current_term /\ m.current_term \in Nat
          /\ b.current_term = m.current_term + 1
      BY <1>1, <1>5, <2>1, <2>2 DEF Quiet, SameVotes, ServerOK
    <3> QED
      BY <3>1 DEF TermGrows
  <2> QED
    BY <2>3, <2>4, <2>5 DEF GoodStep
<1> QED
  BY <1>2, <1>3, <1>4, <1>5, <1>6, <1>7

LEMMA EntryGood ==
    ASSUME ElectionInv, NEW i \in Server, NEW cb, NEW id
    PROVE  GoodStep(i, raft_recv_entry(With(i, cb), id))
<1> DEFINE me == With(i, cb)
           m == raft_append_entry(me, [term |-> me.current_term, id |-> id])
           ks == {k \in Peers(m) : m.next_idx[k] = raft_get_current_idx(m)}
           s == raft_send_appendentries(m, ks)
           b == raft_recv_entry(me, id)
<1> SUFFICES GoodStep(i, b)
  OBVIOUS
<1>1. ServerOK(i, me) /\ Quiet(srv[i], me) /\ DOMAIN me = Fields
  BY WithOK
<1>2. b = m \/ b = s \/ b = raft_set_commit_idx(s, raft_get_current_idx(s))
  BY DEF raft_recv_entry
<1> HIDE DEF me, b
<1>3. Quiet(me, m)
  BY <1>1, AppendQuiet DEF raft_append_entry
<1> HIDE DEF m
<1>4. ks \in SUBSET Server
  BY DEF Peers
<1>5. Quiet(me, s)
  BY <1>1, <1>3, <1>4, QuietOK, SendQuiet, QuietTrans
<1> HIDE DEF s
<1>6. Quiet(me, raft_set_commit_idx(s, raft_get_current_idx(s)))
  BY <1>5, CommitQuiet, QuietTrans DEF Quiet, SameVotes
<1> QED
  BY <1>1, <1>2, <1>3, <1>5, <1>6, QuietTrans, QuietGood

\* A restarted server has the term and the vote it had.
LEMMA RestartGood ==
    ASSUME ElectionInv, NEW i \in Server
    PROVE  GoodStep(i, Reload(srv[i]))
<1> DEFINE me == srv[i]
           new == [raft_new(i) EXCEPT !.disk = me.disk,
                                      !.cb.log_offer = Len(me.log)]
           t == raft_set_current_term(new, me.disk.term)
           v == raft_vote_for_nodeid(t, me.disk.vote)
           a == raft_append_entries(v, me.log)
           b == [a EXCEPT !.disk = me.disk]
<1>1. ServerOK(i, me)
  BY DEF ElectionInv, ElectionType
<1>2. /\ me.disk = [term |-> me.current_term, vote |-> me.voted_for]
      /\ me.disk.term = me.current_term /\ me.disk.vote = me.voted_for
      /\ me.current_term \in Nat /\ me.voted_for \in Server \cup {Nil}
  BY <1>1 DEF ServerOK
<1>3. Reload(me) = b
  BY <1>1 DEF Reload, Complete, ServerOK
<1>4. /\ DOMAIN new = Fields /\ new.id = i /\ new.current_term = 0
      /\ new.voted_for = Nil /\ new.votes = {} /\ new.state = "follower"
      /\ new.snap = [idx |-> 0, term |-> 0]
      /\ new.snapshot_in_progress = FALSE /\ new.out = {}
      /\ new.cb.persist_vote
  BY DEF raft_new, Fields, AllWell
<1> HIDE DEF new
<1>5. /\ DOMAIN t = Fields /\ t.id = i /\ t.current_term = me.current_term
      /\ t.votes = {} /\ t.state = "follower"
      /\ t.snap = [idx |-> 0, term |-> 0]
      /\ t.snapshot_in_progress = FALSE /\ t.out = {}
      /\ t.cb.persist_vote
  BY <1>2, <1>4 DEF raft_set_current_term, Fields
<1> HIDE DEF t
<1>6. /\ DOMAIN v = Fields /\ v.id = i /\ v.current_term = me.current_term
      /\ v.votes = {} /\ v.state = "follower"
      /\ v.snap = [idx |-> 0, term |-> 0] /\ v.voted_for = me.voted_for
      /\ v.snapshot_in_progress = FALSE /\ v.out = {}
  BY <1>2, <1>5 DEF raft_vote_for_nodeid, Fields
<1> HIDE DEF v
<1>7. Quiet(v, a)
  BY <1>6, AppendQuiet
<1>8. a.out = {}
  BY <1>6 DEF raft_append_entries, Fields
<1> HIDE DEF a
<1>9. /\ DOMAIN b = Fields /\ b.id = i /\ b.current_term = me.current_term
      /\ b.votes = {} /\ b.state = "follower" /\ b.disk = me.disk
      /\ b.snap.idx = 0 /\ b.voted_for = me.voted_for
      /\ b.snapshot_in_progress = FALSE /\ b.out = {}
  BY <1>6, <1>7, <1>8 DEF Quiet, SameVotes, Fields
<1> HIDE DEF b
<1>10. ServerOK(i, b)
  BY <1>2, <1>9 DEF ServerOK
<1>11. TermGrows(me, b)
  BY <1>2, <1>9 DEF TermGrows
<1> QED
  BY <1>3, <1>9, <1>10, <1>11, FollowerGood
-----------------------------------------------------------------------------
(* The invariant.                                                          *)

LEMMA ElectionInit == Init => ElectionInv
<1> SUFFICES ASSUME Init PROVE ElectionInv
  OBVIOUS
<1>1. \A i \in Server : /\ ServerOK(i, raft_new(i)) /\ raft_new(i).out = {}
                        /\ raft_new(i).state = "follower"
  BY DEF ServerOK, raft_new, Fields
<1>2. ElectionType
  BY <1>1 DEF Init, ElectionType
<1>3. \A i, j \in Server, t \in Nat : ~Claim(j, i, t)
  BY <1>1 DEF Init, Claim, Granted, Counted
<1>4. LeadersBacked /\ ElectionSafety
  BY DEF Init, LeadersBacked, ElectionSafety
<1> QED
  BY <1>2, <1>3, <1>4 DEF ElectionInv, ClaimsGiven, OneClaim

\* A good step of one server keeps the invariant.
LEMMA StepInv ==
    ASSUME ElectionInv, NEW i \in Server, NEW b, GoodStep(i, b),
           NEW given \in SUBSET net, Update(i, b, given),
           DOMAIN used' = DOMAIN used, used'.snapshots = used.snapshots
    PROVE  ElectionInv'
<1> DEFINE a == srv[i]
           t0 == b.current_term
           new == b.state = "leader" /\ srv[i].state # "leader"
<1>1. ElectionType /\ ClaimsGiven /\ OneClaim /\ LeadersBacked /\ ElectionSafety
  BY DEF ElectionInv
<1>2. ServerOK(i, a) /\ ServerOK(i, b) /\ DOMAIN srv = Server
  BY <1>1 DEF ElectionType, GoodStep
<1>3. srv' = [srv EXCEPT ![i] = [b EXCEPT !.out = {}, !.cb = AllWell]]
  BY DEF Update
<1>4. /\ DOMAIN srv' = Server
      /\ \A j \in Server : j # i => srv'[j] = srv[j]
      /\ srv'[i] = [b EXCEPT !.out = {}, !.cb = AllWell]
  BY <1>2, <1>3
<1>5. /\ srv'[i].state = b.state /\ srv'[i].votes = b.votes
      /\ srv'[i].current_term = t0 /\ srv'[i].voted_for = b.voted_for
      /\ ServerOK(i, srv'[i]) /\ srv'[i].out = {}
  BY <1>2, <1>4 DEF ServerOK, Fields
<1>6. \A m \in net' : m \in net \/ m \in b.out
  BY DEF Update
<1>7. elected' = IF new THEN elected \cup {<<t0, i>>} ELSE elected
  BY DEF Update
<1>8. ElectionType'
  <2>1. \A j \in Server : ServerOK(j, srv'[j]) /\ srv'[j].out = {}
    BY <1>1, <1>4, <1>5 DEF ElectionType
  <2>2. \A m \in net' : Message(m)
    BY <1>1, <1>6 DEF ElectionType, GoodStep
  <2>3. t0 \in Nat
    BY <1>2 DEF ServerOK
  <2>4. elected' \subseteq Nat \X Server
    BY <1>1, <1>7, <2>3 DEF ElectionType
  <2> QED
    BY <1>1, <1>4, <2>1, <2>2, <2>4 DEF ElectionType
<1>9. \A j, k \in Server, t \in Nat : Gave(j, k, t) => Gave(j, k, t)'
  <2> SUFFICES ASSUME NEW j \in Server, NEW k \in Server, NEW t \in Nat, Gave(j, k, t)
               PROVE  Gave(j, k, t)'
    OBVIOUS
  <2>1. CASE j # i
    BY <1>4, <2>1 DEF Gave
  <2>2. CASE j = i
    <3>1. /\ a.current_term \in Nat /\ t0 \in Nat /\ a.current_term <= t0
          /\ a.current_term = t0 => a.voted_for \in {Nil, b.voted_for}
      BY <1>2 DEF ServerOK, GoodStep, TermGrows
    <3>2. k # Nil
      BY DEF Server, Nil
    <3> QED
      BY <1>5, <2>2, <3>1, <3>2 DEF Gave
  <2> QED
    BY <2>1, <2>2
<1> DEFINE Fresh(j, k, t) == /\ j = i /\ k = b.voted_for /\ t = t0
                             /\ a.current_term = t0 => a.voted_for = Nil
<1>10. \A j, k \in Server, t \in Nat :
          Claim(j, k, t)' => Claim(j, k, t) \/ Fresh(j, k, t)
  <2> SUFFICES ASSUME NEW j \in Server, NEW k \in Server, NEW t \in Nat, Claim(j, k, t)'
               PROVE  Claim(j, k, t) \/ Fresh(j, k, t)
    OBVIOUS
  <2>1. CASE Granted(j, k, t)'
    <3>1. PICK m \in net' : IsGrant(m) /\ m.src = j /\ m.dst = k /\ m.term = t
      BY <2>1 DEF Granted
    <3>2. CASE m \in net
      BY <3>1, <3>2 DEF Claim, Granted
    <3>3. CASE m \in b.out
      BY <3>1, <3>3 DEF GoodStep, Grants
    <3> QED
      BY <1>6, <3>2, <3>3
  <2>2. CASE Counted(j, k, t)'
    <3>1. CASE k # i
      BY <1>4, <2>2, <3>1 DEF Counted, Claim
    <3>2. CASE k = i
      BY <1>5, <2>2, <3>2 DEF Counted, GoodStep
    <3> QED
      BY <3>1, <3>2
  <2> QED
    BY <2>1, <2>2 DEF Claim
\* Whoever had i's vote in the term of a fresh claim would contradict it.
<1>11. ASSUME NEW k \in Server, NEW l \in Server, NEW t \in Nat,
              Fresh(i, k, t), Gave(i, l, t)
       PROVE  FALSE
  <2>1. /\ a.current_term \in Nat /\ t0 \in Nat /\ a.current_term <= t0
        /\ l # Nil
    BY <1>2 DEF ServerOK, GoodStep, TermGrows, Server, Nil
  <2> QED
    BY <1>11, <2>1 DEF Gave
<1>12. ClaimsGiven'
  <2> SUFFICES ASSUME NEW k \in Server, NEW j \in Server, NEW t \in Nat, Claim(j, k, t)'
               PROVE  Gave(j, k, t)'
    BY DEF ClaimsGiven
  <2>1. CASE Claim(j, k, t)
    BY <1>1, <1>9, <2>1 DEF ClaimsGiven
  <2>2. CASE Fresh(j, k, t)
    BY <1>5, <2>2 DEF Gave
  <2> QED
    BY <1>10, <2>1, <2>2
<1>13. OneClaim'
  <2> SUFFICES ASSUME NEW k \in Server, NEW j \in Server, NEW l \in Server,
                      NEW t \in Nat, Claim(j, k, t)', Claim(j, l, t)'
               PROVE  k = l
    BY DEF OneClaim
  <2>1. CASE Claim(j, k, t) /\ Claim(j, l, t)
    BY <1>1, <2>1 DEF OneClaim
  <2>2. CASE Fresh(j, k, t) /\ Fresh(j, l, t)
    BY <2>2
  <2>3. CASE Fresh(j, k, t) /\ Claim(j, l, t)
    BY <1>1, <1>11, <2>3 DEF ClaimsGiven
  <2>4. CASE Fresh(j, l, t) /\ Claim(j, k, t)
    BY <1>1, <1>11, <2>4 DEF ClaimsGiven
  <2> QED
    BY <1>10, <2>1, <2>2, <2>3, <2>4
<1>14. \A t \in Nat, l \in Server : Backed(t, l) => Backed(t, l)'
  <2> SUFFICES ASSUME NEW t \in Nat, NEW l \in Server, Backed(t, l)
               PROVE  Backed(t, l)'
    OBVIOUS
  <2>1. PICK Q \in SUBSET Server :
          /\ N < 2 * Cardinality(Q)
          /\ \A j \in Q : /\ Gave(j, l, t)
                          /\ \A k \in Server : Claim(j, k, t) => k = l
    BY DEF Backed
  <2>2. ASSUME NEW j \in Q
        PROVE  Gave(j, l, t)' /\ \A k \in Server : Claim(j, k, t)' => k = l
    <3>1. Gave(j, l, t) /\ \A k \in Server : Claim(j, k, t) => k = l
      BY <2>1
    <3>2. ASSUME NEW k \in Server, Claim(j, k, t)' PROVE k = l
      BY <1>10, <1>11, <3>1, <3>2
    <3> QED
      BY <1>9, <3>1, <3>2
  <2> QED
    BY <2>1, <2>2 DEF Backed
<1>15. ASSUME new, 1 < N
       PROVE  /\ Backed(t0, i)'
              /\ \A l \in Server : <<t0, l>> \in elected => l = i
  <2>1. Wins(i, b)
    BY <1>15, NAssumption DEF GoodStep
  <2>2. PICK V \in SUBSET Server :
          /\ \A j \in V : Claim(j, i, t0)
          /\ N < 2 * Cardinality((V \ {i}) \cup (IF b.voted_for = i THEN {i} ELSE {}))
    BY <2>1 DEF Wins
  <2> DEFINE Q == (V \ {i}) \cup (IF b.voted_for = i THEN {i} ELSE {})
  <2>3. Q \in SUBSET Server /\ N < 2 * Cardinality(Q)
    BY <2>2
  <2>4. a.current_term = t0 /\ a.voted_for = b.voted_for /\ t0 \in Nat
    BY <1>2, <2>1 DEF Wins, ServerOK
  <2>5. \A j \in Q : Claim(j, i, t0) \/ (j = i /\ a.voted_for = i)
    BY <2>2, <2>4
  <2>6. \A j \in Q : Gave(j, i, t0)
    BY <1>1, <2>3, <2>4, <2>5 DEF ClaimsGiven, Gave
  <2> HIDE DEF Q
  <2>7. \A j \in Q, k \in Server : Claim(j, k, t0) => k = i
    <3> SUFFICES ASSUME NEW j \in Q, NEW k \in Server, Claim(j, k, t0) PROVE k = i
      OBVIOUS
    <3>1. CASE Claim(j, i, t0)
      BY <1>1, <2>3, <2>4, <3>1 DEF OneClaim
    <3>2. CASE j = i /\ a.voted_for = i
      BY <1>1, <2>3, <2>4, <3>2 DEF ClaimsGiven, Gave
    <3> QED
      BY <2>5, <3>1, <3>2
  <2>8. Backed(t0, i)
    BY <2>3, <2>6, <2>7 DEF Backed
  <2>9. ASSUME NEW l \in Server, <<t0, l>> \in elected PROVE l = i
    <3>1. Backed(t0, l)
      BY <1>1, <1>15, <2>4, <2>9 DEF LeadersBacked
    <3>2. PICK P \in SUBSET Server :
            /\ N < 2 * Cardinality(P)
            /\ \A j \in P : /\ Gave(j, l, t0)
                            /\ \A k \in Server : Claim(j, k, t0) => k = l
      BY <3>1 DEF Backed
    <3>3. PICK j \in Server : j \in P /\ j \in Q
      <4>1. IsFiniteSet(Server) /\ Cardinality(Server) = N
        BY NAssumption, FS_Interval DEF Server
      <4>2. IsFiniteSet(P) /\ IsFiniteSet(Q)
        BY <2>3, <4>1, FS_Subset
      <4>3. Cardinality(P) \in Nat /\ Cardinality(Q) \in Nat
        BY <4>2, FS_CardinalityType
      <4>4. Cardinality(P) + Cardinality(Q) > Cardinality(Server)
        BY <2>3, <3>2, <4>1, <4>3, NAssumption
      <4>5. P \cap Q # {}
        BY <2>3, <4>1, <4>4, FS_MajoritiesIntersect
      <4> QED
        BY <2>3, <4>5
    <3>4. CASE Claim(j, i, t0)
      BY <3>2, <3>3, <3>4
    <3>5. CASE j = i /\ a.voted_for = i
      BY <2>4, <3>2, <3>3, <3>5 DEF Gave
    <3> QED
      BY <2>5, <3>3, <3>4, <3>5
  <2> QED
    BY <1>14, <2>4, <2>8, <2>9
<1>16. LeadersBacked'
  <2> SUFFICES ASSUME NEW t \in Nat, NEW l \in Server, <<t, l>> \in elected', 1 < N
               PROVE  Backed(t, l)'
    BY DEF LeadersBacked
  <2>1. CASE <<t, l>> \in elected
    BY <1>1, <1>14, <2>1 DEF LeadersBacked
  <2>2. CASE new /\ t = t0 /\ l = i
    BY <1>15, <2>2
  <2> QED
    BY <1>7, <2>1, <2>2
<1>17. ElectionSafety'
  <2>1. elected \subseteq Nat \X Server /\ elected' \subseteq Nat \X Server
    BY <1>1, <1>8 DEF ElectionType
  <2> SUFFICES ASSUME NEW x \in elected', NEW y \in elected', x[1] = y[1]
               PROVE  x = y
    BY DEF ElectionSafety
  <2>2. PICK t \in Nat, k \in Server, l \in Server : x = <<t, k>> /\ y = <<t, l>>
    BY <2>1
  <2>3. CASE N = 1
    BY <2>2, <2>3 DEF Server
  <2>4. CASE 1 < N
    <3>1. CASE x \in elected /\ y \in elected
      BY <1>1, <3>1 DEF ElectionSafety
    <3>2. CASE x = <<t0, i>> /\ y = <<t0, i>>
      BY <3>2
    <3>3. CASE new /\ x = <<t0, i>> /\ y \in elected
      BY <1>15, <2>2, <2>4, <3>3
    <3>4. CASE new /\ y = <<t0, i>> /\ x \in elected
      BY <1>15, <2>2, <2>4, <3>4
    <3> QED
      BY <1>7, <3>1, <3>2, <3>3, <3>4
  <2> QED
    BY <2>3, <2>4, NAssumption
<1> QED
  BY <1>8, <1>12, <1>13, <1>16, <1>17 DEF ElectionInv

\* Every action is a good step of one server.
LEMMA NextIsGood ==
    ASSUME MaxSnapshots = 0, ElectionInv, Next
    PROVE  \E i \in Server : \E b, given :
             /\ GoodStep(i, b) /\ given \in SUBSET net /\ Update(i, b, given)
             /\ DOMAIN used' = DOMAIN used /\ used'.snapshots = used.snapshots
<1>1. /\ \A m \in net : Message(m)
      /\ DOMAIN used = {"requests", "snapshots", "restarts"} /\ used.snapshots = 0
      /\ \A i \in Server : srv[i].snapshot_in_progress = FALSE
  BY DEF ElectionInv, ElectionType, ServerOK
<1>2. ASSUME NEW i \in Server, Periodic(i)
      PROVE  \E b, given :
             /\ GoodStep(i, b) /\ given \in SUBSET net /\ Update(i, b, given)
             /\ UNCHANGED used
  BY <1>2, PeriodicGood DEF Periodic
<1>3. CASE RecvAppendEntries
  <2>1. PICK m \in net, cb \in Callbacks :
          /\ Update(m.dst, raft_recv_appendentries(With(m.dst, cb), m), {m})
          /\ UNCHANGED used
    BY <1>3 DEF RecvAppendEntries, Receive
  <2>2. m.dst \in Server /\ Message(m)
    BY <1>1 DEF Message
  <2>3. GoodStep(m.dst, raft_recv_appendentries(With(m.dst, cb), m))
    BY <2>2, AppendEntriesGood
  <2> QED
    BY <2>1, <2>2, <2>3
<1>4. CASE RecvAppendEntriesResponse
  <2>1. PICK m \in net, cb \in Callbacks :
          /\ Update(m.dst, raft_recv_appendentries_response(With(m.dst, cb), m), {m})
          /\ UNCHANGED used
    BY <1>4 DEF RecvAppendEntriesResponse, Receive
  <2>2. m.dst \in Server /\ Message(m)
    BY <1>1 DEF Message
  <2>3. GoodStep(m.dst, raft_recv_appendentries_response(With(m.dst, cb), m))
    BY <2>2, AppendEntriesResponseGood
  <2> QED
    BY <2>1, <2>2, <2>3
<1>5. CASE RecvRequestVote
  <2>1. PICK m \in net, cb \in Callbacks :
          /\ Update(m.dst, raft_recv_requestvote(With(m.dst, cb), m), {m})
          /\ UNCHANGED used
    BY <1>5 DEF RecvRequestVote, Receive
  <2>2. m.dst \in Server /\ Message(m)
    BY <1>1 DEF Message
  <2>3. GoodStep(m.dst, raft_recv_requestvote(With(m.dst, cb), m))
    BY <2>2, RequestVoteGood
  <2> QED
    BY <2>1, <2>2, <2>3
<1>6. CASE RecvRequestVoteResponse
  <2>1. PICK m \in net, cb \in Callbacks :
          /\ m.type = "requestvote_response"
          /\ Update(m.dst, raft_recv_requestvote_response(With(m.dst, cb), m), {m})
          /\ UNCHANGED used
    BY <1>6 DEF RecvRequestVoteResponse, Receive
  <2>2. m.dst \in Server
    BY <1>1 DEF Message
  <2>3. GoodStep(m.dst, raft_recv_requestvote_response(With(m.dst, cb), m))
    BY <2>1, <2>2, RequestVoteResponseGood
  <2> QED
    BY <2>1, <2>2, <2>3
<1>7. CASE RecvSnapshot
  BY <1>1, <1>7 DEF RecvSnapshot, Receive, Message
<1>8. ASSUME NEW i \in Server, RecvEntry(i)
      PROVE  \E b : /\ GoodStep(i, b) /\ Update(i, b, {})
                   /\ DOMAIN used' = DOMAIN used
                   /\ used'.snapshots = used.snapshots
  <2>1. PICK cb \in Callbacks :
          Update(i, raft_recv_entry(With(i, cb), used'.requests), {})
    BY <1>8 DEF RecvEntry
  <2>2. GoodStep(i, raft_recv_entry(With(i, cb), used'.requests))
    BY EntryGood
  <2>3. DOMAIN used' = DOMAIN used /\ used'.snapshots = used.snapshots
    BY <1>1, <1>8 DEF RecvEntry
  <2> QED
    BY <2>1, <2>2, <2>3
<1>9. ASSUME NEW i \in Server, BeginSnapshot(i) \/ CancelSnapshot(i) \/ EndSnapshot(i)
      PROVE  FALSE
  BY <1>1, <1>9 DEF BeginSnapshot, CancelSnapshot, EndSnapshot
<1>10. ASSUME NEW i \in Server, Restart(i)
       PROVE  \E b : /\ GoodStep(i, b) /\ Update(i, b, {})
                    /\ DOMAIN used' = DOMAIN used
                    /\ used'.snapshots = used.snapshots
  <2>1. Update(i, Reload(srv[i]), {})
    BY <1>10 DEF Restart
  <2>2. DOMAIN used' = DOMAIN used /\ used'.snapshots = used.snapshots
    BY <1>1, <1>10 DEF Restart
  <2> QED
    BY <2>1, <2>2, RestartGood
<1> QED
  BY <1>2, <1>3, <1>4, <1>5, <1>6, <1>7, <1>8, <1>9, <1>10 DEF Next

LEMMA ElectionInvariant ==
    ASSUME MaxSnapshots = 0
    PROVE  Spec => []ElectionInv
<1>1. ElectionInv /\ [Next]_vars => ElectionInv'
  <2>1. CASE ElectionInv /\ Next
    BY <2>1, NextIsGood, StepInv
  <2>2. CASE ElectionInv /\ UNCHANGED vars
    BY <2>2 DEF vars, ElectionInv, ElectionType, ClaimsGiven, OneClaim,
                LeadersBacked, ElectionSafety, Backed, Claim, Granted, Counted, Gave
  <2> QED
    BY <2>1, <2>2
<1> QED
  BY <1>1, ElectionInit, PTL DEF Spec

\* No two servers become leader in one term, whichever messages are lost,
\* duplicated or reordered, whichever servers restart and whichever calls of
\* persist_vote and persist_term fail (raft_recv_requestvote,
\* raft_become_candidate, raft_get_nvotes_for_me).
THEOREM OneLeaderPerTerm ==
    ASSUME MaxSnapshots = 0
    PROVE  Spec => []ElectionSafety
<1>1. ElectionInv => ElectionSafety
  BY DEF ElectionInv
<1> QED
  BY <1>1, ElectionInvariant, PTL

\* A server's term never goes back and within a term its vote never changes,
\* also across a restart (raft_set_current_term, raft_vote_for_nodeid and what
\* persist_term and persist_vote have written).
THEOREM TermAndVoteKept ==
    ASSUME MaxSnapshots = 0
    PROVE  Spec => VoteOncePerTerm
<1> DEFINE Kept ==
        \A i \in Server :
         /\ srv[i].current_term <= srv[i]'.current_term
         /\ srv[i].current_term = srv[i]'.current_term /\ srv[i].voted_for # Nil
            => srv[i]'.voted_for = srv[i].voted_for
<1>1. ElectionInv /\ [Next]_vars => [Kept]_vars
  <2> SUFFICES ASSUME ElectionInv, Next PROVE Kept
    OBVIOUS
  <2>1. PICK i \in Server : \E b, given : GoodStep(i, b) /\ Update(i, b, given)
    BY NextIsGood
  <2>2. PICK b : GoodStep(i, b) /\ \E given : Update(i, b, given)
    BY <2>1
  <2>3. srv' = [srv EXCEPT ![i] = [b EXCEPT !.out = {}, !.cb = AllWell]]
    BY <2>2 DEF Update
  <2>4. \A j \in Server : srv[j].current_term \in Nat
    BY DEF ElectionInv, ElectionType, ServerOK
  <2>5. /\ DOMAIN srv = Server
        /\ srv'[i].current_term = b.current_term /\ srv'[i].voted_for = b.voted_for
    BY <2>2, <2>3 DEF ElectionInv, ElectionType, GoodStep, ServerOK, Fields
  <2>6. \A j \in Server : j # i => srv'[j] = srv[j]
    BY <2>3, <2>5
  <2> QED
    BY <2>2, <2>4, <2>5, <2>6 DEF GoodStep, TermGrows
<1> QED
  BY <1>1, ElectionInvariant, PTL DEF Spec, VoteOncePerTerm
-----------------------------------------------------------------------------
(***************************************************************************)
(* Log replication, on top of the elections.                               *)
(*                                                                         *)
(* A segment is a stretch of a log: es are the entries after index lo and  *)
(* term is the term of the entry at lo.  A server's log is one, what an    *)
(* appendentries carries is another.                                       *)
(***************************************************************************)

LogSeg(log) == [lo |-> 0, term |-> 0, es |-> log]
MsgSeg(m) == [lo |-> m.prev_log_idx, term |-> m.prev_log_term, es |-> m.entries]

Hi(s) == s.lo + Len(s.es)
Ent(s, y) == s.es[y - s.lo]
Tm(s, y) == IF y = s.lo THEN s.term ELSE Ent(s, y).term

Segment(s) ==
    /\ s.lo \in Nat /\ s.term \in Nat /\ s.es \in Seq(Entries)
    /\ s.lo = 0 => s.term = 0

\* Where two segments have the same term they have the same past, as far as
\* both reach back.
Alike(s, r) ==
    \A x \in s.lo + 1 .. Hi(s) :
        x \in r.lo + 1 .. Hi(r) /\ Tm(s, x) = Tm(r, x) =>
            \A y \in s.lo .. x :
                /\ r.lo <= y => Tm(s, y) = Tm(r, y)
                /\ s.lo < y /\ r.lo < y => Ent(s, y) = Ent(r, y)

\* s is a part of r.
Part(s, r) ==
    /\ r.lo <= s.lo /\ Hi(s) <= Hi(r)
    /\ \A y \in s.lo .. Hi(s) :
        /\ Tm(s, y) = Tm(r, y)
        /\ s.lo < y => Ent(s, y) = Ent(r, y)

\* The first x entries of log a are those of log b.
SameUpTo(a, b, x) ==
    x <= Len(a) /\ x <= Len(b) /\ \A y \in 1 .. x : a[y] = b[y]
-----------------------------------------------------------------------------
(* The invariant.                                                          *)

\* The fields of a server that replication is about.
Typed(me) ==
    /\ me.state \in {"follower", "candidate", "leader"}
    /\ me.current_leader \in Server \cup {Nil}
    /\ me.log \in Seq(Entries) /\ me.fsm \in Seq(Entries)
    /\ me.base = 0 /\ me.front = 0
    /\ me.size \in Nat \ {0} /\ Len(me.log) <= me.size
    /\ me.last_applied_idx \in Nat /\ me.commit_idx \in Nat
    /\ Len(me.fsm) = me.last_applied_idx
    /\ me.last_applied_idx <= me.commit_idx /\ me.commit_idx <= Len(me.log)
    /\ me.next_idx \in [Server -> Nat \ {0}]
    /\ me.match_idx \in [Server -> Nat] /\ me.match_idx[me.id] = 0
    /\ me.snap = [idx |-> 0, term |-> 0]

IsAppend(m) == m.type = "appendentries"
IsResponse(m) == m.type = "appendentries_response"
IsSuccess(m) == IsResponse(m) /\ m.success = TRUE

AppendTyped(m) ==
    /\ Segment(MsgSeg(m)) /\ m.leader_commit \in Nat /\ m.src # m.dst
ResponseTyped(m) == m.current_idx \in Nat /\ m.src # m.dst

ReplicationType ==
    /\ used.requests \in Nat
    /\ \A i \in Server : Typed(srv[i])
    /\ \A m \in net : /\ IsAppend(m) => AppendTyped(m)
                      /\ IsResponse(m) => ResponseTyped(m)

\* A leader was elected in its term, and whoever was is no candidate of that
\* term any more; appendentries are from, and successes are for, the one
\* elected in their term.
Elected ==
    /\ \A i \in Server : srv[i].state = "leader" => <<srv[i].current_term, i>> \in elected
    /\ \A i \in Server, t \in Nat : <<t, i>> \in elected =>
           /\ t <= srv[i].current_term
           /\ t = srv[i].current_term => srv[i].state # "candidate"
    /\ \A m \in net :
           /\ IsAppend(m) => <<m.term, m.src>> \in elected
           /\ IsResponse(m) => m.term <= srv[m.src].current_term
           /\ IsSuccess(m) => <<m.term, m.dst>> \in elected

Segments ==
    {LogSeg(srv[i].log) : i \in Server}
        \cup {MsgSeg(m) : m \in {x \in net : IsAppend(x)}}

\* An entry bears the term of a leader, and the leader of the term has every
\* index at which there is one.
EntriesFromLeaders ==
    \A s \in Segments : \A y \in s.lo + 1 .. Hi(s) :
        /\ \E l \in Server : <<Tm(s, y), l>> \in elected
        /\ \A i \in Server :
              srv[i].state = "leader" /\ srv[i].current_term = Tm(s, y) => y <= Len(srv[i].log)

Matching == \A s, r \in Segments : Alike(s, r)

\* What the leader of a term sends is a part of its log.
AppendsFromLog ==
    \A m \in net, i \in Server :
        IsAppend(m) /\ srv[i].state = "leader" /\ srv[i].current_term = m.term =>
            Part(MsgSeg(m), LogSeg(srv[i].log))

\* Leader i is right to think that k has its first x entries: k has moved on
\* to a later term, or is in i's and has them.
Acked(i, k, x) ==
    \/ x = 0
    \/ srv[i].current_term < srv[k].current_term
    \/ /\ srv[i].current_term = srv[k].current_term
       /\ SameUpTo(srv[k].log, srv[i].log, x)

Acknowledged ==
    \A i \in Server : srv[i].state = "leader" =>
        /\ \A k \in Server : Acked(i, k, srv[i].match_idx[k])
        /\ \A m \in net : IsSuccess(m) /\ m.dst = i /\ m.term = srv[i].current_term =>
               Acked(i, m.src, m.current_idx)

ReplicationInv ==
    /\ ElectionInv /\ ReplicationType /\ Elected /\ EntriesFromLeaders
    /\ Matching /\ AppendsFromLog /\ Acknowledged
-----------------------------------------------------------------------------
(* The array of the log grows until the entries fit.                       *)

LEMMA LeastNatural ==
    ASSUME NEW T, T \subseteq Nat, T # {}
    PROVE  \E x \in T : \A y \in T : x <= y
<1> DEFINE R == OpToRel(<, Nat)
<1>1. IsWellFoundedOn(R, Nat)
  BY NatLessThanWellFounded
<1> HIDE DEF R
<1>2. PICK x \in T : \A y \in T : ~ (<<y, x>> \in R)
  BY <1>1, WFMin, Zenon
<1>3. \A y \in T : y < x => <<y, x>> \in R
  BY DEF R, OpToRel
<1>4. \A y \in T : ~ (y < x)
  BY <1>2, <1>3, Zenon
<1> QED
  BY <1>4

\* The sizes the array passes through in q rounds.
Doubles(f, q, size, need) ==
    /\ f \in [0 .. q -> Nat] /\ f[0] = size
    /\ \A p \in 1 .. q : f[p] = IF f[p - 1] < need THEN 2 * f[p - 1] ELSE f[p - 1]

LEMMA SizesExist ==
    ASSUME NEW size \in Nat, NEW need \in Nat, NEW q \in Nat
    PROVE  \E f : Doubles(f, q, size, need)
<1> DEFINE T == {n \in Nat : ~ \E f : Doubles(f, n, size, need)}
<1> SUFFICES ASSUME T # {} PROVE FALSE
  OBVIOUS
<1>1. PICK x \in T : \A y \in T : x <= y
  BY LeastNatural
<1>2. CASE x = 0
  <2> DEFINE f == [p \in 0 .. 0 |-> size]
  <2>1. Doubles(f, 0, size, need)
    BY DEF Doubles
  <2> QED
    BY <1>2, <2>1
<1>3. CASE x # 0
  <2>1. x - 1 \in Nat /\ x - 1 \notin T
    BY <1>1, <1>3
  <2>2. PICK f : Doubles(f, x - 1, size, need)
    BY <2>1
  <2> DEFINE last == f[x - 1]
             g == [p \in 0 .. x |->
                     IF p < x THEN f[p] ELSE IF last < need THEN 2 * last ELSE last]
  <2>3. last \in Nat
    BY <1>1, <1>3, <2>1, <2>2 DEF Doubles
  <2> HIDE DEF last
  <2>4. /\ g[0] = size /\ \A p \in 0 .. x - 1 : g[p] = f[p] /\ f[p] \in Nat
        /\ g[x] = IF last < need THEN 2 * last ELSE last
    BY <1>1, <1>3, <2>2 DEF Doubles
  <2>5. g \in [0 .. x -> Nat]
    <3>1. \A p \in 0 .. x : g[p] \in Nat
      <4> SUFFICES ASSUME NEW p \in 0 .. x PROVE g[p] \in Nat
        OBVIOUS
      <4>1. p \in 0 .. x - 1 \/ p = x
        BY <1>1
      <4> HIDE DEF g
      <4> QED
        BY <2>3, <2>4, <4>1
    <3> QED
      BY <3>1
  <2> HIDE DEF g
  <2>6. ASSUME NEW p \in 1 .. x
        PROVE  g[p] = IF g[p - 1] < need THEN 2 * g[p - 1] ELSE g[p - 1]
    <3>1. p - 1 \in 0 .. x - 1
      BY <1>1
    <3>2. CASE p = x
      BY <2>4, <3>1, <3>2 DEF last
    <3>3. CASE p # x
      <4>1. p \in 1 .. x - 1
        BY <1>1, <3>3
      <4>2. f[p] = IF f[p - 1] < need THEN 2 * f[p - 1] ELSE f[p - 1]
        BY <2>2, <4>1 DEF Doubles
      <4> QED
        BY <1>1, <2>4, <3>1, <4>1, <4>2
    <3> QED
      BY <3>2, <3>3
  <2>7. Doubles(g, x, size, need)
    BY <2>4, <2>5, <2>6 DEF Doubles
  <2> QED
    BY <2>7
<1> QED
  BY <1>2, <1>3

\* After q rounds the entries fit or the array is q larger.
LEMMA SizesGrow ==
    ASSUME NEW size \in Nat \ {0}, NEW need \in Nat, NEW q \in Nat, NEW f,
           Doubles(f, q, size, need)
    PROVE  \A p \in 0 .. q : size <= f[p] /\ (need <= f[p] \/ size + p <= f[p])
<1> DEFINE T == {p \in 0 .. q : ~ (size <= f[p] /\ (need <= f[p] \/ size + p <= f[p]))}
<1> SUFFICES ASSUME T # {} PROVE FALSE
  OBVIOUS
<1>1. T \subseteq Nat
  OBVIOUS
<1>2. PICK x \in T : \A y \in T : x <= y
  BY <1>1, LeastNatural
<1>3. x # 0
  BY DEF Doubles
<1>4. x - 1 \in 0 .. q /\ x - 1 \notin T /\ x \in 1 .. q
  BY <1>2, <1>3
<1>5. f[x] = IF f[x - 1] < need THEN 2 * f[x - 1] ELSE f[x - 1]
  BY <1>4 DEF Doubles
<1>6. f[x - 1] \in Nat
  BY <1>4 DEF Doubles
<1>7. size <= f[x - 1] /\ (need <= f[x - 1] \/ size + (x - 1) <= f[x - 1])
  BY <1>4
<1> QED
  BY <1>2, <1>4, <1>5, <1>6, <1>7

LEMMA EnsureCapacity ==
    ASSUME NEW size \in Nat \ {0}, NEW need \in Nat
    PROVE  LET new == __ensurecapacity(size, need)
           IN  new \in Nat \ {0} /\ size <= new /\ need <= new
<1> DEFINE Def(f) == f = [p \in 0 .. need |->
                IF p = 0 THEN size
                ELSE IF f[p - 1] < need THEN 2 * f[p - 1] ELSE f[p - 1]]
           grown == CHOOSE f : Def(f)
<1>1. PICK f : Doubles(f, need, size, need)
  BY SizesExist
<1>2. Def(f)
  <2>1. f = [p \in 0 .. need |-> f[p]]
    BY <1>1 DEF Doubles
  <2>2. \A p \in 0 .. need : f[p] = IF p = 0 THEN size
                ELSE IF f[p - 1] < need THEN 2 * f[p - 1] ELSE f[p - 1]
    BY <1>1 DEF Doubles
  <2> QED
    BY <2>1, <2>2
<1>3. Def(grown)
  BY <1>2, Zenon
<1>4. __ensurecapacity(size, need) = grown[need]
  BY DEF __ensurecapacity
<1> HIDE DEF grown
\* f and grown are the same: consider the least index where they differ.
<1>5. grown = f
  <2> DEFINE T == {p \in 0 .. need : grown[p] # f[p]}
  <2>1. CASE T # {}
    <3>1. PICK x \in T : \A y \in T : x <= y
      <4>1. T \subseteq Nat
        OBVIOUS
      <4> QED
        BY <2>1, <4>1, LeastNatural
    <3>2. CASE x = 0
      BY <1>2, <1>3, <3>2
    <3>3. CASE x # 0
      <4>1. x - 1 \in 0 .. need /\ x - 1 \notin T /\ x \in 0 .. need
        BY <3>1, <3>3
      <4>2. grown[x - 1] = f[x - 1]
        BY <4>1
      <4>3. /\ f[x] = IF f[x - 1] < need THEN 2 * f[x - 1] ELSE f[x - 1]
            /\ grown[x] = IF grown[x - 1] < need THEN 2 * grown[x - 1] ELSE grown[x - 1]
        BY <1>2, <1>3, <3>3, <4>1
      <4> QED
        BY <4>2, <4>3
    <3> QED
      BY <3>2, <3>3
  <2>2. CASE T = {}
    <3>1. DOMAIN grown = 0 .. need /\ DOMAIN f = 0 .. need
      BY <1>2, <1>3
    <3>2. /\ grown = [p \in 0 .. need |-> grown[p]]
          /\ f = [p \in 0 .. need |-> f[p]]
      BY <1>2, <1>3
    <3> QED
      BY <2>2, <3>2
  <2> QED
    BY <2>1, <2>2
<1>6. f[need] \in Nat /\ size <= f[need] /\ (need <= f[need] \/ size + need <= f[need])
  <2>1. need \in 0 .. need
    OBVIOUS
  <2>2. f[need] \in Nat
    BY <1>1, <2>1 DEF Doubles
  <2> QED
    BY <1>1, <2>1, <2>2, SizesGrow
<1> QED
  BY <1>4, <1>5, <1>6
-----------------------------------------------------------------------------
(* Segments.                                                               *)

LEMMA SegmentFacts ==
    ASSUME NEW s, Segment(s)
    PROVE  /\ s.lo \in Nat /\ Len(s.es) \in Nat /\ Hi(s) \in Nat /\ s.lo <= Hi(s)
           /\ \A y \in s.lo + 1 .. Hi(s) :
                 /\ Ent(s, y) \in Entries /\ Tm(s, y) = Ent(s, y).term
                 /\ Tm(s, y) \in Nat
           /\ Tm(s, s.lo) = s.term
<1>1. s.lo \in Nat /\ s.es \in Seq(Entries) /\ Len(s.es) \in Nat
  BY DEF Segment
<1>2. ASSUME NEW y \in s.lo + 1 .. s.lo + Len(s.es)
      PROVE  s.es[y - s.lo] \in Entries /\ y # s.lo
  <2>1. y - s.lo \in 1 .. Len(s.es) /\ y # s.lo
    BY <1>1
  <2> QED
    BY <1>1, <2>1
<1>3. \A e \in Entries : e.term \in Nat
  BY DEF Entries
<1> QED
  BY <1>1, <1>2, <1>3 DEF Hi, Ent, Tm

LEMMA LogSegFacts ==
    ASSUME NEW log \in Seq(Entries)
    PROVE  /\ Segment(LogSeg(log)) /\ LogSeg(log).lo = 0 /\ Hi(LogSeg(log)) = Len(log)
           /\ Tm(LogSeg(log), 0) = 0
           /\ \A y \in 1 .. Len(log) : /\ Ent(LogSeg(log), y) = log[y]
                                       /\ Tm(LogSeg(log), y) = log[y].term
<1> DEFINE s == LogSeg(log)
<1>1. s.lo = 0 /\ s.term = 0 /\ s.es = log
  BY DEF LogSeg
<1> HIDE DEF s
<1>2. Segment(s) /\ Hi(s) = Len(log) /\ Tm(s, 0) = 0
  BY <1>1 DEF Segment, Hi, Tm
<1>3. \A y \in 1 .. Len(log) : Ent(s, y) = log[y] /\ Tm(s, y) = log[y].term
  BY <1>1 DEF Ent, Tm
<1> QED
  BY <1>1, <1>2, <1>3 DEF s

LEMMA AlikeSym ==
    ASSUME NEW s, NEW r, Segment(s), Segment(r), Alike(s, r)
    PROVE  Alike(r, s)
<1>1. s.lo \in Nat /\ r.lo \in Nat /\ Hi(s) \in Nat /\ Hi(r) \in Nat
  BY SegmentFacts
<1> QED
  BY <1>1 DEF Alike

LEMMA AlikeRefl == ASSUME NEW s PROVE Alike(s, s)
BY DEF Alike

LEMMA PartRefl ==
    ASSUME NEW s, Segment(s)
    PROVE  Part(s, s)
BY SegmentFacts DEF Part

LEMMA PartAlike ==
    ASSUME NEW s, NEW r, NEW q, Segment(s), Segment(r), Segment(q), Part(s, r), Alike(r, q)
    PROVE  Alike(s, q)
<1>1. /\ s.lo \in Nat /\ r.lo \in Nat /\ q.lo \in Nat
      /\ Hi(s) \in Nat /\ Hi(r) \in Nat /\ Hi(q) \in Nat
  BY SegmentFacts
<1> SUFFICES ASSUME NEW x \in s.lo + 1 .. Hi(s), x \in q.lo + 1 .. Hi(q),
                    Tm(s, x) = Tm(q, x), NEW y \in s.lo .. x
             PROVE  /\ q.lo <= y => Tm(s, y) = Tm(q, y)
                    /\ s.lo < y /\ q.lo < y => Ent(s, y) = Ent(q, y)
  BY DEF Alike
<1>2. x \in r.lo + 1 .. Hi(r) /\ Tm(r, x) = Tm(q, x) /\ y \in r.lo .. x
  BY <1>1 DEF Part
<1>3. /\ q.lo <= y => Tm(r, y) = Tm(q, y)
      /\ r.lo < y /\ q.lo < y => Ent(r, y) = Ent(q, y)
  BY <1>2 DEF Alike
<1>4. Tm(s, y) = Tm(r, y) /\ (s.lo < y => Ent(s, y) = Ent(r, y))
  BY <1>1 DEF Part
<1> QED
  BY <1>1, <1>3, <1>4 DEF Part

\* Log a's entries from s.lo to p have the terms of s.
Follows(a, s, p) ==
    /\ s.lo <= p /\ p <= Len(a) /\ p <= Hi(s)
    /\ \A y \in s.lo .. p : Tm(LogSeg(a), y) = Tm(s, y)

\* Log g is log a up to p and from there on what s has: p is the end of a or
\* lies before an entry of another term than s has there.
FromSeg(a, s, g, p) ==
    /\ p \in 0 .. Len(a) /\ p <= Len(g) /\ \A y \in 1 .. p : g[y] = a[y]
    /\ p = Len(a) \/ (p + 1 \in s.lo .. Hi(s) /\ a[p + 1].term # Tm(s, p + 1))
    /\ p < Len(g) => /\ Follows(a, s, p) /\ Len(g) <= Hi(s)
                     /\ \A y \in p + 1 .. Len(g) : g[y] = Ent(s, y)

LEMMA FromSegAlike ==
    ASSUME NEW a \in Seq(Entries), NEW g \in Seq(Entries), NEW s, Segment(s), NEW p,
           FromSeg(a, s, g, p), NEW r, Segment(r),
           Alike(LogSeg(a), s), Alike(LogSeg(a), r), Alike(s, r)
    PROVE  Alike(LogSeg(g), r)
<1> DEFINE A == LogSeg(a)
           G == LogSeg(g)
<1>1. /\ s.lo \in Nat /\ Hi(s) \in Nat /\ r.lo \in Nat /\ Hi(r) \in Nat
      /\ Len(a) \in Nat /\ Len(g) \in Nat
      /\ \A y \in s.lo + 1 .. Hi(s) : Tm(s, y) = Ent(s, y).term
      /\ \A y \in r.lo + 1 .. Hi(r) : Tm(r, y) = Ent(r, y).term
  BY SegmentFacts
<1>2. /\ A.lo = 0 /\ Hi(A) = Len(a) /\ Tm(A, 0) = 0
      /\ \A y \in 1 .. Len(a) : Ent(A, y) = a[y] /\ Tm(A, y) = a[y].term
  BY LogSegFacts
<1>3. /\ G.lo = 0 /\ Hi(G) = Len(g) /\ Tm(G, 0) = 0
      /\ \A y \in 1 .. Len(g) : Ent(G, y) = g[y] /\ Tm(G, y) = g[y].term
  BY LogSegFacts
<1>4. p \in 0 .. Len(a) /\ p <= Len(g) /\ \A y \in 1 .. p : g[y] = a[y]
  BY DEF FromSeg
<1> HIDE DEF A, G
<1>5. \A y \in 0 .. p : Tm(G, y) = Tm(A, y) /\ (0 < y => Ent(G, y) = Ent(A, y))
  BY <1>1, <1>2, <1>3, <1>4
<1> SUFFICES ASSUME NEW x \in 1 .. Len(g), x \in r.lo + 1 .. Hi(r),
                    Tm(G, x) = Tm(r, x), NEW y \in 0 .. x
             PROVE  /\ r.lo <= y => Tm(G, y) = Tm(r, y)
                    /\ 0 < y /\ r.lo < y => Ent(G, y) = Ent(r, y)
  BY <1>3 DEF Alike, G
\* Up to p it is a's entry.
<1>6. ASSUME NEW z \in 1 .. p, z \in r.lo + 1 .. Hi(r), Tm(A, z) = Tm(r, z), y <= z
      PROVE  /\ r.lo <= y => Tm(G, y) = Tm(r, y)
             /\ 0 < y /\ r.lo < y => Ent(G, y) = Ent(r, y)
  <2>1. z \in A.lo + 1 .. Hi(A) /\ y \in A.lo .. z /\ y \in 0 .. p
    BY <1>1, <1>2, <1>4, <1>6
  <2>2. /\ r.lo <= y => Tm(A, y) = Tm(r, y)
        /\ A.lo < y /\ r.lo < y => Ent(A, y) = Ent(r, y)
    BY <1>6, <2>1 DEF Alike, A
  <2> QED
    BY <1>2, <1>5, <2>1, <2>2
<1>7. CASE x <= p
  <2>1. x \in 1 .. p /\ x \in 0 .. p /\ Tm(A, x) = Tm(r, x) /\ y <= x
    BY <1>1, <1>4, <1>5, <1>7
  <2> QED
    BY <1>6, <2>1
<1>8. CASE p < x
  <2>1. /\ s.lo <= p /\ p <= Hi(s) /\ Len(g) <= Hi(s)
        /\ \A z \in s.lo .. p : Tm(A, z) = Tm(s, z)
        /\ \A z \in p + 1 .. Len(g) : g[z] = Ent(s, z)
    BY <1>1, <1>4, <1>8 DEF FromSeg, Follows, A
  <2>2. ASSUME NEW z \in p + 1 .. Len(g) PROVE Ent(G, z) = Ent(s, z) /\ Tm(G, z) = Tm(s, z)
    <3>1. z \in 1 .. Len(g) /\ z \in s.lo + 1 .. Hi(s)
      BY <1>1, <1>4, <2>1
    <3> QED
      BY <1>1, <1>3, <2>1, <2>2, <3>1
\* Where a follows s it has s's entries.
  <2>3. ASSUME NEW z \in s.lo .. p
        PROVE  Tm(G, z) = Tm(s, z) /\ (s.lo < z => Ent(G, z) = Ent(s, z))
    <3>1. Tm(G, z) = Tm(s, z)
      BY <1>1, <1>4, <1>5, <2>1
    <3>2. CASE s.lo < z
      <4>1. /\ z \in A.lo + 1 .. Hi(A) /\ z \in s.lo + 1 .. Hi(s) /\ Tm(A, z) = Tm(s, z)
            /\ z \in A.lo .. z /\ A.lo < z /\ z \in 0 .. p /\ 0 < z
        BY <1>1, <1>2, <1>4, <2>1, <3>2
      <4>2. Ent(A, z) = Ent(s, z)
        BY <3>2, <4>1 DEF Alike, A
      <4> QED
        BY <1>5, <3>1, <4>1, <4>2
    <3> QED
      BY <3>1, <3>2
  <2>4. x \in s.lo + 1 .. Hi(s) /\ Tm(s, x) = Tm(r, x)
    BY <1>1, <1>4, <1>8, <2>1, <2>2
  <2>5. ASSUME NEW z \in s.lo .. x
        PROVE  /\ r.lo <= z => Tm(s, z) = Tm(r, z)
               /\ s.lo < z /\ r.lo < z => Ent(s, z) = Ent(r, z)
    BY <2>4 DEF Alike
  <2>6. CASE s.lo < y
    <3>1. y \in s.lo .. x /\ (y \in p + 1 .. Len(g) \/ y \in s.lo .. p)
      BY <1>1, <1>4, <2>1, <2>6
    <3>2. Tm(G, y) = Tm(s, y) /\ Ent(G, y) = Ent(s, y)
      BY <2>2, <2>3, <2>6, <3>1
    <3> QED
      BY <2>5, <2>6, <3>1, <3>2
  <2>7. CASE y <= s.lo
    <3>1. s.lo \in s.lo .. x /\ s.lo \in s.lo .. p /\ s.lo \in 0 .. p
      BY <1>1, <1>4, <1>8, <2>1
    <3>2. Tm(A, s.lo) = Tm(s, s.lo) /\ (r.lo <= s.lo => Tm(s, s.lo) = Tm(r, s.lo))
      BY <2>1, <2>5, <3>1
    <3>3. CASE r.lo < s.lo
      <4>1. /\ s.lo \in 1 .. p /\ s.lo \in r.lo + 1 .. Hi(r)
            /\ Tm(A, s.lo) = Tm(r, s.lo) /\ y <= s.lo
        BY <1>1, <1>4, <2>1, <2>4, <2>7, <3>2, <3>3
      <4> QED
        BY <1>6, <4>1
    <3>4. CASE r.lo = s.lo
      <4>1. r.lo <= y => y = s.lo
        BY <1>1, <2>7, <3>4
      <4>2. Tm(G, s.lo) = Tm(r, s.lo)
        BY <1>5, <3>1, <3>2, <3>4
      <4> QED
        BY <1>1, <2>7, <3>4, <4>1, <4>2
    <3>5. CASE s.lo < r.lo
      BY <1>1, <2>7, <3>5
    <3> QED
      BY <1>1, <3>3, <3>4, <3>5
  <2> QED
    BY <1>1, <2>6, <2>7
<1> QED
  BY <1>1, <1>4, <1>7, <1>8

\* A new entry of a term that r does not have at that index.
LEMMA AppendAlike ==
    ASSUME NEW a \in Seq(Entries), NEW e \in Entries, NEW r, Segment(r),
           Alike(LogSeg(a), r),
           Len(a) + 1 \in r.lo + 1 .. Hi(r) => Tm(r, Len(a) + 1) # e.term
    PROVE  Alike(LogSeg(Append(a, e)), r)
<1> DEFINE g == Append(a, e)
           A == LogSeg(a)
           G == LogSeg(g)
<1>1. /\ r.lo \in Nat /\ Hi(r) \in Nat /\ Len(a) \in Nat
      /\ g \in Seq(Entries) /\ Len(g) = Len(a) + 1 /\ g[Len(a) + 1] = e
      /\ \A y \in 1 .. Len(a) : g[y] = a[y]
  BY SegmentFacts
<1> HIDE DEF g
<1>2. /\ A.lo = 0 /\ Hi(A) = Len(a) /\ Tm(A, 0) = 0
      /\ \A y \in 1 .. Len(a) : Ent(A, y) = a[y] /\ Tm(A, y) = a[y].term
  BY LogSegFacts
<1>3. /\ G.lo = 0 /\ Hi(G) = Len(g) /\ Tm(G, 0) = 0
      /\ \A y \in 1 .. Len(g) : Ent(G, y) = g[y] /\ Tm(G, y) = g[y].term
  BY <1>1, LogSegFacts
<1> HIDE DEF A, G
<1> SUFFICES ASSUME NEW x \in 1 .. Len(g), x \in r.lo + 1 .. Hi(r),
                    Tm(G, x) = Tm(r, x), NEW y \in 0 .. x
             PROVE  /\ r.lo <= y => Tm(G, y) = Tm(r, y)
                    /\ 0 < y /\ r.lo < y => Ent(G, y) = Ent(r, y)
  BY <1>3 DEF Alike, G, g
<1>4. \A z \in 0 .. Len(a) : Tm(G, z) = Tm(A, z) /\ (0 < z => Ent(G, z) = Ent(A, z))
  BY <1>1, <1>2, <1>3
<1>5. x # Len(a) + 1
  BY <1>1, <1>3
<1>6. x \in A.lo + 1 .. Hi(A) /\ y \in A.lo .. x /\ x \in 0 .. Len(a) /\ y \in 0 .. Len(a)
  BY <1>1, <1>2, <1>5
<1>7. /\ r.lo <= y => Tm(A, y) = Tm(r, y)
      /\ A.lo < y /\ r.lo < y => Ent(A, y) = Ent(r, y)
  BY <1>4, <1>6 DEF Alike, A
<1> QED
  BY <1>2, <1>4, <1>6, <1>7
-----------------------------------------------------------------------------
(* What the operators do to the log and which appendentries they send.     *)

WellTyped(i, me) == ServerOK(i, me) /\ Typed(me)

\* What replication is about is the same in a and b.
SameLog(a, b) ==
    /\ b.id = a.id /\ b.state = a.state /\ b.current_term = a.current_term
    /\ b.log = a.log /\ b.match_idx = a.match_idx

\* m is no answer, and if it is appendentries it is a part of leader b's log.
Sends(b, m) ==
    /\ ~IsResponse(m)
    /\ IsAppend(m) =>
         /\ b.state = "leader" /\ m.term = b.current_term /\ m.src = b.id
         /\ AppendTyped(m) /\ Part(MsgSeg(m), LogSeg(b.log))

Carries(a, b) ==
    /\ SameLog(a, b)
    /\ \A m \in b.out : m \notin a.out => Sends(b, m)

LEMMA CarriesRefl ==
    ASSUME NEW a
    PROVE  Carries(a, a)
BY DEF Carries, SameLog

LEMMA SendsSame ==
    ASSUME NEW a, NEW b, SameLog(a, b), NEW m, Sends(a, m)
    PROVE  Sends(b, m)
BY DEF SameLog, Sends

LEMMA CarriesTrans ==
    ASSUME NEW a, NEW b, NEW c, Carries(a, b), Carries(b, c)
    PROVE  Carries(a, c)
<1>1. SameLog(a, c) /\ SameLog(b, c)
  BY DEF Carries, SameLog
<1>2. \A m \in c.out : m \notin a.out => Sends(c, m)
  BY <1>1, SendsSame DEF Carries
<1> QED
  BY <1>1, <1>2 DEF Carries

LEMMA AbortCarries ==
    ASSUME NEW i \in Server, NEW me, WellTyped(i, me), NEW why
    PROVE  WellTyped(i, Abort(me, why)) /\ Carries(me, Abort(me, why))
<1>1. DOMAIN me = Fields
  BY DEF WellTyped, ServerOK
<1>2. ServerOK(i, Abort(me, why))
  BY <1>1, AbortQuiet, QuietOK DEF WellTyped
<1>3. Typed(Abort(me, why)) /\ Carries(me, Abort(me, why))
  BY <1>1 DEF Abort, WellTyped, Typed, Carries, SameLog, Fields
<1> QED
  BY <1>2, <1>3 DEF WellTyped

LEMMA CommitCarries ==
    ASSUME NEW i \in Server, NEW me, WellTyped(i, me), NEW idx \in Nat
    PROVE  LET b == raft_set_commit_idx(me, idx) IN WellTyped(i, b) /\ Carries(me, b)
<1>1. DOMAIN me = Fields
  BY DEF WellTyped, ServerOK
<1>2. ServerOK(i, raft_set_commit_idx(me, idx))
  BY <1>1, CommitQuiet, QuietOK DEF WellTyped
<1>3. CASE me.commit_idx <= idx /\ idx <= raft_get_current_idx(me)
  <2> DEFINE b == [me EXCEPT !.commit_idx = idx]
  <2>1. idx <= Len(me.log)
    BY <1>3 DEF raft_get_current_idx, WellTyped, Typed
  <2>2. Typed(b) /\ Carries(me, b)
    BY <1>1, <1>3, <2>1 DEF WellTyped, Typed, Carries, SameLog, Fields
  <2> QED
    BY <1>2, <1>3, <2>2 DEF raft_set_commit_idx, WellTyped
<1>4. CASE ~(me.commit_idx <= idx /\ idx <= raft_get_current_idx(me))
  BY <1>4, AbortCarries DEF raft_set_commit_idx
<1> QED
  BY <1>3, <1>4

LEMMA CommitOut ==
    ASSUME NEW i, NEW me, WellTyped(i, me), NEW idx
    PROVE  raft_set_commit_idx(me, idx).out \subseteq me.out
BY DEF raft_set_commit_idx, Abort, WellTyped, ServerOK, Fields

LEMMA CommitData ==
    ASSUME NEW i, NEW me, WellTyped(i, me), NEW idx
    PROVE  LET b == raft_set_commit_idx(me, idx)
           IN  b.fsm = me.fsm /\ b.commit_idx \in {me.commit_idx, idx}
BY DEF raft_set_commit_idx, Abort, WellTyped, ServerOK, Fields

LEMMA LesserGreater ==
    ASSUME NEW x \in Nat, NEW y \in Nat
    PROVE  /\ Lesser(x, y) \in Nat /\ Lesser(x, y) <= x /\ Lesser(x, y) <= y
           /\ Greater(x, y) \in Nat /\ x <= Greater(x, y) /\ y <= Greater(x, y)
BY DEF Lesser, Greater

LEMMA CurrentIdx ==
    ASSUME NEW me, Typed(me)
    PROVE  /\ raft_get_current_idx(me) = Len(me.log) /\ Len(me.log) \in Nat
           /\ \A idx : HasEntry(me, idx) <=> idx \in 1 .. Len(me.log)
           /\ \A idx \in 1 .. Len(me.log) : EntryAt(me, idx) = me.log[idx]
BY DEF raft_get_current_idx, HasEntry, EntryAt, Typed

LEMMA FollowCarries ==
    ASSUME NEW i \in Server, NEW me, WellTyped(i, me), NEW idx \in Nat
    PROVE  LET b == FollowCommit(me, idx)
           IN  /\ WellTyped(i, b) /\ Carries(me, b) /\ b.out \subseteq me.out
               /\ b.fsm = me.fsm
               /\ b.commit_idx = me.commit_idx \/ b.commit_idx <= idx
<1> DEFINE to == Lesser(Greater(raft_get_current_idx(me), 1), idx)
           b == FollowCommit(me, idx)
<1>1. raft_get_current_idx(me) \in Nat
  BY CurrentIdx DEF WellTyped
<1>2. to \in Nat /\ to <= idx
  BY <1>1, LesserGreater
<1> HIDE DEF to
<1>3. /\ raft_set_commit_idx(me, to).fsm = me.fsm
      /\ raft_set_commit_idx(me, to).commit_idx \in {me.commit_idx, to}
  BY CommitData
<1>4. b = me \/ b = raft_set_commit_idx(me, to)
  BY DEF FollowCommit, to
<1>5. CASE b = me
  BY <1>5, CarriesRefl
<1>6. CASE b = raft_set_commit_idx(me, to)
  <2>1. WellTyped(i, b) /\ Carries(me, b) /\ b.out \subseteq me.out
    BY <1>2, <1>6, CommitCarries, CommitOut
  <2> HIDE DEF b
  <2>2. b.fsm = me.fsm /\ (b.commit_idx = me.commit_idx \/ b.commit_idx <= idx)
    BY <1>2, <1>3, <1>6
  <2> QED
    BY <2>1, <2>2 DEF b
<1> QED
  BY <1>4, <1>5, <1>6

LEMMA LeaderCommitCarries ==
    ASSUME NEW i \in Server, NEW me, WellTyped(i, me), NEW point \in Nat
    PROVE  LET b == raft_leader_commit(me, point) IN WellTyped(i, b) /\ Carries(me, b)
BY CommitCarries, CarriesRefl DEF raft_leader_commit

LEMMA SubSeqFacts ==
    ASSUME NEW S, NEW q \in Seq(S), NEW m \in Nat \ {0}, NEW n \in Nat, n <= Len(q)
    PROVE  /\ SubSeq(q, m, n) \in Seq(S)
           /\ Len(SubSeq(q, m, n)) = IF m <= n THEN n - m + 1 ELSE 0
           /\ \A y \in 1 .. n - m + 1 : SubSeq(q, m, n)[y] = q[m + y - 1]
<1>1. m .. n \subseteq 1 .. Len(q)
  OBVIOUS
<1> QED
  BY <1>1, SubSeqProperties

LEMMA ApplyCarries ==
    ASSUME NEW i \in Server, NEW me, WellTyped(i, me)
    PROVE  WellTyped(i, raft_apply_all(me)) /\ Carries(me, raft_apply_all(me))
<1> DEFINE la == me.last_applied_idx
           more == SubSeq(me.log, la + 1 - me.base, me.commit_idx - me.base)
           b == [me EXCEPT !.last_applied_idx = me.commit_idx, !.fsm = @ \o more]
<1>1. DOMAIN me = Fields
  BY DEF WellTyped, ServerOK
<1>2. ServerOK(i, raft_apply_all(me))
  BY <1>1, ApplyQuiet, QuietOK DEF WellTyped
<1>3. raft_apply_all(me) = me \/ (raft_apply_all(me) = b /\ la < me.commit_idx)
  BY DEF raft_apply_all
<1>4. ASSUME la < me.commit_idx
      PROVE  Typed(b) /\ Carries(me, b)
  <2>1. /\ me.log \in Seq(Entries) /\ me.fsm \in Seq(Entries) /\ me.base = 0
        /\ la \in Nat /\ me.commit_idx \in Nat /\ me.commit_idx <= Len(me.log)
        /\ Len(me.fsm) = la
    BY DEF WellTyped, Typed
  <2>2. /\ la + 1 - me.base \in Nat \ {0} /\ la + 1 - me.base = la + 1
        /\ me.commit_idx - me.base = me.commit_idx
    BY <2>1
  <2>3. more \in Seq(Entries) /\ Len(more) = me.commit_idx - la
    BY <1>4, <2>1, <2>2, SubSeqFacts
  <2> HIDE DEF more
  <2>4. me.fsm \o more \in Seq(Entries) /\ Len(me.fsm \o more) = me.commit_idx
    BY <2>1, <2>3
  <2> QED
    BY <1>1, <1>4, <2>1, <2>4 DEF WellTyped, Typed, Carries, SameLog, Fields
<1> QED
  BY <1>2, <1>3, <1>4, CarriesRefl DEF WellTyped

\* The entries sent from index next on, and the one before them, are a part
\* of the log.
LEMMA SendPart ==
    ASSUME NEW i \in Server, NEW me, WellTyped(i, me), me.state = "leader",
           NEW k \in Server, k # i, NEW m \in send_appendentries(me, k)
    PROVE  /\ Sends(me, m) /\ m.leader_commit = me.commit_idx
           /\ me.next_idx[k] <= Len(me.log) + 1 => Hi(MsgSeg(m)) = Len(me.log)
<1> DEFINE next == me.next_idx[k]
           log == me.log
           prev == IF next <= 1 THEN [idx |-> 0, term |-> 0]
                   ELSE IF HasEntry(me, next - 1)
                   THEN [idx |-> next - 1, term |-> EntryAt(me, next - 1).term]
                   ELSE me.snap
           es == raft_get_entries_from_idx(me, next)
           s == MsgSeg(m)
           r == LogSeg(log)
<1>1. /\ m.type = "appendentries" /\ m.src = i /\ m.dst = k /\ m.term = me.current_term
      /\ m.leader_commit = me.commit_idx /\ m.prev_log_idx = prev.idx
      /\ m.prev_log_term = prev.term /\ m.entries = es
  BY DEF send_appendentries, WellTyped, ServerOK
<1>2. /\ next \in Nat \ {0} /\ log \in Seq(Entries) /\ Len(log) \in Nat
      /\ me.size \in Nat \ {0} /\ me.front = 0 /\ me.base = 0
      /\ me.snap = [idx |-> 0, term |-> 0] /\ me.commit_idx \in Nat
  BY DEF WellTyped, Typed
<1>3. /\ \A idx : HasEntry(me, idx) <=> idx \in 1 .. Len(log)
      /\ \A idx \in 1 .. Len(log) : EntryAt(me, idx) = log[idx]
  BY CurrentIdx DEF WellTyped
<1>4. s.lo = prev.idx /\ s.term = prev.term /\ s.es = es
  BY <1>1 DEF MsgSeg
<1>5. /\ r.lo = 0 /\ Hi(r) = Len(log) /\ Tm(r, 0) = 0
      /\ \A y \in 1 .. Len(log) : Ent(r, y) = log[y] /\ Tm(r, y) = log[y].term
  BY <1>2, LogSegFacts
<1>6. \A y \in 1 .. Len(log) : log[y].term \in Nat
  <2>1. \A e \in Entries : e.term \in Nat
    BY DEF Entries
  <2> QED
    BY <1>2, <2>1
<1> HIDE DEF s, r
\* The batch is a stretch of the log that starts at next.
<1>7. /\ es \in Seq(Entries)
      /\ \/ es = <<>> /\ ~(next <= Len(log))
         \/ next <= Len(log) /\ next - 1 + Len(es) = Len(log)
      /\ \A y \in 1 .. Len(es) : es[y] = log[next - 1 + y]
  <2>1. CASE HasEntry(me, next)
    <3> DEFINE j == next - me.base
               slot == (me.front + j - 1) % me.size
               n == Lesser(Len(me.log) - j + 1, me.size - slot)
    <3>1. next \in 1 .. Len(log) /\ j = next
      BY <1>2, <1>3, <2>1
    <3>2. slot \in 0 .. me.size - 1
      <4>1. me.front + j - 1 \in Nat
        BY <1>2, <3>1
      <4> QED
        BY <1>2, <4>1
    <3> HIDE DEF slot
    <3>10. slot = j - 1
      <4>1. me.front + j - 1 = j - 1 /\ j - 1 \in 0 .. me.size - 1
        <5>1. Len(log) <= me.size
          BY DEF WellTyped, Typed
        <5> QED
          BY <1>2, <3>1, <5>1
      <4>2. slot = (j - 1) % me.size
        BY <4>1 DEF slot
      <4>3. \A q \in 0 .. me.size - 1 : q % me.size = q
        BY <1>2
      <4> HIDE DEF j
      <4> QED
        BY <4>1, <4>2, <4>3
    <3>3. n \in Nat \ {0} /\ n = Len(log) - next + 1
      <4>1. Len(me.log) - j + 1 \in Nat \ {0} /\ Len(me.log) - j + 1 <= me.size - slot
        <5>1. Len(me.log) <= me.size
          BY DEF WellTyped, Typed
        <5>2. PICK len, size : len = Len(me.log) /\ size = me.size
          OBVIOUS
        <5>3. len \in Nat /\ size \in Nat /\ len <= size /\ j \in 1 .. len
          BY <1>2, <3>1, <5>1, <5>2
        <5> HIDE DEF j
        <5>4. len - j + 1 \in Nat \ {0} /\ len - j + 1 <= size - (j - 1)
          BY <5>3
        <5> QED
          BY <3>10, <5>2, <5>4
      <4>2. me.size - slot \in Nat
        BY <1>2, <3>2
      <4>3. n = Len(me.log) - j + 1
        BY <1>2, <3>2, <3>10, <4>1, <4>2 DEF Lesser
      <4> QED
        BY <3>1, <4>1, <4>3
    <3>4. es = SubSeq(me.log, j, j + n - 1)
      BY <2>1 DEF raft_get_entries_from_idx, slot
    <3> HIDE DEF n, j
    <3>5. j + n - 1 \in Nat /\ j + n - 1 <= Len(log) /\ j \in Nat \ {0} /\ j <= j + n - 1
      BY <1>2, <3>1, <3>3
    <3>6. /\ es \in Seq(Entries) /\ Len(es) = n
          /\ \A y \in 1 .. n : es[y] = log[j + y - 1]
      <4>1. (j + n - 1) - j + 1 = n
        BY <1>2, <3>1, <3>3
      <4> QED
        BY <1>2, <3>4, <3>5, <4>1, SubSeqFacts
    <3> HIDE DEF es, log, next
    <3>7. \A y \in 1 .. n : j + y - 1 = next - 1 + y
      BY <1>2, <3>1, <3>3
    <3>8. next <= Len(log) /\ next - 1 + Len(es) = Len(log)
      BY <1>2, <3>1, <3>3, <3>6
    <3>9. \A y \in 1 .. Len(es) : es[y] = log[next - 1 + y]
      BY <3>6, <3>7
    <3> QED
      BY <3>6, <3>8, <3>9
  <2>2. CASE ~HasEntry(me, next)
    <3>1. es = <<>> /\ ~(next <= Len(log))
      BY <1>2, <1>3, <2>2 DEF raft_get_entries_from_idx
    <3> QED
      BY <3>1
  <2> QED
    BY <2>1, <2>2
\* The entry before it is the log's too.
<1>8. /\ prev.idx \in Nat /\ prev.term \in Nat /\ prev.idx <= Len(log)
      /\ prev.idx = 0 => prev.term = 0
      /\ 0 < prev.idx => prev.term = log[prev.idx].term
      /\ prev.idx = next - 1 \/ (es = <<>> /\ Len(log) + 1 < next)
  <2>1. CASE next <= 1
    BY <1>2, <2>1
  <2>2. CASE 1 < next /\ HasEntry(me, next - 1)
    <3>1. prev.idx = next - 1 /\ next - 1 \in 1 .. Len(log) /\ prev.term = log[next - 1].term
      BY <1>2, <1>3, <2>2
    <3> QED
      BY <1>2, <1>6, <3>1
  <2>3. CASE 1 < next /\ ~HasEntry(me, next - 1)
    <3>1. prev = [idx |-> 0, term |-> 0]
      BY <1>2, <2>3
    <3>2. ~HasEntry(me, next) /\ Len(log) + 1 < next
      BY <1>2, <1>3, <2>3
    <3>3. es = <<>>
      BY <3>2 DEF raft_get_entries_from_idx
    <3> QED
      BY <1>2, <3>1, <3>2, <3>3
  <2> QED
    BY <1>2, <2>1, <2>2, <2>3
<1> HIDE DEF es, prev, next, log
<1>9. Segment(s) /\ Hi(s) = prev.idx + Len(es) /\ Len(es) \in Nat
  BY <1>4, <1>7, <1>8 DEF Segment, Hi
<1>10. Part(s, r)
  <2>1. Hi(s) <= Hi(r)
    BY <1>2, <1>5, <1>7, <1>8, <1>9
  <2>2. ASSUME NEW y \in s.lo .. Hi(s)
        PROVE  Tm(s, y) = Tm(r, y) /\ (s.lo < y => Ent(s, y) = Ent(r, y))
    <3>1. CASE y = s.lo
      <4>1. Tm(s, y) = prev.term
        BY <1>4, <3>1 DEF Tm
      <4>2. Tm(r, y) = prev.term
        BY <1>2, <1>4, <1>5, <1>8, <3>1
      <4> QED
        BY <1>4, <1>8, <3>1, <4>1, <4>2
    <3>2. CASE y # s.lo
      <4>1. /\ y \in 1 .. Len(log) /\ y - s.lo \in 1 .. Len(es)
            /\ next - 1 + (y - s.lo) = y
        <5>1. y - s.lo \in 1 .. Len(es)
          BY <1>4, <1>8, <1>9, <3>2
        <5>2. es # <<>>
          BY <1>9, <5>1
        <5>3. s.lo = next - 1 /\ s.lo \in Nat /\ Hi(s) \in Nat
          BY <1>4, <1>8, <1>9, <5>2
        <5>4. y \in 1 .. Len(log)
          BY <1>2, <1>5, <2>1, <3>2, <5>3
        <5> QED
          BY <1>2, <5>1, <5>3, <5>4
      <4>2. Ent(s, y) = log[y] /\ Tm(s, y) = log[y].term
        BY <1>4, <1>7, <3>2, <4>1 DEF Ent, Tm
      <4> QED
        BY <1>5, <4>1, <4>2
    <3> QED
      BY <3>1, <3>2
  <2> QED
    BY <1>4, <1>5, <1>8, <2>1, <2>2 DEF Part
<1>11. AppendTyped(m)
  BY <1>1, <1>2, <1>9 DEF AppendTyped, s
<1>12. next <= Len(log) + 1 => Hi(s) = Len(log)
  <2>1. CASE es = <<>>
    BY <1>2, <1>7, <1>8, <1>9, <2>1
  <2>2. CASE es # <<>>
    BY <1>2, <1>7, <1>8, <1>9, <2>2
  <2> QED
    BY <2>1, <2>2
<1>13. Sends(me, m)
  BY <1>1, <1>10, <1>11 DEF Sends, IsResponse, IsAppend, s, r, log, WellTyped, ServerOK
<1> QED
  BY <1>1, <1>12, <1>13 DEF s, log, next

LEMMA SendCarries ==
    ASSUME NEW i \in Server, NEW me, WellTyped(i, me), me.state = "leader",
           NEW ks \in SUBSET (Server \ {i})
    PROVE  LET b == raft_send_appendentries(me, ks) IN WellTyped(i, b) /\ Carries(me, b)
<1> DEFINE sent == UNION {IF NeedsSnapshot(me, k) THEN send_snapshot(me, k)
                          ELSE send_appendentries(me, k) : k \in ks}
           b == [me EXCEPT !.out = @ \cup sent]
<1>1. \A k \in ks : ~NeedsSnapshot(me, k)
  BY DEF NeedsSnapshot, WellTyped, ServerOK
<1>2. \A k \in ks : \A m \in send_appendentries(me, k) : Sends(me, m)
  BY SendPart
<1>3. \A m \in sent : Sends(me, m)
  BY <1>1, <1>2
<1>4. raft_send_appendentries(me, ks) = b
  BY DEF raft_send_appendentries
<1>5. DOMAIN me = Fields
  BY DEF WellTyped, ServerOK
<1>6. ServerOK(i, b)
  BY <1>4, SendQuiet, QuietOK DEF WellTyped
<1> HIDE DEF sent
<1>7. SameLog(me, b) /\ b.out = me.out \cup sent
  BY <1>5 DEF SameLog, Fields
<1>8. Typed(b)
  BY <1>5 DEF WellTyped, Typed, Fields
<1> HIDE DEF b
<1>9. \A m \in sent : Sends(b, m)
  BY <1>3, <1>7, SendsSame
<1> QED
  BY <1>4, <1>6, <1>7, <1>8, <1>9 DEF WellTyped, Carries

LEMMA SendAllCarries ==
    ASSUME NEW i \in Server, NEW me, WellTyped(i, me), me.state = "leader"
    PROVE  LET b == raft_send_appendentries_all(me) IN WellTyped(i, b) /\ Carries(me, b)
<1> DEFINE m == [me EXCEPT !.late = FALSE]
           ks == {k \in Peers(me) : \A j \in Peers(me) : j < k => ~NeedsSnapshot(me, j)}
<1>1. DOMAIN me = Fields /\ me.id = i
  BY DEF WellTyped, ServerOK
<1>2. ServerOK(i, m) /\ Typed(m) /\ Carries(me, m) /\ m.state = "leader"
  BY <1>1 DEF WellTyped, ServerOK, Typed, Carries, SameLog, Fields
<1>3. ks \in SUBSET (Server \ {i})
  BY <1>1 DEF Peers
<1>4. raft_send_appendentries_all(me) = raft_send_appendentries(m, ks)
  BY DEF raft_send_appendentries_all
<1> HIDE DEF m, ks
<1>5. /\ WellTyped(i, raft_send_appendentries(m, ks))
      /\ Carries(m, raft_send_appendentries(m, ks))
  BY <1>2, <1>3, SendCarries DEF WellTyped
<1> QED
  BY <1>2, <1>4, <1>5, CarriesTrans

LEMMA BackOffCarries ==
    ASSUME NEW i \in Server, NEW me, WellTyped(i, me), me.state = "leader",
           NEW k \in Server, k # i, NEW r, r.current_idx \in Nat
    PROVE  WellTyped(i, BackOff(me, k, r)) /\ Carries(me, BackOff(me, k, r))
<1> DEFINE next == me.next_idx[k]
           idx == IF r.current_idx < next - 1
                  THEN Lesser(r.current_idx + 1, raft_get_current_idx(me)) ELSE next - 1
           m == raft_node_set_next_idx(me, k, idx)
           b == raft_send_appendentries(m, {k})
<1>1. DOMAIN me = Fields /\ next \in Nat \ {0} /\ raft_get_current_idx(me) \in Nat
  BY CurrentIdx DEF WellTyped, ServerOK, Typed
<1>2. idx \in Nat
  BY <1>1, LesserGreater
<1>3. \/ BackOff(me, k, r) = Abort(me, "next_idx")
      \/ BackOff(me, k, r) = me
      \/ BackOff(me, k, r) = b
  BY DEF BackOff
<1> HIDE DEF idx
<1>4. Greater(idx, 1) \in Nat \ {0}
  BY <1>2 DEF Greater
<1>5. ServerOK(i, m) /\ Typed(m) /\ Carries(me, m) /\ m.state = "leader"
  <2>1. m = [me EXCEPT !.next_idx = [@ EXCEPT ![k] = Greater(idx, 1)]]
    BY DEF raft_node_set_next_idx
  <2>2. [me.next_idx EXCEPT ![k] = Greater(idx, 1)] \in [Server -> Nat \ {0}]
    BY <1>4 DEF WellTyped, Typed
  <2> DEFINE q == [me.next_idx EXCEPT ![k] = Greater(idx, 1)]
  <2>3. m = [me EXCEPT !.next_idx = q]
    BY <2>1
  <2> HIDE DEF q, m
  <2> QED
    BY <1>1, <2>2, <2>3 DEF WellTyped, ServerOK, Typed, Carries, SameLog, Fields, q
<1> HIDE DEF m
<1>6. WellTyped(i, b) /\ Carries(m, b)
  BY <1>5, SendCarries DEF WellTyped
<1> QED
  BY <1>3, <1>5, <1>6, AbortCarries, CarriesRefl, CarriesTrans
-----------------------------------------------------------------------------
(* Receiving appendentries.                                                *)

LEMMA FollowsOn ==
    ASSUME NEW a \in Seq(Entries), NEW g \in Seq(Entries), NEW s, Segment(s), NEW p,
           p \in 0 .. Len(a), p <= Len(g), \A y \in 1 .. p : g[y] = a[y], Follows(a, s, p),
           NEW x \in p .. Len(g), x <= Hi(s), \A y \in p + 1 .. x : g[y] = Ent(s, y)
    PROVE  Follows(g, s, x)
<1>1. /\ s.lo \in Nat /\ Hi(s) \in Nat /\ Len(a) \in Nat /\ Len(g) \in Nat
      /\ \A y \in s.lo + 1 .. Hi(s) : Tm(s, y) = Ent(s, y).term
  BY SegmentFacts
<1>2. /\ Tm(LogSeg(a), 0) = 0 /\ Tm(LogSeg(g), 0) = 0
      /\ \A y \in 1 .. Len(a) : Tm(LogSeg(a), y) = a[y].term
      /\ \A y \in 1 .. Len(g) : Tm(LogSeg(g), y) = g[y].term
  BY LogSegFacts
<1>3. s.lo <= p /\ \A y \in s.lo .. p : Tm(LogSeg(a), y) = Tm(s, y)
  BY DEF Follows
<1>4. ASSUME NEW y \in s.lo .. x PROVE Tm(LogSeg(g), y) = Tm(s, y)
  <2>1. CASE y <= p
    <3>1. Tm(LogSeg(a), y) = Tm(s, y) /\ y \in 0 .. p
      BY <1>1, <1>3, <2>1
    <3>2. CASE y = 0
      BY <1>2, <3>1, <3>2
    <3>3. CASE y # 0
      <4>1. y \in 1 .. p /\ y \in 1 .. Len(a) /\ y \in 1 .. Len(g)
        BY <1>1, <3>1, <3>3
      <4> QED
        BY <1>2, <3>1, <4>1
    <3> QED
      BY <3>2, <3>3
  <2>2. CASE p < y
    <3>1. y \in p + 1 .. x /\ y \in s.lo + 1 .. Hi(s) /\ y \in 1 .. Len(g)
      BY <1>1, <1>3, <2>2
    <3> QED
      BY <1>1, <1>2, <3>1
  <2> QED
    BY <1>1, <2>1, <2>2
<1> QED
  BY <1>1, <1>3, <1>4 DEF Follows

\* m answers the appendentries ae: a success says how far the log of b follows
\* what ae carried.
Reply(i, b, ae, m) ==
    /\ IsResponse(m) /\ ~IsAppend(m)
    /\ ResponseTyped(m) /\ m.src = i /\ m.term = b.current_term
    /\ IsSuccess(m) => /\ m.dst = ae.src
                       /\ Follows(b.log, MsgSeg(ae), m.current_idx)

\* The commit index stays, or follows the leader's once the log follows all of
\* what ae carried.
LearnsCommit(me, ae, b) ==
    \/ b.commit_idx = me.commit_idx
    \/ /\ b.commit_idx <= ae.leader_commit
       /\ Follows(b.log, MsgSeg(ae), Hi(MsgSeg(ae)))

\* ae contradicts what me has committed, or knows of more that is committed
\* than it reaches to.
Conflicts(me, ae) ==
    \/ Hi(MsgSeg(ae)) < ae.leader_commit
    \/ \E y \in MsgSeg(ae).lo .. Hi(MsgSeg(ae)) :
          y \in 1 .. me.commit_idx /\ me.log[y].term # Tm(MsgSeg(ae), y)

\* Server me has handled ae and become b.
Handled(i, me, ae, b) ==
    /\ b.stopped # me.stopped => Conflicts(me, ae)
    /\ WellTyped(i, b) /\ b.fsm = me.fsm /\ LearnsCommit(me, ae, b)
    /\ b.state = me.state /\ b.current_term = me.current_term
    /\ \E p : FromSeg(me.log, MsgSeg(ae), b.log, p) /\ me.commit_idx <= p
    /\ \A m \in b.out : m \notin me.out => Reply(i, b, ae, m)

\* The log is as before.
LEMMA FromSegSame ==
    ASSUME NEW a \in Seq(Entries), NEW s, NEW g, g = a
    PROVE  FromSeg(a, s, g, Len(a))
<1>1. Len(a) \in Nat
  OBVIOUS
<1> QED
  BY <1>1 DEF FromSeg

LEMMA AnswerTyped ==
    ASSUME NEW i \in Server, NEW me, WellTyped(i, me), NEW ae, ae.src \in Server,
           NEW success \in BOOLEAN, NEW idx
    PROVE  LET b == Answer(me, ae, success, idx)
           IN  /\ WellTyped(i, b) /\ SameLog(me, b) /\ b.commit_idx = me.commit_idx
               /\ b.fsm = me.fsm
<1> DEFINE b == Answer(me, ae, success, idx)
<1>1. DOMAIN me = Fields
  BY DEF WellTyped, ServerOK
<1>2. ServerOK(i, b)
  BY AnswerQuiet, QuietOK DEF WellTyped
<1>3. Typed(b) /\ SameLog(me, b) /\ b.commit_idx = me.commit_idx /\ b.fsm = me.fsm
  BY <1>1 DEF Answer, WellTyped, Typed, SameLog, Fields
<1> QED
  BY <1>2, <1>3 DEF WellTyped

LEMMA AnswerReply ==
    ASSUME NEW i \in Server, NEW me, WellTyped(i, me), NEW ae, ae.src \in Server,
           ae.src # i, NEW success \in BOOLEAN, NEW idx \in Nat,
           success = TRUE => Follows(me.log, MsgSeg(ae), idx)
    PROVE  LET b == Answer(me, ae, success, idx)
           IN  \A m \in b.out : m \notin me.out => Reply(i, b, ae, m)
<1> DEFINE b == Answer(me, ae, success, idx)
           r == [type |-> "appendentries_response", src |-> me.id, dst |-> ae.src,
                 term |-> me.current_term, success |-> success, current_idx |-> idx]
<1>1. DOMAIN me = Fields /\ me.id = i
  BY DEF WellTyped, ServerOK
<1>2. b.out = me.out \cup {r} /\ SameLog(me, b)
  BY <1>1 DEF Answer, SameLog, Fields
<1>3. /\ r.type = "appendentries_response" /\ r.src = i /\ r.dst = ae.src
      /\ r.term = me.current_term /\ r.current_idx = idx
  BY <1>1
<1>4. r.success = success
  BY Zenon
<1> HIDE DEF r, b
<1>5. IsSuccess(r) => Follows(b.log, MsgSeg(ae), r.current_idx) /\ r.dst = ae.src
  <2>1. IsSuccess(r) => success = TRUE
    BY <1>4, Zenon DEF IsSuccess
  <2>2. b.log = me.log
    BY <1>2 DEF SameLog
  <2> QED
    BY <1>3, <2>1, <2>2
<1>6. Reply(i, b, ae, r)
  <2>1. IsResponse(r) /\ ~IsAppend(r)
    BY <1>3 DEF IsAppend, IsResponse
  <2>2. ResponseTyped(r) /\ r.src = i /\ r.term = b.current_term
    BY <1>2, <1>3 DEF ResponseTyped, SameLog
  <2> QED
    BY <1>5, <2>1, <2>2 DEF Reply
<1> QED
  BY <1>2, <1>6 DEF b

\* The steps that do not stop the server.
LEMMA AnswerRuns ==
    ASSUME NEW me, DOMAIN me = Fields, NEW ae, NEW success, NEW idx
    PROVE  Answer(me, ae, success, idx).stopped = me.stopped
BY DEF Answer, Fields

LEMMA AppendRuns ==
    ASSUME NEW me, DOMAIN me = Fields, NEW etys
    PROVE  raft_append_entries(me, etys).stopped = me.stopped
BY DEF raft_append_entries, Fields

LEMMA DeleteRuns ==
    ASSUME NEW me, DOMAIN me = Fields, NEW idx, me.commit_idx < idx
    PROVE  raft_delete_entry_from_idx(me, idx).stopped = me.stopped
BY DEF raft_delete_entry_from_idx, Fields

LEMMA FollowRuns ==
    ASSUME NEW i, NEW me, WellTyped(i, me), NEW idx \in Nat, idx <= Len(me.log)
    PROVE  FollowCommit(me, idx).stopped = me.stopped
<1>1. /\ DOMAIN me = Fields /\ me.commit_idx \in Nat /\ Len(me.log) \in Nat
      /\ raft_get_current_idx(me) = Len(me.log)
  BY CurrentIdx DEF WellTyped, ServerOK, Typed
<1>2. CASE me.commit_idx < idx
  <2>1. Lesser(Greater(raft_get_current_idx(me), 1), idx) = idx
    BY <1>1, <1>2 DEF Lesser, Greater
  <2> QED
    BY <1>1, <1>2, <2>1 DEF FollowCommit, raft_set_commit_idx, Fields
<1>3. CASE ~(me.commit_idx < idx)
  BY <1>3 DEF FollowCommit
<1> QED
  BY <1>2, <1>3

LEMMA RefuseHandled ==
    ASSUME NEW i \in Server, NEW me, WellTyped(i, me), NEW ae, ae.src \in Server, ae.src # i
    PROVE  Handled(i, me, ae, Refuse(me, ae))
<1> DEFINE b == Refuse(me, ae)
<1>1. raft_get_current_idx(me) \in Nat
  BY CurrentIdx DEF WellTyped
<1>2. b = Answer(me, ae, FALSE, raft_get_current_idx(me))
  BY DEF Refuse
<1>3. /\ WellTyped(i, b) /\ SameLog(me, b)
      /\ b.commit_idx = me.commit_idx /\ b.fsm = me.fsm
  <2>1. \A success \in BOOLEAN : \A idx :
          LET c == Answer(me, ae, success, idx)
          IN  /\ WellTyped(i, c) /\ SameLog(me, c)
              /\ c.commit_idx = me.commit_idx /\ c.fsm = me.fsm
    BY AnswerTyped
  <2> HIDE DEF b
  <2> QED
    BY <1>2, <2>1
<1>4. \A m \in b.out : m \notin me.out => Reply(i, b, ae, m)
  BY <1>1, <1>2, AnswerReply
<1> HIDE DEF b
<1>6. b.stopped = me.stopped
  <2>1. DOMAIN me = Fields
    BY DEF WellTyped, ServerOK
  <2>2. \A success, idx : Answer(me, ae, success, idx).stopped = me.stopped
    BY <2>1, AnswerRuns
  <2> QED
    BY <1>2, <2>2, Zenon
<1>5. FromSeg(me.log, MsgSeg(ae), b.log, Len(me.log)) /\ me.commit_idx <= Len(me.log)
  BY <1>3, FromSegSame DEF SameLog, WellTyped, Typed
<1> QED
  BY <1>3, <1>4, <1>5, <1>6 DEF Handled, LearnsCommit, SameLog, b

LEMMA AbortHandled ==
    ASSUME NEW i \in Server, NEW me, WellTyped(i, me), NEW ae, NEW why, Conflicts(me, ae)
    PROVE  Handled(i, me, ae, Abort(me, why))
<1> DEFINE b == Abort(me, why)
<1>1. WellTyped(i, b) /\ SameLog(me, b)
  BY AbortCarries DEF Carries
<1>2. b.out = {} /\ b.commit_idx = me.commit_idx /\ b.fsm = me.fsm
  BY DEF Abort, WellTyped, ServerOK, Fields
<1> HIDE DEF b
<1>3. FromSeg(me.log, MsgSeg(ae), b.log, Len(me.log)) /\ me.commit_idx <= Len(me.log)
  BY <1>1, FromSegSame DEF SameLog, WellTyped, Typed
<1> QED
  BY <1>1, <1>2, <1>3 DEF Handled, LearnsCommit, SameLog, b

\* raft_append_entries appends the first n of etys, all if log_offer accepts.
LEMMA AppendLog ==
    ASSUME NEW i \in Server, NEW me, WellTyped(i, me), me.cb.log_offer \in Nat,
           NEW etys \in Seq(Entries)
    PROVE  LET b == raft_append_entries(me, etys)
               n == Lesser(me.cb.log_offer, Len(etys))
           IN  /\ WellTyped(i, b) /\ b.out = me.out /\ b.fsm = me.fsm
               /\ b.next_idx = me.next_idx
               /\ b.state = me.state /\ b.current_term = me.current_term
               /\ b.match_idx = me.match_idx /\ b.commit_idx = me.commit_idx
               /\ n \in 0 .. Len(etys) /\ Len(b.log) = Len(me.log) + n
               /\ \A y \in 1 .. Len(me.log) : b.log[y] = me.log[y]
               /\ \A y \in 1 .. n : b.log[Len(me.log) + y] = etys[y]
<1> DEFINE n == Lesser(me.cb.log_offer, Len(etys))
           need == Len(me.log) + Lesser(n + 1, Len(etys))
           new == SubSeq(etys, 1, n)
           log == me.log \o new
           size == __ensurecapacity(me.size, need)
           front == IF me.size < need THEN 0 ELSE me.front
           b == raft_append_entries(me, etys)
<1>1. DOMAIN me = Fields
  BY DEF WellTyped, ServerOK
<1>2. /\ me.log \in Seq(Entries) /\ Len(me.log) \in Nat /\ me.size \in Nat \ {0}
      /\ me.front = 0 /\ Len(me.log) <= me.size
  BY DEF WellTyped, Typed
<1>3. n \in Nat /\ n <= Len(etys) /\ Len(etys) \in Nat
  <2>1. Len(etys) \in Nat
    OBVIOUS
  <2> QED
    BY <2>1, LesserGreater
<1> HIDE DEF n
<1>4. need \in Nat /\ Len(me.log) + n <= need
  <2>1. Lesser(n + 1, Len(etys)) \in Nat /\ n <= Lesser(n + 1, Len(etys))
    BY <1>3 DEF Lesser
  <2> QED
    BY <1>2, <1>3, <2>1
<1>5. /\ new \in Seq(Entries) /\ Len(new) = n
      /\ \A y \in 1 .. n : new[y] = etys[y]
  BY <1>3, SubSeqFacts
<1>6. /\ log \in Seq(Entries) /\ Len(log) = Len(me.log) + n
      /\ \A y \in 1 .. Len(me.log) : log[y] = me.log[y]
      /\ \A y \in 1 .. n : log[Len(me.log) + y] = etys[y]
  <2> HIDE DEF new
  <2>1. log \in Seq(Entries) /\ Len(log) = Len(me.log) + n
    BY <1>2, <1>5, ConcatProperties
  <2>2. \A y \in 1 .. Len(log) :
          log[y] = IF y <= Len(me.log) THEN me.log[y] ELSE new[y - Len(me.log)]
    BY <1>2, <1>5, <2>1, ConcatProperties
  <2>3. ASSUME NEW y \in 1 .. n PROVE log[Len(me.log) + y] = etys[y]
    <3>1. /\ Len(me.log) + y \in 1 .. Len(log) /\ ~(Len(me.log) + y <= Len(me.log))
          /\ Len(me.log) + y - Len(me.log) = y
      BY <1>2, <1>3, <2>1
    <3> HIDE DEF log
    <3>2. log[Len(me.log) + y] = new[Len(me.log) + y - Len(me.log)]
      BY <2>2, <3>1
    <3> QED
      BY <1>5, <3>1, <3>2
  <2>4. ASSUME NEW y \in 1 .. Len(me.log) PROVE log[y] = me.log[y]
    <3>1. y \in 1 .. Len(log) /\ y <= Len(me.log)
      BY <1>2, <1>3, <2>1
    <3> HIDE DEF log
    <3> QED
      BY <2>2, <3>1
  <2> QED
    BY <2>1, <2>3, <2>4
<1>7. size \in Nat \ {0} /\ need <= size
  BY <1>2, <1>4, EnsureCapacity
<1>8. front = 0
  BY <1>2
<1>9. b = [me EXCEPT !.log = log, !.size = size, !.front = front, !.cb.log_offer = @ - n]
  BY DEF raft_append_entries, n
<1>10. ServerOK(i, b)
  BY <1>1, AppendQuiet, QuietOK DEF WellTyped
<1> HIDE DEF need, new, log, size, front, b
<1>11. /\ b.out = me.out /\ b.state = me.state /\ b.current_term = me.current_term
       /\ b.match_idx = me.match_idx /\ b.commit_idx = me.commit_idx
       /\ b.log = log /\ b.size = size /\ b.front = front /\ b.id = me.id
       /\ b.fsm = me.fsm /\ b.base = me.base /\ b.next_idx = me.next_idx
       /\ b.snap = me.snap /\ b.last_applied_idx = me.last_applied_idx
       /\ b.current_leader = me.current_leader
  BY <1>1, <1>9 DEF Fields
<1>12. Typed(b)
  <2>1. Typed(me)
    BY DEF WellTyped
  <2>2. /\ b.log \in Seq(Entries) /\ b.front = 0 /\ b.size \in Nat \ {0}
        /\ Len(b.log) = Len(me.log) + n
    BY <1>6, <1>7, <1>8, <1>11
  <2>3. Len(b.log) <= b.size
    BY ONLY <1>2, <1>3, <1>4, <1>7, <1>11, <2>2
  <2>4. me.commit_idx \in Nat /\ me.commit_idx <= Len(me.log)
    BY <2>1 DEF Typed
  <2>5. b.commit_idx <= Len(b.log)
    BY ONLY <1>2, <1>3, <1>11, <2>2, <2>4
  <2>6. b.match_idx[b.id] = 0
    BY <1>11, <2>1 DEF Typed
  <2> QED
    BY <1>11, <2>1, <2>2, <2>3, <2>5, <2>6 DEF Typed
<1> QED
  BY <1>3, <1>6, <1>10, <1>11, <1>12 DEF WellTyped, b, n

\* The entries from idx on are cut off.
LEMMA DeleteLog ==
    ASSUME NEW i \in Server, NEW me, WellTyped(i, me), NEW idx \in 1 .. Len(me.log),
           me.commit_idx < idx
    PROVE  LET b == raft_delete_entry_from_idx(me, idx)
           IN  /\ WellTyped(i, b) /\ b.out = me.out /\ b.cb = me.cb /\ b.fsm = me.fsm
               /\ b.state = me.state /\ b.current_term = me.current_term
               /\ b.match_idx = me.match_idx /\ b.commit_idx = me.commit_idx
               /\ Len(b.log) = idx - 1
               /\ \A y \in 1 .. idx - 1 : b.log[y] = me.log[y]
<1> DEFINE log == SubSeq(me.log, 1, idx - me.base - 1)
           b == raft_delete_entry_from_idx(me, idx)
<1>1. DOMAIN me = Fields
  BY DEF WellTyped, ServerOK
<1>2. /\ me.log \in Seq(Entries) /\ Len(me.log) \in Nat /\ me.size \in Nat \ {0}
      /\ Len(me.log) <= me.size /\ me.base = 0 /\ me.commit_idx \in Nat
  BY DEF WellTyped, Typed
<1>3. idx - me.base - 1 = idx - 1 /\ idx - 1 \in Nat /\ idx - 1 <= Len(me.log)
  BY <1>2
<1>4. /\ log \in Seq(Entries) /\ Len(log) = idx - 1
      /\ \A y \in 1 .. idx - 1 : log[y] = me.log[y]
  <2>1. /\ log \in Seq(Entries) /\ Len(log) = IF 1 <= idx - 1 THEN idx - 1 - 1 + 1 ELSE 0
        /\ \A y \in 1 .. idx - 1 - 1 + 1 : log[y] = me.log[1 + y - 1]
    BY <1>2, <1>3, SubSeqFacts
  <2>2. Len(log) = idx - 1
    BY <1>3, <2>1
  <2>3. \A y \in 1 .. idx - 1 : 1 + y - 1 = y /\ y \in 1 .. idx - 1 - 1 + 1
    BY <1>3
  <2> HIDE DEF log
  <2> QED
    BY <2>1, <2>2, <2>3
<1>5. b = [me EXCEPT !.log = log]
  BY DEF raft_delete_entry_from_idx
<1>6. ServerOK(i, b)
  BY <1>1, DeleteQuiet, QuietOK DEF WellTyped
<1> HIDE DEF log, b
<1>7. /\ b.out = me.out /\ b.cb = me.cb
      /\ b.state = me.state /\ b.current_term = me.current_term
      /\ b.match_idx = me.match_idx /\ b.commit_idx = me.commit_idx
      /\ b.log = log /\ b.size = me.size /\ b.front = me.front /\ b.id = me.id
      /\ b.fsm = me.fsm /\ b.base = me.base /\ b.next_idx = me.next_idx
      /\ b.snap = me.snap /\ b.last_applied_idx = me.last_applied_idx
      /\ b.current_leader = me.current_leader
  BY <1>1, <1>5 DEF Fields
<1>8. Typed(b)
  BY <1>2, <1>3, <1>4, <1>7 DEF WellTyped, Typed
<1> QED
  BY <1>4, <1>6, <1>7, <1>8 DEF WellTyped, b

LEMMA Shift ==
    ASSUME NEW l \in Int, NEW f \in Int, NEW y \in Int, NEW p \in Int, p = l + (f - 1)
    PROVE  f + ((y - p) - 1) = y - l /\ (p + 1) - l = f
OBVIOUS

\* A server whose log has ae's previous entry takes over what it lacks.
LEMMA AcceptHandled ==
    ASSUME NEW i \in Server, NEW me, WellTyped(i, me), me.cb.log_offer \in Nat,
           NEW ae, ae.src \in Server, AppendTyped(ae), ae.src # i,
           Follows(me.log, MsgSeg(ae), ae.prev_log_idx)
    PROVE  Handled(i, me, ae, AcceptEntries(me, ae))
<1> DEFINE n == Len(ae.entries)
           At(j) == ae.prev_log_idx + j
           Known(j) == /\ HasEntry(me, At(j))
                       /\ EntryAt(me, At(j)).term = ae.entries[j].term
           IsFirst(j) == /\ \A l \in 1 .. j - 1 : Known(l)
                         /\ j = n + 1 \/ ~Known(j)
           first == CHOOSE j \in 1 .. n + 1 : IsFirst(j)
           conflict == first <= n /\ HasEntry(me, At(first))
           cut == IF conflict THEN raft_delete_entry_from_idx(me, At(first)) ELSE me
           rest == SubSeq(ae.entries, first, n)
           grown == raft_append_entries(cut, rest)
           added == Len(grown.log) - Len(cut.log)
           done == IF added < Len(rest) THEN grown ELSE FollowCommit(grown, ae.leader_commit)
           idx == At(first - 1 + added)
           b == AcceptEntries(me, ae)
           a == me.log
           s == MsgSeg(ae)
           p == At(first - 1)
<1>1. /\ a \in Seq(Entries) /\ Len(a) \in Nat /\ me.commit_idx \in Nat
      /\ me.commit_idx <= Len(a)
      /\ \A x : HasEntry(me, x) <=> x \in 1 .. Len(a)
      /\ \A x \in 1 .. Len(a) : EntryAt(me, x) = a[x]
  BY CurrentIdx DEF WellTyped, Typed
<1>2. /\ Segment(s) /\ s.lo = ae.prev_log_idx /\ s.es = ae.entries /\ s.lo \in Nat
      /\ ae.entries \in Seq(Entries) /\ n \in Nat /\ Hi(s) = s.lo + n
      /\ ae.leader_commit \in Nat
      /\ \A y \in s.lo + 1 .. Hi(s) : /\ Tm(s, y) = Ent(s, y).term
                                      /\ Ent(s, y) = ae.entries[y - s.lo]
  <2>1. Segment(s) /\ ae.leader_commit \in Nat
    BY DEF AppendTyped
  <2>2. s.lo = ae.prev_log_idx /\ s.es = ae.entries
    BY DEF MsgSeg
  <2> HIDE DEF s
  <2> QED
    BY <2>1, <2>2, SegmentFacts DEF Segment, Hi, Ent
<1>3. b = IF conflict /\ At(first) <= me.commit_idx
          THEN Abort(me, "conflicts with committed entry")
          ELSE Answer(done, ae, TRUE, idx)
  BY DEF AcceptEntries
<1> HIDE DEF b, s
<1> SUFFICES Handled(i, me, ae, b)
  BY DEF b
<1>10. \A y \in 1 .. Len(a) : Tm(LogSeg(a), y) = a[y].term
  BY <1>1, LogSegFacts
<1>11. s.lo \in Nat /\ n \in Nat /\ Hi(s) = s.lo + n /\ s.lo = ae.prev_log_idx
  BY <1>2
\* The first entry that is not known.
<1>4. first \in 1 .. n + 1 /\ IsFirst(first)
  <2> DEFINE T == {j \in 1 .. n + 1 : j = n + 1 \/ ~Known(j)}
  <2>1. T \subseteq Nat /\ n + 1 \in T
    BY <1>2
  <2>2. PICK x \in T : \A y \in T : x <= y
    BY <2>1, LeastNatural
  <2>3. \A l \in 1 .. x - 1 : l \in 1 .. n + 1 /\ l \notin T
    BY <1>2, <2>2
  <2>4. x \in 1 .. n + 1 /\ IsFirst(x)
    BY <2>2, <2>3
  <2> HIDE DEF IsFirst
  <2>5. \E j \in 1 .. n + 1 : IsFirst(j)
    BY <2>4
  <2> QED
    BY <2>5
<1> HIDE DEF first, n
<1>5. /\ first \in Nat /\ p = s.lo + first - 1 /\ p \in Nat /\ p <= Hi(s) /\ At(first) = p + 1
      /\ s.lo <= p
  <2>1. first \in 1 .. n + 1
    BY <1>4
  <2> QED
    BY ONLY <1>11, <2>1
\* The log follows ae up to it.
<1>6. Follows(a, s, p)
  <2>1. s.lo <= Len(a) /\ Tm(LogSeg(a), s.lo) = Tm(s, s.lo)
    <3>1. s.lo \in s.lo .. s.lo
      BY <1>2
    <3> QED
      BY <1>2, <3>1 DEF Follows, s
  <2>2. ASSUME NEW y \in s.lo + 1 .. p
        PROVE  y \in 1 .. Len(a) /\ Tm(LogSeg(a), y) = Tm(s, y)
    <3>0. y \in s.lo + 1 .. p
      OBVIOUS
    <3>1. y - s.lo \in 1 .. first - 1 /\ At(y - s.lo) = y /\ y \in s.lo + 1 .. Hi(s)
      BY ONLY <1>5, <1>11, <3>0
    <3>2. Known(y - s.lo)
      BY <1>4, <3>1
    <3>3. y \in 1 .. Len(a) /\ a[y].term = ae.entries[y - s.lo].term
      BY <1>1, <3>1, <3>2
    <3> QED
      BY <1>2, <1>10, <3>1, <3>3
  <2>3. p <= Len(a)
    <3>1. CASE p = s.lo
      BY <2>1, <3>1
    <3>2. CASE p # s.lo
      <4>1. p \in s.lo + 1 .. p
        BY <1>2, <1>5, <3>2
      <4> QED
        BY <1>1, <2>2, <4>1
    <3> QED
      BY <3>1, <3>2
  <2>4. ASSUME NEW y \in s.lo .. p PROVE Tm(LogSeg(a), y) = Tm(s, y)
    <3>1. y = s.lo \/ y \in s.lo + 1 .. p
      BY <1>2, <1>5
    <3> QED
      BY <2>1, <2>2, <3>1
  <2> QED
    BY <1>5, <2>3, <2>4 DEF Follows
<1>7. p \in 0 .. Len(a)
  BY <1>1, <1>5, <1>6 DEF Follows
<1> HIDE DEF p
<1>8. CASE conflict /\ At(first) <= me.commit_idx
  <2> DEFINE z == p + 1
  <2>1. /\ first \in Nat /\ p = s.lo + first - 1 /\ p \in Nat /\ s.lo <= p
        /\ first <= n /\ At(first) = p + 1
    BY <1>5, <1>8
  <2>2. z \in s.lo + 1 .. Hi(s) /\ z - s.lo = first /\ z \in s.lo .. Hi(s)
    <3>1. p + 1 \in s.lo + 1 .. Hi(s) /\ p + 1 \in s.lo .. Hi(s)
      BY ONLY <1>11, <2>1
    <3>2. s.lo \in Int /\ first \in Int /\ p = s.lo + (first - 1)
      BY <1>11, <2>1
    <3> QED
      BY <3>1, <3>2, Shift
  <2>3. ~Known(first)
    BY <1>4, <1>11, <2>1
  <2>4. z \in 1 .. Len(a) /\ z \in 1 .. me.commit_idx
    BY <1>1, <1>8, <2>1
  <2>5. a[z].term # ae.entries[first].term
    BY <1>1, <2>1, <2>3, <2>4
  <2> HIDE DEF z
  <2>6. Tm(s, z) = ae.entries[first].term
    BY <1>2, <2>2
  <2>7. Conflicts(me, ae)
    BY <2>2, <2>4, <2>5, <2>6 DEF Conflicts, s
  <2> QED
    BY <1>3, <1>8, <2>7, AbortHandled
<1>9. CASE ~(conflict /\ At(first) <= me.commit_idx)
  <2>1. /\ WellTyped(i, cut) /\ cut.out = me.out /\ cut.cb = me.cb /\ cut.fsm = me.fsm
        /\ cut.state = me.state /\ cut.current_term = me.current_term
        /\ cut.commit_idx = me.commit_idx
        /\ first <= n => Len(cut.log) = p
        /\ first = n + 1 => cut.log = a
        /\ \A y \in 1 .. p : cut.log[y] = a[y]
        /\ conflict => me.commit_idx <= p /\ p + 1 \in 1 .. Len(a)
        /\ first <= n /\ ~conflict => p = Len(a)
        /\ cut.stopped = me.stopped
    <3>1. CASE conflict
      <4>1. At(first) \in 1 .. Len(a) /\ me.commit_idx < At(first) /\ At(first) - 1 = p
        BY <1>1, <1>5, <1>9, <3>1
      <4>2. cut = raft_delete_entry_from_idx(me, At(first))
        BY <3>1
      <4> HIDE DEF cut
      <4>3. /\ WellTyped(i, cut) /\ cut.out = me.out /\ cut.cb = me.cb /\ cut.fsm = me.fsm
            /\ cut.state = me.state /\ cut.current_term = me.current_term
            /\ cut.commit_idx = me.commit_idx
            /\ Len(cut.log) = At(first) - 1
            /\ \A y \in 1 .. At(first) - 1 : cut.log[y] = a[y]
        BY <4>1, <4>2, DeleteLog
      <4>4. first # n + 1
        BY <1>2, <1>5, <3>1
      <4>5. cut.stopped = me.stopped
        <5>1. DOMAIN me = Fields
          BY DEF WellTyped, ServerOK
        <5> QED
          BY <4>1, <4>2, <5>1, DeleteRuns
      <4> QED
        BY <1>1, <1>5, <3>1, <4>1, <4>3, <4>4, <4>5
    <3>2. CASE ~conflict
      <4>1. cut = me
        BY <3>2
      <4> HIDE DEF cut
      <4>2. first <= n => p = Len(a)
        BY <1>1, <1>5, <1>7, <3>2
      <4> QED
        BY <3>2, <4>1, <4>2
    <3> QED
      BY <3>1, <3>2
  <2> HIDE DEF cut
  <2>2. /\ rest \in Seq(Entries) /\ Len(rest) = n - first + 1
        /\ \A y \in 1 .. Len(rest) : rest[y] = ae.entries[first + y - 1]
    <3>1. first \in Nat \ {0} /\ n <= Len(ae.entries)
      BY <1>4, <1>11 DEF n
    <3>2. /\ rest \in Seq(Entries)
          /\ Len(rest) = IF first <= n THEN n - first + 1 ELSE 0
          /\ \A y \in 1 .. n - first + 1 : rest[y] = ae.entries[first + y - 1]
      BY <1>2, <3>1, SubSeqFacts
    <3>3. Len(rest) = n - first + 1
      <4>1. first \in 1 .. n + 1
        BY <1>4
      <4> QED
        BY ONLY <1>11, <3>2, <4>1
    <3> QED
      BY <3>2, <3>3
  <2> HIDE DEF rest
  <2> DEFINE k == Lesser(cut.cb.log_offer, Len(rest))
  <2>3. /\ WellTyped(i, grown) /\ grown.out = cut.out /\ grown.fsm = cut.fsm
        /\ grown.state = cut.state /\ grown.current_term = cut.current_term
        /\ grown.commit_idx = cut.commit_idx
        /\ k \in 0 .. Len(rest) /\ Len(grown.log) = Len(cut.log) + k
        /\ \A y \in 1 .. Len(cut.log) : grown.log[y] = cut.log[y]
        /\ \A y \in 1 .. k : grown.log[Len(cut.log) + y] = rest[y]
    BY <2>1, <2>2, AppendLog
  <2>16. grown.stopped = me.stopped
    <3>1. DOMAIN cut = Fields
      BY <2>1 DEF WellTyped, ServerOK
    <3> QED
      BY <2>1, <3>1, AppendRuns
  <2> HIDE DEF grown, k
  <2>4. added = k /\ idx = p + k /\ k \in Nat /\ Len(cut.log) \in Nat /\ Len(grown.log) \in Nat
    <3>1. Len(cut.log) \in Nat /\ k \in Nat
      BY <2>1, <2>2, <2>3 DEF WellTyped, Typed
    <3>2. added = k /\ Len(grown.log) \in Nat
      BY <2>3, <3>1
    <3> HIDE DEF added
    <3>3. idx = p + k
      <4>1. idx = ae.prev_log_idx + (first - 1 + added)
        OBVIOUS
      <4> HIDE DEF idx
      <4>2. first \in Nat /\ p = s.lo + first - 1
        BY <1>5
      <4>3. s.lo + (first - 1 + k) = s.lo + first - 1 + k
        BY <1>11, <3>1, <4>2
      <4> QED
        BY <1>11, <3>2, <4>1, <4>2, <4>3
    <3> QED
      BY <3>1, <3>2, <3>3
  <2>5. /\ WellTyped(i, done) /\ Carries(grown, done) /\ done.out \subseteq grown.out
        /\ done.fsm = me.fsm
        /\ \/ done.commit_idx = me.commit_idx
           \/ ~(added < Len(rest)) /\ done.commit_idx <= ae.leader_commit
    <3> DEFINE f == FollowCommit(grown, ae.leader_commit)
    <3>1. /\ WellTyped(i, f) /\ Carries(grown, f) /\ f.out \subseteq grown.out
          /\ f.fsm = grown.fsm
          /\ f.commit_idx = grown.commit_idx \/ f.commit_idx <= ae.leader_commit
      <4>1. WellTyped(i, grown) /\ ae.leader_commit \in Nat
        BY <1>2, <2>3
      <4> QED
        BY <4>1, FollowCarries
    <3>2. grown.fsm = me.fsm /\ grown.commit_idx = me.commit_idx
      BY <2>1, <2>3
    <3>3. (added < Len(rest) /\ done = grown) \/ (~(added < Len(rest)) /\ done = f)
      OBVIOUS
    <3> HIDE DEF f, done, added
    <3> QED
      BY <2>3, <3>1, <3>2, <3>3, CarriesRefl
  <2>6. done.log = grown.log /\ done.state = me.state /\ done.current_term = me.current_term
    BY <2>1, <2>3, <2>5 DEF Carries, SameLog
  <2> DEFINE g == grown.log
  <2>7. g \in Seq(Entries)
    BY <2>3 DEF WellTyped, Typed
  <2> HIDE DEF idx
\* Up to p the log is the old one, beyond it is ae's.
  <2>8. /\ p <= Len(g) /\ idx \in p .. Len(g) /\ idx <= Hi(s)
        /\ \A y \in 1 .. p : g[y] = a[y]
        /\ \A y \in p + 1 .. idx : g[y] = Ent(s, y)
        /\ \E q : FromSeg(a, s, g, q) /\ me.commit_idx <= q
    <3>1. CASE first = n + 1
      <4>1. k = 0 /\ Len(g) = Len(a) /\ cut.log = a
        BY <1>1, <1>2, <2>1, <2>2, <2>3, <2>4, <3>1
      <4>2. g = a
        <5>1. \A y \in 1 .. Len(a) : g[y] = a[y]
          BY <2>3, <4>1
        <5> QED
          BY <1>1, <2>7, <4>1, <5>1
      <4>3. FromSeg(a, s, g, Len(a))
        BY <1>1, <4>2, FromSegSame
      <4>4. idx = p /\ p <= Len(g)
        BY <1>5, <1>7, <2>4, <4>1, <4>2
      <4> QED
        BY <1>1, <1>5, <1>7, <4>2, <4>3, <4>4
    <3>2. CASE first <= n
      <4>1. Len(cut.log) = p /\ Len(g) = p + k /\ k <= n - first + 1
        BY <2>1, <2>2, <2>3, <2>4, <3>2
      <4>2. idx = Len(g) /\ p <= Len(g) /\ Len(g) <= Hi(s)
        <5>1. first \in Nat /\ p = s.lo + first - 1 /\ p \in Nat
          BY <1>5
        <5>2. idx = p + k /\ k \in Nat
          BY <2>4
        <5> HIDE DEF g
        <5> QED
          BY ONLY <1>11, <4>1, <5>1, <5>2
      <4>3. \A y \in 1 .. p : g[y] = a[y]
        BY <2>1, <2>3, <4>1
      <4>4. ASSUME NEW y \in p + 1 .. Len(g) PROVE g[y] = Ent(s, y)
        <5>1. /\ y - p \in 1 .. k /\ p + (y - p) = y /\ y - p \in 1 .. Len(rest)
              /\ first + (y - p) - 1 = y - s.lo /\ y \in s.lo + 1 .. Hi(s)
          <6>1. first \in Nat /\ p = s.lo + first - 1 /\ p \in Nat /\ k \in Nat
            BY <1>5, <2>4
          <6>2. Len(rest) = n - first + 1
            BY <2>2
          <6> HIDE DEF g
          <6>3. y \in Nat /\ p + 1 <= y /\ y <= p + k /\ y <= Hi(s)
            BY <1>11, <4>1, <4>2, <6>1
          <6>4. y - p \in 1 .. k /\ p + (y - p) = y
            BY <6>1, <6>3
          <6>5. y - p \in 1 .. Len(rest)
            BY <1>11, <4>1, <6>1, <6>2, <6>4
          <6>6. first + (y - p) - 1 = y - s.lo
            <7>1. s.lo \in Int /\ first \in Int /\ y \in Int /\ p \in Int
              BY <1>11, <6>1, <6>3
            <7>2. p = s.lo + (first - 1)
              BY <6>1
            <7>3. \A l, f, v, q \in Int : q = l + (f - 1) => f + ((v - q) - 1) = v - l
              BY Shift
            <7>4. p = s.lo + (first - 1) => first + ((y - p) - 1) = y - s.lo
              BY ONLY <7>1, <7>3, ZenonT(20)
            <7> QED
              BY ONLY <7>2, <7>4
          <6>7. y \in s.lo + 1 .. Hi(s)
            <7>1. s.lo <= p /\ Hi(s) \in Nat
              BY <1>5, <1>11
            <7> QED
              BY <1>11, <6>1, <6>3, <7>1
          <6> QED
            BY <6>4, <6>5, <6>6, <6>7
        <5>2. g[p + (y - p)] = rest[y - p]
          BY <2>3, <4>1, <5>1
        <5>3. rest[y - p] = ae.entries[first + (y - p) - 1]
          BY <2>2, <5>1
        <5> QED
          BY <1>2, <5>1, <5>2, <5>3
      <4>5. p = Len(a) \/ (p + 1 \in s.lo .. Hi(s) /\ a[p + 1].term # Tm(s, p + 1))
        <5>1. CASE ~conflict
          BY <2>1, <3>2, <5>1
        <5>2. CASE conflict
          <6>1. ~Known(first)
            BY <1>4, <1>5, <1>11, <3>2
          <6>2. /\ p + 1 \in 1 .. Len(a) /\ p + 1 \in s.lo + 1 .. Hi(s)
                /\ p + 1 - s.lo = first
            <7>1. p + 1 \in 1 .. Len(a)
              BY <2>1, <5>2
            <7>2. first \in Nat /\ p = s.lo + first - 1 /\ p \in Nat /\ s.lo <= p
              BY <1>5
            <7> QED
              BY ONLY <1>11, <3>2, <7>1, <7>2
          <6>3. a[p + 1].term # ae.entries[first].term
            BY <1>1, <1>5, <6>1, <6>2
          <6>4. Tm(s, p + 1) = ae.entries[first].term
            <7> DEFINE z == p + 1
            <7>1. z \in s.lo + 1 .. Hi(s) /\ z - s.lo = first
              <8>1. s.lo \in Int /\ first \in Int /\ p = s.lo + (first - 1)
                BY <1>5, <1>11
              <8> QED
                BY <6>2, <8>1, Shift
            <7> HIDE DEF z
            <7>2. Tm(s, z) = ae.entries[first].term
              BY <1>2, <7>1
            <7> QED
              BY <7>2 DEF z
          <6>5. p + 1 \in s.lo .. Hi(s)
            BY <1>11, <6>2
          <6> QED
            BY <6>3, <6>4, <6>5
        <5> QED
          BY <5>1, <5>2
      <4>6. FromSeg(a, s, g, p)
        BY <1>6, <1>7, <4>2, <4>3, <4>4, <4>5 DEF FromSeg
      <4>7. me.commit_idx <= p
        BY <1>1, <2>1, <3>2
      <4> QED
        BY <1>5, <2>4, <4>2, <4>3, <4>4, <4>6, <4>7
    <3> QED
      BY <1>2, <1>4, <3>1, <3>2
  <2>9. Follows(g, s, idx)
    BY <1>1, <1>2, <1>6, <1>7, <2>7, <2>8, FollowsOn
  <2>10. b = Answer(done, ae, TRUE, idx) /\ idx \in Nat
    <3>1. b = Answer(done, ae, TRUE, idx)
      BY <1>3, <1>9 DEF idx
    <3>2. idx \in Nat
      BY <1>5, <2>4
    <3> QED
      BY <3>1, <3>2
  <2>11. Follows(done.log, MsgSeg(ae), idx)
    BY <2>6, <2>9 DEF s
  <2> HIDE DEF done, g
  <2>12. /\ WellTyped(i, b) /\ SameLog(done, b)
         /\ b.commit_idx = done.commit_idx /\ b.fsm = done.fsm
         /\ \A m \in b.out : m \notin done.out => Reply(i, b, ae, m)
    <3>1. \A success \in BOOLEAN :
             (success = TRUE => Follows(done.log, MsgSeg(ae), idx)) =>
          LET c == Answer(done, ae, success, idx)
          IN  /\ WellTyped(i, c) /\ SameLog(done, c)
              /\ c.commit_idx = done.commit_idx /\ c.fsm = done.fsm
              /\ \A m \in c.out : m \notin done.out => Reply(i, c, ae, m)
      <4>1. WellTyped(i, done) /\ idx \in Nat
        BY <2>5, <2>10
      <4>2. ASSUME NEW success \in BOOLEAN
            PROVE  LET c == Answer(done, ae, success, idx)
                   IN  /\ WellTyped(i, c) /\ SameLog(done, c)
                       /\ c.commit_idx = done.commit_idx /\ c.fsm = done.fsm
        BY <4>1, AnswerTyped
      <4>3. ASSUME NEW success \in BOOLEAN,
                   success = TRUE => Follows(done.log, MsgSeg(ae), idx)
            PROVE  LET c == Answer(done, ae, success, idx)
                   IN  \A m \in c.out : m \notin done.out => Reply(i, c, ae, m)
        BY <4>1, <4>3, AnswerReply
      <4> QED
        BY <4>2, <4>3
    <3>2. LET c == Answer(done, ae, TRUE, idx)
          IN  /\ WellTyped(i, c) /\ SameLog(done, c)
              /\ c.commit_idx = done.commit_idx /\ c.fsm = done.fsm
              /\ \A m \in c.out : m \notin done.out => Reply(i, c, ae, m)
      BY <2>11, <3>1
    <3> QED
      BY <2>10, <3>2
  <2>13. b.log = g /\ b.state = me.state /\ b.current_term = me.current_term
    BY <2>6, <2>12 DEF SameLog, g
  <2>14. done.out \subseteq me.out
    BY <2>1, <2>3, <2>5
  <2>15. LearnsCommit(me, ae, b)
    <3>1. ~(added < Len(rest)) => idx = Hi(s)
      <4>1. first \in Nat /\ p = s.lo + first - 1 /\ k \in 0 .. Len(rest)
        BY <1>5, <2>3
      <4>2. added = k /\ idx = p + k /\ Len(rest) = n - first + 1
        BY <2>2, <2>4
      <4> HIDE DEF added
      <4> QED
        BY ONLY <1>11, <4>1, <4>2
    <3>2. Follows(b.log, MsgSeg(ae), idx)
      BY <2>9, <2>13 DEF s
    <3>3. Follows(b.log, s, Hi(s)) \/ b.commit_idx = me.commit_idx
      BY <2>5, <2>12, <3>1, <3>2 DEF s
    <3> QED
      BY <2>5, <2>12, <3>3 DEF LearnsCommit, s
  <2>17. b.stopped # me.stopped => Conflicts(me, ae)
    <3>1. DOMAIN done = Fields
      BY <2>5 DEF WellTyped, ServerOK
    <3>2. \A success, x : Answer(done, ae, success, x).stopped = done.stopped
      BY <3>1, AnswerRuns
    <3>3. b.stopped = done.stopped
      BY <2>10, <3>2, Zenon
    <3>4. CASE added < Len(rest)
      <4>1. done = grown
        BY <3>4 DEF done
      <4> QED
        BY <2>16, <3>3, <4>1
    <3>5. CASE ~(added < Len(rest))
      <4>1. done = FollowCommit(grown, ae.leader_commit)
        BY <3>5 DEF done
      <4>2. idx = Hi(s)
        <5>1. first \in Nat /\ p = s.lo + first - 1 /\ k \in 0 .. Len(rest)
          BY <1>5, <2>3
        <5>2. added = k /\ idx = p + k /\ Len(rest) = n - first + 1
          BY <2>2, <2>4
        <5>3. ~(added < Len(rest))
          BY <3>5
        <5> HIDE DEF added
        <5> QED
          BY ONLY <1>11, <5>1, <5>2, <5>3
      <4>3. Hi(s) <= Len(grown.log)
        BY <1>11, <2>4, <2>8, <4>2 DEF g
      <4>4. CASE ae.leader_commit <= Hi(s)
        <5>1. ae.leader_commit \in Nat /\ ae.leader_commit <= Len(grown.log)
          BY <1>2, <1>11, <2>4, <4>3, <4>4
        <5>2. FollowCommit(grown, ae.leader_commit).stopped = grown.stopped
          BY <2>3, <5>1, FollowRuns
        <5> QED
          BY <2>16, <3>3, <4>1, <5>2
      <4>5. CASE ~(ae.leader_commit <= Hi(s))
        BY <1>2, <1>11, <4>5 DEF Conflicts, s
      <4> QED
        BY <4>4, <4>5
    <3> QED
      BY <3>4, <3>5
  <2> QED
    <3>1. \E q : FromSeg(a, MsgSeg(ae), b.log, q) /\ me.commit_idx <= q
      BY <2>8, <2>13 DEF s, g
    <3>2. \A m \in b.out : m \notin me.out => Reply(i, b, ae, m)
      BY <2>12, <2>14
    <3> QED
      BY <2>5, <2>12, <2>13, <2>15, <2>17, <3>1, <3>2 DEF Handled
<1> QED
  BY <1>8, <1>9

LEMMA CheckPrevHandled ==
    ASSUME NEW i \in Server, NEW me, WellTyped(i, me), me.cb.log_offer \in Nat,
           NEW ae, ae.src \in Server, AppendTyped(ae), ae.src # i
    PROVE  /\ 0 < ae.prev_log_idx => Handled(i, me, ae, CheckPrev(me, ae))
           /\ ae.prev_log_idx = 0 => Handled(i, me, ae, AcceptEntries(me, ae))
<1> DEFINE a == me.log
           s == MsgSeg(ae)
           x == ae.prev_log_idx
           cut == raft_delete_entry_from_idx(me, x)
<1>1. /\ a \in Seq(Entries) /\ Len(a) \in Nat /\ me.commit_idx \in Nat
      /\ me.commit_idx <= Len(a) /\ me.snap = [idx |-> 0, term |-> 0]
      /\ \A y : HasEntry(me, y) <=> y \in 1 .. Len(a)
      /\ \A y \in 1 .. Len(a) : EntryAt(me, y) = a[y]
  BY CurrentIdx DEF WellTyped, Typed
<1>2. Segment(s) /\ s.lo = x /\ s.term = ae.prev_log_term
  BY DEF AppendTyped, MsgSeg
<1>3. /\ Tm(LogSeg(a), 0) = 0
      /\ \A y \in 1 .. Len(a) : Tm(LogSeg(a), y) = a[y].term
  BY <1>1, LogSegFacts
<1>4. x \in Nat /\ Hi(s) \in Nat /\ x <= Hi(s) /\ Tm(s, x) = ae.prev_log_term
  BY <1>2, SegmentFacts
<1>5. ASSUME x <= Len(a), Tm(LogSeg(a), x) = ae.prev_log_term
      PROVE  Handled(i, me, ae, AcceptEntries(me, ae))
  <2>1. \A y \in s.lo .. x : y = x
    BY <1>2, <1>4
  <2>2. Follows(a, s, x)
    BY <1>2, <1>4, <1>5, <2>1 DEF Follows
  <2> QED
    BY <2>2, AcceptHandled
<1>6. CASE x = 0
  <2>1. ae.prev_log_term = 0
    BY <1>2, <1>6 DEF Segment
  <2> QED
    BY <1>1, <1>3, <1>4, <1>5, <1>6, <2>1
<1>7. CASE 0 < x
  <2>1. me.snap.idx = 0 /\ x # 0
    BY <1>1, <1>7
  <2>2. CASE ~HasEntry(me, x)
    <3>1. CheckPrev(me, ae) = Refuse(me, ae)
      BY <2>1, <2>2 DEF CheckPrev
    <3> QED
      BY <1>7, <2>1, <3>1, RefuseHandled
  <2>3. CASE HasEntry(me, x) /\ a[x].term = ae.prev_log_term
    <3>1. x \in 1 .. Len(a) /\ EntryAt(me, x) = a[x]
      BY <1>1, <2>3
    <3>2. CheckPrev(me, ae) = AcceptEntries(me, ae)
      BY <2>1, <2>3, <3>1 DEF CheckPrev
    <3>3. Handled(i, me, ae, AcceptEntries(me, ae))
      BY <1>1, <1>3, <1>5, <2>3, <3>1
    <3> QED
      BY <2>1, <3>2, <3>3
  <2>4. CASE HasEntry(me, x) /\ a[x].term # ae.prev_log_term
    <3>1. x \in 1 .. Len(a) /\ EntryAt(me, x) = a[x]
      BY <1>1, <2>4
    <3>2. CASE x <= me.commit_idx
      <4>1. CheckPrev(me, ae) = Abort(me, "prev conflicts with committed entry")
        BY <2>1, <2>4, <3>1, <3>2 DEF CheckPrev
      <4>2. Conflicts(me, ae)
        <5>1. x \in s.lo .. Hi(s) /\ x \in 1 .. me.commit_idx /\ a[x].term # Tm(s, x)
          BY <1>1, <1>2, <1>4, <2>4, <3>1, <3>2
        <5> QED
          BY <5>1 DEF Conflicts
      <4> QED
        BY <2>1, <4>1, <4>2, AbortHandled
    <3>3. CASE ~(x <= me.commit_idx)
      <4>1. CheckPrev(me, ae) = Refuse(cut, ae)
        BY <2>1, <2>4, <3>1, <3>3 DEF CheckPrev
      <4>2. me.commit_idx < x /\ x - 1 \in 0 .. Len(a) /\ x - 1 + 1 = x
        BY <1>1, <1>4, <3>1, <3>3
      <4>3. /\ WellTyped(i, cut) /\ cut.out = me.out /\ cut.fsm = me.fsm
            /\ cut.state = me.state /\ cut.current_term = me.current_term
            /\ cut.commit_idx = me.commit_idx
            /\ Len(cut.log) = x - 1
            /\ \A y \in 1 .. x - 1 : cut.log[y] = a[y]
        <5>1. x \in 1 .. Len(me.log) /\ me.commit_idx < x
          BY <3>1, <4>2
        <5> HIDE DEF x
        <5> QED
          BY <5>1, DeleteLog
      <4>10. cut.stopped = me.stopped
        BY <4>2, DeleteRuns DEF WellTyped, ServerOK
      <4> DEFINE b == Refuse(cut, ae)
      <4> HIDE DEF cut
      <4>4. Handled(i, cut, ae, b)
        BY <4>3, RefuseHandled
      <4>5. SameLog(cut, b) /\ b.commit_idx = cut.commit_idx /\ b.stopped = cut.stopped
        <5>1. b = Answer(cut, ae, FALSE, raft_get_current_idx(cut))
          BY DEF Refuse
        <5>2. WellTyped(i, cut)
          BY <4>3
        <5>3. ASSUME NEW success \in BOOLEAN, NEW idx
              PROVE  LET c == Answer(cut, ae, success, idx)
                     IN  /\ SameLog(cut, c) /\ c.commit_idx = cut.commit_idx
                         /\ c.stopped = cut.stopped
          <6>1. DOMAIN cut = Fields
            BY <5>2 DEF WellTyped, ServerOK
          <6>2. Answer(cut, ae, success, idx).stopped = cut.stopped
            BY <6>1, AnswerRuns
          <6> QED
            BY <5>2, <6>2, AnswerTyped
        <5> HIDE DEF b
        <5> QED
          BY <5>1, <5>3
      <4> HIDE DEF b
      <4>6. b.log = cut.log
        BY <4>5 DEF SameLog
      <4>7. FromSeg(a, s, b.log, x - 1)
        <5>1. x \in s.lo .. Hi(s) /\ a[x].term # Tm(s, x)
          BY <1>2, <1>4, <2>4
        <5>2. ~(x - 1 < Len(b.log)) /\ x - 1 <= Len(b.log)
          BY <4>2, <4>3, <4>6
        <5> QED
          BY <4>2, <4>3, <4>6, <5>1, <5>2 DEF FromSeg
      <4>8. me.commit_idx <= x - 1
        BY <1>1, <1>4, <4>2
      <4>9. Handled(i, me, ae, b)
        BY <4>3, <4>4, <4>5, <4>7, <4>8, <4>10 DEF Handled, LearnsCommit
      <4> QED
        BY <2>1, <4>1, <4>9 DEF b
    <3> QED
      BY <3>2, <3>3
  <2> QED
    BY <2>2, <2>3, <2>4
<1> QED
  BY <1>4, <1>6, <1>7
-----------------------------------------------------------------------------
(* One call of the library at server i, which becomes b.                   *)

\* A leader stays in its term, and only a candidate becomes one.
RoleStep(i, b) ==
    /\ srv[i].current_term <= b.current_term
    /\ b.state = "leader" => /\ srv[i].current_term = b.current_term
                             /\ srv[i].state \in {"leader", "candidate"} \/ N = 1
    /\ b.state = "candidate" => \/ srv[i].current_term < b.current_term
                                \/ srv[i].state = "candidate"

\* A leader believes what it believed or what an answer in its term says.
MatchStep(i, b) ==
    b.state = "leader" =>
        \A k \in Server :
            \/ b.match_idx[k] = 0
            \/ srv[i].state = "leader" /\ b.match_idx[k] = srv[i].match_idx[k]
            \/ \E m \in net : /\ IsSuccess(m) /\ m.src = k /\ m.dst = i
                              /\ srv[i].state = "leader"
                              /\ m.term = srv[i].current_term
                              /\ m.current_idx = b.match_idx[k]

\* The log stays, or a leader appends an entry of its term, or a follower
\* takes over what an appendentries of its term carries.
Appends(i, b) ==
    /\ b.state = "leader" /\ srv[i].state = "leader"
    /\ \E e \in Entries : e.term = srv[i].current_term /\ b.log = Append(srv[i].log, e)

TakesOver(i, b) ==
    /\ b.state = "follower"
    /\ \E m \in net : /\ IsAppend(m) /\ m.dst = i /\ m.term = b.current_term
                      /\ \E p : /\ FromSeg(srv[i].log, MsgSeg(m), b.log, p)
                                /\ srv[i].commit_idx <= p

LogStep(i, b) == b.log = srv[i].log \/ Appends(i, b) \/ TakesOver(i, b)

\* What i sends.
Confirms(i, b, m) ==
    /\ b.state = "follower"
    /\ \E ae \in net : /\ IsAppend(ae) /\ ae.dst = i /\ ae.src = m.dst
                       /\ ae.term = b.current_term
                       /\ Follows(b.log, MsgSeg(ae), m.current_idx)

OutStep(i, b, m) ==
    /\ IsAppend(m) => Sends(b, m)
    /\ IsResponse(m) => ResponseTyped(m) /\ m.src = i /\ m.term = b.current_term
    /\ IsSuccess(m) => Confirms(i, b, m)

RepStep(i, b) ==
    /\ WellTyped(i, b) /\ RoleStep(i, b) /\ MatchStep(i, b) /\ LogStep(i, b)
    /\ \A m \in b.out : OutStep(i, b, m)

LEMMA TypedWith ==
    ASSUME ReplicationInv, NEW i \in Server, NEW cb
    PROVE  LET me == With(i, cb)
           IN  /\ WellTyped(i, srv[i]) /\ WellTyped(i, me) /\ SameLog(srv[i], me)
               /\ me.out = {} /\ me.cb = cb /\ me.commit_idx = srv[i].commit_idx
<1>1. ElectionInv /\ Typed(srv[i]) /\ ServerOK(i, srv[i])
  BY DEF ReplicationInv, ReplicationType, ElectionInv, ElectionType
<1>2. ServerOK(i, With(i, cb)) /\ With(i, cb).out = {} /\ With(i, cb).cb = cb
  BY <1>1, WithOK
<1>3. /\ Typed(With(i, cb)) /\ SameLog(srv[i], With(i, cb))
      /\ With(i, cb).commit_idx = srv[i].commit_idx
  BY <1>1 DEF With, ServerOK, Typed, SameLog, Fields
<1> QED
  BY <1>1, <1>2, <1>3 DEF WellTyped

LEMMA SentOut ==
    ASSUME NEW i, NEW b, NEW m, Sends(b, m)
    PROVE  OutStep(i, b, m)
BY DEF Sends, OutStep, IsSuccess

\* A call that only sends.
LEMMA CarriesRep ==
    ASSUME ReplicationInv, NEW i \in Server, NEW cb, NEW b,
           WellTyped(i, b), Carries(With(i, cb), b)
    PROVE  RepStep(i, b)
<1> DEFINE a == srv[i]
<1>1. SameLog(a, b) /\ \A m \in b.out : Sends(b, m)
  BY TypedWith DEF Carries, SameLog
<1>2. a.current_term \in Nat
  BY TypedWith DEF WellTyped, ServerOK
<1>3. RoleStep(i, b)
  BY <1>1, <1>2 DEF SameLog, RoleStep
<1>4. MatchStep(i, b) /\ LogStep(i, b)
  BY <1>1 DEF SameLog, MatchStep, LogStep
<1> QED
  BY <1>1, <1>3, <1>4, SentOut DEF RepStep

\* The fields of Typed other than the role are the same.
SameData(a, b) ==
    /\ b.id = a.id /\ b.log = a.log /\ b.fsm = a.fsm /\ b.base = a.base
    /\ b.front = a.front /\ b.size = a.size
    /\ b.last_applied_idx = a.last_applied_idx /\ b.commit_idx = a.commit_idx
    /\ b.next_idx = a.next_idx /\ b.match_idx = a.match_idx /\ b.snap = a.snap

LEMMA SameDataTyped ==
    ASSUME NEW a, NEW b, Typed(a), SameData(a, b),
           b.state \in {"follower", "candidate", "leader"},
           b.current_leader \in Server \cup {Nil}
    PROVE  Typed(b)
BY DEF Typed, SameData

\* A follower that has kept its log and answers nothing about it.
LEMMA FollowerRep ==
    ASSUME ReplicationInv, NEW i \in Server, NEW b, WellTyped(i, b),
           b.state = "follower", srv[i].current_term <= b.current_term,
           b.log = srv[i].log, \A m \in b.out : ~IsAppend(m) /\ ~IsResponse(m)
    PROVE  RepStep(i, b)
BY DEF RepStep, RoleStep, MatchStep, LogStep, OutStep, IsSuccess

LEMMA StepDownTyped ==
    ASSUME NEW i \in Server, NEW me, WellTyped(i, me), NEW t \in Nat, me.current_term < t
    PROVE  LET m == StepDown(me, t)
           IN  /\ WellTyped(i, m) /\ m.state = "follower" /\ m.current_term = t
               /\ m.log = me.log /\ m.out = me.out /\ m.cb = me.cb
<1> DEFINE m == StepDown(me, t)
<1>1. ServerOK(i, m) /\ m.state = "follower" /\ m.current_term = t /\ m.out = me.out
      /\ m.cb = me.cb
  BY StepDownOK DEF WellTyped
<1>2. DOMAIN me = Fields
  BY DEF WellTyped, ServerOK
<1>3. SameData(me, m) /\ m.current_leader = Nil
  BY <1>2 DEF StepDown, raft_become_follower, raft_set_current_term, SameData, Fields
<1> HIDE DEF m
<1>4. Typed(m)
  BY <1>1, <1>3, SameDataTyped DEF WellTyped
<1> QED
  BY <1>1, <1>3, <1>4 DEF WellTyped, SameData, m

LEMMA RefuseOut ==
    ASSUME NEW i \in Server, NEW me, WellTyped(i, me), NEW ae
    PROVE  \A m \in Refuse(me, ae).out : m \notin me.out => ~IsSuccess(m)
<1> DEFINE r == [type |-> "appendentries_response", src |-> me.id, dst |-> ae.src,
                 term |-> me.current_term, success |-> FALSE,
                 current_idx |-> raft_get_current_idx(me)]
<1>1. Refuse(me, ae).out = me.out \cup {r}
  BY DEF Refuse, Answer, WellTyped, ServerOK, Fields
<1>2. r.success = FALSE
  OBVIOUS
<1> HIDE DEF r
<1>3. ~IsSuccess(r)
  BY <1>2, Zenon DEF IsSuccess
<1> QED
  BY <1>1, <1>3
-----------------------------------------------------------------------------
(* The handlers.                                                           *)

LEMMA OfferNat ==
    ASSUME NEW cb \in Callbacks
    PROVE  cb.log_offer \in Nat
BY BoundAssumption DEF Callbacks

\* Nobody but i itself sends appendentries in the term that i leads.
LEMMA LeaderSends ==
    ASSUME ReplicationInv, NEW i \in Server, NEW m \in net, IsAppend(m),
           srv[i].state = "leader", m.term = srv[i].current_term
    PROVE  m.src = i
<1>1. <<m.term, m.src>> \in elected /\ <<m.term, i>> \in elected
  BY DEF ReplicationInv, Elected
<1> QED
  BY <1>1 DEF ReplicationInv, ElectionInv, ElectionSafety

LEMMA AppendEntriesRep ==
    ASSUME ReplicationInv, NEW i \in Server, NEW cb \in Callbacks, NEW ae \in net,
           IsAppend(ae), ae.dst = i
    PROVE  RepStep(i, raft_recv_appendentries(With(i, cb), ae))
<1> DEFINE me == With(i, cb)
           up == \/ me.current_term < ae.term
                 \/ me.state = "candidate" /\ me.current_term = ae.term
           t == raft_set_current_term(me, ae.term)
           m == IF up THEN raft_become_follower(t) ELSE me
           f == [m EXCEPT !.current_leader = ae.src, !.late = FALSE]
           b == raft_recv_appendentries(me, ae)
<1> SUFFICES RepStep(i, b)
  OBVIOUS
<1>1. /\ WellTyped(i, me) /\ SameLog(srv[i], me) /\ me.out = {} /\ me.cb = cb
      /\ me.commit_idx = srv[i].commit_idx
  BY TypedWith
<1>2. /\ ae.src \in Server /\ ae.term \in Nat /\ AppendTyped(ae) /\ ae.src # i
  BY DEF ReplicationInv, ElectionInv, ElectionType, Message, ReplicationType, AppendTyped
<1>3. \/ b = Refuse(me, ae)
      \/ /\ ~(ae.term < me.current_term)
         /\ \/ 0 < ae.prev_log_idx /\ b = CheckPrev(f, ae)
            \/ ~(0 < ae.prev_log_idx) /\ b = AcceptEntries(f, ae)
  BY DEF raft_recv_appendentries
<1>4. cb.log_offer \in Nat /\ me.current_term \in Nat /\ DOMAIN me = Fields
  BY <1>1, OfferNat DEF WellTyped, ServerOK
<1>5. srv[i].state = me.state /\ srv[i].current_term = me.current_term /\ srv[i].log = me.log
  BY <1>1 DEF SameLog
<1> HIDE DEF me, b
<1>6. CASE b = Refuse(me, ae)
  <2>1. Handled(i, me, ae, b)
    BY <1>1, <1>2, <1>6, RefuseHandled
  <2>2. SameLog(me, b)
    <3>1. \A success \in BOOLEAN : \A idx : SameLog(me, Answer(me, ae, success, idx))
      BY <1>1, <1>2, AnswerTyped
    <3> QED
      BY <1>6, <3>1 DEF Refuse
  <2>3. \A x \in b.out : Reply(i, b, ae, x) /\ ~IsSuccess(x)
    BY <1>1, <1>6, <2>1, RefuseOut DEF Handled
  <2>4. RoleStep(i, b) /\ MatchStep(i, b) /\ LogStep(i, b)
    BY <1>1, <1>4, <1>5, <2>2 DEF SameLog, RoleStep, MatchStep, LogStep
  <2>5. \A x \in b.out : OutStep(i, b, x)
    BY <2>3 DEF Reply, OutStep
  <2> QED
    BY <2>1, <2>4, <2>5 DEF RepStep, Handled
<1>7. CASE ~(ae.term < me.current_term) /\ Handled(i, f, ae, b)
  <2>1. f.state = "follower" /\ f.current_term = ae.term /\ f.log = me.log /\ f.out = {}
        /\ f.commit_idx = me.commit_idx
    <3>1. CASE up
      BY <1>1, <1>2, <1>4, <3>1, <1>7 DEF raft_become_follower, raft_set_current_term, Fields
    <3>2. CASE ~up
      <4>1. me.current_term = ae.term /\ me.state # "candidate"
        BY <1>2, <1>4, <1>7, <3>2
      <4>2. me.state # "leader"
        BY <1>2, <1>5, <4>1, LeaderSends
      <4>3. me.state = "follower"
        BY <1>1, <4>1, <4>2 DEF WellTyped, Typed
      <4> QED
        BY <1>1, <1>4, <3>2, <4>1, <4>3 DEF Fields
    <3> QED
      BY <3>1, <3>2
  <2> HIDE DEF f
  <2>2. WellTyped(i, b) /\ b.state = "follower" /\ b.current_term = ae.term
    BY <1>7, <2>1 DEF Handled
  <2>3. TakesOver(i, b)
    BY <1>1, <1>5, <1>7, <2>1, <2>2 DEF Handled, TakesOver
  <2>4. RoleStep(i, b) /\ MatchStep(i, b)
    BY <1>2, <1>4, <1>5, <1>7, <2>2 DEF RoleStep, MatchStep
  <2>5. ASSUME NEW x \in b.out PROVE OutStep(i, b, x)
    <3>1. Reply(i, b, ae, x)
      BY <1>7, <2>1 DEF Handled
    <3>2. IsSuccess(x) => Confirms(i, b, x)
      BY <2>2, <3>1 DEF Reply, Confirms
    <3> QED
      BY <3>1, <3>2 DEF Reply, OutStep
  <2> QED
    BY <2>2, <2>3, <2>4, <2>5 DEF RepStep, LogStep
<1>8. WellTyped(i, f) /\ f.cb = cb
  <2>1. CASE up
    <3>1. ServerOK(i, t) /\ t.cb = cb
      BY <1>1, <1>2, SetTermOK DEF WellTyped
    <3>2. SameData(me, t)
      BY <1>4 DEF raft_set_current_term, SameData, Fields
    <3> HIDE DEF t
    <3>3. ServerOK(i, f) /\ SameData(me, f) /\ f.cb = cb /\ f.state = "follower"
          /\ f.current_leader = ae.src
      BY <2>1, <3>1, <3>2 DEF raft_become_follower, ServerOK, SameData, Fields
    <3> HIDE DEF f
    <3> QED
      BY <1>1, <1>2, <3>3, SameDataTyped DEF WellTyped
  <2>2. CASE ~up
    <3>1. ServerOK(i, f) /\ SameData(me, f) /\ f.cb = cb /\ f.state = me.state
          /\ f.current_leader = ae.src
      BY <1>1, <2>2 DEF WellTyped, ServerOK, SameData, Fields
    <3>2. me.state \in {"follower", "candidate", "leader"}
      BY <1>1 DEF WellTyped, Typed
    <3> HIDE DEF f
    <3> QED
      BY <1>1, <1>2, <3>1, <3>2, SameDataTyped DEF WellTyped
  <2> QED
    BY <2>1, <2>2
<1> HIDE DEF f
<1>9. ae.prev_log_idx \in Nat
  BY <1>2 DEF AppendTyped, Segment, MsgSeg
<1> QED
  BY <1>2, <1>3, <1>4, <1>6, <1>7, <1>8, <1>9, CheckPrevHandled

LEMMA AppendEntriesResponseRep ==
    ASSUME ReplicationInv, NEW i \in Server, NEW cb, NEW r \in net,
           IsResponse(r), r.dst = i
    PROVE  RepStep(i, raft_recv_appendentries_response(With(i, cb), r))
<1> DEFINE me == With(i, cb)
           k == r.src
           x == r.current_idx
           n == [raft_node_set_next_idx(me, k, x + 1) EXCEPT !.match_idx[k] = x]
           m == raft_leader_commit(n, x)
           b == raft_recv_appendentries_response(me, r)
<1> SUFFICES RepStep(i, b)
  OBVIOUS
<1>1. /\ WellTyped(i, me) /\ SameLog(srv[i], me) /\ me.out = {}
  BY TypedWith
<1>2. k \in Server /\ k # i /\ x \in Nat /\ r.term \in Nat
  BY DEF ReplicationInv, ElectionInv, ElectionType, Message, ReplicationType, ResponseTyped
<1>3. \/ b = me
      \/ me.current_term < r.term /\ b = StepDown(me, r.term)
      \/ me.state = "leader" /\ b = BackOff(me, k, r)
      \/ b = Abort(me, "response beyond log")
      \/ /\ me.state = "leader" /\ me.current_term = r.term /\ r.success
         /\ b = raft_send_appendentries(m, {k}) \/ b = m
  BY Zenon DEF raft_recv_appendentries_response
<1>4. srv[i].state = me.state /\ srv[i].current_term = me.current_term
      /\ srv[i].match_idx = me.match_idx /\ srv[i].log = me.log
      /\ DOMAIN me = Fields /\ me.current_term \in Nat
  BY <1>1 DEF SameLog, WellTyped, ServerOK
<1>5. CASE b = me
  BY <1>1, <1>5, CarriesRefl, CarriesRep
<1>6. CASE me.current_term < r.term /\ b = StepDown(me, r.term)
  <2> HIDE DEF me, b
  <2>1. /\ WellTyped(i, b) /\ b.state = "follower" /\ b.current_term = r.term
        /\ b.log = me.log /\ b.out = {}
    BY <1>1, <1>2, <1>6, StepDownTyped
  <2> QED
    BY <1>2, <1>4, <1>6, <2>1, FollowerRep
<1>7. CASE me.state = "leader" /\ b = BackOff(me, k, r)
  BY <1>1, <1>2, <1>7, BackOffCarries, CarriesRep
<1>8. CASE b = Abort(me, "response beyond log")
  BY <1>1, <1>8, AbortCarries, CarriesRep
<1>9. CASE /\ me.state = "leader" /\ me.current_term = r.term /\ r.success
           /\ b = raft_send_appendentries(m, {k}) \/ b = m
  <2> HIDE DEF me, b
  <2> DEFINE next == [me.next_idx EXCEPT ![k] = Greater(x + 1, 1)]
             match == [me.match_idx EXCEPT ![k] = x]
  <2>1. n = [me EXCEPT !.next_idx = next, !.match_idx = match]
    BY <1>4 DEF raft_node_set_next_idx, Fields
  <2>2. next \in [Server -> Nat \ {0}] /\ match \in [Server -> Nat] /\ match[me.id] = 0
    <3>1. Greater(x + 1, 1) \in Nat \ {0}
      BY <1>2 DEF Greater
    <3>2. me.id = i /\ me.next_idx \in [Server -> Nat \ {0}]
          /\ me.match_idx \in [Server -> Nat] /\ me.match_idx[i] = 0
      BY <1>1 DEF WellTyped, ServerOK, Typed
    <3> QED
      BY <1>2, <3>1, <3>2
  <2>3. \A j \in Server : match[j] = IF j = k THEN x ELSE me.match_idx[j]
    BY <1>1, <1>2 DEF WellTyped, Typed
  <2> HIDE DEF n, next, match
  <2>4. WellTyped(i, n) /\ n.state = "leader" /\ n.out = {} /\ n.match_idx = match
        /\ n.log = me.log /\ n.current_term = me.current_term
    BY <1>1, <1>9, <2>1, <2>2 DEF WellTyped, ServerOK, Typed, Fields
  <2>5. WellTyped(i, m) /\ Carries(n, m)
    BY <1>2, <2>4, LeaderCommitCarries
  <2> HIDE DEF m
  <2>6. WellTyped(i, b) /\ Carries(n, b)
    <3>1. m.state = "leader" /\ {k} \in SUBSET (Server \ {i})
      BY <1>2, <2>4, <2>5 DEF Carries, SameLog
    <3>2. /\ WellTyped(i, raft_send_appendentries(m, {k}))
          /\ Carries(m, raft_send_appendentries(m, {k}))
      BY <2>5, <3>1, SendCarries
    <3> QED
      BY <1>9, <2>5, <3>2, CarriesTrans
  <2>7. /\ b.state = "leader" /\ b.log = me.log /\ b.current_term = me.current_term
        /\ b.match_idx = match /\ \A y \in b.out : Sends(b, y)
    BY <2>4, <2>6 DEF Carries, SameLog
  <2>8. MatchStep(i, b)
    <3>1. IsSuccess(r)
      BY <1>9 DEF IsSuccess
    <3>2. \A j \in Server : b.match_idx[j] = IF j = k THEN x ELSE srv[i].match_idx[j]
      BY <1>4, <2>3, <2>7
    <3>3. srv[i].state = "leader" /\ r.term = srv[i].current_term
      BY <1>4, <1>9
    <3> QED
      BY <3>1, <3>2, <3>3 DEF MatchStep
  <2>9. RoleStep(i, b) /\ LogStep(i, b)
    BY <1>4, <1>9, <2>7 DEF RoleStep, LogStep
  <2> QED
    BY <2>6, <2>7, <2>8, <2>9, SentOut DEF RepStep
<1> QED
  BY <1>3, <1>5, <1>6, <1>7, <1>8, <1>9

LEMMA VoteAnswerCarries ==
    ASSUME NEW i \in Server, NEW me, WellTyped(i, me), NEW vr, vr.src \in Server,
           NEW granted
    PROVE  LET b == VoteAnswer(me, vr, granted)
           IN  /\ WellTyped(i, b) /\ Carries(me, b)
               /\ \A m \in b.out : m \notin me.out => ~IsAppend(m) /\ ~IsResponse(m)
<1> DEFINE r == [type |-> "requestvote_response", src |-> me.id, dst |-> vr.src,
                 term |-> me.current_term, vote_granted |-> granted]
           b == [me EXCEPT !.out = @ \cup {r}]
<1>1. VoteAnswer(me, vr, granted) = b
  BY DEF VoteAnswer
<1>2. ~IsAppend(r) /\ ~IsResponse(r)
  BY DEF IsAppend, IsResponse
<1> HIDE DEF r
<1>3. DOMAIN me = Fields
  BY DEF WellTyped, ServerOK
<1>4. ServerOK(i, b) /\ SameData(me, b) /\ b.out = me.out \cup {r} /\ b.state = me.state
      /\ b.current_leader = me.current_leader /\ SameLog(me, b)
  BY <1>3 DEF WellTyped, ServerOK, SameData, SameLog, Fields
<1> HIDE DEF b
<1>5. Typed(b)
  BY <1>4, SameDataTyped DEF WellTyped, Typed
<1> QED
  BY <1>1, <1>2, <1>4, <1>5 DEF WellTyped, Carries, Sends

LEMMA RequestVoteRep ==
    ASSUME ReplicationInv, NEW i \in Server, NEW cb, NEW vr \in net, vr.dst = i
    PROVE  RepStep(i, raft_recv_requestvote(With(i, cb), vr))
<1> DEFINE me == With(i, cb)
           m == IF me.current_term < vr.term THEN StepDown(me, vr.term) ELSE me
           v == raft_vote_for_nodeid(m, vr.src)
           w == [v EXCEPT !.current_leader = Nil, !.late = FALSE]
           b == raft_recv_requestvote(me, vr)
<1> SUFFICES RepStep(i, b)
  OBVIOUS
<1>1. WellTyped(i, me) /\ SameLog(srv[i], me) /\ me.out = {}
  BY TypedWith
<1>2. vr.src \in Server /\ vr.term \in Nat
  BY DEF ReplicationInv, ElectionInv, ElectionType, Message
<1>3. \/ b = VoteAnswer(me, vr, FALSE)
      \/ b = VoteAnswer(m, vr, FALSE)
      \/ b = Abort(m, "leader or candidate grants")
      \/ m.state = "follower" /\ b = VoteAnswer(w, vr, m.cb.persist_vote)
  BY DEF raft_recv_requestvote
<1>4. /\ srv[i].current_term = me.current_term /\ srv[i].log = me.log
      /\ me.current_term \in Nat
  BY <1>1 DEF SameLog, WellTyped, ServerOK
<1>5. /\ WellTyped(i, m) /\ m.out = {} /\ m.log = me.log
      /\ me.current_term <= m.current_term
      /\ m = me \/ m.state = "follower"
  <2>1. CASE me.current_term < vr.term
    <3> HIDE DEF me
    <3> QED
      BY <1>1, <1>2, <1>4, <2>1, StepDownTyped
  <2>2. CASE ~(me.current_term < vr.term)
    BY <1>1, <1>4, <2>2
  <2> QED
    BY <2>1, <2>2
\* Whatever m sends, it is a call that only sends or that of a follower.
<1>6. ASSUME WellTyped(i, b), Carries(m, b),
             \A x \in b.out : ~IsAppend(x) /\ ~IsResponse(x)
      PROVE  RepStep(i, b)
  <2>1. CASE m = me
    BY <1>6, <2>1, CarriesRep
  <2>2. CASE m.state = "follower"
    <3>1. b.state = "follower" /\ b.log = srv[i].log /\ srv[i].current_term <= b.current_term
      BY <1>4, <1>5, <1>6, <2>2 DEF Carries, SameLog
    <3> QED
      BY <1>6, <3>1, FollowerRep
  <2> QED
    BY <1>5, <2>1, <2>2
<1> HIDE DEF m, b
<1>7. CASE b = VoteAnswer(me, vr, FALSE)
  <2> HIDE DEF me
  <2>1. WellTyped(i, b) /\ Carries(me, b)
    BY <1>1, <1>2, <1>7, VoteAnswerCarries
  <2> QED
    BY <2>1, CarriesRep DEF me
<1>8. CASE b = VoteAnswer(m, vr, FALSE)
  BY <1>2, <1>5, <1>6, <1>8, VoteAnswerCarries
<1>9. CASE b = Abort(m, "leader or candidate grants")
  <2>1. WellTyped(i, b) /\ Carries(m, b)
    BY <1>5, <1>9, AbortCarries
  <2>2. b.out = {}
    BY <1>5, <1>9 DEF Abort, WellTyped, ServerOK, Fields
  <2> QED
    BY <1>6, <2>1, <2>2
<1>10. CASE m.state = "follower" /\ b = VoteAnswer(w, vr, m.cb.persist_vote)
  <2>1. ServerOK(i, v) /\ v.out = {} /\ v.state = "follower"
        /\ v.current_term = m.current_term
    BY <1>2, <1>5, <1>10, VoteOK DEF WellTyped
  <2>2. SameData(m, v)
    BY <1>5 DEF raft_vote_for_nodeid, SameData, WellTyped, ServerOK, Fields
  <2> HIDE DEF v
  <2>3. /\ ServerOK(i, w) /\ SameData(m, w) /\ w.out = {} /\ w.state = "follower"
        /\ w.current_term = m.current_term /\ w.current_leader = Nil
    BY <2>1, <2>2 DEF ServerOK, SameData, Fields
  <2> HIDE DEF w
  <2>4. WellTyped(i, w)
    BY <1>5, <2>3, SameDataTyped DEF WellTyped
  <2>5. /\ WellTyped(i, b) /\ Carries(w, b)
        /\ \A x \in b.out : ~IsAppend(x) /\ ~IsResponse(x)
    <3> DEFINE c == m.cb.persist_vote
    <3>1. b = VoteAnswer(w, vr, c)
      BY <1>10
    <3> HIDE DEF c
    <3> QED
      BY <1>2, <2>3, <2>4, <3>1, VoteAnswerCarries
  <2>6. b.state = "follower" /\ b.log = srv[i].log /\ srv[i].current_term <= b.current_term
    BY <1>4, <1>5, <2>3, <2>5 DEF Carries, SameLog, SameData
  <2> QED
    BY <2>5, <2>6, FollowerRep
<1> QED
  BY <1>3, <1>7, <1>8, <1>9, <1>10

\* A new leader believes nothing about the others and sends them appendentries.
LEMMA LeaderTyped ==
    ASSUME NEW i \in Server, NEW me, WellTyped(i, me), me.out = {}
    PROVE  LET b == raft_become_leader(me)
           IN  /\ WellTyped(i, b) /\ b.state = "leader" /\ b.log = me.log
               /\ b.current_term = me.current_term
               /\ \A k \in Server : b.match_idx[k] = 0
               /\ \A m \in b.out : Sends(b, m)
<1> DEFINE next == [k \in Server |-> IF k = me.id THEN me.next_idx[k]
                                     ELSE raft_get_current_idx(me) + 1]
           match == [k \in Server |-> IF k = me.id THEN me.match_idx[k] ELSE 0]
           m == [me EXCEPT !.state = "leader", !.current_leader = me.id, !.late = FALSE,
                           !.next_idx = next, !.match_idx = match]
           b == raft_become_leader(me)
<1>1. DOMAIN me = Fields /\ me.id = i
  BY DEF WellTyped, ServerOK
<1>2. b = raft_send_appendentries(m, Peers(me))
  BY <1>1 DEF raft_become_leader, Fields
<1>3. next \in [Server -> Nat \ {0}]
  <2>1. raft_get_current_idx(me) + 1 \in Nat \ {0}
    BY CurrentIdx DEF WellTyped
  <2> QED
    BY <2>1 DEF WellTyped, Typed
<1>4. match \in [Server -> Nat] /\ \A k \in Server : match[k] = 0
  BY <1>1 DEF WellTyped, Typed
<1> HIDE DEF next, match
<1>5. /\ DOMAIN m = Fields /\ m.id = i /\ m.state = "leader" /\ m.current_leader = i
      /\ m.out = {} /\ m.log = me.log /\ m.current_term = me.current_term
      /\ m.next_idx = next /\ m.match_idx = match /\ m.fsm = me.fsm
      /\ m.base = me.base /\ m.front = me.front /\ m.size = me.size
      /\ m.last_applied_idx = me.last_applied_idx /\ m.commit_idx = me.commit_idx
      /\ m.snap = me.snap /\ m.voted_for = me.voted_for /\ m.votes = me.votes
      /\ m.disk = me.disk /\ m.snapshot_in_progress = me.snapshot_in_progress
  BY <1>1 DEF Fields
<1> HIDE DEF m, b
<1>6. WellTyped(i, m)
  <2>1. ServerOK(i, m)
    BY <1>5 DEF WellTyped, ServerOK
  <2>2. Typed(m)
    BY <1>3, <1>4, <1>5 DEF WellTyped, Typed
  <2> QED
    BY <2>1, <2>2 DEF WellTyped
<1>7. Peers(me) \in SUBSET (Server \ {i})
  BY <1>1 DEF Peers
<1>8. WellTyped(i, b) /\ Carries(m, b)
  BY <1>2, <1>5, <1>6, <1>7, SendCarries
<1> QED
  BY <1>4, <1>5, <1>8 DEF Carries, SameLog, b

LEMMA LeaderRep ==
    ASSUME ReplicationInv, NEW i \in Server, NEW b, WellTyped(i, b), b.state = "leader",
           b.log = srv[i].log, b.current_term = srv[i].current_term,
           srv[i].state = "candidate" \/ N = 1,
           \A k \in Server : b.match_idx[k] = 0, \A m \in b.out : Sends(b, m)
    PROVE  RepStep(i, b)
<1>1. b.current_term \in Nat
  BY DEF WellTyped, ServerOK
<1> QED
  BY <1>1, SentOut DEF RepStep, RoleStep, MatchStep, LogStep

LEMMA RequestVoteResponseRep ==
    ASSUME ReplicationInv, NEW i \in Server, NEW cb, NEW r \in net, r.dst = i
    PROVE  RepStep(i, raft_recv_requestvote_response(With(i, cb), r))
<1> DEFINE me == With(i, cb)
           m == [me EXCEPT !.votes = @ \cup {r.src}]
           b == raft_recv_requestvote_response(me, r)
<1> SUFFICES RepStep(i, b)
  OBVIOUS
<1>1. WellTyped(i, me) /\ SameLog(srv[i], me) /\ me.out = {}
  BY TypedWith
<1>2. r.src \in Server /\ r.term \in Nat
  BY DEF ReplicationInv, ElectionInv, ElectionType, Message
<1>3. \/ b = me
      \/ me.current_term < r.term /\ b = StepDown(me, r.term)
      \/ b = m
      \/ me.state = "candidate" /\ b = raft_become_leader(m)
  BY DEF raft_recv_requestvote_response
<1>4. /\ srv[i].current_term = me.current_term /\ srv[i].log = me.log
      /\ srv[i].state = me.state /\ me.current_term \in Nat /\ DOMAIN me = Fields
  BY <1>1 DEF SameLog, WellTyped, ServerOK
<1>5. ServerOK(i, m) /\ SameData(me, m) /\ SameLog(me, m) /\ m.out = {}
      /\ m.state = me.state /\ m.current_leader = me.current_leader
  BY <1>1, <1>2, <1>4 DEF WellTyped, ServerOK, SameData, SameLog, Fields
<1> HIDE DEF m, b
<1>6. WellTyped(i, m)
  BY <1>1, <1>5, SameDataTyped DEF WellTyped, Typed
<1>7. CASE b = me
  BY <1>1, <1>7, CarriesRefl, CarriesRep
<1>8. CASE me.current_term < r.term /\ b = StepDown(me, r.term)
  <2> HIDE DEF me
  <2>1. /\ WellTyped(i, b) /\ b.state = "follower" /\ b.current_term = r.term
        /\ b.log = me.log /\ b.out = {}
    BY <1>1, <1>2, <1>8, StepDownTyped
  <2> QED
    BY <1>2, <1>4, <1>8, <2>1, FollowerRep
<1>9. CASE b = m
  <2>1. Carries(me, m)
    BY <1>5 DEF Carries
  <2> QED
    BY <1>6, <1>9, <2>1, CarriesRep
<1>10. CASE me.state = "candidate" /\ b = raft_become_leader(m)
  <2>1. /\ WellTyped(i, b) /\ b.state = "leader" /\ b.log = m.log
        /\ b.current_term = m.current_term
        /\ \A k \in Server : b.match_idx[k] = 0
        /\ \A x \in b.out : Sends(b, x)
    BY <1>5, <1>6, <1>10, LeaderTyped
  <2> QED
    BY <1>4, <1>5, <1>10, <2>1, LeaderRep DEF SameLog
<1> QED
  BY <1>3, <1>7, <1>8, <1>9, <1>10

LEMMA CandidateTyped ==
    ASSUME NEW i \in Server, NEW me, WellTyped(i, me), me.out = {},
           ~TermNotPersisted(me, me.current_term + 1)
    PROVE  LET b == raft_become_candidate(me)
           IN  /\ WellTyped(i, b) /\ b.state = "candidate" /\ b.log = me.log
               /\ b.current_term = me.current_term + 1
               /\ \A m \in b.out : ~IsAppend(m) /\ ~IsResponse(m)
<1> DEFINE t == raft_set_current_term(me, me.current_term + 1)
           e == [t EXCEPT !.votes = {}]
           m == raft_vote_for_nodeid(e, me.id)
           c == [m EXCEPT !.current_leader = Nil, !.state = "candidate", !.late = FALSE]
           asked == {raft_send_requestvote(c, k) : k \in Peers(c)}
           b == raft_become_candidate(me)
<1>1. ServerOK(i, b) /\ b.state = "candidate" /\ b.current_term = me.current_term + 1
  BY CandidateOK DEF WellTyped
<1>2. b = [c EXCEPT !.out = @ \cup asked]
  BY DEF raft_become_candidate
<1>3. DOMAIN me = Fields
  BY DEF WellTyped, ServerOK
<1>4. DOMAIN t = Fields /\ SameData(me, t) /\ t.out = {}
  BY <1>3 DEF raft_set_current_term, SameData, Fields
<1> HIDE DEF t
<1>5. DOMAIN m = Fields /\ SameData(me, m) /\ m.out = {}
  BY <1>4 DEF raft_vote_for_nodeid, SameData, Fields
<1> HIDE DEF m
<1>6. DOMAIN c = Fields /\ SameData(me, c) /\ c.out = {} /\ c.current_leader = Nil
  BY <1>5 DEF SameData, Fields
<1> HIDE DEF c
<1>7. \A x \in asked : ~IsAppend(x) /\ ~IsResponse(x)
  BY DEF raft_send_requestvote, IsAppend, IsResponse
<1> HIDE DEF asked
<1>8. SameData(me, b) /\ b.out = asked /\ b.current_leader = Nil
  BY <1>2, <1>6 DEF SameData, Fields
<1> HIDE DEF b
<1>9. Typed(b)
  BY <1>1, <1>8, SameDataTyped DEF WellTyped
<1> QED
  BY <1>1, <1>7, <1>8, <1>9 DEF WellTyped, SameData, b

LEMMA PeriodicRep ==
    ASSUME ReplicationInv, NEW i \in Server, NEW cb, NEW timer
    PROVE  RepStep(i, raft_periodic(With(i, cb), timer))
<1> DEFINE me == With(i, cb)
           l == raft_become_leader(me)
           s == raft_send_appendentries_all(me)
           m == [me EXCEPT !.late = me.current_leader # Nil /\ timer # "early"]
           c == raft_become_candidate(m)
           b == raft_periodic(me, timer)
<1> SUFFICES RepStep(i, b)
  OBVIOUS
<1>1. WellTyped(i, me) /\ SameLog(srv[i], me) /\ me.out = {}
  BY TypedWith
<1>2. \/ N = 1 /\ b = raft_apply_all(l)
      \/ me.state = "leader" /\ b = raft_apply_all(s)
      \/ b = raft_apply_all(me)
      \/ b = raft_apply_all(m)
      \/ b = m
      \/ /\ ~TermNotPersisted(m, m.current_term + 1)
         /\ b = raft_apply_all(c)
  BY DEF raft_periodic
<1>3. /\ srv[i].current_term = me.current_term /\ srv[i].log = me.log
      /\ me.current_term \in Nat /\ DOMAIN me = Fields
  BY <1>1 DEF SameLog, WellTyped, ServerOK
<1>4. ASSUME NEW x, WellTyped(i, x), Carries(me, x), b = x \/ b = raft_apply_all(x)
      PROVE  RepStep(i, b)
  <2>1. WellTyped(i, raft_apply_all(x)) /\ Carries(x, raft_apply_all(x))
    BY <1>4, ApplyCarries
  <2> QED
    BY <1>4, <2>1, CarriesTrans, CarriesRep
<1>5. /\ ServerOK(i, m) /\ SameData(me, m) /\ SameLog(me, m) /\ m.out = {}
      /\ m.state = me.state /\ m.current_leader = me.current_leader
  BY <1>1, <1>3 DEF WellTyped, ServerOK, SameData, SameLog, Fields
<1> HIDE DEF m, b
<1>6. WellTyped(i, m) /\ Carries(me, m)
  BY <1>1, <1>5, SameDataTyped DEF WellTyped, Typed, Carries
<1>7. CASE N = 1 /\ b = raft_apply_all(l)
  <2> HIDE DEF me
  <2>1. /\ WellTyped(i, l) /\ l.state = "leader" /\ l.log = me.log
        /\ l.current_term = me.current_term
        /\ \A k \in Server : l.match_idx[k] = 0
        /\ \A x \in l.out : Sends(l, x)
    BY <1>1, LeaderTyped
  <2> HIDE DEF l
  <2>2. WellTyped(i, b) /\ Carries(l, b)
    BY <1>7, <2>1, ApplyCarries
  <2>3. \A x \in b.out : Sends(b, x)
    BY <2>1, <2>2, SendsSame DEF Carries
  <2>4. /\ b.state = "leader" /\ b.log = srv[i].log /\ b.current_term = srv[i].current_term
        /\ \A k \in Server : b.match_idx[k] = 0
    BY <1>3, <2>1, <2>2 DEF Carries, SameLog
  <2> QED
    BY <1>7, <2>2, <2>3, <2>4, LeaderRep
<1>8. CASE me.state = "leader" /\ b = raft_apply_all(s)
  BY <1>1, <1>4, <1>8, SendAllCarries
<1>9. CASE /\ ~TermNotPersisted(m, m.current_term + 1)
           /\ b = raft_apply_all(c)
  <2>1. /\ WellTyped(i, c) /\ c.state = "candidate" /\ c.log = m.log
        /\ c.current_term = m.current_term + 1
        /\ \A x \in c.out : ~IsAppend(x) /\ ~IsResponse(x)
    BY <1>5, <1>6, <1>9, CandidateTyped
  <2> HIDE DEF c
  <2>2. WellTyped(i, b) /\ Carries(c, b)
    BY <1>9, <2>1, ApplyCarries
  <2>3. b.state = "candidate" /\ b.log = srv[i].log
        /\ b.current_term = srv[i].current_term + 1 /\ srv[i].current_term \in Nat
    BY <1>3, <1>5, <2>1, <2>2 DEF Carries, SameLog
  <2>4. \A x \in b.out : ~IsAppend(x) /\ ~IsResponse(x)
    BY <2>1, <2>2, <2>3 DEF Carries, Sends
  <2> QED
    BY <2>2, <2>3, <2>4 DEF RepStep, RoleStep, MatchStep, LogStep, OutStep, IsSuccess
<1> QED
  BY <1>1, <1>2, <1>4, <1>6, <1>7, <1>8, <1>9, CarriesRefl

\* The client's entry is appended, or nothing is.
TakesEntry(i, b, id) ==
    /\ b.state = "leader" /\ b.current_term = srv[i].current_term
    /\ \/ b.log = srv[i].log
       \/ b.log = Append(srv[i].log, [term |-> b.current_term, id |-> id])

LEMMA EntryRep ==
    ASSUME ReplicationInv, NEW i \in Server, NEW cb \in Callbacks, NEW id \in 1 .. MaxRequests,
           srv[i].state = "leader"
    PROVE  LET b == raft_recv_entry(With(i, cb), id)
           IN  RepStep(i, b) /\ TakesEntry(i, b, id)
<1> DEFINE me == With(i, cb)
           e == [term |-> me.current_term, id |-> id]
           m == raft_append_entry(me, e)
           ks == {k \in Peers(m) : m.next_idx[k] = raft_get_current_idx(m)}
           s == raft_send_appendentries(m, ks)
           c == raft_set_commit_idx(s, raft_get_current_idx(s))
           b == raft_recv_entry(me, id)
           q == <<e>>
           n == Lesser(me.cb.log_offer, Len(q))
<1> SUFFICES RepStep(i, b) /\ TakesEntry(i, b, id)
  OBVIOUS
<1>1. /\ WellTyped(i, me) /\ SameLog(srv[i], me) /\ me.out = {} /\ me.cb.log_offer \in Nat
  BY TypedWith, OfferNat
<1>2. \/ b = m /\ Len(m.log) = Len(me.log)
      \/ Len(m.log) # Len(me.log) /\ (b = s \/ b = c)
  BY DEF raft_recv_entry
<1>3. /\ srv[i].current_term = me.current_term /\ srv[i].log = me.log
      /\ srv[i].state = me.state /\ srv[i].match_idx = me.match_idx
      /\ me.current_term \in Nat
      /\ me.log \in Seq(Entries) /\ Len(me.log) \in Nat
  BY <1>1 DEF SameLog, WellTyped, ServerOK, Typed
<1> HIDE DEF me, b
<1>4. e \in Entries /\ q \in Seq(Entries) /\ Len(q) = 1 /\ q[1] = e
      /\ e.term = me.current_term
  BY <1>3 DEF Entries
<1>12. m = raft_append_entries(me, q)
  BY DEF raft_append_entry
<1> HIDE DEF e, q, m
<1>5. /\ WellTyped(i, m) /\ m.out = {} /\ m.state = "leader"
      /\ m.current_term = me.current_term /\ m.match_idx = me.match_idx
      /\ n \in 0 .. 1 /\ Len(m.log) = Len(me.log) + n
      /\ \A y \in 1 .. Len(me.log) : m.log[y] = me.log[y]
      /\ \A y \in 1 .. n : m.log[Len(me.log) + y] = q[y]
  <2>1. /\ WellTyped(i, m) /\ m.out = me.out /\ m.state = me.state
        /\ m.current_term = me.current_term /\ m.match_idx = me.match_idx
        /\ n \in 0 .. Len(q) /\ Len(m.log) = Len(me.log) + n
        /\ \A y \in 1 .. Len(me.log) : m.log[y] = me.log[y]
        /\ \A y \in 1 .. n : m.log[Len(me.log) + y] = q[y]
    <3>1. WellTyped(i, me) /\ me.cb.log_offer \in Nat /\ q \in Seq(Entries)
      BY <1>1, <1>4
    <3> QED
      BY <3>1, <1>12, AppendLog
  <2> HIDE DEF n
  <2> QED
    BY <1>1, <1>3, <1>4, <2>1
<1> HIDE DEF n
<1>6. m.log \in Seq(Entries) /\ m.id = i
  BY <1>5 DEF WellTyped, Typed, ServerOK
<1>7. \/ m.log = me.log
      \/ Len(m.log) # Len(me.log) /\ m.log = Append(me.log, e)
  <2>1. CASE n = 0
    BY <1>3, <1>5, <1>6, <2>1
  <2>2. CASE n = 1
    <3> DEFINE g == Append(me.log, e)
    <3>1. /\ g \in Seq(Entries) /\ Len(g) = Len(me.log) + 1 /\ g[Len(me.log) + 1] = e
          /\ \A y \in 1 .. Len(me.log) : g[y] = me.log[y]
      BY <1>3, <1>4
    <3> HIDE DEF g
    <3>2. 1 \in 1 .. n
      BY <2>2
    <3>3. m.log[Len(me.log) + 1] = e
      BY <1>4, <1>5, <3>2
    <3>4. Len(m.log) = Len(g)
      BY <1>5, <2>2, <3>1
    <3>5. ASSUME NEW y \in 1 .. Len(g) PROVE m.log[y] = g[y]
      <4>1. y \in 1 .. Len(me.log) \/ y = Len(me.log) + 1
        BY <1>3, <3>1
      <4> QED
        BY <1>5, <3>1, <3>3, <4>1
    <3>6. m.log = g
      BY <1>6, <3>1, <3>4, <3>5, SeqEqual
    <3> QED
      BY <1>3, <1>5, <2>2, <3>6 DEF g
  <2> QED
    BY <1>5, <2>1, <2>2
<1>8. WellTyped(i, b) /\ Carries(m, b)
  <2>1. ks \in SUBSET (Server \ {i})
    BY <1>6 DEF Peers
  <2> HIDE DEF ks
  <2>2. WellTyped(i, s) /\ Carries(m, s)
    BY <1>5, <2>1, SendCarries
  <2> HIDE DEF s
  <2>3. raft_get_current_idx(s) \in Nat
    BY <2>2, CurrentIdx DEF WellTyped
  <2>4. WellTyped(i, c) /\ Carries(s, c)
    BY <2>2, <2>3, CommitCarries
  <2> HIDE DEF c
  <2> QED
    BY <1>2, <1>5, <2>2, <2>4, CarriesRefl, CarriesTrans
<1>9. /\ b.state = "leader" /\ b.log = m.log /\ b.current_term = srv[i].current_term
      /\ b.match_idx = srv[i].match_idx /\ \A x \in b.out : Sends(b, x)
  BY <1>3, <1>5, <1>8 DEF Carries, SameLog
<1>10. RoleStep(i, b) /\ MatchStep(i, b)
  BY <1>3, <1>9 DEF RoleStep, MatchStep
<1>11. LogStep(i, b)
  BY <1>3, <1>4, <1>7, <1>9 DEF LogStep, Appends
<1>13. TakesEntry(i, b, id)
  BY <1>3, <1>7, <1>9 DEF TakesEntry, e
<1> QED
  BY <1>8, <1>9, <1>10, <1>11, <1>13, SentOut DEF RepStep

LEMMA RestartRep ==
    ASSUME ReplicationInv, NEW i \in Server
    PROVE  RepStep(i, Reload(srv[i]))
<1> DEFINE me == srv[i]
           new == [raft_new(i) EXCEPT !.disk = me.disk,
                                      !.cb.log_offer = Len(me.log)]
           t == raft_set_current_term(new, me.disk.term)
           v == raft_vote_for_nodeid(t, me.disk.vote)
           a == raft_append_entries(v, me.log)
           b == [a EXCEPT !.disk = me.disk]
           n == Lesser(v.cb.log_offer, Len(me.log))
<1>1. ServerOK(i, me) /\ Typed(me)
  BY DEF ReplicationInv, ReplicationType, ElectionInv, ElectionType
<1>2. /\ me.disk = [term |-> me.current_term, vote |-> me.voted_for]
      /\ me.disk.term = me.current_term /\ me.disk.vote = me.voted_for
      /\ me.current_term \in Nat /\ me.voted_for \in Server \cup {Nil}
      /\ me.log \in Seq(Entries) /\ Len(me.log) \in Nat
  BY <1>1 DEF ServerOK, Typed
<1>3. Reload(me) = b
  BY <1>1 DEF Reload, Complete, ServerOK
<1>4. /\ DOMAIN new = Fields /\ new.id = i /\ new.current_term = 0
      /\ new.votes = {} /\ new.state = "follower" /\ new.current_leader = Nil
      /\ new.snap = [idx |-> 0, term |-> 0] /\ new.disk = me.disk
      /\ new.snapshot_in_progress = FALSE /\ new.out = {} /\ new.voted_for = Nil
      /\ new.cb.persist_vote /\ new.cb.log_offer = Len(me.log)
      /\ new.log = <<>> /\ new.fsm = <<>> /\ new.base = 0 /\ new.front = 0
      /\ new.size = Capacity /\ new.commit_idx = 0 /\ new.last_applied_idx = 0
      /\ new.next_idx = [k \in Server |-> 1] /\ new.match_idx = [k \in Server |-> 0]
  BY DEF raft_new, Fields, AllWell
<1> HIDE DEF new
<1>5. /\ DOMAIN t = Fields /\ SameData(new, t) /\ t.current_term = me.current_term
      /\ t.votes = {} /\ t.state = "follower" /\ t.current_leader = Nil
      /\ t.snapshot_in_progress = FALSE /\ t.out = {} /\ t.cb = new.cb
      /\ t.disk = [term |-> me.current_term, vote |-> t.disk.vote]
  BY <1>2, <1>4 DEF raft_set_current_term, SameData, Fields
<1> HIDE DEF t
<1>6. /\ DOMAIN v = Fields /\ SameData(new, v) /\ v.current_term = me.current_term
      /\ v.votes = {} /\ v.state = "follower" /\ v.current_leader = Nil
      /\ v.snapshot_in_progress = FALSE /\ v.out = {} /\ v.cb = new.cb
      /\ v.disk = [t.disk EXCEPT !.vote = me.voted_for] /\ v.voted_for = me.voted_for
  BY <1>2, <1>4, <1>5 DEF raft_vote_for_nodeid, SameData, Fields
<1> HIDE DEF v
<1>7. v.disk = [term |-> v.current_term, vote |-> v.voted_for]
  <2>1. \A x : [[term |-> me.current_term, vote |-> x] EXCEPT !.vote = me.voted_for]
               = [term |-> me.current_term, vote |-> me.voted_for]
    OBVIOUS
  <2> QED
    BY <1>5, <1>6, <2>1
<1>8. WellTyped(i, v)
  <2>1. ServerOK(i, v)
    BY <1>2, <1>4, <1>6, <1>7 DEF ServerOK, SameData
  <2>2. Typed(v)
    BY <1>4, <1>6, CapacityAssumption DEF Typed, SameData
  <2> QED
    BY <2>1, <2>2 DEF WellTyped
<1>9. v.cb.log_offer = Len(me.log) /\ v.log = <<>> /\ Len(v.log) = 0
  BY <1>4, <1>6 DEF SameData
<1>10. n = Len(me.log)
  BY <1>9 DEF Lesser
<1>11. /\ WellTyped(i, a) /\ a.out = {} /\ a.state = "follower"
       /\ a.current_term = me.current_term
       /\ Len(a.log) = Len(v.log) + n
       /\ \A y \in 1 .. n : a.log[Len(v.log) + y] = me.log[y]
  <2>1. WellTyped(i, v) /\ v.cb.log_offer \in Nat /\ me.log \in Seq(Entries)
    BY <1>2, <1>8, <1>9
  <2>2. /\ WellTyped(i, a) /\ a.out = v.out /\ a.state = v.state
        /\ a.current_term = v.current_term
        /\ Len(a.log) = Len(v.log) + n
        /\ \A y \in 1 .. n : a.log[Len(v.log) + y] = me.log[y]
    BY <2>1, AppendLog
  <2> QED
    BY <1>6, <2>2
<1>12. a.log = me.log
  <2>1. a.log \in Seq(Entries)
    BY <1>11 DEF WellTyped, Typed
  <2> HIDE DEF a, n
  <2>2. Len(a.log) = Len(me.log)
    BY <1>2, <1>9, <1>10, <1>11
  <2>3. \A y \in 1 .. Len(me.log) : a.log[y] = me.log[y]
    BY <1>2, <1>9, <1>10, <1>11
  <2> HIDE DEF me
  <2> QED
    BY <1>2, <2>1, <2>2, <2>3, SeqEqual
<1>13. a.disk = me.disk /\ DOMAIN a = Fields
  <2>1. Quiet(v, a)
    BY <1>6, AppendQuiet
  <2> HIDE DEF a
  <2> QED
    BY <1>2, <1>6, <1>7, <2>1 DEF Quiet, SameVotes
<1> HIDE DEF a
<1>14. /\ ServerOK(i, b) /\ SameData(a, b) /\ b.out = {} /\ b.state = "follower"
       /\ b.current_term = me.current_term /\ b.current_leader = a.current_leader
  BY <1>11, <1>13 DEF WellTyped, ServerOK, SameData, Fields
<1> HIDE DEF b
<1>15. WellTyped(i, b)
  BY <1>11, <1>14, SameDataTyped DEF WellTyped, Typed
<1> QED
  BY <1>2, <1>3, <1>12, <1>14, <1>15, FollowerRep DEF SameData
-----------------------------------------------------------------------------
(* A step of server i keeps the invariant.                                 *)

\* Server i becomes b and the rest of the state is as it was, except for what
\* b sends and that it may be a new leader.
Becomes(i, b) ==
    /\ WellTyped(i, srv[i]) /\ RepStep(i, b) /\ ElectionInv'
    /\ \A j \in Server : j # i => srv'[j] = srv[j]
    /\ Typed(srv'[i]) /\ srv'[i].state = b.state
    /\ srv'[i].current_term = b.current_term
    /\ srv'[i].log = b.log /\ srv'[i].match_idx = b.match_idx
    /\ \A m \in net' : m \in net \/ m \in b.out
    /\ elected \subseteq elected'
    /\ \A x \in elected' : \/ x \in elected
                           \/ x = <<b.current_term, i>> /\ b.state = "leader"
    /\ b.state = "leader" /\ srv[i].state # "leader" => <<b.current_term, i>> \in elected'
    /\ used'.requests \in Nat

LEMMA UpdateBecomes ==
    ASSUME ReplicationInv, NEW i \in Server, NEW b, RepStep(i, b), ElectionInv',
           NEW given \in SUBSET net, Update(i, b, given), used'.requests \in Nat
    PROVE  Becomes(i, b)
<1>1. DOMAIN srv = Server /\ WellTyped(i, srv[i])
  BY DEF ReplicationInv, ReplicationType, ElectionInv, ElectionType, WellTyped
<1>2. DOMAIN b = Fields /\ Typed(b)
  BY DEF RepStep, WellTyped, ServerOK
<1>3. srv' = [srv EXCEPT ![i] = [b EXCEPT !.out = {}, !.cb = AllWell]]
  BY DEF Update
<1>4. /\ \A j \in Server : j # i => srv'[j] = srv[j]
      /\ srv'[i] = [b EXCEPT !.out = {}, !.cb = AllWell]
  BY <1>1, <1>3
<1>5. SameData(b, srv'[i]) /\ srv'[i].state = b.state
      /\ srv'[i].current_term = b.current_term
      /\ srv'[i].current_leader = b.current_leader
  BY <1>2, <1>4 DEF SameData, Fields
<1>6. Typed(srv'[i])
  BY <1>2, <1>5, SameDataTyped DEF Typed
<1>7. \A m \in net' : m \in net \/ m \in b.out
  BY DEF Update
<1>8. elected' = IF b.state = "leader" /\ srv[i].state # "leader"
                 THEN elected \cup {<<b.current_term, i>>} ELSE elected
  BY DEF Update
<1> QED
  BY <1>1, <1>4, <1>5, <1>6, <1>7, <1>8 DEF Becomes, SameData

\* The types of what is in the state.
LEMMA StateTypes ==
    ASSUME ReplicationInv
    PROVE  /\ \A j \in Server : /\ Typed(srv[j]) /\ srv[j].current_term \in Nat
                                /\ srv[j].log \in Seq(Entries) /\ Len(srv[j].log) \in Nat
           /\ \A m \in net : /\ m.src \in Server /\ m.dst \in Server /\ m.term \in Nat
                             /\ IsAppend(m) => AppendTyped(m) /\ Segment(MsgSeg(m))
                             /\ IsResponse(m) => ResponseTyped(m) /\ m.current_idx \in Nat
           /\ elected \subseteq Nat \X Server
           /\ \A s \in Segments : Segment(s)
<1>1. ElectionType /\ ReplicationType
  BY DEF ReplicationInv, ElectionInv
<1>2. \A j \in Server : /\ Typed(srv[j]) /\ srv[j].current_term \in Nat
                        /\ srv[j].log \in Seq(Entries) /\ Len(srv[j].log) \in Nat
  <2> SUFFICES ASSUME NEW j \in Server
               PROVE  /\ Typed(srv[j]) /\ srv[j].current_term \in Nat
                      /\ srv[j].log \in Seq(Entries) /\ Len(srv[j].log) \in Nat
    OBVIOUS
  <2>1. Typed(srv[j]) /\ ServerOK(j, srv[j])
    BY <1>1 DEF ElectionType, ReplicationType
  <2>2. srv[j].log \in Seq(Entries)
    BY <2>1 DEF Typed
  <2> QED
    BY <2>1, <2>2 DEF ServerOK
<1>3. \A m \in net : /\ m.src \in Server /\ m.dst \in Server /\ m.term \in Nat
                     /\ IsAppend(m) => AppendTyped(m) /\ Segment(MsgSeg(m))
                     /\ IsResponse(m) => ResponseTyped(m) /\ m.current_idx \in Nat
  BY <1>1 DEF ElectionType, ReplicationType, Message, AppendTyped, ResponseTyped
<1>4. elected \subseteq Nat \X Server
  BY <1>1 DEF ElectionType
<1>5. \A s \in Segments : Segment(s)
  BY <1>2, <1>3, LogSegFacts DEF Segments
<1> QED
  BY <1>2, <1>3, <1>4, <1>5

\* What b is and sends.
LEMMA StepTypes ==
    ASSUME ReplicationInv, NEW i \in Server, NEW b, Becomes(i, b)
    PROVE  /\ b.log \in Seq(Entries) /\ Len(b.log) \in Nat /\ b.current_term \in Nat
           /\ srv[i].current_term <= b.current_term /\ b.id = i
           /\ \A m \in b.out :
                /\ IsAppend(m) => /\ b.state = "leader" /\ m.term = b.current_term
                                  /\ m.src = i /\ AppendTyped(m) /\ Segment(MsgSeg(m))
                                  /\ Part(MsgSeg(m), LogSeg(b.log))
                /\ IsResponse(m) => /\ ResponseTyped(m) /\ m.src = i
                                    /\ m.term = b.current_term
                /\ IsSuccess(m) => Confirms(i, b, m)
<1>1. WellTyped(i, b) /\ RoleStep(i, b) /\ \A m \in b.out : OutStep(i, b, m)
  BY DEF Becomes, RepStep
<1>2. /\ b.log \in Seq(Entries) /\ Len(b.log) \in Nat /\ b.current_term \in Nat /\ b.id = i
      /\ srv[i].current_term <= b.current_term
  BY <1>1 DEF WellTyped, ServerOK, Typed, RoleStep
<1> QED
  BY <1>1, <1>2 DEF OutStep, Sends, AppendTyped

LEMMA TypeStep ==
    ASSUME ReplicationInv, NEW i \in Server, NEW b, Becomes(i, b)
    PROVE  ReplicationType'
<1>1. \A j \in Server : Typed(srv[j])'
  BY StateTypes DEF Becomes
<1>2. \A m \in net' : /\ IsAppend(m) => AppendTyped(m)
                      /\ IsResponse(m) => ResponseTyped(m)
  BY StateTypes, StepTypes DEF Becomes
<1>3. (used.requests \in Nat)'
  BY DEF Becomes
<1> QED
  BY <1>1, <1>2, <1>3 DEF ReplicationType

LEMMA ElectedStep ==
    ASSUME ReplicationInv, NEW i \in Server, NEW b, Becomes(i, b)
    PROVE  Elected'
<1> DEFINE a == srv[i]
           t0 == b.current_term
<1>1. Elected
  BY DEF ReplicationInv
<1>2. /\ \A j \in Server : srv[j].current_term \in Nat
      /\ \A m \in net : m.src \in Server
      /\ t0 \in Nat /\ a.current_term <= t0
  BY StateTypes, StepTypes
<1>3. /\ \A j \in Server : j # i => srv'[j] = srv[j]
      /\ srv'[i].state = b.state /\ srv'[i].current_term = t0
      /\ \A m \in net' : m \in net \/ m \in b.out
      /\ elected \subseteq elected'
      /\ \A x \in elected' : x \in elected \/ (x = <<t0, i>> /\ b.state = "leader")
      /\ b.state = "leader" /\ a.state # "leader" => <<t0, i>> \in elected'
  BY DEF Becomes
<1>4. /\ b.state = "leader" => a.current_term = t0
      /\ b.state = "candidate" => a.current_term < t0 \/ a.state = "candidate"
  BY DEF Becomes, RepStep, RoleStep
<1>5. \A j \in Server : srv'[j].state = "leader" => <<srv'[j].current_term, j>> \in elected'
  <2>1. b.state = "leader" => <<t0, i>> \in elected'
    BY <1>1, <1>3, <1>4 DEF Elected
  <2> QED
    BY <1>1, <1>3, <2>1 DEF Elected
<1>6. ASSUME NEW j \in Server, NEW t \in Nat, <<t, j>> \in elected'
      PROVE  /\ t <= srv'[j].current_term
             /\ t = srv'[j].current_term => srv'[j].state # "candidate"
  <2>1. CASE j # i
    <3>1. <<t, j>> \in elected
      BY <1>3, <1>6, <2>1
    <3> QED
      BY <1>1, <1>3, <2>1, <3>1 DEF Elected
  <2>2. CASE j = i /\ <<t, j>> \in elected
    <3>1. t <= a.current_term /\ (t = a.current_term => a.state # "candidate")
      BY <1>1, <2>2 DEF Elected
    <3> QED
      BY <1>2, <1>3, <1>4, <2>2, <3>1
  <2>3. CASE j = i /\ t = t0 /\ b.state = "leader"
    BY <1>2, <1>3, <2>3
  <2> QED
    BY <1>3, <1>6, <2>1, <2>2, <2>3
<1>7. ASSUME NEW m \in net'
      PROVE  /\ IsAppend(m) => <<m.term, m.src>> \in elected'
             /\ IsResponse(m) => m.term <= srv'[m.src].current_term
             /\ IsSuccess(m) => <<m.term, m.dst>> \in elected'
  <2>1. CASE m \in net
    <3>1. /\ IsAppend(m) => <<m.term, m.src>> \in elected
          /\ IsResponse(m) => m.term <= srv[m.src].current_term
          /\ IsSuccess(m) => <<m.term, m.dst>> \in elected
      BY <1>1, <2>1 DEF Elected
    <3>2. m.src \in Server /\ m.term \in Nat
      BY <2>1, StateTypes
    <3>3. srv[m.src].current_term <= srv'[m.src].current_term
      BY <1>2, <1>3, <3>2
    <3>4. srv'[m.src].current_term \in Nat
      BY <1>2, <1>3, <3>2
    <3> QED
      BY <1>2, <1>3, <3>1, <3>2, <3>3, <3>4
  <2>2. CASE m \in b.out
    <3>1. /\ IsAppend(m) => b.state = "leader" /\ m.term = t0 /\ m.src = i
          /\ IsResponse(m) => m.src = i /\ m.term = t0
          /\ IsSuccess(m) => Confirms(i, b, m)
      BY <2>2, StepTypes
    <3>2. ASSUME IsSuccess(m) PROVE <<m.term, m.dst>> \in elected'
      <4>1. PICK ae \in net : IsAppend(ae) /\ ae.src = m.dst /\ ae.term = t0
        BY <3>1, <3>2 DEF Confirms
      <4>2. <<ae.term, ae.src>> \in elected
        BY <1>1, <4>1 DEF Elected
      <4>3. m.term = t0
        BY <3>1, <3>2 DEF IsSuccess
      <4> QED
        BY <1>3, <4>1, <4>2, <4>3
    <3> QED
      BY <1>2, <1>3, <1>5, <3>1, <3>2
  <2> QED
    BY <1>3, <2>1, <2>2
<1> QED
  BY <1>5, <1>6, <1>7 DEF Elected

\* The log of a leader grows.
LEMMA LeaderLog ==
    ASSUME ReplicationInv, NEW i \in Server, NEW b, Becomes(i, b), b.state = "leader"
    PROVE  /\ srv[i].current_term = b.current_term
           /\ Len(srv[i].log) <= Len(b.log)
           /\ \A y \in 1 .. Len(srv[i].log) : b.log[y] = srv[i].log[y]
           /\ srv[i].state # "leader" => b.log = srv[i].log
<1>1. LogStep(i, b) /\ srv[i].current_term = b.current_term
  BY DEF Becomes, RepStep, RoleStep
<1>2. srv[i].log \in Seq(Entries) /\ Len(srv[i].log) \in Nat
  BY StateTypes
<1>3. CASE b.log = srv[i].log
  BY <1>1, <1>2, <1>3
<1>4. CASE Appends(i, b)
  <2>1. srv[i].state = "leader" /\ \E e \in Entries : b.log = Append(srv[i].log, e)
    BY <1>4 DEF Appends
  <2> QED
    BY <1>1, <1>2, <2>1
<1> QED
  BY <1>1, <1>3, <1>4 DEF LogStep, TakesOver

\* When i becomes leader, nobody has been in its term, or i is alone.
LEMMA NewLeader ==
    ASSUME ReplicationInv, NEW i \in Server, NEW b, Becomes(i, b),
           b.state = "leader", srv[i].state # "leader"
    PROVE  \/ \A l \in Server : <<b.current_term, l>> \notin elected
           \/ N = 1 /\ \A m \in net : ~IsAppend(m) /\ ~IsResponse(m)
<1>1. CASE N = 1
  <2>1. \A m \in net : /\ m.src \in Server /\ m.dst \in Server
                       /\ IsAppend(m) => AppendTyped(m)
                       /\ IsResponse(m) => ResponseTyped(m)
    BY StateTypes
  <2>2. \A j, k \in Server : j = k
    BY <1>1 DEF Server
  <2> QED
    BY <1>1, <2>1, <2>2 DEF AppendTyped, ResponseTyped
<1>2. CASE N # 1
  <2>1. srv[i].current_term = b.current_term /\ srv[i].state = "candidate"
    BY <1>2 DEF Becomes, RepStep, RoleStep
  <2>2. srv[i].current_term \in Nat
    BY StateTypes
  <2>3. <<b.current_term, i>> \notin elected
    BY <2>1, <2>2 DEF ReplicationInv, Elected
  <2>4. <<b.current_term, i>> \in elected' /\ elected \subseteq elected' /\ ElectionSafety'
    BY DEF Becomes, ElectionInv
  <2>5. \A l \in Server : <<b.current_term, l>> \in elected => l = i
    BY <2>4 DEF ElectionSafety
  <2> QED
    BY <2>3, <2>5
<1> QED
  BY <1>1, <1>2

LEMMA SegmentsStep ==
    ASSUME ReplicationInv, NEW i \in Server, NEW b, Becomes(i, b), NEW s \in Segments'
    PROVE  Segment(s) /\ (s \in Segments \/ Part(s, LogSeg(b.log)))
<1>1. CASE \E j \in Server : s = LogSeg(srv'[j].log)
  <2>1. PICK j \in Server : s = LogSeg(srv'[j].log)
    BY <1>1
  <2>2. CASE j = i
    <3>1. s = LogSeg(b.log)
      BY <2>1, <2>2 DEF Becomes
    <3> QED
      BY <3>1, StepTypes, LogSegFacts, PartRefl
  <2>3. CASE j # i
    <3>1. s = LogSeg(srv[j].log)
      BY <2>1, <2>3 DEF Becomes
    <3>2. s \in Segments
      BY <3>1 DEF Segments
    <3> QED
      BY <3>2, StateTypes
  <2> QED
    BY <2>2, <2>3
<1>2. CASE \E m \in net' : IsAppend(m) /\ s = MsgSeg(m)
  <2>1. PICK m \in net' : IsAppend(m) /\ s = MsgSeg(m)
    BY <1>2
  <2>2. CASE m \in net
    <3>1. s \in Segments
      BY <2>1, <2>2 DEF Segments
    <3> QED
      BY <3>1, StateTypes
  <2>3. CASE m \in b.out
    BY <2>1, <2>3, StepTypes
  <2> QED
    BY <2>2, <2>3 DEF Becomes
<1> QED
  BY <1>1, <1>2 DEF Segments

\* There was a leader of term t, and the one there is has index y.
Covered(t, y) ==
    /\ \E l \in Server : <<t, l>> \in elected
    /\ \A j \in Server :
          srv[j].state = "leader" /\ srv[j].current_term = t => y <= Len(srv[j].log)

LEMMA OldEntries ==
    ASSUME ReplicationInv, NEW i \in Server, NEW b, Becomes(i, b),
           NEW s \in Segments, NEW y \in s.lo + 1 .. Hi(s)
    PROVE  Covered(Tm(s, y), y)'
<1> DEFINE t == Tm(s, y)
<1>1. Segment(s) /\ Tm(s, y) \in Nat /\ y \in Nat
  BY StateTypes, SegmentFacts
<1>2. Covered(t, y)
  BY DEF ReplicationInv, EntriesFromLeaders, Covered
<1>3. elected \subseteq elected' /\ \A j \in Server : j # i => srv'[j] = srv[j]
  BY DEF Becomes
<1> HIDE DEF t
<1>4. ASSUME srv'[i].state = "leader", srv'[i].current_term = t
      PROVE  y <= Len(srv'[i].log)
  <2>1. b.state = "leader" /\ b.current_term = t /\ srv'[i].log = b.log
    BY <1>4 DEF Becomes
  <2>2. /\ srv[i].current_term = t /\ Len(srv[i].log) <= Len(b.log)
        /\ srv[i].state # "leader" => b.log = srv[i].log
    BY <2>1, LeaderLog
  <2>3. Len(srv[i].log) \in Nat /\ Len(b.log) \in Nat /\ srv[i].log \in Seq(Entries)
    BY StateTypes, StepTypes
  <2>4. CASE srv[i].state = "leader"
    <3>1. y <= Len(srv[i].log)
      BY <1>2, <2>2, <2>4 DEF Covered
    <3> QED
      BY <1>1, <2>1, <2>2, <2>3, <3>1
  <2>5. CASE srv[i].state # "leader"
    <3>1. N = 1 /\ \A m \in net : ~IsAppend(m)
      BY <1>2, <2>1, <2>5, NewLeader DEF Covered
    <3>2. \A j \in Server : j = i
      BY <3>1 DEF Server
    <3>3. s = LogSeg(srv[i].log)
      BY <3>1, <3>2 DEF Segments
    <3>4. y <= Len(srv[i].log)
      BY <2>3, <3>3, LogSegFacts
    <3> QED
      BY <2>1, <2>2, <2>5, <3>4
  <2> QED
    BY <2>4, <2>5
<1>5. \E l \in Server : <<t, l>> \in elected'
  BY <1>2, <1>3 DEF Covered
<1>6. \A j \in Server : srv'[j].state = "leader" /\ srv'[j].current_term = t
                          => y <= Len(srv'[j].log)
  BY <1>2, <1>3, <1>4 DEF Covered
<1>7. Covered(t, y)'
  BY <1>5, <1>6 DEF Covered, t
<1> QED
  BY <1>7 DEF t

LEMMA NewEntries ==
    ASSUME ReplicationInv, NEW i \in Server, NEW b, Becomes(i, b), Elected',
           NEW y \in 1 .. Len(b.log)
    PROVE  Covered(b.log[y].term, y)'
<1> DEFINE a == srv[i].log
<1>1. a \in Seq(Entries) /\ Len(a) \in Nat /\ b.log \in Seq(Entries) /\ Len(b.log) \in Nat
  BY StateTypes, StepTypes
<1>2. ASSUME y \in 1 .. Len(a), b.log[y] = a[y]
      PROVE  Covered(b.log[y].term, y)'
  <2>1. PICK s \in Segments : s = LogSeg(a)
    BY DEF Segments
  <2>2. s.lo = 0 /\ Hi(s) = Len(a) /\ Tm(s, y) = a[y].term
    BY <1>1, <1>2, <2>1, LogSegFacts
  <2>3. Covered(Tm(s, y), y)'
    BY <1>2, <2>1, <2>2, OldEntries
  <2>4. Tm(s, y) = b.log[y].term
    BY <1>2, <2>2
  <2> QED
    BY <2>3, <2>4
<1>3. LogStep(i, b)
  BY DEF Becomes, RepStep
<1>4. CASE b.log = a
  BY <1>2, <1>4
<1>5. CASE Appends(i, b)
  <2>1. PICK e \in Entries : e.term = srv[i].current_term /\ b.log = Append(a, e)
    BY <1>5 DEF Appends
  <2>2. Len(b.log) = Len(a) + 1 /\ b.log[Len(a) + 1] = e
        /\ \A x \in 1 .. Len(a) : b.log[x] = a[x]
    BY <1>1, <2>1
  <2>3. CASE y \in 1 .. Len(a)
    BY <1>2, <2>2, <2>3
  <2>4. CASE y = Len(a) + 1
    <3> DEFINE t == b.log[y].term
    <3>1. t = srv[i].current_term /\ y = Len(b.log)
      BY <2>1, <2>2, <2>4
    <3>2. srv[i].state = "leader" /\ b.state = "leader"
      BY <1>5 DEF Appends
    <3>3. <<t, i>> \in elected
      BY <3>1, <3>2 DEF ReplicationInv, Elected
    <3>4. <<t, i>> \in elected' /\ ElectionSafety' /\ srv'[i].log = b.log
      BY <3>3 DEF Becomes, ElectionInv
    <3>5. ASSUME NEW j \in Server, srv'[j].state = "leader", srv'[j].current_term = t
          PROVE  y <= Len(srv'[j].log)
      <4>1. <<t, j>> \in elected'
        BY <3>5 DEF Elected
      <4>2. j = i
        BY <3>4, <4>1 DEF ElectionSafety
      <4> QED
        BY <1>1, <3>1, <3>4, <4>2
    <3> HIDE DEF t
    <3>6. Covered(t, y)'
      BY <3>4, <3>5 DEF Covered, t
    <3> QED
      BY <3>6 DEF t
  <2> QED
    BY <1>1, <2>2, <2>3, <2>4
<1>6. CASE TakesOver(i, b)
  <2>1. PICK m \in net : IsAppend(m) /\ \E p : FromSeg(a, MsgSeg(m), b.log, p)
    BY <1>6 DEF TakesOver
  <2>2. PICK p : FromSeg(a, MsgSeg(m), b.log, p)
    BY <2>1
  <2> DEFINE s == MsgSeg(m)
  <2>3. s \in Segments /\ Segment(s)
    BY <2>1, StateTypes DEF Segments
  <2>4. FromSeg(a, s, b.log, p)
    BY <2>2
  <2> HIDE DEF s
  <2>5. p \in 0 .. Len(a) /\ p <= Len(b.log) /\ \A x \in 1 .. p : b.log[x] = a[x]
    BY <2>4 DEF FromSeg
  <2>6. CASE y <= p
    <3>1. y \in 1 .. p /\ y \in 1 .. Len(a)
      BY <1>1, <2>5, <2>6
    <3> QED
      BY <1>2, <2>5, <3>1
  <2>7. CASE p < y
    <3>1. s.lo \in Nat /\ Hi(s) \in Nat
      BY <2>3, SegmentFacts
    <3>2. /\ s.lo <= p /\ Len(b.log) <= Hi(s)
          /\ \A x \in p + 1 .. Len(b.log) : b.log[x] = Ent(s, x)
      BY <1>1, <2>4, <2>5, <2>7 DEF FromSeg, Follows
    <3>3. y \in p + 1 .. Len(b.log) /\ y \in s.lo + 1 .. Hi(s)
      BY <1>1, <2>5, <2>7, <3>1, <3>2
    <3>4. b.log[y].term = Tm(s, y)
      BY <2>3, <3>2, <3>3, SegmentFacts
    <3>5. Covered(Tm(s, y), y)'
      BY <2>3, <3>3, OldEntries
    <3> QED
      BY <3>4, <3>5
  <2> QED
    BY <1>1, <2>5, <2>6, <2>7
<1> QED
  BY <1>3, <1>4, <1>5, <1>6 DEF LogStep

LEMMA EntriesStep ==
    ASSUME ReplicationInv, NEW i \in Server, NEW b, Becomes(i, b), Elected'
    PROVE  EntriesFromLeaders'
<1>1. b.log \in Seq(Entries) /\ Len(b.log) \in Nat
  BY StepTypes
<1>2. ASSUME NEW s \in Segments', NEW y \in s.lo + 1 .. Hi(s)
      PROVE  Covered(Tm(s, y), y)'
  <2>1. Segment(s) /\ (s \in Segments \/ Part(s, LogSeg(b.log)))
    BY SegmentsStep
  <2>2. CASE s \in Segments
    BY <2>2, OldEntries
  <2>3. CASE Part(s, LogSeg(b.log))
    <3>1. s.lo \in Nat /\ Hi(s) \in Nat
      BY <2>1, SegmentFacts
    <3>2. /\ LogSeg(b.log).lo = 0 /\ Hi(LogSeg(b.log)) = Len(b.log)
          /\ \A x \in 1 .. Len(b.log) : Tm(LogSeg(b.log), x) = b.log[x].term
      BY <1>1, LogSegFacts
    <3>3. y \in 1 .. Len(b.log) /\ Tm(s, y) = Tm(LogSeg(b.log), y)
      BY <1>1, <2>3, <3>1, <3>2 DEF Part
    <3>4. Covered(b.log[y].term, y)'
      BY <3>3, NewEntries
    <3>5. Tm(s, y) = b.log[y].term
      BY <3>2, <3>3
    <3> QED
      BY <3>4, <3>5
  <2> QED
    BY <2>1, <2>2, <2>3
<1> QED
  BY <1>2 DEF EntriesFromLeaders, Covered

LEMMA LogAlike ==
    ASSUME ReplicationInv, NEW i \in Server, NEW b, Becomes(i, b), NEW r \in Segments
    PROVE  Alike(LogSeg(b.log), r)
<1> DEFINE a == srv[i].log
<1>1. a \in Seq(Entries) /\ Len(a) \in Nat /\ b.log \in Seq(Entries)
  BY StateTypes, StepTypes
<1>2. LogSeg(a) \in Segments /\ Segment(r)
  BY StateTypes DEF Segments
<1>3. \A s, q \in Segments : Alike(s, q)
  BY DEF ReplicationInv, Matching
<1>4. LogStep(i, b)
  BY DEF Becomes, RepStep
<1>5. CASE b.log = a
  BY <1>2, <1>3, <1>5
<1>6. CASE Appends(i, b)
  <2>1. srv[i].state = "leader"
    BY <1>6 DEF Appends
  <2>2. PICK e \in Entries : e.term = srv[i].current_term /\ b.log = Append(a, e)
    BY <1>6 DEF Appends
  <2>3. ASSUME Len(a) + 1 \in r.lo + 1 .. Hi(r), Tm(r, Len(a) + 1) = e.term
        PROVE  FALSE
    <3>1. Len(a) + 1 <= Len(a)
      BY <2>1, <2>2, <2>3 DEF ReplicationInv, EntriesFromLeaders
    <3> QED
      BY <1>1, <3>1
  <2>4. Alike(LogSeg(a), r)
    BY <1>2, <1>3
  <2> QED
    BY <1>1, <1>2, <2>2, <2>3, <2>4, AppendAlike
<1>7. CASE TakesOver(i, b)
  <2>1. PICK m \in net : IsAppend(m) /\ \E p : FromSeg(a, MsgSeg(m), b.log, p)
    BY <1>7 DEF TakesOver
  <2>2. MsgSeg(m) \in Segments /\ Segment(MsgSeg(m))
    BY <2>1, StateTypes DEF Segments
  <2>3. Alike(LogSeg(a), MsgSeg(m)) /\ Alike(LogSeg(a), r) /\ Alike(MsgSeg(m), r)
    BY <1>2, <1>3, <2>2
  <2> HIDE DEF a
  <2> QED
    BY <1>1, <1>2, <2>1, <2>2, <2>3, FromSegAlike
<1> QED
  BY <1>4, <1>5, <1>6, <1>7 DEF LogStep

LEMMA MatchingStep ==
    ASSUME ReplicationInv, NEW i \in Server, NEW b, Becomes(i, b)
    PROVE  Matching'
<1> DEFINE B == LogSeg(b.log)
<1>1. Segment(B)
  BY StepTypes, LogSegFacts
<1>2. \A s \in Segments : Alike(B, s) /\ Segment(s)
  BY LogAlike, StateTypes
<1> HIDE DEF B
<1>3. ASSUME NEW s, Segment(s), s \in Segments \/ Part(s, B)
      PROVE  Alike(B, s)
  <2>1. CASE Part(s, B)
    <3>1. Alike(B, B)
      BY AlikeRefl
    <3>2. Alike(s, B)
      BY <1>1, <1>3, <2>1, <3>1, PartAlike
    <3> QED
      BY <1>1, <1>3, <3>2, AlikeSym
  <2> QED
    BY <1>2, <1>3, <2>1
<1>4. ASSUME NEW s \in Segments', NEW r \in Segments'
      PROVE  Alike(s, r)
  <2>1. /\ Segment(s) /\ (s \in Segments \/ Part(s, B))
        /\ Segment(r) /\ (r \in Segments \/ Part(r, B))
    BY SegmentsStep DEF B
  <2>2. Alike(B, s) /\ Alike(B, r)
    BY <1>3, <2>1
  <2>3. CASE Part(s, B)
    BY <1>1, <2>1, <2>2, <2>3, PartAlike
  <2>4. CASE Part(r, B)
    <3>1. Alike(r, s)
      BY <1>1, <2>1, <2>2, <2>4, PartAlike
    <3> QED
      BY <2>1, <3>1, AlikeSym
  <2>5. CASE s \in Segments /\ r \in Segments
    BY <2>5 DEF ReplicationInv, Matching
  <2> QED
    BY <2>1, <2>3, <2>4, <2>5
<1> QED
  BY <1>4 DEF Matching

LEMMA PartGrow ==
    ASSUME NEW a \in Seq(Entries), NEW g \in Seq(Entries), Len(a) <= Len(g),
           \A y \in 1 .. Len(a) : g[y] = a[y],
           NEW s, Segment(s), Part(s, LogSeg(a))
    PROVE  Part(s, LogSeg(g))
<1> DEFINE A == LogSeg(a)
           G == LogSeg(g)
<1>1. /\ A.lo = 0 /\ Hi(A) = Len(a) /\ Tm(A, 0) = 0 /\ Len(a) \in Nat
      /\ \A y \in 1 .. Len(a) : Ent(A, y) = a[y] /\ Tm(A, y) = a[y].term
  BY LogSegFacts
<1>2. /\ G.lo = 0 /\ Hi(G) = Len(g) /\ Tm(G, 0) = 0 /\ Len(g) \in Nat
      /\ \A y \in 1 .. Len(g) : Ent(G, y) = g[y] /\ Tm(G, y) = g[y].term
  BY LogSegFacts
<1>3. s.lo \in Nat /\ Hi(s) \in Nat
  BY SegmentFacts
<1>4. Part(s, A)
  OBVIOUS
<1> HIDE DEF A, G
<1>5. Hi(s) <= Len(a)
  BY <1>1, <1>4 DEF Part
<1>6. ASSUME NEW y \in s.lo .. Hi(s)
      PROVE  Tm(s, y) = Tm(G, y) /\ (s.lo < y => Ent(s, y) = Ent(G, y))
  <2>1. Tm(s, y) = Tm(A, y) /\ (s.lo < y => Ent(s, y) = Ent(A, y))
    BY <1>4 DEF Part
  <2>2. CASE y = 0
    BY <1>1, <1>2, <1>3, <2>1, <2>2
  <2>3. CASE y # 0
    <3>1. y \in 1 .. Len(a) /\ y \in 1 .. Len(g)
      BY <1>1, <1>2, <1>3, <1>5, <2>3
    <3> QED
      BY <1>1, <1>2, <2>1, <3>1
  <2> QED
    BY <2>2, <2>3
<1>7. Part(s, G)
  BY <1>1, <1>2, <1>3, <1>5, <1>6 DEF Part
<1> QED
  BY <1>7 DEF G

LEMMA AppendsStep ==
    ASSUME ReplicationInv, NEW i \in Server, NEW b, Becomes(i, b), Elected'
    PROVE  AppendsFromLog'
<1> SUFFICES ASSUME NEW m \in net', NEW j \in Server, IsAppend(m),
                    srv'[j].state = "leader", srv'[j].current_term = m.term
             PROVE  Part(MsgSeg(m), LogSeg(srv'[j].log))
  BY DEF AppendsFromLog
<1>1. /\ srv'[i].state = b.state /\ srv'[i].current_term = b.current_term
      /\ srv'[i].log = b.log /\ \A k \in Server : k # i => srv'[k] = srv[k]
  BY DEF Becomes
<1>2. CASE m \in net /\ j # i
  <2>1. srv[j].state = "leader" /\ srv[j].current_term = m.term /\ srv'[j].log = srv[j].log
    BY <1>1, <1>2
  <2>2. Part(MsgSeg(m), LogSeg(srv[j].log))
    BY <1>2, <2>1 DEF ReplicationInv, AppendsFromLog
  <2> QED
    BY <2>1, <2>2
<1>3. CASE m \in net /\ j = i
  <2>1. b.state = "leader" /\ b.current_term = m.term
    BY <1>1, <1>3
  <2>2. /\ srv[i].current_term = m.term /\ Len(srv[i].log) <= Len(b.log)
        /\ \A y \in 1 .. Len(srv[i].log) : b.log[y] = srv[i].log[y]
    BY <2>1, LeaderLog
  <2>3. srv[i].state = "leader"
    <3>1. <<m.term, m.src>> \in elected /\ m.src \in Server
      BY <1>3, StateTypes DEF ReplicationInv, Elected
    <3> QED
      BY <1>3, <2>1, <3>1, NewLeader
  <2>4. Part(MsgSeg(m), LogSeg(srv[i].log)) /\ Segment(MsgSeg(m))
    BY <1>3, <2>2, <2>3, StateTypes DEF ReplicationInv, AppendsFromLog
  <2>5. srv[i].log \in Seq(Entries) /\ b.log \in Seq(Entries)
    BY StateTypes, StepTypes
  <2>6. Part(MsgSeg(m), LogSeg(b.log))
    BY <2>2, <2>4, <2>5, PartGrow
  <2> QED
    BY <1>1, <1>3, <2>6
<1>4. CASE m \in b.out
  <2>1. /\ b.state = "leader" /\ m.term = b.current_term
        /\ Part(MsgSeg(m), LogSeg(b.log))
    BY <1>4, StepTypes
  <2>2. <<m.term, i>> \in elected' /\ <<m.term, j>> \in elected'
    BY <1>1, <2>1 DEF Elected
  <2>3. j = i
    BY <2>2 DEF Becomes, ElectionInv, ElectionSafety
  <2> QED
    BY <1>1, <2>1, <2>3
<1> QED
  BY <1>2, <1>3, <1>4 DEF Becomes

\* Taking over what leader j has sent does not lose what j knows of the log.
LEMMA TakeOverKeeps ==
    ASSUME NEW a \in Seq(Entries), NEW g \in Seq(Entries), NEW l \in Seq(Entries),
           NEW s, Segment(s), NEW p, FromSeg(a, s, g, p), Part(s, LogSeg(l)),
           NEW x \in Nat, SameUpTo(a, l, x)
    PROVE  SameUpTo(g, l, x)
<1>1. /\ Len(a) \in Nat /\ Len(g) \in Nat /\ Len(l) \in Nat
      /\ s.lo \in Nat /\ Hi(s) \in Nat
  BY SegmentFacts
<1>2. p \in 0 .. Len(a) /\ p <= Len(g) /\ \A y \in 1 .. p : g[y] = a[y]
  BY DEF FromSeg
<1>3. x <= Len(a) /\ x <= Len(l) /\ \A y \in 1 .. x : a[y] = l[y]
  BY DEF SameUpTo
<1>4. x <= p
  <2>1. CASE p = Len(a)
    BY <1>3, <2>1
  <2>2. CASE p + 1 \in s.lo .. Hi(s) /\ a[p + 1].term # Tm(s, p + 1)
    <3>1. Tm(s, p + 1) = Tm(LogSeg(l), p + 1) /\ Hi(s) <= Hi(LogSeg(l))
      BY <2>2 DEF Part
    <3>2. Hi(LogSeg(l)) = Len(l) /\ \A y \in 1 .. Len(l) : Tm(LogSeg(l), y) = l[y].term
      BY LogSegFacts
    <3>3. p + 1 \in 1 .. Len(l)
      BY <1>1, <1>2, <2>2, <3>1, <3>2
    <3>4. a[p + 1] # l[p + 1]
      BY <2>2, <3>1, <3>2, <3>3
    <3> QED
      BY <1>1, <1>2, <1>3, <3>3, <3>4
  <2> QED
    BY <2>1, <2>2 DEF FromSeg
<1> QED
  BY <1>1, <1>2, <1>3, <1>4 DEF SameUpTo

\* A leader that stays one keeps what it knows of the others.
LEMMA AckedStep ==
    ASSUME ReplicationInv, NEW i \in Server, NEW b, Becomes(i, b),
           NEW j \in Server, NEW k \in Server, NEW x \in Nat,
           srv[j].state = "leader", srv'[j].state = "leader", Acked(j, k, x)
    PROVE  Acked(j, k, x)'
<1> DEFINE tj == srv[j].current_term
           lj == srv[j].log
           lk == srv[k].log
<1>1. /\ srv'[i].state = b.state /\ srv'[i].current_term = b.current_term
      /\ srv'[i].log = b.log /\ \A n \in Server : n # i => srv'[n] = srv[n]
  BY DEF Becomes
<1>2. /\ srv[j].current_term \in Nat /\ srv[k].current_term \in Nat
      /\ srv[i].current_term \in Nat /\ b.current_term \in Nat
      /\ srv[i].current_term <= b.current_term
      /\ lj \in Seq(Entries) /\ Len(lj) \in Nat /\ lk \in Seq(Entries) /\ Len(lk) \in Nat
      /\ b.log \in Seq(Entries) /\ Len(b.log) \in Nat
  BY StateTypes, StepTypes
\* The leader's own log grows.
<1>3. /\ srv'[j].current_term = tj /\ Len(lj) <= Len(srv'[j].log)
      /\ \A y \in 1 .. Len(lj) : srv'[j].log[y] = lj[y]
  <2>1. CASE j = i
    <3>1. b.state = "leader"
      BY <1>1, <2>1
    <3> QED
      BY <1>1, <2>1, <3>1, LeaderLog
  <2>2. CASE j # i
    BY <1>1, <1>2, <2>2
  <2> QED
    BY <2>1, <2>2
<1>4. CASE x = 0
  BY <1>4 DEF Acked
<1>5. CASE tj < srv[k].current_term
  <2>1. tj < srv'[k].current_term
    BY <1>1, <1>2, <1>5
  <2> QED
    BY <1>3, <2>1 DEF Acked
<1>6. CASE tj = srv[k].current_term /\ SameUpTo(lk, lj, x)
  <2>1. x <= Len(lk) /\ x <= Len(lj) /\ \A y \in 1 .. x : lk[y] = lj[y]
    BY <1>6 DEF SameUpTo
  <2>2. CASE k # i
    <3>1. SameUpTo(srv'[k].log, srv'[j].log, x)
      BY <1>1, <1>2, <1>3, <2>1, <2>2 DEF SameUpTo
    <3> QED
      BY <1>1, <1>3, <1>6, <2>2, <3>1 DEF Acked
  <2>3. CASE k = i /\ j = i
    <3>1. SameUpTo(srv'[k].log, srv'[j].log, x)
      BY <1>1, <1>2, <1>3, <2>1, <2>3 DEF SameUpTo
    <3> QED
      BY <2>3, <3>1 DEF Acked
  <2>4. CASE k = i /\ j # i
    <3>1. CASE tj < b.current_term
      BY <1>1, <1>3, <2>4, <3>1 DEF Acked
    <3>2. CASE tj = b.current_term
      <4>1. LogStep(i, b)
        BY DEF Becomes, RepStep
      <4>2. ~Appends(i, b)
        <5>1. <<tj, j>> \in elected
          BY DEF ReplicationInv, Elected
        <5>2. Appends(i, b) => <<tj, i>> \in elected
          BY <1>6, <2>4 DEF Appends, ReplicationInv, Elected
        <5> QED
          BY <2>4, <5>1, <5>2 DEF ReplicationInv, ElectionInv, ElectionSafety
      <4>3. SameUpTo(b.log, lj, x)
        <5>1. CASE b.log = lk
          BY <1>6, <5>1
        <5>2. CASE TakesOver(i, b)
          <6>1. PICK m \in net : /\ IsAppend(m) /\ m.term = tj
                                 /\ \E p : FromSeg(lk, MsgSeg(m), b.log, p)
            BY <2>4, <3>2, <5>2 DEF TakesOver
          <6>2. Part(MsgSeg(m), LogSeg(lj)) /\ Segment(MsgSeg(m))
            BY <6>1, StateTypes DEF ReplicationInv, AppendsFromLog
          <6> HIDE DEF lk, lj
          <6> QED
            BY <1>2, <1>6, <6>1, <6>2, TakeOverKeeps
        <5> QED
          BY <2>4, <4>1, <4>2, <5>1, <5>2 DEF LogStep
      <4>4. srv'[k].log = b.log /\ srv'[j].log = lj /\ srv'[k].current_term = tj
        BY <1>1, <2>4, <3>2
      <4> QED
        BY <1>3, <4>3, <4>4 DEF Acked
    <3> QED
      BY <1>2, <1>6, <2>4, <3>1, <3>2
  <2> QED
    BY <2>2, <2>3, <2>4
<1> QED
  BY <1>4, <1>5, <1>6 DEF Acked

\* How far a log follows what leader j has sent, it has j's entries.
LEMMA FollowsSame ==
    ASSUME NEW g \in Seq(Entries), NEW l \in Seq(Entries), NEW s, Segment(s),
           Part(s, LogSeg(l)), NEW x \in Nat \ {0}, Follows(g, s, x),
           Alike(LogSeg(g), LogSeg(l))
    PROVE  SameUpTo(g, l, x)
<1> DEFINE G == LogSeg(g)
           L == LogSeg(l)
<1>1. /\ s.lo \in Nat /\ Hi(s) \in Nat /\ Len(g) \in Nat /\ Len(l) \in Nat
  BY SegmentFacts
<1>2. /\ G.lo = 0 /\ Hi(G) = Len(g)
      /\ \A y \in 1 .. Len(g) : Ent(G, y) = g[y]
      /\ L.lo = 0 /\ Hi(L) = Len(l)
      /\ \A y \in 1 .. Len(l) : Ent(L, y) = l[y]
  BY LogSegFacts
<1>3. s.lo <= x /\ x <= Len(g) /\ x <= Hi(s) /\ \A y \in s.lo .. x : Tm(G, y) = Tm(s, y)
  BY DEF Follows
<1>4. Hi(s) <= Hi(L) /\ \A y \in s.lo .. Hi(s) : Tm(s, y) = Tm(L, y)
  BY DEF Part
<1>5. Alike(G, L)
  OBVIOUS
<1> HIDE DEF G, L
<1>6. x \in s.lo .. x /\ x \in s.lo .. Hi(s) /\ x \in 1 .. Len(g) /\ x \in 1 .. Len(l)
  BY <1>1, <1>2, <1>3, <1>4
<1>7. Tm(G, x) = Tm(L, x)
  BY <1>3, <1>4, <1>6
<1>8. x \in G.lo + 1 .. Hi(G) /\ x \in L.lo + 1 .. Hi(L)
  BY <1>2, <1>6
<1>9. \A y \in G.lo .. x : G.lo < y /\ L.lo < y => Ent(G, y) = Ent(L, y)
  BY <1>5, <1>7, <1>8 DEF Alike
<1>10. ASSUME NEW y \in 1 .. x PROVE g[y] = l[y]
  <2>1. y \in G.lo .. x /\ G.lo < y /\ L.lo < y /\ y \in 1 .. Len(g) /\ y \in 1 .. Len(l)
    BY <1>1, <1>2, <1>6
  <2> QED
    BY <1>2, <1>9, <2>1
<1> QED
  BY <1>6, <1>10 DEF SameUpTo

LEMMA AcknowledgedStep ==
    ASSUME ReplicationInv, NEW i \in Server, NEW b, Becomes(i, b)
    PROVE  Acknowledged'
<1> SUFFICES ASSUME NEW j \in Server, srv'[j].state = "leader"
             PROVE  /\ \A k \in Server : Acked(j, k, srv[j].match_idx[k])'
                    /\ \A m \in net' : IsSuccess(m) /\ m.dst = j
                                       /\ m.term = srv'[j].current_term
                          => Acked(j, m.src, m.current_idx)'
  BY DEF Acknowledged
<1>1. /\ srv'[i].state = b.state /\ srv'[i].current_term = b.current_term
      /\ srv'[i].log = b.log /\ srv'[i].match_idx = b.match_idx
      /\ \A k \in Server : k # i => srv'[k] = srv[k]
  BY DEF Becomes
<1>2. ASSUME srv[j].state = "leader"
      PROVE  /\ srv'[j].current_term = srv[j].current_term
             /\ \A k \in Server : Acked(j, k, srv[j].match_idx[k])
             /\ \A m \in net : IsSuccess(m) /\ m.dst = j /\ m.term = srv[j].current_term
                   => Acked(j, m.src, m.current_idx)
  <2>1. CASE j = i
    <3>1. b.state = "leader"
      BY <1>1, <2>1
    <3> QED
      BY <1>1, <1>2, <2>1, <3>1, LeaderLog DEF ReplicationInv, Acknowledged
  <2>2. CASE j # i
    BY <1>1, <1>2, <2>2 DEF ReplicationInv, Acknowledged
  <2> QED
    BY <2>1, <2>2
<1>3. ASSUME NEW k \in Server PROVE Acked(j, k, srv[j].match_idx[k])'
  <2>1. PICK x : x = srv'[j].match_idx[k]
    OBVIOUS
  <2>2. Acked(j, k, x)'
    <3>1. CASE x = 0
      BY <3>1 DEF Acked
    <3>2. CASE srv[j].state = "leader" /\ x = srv[j].match_idx[k]
      <4>1. x \in Nat
        BY <3>2, StateTypes DEF Typed
      <4>2. Acked(j, k, x)
        BY <1>2, <3>2
      <4> QED
        BY <3>2, <4>1, <4>2, AckedStep
    <3>3. CASE j = i /\ \E m \in net : /\ IsSuccess(m) /\ m.src = k /\ m.dst = i
                              /\ srv[i].state = "leader"
                              /\ m.term = srv[i].current_term
                              /\ m.current_idx = x
      <4>1. PICK m \in net : /\ IsSuccess(m) /\ m.src = k /\ m.dst = i
                              /\ srv[i].state = "leader"
                              /\ m.term = srv[i].current_term
                              /\ m.current_idx = x
        BY <3>3
      <4>2. Acked(j, k, x)
        BY <1>2, <3>3, <4>1
      <4>3. x \in Nat
        BY <4>1, StateTypes DEF IsSuccess
      <4> QED
        BY <3>3, <4>1, <4>2, <4>3, AckedStep
    <3>4. MatchStep(i, b)
      BY DEF Becomes, RepStep
    <3>5. CASE j = i
      <4>1. x = b.match_idx[k] /\ b.state = "leader"
        BY <1>1, <2>1, <3>5
      <4> QED
        BY <3>1, <3>2, <3>3, <3>4, <3>5, <4>1 DEF MatchStep
    <3>6. CASE j # i
      BY <1>1, <2>1, <3>2, <3>6
    <3> QED
      BY <3>5, <3>6
  <2> QED
    BY <2>1, <2>2 DEF Acked
<1>4. ASSUME NEW m \in net', IsSuccess(m), m.dst = j, m.term = srv'[j].current_term
      PROVE  Acked(j, m.src, m.current_idx)'
  <2>1. CASE m \in net
    <3>1. m.src \in Server /\ m.current_idx \in Nat
      BY <1>4, <2>1, StateTypes DEF IsSuccess
    <3>2. srv[j].state = "leader"
      <4>1. CASE j = i
        <5>1. <<m.term, j>> \in elected
          BY <1>4, <2>1 DEF ReplicationInv, Elected
        <5>2. b.state = "leader" /\ m.term = b.current_term
          BY <1>1, <1>4, <4>1
        <5> QED
          BY <1>4, <2>1, <4>1, <5>1, <5>2, NewLeader DEF IsSuccess
      <4>2. CASE j # i
        BY <1>1, <4>2
      <4> QED
        BY <4>1, <4>2
    <3>3. Acked(j, m.src, m.current_idx)
      BY <1>2, <1>4, <2>1, <3>2
    <3> QED
      BY <3>1, <3>2, <3>3, AckedStep
  <2>2. CASE m \in b.out
    <3> DEFINE x == m.current_idx
    <3>1. m.src = i /\ m.term = b.current_term /\ x \in Nat /\ Confirms(i, b, m)
      BY <1>4, <2>2, StepTypes DEF IsSuccess, ResponseTyped
    <3>2. b.state = "follower"
      BY <3>1 DEF Confirms
    <3>3. PICK ae \in net : /\ IsAppend(ae) /\ ae.src = m.dst
                            /\ ae.term = b.current_term
                            /\ Follows(b.log, MsgSeg(ae), x)
      BY <3>1 DEF Confirms
    <3>4. j # i /\ srv'[j] = srv[j]
      BY <1>1, <3>2
    <3>5. Part(MsgSeg(ae), LogSeg(srv[j].log)) /\ Segment(MsgSeg(ae))
      BY <1>4, <3>1, <3>3, <3>4, StateTypes DEF ReplicationInv, AppendsFromLog
    <3>6. Alike(LogSeg(b.log), LogSeg(srv[j].log))
      BY LogAlike DEF Segments
    <3>7. b.log \in Seq(Entries) /\ srv[j].log \in Seq(Entries)
      BY StateTypes, StepTypes
    <3>8. x = 0 \/ SameUpTo(b.log, srv[j].log, x)
      BY <3>1, <3>3, <3>5, <3>6, <3>7, FollowsSame
    <3>9. srv'[i].current_term = srv'[j].current_term
      BY <1>1, <1>4, <3>1
    <3> HIDE DEF x
    <3>10. Acked(j, i, x)'
      BY <1>1, <3>4, <3>8, <3>9 DEF Acked, x
    <3> QED
      BY <3>1, <3>10 DEF x
  <2> QED
    BY <1>4, <2>1, <2>2 DEF Becomes
<1> QED
  BY <1>3, <1>4

LEMMA BecomesInv ==
    ASSUME ReplicationInv, NEW i \in Server, NEW b, Becomes(i, b)
    PROVE  ReplicationInv'
<1>1. ElectionInv'
  BY DEF Becomes
<1>2. ReplicationType' /\ Elected' /\ Matching' /\ Acknowledged'
  BY TypeStep, ElectedStep, MatchingStep, AcknowledgedStep
<1>3. EntriesFromLeaders' /\ AppendsFromLog'
  BY <1>2, EntriesStep, AppendsStep
<1> QED
  BY <1>1, <1>2, <1>3 DEF ReplicationInv
-----------------------------------------------------------------------------
(* The invariant.                                                          *)

LEMMA ReplicationInit == Init => ReplicationInv
<1> SUFFICES ASSUME Init PROVE ReplicationInv
  OBVIOUS
<1>1. ElectionInv
  BY ElectionInit
<1>2. net = {} /\ elected = {} /\ used.requests = 0
  BY DEF Init
<1>3. ASSUME NEW i \in Server
      PROVE  /\ Typed(srv[i]) /\ srv[i].state = "follower" /\ srv[i].log = <<>>
  <2>1. PICK me : me = srv[i]
    OBVIOUS
  <2>2. me = raft_new(i)
    BY <2>1 DEF Init
  <2>3. /\ me.id = i /\ me.state = "follower" /\ me.current_leader = Nil
        /\ me.snap = [idx |-> 0, term |-> 0] /\ me.base = 0 /\ me.front = 0
        /\ me.log = <<>> /\ me.fsm = <<>> /\ me.size = Capacity
        /\ me.commit_idx = 0 /\ me.last_applied_idx = 0
        /\ me.next_idx = [k \in Server |-> 1] /\ me.match_idx = [k \in Server |-> 0]
    BY <2>2 DEF raft_new
  <2>4. me.next_idx \in [Server -> Nat \ {0}] /\ me.match_idx \in [Server -> Nat]
    BY <2>3
  <2>5. me.match_idx[me.id] = 0 /\ me.log \in Seq(Entries) /\ me.fsm \in Seq(Entries)
    BY <2>3
  <2>6. Len(me.log) = 0 /\ Len(me.fsm) = 0 /\ me.size \in Nat \ {0}
    BY <2>3, CapacityAssumption
  <2>7. Typed(me)
    BY <2>3, <2>4, <2>5, <2>6 DEF Typed
  <2> QED
    BY <2>1, <2>3, <2>7
<1>4. ReplicationType
  BY <1>2, <1>3 DEF ReplicationType
<1>5. Elected /\ AppendsFromLog /\ Acknowledged
  BY <1>2, <1>3 DEF Elected, AppendsFromLog, Acknowledged
<1>6. \A s \in Segments : s.lo = 0 /\ Hi(s) = 0
  <2>1. \A s \in Segments : s = LogSeg(<<>>)
    BY <1>2, <1>3 DEF Segments
  <2>2. LogSeg(<<>>).lo = 0 /\ Hi(LogSeg(<<>>)) = 0
    BY DEF LogSeg, Hi
  <2> QED
    BY <2>1, <2>2
<1>7. EntriesFromLeaders
  BY <1>6 DEF EntriesFromLeaders
<1>8. Matching
  BY <1>6 DEF Matching, Alike
<1> QED
  BY <1>1, <1>4, <1>5, <1>7, <1>8 DEF ReplicationInv

\* Every action is such a step of one server.
LEMMA NextBecomes ==
    ASSUME MaxSnapshots = 0, ReplicationInv, Next
    PROVE  \E i \in Server : \E b : Becomes(i, b)
<1>1. ElectionInv /\ used.requests \in Nat
  BY DEF ReplicationInv, ReplicationType
<1>2. ElectionInv'
  BY <1>1, NextIsGood, StepInv
<1>3. /\ \A m \in net : Message(m)
      /\ DOMAIN used = {"requests", "snapshots", "restarts"} /\ used.snapshots = 0
      /\ \A i \in Server : srv[i].snapshot_in_progress = FALSE
  BY <1>1 DEF ElectionInv, ElectionType, ServerOK
<1>4. ASSUME NEW i \in Server, NEW b, RepStep(i, b), NEW given \in SUBSET net,
             Update(i, b, given), used'.requests \in Nat
      PROVE  \E j \in Server : \E c : Becomes(j, c)
  BY <1>2, <1>4, UpdateBecomes
<1>5. ASSUME NEW i \in Server, Periodic(i)
      PROVE  \E j \in Server : \E c : Becomes(j, c)
  <2>1. PICK timer, cb : Update(i, raft_periodic(With(i, cb), timer), {}) /\ used' = used
    BY <1>5 DEF Periodic
  <2> QED
    BY <1>1, <1>4, <2>1, PeriodicRep
<1>6. CASE RecvAppendEntries
  <2>1. PICK m \in net, cb \in Callbacks :
          /\ m.type = "appendentries"
          /\ Update(m.dst, raft_recv_appendentries(With(m.dst, cb), m), {m})
          /\ used' = used
    BY <1>6 DEF RecvAppendEntries, Receive
  <2>2. m.dst \in Server /\ IsAppend(m)
    BY <1>3, <2>1 DEF Message, IsAppend
  <2>3. RepStep(m.dst, raft_recv_appendentries(With(m.dst, cb), m))
    BY <2>2, AppendEntriesRep
  <2> QED
    BY <1>1, <1>4, <2>1, <2>2, <2>3
<1>7. CASE RecvAppendEntriesResponse
  <2>1. PICK m \in net, cb \in Callbacks :
          /\ m.type = "appendentries_response"
          /\ Update(m.dst, raft_recv_appendentries_response(With(m.dst, cb), m), {m})
          /\ used' = used
    BY <1>7 DEF RecvAppendEntriesResponse, Receive
  <2>2. m.dst \in Server /\ IsResponse(m)
    BY <1>3, <2>1 DEF Message, IsResponse
  <2>3. RepStep(m.dst, raft_recv_appendentries_response(With(m.dst, cb), m))
    BY <2>2, AppendEntriesResponseRep
  <2> QED
    BY <1>1, <1>4, <2>1, <2>2, <2>3
<1>8. CASE RecvRequestVote
  <2>1. PICK m \in net, cb \in Callbacks :
          /\ Update(m.dst, raft_recv_requestvote(With(m.dst, cb), m), {m})
          /\ used' = used
    BY <1>8 DEF RecvRequestVote, Receive
  <2>2. m.dst \in Server
    BY <1>3 DEF Message
  <2>3. RepStep(m.dst, raft_recv_requestvote(With(m.dst, cb), m))
    BY <2>2, RequestVoteRep
  <2> QED
    BY <1>1, <1>4, <2>1, <2>2, <2>3
<1>9. CASE RecvRequestVoteResponse
  <2>1. PICK m \in net, cb \in Callbacks :
          /\ Update(m.dst, raft_recv_requestvote_response(With(m.dst, cb), m), {m})
          /\ used' = used
    BY <1>9 DEF RecvRequestVoteResponse, Receive
  <2>2. m.dst \in Server
    BY <1>3 DEF Message
  <2>3. RepStep(m.dst, raft_recv_requestvote_response(With(m.dst, cb), m))
    BY <2>2, RequestVoteResponseRep
  <2> QED
    BY <1>1, <1>4, <2>1, <2>2, <2>3
<1>10. CASE RecvSnapshot
  BY <1>3, <1>10 DEF RecvSnapshot, Receive, Message
<1>11. ASSUME NEW i \in Server, RecvEntry(i)
       PROVE  \E j \in Server : \E c : Becomes(j, c)
  <2>1. PICK cb \in Callbacks : Update(i, raft_recv_entry(With(i, cb), used'.requests), {})
    BY <1>11 DEF RecvEntry
  <2>2. /\ srv[i].state = "leader" /\ used.requests < MaxRequests
        /\ used'.requests = used.requests + 1
    BY <1>3, <1>11 DEF RecvEntry
  <2>3. PICK id : id = used'.requests
    OBVIOUS
  <2>4. id \in 1 .. MaxRequests /\ used'.requests \in Nat
    BY <1>1, <2>2, <2>3, BoundAssumption
  <2>5. RepStep(i, raft_recv_entry(With(i, cb), id))
    BY <2>2, <2>4, EntryRep
  <2> QED
    BY <1>4, <2>1, <2>3, <2>4, <2>5
<1>12. ASSUME NEW i \in Server, BeginSnapshot(i) \/ CancelSnapshot(i) \/ EndSnapshot(i)
       PROVE  FALSE
  BY <1>3, <1>12 DEF BeginSnapshot, CancelSnapshot, EndSnapshot
<1>13. ASSUME NEW i \in Server, Restart(i)
       PROVE  \E j \in Server : \E c : Becomes(j, c)
  <2>1. Update(i, Reload(srv[i]), {})
    BY <1>13 DEF Restart
  <2>2. used'.requests = used.requests
    BY <1>3, <1>13 DEF Restart
  <2> QED
    BY <1>1, <1>4, <2>1, <2>2, RestartRep
<1> QED
  BY <1>5, <1>6, <1>7, <1>8, <1>9, <1>10, <1>11, <1>12, <1>13 DEF Next

LEMMA ReplicationInvariant ==
    ASSUME MaxSnapshots = 0
    PROVE  Spec => []ReplicationInv
<1>1. ReplicationInv /\ [Next]_vars => ReplicationInv'
  <2>1. CASE ReplicationInv /\ Next
    BY <2>1, NextBecomes, BecomesInv
  <2>2. CASE ReplicationInv /\ UNCHANGED vars
    <3>1. srv' = srv /\ net' = net /\ elected' = elected /\ used' = used
      BY <2>2 DEF vars
    <3>2. ElectionInv'
      BY <2>2, <3>1 DEF ReplicationInv, ElectionInv, ElectionType, ClaimsGiven, OneClaim,
                LeadersBacked, ElectionSafety, Backed, Claim, Granted, Counted, Gave
    <3>3. ReplicationType'
      BY <2>2, <3>1 DEF ReplicationInv, ReplicationType
    <3>4. Elected'
      BY <2>2, <3>1 DEF ReplicationInv, Elected
    <3>5. Segments' = Segments
      BY <3>1 DEF Segments
    <3>6. EntriesFromLeaders'
      BY <2>2, <3>1, <3>5 DEF ReplicationInv, EntriesFromLeaders
    <3>7. Matching'
      BY <2>2, <3>5 DEF ReplicationInv, Matching
    <3>8. AppendsFromLog'
      BY <2>2, <3>1 DEF ReplicationInv, AppendsFromLog
    <3>9. Acknowledged'
      BY <2>2, <3>1 DEF ReplicationInv, Acknowledged, Acked
    <3> QED
      BY <3>2, <3>3, <3>4, <3>6, <3>7, <3>8, <3>9 DEF ReplicationInv
  <2> QED
    BY <2>1, <2>2
<1> QED
  BY <1>1, ReplicationInit, PTL DEF Spec
-----------------------------------------------------------------------------
(* The properties.                                                         *)

\* Without snapshots a server's log is all the entries it has.
LEMMA WholeLog ==
    ASSUME NEW me, Typed(me)
    PROVE  /\ Whole(me) = me.log /\ me.log \in Seq(Entries) /\ Len(me.log) \in Nat
           /\ Committed(me) = SubSeq(me.log, 1, me.commit_idx)
           /\ me.commit_idx \in Nat /\ me.commit_idx <= Len(me.log)
<1>1. /\ me.log \in Seq(Entries) /\ me.fsm \in Seq(Entries) /\ me.base = 0
      /\ me.commit_idx \in Nat /\ me.commit_idx <= Len(me.log)
      /\ Len(me.log) \in Nat /\ Len(me.fsm) \in Nat
  BY DEF Typed
<1>2. Lesser(0, Len(me.fsm)) = 0
  BY <1>1 DEF Lesser
<1>3. SubSeq(me.fsm, 1, 0) = <<>>
  BY <1>1
<1>4. <<>> \o me.log = me.log
  BY <1>1
<1>5. Whole(me) = me.log
  BY <1>1, <1>2, <1>3, <1>4 DEF Whole
<1>6. Lesser(me.commit_idx, Len(me.log)) = me.commit_idx
  BY <1>1 DEF Lesser
<1> QED
  BY <1>1, <1>5, <1>6 DEF Committed

LEMMA SameSubSeq ==
    ASSUME NEW a \in Seq(Entries), NEW b \in Seq(Entries), NEW x \in Nat,
           SameUpTo(a, b, x)
    PROVE  SubSeq(a, 1, x) = SubSeq(b, 1, x)
<1>1. x <= Len(a) /\ x <= Len(b) /\ \A y \in 1 .. x : a[y] = b[y]
  BY DEF SameUpTo
<1> DEFINE u == SubSeq(a, 1, x)
           v == SubSeq(b, 1, x)
<1>2. /\ u \in Seq(Entries) /\ v \in Seq(Entries) /\ Len(u) = x /\ Len(v) = x
      /\ \A y \in 1 .. x : u[y] = a[y] /\ v[y] = b[y]
  <2>1. /\ u \in Seq(Entries) /\ Len(u) = (IF 1 <= x THEN x - 1 + 1 ELSE 0)
        /\ \A y \in 1 .. x - 1 + 1 : u[y] = a[1 + y - 1]
    BY <1>1, SubSeqFacts
  <2>2. /\ v \in Seq(Entries) /\ Len(v) = (IF 1 <= x THEN x - 1 + 1 ELSE 0)
        /\ \A y \in 1 .. x - 1 + 1 : v[y] = b[1 + y - 1]
    BY <1>1, SubSeqFacts
  <2> HIDE DEF u, v
  <2> QED
    BY <2>1, <2>2
<1> HIDE DEF u, v
<1>3. u = v
  BY <1>1, <1>2, SeqEqual
<1> QED
  BY <1>3 DEF u, v

\* A stretch that b shares with a is a prefix of b.
LEMMA SamePrefix ==
    ASSUME NEW a \in Seq(Entries), NEW b \in Seq(Entries), NEW x \in Nat,
           SameUpTo(a, b, x)
    PROVE  IsPrefix(SubSeq(a, 1, x), b)
<1>1. x <= Len(a) /\ x <= Len(b)
  BY DEF SameUpTo
<1>2. SubSeq(a, 1, x) = SubSeq(b, 1, x)
  BY SameSubSeq
<1> DEFINE u == SubSeq(a, 1, x)
<1>3. u \in Seq(Entries) /\ Len(u) = x
  BY <1>1, SubSeqFacts
<1> HIDE DEF u
<1>4. SubSeq(u, 1, Len(u)) = u
  BY <1>3
<1>5. IsPrefix(u, b)
  BY <1>1, <1>2, <1>3, <1>4 DEF IsPrefix, u
<1> QED
  BY <1>5 DEF u

\* The types, and the order of the indices: a server applies no more than is
\* committed and commits no more than its log holds (raft_apply_entry,
\* raft_set_commit_idx).
THEOREM ServerTypes ==
    ASSUME MaxSnapshots = 0
    PROVE  Spec => []TypeOK
<1>1. ReplicationInv => TypeOK
  <2> SUFFICES ASSUME ReplicationInv, NEW i \in Server
               PROVE  LET me == srv[i] IN
        /\ me.current_term \in Nat /\ me.voted_for \in Server \cup {Nil}
        /\ me.state \in {"follower", "candidate", "leader"}
        /\ me.current_leader \in Server \cup {Nil}
        /\ me.log \in Seq(Entries) /\ me.fsm \in Seq(Entries)
        /\ Len(me.fsm) = me.last_applied_idx
        /\ me.base <= me.last_applied_idx
        /\ me.last_applied_idx <= me.commit_idx
        /\ me.commit_idx <= raft_get_current_idx(me)
        /\ \A k \in Server : me.next_idx[k] \in Nat \ {0} /\ me.match_idx[k] \in Nat
        /\ me.front \in 0 .. me.size - 1 /\ Len(me.log) <= me.size
    BY DEF TypeOK
  <2>1. PICK me : me = srv[i]
    OBVIOUS
  <2>2. Typed(me) /\ ServerOK(i, me)
    BY <2>1 DEF ReplicationInv, ReplicationType, ElectionInv, ElectionType
  <2>3. me.current_term \in Nat /\ me.voted_for \in Server \cup {Nil}
    BY <2>2 DEF ServerOK
  <2>4. raft_get_current_idx(me) = Len(me.log)
    BY <2>2, CurrentIdx
  <2>5. \A k \in Server : me.next_idx[k] \in Nat \ {0} /\ me.match_idx[k] \in Nat
    BY <2>2 DEF Typed
  <2>6. me.front \in 0 .. me.size - 1 /\ me.base <= me.last_applied_idx
    BY <2>2 DEF Typed
  <2> QED
    BY <2>1, <2>2, <2>3, <2>4, <2>5, <2>6 DEF Typed
<1> QED
  BY <1>1, ReplicationInvariant, PTL

\* Two logs with the same term at an index agree up to it, whatever order
\* appendentries arrive in and however often (the prev_log check and the
\* deletion of conflicting entries in raft_recv_appendentries).
THEOREM LogsMatch ==
    ASSUME MaxSnapshots = 0
    PROVE  Spec => []LogMatching
<1>1. ReplicationInv => LogMatching
  <2> SUFFICES ASSUME ReplicationInv, NEW i \in Server, NEW j \in Server,
                      NEW idx \in 1 .. Lesser(Len(Whole(srv[i])), Len(Whole(srv[j]))),
                      Whole(srv[i])[idx].term = Whole(srv[j])[idx].term
               PROVE  SubSeq(Whole(srv[i]), 1, idx) = SubSeq(Whole(srv[j]), 1, idx)
    BY DEF LogMatching
  <2>1. PICK a, b : a = srv[i].log /\ b = srv[j].log
    OBVIOUS
  <2>2. /\ Whole(srv[i]) = a /\ a \in Seq(Entries) /\ Len(a) \in Nat
        /\ Whole(srv[j]) = b /\ b \in Seq(Entries) /\ Len(b) \in Nat
    BY <2>1, StateTypes, WholeLog
  <2>3. idx \in Nat /\ idx \in 1 .. Len(a) /\ idx \in 1 .. Len(b) /\ a[idx].term = b[idx].term
    BY <2>2 DEF Lesser
  <2>4. Alike(LogSeg(a), LogSeg(b))
    BY <2>1 DEF ReplicationInv, Matching, Segments
  <2>5. \A y \in 1 .. idx : a[y] = b[y]
    <3>1. /\ LogSeg(a).lo = 0 /\ Hi(LogSeg(a)) = Len(a)
          /\ LogSeg(b).lo = 0 /\ Hi(LogSeg(b)) = Len(b)
          /\ \A y \in 1 .. Len(a) : /\ Ent(LogSeg(a), y) = a[y]
                                    /\ Tm(LogSeg(a), y) = a[y].term
          /\ \A y \in 1 .. Len(b) : /\ Ent(LogSeg(b), y) = b[y]
                                    /\ Tm(LogSeg(b), y) = b[y].term
      BY <2>2, LogSegFacts
    <3> QED
      BY <2>2, <2>3, <2>4, <3>1 DEF Alike
  <2>6. SameUpTo(a, b, idx)
    BY <2>2, <2>3, <2>5 DEF SameUpTo
  <2> QED
    BY <2>2, <2>3, <2>6, SameSubSeq
<1> QED
  BY <1>1, ReplicationInvariant, PTL

\* What a leader believes a node of its term has, its match_idx, the node has,
\* however late or often the answer came
\* (raft_recv_appendentries_response).
THEOREM MatchIdxTrue ==
    ASSUME MaxSnapshots = 0
    PROVE  Spec => []MatchIdxSound
<1>1. ReplicationInv => MatchIdxSound
  <2> SUFFICES ASSUME ReplicationInv, NEW i \in Server, NEW k \in Server,
                      srv[i].state = "leader",
                      srv[k].current_term = srv[i].current_term
               PROVE  /\ srv[i].match_idx[k] <= raft_get_current_idx(srv[k])
                      /\ SubSeq(Whole(srv[i]), 1, srv[i].match_idx[k])
                            = SubSeq(Whole(srv[k]), 1, srv[i].match_idx[k])
    BY DEF MatchIdxSound
  <2>1. PICK a, b, x : a = srv[i].log /\ b = srv[k].log /\ x = srv[i].match_idx[k]
    OBVIOUS
  <2>2. /\ Whole(srv[i]) = a /\ a \in Seq(Entries) /\ Len(a) \in Nat
        /\ Whole(srv[k]) = b /\ b \in Seq(Entries) /\ Len(b) \in Nat
        /\ raft_get_current_idx(srv[k]) = Len(b)
    BY <2>1, StateTypes, WholeLog, CurrentIdx
  <2>3. x \in Nat
    <3>1. Typed(srv[i])
      BY StateTypes
    <3> QED
      BY <2>1, <3>1 DEF Typed
  <2>4. x = 0 \/ SameUpTo(b, a, x)
    <3>1. Acked(i, k, x)
      BY <2>1 DEF ReplicationInv, Acknowledged
    <3>2. srv[i].current_term \in Nat
      BY StateTypes
    <3> QED
      BY <2>1, <3>1, <3>2 DEF Acked
  <2>5. SameUpTo(b, a, x)
    BY <2>2, <2>4 DEF SameUpTo
  <2>6. x <= Len(b) /\ SubSeq(b, 1, x) = SubSeq(a, 1, x)
    BY <2>2, <2>3, <2>5, SameSubSeq DEF SameUpTo
  <2> QED
    BY <2>1, <2>2, <2>6
<1> QED
  BY <1>1, ReplicationInvariant, PTL

\* What a server knows to be committed never leaves its log and a leader only
\* appends, whatever old or repeated appendentries arrive
\* (raft_recv_appendentries, raft_delete_entry_from_idx) and across a restart.
THEOREM CommittedStay ==
    ASSUME MaxSnapshots = 0
    PROVE  Spec => CommittedKept
<1>1. ReplicationInv /\ [Next]_vars => [\A i \in Server : Keeps(i)]_vars
  <2> SUFFICES ASSUME ReplicationInv, Next PROVE \A i \in Server : Keeps(i)
    OBVIOUS
  <2>0. PICK i \in Server : \E b : Becomes(i, b)
    BY NextBecomes
  <2>1. PICK b : Becomes(i, b)
    BY <2>0
  <2>2. ReplicationInv'
    BY <2>1, BecomesInv
  <2> SUFFICES ASSUME NEW j \in Server
               PROVE  /\ IsPrefix(Committed(srv[j]), Whole(srv'[j]))
                      /\ srv[j].state = "leader" /\ srv'[j].state = "leader"
                         => IsPrefix(Whole(srv[j]), Whole(srv'[j]))
    BY DEF Keeps
  <2>3. PICK a, g, c : a = srv[j].log /\ g = srv'[j].log /\ c = srv[j].commit_idx
    OBVIOUS
  <2>4. Typed(srv[j]) /\ Typed(srv'[j])
    BY <2>1, <2>2, StateTypes DEF ReplicationInv, ReplicationType
  <2>5. /\ Whole(srv[j]) = a /\ a \in Seq(Entries) /\ Len(a) \in Nat
        /\ Committed(srv[j]) = SubSeq(a, 1, c) /\ c \in Nat /\ c <= Len(a)
        /\ Whole(srv'[j]) = g /\ g \in Seq(Entries) /\ Len(g) \in Nat
    BY <2>3, <2>4, WholeLog
  <2>6. SameUpTo(a, g, c)
    <3>1. CASE g = a
      BY <2>5, <3>1 DEF SameUpTo
    <3>2. CASE j = i /\ Appends(i, b)
      <4>1. PICK e \in Entries : g = Append(a, e)
        BY <2>1, <2>3, <3>2 DEF Appends, Becomes
      <4> QED
        BY <2>5, <4>1 DEF SameUpTo
    <3>3. CASE j = i /\ TakesOver(i, b)
      <4>1. PICK s, p : FromSeg(a, s, g, p) /\ c <= p
        BY <2>1, <2>3, <3>3 DEF TakesOver, Becomes
      <4> QED
        BY <2>5, <4>1 DEF FromSeg, SameUpTo
    <3> QED
      BY <2>1, <2>3, <3>1, <3>2, <3>3 DEF Becomes, RepStep, LogStep
  <2>7. ASSUME srv[j].state = "leader", srv'[j].state = "leader"
        PROVE  SameUpTo(a, g, Len(a))
    <3>1. CASE j # i
      BY <2>1, <2>3, <2>5, <3>1 DEF Becomes, SameUpTo
    <3>2. CASE j = i
      <4>1. b.state = "leader" /\ b.log = g
        BY <2>1, <2>3, <2>7, <3>2 DEF Becomes
      <4>2. Len(a) <= Len(g) /\ \A y \in 1 .. Len(a) : g[y] = a[y]
        BY <2>1, <2>3, <3>2, <4>1, LeaderLog
      <4> QED
        BY <2>5, <4>2 DEF SameUpTo
    <3> QED
      BY <3>1, <3>2
  <2>8. SubSeq(a, 1, Len(a)) = a
    BY <2>5
  <2>9. IsPrefix(Committed(srv[j]), Whole(srv'[j]))
    BY <2>5, <2>6, SamePrefix
  <2>10. ASSUME srv[j].state = "leader", srv'[j].state = "leader"
         PROVE  IsPrefix(Whole(srv[j]), Whole(srv'[j]))
    <3>1. IsPrefix(SubSeq(a, 1, Len(a)), g)
      BY <2>5, <2>7, <2>10, SamePrefix
    <3> QED
      BY <2>5, <2>8, <3>1
  <2> QED
    BY <2>9, <2>10
<1> QED
  BY <1>1, ReplicationInvariant, PTL DEF Spec, CommittedKept
=============================================================================
