----------------------------- MODULE RaftServer -----------------------------
(***************************************************************************)
(* The Raft server of raft/raft_server.c, raft_server_properties.c and     *)
(* raft_node.c: N servers that run the library, the network between them   *)
(* and the user code the library calls back.                               *)
(*                                                                         *)
(* srv[i] is the raft_server_private_t of server i; a C function that      *)
(* changes it is an operator from a server to a server, and each entry     *)
(* point that the user calls is an action.  Membership is fixed: every     *)
(* server knows all N, each active and voting, and log entries are of type *)
(* RAFT_LOGTYPE_NORMAL, so raft_offer_log and raft_pop_log return at once. *)
(*                                                                         *)
(* The log is a sequence with a base index, which is what RaftLog is shown *)
(* to implement; front and size are kept because log_get_from_idx ends its *)
(* batch at the end of the array.                                          *)
(*                                                                         *)
(* External, modelled from how the library uses it: the network (loses,    *)
(* reorders and duplicates messages), the persist_* and log_* callbacks    *)
(* (may fail), the user's state machine, snapshot transfer and restart.    *)
(***************************************************************************)
EXTENDS Integers, Sequences, FiniteSets, SequencesExt

CONSTANTS N,             \* the servers are 1 .. N, in raft_add_node order
          Capacity,      \* INITIAL_CAPACITY of the log
          MayFail,       \* callbacks that may return an error
          Duplicates,    \* whether the network may deliver a message twice
          Starters,      \* bound: Starters[t], the servers that may start an
                         \* election into term t; none beyond its length
          MaxRequests,   \* bound: client entries
          MaxMsgs,       \* bound: messages in flight
          MaxRestarts,   \* bound: crashes
          MaxSnapshots,  \* bound: snapshots begun
          Snapshotters   \* bound: the servers that take snapshots

ASSUME NAssumption == N \in Nat \ {0}
ASSUME CapacityAssumption == Capacity \in Nat \ {0}
ASSUME StartersAssumption == Starters \in Seq(SUBSET (1 .. N))
ASSUME BoundAssumption ==
    /\ MaxRequests \in Nat /\ MaxMsgs \in Nat
    /\ MaxRestarts \in Nat /\ MaxSnapshots \in Nat
    /\ Duplicates \in BOOLEAN /\ Snapshotters \subseteq 1 .. N

VARIABLES srv,       \* srv[i]: the state of server i
          net,       \* messages in flight
          used,      \* how much of each bound is used up
          elected,   \* history: <<term, i>> when i became leader
          answers    \* history: raft_recv_entry answers [at, id, idx, term]

vars == <<srv, net, used, elected, answers>>

Server == 1 .. N
Nil == 0             \* voted_for -1, current_leader NULL
Peers(me) == Server \ {me.id}
Lesser(a, b) == IF a < b THEN a ELSE b
Greater(a, b) == IF a < b THEN b ELSE a

\* What the user's callbacks answer during one call: whether persist_term and
\* persist_vote succeed, and how many calls of log_offer do.
AllWell == [persist_term |-> TRUE, persist_vote |-> TRUE, log_offer |-> MaxRequests]

Callbacks ==
    [persist_term : IF "persist_term" \in MayFail THEN BOOLEAN ELSE {TRUE},
     persist_vote : IF "persist_vote" \in MayFail THEN BOOLEAN ELSE {TRUE},
     log_offer    : IF "log_offer" \in MayFail THEN 0 .. MaxRequests
                                               ELSE {MaxRequests}]

\* raft_new, raft_set_callbacks and raft_add_node of every server.  The last
\* five fields belong to the user: what persist_* wrote, the state machine
\* (the entries applied so far), the messages the current call has sent, the
\* answers of its callbacks, and what made the server stop.
\* late: timeout_elapsed has reached election_timeout (kept while there is a
\* leader, the only time it is read).
raft_new(i) ==
    [id |-> i, current_term |-> 0, voted_for |-> Nil, state |-> "follower",
     current_leader |-> Nil, late |-> FALSE,
     log |-> <<>>, base |-> 0, front |-> 0, size |-> Capacity,
     commit_idx |-> 0, last_applied_idx |-> 0,
     next_idx |-> [k \in Server |-> 1], match_idx |-> [k \in Server |-> 0],
     votes |-> {},
     snapshot_in_progress |-> FALSE, nonblocking |-> FALSE,
     snap |-> [idx |-> 0, term |-> 0], saved |-> [idx |-> 0, term |-> 0],
     disk |-> [term |-> 0, vote |-> Nil], fsm |-> <<>>,
     out |-> {}, cb |-> AllWell, stopped |-> "no"]

\* A failed assert, or RAFT_ERR_SHUTDOWN: the server stops.
Abort(me, why) == [me EXCEPT !.stopped = why, !.out = {}]
-----------------------------------------------------------------------------
(* The log.                                                                *)

raft_get_current_idx(me) == me.base + Len(me.log)

\* raft_get_entry_from_idx(me, idx) is not NULL, and its value.
HasEntry(me, idx) == idx \in me.base + 1 .. raft_get_current_idx(me)
EntryAt(me, idx) == me.log[idx - me.base]

raft_get_last_log_term(me) ==
    LET idx == raft_get_current_idx(me)
    IN  IF HasEntry(me, idx) THEN EntryAt(me, idx).term ELSE 0

\* __ensurecapacity, called for one entry after the other until need entries
\* fit: a full array doubles.
__ensurecapacity(size, need) ==
    LET grown[p \in 0 .. need] ==
            IF p = 0 THEN size
            ELSE IF grown[p - 1] < need THEN 2 * grown[p - 1] ELSE grown[p - 1]
    IN  grown[need]

\* raft_append_entry for each of etys, up to the first that log_offer refuses:
\* room is made before log_offer is asked, and moves the front to slot 0.
raft_append_entries(me, etys) ==
    LET n == Lesser(me.cb.log_offer, Len(etys))
        need == Len(me.log) + Lesser(n + 1, Len(etys))
    IN  [me EXCEPT !.log = @ \o SubSeq(etys, 1, n),
                   !.size = __ensurecapacity(@, need),
                   !.front = IF me.size < need THEN 0 ELSE @,
                   !.cb.log_offer = @ - n]

raft_append_entry(me, ety) == raft_append_entries(me, <<ety>>)

raft_delete_entry_from_idx(me, idx) ==
    IF me.commit_idx < idx
    THEN [me EXCEPT !.log = SubSeq(@, 1, idx - me.base - 1)]
    ELSE Abort(me, "delete committed")

\* log_get_from_idx: the entries in the slots from idx's on, up to the
\* youngest or the last slot of the array.
raft_get_entries_from_idx(me, idx) ==
    LET k == idx - me.base
        slot == (me.front + k - 1) % me.size
        n == Lesser(Len(me.log) - k + 1, me.size - slot)
    IN  IF HasEntry(me, idx) THEN SubSeq(me.log, k, k + n - 1) ELSE <<>>

raft_set_commit_idx(me, idx) ==
    IF me.commit_idx <= idx /\ idx <= raft_get_current_idx(me)
    THEN [me EXCEPT !.commit_idx = idx]
    ELSE Abort(me, "commit_idx")
-----------------------------------------------------------------------------
(* Terms and votes.                                                        *)

TermNotPersisted(me, term) == me.current_term < term /\ ~me.cb.persist_term

raft_set_current_term(me, term) ==
    IF me.current_term < term
    THEN [me EXCEPT !.current_term = term, !.voted_for = Nil,
                    !.disk = [term |-> term, vote |-> Nil]]
    ELSE me

raft_vote_for_nodeid(me, id) ==
    IF me.cb.persist_vote
    THEN [me EXCEPT !.voted_for = id, !.disk.vote = id]
    ELSE me

raft_become_follower(me) == [me EXCEPT !.state = "follower", !.late = FALSE]

\* The step down on a message with a higher term.
StepDown(me, term) ==
    [raft_become_follower(raft_set_current_term(me, term))
        EXCEPT !.current_leader = Nil]
-----------------------------------------------------------------------------
(* Sending.                                                                *)

NeedsSnapshot(me, k) == 0 < me.snap.idx /\ me.next_idx[k] < me.snap.idx

\* The last snapshot the user has completed.
Complete(me) == IF me.snapshot_in_progress THEN me.saved ELSE me.snap

\* What the user sends when send_snapshot asks for it: its last complete
\* snapshot, if there is one.
send_snapshot(me, k) ==
    LET s == Complete(me)
    IN  IF s.idx = 0 THEN {}
        ELSE {[type |-> "snapshot", src |-> me.id, dst |-> k, idx |-> s.idx,
               term |-> s.term, fsm |-> SubSeq(me.fsm, 1, s.idx)]}

send_appendentries(me, k) ==
    LET next == me.next_idx[k]
        prev == IF next <= 1 THEN [idx |-> 0, term |-> 0]
                ELSE IF HasEntry(me, next - 1)
                THEN [idx |-> next - 1, term |-> EntryAt(me, next - 1).term]
                ELSE me.snap
    IN  {[type |-> "appendentries", src |-> me.id, dst |-> k,
          term |-> me.current_term, leader_commit |-> me.commit_idx,
          prev_log_idx |-> prev.idx, prev_log_term |-> prev.term,
          entries |-> raft_get_entries_from_idx(me, next)]}

\* raft_send_appendentries(me, k) for each k in ks.
raft_send_appendentries(me, ks) ==
    [me EXCEPT !.out = @ \cup UNION {IF NeedsSnapshot(me, k)
                                     THEN send_snapshot(me, k)
                                     ELSE send_appendentries(me, k) : k \in ks}]

raft_send_requestvote(me, k) ==
    [type |-> "requestvote", src |-> me.id, dst |-> k,
     term |-> me.current_term, last_log_idx |-> raft_get_current_idx(me),
     last_log_term |-> raft_get_last_log_term(me)]

\* The loop returns at the first node that needs a snapshot.
raft_send_appendentries_all(me) ==
    raft_send_appendentries([me EXCEPT !.late = FALSE],
             {k \in Peers(me) : \A j \in Peers(me) : j < k => ~NeedsSnapshot(me, j)})
-----------------------------------------------------------------------------
(* Roles.                                                                  *)

raft_become_leader(me) ==
    raft_send_appendentries([me EXCEPT !.state = "leader", !.current_leader = me.id,
                        !.late = FALSE,
                        !.next_idx = [k \in Server |->
                            IF k = me.id THEN @[k] ELSE raft_get_current_idx(me) + 1],
                        !.match_idx = [k \in Server |->
                            IF k = me.id THEN @[k] ELSE 0]],
             Peers(me))

\* The result of persist_vote is ignored.
raft_become_candidate(me) ==
    LET m == raft_vote_for_nodeid([raft_set_current_term(me, me.current_term + 1)
                                      EXCEPT !.votes = {}], me.id)
        c == [m EXCEPT !.current_leader = Nil, !.state = "candidate", !.late = FALSE]
    IN  IF TermNotPersisted(me, me.current_term + 1) THEN me
        ELSE [c EXCEPT !.out = @ \cup {raft_send_requestvote(c, k) : k \in Peers(c)}]

raft_is_apply_allowed(me) == ~me.snapshot_in_progress \/ me.nonblocking

\* Applies up to commit_idx; a compacted entry would end the loop at once.
raft_apply_all(me) ==
    IF /\ raft_is_apply_allowed(me)
       /\ me.last_applied_idx < me.commit_idx
       /\ HasEntry(me, me.last_applied_idx + 1)
    THEN [me EXCEPT !.last_applied_idx = me.commit_idx,
                    !.fsm = @ \o SubSeq(me.log, me.last_applied_idx + 1 - me.base,
                                        me.commit_idx - me.base)]
    ELSE me
-----------------------------------------------------------------------------
(* raft_periodic.  timer says how far timeout_elapsed has come: "due" is   *)
(* request_timeout for a leader and election_timeout_rand for the others,  *)
(* "late" is election_timeout, which a leader never reaches.               *)

Timers(me) ==
    IF me.state = "leader" THEN {"early", "due"}
    ELSE IF me.late THEN {"late", "due"} ELSE {"early", "late", "due"}

Elects(me, timer) ==
    me.state # "leader" /\ timer = "due" /\ ~me.snapshot_in_progress /\ 1 < N

raft_periodic(me, timer) ==
    IF N = 1 /\ me.state # "leader" THEN raft_apply_all(raft_become_leader(me))
    ELSE IF me.state = "leader"
    THEN raft_apply_all(IF timer = "due" THEN raft_send_appendentries_all(me) ELSE me)
    ELSE LET m == [me EXCEPT !.late = me.current_leader # Nil /\ timer # "early"]
         IN  IF ~Elects(me, timer) THEN raft_apply_all(m)
             ELSE IF TermNotPersisted(m, m.current_term + 1) THEN m
             ELSE raft_apply_all(raft_become_candidate(m))
-----------------------------------------------------------------------------
(* Receiving appendentries.                                                *)

Answer(me, ae, success, idx) ==
    [me EXCEPT !.out = @ \cup
        {[type |-> "appendentries_response", src |-> me.id, dst |-> ae.src,
          term |-> me.current_term, success |-> success, current_idx |-> idx]}]

Refuse(me, ae) == Answer(me, ae, FALSE, raft_get_current_idx(me))

\* 4. of the handler: commit up to the leader's commit index.
FollowCommit(me, leader_commit) ==
    IF me.commit_idx < leader_commit
    THEN raft_set_commit_idx(me, Lesser(Greater(raft_get_current_idx(me), 1),
                                        leader_commit))
    ELSE me

\* Variant: the whole log is acknowledged, not what the message confirmed.
Acknowledges_whole_log(me, ae) ==
    LET n == Len(ae.entries)
        At(j) == ae.prev_log_idx + j
        Known(j) == /\ HasEntry(me, At(j))
                    /\ EntryAt(me, At(j)).term = ae.entries[j].term
        first == CHOOSE j \in 1 .. n + 1 :
                    /\ \A l \in 1 .. j - 1 : Known(l)
                    /\ j = n + 1 \/ ~Known(j)
        conflict == first <= n /\ HasEntry(me, At(first))
        cut == IF conflict THEN raft_delete_entry_from_idx(me, At(first)) ELSE me
        grown == raft_append_entries(cut, SubSeq(ae.entries, first, n))
    IN  Answer(FollowCommit(grown, ae.leader_commit), ae, TRUE,
               raft_get_current_idx(grown))

\* Variant: what follows the message's entries is cut off, conflict or not.
Cuts_without_conflict(me, ae) ==
    LET keep == SubSeq(me.log, 1, ae.prev_log_idx - me.base)
        m == [me EXCEPT !.log = keep \o ae.entries]
    IN  Answer(FollowCommit(m, ae.leader_commit), ae, TRUE,
               ae.prev_log_idx + Len(ae.entries))

\* Variant: entries are appended although they are there, from a message that
\* comes twice or late.
Appends_again(me, ae) ==
    LET grown == raft_append_entries(me, ae.entries)
    IN  Answer(FollowCommit(grown, ae.leader_commit), ae, TRUE,
               ae.prev_log_idx + Len(ae.entries))

\* 3. of the handler: first is the first entry of ae that the log lacks or
\* holds with another term; the log is cut there and the rest appended.
AcceptEntries(me, ae) ==
    LET n == Len(ae.entries)
        At(j) == ae.prev_log_idx + j
        Known(j) == /\ HasEntry(me, At(j))
                    /\ EntryAt(me, At(j)).term = ae.entries[j].term
        first == CHOOSE j \in 1 .. n + 1 :
                    /\ \A l \in 1 .. j - 1 : Known(l)
                    /\ j = n + 1 \/ ~Known(j)
        conflict == first <= n /\ HasEntry(me, At(first))
        cut == IF conflict THEN raft_delete_entry_from_idx(me, At(first)) ELSE me
        rest == SubSeq(ae.entries, first, n)
        grown == raft_append_entries(cut, rest)
        added == Len(grown.log) - Len(cut.log)
    IN  IF conflict /\ At(first) <= me.commit_idx
        THEN Abort(me, "conflicts with committed entry")
        ELSE Answer(IF added < Len(rest) THEN grown
                    ELSE FollowCommit(grown, ae.leader_commit),
                    ae, TRUE, At(first - 1 + added))

\* 2. of the handler: the entry before the new ones.
CheckPrev(me, ae) ==
    IF ae.prev_log_idx = me.snap.idx
    THEN IF me.snap.term # ae.prev_log_term
         THEN Abort(me, "snapshot conflicts with committed entry")
         ELSE AcceptEntries(me, ae)
    ELSE IF ~HasEntry(me, ae.prev_log_idx) THEN Refuse(me, ae)
    ELSE IF EntryAt(me, ae.prev_log_idx).term # ae.prev_log_term
    THEN IF ae.prev_log_idx <= me.commit_idx
         THEN Abort(me, "prev conflicts with committed entry")
         ELSE Refuse(raft_delete_entry_from_idx(me, ae.prev_log_idx), ae)
    ELSE AcceptEntries(me, ae)

raft_recv_appendentries(me, ae) ==
    LET m == IF \/ me.current_term < ae.term
                \/ me.state = "candidate" /\ me.current_term = ae.term
             THEN raft_become_follower(raft_set_current_term(me, ae.term))
             ELSE me
        f == [m EXCEPT !.current_leader = ae.src, !.late = FALSE]
    IN  IF ae.term < me.current_term \/ TermNotPersisted(me, ae.term)
        THEN Refuse(me, ae)
        ELSE IF 0 < ae.prev_log_idx THEN CheckPrev(f, ae)
        ELSE AcceptEntries(f, ae)
-----------------------------------------------------------------------------
(* Receiving an appendentries response.                                    *)

raft_node_set_next_idx(me, k, idx) == [me EXCEPT !.next_idx[k] = Greater(idx, 1)]

\* The follower refused: back off and retry, unless the answer is stale.
BackOff(me, k, r) ==
    LET next == me.next_idx[k]
    IN  IF next <= 0 THEN Abort(me, "next_idx")
        ELSE IF r.current_idx < me.match_idx[k] THEN me
        ELSE raft_send_appendentries(
               raft_node_set_next_idx(me, k,
                 IF r.current_idx < next - 1
                 THEN Lesser(r.current_idx + 1, raft_get_current_idx(me))
                 ELSE next - 1), {k})

\* A majority holds point: the leader itself and the nodes that match it.
raft_leader_commit(me, point) ==
    IF /\ me.commit_idx < point
       /\ EntryAt(me, point).term = me.current_term
       /\ N \div 2 < 1 + Cardinality({k \in Peers(me) : point <= me.match_idx[k]})
    THEN raft_set_commit_idx(me, point)
    ELSE me

raft_recv_appendentries_response(me, r) ==
    LET k == r.src
        m == raft_leader_commit(
               [raft_node_set_next_idx(me, k, r.current_idx + 1)
                   EXCEPT !.match_idx[k] = r.current_idx], r.current_idx)
    IN  IF me.state # "leader" THEN me
        ELSE IF me.current_term < r.term
        THEN IF TermNotPersisted(me, r.term) THEN me ELSE StepDown(me, r.term)
        ELSE IF me.current_term # r.term THEN me
        ELSE IF ~r.success THEN BackOff(me, k, r)
        ELSE IF r.current_idx <= me.match_idx[k] THEN me
        ELSE IF raft_get_current_idx(me) < r.current_idx
        THEN Abort(me, "response beyond log")
        ELSE IF HasEntry(m, m.next_idx[k]) THEN raft_send_appendentries(m, {k}) ELSE m
-----------------------------------------------------------------------------
(* Votes.                                                                  *)

\* Variant: the candidate's log is not compared with ours.
Grants_without_log_check(me, vr) ==
    vr.term >= me.current_term /\ me.voted_for = Nil

\* Variant: an earlier vote in the term is not looked at.
Votes_again(me, vr) == vr.term >= me.current_term

__should_grant_vote(me, vr) ==
    LET idx == raft_get_current_idx(me)
        term == IF HasEntry(me, idx) THEN EntryAt(me, idx).term ELSE me.snap.term
    IN  /\ vr.term >= me.current_term
        /\ me.voted_for = Nil
        /\ \/ idx = 0
           \/ /\ HasEntry(me, idx) \/ me.snap.idx = idx
              /\ \/ term < vr.last_log_term
                 \/ vr.last_log_term = term /\ idx <= vr.last_log_idx

VoteAnswer(me, vr, granted) ==
    [me EXCEPT !.out = @ \cup
        {[type |-> "requestvote_response", src |-> me.id, dst |-> vr.src,
          term |-> me.current_term, vote_granted |-> granted]}]

raft_recv_requestvote(me, vr) ==
    LET m == IF me.current_term < vr.term THEN StepDown(me, vr.term) ELSE me
        v == raft_vote_for_nodeid(m, vr.src)
    IN  IF \/ /\ me.current_leader \notin {Nil, vr.src}
              /\ ~me.late
           \/ TermNotPersisted(me, vr.term)
        THEN VoteAnswer(me, vr, FALSE)
        ELSE IF ~__should_grant_vote(m, vr) THEN VoteAnswer(m, vr, FALSE)
        ELSE IF m.state # "follower" THEN Abort(m, "leader or candidate grants")
        ELSE VoteAnswer([v EXCEPT !.current_leader = Nil, !.late = FALSE],
                        vr, m.cb.persist_vote)

raft_get_nvotes_for_me(me) ==
    Cardinality(me.votes \ {me.id}) + (IF me.voted_for = me.id THEN 1 ELSE 0)

raft_votes_is_majority(num_nodes, nvotes) ==
    nvotes <= num_nodes /\ num_nodes \div 2 + 1 <= nvotes

raft_recv_requestvote_response(me, r) ==
    LET m == [me EXCEPT !.votes = @ \cup {r.src}]
    IN  IF me.state # "candidate" THEN me
        ELSE IF me.current_term < r.term
        THEN IF TermNotPersisted(me, r.term) THEN me ELSE StepDown(me, r.term)
        ELSE IF me.current_term # r.term \/ ~r.vote_granted THEN me
        ELSE IF raft_votes_is_majority(N, raft_get_nvotes_for_me(m))
        THEN raft_become_leader(m) ELSE m
-----------------------------------------------------------------------------
(* Client entries.                                                         *)

raft_recv_entry(me, id) ==
    LET m == raft_append_entry(me, [term |-> me.current_term, id |-> id])
        s == raft_send_appendentries(m, {k \in Peers(m) : m.next_idx[k] = raft_get_current_idx(m)})
    IN  IF Len(m.log) = Len(me.log) THEN m
        ELSE IF N = 1 THEN raft_set_commit_idx(s, raft_get_current_idx(s)) ELSE s

\* Variant: the entry at the index is taken for the client's.
Index_means_committed(me, r) ==
    IF ~HasEntry(me, r.idx) THEN 0 ELSE IF r.idx <= me.commit_idx THEN 1 ELSE 0

\* 1: committed, 0: not yet or unknown, -1: another entry took its place.
raft_msg_entry_response_committed(me, r) ==
    IF ~HasEntry(me, r.idx) THEN 0
    ELSE IF EntryAt(me, r.idx).term # r.term THEN -1
    ELSE IF r.idx <= me.commit_idx THEN 1 ELSE 0
-----------------------------------------------------------------------------
(* Snapshots.                                                              *)

raft_get_num_snapshottable_logs(me) ==
    IF Len(me.log) <= 1 THEN 0 ELSE me.commit_idx - me.base

raft_set_snapshot_metadata(me, term, idx) ==
    [me EXCEPT !.saved = me.snap, !.snap = [idx |-> idx, term |-> term]]

raft_begin_snapshot(me, flags) ==
    LET m == raft_apply_all(me)
    IN  IF m.commit_idx # m.last_applied_idx THEN Abort(m, "begin_snapshot")
        ELSE [raft_set_snapshot_metadata(m, EntryAt(m, m.commit_idx).term, m.commit_idx)
                EXCEPT !.snapshot_in_progress = TRUE, !.nonblocking = flags]

raft_cancel_snapshot(me) ==
    [me EXCEPT !.snap = me.saved, !.snapshot_in_progress = FALSE]

\* Variant: every entry is polled, not only the snapshotted ones.
Polls_whole_log(me) ==
    LET n == Len(me.log)
    IN  [me EXCEPT !.log = <<>>, !.base = @ + n, !.front = (@ + n) % me.size,
                   !.snapshot_in_progress = FALSE]

\* Polls the snapshotted entries; a leader then sends the snapshot to the
\* nodes that need it.
raft_end_snapshot(me) ==
    LET n == raft_get_num_snapshottable_logs(me)
        m == [me EXCEPT !.log = SubSeq(@, n + 1, Len(@)),
                        !.base = @ + n,
                        !.front = (@ + n) % me.size,
                        !.snapshot_in_progress = FALSE]
    IN  IF n = 0 \/ me.snap.idx # me.commit_idx THEN Abort(me, "end_snapshot")
        ELSE IF m.state # "leader" THEN m
        ELSE raft_send_appendentries(m, {k \in Peers(m) : NeedsSnapshot(m, k)})

\* raft_begin_load_snapshot goes ahead.
Loads(me, term, idx) ==
    /\ idx # 0 /\ term # 0
    /\ me.last_applied_idx <= idx
    /\ raft_get_current_idx(me) <= idx
    /\ [idx |-> idx, term |-> term] # me.snap

\* Variant: the entries of the snapshot are applied again after it is loaded.
Loads_without_last_applied(me, term, idx, fsm) ==
    [raft_set_snapshot_metadata(me, term, idx)
        EXCEPT !.log = <<>>, !.base = idx, !.front = 0, !.commit_idx = idx,
               !.fsm = fsm, !.voted_for = Nil, !.state = "follower"]

\* raft_begin_load_snapshot, the user's state machine and nodes replaced
\* (raft_add_node: fresh nodes), and raft_end_load_snapshot.
raft_load_snapshot(me, term, idx, fsm) ==
    LET m == [me EXCEPT !.current_term = term, !.voted_for = Nil,
                        !.state = "follower", !.current_leader = Nil,
                        !.log = <<>>, !.base = idx, !.front = 0]
        c == raft_set_commit_idx(m, Greater(m.commit_idx, idx))
    IN  [raft_set_snapshot_metadata(c, term, idx)
            EXCEPT !.last_applied_idx = idx, !.fsm = fsm, !.votes = {},
                   !.next_idx = [k \in Server |-> IF k = me.id THEN @[k] ELSE 1],
                   !.match_idx = [k \in Server |-> IF k = me.id THEN @[k] ELSE 0]]

\* "We need to send an appendentries response" (raft.h).
recv_snapshot(me, m) ==
    IF Loads(me, m.term, m.idx)
    THEN Answer(raft_load_snapshot(me, m.term, m.idx, m.fsm), m, TRUE, m.idx)
    ELSE me

\* Variant: the vote is not reloaded.
Forgets_vote(me) ==
    LET new == [raft_new(me.id) EXCEPT !.disk = me.disk]
    IN  raft_append_entries(raft_set_current_term(new, me.disk.term), me.log)

\* The process restarts: the user reloads the last complete snapshot, the
\* term, the vote and the log (raft.h: "to reload persistent state").
Reload(me) ==
    LET s == Complete(me)
        new == [raft_new(me.id) EXCEPT !.disk = me.disk, !.cb.log_offer = Len(me.log)]
        loaded == IF s.idx = 0 THEN new
                  ELSE raft_load_snapshot(new, s.term, s.idx, SubSeq(me.fsm, 1, s.idx))
        termed == raft_set_current_term(loaded, me.disk.term)
        voted == raft_vote_for_nodeid(termed, me.disk.vote)
    IN  [raft_append_entries(voted, me.log) EXCEPT !.disk = me.disk]
-----------------------------------------------------------------------------
(* The actions: one call of the library by the user of server i.           *)

\* Server i becomes m; the network keeps some of what it sent, and drops or
\* keeps the message it was given.
Update(i, m, given) ==
    /\ srv' = [srv EXCEPT ![i] = [m EXCEPT !.out = {}, !.cb = AllWell]]
    /\ \E lost \in SUBSET m.out, again \in IF Duplicates THEN {{}, given} ELSE {{}} :
          net' = (net \ given) \cup again \cup (m.out \ lost)
    /\ Cardinality(net') <= MaxMsgs
    /\ elected' = IF m.state = "leader" /\ srv[i].state # "leader"
                  THEN elected \cup {<<m.current_term, i>>} ELSE elected

Running(i) == srv[i].stopped = "no"
With(i, cb) == [srv[i] EXCEPT !.cb = cb]

MayStart(i, term) == term <= Len(Starters) /\ i \in Starters[term]

Periodic(i) ==
    /\ Running(i)
    /\ \E timer \in Timers(srv[i]), cb \in Callbacks :
         /\ Elects(srv[i], timer) => MayStart(i, srv[i].current_term + 1)
         /\ Update(i, raft_periodic(With(i, cb), timer), {})
    /\ UNCHANGED <<used, answers>>

Receive(type, handler(_, _)) ==
    \E m \in net, cb \in Callbacks :
        /\ m.type = type
        /\ Running(m.dst)
        /\ Update(m.dst, handler(With(m.dst, cb), m), {m})
        /\ UNCHANGED <<used, answers>>

RecvAppendEntries == Receive("appendentries", raft_recv_appendentries)
RecvAppendEntriesResponse ==
    Receive("appendentries_response", raft_recv_appendentries_response)
RecvRequestVote == Receive("requestvote", raft_recv_requestvote)
RecvRequestVoteResponse ==
    Receive("requestvote_response", raft_recv_requestvote_response)
RecvSnapshot == Receive("snapshot", recv_snapshot)

\* Not a leader: RAFT_ERR_NOT_LEADER and no change.
RecvEntry(i) ==
    /\ Running(i)
    /\ srv[i].state = "leader"
    /\ used.requests < MaxRequests
    /\ used' = [used EXCEPT !.requests = @ + 1]
    /\ \E cb \in Callbacks :
         LET m == raft_recv_entry(With(i, cb), used'.requests)
         IN  /\ Update(i, m, {})
             /\ answers' = IF Len(m.log) = Len(srv[i].log) THEN answers
                           ELSE answers \cup {[at |-> i, id |-> used'.requests,
                                               idx |-> raft_get_current_idx(m),
                                               term |-> m.current_term]}

\* The user takes one snapshot at a time.
BeginSnapshot(i) ==
    /\ Running(i)
    /\ ~srv[i].snapshot_in_progress
    /\ used.snapshots < MaxSnapshots /\ i \in Snapshotters
    /\ raft_get_num_snapshottable_logs(srv[i]) # 0
    /\ srv[i].commit_idx # 0
    /\ HasEntry(srv[i], srv[i].commit_idx)
    /\ \E flags \in BOOLEAN : Update(i, raft_begin_snapshot(srv[i], flags), {})
    /\ used' = [used EXCEPT !.snapshots = @ + 1]
    /\ UNCHANGED answers

CancelSnapshot(i) ==
    /\ Running(i)
    /\ srv[i].snapshot_in_progress
    /\ Update(i, raft_cancel_snapshot(srv[i]), {})
    /\ UNCHANGED <<used, answers>>

EndSnapshot(i) ==
    /\ Running(i)
    /\ srv[i].snapshot_in_progress /\ srv[i].snap.idx # 0
    /\ Update(i, raft_end_snapshot(srv[i]), {})
    /\ UNCHANGED <<used, answers>>

Restart(i) ==
    /\ Running(i)
    /\ used.restarts < MaxRestarts
    /\ Update(i, Reload(srv[i]), {})
    /\ used' = [used EXCEPT !.restarts = @ + 1]
    /\ UNCHANGED answers

Init ==
    /\ srv = [i \in Server |-> raft_new(i)]
    /\ net = {}
    /\ used = [requests |-> 0, snapshots |-> 0, restarts |-> 0]
    /\ elected = {}
    /\ answers = {}

Next ==
    \/ \E i \in Server : Periodic(i)
    \/ RecvAppendEntries
    \/ RecvAppendEntriesResponse
    \/ RecvRequestVote
    \/ RecvRequestVoteResponse
    \/ RecvSnapshot
    \/ \E i \in Server : RecvEntry(i)
    \/ \E i \in Server : BeginSnapshot(i)
    \/ \E i \in Server : CancelSnapshot(i)
    \/ \E i \in Server : EndSnapshot(i)
    \/ \E i \in Server : Restart(i)

Spec == Init /\ [][Next]_vars
-----------------------------------------------------------------------------
(* Correctness.                                                            *)

\* Every entry server me has: the compacted ones are in its state machine.
Whole(me) == SubSeq(me.fsm, 1, Lesser(me.base, Len(me.fsm))) \o me.log
Committed(me) == SubSeq(Whole(me), 1, Lesser(me.commit_idx, Len(Whole(me))))

Entries == [term : Nat, id : 1 .. MaxRequests]

\* The fields have their types, and the indices of a server are ordered.
TypeOK ==
    \A i \in Server : LET me == srv[i] IN
        /\ me.current_term \in Nat /\ me.voted_for \in Server \cup {Nil}
        /\ me.state \in {"follower", "candidate", "leader"}
        /\ me.current_leader \in Server \cup {Nil}
        /\ me.log \in Seq(Entries) /\ me.fsm \in Seq(Entries)
        /\ Len(me.fsm) = me.last_applied_idx
        /\ me.base <= me.last_applied_idx
        /\ me.last_applied_idx <= me.commit_idx
        /\ me.commit_idx <= raft_get_current_idx(me)
        /\ \A k \in Server : me.next_idx[k] \in Nat \ {0} /\ me.match_idx[k] \in Nat
        /\ me.front \in 0 .. me.size - 1 /\ Len(me.log) <= me.size

\* No two servers become leader in one term, restarts and lost, duplicated or
\* reordered votes included (raft_recv_requestvote, raft_become_candidate,
\* raft_get_nvotes_for_me).
ElectionSafety ==
    \A a, b \in elected : a[1] = b[1] => a = b

\* Two logs with the same term at an index agree up to it: what the prev_log
\* check and the deletion of conflicting entries in raft_recv_appendentries
\* are for.
LogMatching ==
    \A i, j \in Server :
        LET a == Whole(srv[i])
            b == Whole(srv[j])
        IN  \A idx \in 1 .. Lesser(Len(a), Len(b)) :
                a[idx].term = b[idx].term => SubSeq(a, 1, idx) = SubSeq(b, 1, idx)

\* A leader has every entry that a server of its own or an earlier term has
\* committed (__should_grant_vote's up-to-date test, the current-term rule of
\* raft_recv_appendentries_response).
LeaderCompleteness ==
    \A i, j \in Server :
        srv[i].state = "leader" /\ srv[j].current_term <= srv[i].current_term
        => IsPrefix(Committed(srv[j]), Whole(srv[i]))

\* applylog hands every server's state machine the same entries in the same
\* order.
StateMachineSafety ==
    \A i, j \in Server :
        \/ IsPrefix(srv[i].fsm, srv[j].fsm)
        \/ IsPrefix(srv[j].fsm, srv[i].fsm)

\* What is applied anywhere is in the logs of a majority at that index:
\* leader_commit is "the index of the entry that has been appended to the
\* majority of the cluster. Entries up to this index will be applied to the
\* FSM" (raft.h).
AppliedOnMajority ==
    \A i \in Server : \A idx \in 1 .. Len(srv[i].fsm) :
        N \div 2 < Cardinality({j \in Server :
            /\ idx <= Len(Whole(srv[j]))
            /\ Whole(srv[j])[idx] = srv[i].fsm[idx]})

\* What a leader believes a node has (match_idx, the ground for committing)
\* the node really has, however stale the answer it was learnt from.
MatchIdxSound ==
    \A i, k \in Server :
        /\ srv[i].state = "leader"
        /\ srv[k].current_term = srv[i].current_term
        => /\ srv[i].match_idx[k] <= raft_get_current_idx(srv[k])
           /\ SubSeq(Whole(srv[i]), 1, srv[i].match_idx[k])
                 = SubSeq(Whole(srv[k]), 1, srv[i].match_idx[k])

\* raft_msg_entry_response_committed, asked at the server that took the
\* entry: once it says "committed" (1) no server applies another entry at that
\* index.
CommittedFinal ==
    \A r \in answers, j \in Server :
        /\ r.idx <= Len(srv[j].fsm)
        /\ raft_msg_entry_response_committed(srv[r.at], r) = 1
        => srv[j].fsm[r.idx].id = r.id

\* What its comment "entry from another leader has invalidated this entry
\* message" makes of the answer -1: no server applies an entry for which the
\* server that took it says so.
InvalidatedFinal ==
    \A r \in answers, j \in Server :
        /\ r.idx <= Len(srv[j].fsm)
        /\ raft_msg_entry_response_committed(srv[r.at], r) = -1
        => srv[j].fsm[r.idx].id # r.id

\* No assert fails and no branch marked "Should never happen; something is
\* seriously wrong!" is taken.
NeverStopped == \A i \in Server : srv[i].stopped = "no"

\* A server's term never goes back and it votes once in a term, also across a
\* restart ("The candidate the server voted for in its current term",
\* raft_private.h).
VoteOncePerTerm ==
    [][\A i \in Server :
         /\ srv[i].current_term <= srv[i]'.current_term
         /\ srv[i].current_term = srv[i]'.current_term /\ srv[i].voted_for # Nil
            => srv[i]'.voted_for = srv[i].voted_for]_vars

Keeps(i) ==
    /\ IsPrefix(Committed(srv[i]), Whole(srv[i]'))
    /\ srv[i].state = "leader" /\ srv[i]'.state = "leader"
       => IsPrefix(Whole(srv[i]), Whole(srv[i]'))

\* What a server knows to be committed never leaves its log, and a leader
\* only appends to its own.
CommittedKept == [][\A i \in Server : Keeps(i)]_vars
=============================================================================
