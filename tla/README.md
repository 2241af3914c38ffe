# A TLA+ verification of homeKeeper

homeKeeper is a set of small C++ daemons for a home server, with a C library for
Raft consensus and a header-only JSON library in the same tree. This directory holds
TLA+ models of its concurrent and fault-tolerant parts and of the algorithms its
data goes through, the TLC configurations that check them on small
instances, and TLAPS proofs of what matters most for every instance.

Run everything from this directory:

    tlc -workers 2 -config MCRaftReplication.cfg MCRaftServer   # one run
    tlapm RaftLogProofs.tla                                     # one proof module

`PROJECT.json` lists the runs, the properties, the source lines behind each definition,
the hazards and the theorems.

## 1. Inventory

| Component | Source | State | Operations | What is hard | Modelled in |
|---|---|---|---|---|---|
| Raft log | `raft/raft_log.c` | `entries, size, count, front, back, base` | append, delete from an index, poll, empty, clear, load from snapshot; look-ups by index, batch, tail | wrap-around, growth, callbacks that fail half-way | `RaftLog`, `AbstractLog`, `RaftLogProofs` |
| Raft server | `raft/raft_server.c`, `raft_server_properties.c`, `raft_node.c` | term, vote, role, leader, commit and applied index, per-node `next_idx`/`match_idx`/vote, snapshot metadata | `raft_periodic`, five `raft_recv_*`, snapshots, membership | lost, duplicated and reordered messages; crashes; failing persistence callbacks; snapshots against replication | `RaftServer`, `RaftReplicationProofs`, `RaftSafetyProofs` |
| Logger | `include/hmLog.hpp` | `logs`, `logsMutex`, `logCond`, level | `insertLog`, `printLog`, `setLevel`, destructor | condition variable without a condition, asynchronous cancellation, shutdown | `HmLog`, `HmLogProofs` |
| homeKeeper | `homeKeeper/*`, `include/tblIpInfo.hpp`, `tblEmailInfo.hpp`, `MysqlDataBase.hpp`, `EmailSender.hpp`, `curl.hpp` | table `ipInfo`, list of recipients | threads `getIp` and `sendEmail` | two threads over one table, each external call may fail | `Keeper`, `KeeperProofs` |
| Thread pool | `include/threadPool.hpp` | registered functions | `setFunction`, `start` | none beyond thread creation | in `Keeper`'s `Next` |
| TCP proxy | `include/tcpServer.hpp`, `tcpClient.hpp` | `clients` from descriptor to session, `clnt_sock`, the events of a round | accept, greet, read, forward, close | edge-triggered events, reused descriptors, which session a byte goes to, a call that blocks the only thread | `Proxy`, `ProxyProofs` |
| JSON reader | `include/json.hpp`: `lexer`, input adapters, `parser`, SAX consumers | characters and positions, `token_buffer`; the stack of open containers, `ref_stack`, `keep_stack` | `scan`, `parse`, `accept`, the callback | put-back of a character, UTF-8 and surrogates, three stacks that must stay in step | `JsonText`, `JsonLexer`, `JsonLexerProofs`, `JsonParser`, `JsonParserProofs`, `JsonGrammar` |
| JSON binary formats | `json.hpp`: `binary_writer`, `binary_reader` | the bytes and the place in them | `to_`/`from_` CBOR, MessagePack, UBJSON, BSON | limits of the encodings, input that ends early, sizes computed beforehand | `JsonValue`, `JsonBinary` |
| JSON documents | `json.hpp`: `json_pointer`, `basic_json`, `serializer` | a value | `patch`, `diff`, `flatten`, `unflatten`, `dump` | indices that shift while a patch is applied, escapes, a buffer flushed ahead of its end | `JsonPointer`, `JsonSerializer`, `JsonDocument` |
| Process master | `master/master.cpp` | workers of the configuration | start, watch, restart | `system` blocks, a stale pid | no |
| Device node | `node/`, `include/device.hpp` | socket descriptors | UDP loops | pure I/O | no |
| Frame | `frame/`, `common/` | | not built | | no |
| sqlGen, mailServer, tests, `file.hpp`, `env.hpp`, `base64.hpp` | | | I/O and text | | no |
| `3rdparty/` | | | vendored | | no |

How they interact: the master starts the daemons; in a daemon `keeper::start` registers
`getIp` and `sendEmail` in the thread pool, which run for ever and share only the database;
every thread logs through the one `hmLog` instance. `master.cpp` and `file.hpp` read their
configuration with `json::parse`. The proxy is one thread between its clients and an FTP
server. The Raft library is single-threaded:
its user calls it and it calls back (`raft_cbs_t`). Several servers interact only through
messages that the users carry.

## 2. Modules

* **`AbstractLog`** is what the Raft log promises: a sequence whose first element has index
  `base + 1`; entries join at the young end and leave at either end or all at once.
* **`RaftLog`** has the fields of `log_private_t` as variables and one action per function
  that changes them. `last` records the callbacks of the last call: `released` is what the
  user has been told to free. The callbacks `log_offer`, `log_pop` and `log_poll` may fail
  wherever they are called, and the allocation may fail when the array is full.
* **`RaftServer`** has a record `srv[i]` per server (`raft_server_private_t`, its nodes and
  its log). A C function that changes a server is an operator from a server to a server,
  under the C name; an entry point that the user calls is an action. Messages that a call
  sends collect in `out` and go to the network `net`, which may lose, delay, reorder and
  (if `Duplicates`) repeat them. A failed `assert` and `RAFT_ERR_SHUTDOWN` set `stopped`.
  The log is the sequence `AbstractLog` describes; `front` and `size` remain because
  `log_get_from_idx` ends its batch at the end of the array. `raft_append_entries` is the loop
  over `raft_append_entry` in one expression, and `__ensurecapacity` the doublings it causes.
  `elected` and `answers` are history. Timers are abstracted to what `raft_periodic` asks
  of them: not due, due, or (for `raft_recv_requestvote`) beyond `election_timeout`.
* **`HmLog`** splits `insertLog`, `printLog` and the destructor at each lock, unlock,
  signal and wait. `accepted` is history.
* **`Keeper`** splits `getIp` and `sendEmail` at each call to the outside. `tried` is history.
* **`Proxy`** has the epoll loop, one action per system call that another party can come
  between, and the clients, the kernel's queues and the FTP server as its environment. An
  edge is recorded when something arrives on a registered descriptor and taken by
  `epoll_wait`. `pc = "undefined"` stands for a use of `clients.end()`, `"killed"` for SIGPIPE.
* **`JsonLexer`** reads one character per step, chosen while it is read, so every text over
  the given pieces is a behaviour. After an error it may be asked for one more token, as `parse` does. A number's value keeps its width (`NumberBits`).
  `JsonText` says what characters spell, by arithmetic instead of by the lexer's tables.
* **`JsonParser`** takes one token per step from a lexer that may deliver any token, and
  drives one of the SAX consumers; the callback's answers are free. The value under
  construction is a map from paths to labels, so a pointer into it is a path.
  `JsonGrammar` is the grammar it is compared with.
* **`JsonValue`** holds the values: integers are their eight bytes, so the limits are those of
  the C++ types. **`JsonBinary`** writes and reads them; in between bytes are cut off or added.
  **`JsonPointer`** and **`JsonSerializer`** are the operations on documents, as operators
  under the names of the code. **`JsonDocument`** makes calls of all three, one after the
  other.
* **`MCRaftLog`, `MCRaftServer`, `MCKeeper`, `MCProxy`, `MCJson...`** give the constants of the runs.
* **`RaftLogProofs`, `HmLogProofs`, `KeeperProofs`, `ProxyProofs`, `JsonParserProofs`,
  `JsonLexerProofs`, `RaftReplicationProofs`, `RaftSafetyProofs`** hold the theorems.

Operators whose comment starts with *Variant* are faulty versions of the definition that
follows them; the `mutants` of `PROJECT.json` put each in the place of the real one and
TLC must then find the property violated.

External parts, modelled from their use: pthreads (a mutex of the default kind that anyone
may unlock, spurious wake-ups), the network, the persistence callbacks, the user's state
machine and snapshot transfer, TCP and epoll as the proxy uses them, the restart (the user reloads the last complete snapshot,
term, vote and log, as `raft.h` describes), MySQL with autocommit, SMTP, the address
service.

## 3. Runs

| Run | Bounds | Shows |
|---|---|---|
| `ringlog` | capacity 2 growing to 4, indices to 6, 2 entries (symmetric) | The ring keeps its shape (`RingInv`), batches and look-ups return the log's entries, callbacks are called once per entry, and the ring implements `AbstractLog`. |
| `raft_replication` | 3 servers, 2 terms (server 1 leads the first; 1, 2 or both stand for the second), 2 client entries, 2 messages in flight, duplicates, 1 restart, `NotAllAtOnce` | One leader per term, one vote per server and term, log matching, leader completeness, state-machine safety, nothing applied that a majority lacks, a "committed" that stays true, a true `match_idx` however stale the answers, committed entries that stay, no assert that fails. |
| `raft_snapshot` | 3 servers, 1 term, 2 entries, 1 snapshot on the leader, 1 restart anywhere, a `log_offer` that may fail | Indices stay ordered and committed entries survive compaction, transfer and reload. |
| `raft_stale_append` | 2 servers, 3 entries, 1 snapshot on either, 2 messages in flight | *Violated*: an old appendentries that arrives after a compaction is appended again. |
| `raft_invalidated` | 5 servers, 3 terms, 3 entries, `Partitioned` | *Violated*: an entry reported as invalidated is committed by a later leader. |
| `logger` | 2 logging threads, 2 levels, 3 messages | No message lost or overtaken before the shutdown, the destructor cancels only when all is written, and it returns. |
| `keeper` | 2 addresses, 2 changes, 1 odd answer of the address service, 3 rows of recipients of which one does not fit | A row is flagged only after its own mails, rows record changes only, a stable address is reported if from some time on no statement fails. |
| `json_parser` | every sequence of 5 to 10 tokens (by entry point) over brackets, separators, 2 keys, a number or the tokens of an error; any answer of the callback | The stacks agree, accepted is what the grammar derives, the value is the one spelled, less what the callback rejected, up to the discarded values of 5.6. |
| `json_filter` | the same | *Violated*: a call that succeeds leaves discarded values in its result. |
| `json_lexer` | texts of 4 to 6 pieces: boundary bytes of UTF-8, escapes at the limits of every length and surrogate range, numbers, literals, byte order marks; wide strings of 2 or 3 units, up to 2 units read beyond them | Tokens are what their characters spell, errors are errors of RFC 7159, positions are right, wide strings become the right UTF-8. |
| `json_document` | integers at all limits of the encodings, strings of up to 256 bytes and containers of up to 24 elements in 4 formats, every cut and 3 extra bytes; documents no writer makes, with lengths up to 2^64 - 1; pairs of documents for diff, moves, flattening, texts with every kind of ill-formed UTF-8 | Round trips, no prefix is accepted, BSON sizes are exact, patches make the target, a move can be undone, dump spells the value. |
| `proxy` | 2 connections (symmetric), 2 bytes each, accept may fail | No connection is left with unread input; connections that follow one another use the session that is theirs, each byte once and in order. |

Why the bounds are enough to be interesting: capacity 2 makes the ring wrap and grow
within three appends; two terms with three servers give an old leader with uncommitted
entries, a new leader that overwrites them and a third server on either side; one message
in flight with duplicates lets every message be lost or repeated, and two let them overtake
each other. All of that together is too much for one run: the constraint `NotAllAtOnce`
keeps two messages in flight to the replication between servers 1 and 2, and after a restart
one message and one entry. `Partitioned` fixes, for each of three terms, which servers the
network reaches; it only cuts behaviours off, so what `raft_invalidated` finds is a
behaviour of five servers. In the runs `persist_term` and `persist_vote` succeed; the theorems
about the server let them fail at any call (section 4). Three messages and two producers let a message arrive in each phase of the
print thread and of the destructor. `MCRaftServer` uses a VIEW that drops fields which are
reset before they are read (`LiveView`). A leader and a restarted server cannot both be
explored with three entries and snapshots in reasonable time: `raft_snapshot` has two.
With two connections a descriptor is closed and reused, events wait behind an accept that
blocks, and data arrives between any two system calls. Ten tokens hold three nested
containers and an object with a repeated key. In `json_lexer` integers have 4 bits
(`NumberBits`) instead of 64, so that two digits overflow both kinds; the code that decides
is `strtoull` and `strtoll` at the type's width. In `json_document` `string_buffer` has 16
bytes and `indent_string` 4 instead of 512 (`BufferSize`, `IndentSize`): strings of a few
characters then reach the flush in every state of the escaping loop. Lengths of 65535 and
65536, where CBOR and MessagePack change once more, are not reached by `RoundTrip`: `CborHead`,
`MsgpackHead` and the readers' `get_unsigned` treat all widths alike, and the integers of these
sizes are covered. `max_size()` is that of the usual 64-bit build.

Fairness. `logger`: a thread that is able to run runs, and a thread that asks for the mutex
again and again gets it (strong fairness; the destructor sleeps between tries and no
critical section blocks). No fairness is assumed of spurious wake-ups: the destructor's own
signal must suffice. `keeper`: both threads go on running (weak
fairness of `getIp` and `sendEmail`); nothing is assumed of the calls they make. That an
address is reported needs statements that succeed, and the code cannot bring that
about: it never reconnects after its first `init`, so a connection that is lost fails every
later statement. `StableAddressReported` says so in its premise (from some time on the address
does not change and no statement fails). The Raft, proxy and JSON runs are safety only.

Deadlock is checked except in `proxy`, where clients may stop sending and the loop waits for
ever, and in `json_document`, where a program ends after its calls.

## 4. Proofs

All proofs hold for every value of the constants that the named assumptions of a module allow:
any number of servers, threads, connections, entries, recipients and tokens, any initial
capacity, and arbitrary bounds.

**`RaftLogProofs`**
* `RingCorrect`: `Spec => [](TypeOK /\ RingInv)`. The conjunction is inductive: `TypeOK` alone
  does not say where `back` is, and `log_delete` and `log_append_entry` go by `back` while
  `log_poll` and the look-ups go by `front`. The argument rests on lemmas on `%` around a
  ring (`ModLap`, `ModBack`, `ModDistinct`, `ModNext`), because the code wraps in four
  different ways, and on `EnsureCapacity`: the ring after growth is the same sequence.
* `RingImplementsLog`: refinement of `AbstractLog` with `log <- Log`, one lemma per action.
* `LookupsSound` and `EntriesReleasedOnce` follow from the same invariant.

**`HmLogProofs`**
* `LoggerCorrect`: `Spec => [](TypeOK /\ Exclusive /\ InOrder)`. The invariant adds that a
  batch is non-empty only while the print thread writes it, and that `cancelled` belongs
  to the destructor's last round.
* `LoggerDrained`: `Spec => CancelsWhenDrained`, from the same invariant: the destructor
  holds the mutex, so the print thread is not writing, so the batch is empty.

**`KeeperProofs`**
* `MailedBeforeFlagged` (`FlaggedWasTried`) and `ChangesRecorded` (`RowsDiffer`). The invariant
  ties what each thread remembers to the table, which the other thread changes in between: rows
  are only added at the end and an address, once written, stays, so the row that
  `sendEmail` has read is still the one it flags.

**`ProxyProofs`**
* `NothingUnread` (`Drained`): a registered connection with input or an end that has not been
  read has an edge pending, or stands among the events of this round, or is being read.
* `SessionsDoNotMix` (`SoleClient`): with connections one after the other, the descriptor of the
  open connection is `clnt_sock`, its session is the one `clients` finds, and sessions of earlier
  connections are under no descriptor.

**`JsonParserProofs`**
* `PointersValid` (`StacksAgree`): the place in `sax_parse_internal` determines how the stacks
  stand to each other. The invariant says which entry of `ref_stack` is a container of the value,
  of which kind, and that each one lies inside the one below it; a container that the callback
  rejects has a null pointer, and so has everything in it.

**`JsonLexerProofs`**
* `PositionsExact` (`PositionsRight`): the counts that error messages report. The invariant `Position`
  says that the counts are right for the characters taken so far and that a character that has been
  put back is the last one delivered, so that taking it again restores them. Every handler changes the
  position only through `get` and `unget`; the column is claimed except while a newline is put back,
  where the code has lost the length of the line.

**`RaftReplicationProofs`**, for `MaxSnapshots = 0`
* `OneLeaderPerTerm` (`ElectionSafety`). `ElectionInv` relates a vote that is on its way or counted
  (`Claim`) to what the voter remembers and has persisted (`Gave`): a server claims a vote only
  if the voter has given it or has left the term (`ClaimsGiven`), no two servers claim the vote
  of one voter in one term (`OneClaim`), and whoever was elected has a majority whose votes
  nobody else can claim (`LeadersBacked`). Two majorities meet.
* `TermAndVoteKept` (`VoteOncePerTerm`) follows from the steps of the same proof.
* `LogsMatch` (`LogMatching`), `MatchIdxTrue` (`MatchIdxSound`), `CommittedStay` (`CommittedKept`) and
  `ServerTypes` (`TypeOK`), from one invariant, `ReplicationInv`. Logs and the entries of
  appendentries in flight are treated alike, as segments: a stretch of a log and the term of the
  entry before it. The invariant is `ElectionInv` and
  the types; `Elected` (appendentries come from, and successes go to, the one elected in their
  term); `EntriesFromLeaders` (an entry bears the term of a leader, who has that index as long as
  it leads); `Matching` (segments that agree on a term at an index agree below it);
  `AppendsFromLog` (what a leader sends is a part of its log, also later); `Acknowledged` (what
  a leader has been told, or is being told, of a node is true or the node has
  moved on to a later term). `LogMatching` alone is not inductive: an old message can
  be appended any time later, so messages must match logs and each other.
* Each handler is shown to be a step of the kind `RepStep` describes (one lemma per handler),
  and only `RepStep` is used to show that the invariant is kept.
* `ReplicationInv` was checked with TLC, with two servers and failing callbacks and with three
  servers and two terms (87554 and 388790 states), before it was proved.

**`RaftSafetyProofs`**, for `MaxSnapshots = 0`
* `LeadersComplete` (`LeaderCompleteness`), `StateMachinesAgree` (`StateMachineSafety`) and `AppliedHeld`
  (`AppliedOnMajority`), from one invariant, `SafetyInv`, on top of `ReplicationInv`.
  `LeaderCompleteness` says nothing of the elections that are still going on, so it is not inductive: what
  a majority has acknowledged must be related to the votes with which a later term can be won.
  For a history P (the beginning of a leader's log, ending with an entry of its term t) and a
  majority Q, `Safe(Q, P)` says that nobody gets past t without P: every member of Q that has left t
  has P, and so has every leader from t on, every log at least as up to date as P and every candidate
  of a later term with a vote from Q; what is sent in t or later agrees with P.
* `SafetyInv` has these parts. `Ordered`: terms in a log do not decrease and do not exceed the current
  term. `Asked`: a vote request names the end of its sender's log. `Sent`: a leader's `next_idx` leaves no
  gap, and what it sends reaches as far as the commit index it sends. `HeardWithin`: nobody acknowledges
  more than the leader has. `Office`: a leader's history is safe for every majority whose members
  have acknowledged it or have not left its term. `CommitsChosen`: a commit index lies within a history that is
  safe for, and held by, some majority (`Chosen`). `FsmLog`: what is applied is the log's beginning.
* Two majorities meet (`MajoritiesMeet`): the voter that a later leader and Q have in common has P, and
  `__should_grant_vote` compares logs (`VoteReaches`), so the candidate has P too. Here the proof needs
  that a leader commits by count only an entry of its own term (`LeaderChooses`), and
  that a voter persists the term before it answers.
* Each handler is shown to be a step of the kind `SafeCall` describes, and only that is used
  to show that the invariant is kept (`SafetyStep`).
* `AnswersCommitted`: `Spec => []CommittedFinal`, about the answer "committed"; "invalidated" is not final (`raft_invalidated`).
  The invariant `AnswersKept` adds that an entry with the index and term of an answer, in a log or in
  a message, is the one the answer is for, and that the term's leader cannot put another one there.
* `NeverStops` (`NeverStopped`), if `persist_vote` succeeds. Every `assert` and every branch marked
  "Should never happen" is excluded for its own reason: appendentries agree with what is committed
  (`NoConflict`, from `Chosen`), a response never acknowledges more than the leader has (`HeardWithin`),
  a commit index stays between the old one and the end of the log, `next_idx` is positive, and a leader or candidate
  has voted in its term (`Standing`), so it does not come to grant a vote. The
  hypothesis is needed: `raft_become_candidate` ignores the result of `persist_vote`
  (`raft_server.c:194`), and with a failure two candidates of one term meet the assert in
  `raft_recv_requestvote`; TLC finds that within three steps.
  In all other theorems about the server every callback may fail at any call.

Why `MaxSnapshots = 0`: with snapshots the statements are false of this code.
`raft_begin_load_snapshot` sets the term back (`raft_server.c:1389`), so a server can vote twice in a
term, and an old appendentries is appended again after a compaction (`raft_stale_append`). A
deployment that never calls `raft_begin_snapshot` satisfies the hypothesis.

Only model-checked:
* liveness (`ShutdownCompletes`, `StableAddressReported`): fairness and `ENABLED` are beyond the prover;
* what the runs with snapshots check (`raft_snapshot`);
* `BuildsDocument`, `FilterExact`, `AcceptsGrammar`, what `JsonBinary` and `JsonDocument` claim, and of `JsonLexer`
  `TokensSpelled`, `ErrorsReal` and `WideExact`: the definitions they compare the code with are recursive over data, as the code is. What a
  recursive definition computes for every input is out of the prover's reach, and they are
  checked on the bounded inputs.

## 5. Where the code and its documentation part

Shown by a run:

* `raft_stale_append` (`raft_server.c:488`). An index at or below the log's base is
  treated as missing, so an old message is appended again and its entries are applied at
  another index than the leader's.
* `raft_invalidated` (`raft_server.c:1099`, "entry from another leader has invalidated this entry
  message"): servers 1 and 2 hold an entry of term 1, server 3 wins term 2 with the
  votes of 4 and 5 and overwrites it at server 1, which now answers -1; then server 2 wins term 3 with
  4 and 5 and commits it. (Three servers need more terms for the like.) The answer 1
  ("committed") is final for any number of servers (`AnswersCommitted`).
* `json_filter` (`json.hpp:15197`, "always be `false` for JSON values after parsing"): see 6.

Met while modelling; the modules follow the code and the properties stay within what holds:

1. `raft_log.c:134`: `<=` where the entries are `base + 1 .. base + count`: `log_clear` is called
   for a slot without an entry, with indices one too low. `PopPollReleaseExactly` speaks of
   the other two callbacks.
2. `raft_server.c:1389`: `raft_begin_load_snapshot` assigns the term directly. A server in a
   later term returns to the snapshot's term with its vote cleared. `raft_snapshot` has one
   term.
3. `raft_server.c:1322`: the assert holds only if nothing is committed during a snapshot;
   `raft_snapshot` does not claim that no assert fails.
4. `raft_server.c:811`: `voting_cfg_change_log_idx` is set one below the index it is compared with.
5. `tcpServer.hpp:203`: with two connections open, bytes go to the session of the one accepted
   last; if that has ended, `clients.end()` is used. After a failed accept (`:136`) the rest
   of the round's events are lost. `SoleClient` and `Drained` say under which conditions they hold.
6. `json.hpp:3130`: discarded values stay in the result of a parse with a callback, although 13983 says
   "Discarded values in structured types are skipped" and 15197 that none are left: a member
   whose key is kept and whose scalar value is rejected; an object rejected at its end inside an
   array (3149 looks into objects only); an array rejected at its end as a member (3202 looks into
   arrays only). `json_filter` shows it; `FilterExact` is exact where none of these is rejected, and
   otherwise compares what is not marked. `dump` then writes `<discarded>` (12381).
7. `json.hpp:8833`: an object with the key `0` comes back from `unflatten` as an array; 20318 names
   empty containers as the only exception.
8. `json.hpp:12226`: `indent_string` is doubled once: a step above 1024 reads beyond it.
9. `json.hpp:4004`: a CBOR integer below the range of `int64_t` wraps; `18558`: `operator==` casts,
   so -1 equals 2^64 - 1. The values of `json_document` that are compared leave these out.
10. `json.hpp:6387`: the table above `scan_number` has `[error]` for `decimal1` on 1-9; the code (6547-6559) goes on,
    and 0.1 is a number, as RFC 7159 has it (6373 names it as the reference). `ErrorsReal`
    compares with the RFC.
11. `json.hpp:12744`: `std::abs` of the lowest `int64_t` is undefined. `JsonSerializer` takes what the
    usual builds do, the number itself, which the cast to unsigned makes right; `json_document`
    dumps it, so `DumpReadsBack` holds for such builds.
12. `json.hpp:2547`: a `u16string` that ends in a lone high surrogate moves `current_wchar` past its
    size, and the test at 2503 is for equality: the scan that a strict `parse` without exceptions makes after
    the error reads beyond the string. The model reads any unit of `Garbage` there, or stops
    (`Fault`); `WideExact` is claimed for well-formed strings.
13. `json.hpp:4094`: a CBOR count of 2^64 - 1 is npos and read as an indefinite length; a UBJSON
    string of negative length is read as empty; the sizes in BSON are ignored. `DocumentsRead`
    records these as they are.

## 6. Not modelled

Membership changes (every server knows all others from the start, entries are normal ones),
an `applylog` that fails, `log_pop` and `log_poll` failing inside the server (covered for the
log alone), text and file names of log lines and mails, `sendFile` (never registered), the
uninitialised `flag` of `MysqlDataBase::setSql`, and the components marked so above. The
counters of the Raft library are C `int` and `long`, far from overflow at any rate it runs.

Of the proxy: `mailProxy.hpp`, errors of the calls that set the listening socket up, and what
the FTP server sends after its greeting (the proxy never reads it). Of `json.hpp`: iterators,
conversions to and from C++ types, `merge_patch`, exception texts, user-defined SAX consumers
and the digits `grisu2` finds for a double (numerical analysis, not a
state machine). `master.cpp` is one sequential loop whose two defects, a `system` call that does
not return and a pid kept from the worker before, can be read off its lines; they are
listed as hazards.

## 7. Plan

1. `RaftMembership`: `raft_offer_log`, `raft_pop_log`, `raft_apply_entry`, adding, promoting and
   removing nodes, and the `voting_cfg_change_log_idx` bookkeeping.
2. `RaftServer`: failing `applylog`; liveness of replication under fair delivery.
3. Proofs: the Raft theorems with snapshots, once `raft_begin_load_snapshot` keeps the term and an index
   below the base is told from a missing one.
