------------------------------ MODULE RaftLog ------------------------------
(***************************************************************************)
(* The log of raft/raft_log.c: a growable ring buffer.  The fields of      *)
(* log_private_t are the variables; every function that changes them is an *)
(* action, and the look-ups are operators.  The user callbacks (log_offer, *)
(* log_pop, log_poll, log_clear) are external: each may be registered or   *)
(* not, and the first three may fail.                                      *)
(***************************************************************************)
EXTENDS Integers, Sequences

CONSTANTS Entry,        \* raft_entry_t values
          NoEntry,      \* a zeroed slot, and the NULL a look-up returns
          Capacity,     \* INITIAL_CAPACITY
          Callbacks,    \* the callbacks the user registered
          MaxSize,      \* bound: the largest array calloc can provide
          MaxIdx        \* bound: the largest index in use

ASSUME CapacityAssumption == Capacity \in Nat \ {0}
ASSUME NoEntryAssumption == NoEntry \notin Entry
ASSUME BoundAssumption == MaxSize \in Nat /\ MaxIdx \in Nat

VARIABLES entries, size, count, front, back, base,
          last          \* the last call: [op, released], see below

ring == <<entries, size, count, front, back, base>>
vars == <<ring, last>>

(***************************************************************************)
(* last.released lists the [idx, ety] pairs the last call handed back to   *)
(* the user through log_pop, log_poll or log_clear, in the order of the    *)
(* calls: by raft.h that is when the user frees an entry's memory.         *)
(***************************************************************************)
Freed(idx, ety) == [idx |-> idx, ety |-> ety]

Done(op, released) == last' = [op |-> op, released |-> released]

\* mod of raft_log.c; on the non-negative numbers it is C's own %, which the
\* other functions use.
mod(a, b) == a % b

\* The slot of the entry with index idx.
Slot(idx) == mod(front + (idx - 1) - base, size)

log_get_current_idx == base + count
-----------------------------------------------------------------------------
(* Look-ups.                                                               *)

log_get_at_idx(idx) ==
    IF idx = 0 \/ base + count < idx \/ idx <= base
    THEN NoEntry
    ELSE entries[Slot(idx)]

\* Variant: the batch runs to the youngest entry, past the end of the array.
Batch_ignores_wrap(idx) ==
    IF base + count < idx \/ idx <= base
    THEN [first |-> 0, n |-> 0]
    ELSE [first |-> Slot(idx), n |-> base + count - idx + 1]

\* The array log_get_from_idx points at: the slots from first on, n of them.
log_get_from_idx(idx) ==
    IF base + count < idx \/ idx <= base
    THEN [first |-> 0, n |-> 0]
    ELSE [first |-> Slot(idx),
          n |-> IF Slot(idx) < back THEN back - Slot(idx) ELSE size - Slot(idx)]

log_peektail ==
    IF count = 0 THEN NoEntry
    ELSE entries[IF back = 0 THEN size - 1 ELSE back - 1]
-----------------------------------------------------------------------------
(* Operations.                                                             *)

log_alloc ==
    /\ entries = [i \in 0 .. Capacity - 1 |-> NoEntry]
    /\ size = Capacity
    /\ count = 0 /\ front = 0 /\ back = 0 /\ base = 0
    /\ last = [op |-> "log_alloc", released |-> <<>>]

Init == log_alloc

\* Variant: the slots are copied as they lie.
Copies_unwrapped ==
    IF count < size
    THEN [entries |-> entries, size |-> size, front |-> front, back |-> back]
    ELSE [entries |-> [i \in 0 .. 2 * size - 1 |->
                          IF i < count THEN entries[i] ELSE NoEntry],
          size |-> 2 * size, front |-> 0, back |-> count]

\* Variant: back stays where it was in the smaller array.
Keeps_back ==
    [Copies_unwrapped EXCEPT !.back = back]

\* The ring after __ensurecapacity has made room for one more entry.
__ensurecapacity ==
    IF count < size
    THEN [entries |-> entries, size |-> size, front |-> front, back |-> back]
    ELSE [entries |-> [i \in 0 .. 2 * size - 1 |->
                          IF i < count THEN entries[mod(front + i, size)]
                                       ELSE NoEntry],
          size |-> 2 * size, front |-> 0, back |-> count]

\* The array is full and calloc returns NULL: RAFT_ERR_NOMEM.
append_nomem ==
    /\ count >= size
    /\ Done("log_append_entry", <<>>)
    /\ UNCHANGED ring

\* log_offer returns an error: the slot at back has been written, the array
\* may have grown, and the entry is not counted.  Otherwise it is counted.
log_append_entry(ety) ==
    /\ base + count < MaxIdx
    /\ \/ append_nomem
       \/ LET r == __ensurecapacity IN
          /\ r.size <= MaxSize
          /\ entries' = [r.entries EXCEPT ![r.back] = ety]
          /\ size' = r.size
          /\ front' = r.front
          /\ \/ "log_offer" \in Callbacks /\ back' = r.back /\ count' = count
             \/ back' = mod(r.back + 1, r.size) /\ count' = count + 1
          /\ base' = base
          /\ Done("log_append_entry", <<>>)

\* How many entries log_delete(idx) pops when no callback fails.
ToPop(idx) ==
    LET from == IF idx < base THEN base ELSE idx
    IN  IF base + count < from THEN 0
        ELSE IF from = base THEN count
        ELSE base + count - from + 1

\* The loop pops the youngest entry until idx is gone; an error of log_pop
\* ends it with k entries popped.
log_delete(idx) ==
    /\ idx # 0
    /\ \E k \in 0 .. ToPop(idx) :
         /\ k < ToPop(idx) => "log_pop" \in Callbacks
         /\ back' = mod(back - k, size)
         /\ count' = count - k
         /\ Done("log_delete",
                 IF "log_pop" \in Callbacks
                 THEN [j \in 1 .. k |-> Freed(base + count - j + 1,
                                              entries[mod(back - j, size)])]
                 ELSE <<>>)
    /\ UNCHANGED <<entries, size, front, base>>

\* Variant: the callback is given the index before the entry's.
Polls_base ==
    /\ count # 0
    /\ front' = mod(front + 1, size)
    /\ count' = count - 1
    /\ base' = base + 1
    /\ Done("log_poll", << Freed(base, entries[front]) >>)
    /\ UNCHANGED <<entries, size, back>>

\* log_poll with log_poll succeeding; with an error, or with an empty log,
\* nothing changes.
log_poll ==
    /\ count # 0
    /\ front' = mod(front + 1, size)
    /\ count' = count - 1
    /\ base' = base + 1
    /\ Done("log_poll", IF "log_poll" \in Callbacks
                        THEN << Freed(base + 1, entries[front]) >> ELSE <<>>)
    /\ UNCHANGED <<entries, size, back>>

log_empty ==
    /\ front' = 0 /\ back' = 0 /\ count' = 0
    /\ Done("log_empty", <<>>)
    /\ UNCHANGED <<entries, size, base>>

\* The calls log_clear_entries makes: i runs over base .. base + count.
log_clear_entries ==
    IF count = 0 \/ "log_clear" \notin Callbacks THEN <<>>
    ELSE [j \in 1 .. count + 1 |->
            Freed(base + j - 1, entries[mod(front + (j - 1), size)])]

\* log_clear_entries, then log_clear: the end of raft_clear.
log_clear ==
    /\ count' = 0 /\ back' = 0 /\ front' = 0 /\ base' = 0
    /\ Done("log_clear", log_clear_entries)
    /\ UNCHANGED <<entries, size>>

log_load_from_snapshot(idx) ==
    /\ count' = 0 /\ back' = 0 /\ front' = 0
    /\ base' = idx
    /\ Done("log_load_from_snapshot", log_clear_entries)
    /\ UNCHANGED <<entries, size>>

Next ==
    \/ \E ety \in Entry : log_append_entry(ety)
    \/ \E idx \in 1 .. MaxIdx : log_delete(idx)
    \/ log_poll
    \/ log_empty
    \/ log_clear
    \/ \E idx \in 1 .. MaxIdx : log_load_from_snapshot(idx)

Spec == Init /\ [][Next]_vars
-----------------------------------------------------------------------------
(* Correctness.                                                            *)

\* The sequence the ring stands for.
Log == [k \in 1 .. count |-> entries[mod(front + (k - 1), size)]]

\* The fields of log_private_t have their types and describe one ring: back
\* is where the count entries that start at front end.
TypeOK ==
    /\ size \in Nat \ {0}
    /\ count \in 0 .. size
    /\ front \in 0 .. size - 1
    /\ back \in 0 .. size - 1
    /\ base \in Nat
    /\ entries \in [0 .. size - 1 -> Entry \cup {NoEntry}]
    /\ last.released \in Seq([idx : Nat, ety : Entry \cup {NoEntry}])

\* back is front + count around the ring, and no slot between them is a
\* zeroed or a stale one: what __ensurecapacity, log_delete and log_poll
\* each keep with different index arithmetic.
RingInv ==
    /\ back = mod(front + count, size)
    /\ \A k \in 0 .. count - 1 : entries[mod(front + k, size)] \in Entry

\* log_get_from_idx ("an array of entries from this index onwards", used for
\* batching in raft_send_appendentries) never runs over the young end of the
\* log or the end of the array, and what it points at are the log's entries.
BatchIsLogSegment ==
    \A idx \in base + 1 .. base + count :
        LET b == log_get_from_idx(idx) IN
        /\ b.n \in 1 .. base + count - idx + 1
        /\ b.first + b.n <= size
        /\ \A j \in 0 .. b.n - 1 : entries[b.first + j] = Log[idx - base + j]

\* log_get_at_idx and log_peektail agree with each other and with the
\* sequence: the youngest entry is found through back and through front.
LookupsAgree ==
    /\ \A idx \in 0 .. base + count + 1 :
         log_get_at_idx(idx) = IF idx \in base + 1 .. base + count
                               THEN Log[idx - base] ELSE NoEntry
    /\ log_peektail = IF count = 0 THEN NoEntry ELSE Log[count]

\* The calls a set of released pairs must be: one for each index in S, with
\* the entry the log held there.
Releases(released, S) ==
    /\ {released[j].idx : j \in DOMAIN released} = S
    /\ \A j \in DOMAIN released :
         released[j].ety = Log[released[j].idx - base]
    /\ \A i, j \in DOMAIN released : released[i].idx = released[j].idx => i = j

\* log_pop and log_poll hand back exactly the entries that leave the log,
\* each once and with its own index, also when a later callback fails.
PopPollReleaseExactly ==
    [][/\ last'.op = "log_delete" /\ "log_pop" \in Callbacks =>
            Releases(last'.released, base' + count' + 1 .. base + count)
       /\ last'.op = "log_poll" /\ "log_poll" \in Callbacks =>
            Releases(last'.released, base + 1 .. base')]_vars

\* The ring behaves as a sequence with a base index.
Abs == INSTANCE AbstractLog WITH log <- Log

ImplementsAbstractLog == Abs!Spec
=============================================================================
