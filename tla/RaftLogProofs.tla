--------------------------- MODULE RaftLogProofs ---------------------------
(***************************************************************************)
(* Proofs about the ring buffer of raft/raft_log.c, for every initial      *)
(* capacity, every set of entries and every choice of callbacks.           *)
(***************************************************************************)
EXTENDS RaftLog, TLAPS

(* Index arithmetic around a ring of b slots.                              *)

\* A slot number is a remainder.
LEMMA ModRange ==
  ASSUME NEW a \in Int, NEW b \in Nat \ {0}
  PROVE  mod(a, b) \in 0 .. b - 1
BY DEF mod

\* One lap at most: how mod acts on front + k.
LEMMA ModLap ==
  ASSUME NEW a \in Nat, NEW b \in Nat \ {0}, a < 2 * b
  PROVE  mod(a, b) = IF a < b THEN a ELSE a - b
BY DEF mod

\* Stepping back: how mod(me->back - 1, me->size) acts below zero.
LEMMA ModBack ==
  ASSUME NEW a \in Int, NEW b \in Nat \ {0}, 0 - b <= a, a < b
  PROVE  mod(a, b) = IF a < 0 THEN a + b ELSE a
BY DEF mod

\* Different positions of one ring have different slots.
LEMMA ModDistinct ==
  ASSUME NEW b \in Nat \ {0}, NEW f \in 0 .. b - 1,
         NEW i \in 0 .. b - 1, NEW j \in 0 .. b - 1, i # j
  PROVE  mod(f + i, b) # mod(f + j, b)
<1>1. mod(f + i, b) = IF f + i < b THEN f + i ELSE f + i - b
  BY ModLap
<1>2. mod(f + j, b) = IF f + j < b THEN f + j ELSE f + j - b
  BY ModLap
<1>. QED  BY <1>1, <1>2

\* The slot after the slot of position n is the slot of position n + 1.
LEMMA ModNext ==
  ASSUME NEW b \in Nat \ {0}, NEW f \in 0 .. b - 1, NEW n \in 0 .. b - 1
  PROVE  mod(mod(f + n, b) + 1, b) = mod(f + (n + 1), b)
<1>1. mod(f + n, b) = IF f + n < b THEN f + n ELSE f + n - b
  BY ModLap
<1>2. mod(f + (n + 1), b) = IF f + n + 1 < b THEN f + n + 1 ELSE f + n + 1 - b
  BY ModLap
<1>3. mod(mod(f + n, b) + 1, b) = IF mod(f + n, b) + 1 < b
                                  THEN mod(f + n, b) + 1
                                  ELSE mod(f + n, b) + 1 - b
  BY <1>1, ModLap
<1>. QED  BY <1>1, <1>2, <1>3

\* The slots of the n entries that start at f, and the slot after them.
LEMMA Positions ==
  ASSUME NEW b \in Nat \ {0}, NEW f \in 0 .. b - 1, NEW n \in 0 .. b - 1,
         NEW k \in 0 .. n - 1
  PROVE  mod(f + k, b) \in 0 .. b - 1 /\ mod(f + k, b) # mod(f + n, b)
<1>1. k \in 0 .. b - 1 /\ k # n /\ f + k \in Int
  OBVIOUS
<1>. QED  BY <1>1, ModRange, ModDistinct
-----------------------------------------------------------------------------
(* The invariant.                                                          *)

Inv == TypeOK /\ RingInv

LEMMA InitInv == Init => Inv
<1>. SUFFICES ASSUME Init PROVE Inv
  OBVIOUS
<1>1. TypeOK
  BY CapacityAssumption DEF Init, log_alloc, TypeOK
<1>2. RingInv
  <2>1. mod(0 + 0, Capacity) = 0
    BY CapacityAssumption, ModLap
  <2>. QED  BY <2>1, CapacityAssumption DEF Init, log_alloc, RingInv
<1>. QED  BY <1>1, <1>2 DEF Inv

\* __ensurecapacity returns a ring with a free slot that stands for the same
\* sequence.
LEMMA EnsureCapacity ==
  ASSUME Inv
  PROVE  \E s, f, es :
           /\ __ensurecapacity = [entries |-> es, size |-> s, front |-> f,
                                  back |-> mod(f + count, s)]
           /\ s \in Nat \ {0} /\ f \in 0 .. s - 1 /\ count \in 0 .. s - 1
           /\ es \in [0 .. s - 1 -> Entry \cup {NoEntry}]
           /\ \A k \in 0 .. count - 1 :
                es[mod(f + k, s)] = entries[mod(front + k, size)]
<1>1. CASE count < size
  <2>1. __ensurecapacity = [entries |-> entries, size |-> size,
                            front |-> front, back |-> mod(front + count, size)]
    BY <1>1 DEF __ensurecapacity, Inv, RingInv
  <2>2. count \in 0 .. size - 1
    BY <1>1 DEF Inv, TypeOK
  <2>. QED  BY <2>1, <2>2 DEF Inv, TypeOK
<1>2. CASE ~(count < size)
  <2>. DEFINE grown == [i \in 0 .. 2 * size - 1 |->
                          IF i < count THEN entries[mod(front + i, size)]
                                       ELSE NoEntry]
  <2>1. count = size /\ size \in Nat \ {0} /\ front \in 0 .. size - 1
    BY <1>2 DEF Inv, TypeOK
  <2>2. ASSUME NEW k \in 0 .. count PROVE mod(0 + k, 2 * size) = k
    <3>1. k \in Nat /\ 2 * size \in Nat \ {0} /\ k < 2 * size /\ 0 + k = k
      BY <2>1
    <3>. QED  BY <3>1, ModLap
  <2>3. __ensurecapacity = [entries |-> grown, size |-> 2 * size, front |-> 0,
                            back |-> mod(0 + count, 2 * size)]
    BY <1>2, <2>1, <2>2 DEF __ensurecapacity
  <2>4. grown \in [0 .. 2 * size - 1 -> Entry \cup {NoEntry}]
    <3>1. ASSUME NEW i \in 0 .. 2 * size - 1
          PROVE  entries[mod(front + i, size)] \in Entry \cup {NoEntry}
      <4>1. mod(front + i, size) \in 0 .. size - 1
        BY <2>1, ModRange
      <4>. QED  BY <4>1 DEF Inv, TypeOK
    <3>. QED  BY <3>1
  <2>5. ASSUME NEW k \in 0 .. count - 1
        PROVE  grown[mod(0 + k, 2 * size)] = entries[mod(front + k, size)]
    <3>1. k \in 0 .. 2 * size - 1 /\ k < count /\ k \in 0 .. count
      BY <2>1
    <3>. QED  BY <2>2, <3>1
  <2>6. 2 * size \in Nat \ {0} /\ 0 \in 0 .. 2 * size - 1
        /\ count \in 0 .. 2 * size - 1
    BY <2>1
  <2>. HIDE DEF grown
  <2>. QED  BY <2>3, <2>4, <2>5, <2>6
<1>. QED  BY <1>1, <1>2

\* The successful and the refused paths of log_append_entry, with the ring
\* that __ensurecapacity returned.
LEMMA AppendCases ==
  ASSUME Inv, NEW ety \in Entry, log_append_entry(ety)
  PROVE  \/ append_nomem
         \/ \E s, f, es :
              /\ s \in Nat \ {0} /\ f \in 0 .. s - 1 /\ count \in 0 .. s - 1
              /\ es \in [0 .. s - 1 -> Entry \cup {NoEntry}]
              /\ \A k \in 0 .. count - 1 :
                   es[mod(f + k, s)] = entries[mod(front + k, size)]
              /\ size' = s /\ front' = f /\ base' = base
              /\ entries' = [es EXCEPT ![mod(f + count, s)] = ety]
              /\ \/ back' = mod(f + count, s) /\ count' = count
                 \/ back' = mod(f + (count + 1), s) /\ count' = count + 1
              /\ last'.released = <<>>
<1>1. PICK s, f, es :
           /\ __ensurecapacity = [entries |-> es, size |-> s, front |-> f,
                                  back |-> mod(f + count, s)]
           /\ s \in Nat \ {0} /\ f \in 0 .. s - 1 /\ count \in 0 .. s - 1
           /\ es \in [0 .. s - 1 -> Entry \cup {NoEntry}]
           /\ \A k \in 0 .. count - 1 :
                es[mod(f + k, s)] = entries[mod(front + k, size)]
  BY EnsureCapacity
<1>2. mod(mod(f + count, s) + 1, s) = mod(f + (count + 1), s)
  BY <1>1, ModNext
<1>3. CASE append_nomem
  BY <1>3
<1>4. CASE ~append_nomem
  <2>1. /\ size' = s /\ front' = f /\ base' = base
        /\ entries' = [es EXCEPT ![mod(f + count, s)] = ety]
        /\ \/ back' = mod(f + count, s) /\ count' = count
           \/ back' = mod(mod(f + count, s) + 1, s) /\ count' = count + 1
        /\ last'.released = <<>>
    BY <1>1, <1>4 DEF log_append_entry, Done
  <2>. QED  BY <1>1, <1>2, <2>1
<1>. QED  BY <1>3, <1>4

LEMMA AppendInv ==
  ASSUME Inv, NEW ety \in Entry, log_append_entry(ety)
  PROVE  Inv'
<1>1. CASE append_nomem
  BY <1>1 DEF append_nomem, ring, Inv, TypeOK, RingInv, Done
<1>2. CASE ~append_nomem
  <2>1. PICK s, f, es :
          /\ s \in Nat \ {0} /\ f \in 0 .. s - 1 /\ count \in 0 .. s - 1
          /\ es \in [0 .. s - 1 -> Entry \cup {NoEntry}]
          /\ \A k \in 0 .. count - 1 :
               es[mod(f + k, s)] = entries[mod(front + k, size)]
          /\ size' = s /\ front' = f /\ base' = base
          /\ entries' = [es EXCEPT ![mod(f + count, s)] = ety]
          /\ \/ back' = mod(f + count, s) /\ count' = count
             \/ back' = mod(f + (count + 1), s) /\ count' = count + 1
          /\ last'.released = <<>>
    BY <1>2, AppendCases
  <2>2. /\ entries' \in [0 .. s - 1 -> Entry \cup {NoEntry}]
        /\ entries'[mod(f + count, s)] = ety
        /\ \A k \in 0 .. count - 1 : entries'[mod(f + k, s)] = es[mod(f + k, s)]
    <3>1. mod(f + count, s) \in 0 .. s - 1
      BY <2>1, ModRange
    <3>2. \A k \in 0 .. count - 1 :
            mod(f + k, s) \in 0 .. s - 1 /\ mod(f + k, s) # mod(f + count, s)
      BY <2>1, Positions
    <3>. QED  BY <2>1, <3>1, <3>2
  <2>3. f + count \in Int /\ f + (count + 1) \in Int
    BY <2>1
  <2>4. mod(f + count, s) \in 0 .. s - 1 /\ mod(f + (count + 1), s) \in 0 .. s - 1
    BY <2>1, <2>3, ModRange
  <2>5. TypeOK'
    BY <2>1, <2>2, <2>4 DEF Inv, TypeOK
  <2>6. \A k \in 0 .. count - 1 : entries'[mod(f + k, s)] \in Entry
    BY <2>1, <2>2 DEF Inv, RingInv
  <2>7. \A k \in 0 .. count' - 1 : entries'[mod(front' + k, size')] \in Entry
    <3>1. ASSUME NEW k \in 0 .. count' - 1, k # count PROVE k \in 0 .. count - 1
      BY <2>1, <3>1
    <3>. QED  BY <2>1, <2>2, <2>6, <3>1
  <2>8. back' = mod(front' + count', size')
    BY <2>1
  <2>. QED  BY <2>5, <2>7, <2>8 DEF Inv, RingInv
<1>. QED  BY <1>1, <1>2

\* A function on 1 .. n is a sequence.
LEMMA FunctionIsSeq ==
  ASSUME NEW S, NEW n \in Nat, NEW f \in [1 .. n -> S]
  PROVE  f \in Seq(S)
OBVIOUS

LEMMA ShortSeq ==
  ASSUME NEW S, NEW x \in S
  PROVE  <<x>> \in Seq(S) /\ <<>> \in Seq(S)
OBVIOUS

\* log_delete never pops more than the log holds.
LEMMA ToPopRange ==
  ASSUME Inv, NEW idx \in Nat
  PROVE  ToPop(idx) \in 0 .. count
BY DEF Inv, TypeOK, ToPop

\* Stepping back k times from the end of the log is the end of the first
\* count - k entries.
LEMMA StepBack ==
  ASSUME Inv, NEW k \in 0 .. count
  PROVE  mod(back - k, size) = mod(front + (count - k), size)
<1>1. /\ size \in Nat \ {0} /\ count \in 0 .. size
      /\ front \in 0 .. size - 1 /\ back \in 0 .. size - 1
      /\ back = mod(front + count, size)
  BY DEF Inv, TypeOK, RingInv
<1>2. mod(front + count, size) =
        IF front + count < size THEN front + count ELSE front + count - size
  BY <1>1, ModLap
<1>3. mod(front + (count - k), size) =
        IF front + (count - k) < size THEN front + (count - k)
                                      ELSE front + (count - k) - size
  <2>1. front + (count - k) \in Nat /\ front + (count - k) < 2 * size
    BY <1>1
  <2>. QED  BY <1>1, <2>1, ModLap
<1>4. mod(back - k, size) = IF back - k < 0 THEN back - k + size ELSE back - k
  <2>1. back - k \in Int /\ 0 - size <= back - k /\ back - k < size
    BY <1>1
  <2>. QED  BY <1>1, <2>1, ModBack
<1>. QED  BY <1>1, <1>2, <1>3, <1>4

LEMMA DeleteInv ==
  ASSUME Inv, NEW idx \in Nat, log_delete(idx)
  PROVE  Inv'
<1>1. PICK k \in 0 .. ToPop(idx) :
         /\ back' = mod(back - k, size)
         /\ count' = count - k
         /\ Done("log_delete",
                 IF "log_pop" \in Callbacks
                 THEN [j \in 1 .. k |-> Freed(base + count - j + 1,
                                              entries[mod(back - j, size)])]
                 ELSE <<>>)
         /\ UNCHANGED <<entries, size, front, base>>
  BY DEF log_delete
<1>2. k \in 0 .. count
  <2>1. ToPop(idx) \in 0 .. count /\ count \in Nat
    BY ToPopRange DEF Inv, TypeOK
  <2>. QED  BY <2>1
<1>3. /\ size \in Nat \ {0} /\ count \in 0 .. size /\ base \in Nat
      /\ back \in 0 .. size - 1
      /\ entries \in [0 .. size - 1 -> Entry \cup {NoEntry}]
  BY DEF Inv, TypeOK
<1>4. ASSUME NEW j \in 1 .. k
      PROVE  Freed(base + count - j + 1, entries[mod(back - j, size)])
               \in [idx : Nat, ety : Entry \cup {NoEntry}]
  <2>1. mod(back - j, size) \in 0 .. size - 1
    BY <1>3, ModRange
  <2>2. base + count - j + 1 \in Nat
    BY <1>2, <1>3
  <2>. QED  BY <1>3, <2>1, <2>2 DEF Freed
<1>5. last'.released \in Seq([idx : Nat, ety : Entry \cup {NoEntry}])
  <2>1. CASE "log_pop" \in Callbacks
    <3>1. last'.released = [j \in 1 .. k |->
                Freed(base + count - j + 1, entries[mod(back - j, size)])]
      BY <1>1, <2>1 DEF Done
    <3>2. last'.released \in [1 .. k -> [idx : Nat, ety : Entry \cup {NoEntry}]]
      BY <1>4, <3>1
    <3>3. k \in Nat
      BY <1>2, <1>3
    <3>. QED  BY <3>2, <3>3, FunctionIsSeq
  <2>2. CASE "log_pop" \notin Callbacks
    BY <1>1, <2>2 DEF Done
  <2>. QED  BY <2>1, <2>2
<1>6. mod(back - k, size) \in 0 .. size - 1
  BY <1>2, <1>3, ModRange
<1>7. TypeOK'
  BY <1>1, <1>2, <1>3, <1>5, <1>6 DEF Inv, TypeOK
<1>8. RingInv'
  <2>1. back' = mod(front' + count', size')
    BY <1>1, <1>2, StepBack
  <2>2. \A i \in 0 .. count' - 1 : i \in 0 .. count - 1
    BY <1>1, <1>2, <1>3
  <2>. QED  BY <1>1, <2>1, <2>2 DEF Inv, RingInv
<1>. QED  BY <1>7, <1>8 DEF Inv

\* Position k after log_poll is position k + 1 before it.
LEMMA StepForward ==
  ASSUME Inv, NEW k \in Nat, k < size
  PROVE  mod(mod(front + 1, size) + k, size) = mod(front + (k + 1), size)
<1>1. size \in Nat \ {0} /\ front \in 0 .. size - 1
  BY DEF Inv, TypeOK
<1>2. mod(front + 1, size) = IF front + 1 < size THEN front + 1
                                                 ELSE front + 1 - size
  BY <1>1, ModLap
<1>3. mod(front + (k + 1), size) =
        IF front + (k + 1) < size THEN front + (k + 1)
                                  ELSE front + (k + 1) - size
  <2>1. front + (k + 1) \in Nat /\ front + (k + 1) < 2 * size
    BY <1>1
  <2>. QED  BY <1>1, <2>1, ModLap
<1>4. CASE front + 1 < size
  <2>1. front + 1 + k = front + (k + 1)
    BY <1>1
  <2>. QED  BY <1>2, <1>4, <2>1
<1>5. CASE ~(front + 1 < size)
  <2>1. mod(0 + k, size) = k
    <3>1. 0 + k \in Nat /\ 0 + k < 2 * size /\ 0 + k < size /\ 0 + k = k
      BY <1>1
    <3>. QED  BY <1>1, <3>1, ModLap
  <2>2. front + 1 - size = 0
    BY <1>1, <1>5
  <2>. QED  BY <1>1, <1>2, <1>3, <1>5, <2>1, <2>2
<1>. QED  BY <1>4, <1>5

LEMMA PollInv ==
  ASSUME Inv, log_poll
  PROVE  Inv'
<1>1. /\ size \in Nat \ {0} /\ count \in 0 .. size /\ count # 0 /\ base \in Nat
      /\ front \in 0 .. size - 1 /\ back \in 0 .. size - 1
      /\ entries \in [0 .. size - 1 -> Entry \cup {NoEntry}]
      /\ back = mod(front + count, size)
      /\ \A k \in 0 .. count - 1 : entries[mod(front + k, size)] \in Entry
  BY DEF Inv, TypeOK, RingInv, log_poll
<1>2. /\ front' = mod(front + 1, size) /\ count' = count - 1
      /\ base' = base + 1 /\ entries' = entries /\ size' = size /\ back' = back
  BY DEF log_poll
<1>3. mod(front + 1, size) \in 0 .. size - 1
  <2>1. front + 1 \in Int
    BY <1>1
  <2>. QED  BY <1>1, <2>1, ModRange
<1>4. last'.released \in Seq([idx : Nat, ety : Entry \cup {NoEntry}])
  <2>1. Freed(base + 1, entries[front]) \in [idx : Nat, ety : Entry \cup {NoEntry}]
    BY <1>1 DEF Freed
  <2>2. \/ last'.released = << Freed(base + 1, entries[front]) >>
        \/ last'.released = <<>>
    BY DEF log_poll, Done
  <2>. QED  BY <2>1, <2>2, ShortSeq
<1>5. TypeOK'
  BY <1>1, <1>2, <1>3, <1>4 DEF TypeOK
<1>6. back' = mod(front' + count', size')
  <2>1. count - 1 \in Nat /\ count - 1 < size /\ (count - 1) + 1 = count
    BY <1>1
  <2>. QED  BY <1>1, <1>2, <2>1, StepForward
<1>7. ASSUME NEW k \in 0 .. count' - 1
      PROVE  entries'[mod(front' + k, size')] \in Entry
  <2>1. k \in Nat /\ k < size /\ k + 1 \in 0 .. count - 1
    BY <1>1, <1>2
  <2>. QED  BY <1>1, <1>2, <2>1, StepForward
<1>. QED  BY <1>5, <1>6, <1>7 DEF Inv, RingInv

\* The operations that leave an empty ring.
LEMMA ResetInv ==
  ASSUME Inv, NEW i \in Nat,
         front' = 0, back' = 0, count' = 0, base' = i,
         UNCHANGED <<entries, size>>,
         last'.released \in Seq([idx : Nat, ety : Entry \cup {NoEntry}])
  PROVE  Inv'
<1>1. mod(0 + 0, size) = 0
  BY ModLap DEF Inv, TypeOK
<1>. QED  BY <1>1 DEF Inv, TypeOK, RingInv

\* log_clear_entries passes slots of the array to the user.
LEMMA ClearEntriesType ==
  ASSUME Inv
  PROVE  log_clear_entries \in Seq([idx : Nat, ety : Entry \cup {NoEntry}])
<1>1. /\ size \in Nat \ {0} /\ count \in 0 .. size /\ base \in Nat
      /\ front \in 0 .. size - 1
      /\ entries \in [0 .. size - 1 -> Entry \cup {NoEntry}]
  BY DEF Inv, TypeOK
<1>2. ASSUME NEW j \in 1 .. count + 1
      PROVE  Freed(base + j - 1, entries[mod(front + (j - 1), size)])
               \in [idx : Nat, ety : Entry \cup {NoEntry}]
  <2>1. mod(front + (j - 1), size) \in 0 .. size - 1
    BY <1>1, ModRange
  <2>. QED  BY <1>1, <2>1 DEF Freed
<1>3. CASE count = 0 \/ "log_clear" \notin Callbacks
  BY <1>3 DEF log_clear_entries
<1>4. CASE ~(count = 0 \/ "log_clear" \notin Callbacks)
  <2>1. log_clear_entries
          \in [1 .. count + 1 -> [idx : Nat, ety : Entry \cup {NoEntry}]]
    BY <1>2, <1>4 DEF log_clear_entries
  <2>2. count + 1 \in Nat
    BY <1>1
  <2>. QED  BY <2>1, <2>2, FunctionIsSeq
<1>. QED  BY <1>3, <1>4

LEMMA NextInv == Inv /\ [Next]_vars => Inv'
<1>. SUFFICES ASSUME Inv, [Next]_vars PROVE Inv'
  OBVIOUS
<1>1. CASE \E ety \in Entry : log_append_entry(ety)
  BY <1>1, AppendInv
<1>2. CASE \E idx \in 1 .. MaxIdx : log_delete(idx)
  BY <1>2, DeleteInv, BoundAssumption
<1>3. CASE log_poll
  BY <1>3, PollInv
<1>4. CASE log_empty
  BY <1>4, ResetInv DEF log_empty, Done, Inv, TypeOK
<1>5. CASE log_clear
  BY <1>5, ResetInv, ClearEntriesType DEF log_clear, Done
<1>6. CASE \E idx \in 1 .. MaxIdx : log_load_from_snapshot(idx)
  BY <1>6, ResetInv, ClearEntriesType, BoundAssumption
  DEF log_load_from_snapshot, Done
<1>7. CASE UNCHANGED vars
  BY <1>7 DEF vars, ring, Inv, TypeOK, RingInv
<1>. QED  BY <1>1, <1>2, <1>3, <1>4, <1>5, <1>6, <1>7 DEF Next

\* The ring of raft_log.c is well formed after every sequence of calls: the
\* fields have their types, back ends the count entries that start at front,
\* and no occupied slot is stale.
THEOREM RingCorrect == Spec => [](TypeOK /\ RingInv)
<1>1. Spec => []Inv
  BY InitInv, NextInv, PTL DEF Spec
<1>2. Inv => TypeOK /\ RingInv
  BY DEF Inv
<1>. QED  BY <1>1, <1>2, PTL
-----------------------------------------------------------------------------
(* The ring implements the sequence.                                       *)

LogShape ==
  /\ Log \in Seq(Entry) /\ Len(Log) = count
  /\ \A k \in 1 .. count : Log[k] = entries[mod(front + (k - 1), size)]

LEMMA LogIsSeq == Inv => LogShape
<1>. SUFFICES ASSUME Inv PROVE LogShape
  OBVIOUS
<1>1. count \in Nat
  BY DEF Inv, TypeOK
<1>2. ASSUME NEW k \in 1 .. count
      PROVE  entries[mod(front + (k - 1), size)] \in Entry
  <2>1. k - 1 \in 0 .. count - 1
    BY <1>1
  <2>. QED  BY <2>1 DEF Inv, RingInv
<1>3. Log \in [1 .. count -> Entry]
  BY <1>2 DEF Log
<1>4. Log \in Seq(Entry)
  BY <1>1, <1>3, FunctionIsSeq
<1>. QED  BY <1>1, <1>3, <1>4 DEF Log, LogShape

\* A sequence that agrees with the first n elements of another is its prefix.
LEMMA PrefixIs ==
  ASSUME NEW S, NEW s \in Seq(S), NEW t \in Seq(S), NEW n \in 0 .. Len(s),
         Len(t) = n, \A j \in 1 .. n : t[j] = s[j]
  PROVE  t = SubSeq(s, 1, n)
<1>1. SubSeq(s, 1, n) \in Seq(S) /\ Len(SubSeq(s, 1, n)) = n
  OBVIOUS
<1>2. \A j \in 1 .. n : SubSeq(s, 1, n)[j] = s[j]
  OBVIOUS
<1>. QED  BY <1>1, <1>2

\* log_append_entry adds the entry at the young end, or nothing at all: an
\* error of calloc or of log_offer loses no entry.
LEMMA AppendRefines ==
  ASSUME Inv, NEW ety \in Entry, log_append_entry(ety)
  PROVE  Abs!Append1(ety) \/ UNCHANGED Abs!absVars
<1>1. CASE append_nomem
  BY <1>1 DEF append_nomem, ring, Abs!absVars, Log
<1>2. CASE ~append_nomem
  <2>1. PICK s, f, es :
          /\ s \in Nat \ {0} /\ f \in 0 .. s - 1 /\ count \in 0 .. s - 1
          /\ es \in [0 .. s - 1 -> Entry \cup {NoEntry}]
          /\ \A k \in 0 .. count - 1 :
               es[mod(f + k, s)] = entries[mod(front + k, size)]
          /\ size' = s /\ front' = f /\ base' = base
          /\ entries' = [es EXCEPT ![mod(f + count, s)] = ety]
          /\ \/ back' = mod(f + count, s) /\ count' = count
             \/ back' = mod(f + (count + 1), s) /\ count' = count + 1
          /\ last'.released = <<>>
    BY <1>2, AppendCases
  <2>2. /\ entries'[mod(f + count, s)] = ety
        /\ \A k \in 0 .. count - 1 : entries'[mod(f + k, s)] = es[mod(f + k, s)]
    <3>1. mod(f + count, s) \in 0 .. s - 1
      BY <2>1, ModRange
    <3>2. \A k \in 0 .. count - 1 :
            mod(f + k, s) \in 0 .. s - 1 /\ mod(f + k, s) # mod(f + count, s)
      BY <2>1, Positions
    <3>. QED  BY <2>1, <3>1, <3>2
  <2>3. /\ Log \in Seq(Entry) /\ Len(Log) = count
        /\ \A k \in 1 .. count : Log[k] = entries[mod(front + (k - 1), size)]
    BY LogIsSeq DEF LogShape
  <2>4. /\ Log' \in Seq(Entry) /\ Len(Log') = count'
        /\ \A k \in 1 .. count' : Log'[k] = entries'[mod(front' + (k - 1), size')]
    <3>1. Inv'
      BY AppendInv
    <3>2. Inv' => LogShape'
      BY LogIsSeq, PTL
    <3>. QED  BY <3>1, <3>2 DEF LogShape
  <2>5. ASSUME NEW k \in 1 .. count
        PROVE  k - 1 \in 0 .. count - 1 /\ k \in 1 .. count'
               /\ Log'[k] = Log[k]
    <3>1. k - 1 \in 0 .. count - 1 /\ k \in 1 .. count'
      BY <2>1
    <3>. QED  BY <2>1, <2>2, <2>3, <2>4, <3>1
  <2>6. CASE count' = count
    <3>1. Log' = Log
      BY <2>3, <2>4, <2>5, <2>6
    <3>. QED  BY <2>1, <3>1 DEF Abs!absVars
  <2>7. CASE count' = count + 1
    <3>1. Log'[count + 1] = ety
      <4>1. count + 1 \in 1 .. count' /\ (count + 1) - 1 = count
        BY <2>1, <2>7
      <4>. QED  BY <2>1, <2>2, <2>4, <4>1
    <3>2. Log' = Append(Log, ety)
      BY <2>3, <2>4, <2>5, <2>7, <3>1
    <3>. QED  BY <2>1, <3>2 DEF Abs!Append1
  <2>. QED  BY <2>1, <2>6, <2>7
<1>. QED  BY <1>1, <1>2

\* log_delete cuts the young end, also when log_pop fails half-way.
LEMMA DeleteRefines ==
  ASSUME Inv, NEW idx \in Nat, log_delete(idx)
  PROVE  \E k \in 0 .. Len(Log) : Abs!Truncate(k)
<1>1. PICK k \in 0 .. ToPop(idx) :
         /\ count' = count - k
         /\ UNCHANGED <<entries, size, front, base>>
  BY DEF log_delete
<1>2. count \in Nat /\ k \in 0 .. count
  <2>1. ToPop(idx) \in 0 .. count /\ count \in Nat
    BY ToPopRange DEF Inv, TypeOK
  <2>. QED  BY <2>1
<1>3. /\ Log \in Seq(Entry) /\ Len(Log) = count
      /\ \A j \in 1 .. count : Log[j] = entries[mod(front + (j - 1), size)]
  BY LogIsSeq DEF LogShape
<1>4. /\ Log' \in Seq(Entry) /\ Len(Log') = count'
      /\ \A j \in 1 .. count' : Log'[j] = entries'[mod(front' + (j - 1), size')]
  <2>1. Inv'
    BY DeleteInv
  <2>2. Inv' => LogShape'
    BY LogIsSeq, PTL
  <2>. QED  BY <2>1, <2>2 DEF LogShape
<1>5. Log' = SubSeq(Log, 1, count - k)
  <2>1. \A j \in 1 .. count - k : j \in 1 .. count
    BY <1>2
  <2>2. \A j \in 1 .. count - k : Log'[j] = Log[j]
    BY <1>1, <1>3, <1>4, <2>1
  <2>3. count - k \in 0 .. Len(Log) /\ Len(Log') = count - k
    BY <1>1, <1>2, <1>3, <1>4
  <2>. QED  BY <1>3, <1>4, <2>2, <2>3, PrefixIs
<1>. QED  BY <1>1, <1>2, <1>3, <1>5 DEF Abs!Truncate

\* log_poll removes the oldest entry and no other.
LEMMA PollRefines ==
  ASSUME Inv, log_poll
  PROVE  Abs!Compact
<1>1. /\ size \in Nat \ {0} /\ count \in 0 .. size /\ count # 0
  BY DEF Inv, TypeOK, log_poll
<1>2. /\ front' = mod(front + 1, size) /\ count' = count - 1
      /\ base' = base + 1 /\ entries' = entries /\ size' = size
  BY DEF log_poll
<1>3. /\ Log \in Seq(Entry) /\ Len(Log) = count
      /\ \A j \in 1 .. count : Log[j] = entries[mod(front + (j - 1), size)]
  BY LogIsSeq DEF LogShape
<1>4. /\ Log' \in Seq(Entry) /\ Len(Log') = count'
      /\ \A j \in 1 .. count' : Log'[j] = entries'[mod(front' + (j - 1), size')]
  <2>1. Inv'
    BY PollInv
  <2>2. Inv' => LogShape'
    BY LogIsSeq, PTL
  <2>. QED  BY <2>1, <2>2 DEF LogShape
<1>5. ASSUME NEW j \in 1 .. count - 1
      PROVE  Log'[j] = Log[j + 1]
  <2>1. /\ j - 1 \in Nat /\ j - 1 < size /\ j + 1 \in 1 .. count
        /\ (j - 1) + 1 = (j + 1) - 1 /\ j \in 1 .. count'
    BY <1>1, <1>2
  <2>2. mod(mod(front + 1, size) + (j - 1), size)
          = mod(front + ((j - 1) + 1), size)
    BY <2>1, StepForward
  <2>. QED  BY <1>2, <1>3, <1>4, <2>1, <2>2
<1>6. Log # <<>> /\ Log' = Tail(Log)
  BY <1>1, <1>2, <1>3, <1>4, <1>5
<1>. QED  BY <1>2, <1>6 DEF Abs!Compact

LEMMA NextRefines ==
  ASSUME Inv, [Next]_vars
  PROVE  [Abs!Next]_(Abs!absVars)
<1>1. CASE \E ety \in Entry : log_append_entry(ety)
  BY <1>1, AppendRefines DEF Abs!Next
<1>2. CASE \E idx \in 1 .. MaxIdx : log_delete(idx)
  BY <1>2, DeleteRefines, BoundAssumption DEF Abs!Next
<1>3. CASE log_poll
  BY <1>3, PollRefines DEF Abs!Next
<1>4. CASE count' = 0 /\ base' \in Nat
  <2>1. Log' = <<>>
    BY <1>4 DEF Log
  <2>. QED  BY <1>4, <2>1 DEF Abs!Next, Abs!Restart
<1>5. CASE UNCHANGED vars
  BY <1>5 DEF vars, ring, Abs!absVars, Log
<1>6. CASE log_empty
  BY <1>4, <1>6 DEF log_empty, Inv, TypeOK
<1>7. CASE log_clear
  BY <1>4, <1>7 DEF log_clear
<1>8. CASE \E idx \in 1 .. MaxIdx : log_load_from_snapshot(idx)
  BY <1>4, <1>8, BoundAssumption DEF log_load_from_snapshot
<1>. QED  BY <1>1, <1>2, <1>3, <1>5, <1>6, <1>7, <1>8 DEF Next

\* For every capacity and every sequence of calls, with every failure of the
\* callbacks and of calloc, raft_log.c behaves as a sequence of entries with a
\* base index.
THEOREM RingImplementsLog == Spec => ImplementsAbstractLog
<1>1. Init => Abs!Init
  BY DEF Init, log_alloc, Abs!Init, Log
<1>2. Spec => []Inv
  BY InitInv, NextInv, PTL DEF Spec
<1>3. Inv /\ [Next]_vars => [Abs!Next]_(Abs!absVars)
  BY NextRefines
<1>. QED  BY <1>1, <1>2, <1>3, PTL DEF Spec, Abs!Spec, ImplementsAbstractLog
-----------------------------------------------------------------------------
(* The look-ups.                                                           *)

\* The slot of position p, and the slot where the log ends.
LEMMA SlotOf ==
  ASSUME Inv, NEW p \in 0 .. count - 1
  PROVE  mod(front + p, size) = IF front + p < size THEN front + p
                                                    ELSE front + p - size
BY ModLap DEF Inv, TypeOK

LEMMA BackOf ==
  ASSUME Inv
  PROVE  back = IF front + count < size THEN front + count
                                        ELSE front + count - size
BY ModLap DEF Inv, TypeOK, RingInv

\* The array log_get_from_idx returns lies inside the ring's array and inside
\* the log, and holds the log's entries from idx on.
LEMMA BatchCorrect == Inv => BatchIsLogSegment
<1>. SUFFICES ASSUME Inv, NEW idx \in base + 1 .. base + count
              PROVE  LET b == log_get_from_idx(idx) IN
                     /\ b.n \in 1 .. base + count - idx + 1
                     /\ b.first + b.n <= size
                     /\ \A j \in 0 .. b.n - 1 :
                          entries[b.first + j] = Log[idx - base + j]
  BY DEF BatchIsLogSegment
<1>1. /\ size \in Nat \ {0} /\ count \in 0 .. size /\ base \in Nat
      /\ front \in 0 .. size - 1 /\ back \in 0 .. size - 1
  BY DEF Inv, TypeOK
<1>. DEFINE p == idx - 1 - base
            i == IF front + p < size THEN front + p ELSE front + p - size
            n == IF i < back THEN back - i ELSE size - i
<1>2. p \in 0 .. count - 1 /\ front + (idx - 1) - base = front + p
  BY <1>1
<1>3. Slot(idx) = i
  BY <1>2, SlotOf DEF Slot
<1>4. log_get_from_idx(idx) = [first |-> i, n |-> n]
  <2>1. ~(base + count < idx \/ idx <= base)
    BY <1>1
  <2>. QED  BY <1>3, <2>1 DEF log_get_from_idx
<1>5. n \in 1 .. base + count - idx + 1 /\ i \in Nat /\ i + n <= size
  BY <1>1, <1>2, BackOf
<1>6. ASSUME NEW j \in 0 .. n - 1
      PROVE  entries[i + j] = Log[idx - base + j]
  <2>1. /\ p + j \in 0 .. count - 1 /\ idx - base + j \in 1 .. count
        /\ front + ((idx - base + j) - 1) = front + (p + j)
    BY <1>1, <1>2, <1>5
  <2>2. mod(front + (p + j), size) = i + j
    <3>1. mod(front + (p + j), size) = IF front + (p + j) < size
                                       THEN front + (p + j)
                                       ELSE front + (p + j) - size
      BY <2>1, SlotOf
    <3>. QED  BY <1>1, <1>2, <1>5, <2>1, <3>1, BackOf
  <2>3. Log[idx - base + j] = entries[mod(front + ((idx - base + j) - 1), size)]
    BY <2>1, LogIsSeq DEF LogShape
  <2>. QED  BY <2>1, <2>2, <2>3
<1>. HIDE DEF p, i, n
<1>. QED  BY <1>4, <1>5, <1>6

\* log_get_at_idx finds an entry through front, log_peektail through back:
\* they agree with the sequence.
LEMMA LookupsCorrect == Inv => LookupsAgree
<1>. SUFFICES ASSUME Inv PROVE LookupsAgree
  OBVIOUS
<1>1. /\ size \in Nat \ {0} /\ count \in 0 .. size /\ base \in Nat
      /\ front \in 0 .. size - 1 /\ back \in 0 .. size - 1
  BY DEF Inv, TypeOK
<1>2. \A k \in 1 .. count : Log[k] = entries[mod(front + (k - 1), size)]
  BY LogIsSeq DEF LogShape
<1>3. ASSUME NEW idx \in base + 1 .. base + count
      PROVE  log_get_at_idx(idx) = Log[idx - base]
  <2>1. /\ ~(idx = 0 \/ base + count < idx \/ idx <= base)
        /\ idx - base \in 1 .. count
        /\ front + (idx - 1) - base = front + ((idx - base) - 1)
    BY <1>1
  <2>. QED  BY <1>2, <2>1 DEF log_get_at_idx, Slot
<1>4. ASSUME NEW idx \in 0 .. base + count + 1, idx \notin base + 1 .. base + count
      PROVE  log_get_at_idx(idx) = NoEntry
  BY <1>1, <1>4 DEF log_get_at_idx
<1>5. log_peektail = IF count = 0 THEN NoEntry ELSE Log[count]
  <2>1. CASE count = 0
    BY <2>1 DEF log_peektail
  <2>2. CASE count # 0
    <3>1. count - 1 \in 0 .. count - 1 /\ count \in 1 .. count
      BY <1>1, <2>2
    <3>2. mod(front + (count - 1), size) = IF back = 0 THEN size - 1 ELSE back - 1
      <4>1. mod(front + (count - 1), size) = IF front + (count - 1) < size
                                             THEN front + (count - 1)
                                             ELSE front + (count - 1) - size
        BY <3>1, SlotOf
      <4>. QED  BY <1>1, <2>2, <4>1, BackOf
    <3>. QED  BY <1>2, <2>2, <3>1, <3>2 DEF log_peektail
  <2>. QED  BY <2>1, <2>2
<1>. QED  BY <1>3, <1>4, <1>5 DEF LookupsAgree

\* For every capacity: what raft_send_appendentries batches and what every
\* look-up of the server returns are the log's entries.
THEOREM LookupsSound == Spec => [](BatchIsLogSegment /\ LookupsAgree)
<1>1. Spec => []Inv
  BY InitInv, NextInv, PTL DEF Spec
<1>. QED  BY <1>1, BatchCorrect, LookupsCorrect, PTL
-----------------------------------------------------------------------------
(* Ownership of the entries.                                               *)

\* log_delete hands log_pop the entries that leave, youngest first.
LEMMA DeleteReleases ==
  ASSUME Inv, NEW idx \in Nat, log_delete(idx), "log_pop" \in Callbacks
  PROVE  Releases(last'.released, base' + count' + 1 .. base + count)
<1>1. PICK k \in 0 .. ToPop(idx) :
         /\ count' = count - k
         /\ last'.released = [j \in 1 .. k |->
                Freed(base + count - j + 1, entries[mod(back - j, size)])]
         /\ UNCHANGED <<entries, size, front, base>>
  BY DEF log_delete, Done
<1>2. /\ count \in Nat /\ base \in Nat /\ k \in 0 .. count
  <2>1. ToPop(idx) \in 0 .. count /\ count \in Nat /\ base \in Nat
    BY ToPopRange DEF Inv, TypeOK
  <2>. QED  BY <2>1
<1>0. PICK R : R = last'.released
  OBVIOUS
<1>3. DOMAIN R = 1 .. k
  BY <1>0, <1>1
<1>4. ASSUME NEW j \in 1 .. k
      PROVE  R[j].idx = base + count - j + 1 /\ R[j].ety = Log[R[j].idx - base]
  <2>1. /\ R[j].idx = base + count - j + 1
        /\ R[j].ety = entries[mod(back - j, size)]
    BY <1>0, <1>1 DEF Freed
  <2>2. /\ j \in 0 .. count
        /\ (base + count - j + 1) - base \in 1 .. count
        /\ front + (((base + count - j + 1) - base) - 1) = front + (count - j)
    <3>1. front \in Nat
      BY DEF Inv, TypeOK
    <3>. QED  BY <1>2, <3>1
  <2>3. Log[(base + count - j + 1) - base]
          = entries[mod(front + (((base + count - j + 1) - base) - 1), size)]
    BY <2>2, LogIsSeq DEF LogShape
  <2>4. mod(back - j, size) = mod(front + (count - j), size)
    BY <2>2, StepBack
  <2>5. Log[(base + count - j + 1) - base] = entries[mod(back - j, size)]
    BY <2>2, <2>3, <2>4
  <2>6. Log[R[j].idx - base] = Log[(base + count - j + 1) - base]
    BY <2>1, Zenon
  <2>. QED  BY <2>1, <2>5, <2>6, Zenon
<1>5. {R[j].idx : j \in DOMAIN R} = base' + count' + 1 .. base + count
  <2>1. ASSUME NEW j \in 1 .. k
        PROVE  R[j].idx \in base' + count' + 1 .. base + count
    <3>1. R[j].idx = base + count - j + 1
      BY <1>4
    <3>2. base' = base /\ count' = count - k
      BY <1>1
    <3>. QED  BY <1>2, <3>1, <3>2
  <2>2. ASSUME NEW i \in base' + count' + 1 .. base + count
        PROVE  \E j \in 1 .. k : R[j].idx = i
    <3>1. /\ base + count + 1 - i \in 1 .. k
          /\ base + count - (base + count + 1 - i) + 1 = i
      BY <1>1, <1>2
    <3>. QED  BY <1>4, <3>1
  <2>. QED  BY <1>3, <2>1, <2>2
<1>6. \A i, j \in DOMAIN R : R[i].idx = R[j].idx => i = j
  BY <1>2, <1>3, <1>4
<1>. QED  BY <1>0, <1>3, <1>4, <1>5, <1>6 DEF Releases

LEMMA PollReleases ==
  ASSUME Inv, log_poll, "log_poll" \in Callbacks
  PROVE  Releases(last'.released, base + 1 .. base')
<1>1. /\ size \in Nat \ {0} /\ count \in 0 .. size /\ count # 0 /\ base \in Nat
      /\ front \in 0 .. size - 1
  BY DEF Inv, TypeOK, log_poll
<1>2. last'.released = << Freed(base + 1, entries[front]) >> /\ base' = base + 1
  BY DEF log_poll, Done
<1>3. Log[1] = entries[front]
  <2>1. 1 \in 1 .. count /\ front + (1 - 1) = front
    BY <1>1
  <2>2. mod(front, size) = front
    <3>1. front \in Nat /\ front < 2 * size /\ front < size
      BY <1>1
    <3>. QED  BY <1>1, <3>1, ModLap
  <2>. QED  BY <2>1, <2>2, LogIsSeq DEF LogShape
<1>. DEFINE R == last'.released
<1>4. DOMAIN R = {1} /\ R[1].idx = base + 1 /\ R[1].ety = entries[front]
  BY <1>2 DEF Freed
<1>. HIDE DEF R
<1>5. {R[j].idx : j \in DOMAIN R} = base + 1 .. base'
  BY <1>1, <1>2, <1>4
<1>6. \A j \in DOMAIN R : R[j].ety = Log[R[j].idx - base]
  BY <1>1, <1>3, <1>4
<1>. QED  BY <1>4, <1>5, <1>6 DEF Releases, R

\* The name of the last call tells which operation took a step.
LEMMA StepName ==
  ASSUME Next
  PROVE  /\ last'.op = "log_delete" => \E idx \in 1 .. MaxIdx : log_delete(idx)
         /\ last'.op = "log_poll" => log_poll
<1>1. CASE \E ety \in Entry : log_append_entry(ety)
  BY <1>1 DEF log_append_entry, append_nomem, Done
<1>2. CASE \E idx \in 1 .. MaxIdx : log_delete(idx)
  BY <1>2 DEF log_delete, Done
<1>3. CASE log_poll
  BY <1>3 DEF log_poll, Done
<1>4. CASE log_empty \/ log_clear
          \/ \E idx \in 1 .. MaxIdx : log_load_from_snapshot(idx)
  BY <1>4 DEF log_empty, log_clear, log_load_from_snapshot, Done
<1>. QED  BY <1>1, <1>2, <1>3, <1>4 DEF Next

\* For every capacity: log_pop and log_poll give back each entry that leaves
\* the log exactly once, under its own index, so memory allocated in log_offer
\* is freed once on these paths.
THEOREM EntriesReleasedOnce == Spec => PopPollReleaseExactly
<1>1. Spec => []Inv
  BY InitInv, NextInv, PTL DEF Spec
<1>2. ASSUME Inv, Next
      PROVE  /\ last'.op = "log_delete" /\ "log_pop" \in Callbacks =>
                  Releases(last'.released, base' + count' + 1 .. base + count)
             /\ last'.op = "log_poll" /\ "log_poll" \in Callbacks =>
                  Releases(last'.released, base + 1 .. base')
  BY <1>2, StepName, DeleteReleases, PollReleases, BoundAssumption
<1>3. Inv /\ [Next]_vars =>
        [/\ last'.op = "log_delete" /\ "log_pop" \in Callbacks =>
              Releases(last'.released, base' + count' + 1 .. base + count)
         /\ last'.op = "log_poll" /\ "log_poll" \in Callbacks =>
              Releases(last'.released, base + 1 .. base')]_vars
  BY <1>2
<1>. QED  BY <1>1, <1>3, PTL DEF Spec, PopPollReleaseExactly
=============================================================================
