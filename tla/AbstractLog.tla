---------------------------- MODULE AbstractLog ----------------------------
(***************************************************************************)
(* What the log of raft/raft_log.c promises to the Raft server: a sequence *)
(* of entries whose first element has index base + 1.  Entries enter at    *)
(* the young end one at a time; they leave at the young end (a conflict    *)
(* with a leader), at the old end (compaction), or all at once.            *)
(***************************************************************************)
EXTENDS Integers, Sequences

CONSTANT Entry      \* the entries a server may put in its log

VARIABLES base,     \* index of the last entry compacted away
          log       \* the entries at indexes base + 1, base + 2, ...

absVars == <<base, log>>

Init == base = 0 /\ log = <<>>

\* One entry joins the young end.
Append1(e) == log' = Append(log, e) /\ UNCHANGED base

\* The k youngest entries leave; the others keep their indexes.
Truncate(k) ==
    /\ log' = SubSeq(log, 1, Len(log) - k)
    /\ UNCHANGED base

\* The oldest entry leaves; the others keep their indexes.
Compact == log # <<>> /\ log' = Tail(log) /\ base' = base + 1

\* Every entry leaves and the log restarts after some index.
Restart == log' = <<>> /\ base' \in Nat

Next ==
    \/ \E e \in Entry : Append1(e)
    \/ \E k \in 0 .. Len(log) : Truncate(k)
    \/ Compact
    \/ Restart

Spec == Init /\ [][Next]_absVars
=============================================================================
