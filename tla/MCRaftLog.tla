----------------------------- MODULE MCRaftLog -----------------------------
(* Model-checking instance of RaftLog. *)
EXTENDS RaftLog, TLC

EntrySymmetry == Permutations(Entry)
=============================================================================
