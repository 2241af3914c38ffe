------------------------------ MODULE MCKeeper ------------------------------
(* Model-checking instance of Keeper. *)
EXTENDS Keeper

\* Three rows; the second has a column that is too long for its buffer.
ThreeRows == << [recipient |-> "r1", fits |-> TRUE],
                [recipient |-> "r2", fits |-> FALSE],
                [recipient |-> "r3", fits |-> TRUE] >>
=============================================================================
