---------------------------- MODULE MCRaftServer ----------------------------
EXTENDS RaftServer

\* Servers 1, 2 and 3 are alike until one of them moves, so where only one
\* election into term 1 is wanted it is server 1's.
OneTerm == << {1} >>
OneThenTwo == << {1}, {1, 2} >>

\* Fields no later step reads: the node indices of a server that is not a
\* leader and the votes of one that is not a candidate are reset before use.
Live(me) ==
    [me EXCEPT !.next_idx = IF me.state = "leader" THEN @ ELSE <<>>,
               !.match_idx = IF me.state = "leader" THEN @ ELSE <<>>,
               !.votes = IF me.state = "candidate" THEN @ ELSE {}]

LiveView == <<[i \in Server |-> Live(srv[i])], net, used, elected, answers>>

-----------------------------------------------------------------------------
(* State constraints.                                                      *)

IsReplication(m) == m.type \in {"appendentries", "appendentries_response"}

\* Which of the bounds may be reached together: messages overtake each other
\* between servers 1 and 2 while they replicate, and a server that restarts has
\* at most one entry and one message in flight to deal with.
NotAllAtOnce ==
    /\ Cardinality(net) > 1 =>
          \A m \in net : IsReplication(m) /\ {m.src, m.dst} = {1, 2}
    /\ used.restarts > 0 => Cardinality(net) <= 1 /\ used.requests <= 1

\* Five servers and three terms, in each of which the network serves one
\* leader, two voters and the nodes it replicates to, and loses the rest: server
\* 2 has the entry of term 1, and server 3 that of term 2 when it meets 1 again.
Five == << {1}, {2, 3}, {2} >>
Leading == << 1, 3, 2 >>
Voting == << {3, 4}, {4, 5}, {4, 5} >>
Following == << {2}, {1}, {4, 5} >>
Partitioned ==
    /\ used.requests <= Cardinality(elected)
    /\ \A m \in net :
          LET reached == IF IsReplication(m) THEN Following ELSE Voting
          IN  /\ {m.src, m.dst} \ {Leading[m.term]} \subseteq reached[m.term]
              /\ m.type = "appendentries" => m.entries # <<>>
=============================================================================
