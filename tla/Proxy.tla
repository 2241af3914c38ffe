------------------------------- MODULE Proxy --------------------------------
(***************************************************************************)
(* The TCP proxy (include/tcpServer.hpp, include/tcpClient.hpp): one epoll *)
(* loop that opens a session with the FTP server for every connection it   *)
(* accepts and forwards what the connections send, byte by byte, edge      *)
(* triggered.                                                              *)
(*                                                                         *)
(* Clients, the FTP server and the kernel are the environment: bytes, ends *)
(* and resets arrive between any two system calls of the loop.  Answers of *)
(* the FTP server after its greeting are left out: the proxy never reads   *)
(* them.  File descriptors do not run out.                                 *)
(***************************************************************************)
EXTENDS Integers, Sequences, FiniteSets, FiniteSetsExt, SequencesExt

CONSTANTS Conns,     \* the connections clients make, each once
          MaxBytes,  \* how many bytes each may send
          MayAbort   \* may accept fail?

ASSUME ProxyAssumption == MaxBytes \in Nat /\ MayAbort \in BOOLEAN

VARIABLES
    backlog,    \* connections accept has not taken yet
    peer,       \* connection -> [inbox, end, sent]: what the kernel holds of it
    open,       \* descriptor -> the connection accepted on it
    interest,   \* the descriptors registered with epfd (the listening one aside)
    ready,      \* those with an edge epoll_wait has not reported
    clnt_sock,  \* what the last accept returned
    clients,    \* descriptor -> session
    sessions,   \* the tcpClients made: [sock, state, greeting, got: the writes]
    events,     \* ep_events, from the one that is handled on
    pc,         \* "wait", "loop" or "getMsg"; "undefined" or "killed" at an end
    stray,      \* is the byte after buf other than zero?
    taken,      \* history: connection -> the bytes read from it, zeros aside
    sessionOf,  \* history: connection -> the session it was accepted with
    overlapped, \* history: has a connection been accepted while one was open?
    aborted     \* history: has an accept failed?

vars == <<backlog, peer, open, interest, ready, clnt_sock, clients, sessions, events, pc,
          stray, taken, sessionOf, overlapped, aborted>>
history == <<taken, sessionOf, overlapped, aborted>>
loop == <<open, interest, clnt_sock, clients, sessions, events, pc, stray>>

serv_sock == 0
NoSock == -1
Stray == -1     \* a byte that is sent after the one read
Nothing == [inbox |-> <<>>, end |-> "none", sent |-> 0]
Empty == [x \in {} |-> 0]

Init == /\ backlog = <<>> /\ peer = [c \in Conns |-> Nothing]
        /\ open = Empty /\ interest = {} /\ ready = {} /\ clnt_sock = NoSock
        /\ clients = Empty /\ sessions = <<>> /\ events = <<>> /\ pc = "wait"
        /\ stray \in BOOLEAN
        /\ taken = [c \in Conns |-> <<>>] /\ sessionOf = Empty
        /\ overlapped = FALSE /\ aborted = FALSE

-----------------------------------------------------------------------------
(* Clients and the FTP server.                                             *)

Connect(c) ==
    /\ peer[c].end = "none"
    /\ peer' = [peer EXCEPT ![c].end = "up"]
    /\ backlog' = Append(backlog, c)
    /\ UNCHANGED <<ready, loop, history>>

\* Something new to read is an edge, for a descriptor that is registered.
Edge(c) == ready' = ready \cup {fd \in interest : open[fd] = c}
\* The n-th byte of a connection is n, or a zero.
Send(c) ==
    /\ peer[c].end = "up" /\ peer[c].sent < MaxBytes
    /\ \E b \in {0, peer[c].sent + 1} :
         peer' = [peer EXCEPT ![c].sent = @ + 1, ![c].inbox = Append(@, b)]
    /\ Edge(c) /\ UNCHANGED <<backlog, loop, history>>
Close(c) ==
    /\ peer[c].end = "up"
    /\ peer' = [peer EXCEPT ![c].end = "closed"]
    /\ Edge(c) /\ UNCHANGED <<backlog, loop, history>>
\* What was not read may be lost.
Reset(c) ==
    /\ peer[c].end = "up"
    /\ \E left \in {peer[c].inbox, <<>>} :
         peer' = [peer EXCEPT ![c].end = "reset", ![c].inbox = left]
    /\ Edge(c) /\ UNCHANGED <<backlog, loop, history>>

\* The greeting arrives, all of it up to the line's end; or the server hangs up.
Greet(s) ==
    /\ sessions[s].state = "up" /\ sessions[s].greeting = "none"
    /\ sessions' = [sessions EXCEPT ![s].greeting = "there"]
    /\ UNCHANGED <<backlog, peer, open, interest, ready, clnt_sock, clients, events, pc,
                   stray, history>>
HangUp(s) ==
    /\ sessions[s].state = "up"
    /\ sessions' = [sessions EXCEPT ![s].state = "down"]
    /\ UNCHANGED <<backlog, peer, open, interest, ready, clnt_sock, clients, events, pc,
                   stray, history>>

-----------------------------------------------------------------------------
(* The loop.                                                               *)

\* All that is ready, in any order; the listening socket is level triggered.
epoll_wait ==
    /\ pc = "wait"
    /\ LET fds == ready \cup (IF backlog = <<>> THEN {} ELSE {serv_sock})
       IN  fds # {} /\ events' \in SetToSeqs(fds)
    /\ ready' = {} /\ pc' = "loop"
    /\ UNCHANGED <<backlog, peer, open, interest, clnt_sock, clients, sessions, stray, history>>
LoopEnd ==
    /\ pc = "loop" /\ events = <<>> /\ pc' = "wait"
    /\ UNCHANGED <<backlog, peer, open, interest, ready, clnt_sock, clients, sessions, events,
                   stray, history>>

\* The lowest descriptor that is free.
InUse == {serv_sock} \cup DOMAIN open \cup {sessions[s].sock : s \in DOMAIN sessions}
Free(used) == Min((0 .. Cardinality(used)) \ used)
\* The constructor connects, or the FTP server refuses.
tcpClient(sock, state) == [sock |-> sock, state |-> state, greeting |-> "none", got |-> <<>>]

\* A session for the descriptor, unless it has one.
SessionFor(fd, used) ==
    IF fd \in DOMAIN clients THEN UNCHANGED <<clients, sessions>>
    ELSE /\ \E state \in {"up", "refused"} :
              sessions' = Append(sessions, tcpClient(Free(used), state))
         /\ clients' = [f \in DOMAIN clients \cup {fd} |->
                          IF f = fd THEN Len(sessions) + 1 ELSE clients[f]]
accept ==
    /\ pc = "loop" /\ events # <<>> /\ Head(events) = serv_sock
    /\ LET fd == Free(InUse)
           c == Head(backlog)
       IN  /\ clnt_sock' = fd
           /\ open' = [f \in DOMAIN open \cup {fd} |-> IF f = fd THEN c ELSE open[f]]
           /\ SessionFor(fd, InUse \cup {fd})
           /\ sessionOf' = [d \in DOMAIN sessionOf \cup {c} |->
                              IF d = c THEN clients'[fd] ELSE sessionOf[d]]
    /\ backlog' = Tail(backlog) /\ pc' = "getMsg"
    /\ overlapped' = (overlapped \/ DOMAIN open # {})
    /\ UNCHANGED <<peer, interest, ready, events, stray, taken, aborted>>
\* The connection is gone; the code goes on with -1 as if it were a descriptor.
AcceptFails ==
    /\ MayAbort /\ pc = "loop" /\ events # <<>> /\ Head(events) = serv_sock
    /\ clnt_sock' = NoSock /\ SessionFor(NoSock, InUse)
    /\ backlog' = Tail(backlog) /\ pc' = "getMsg" /\ aborted' = TRUE
    /\ UNCHANGED <<peer, open, interest, ready, events, stray, taken, sessionOf, overlapped>>

\* getMsg returns with the greeting, or at once when the session is refused; it
\* waits for a greeting read before and reads the end of the session for ever.
getMsg(s) ==
    \/ sessions[s].state = "refused" /\ UNCHANGED sessions
    \/ /\ sessions[s].state # "refused" /\ sessions[s].greeting = "there"
       /\ sessions' = [sessions EXCEPT ![s].greeting = "read"]
\* The greeting is written to the client: if that has reset the connection, the
\* write takes the error and reads find the end.  No greeting has the length -1,
\* which write refuses.  Then epoll_ctl: a descriptor with something to read has
\* its first edge, and -1 ends the round with the events that are left in it.
Readable(c) == peer[c].inbox # <<>> \/ peer[c].end # "up"
Registers ==
    /\ interest' = interest \cup {clnt_sock}
    /\ ready' = IF Readable(open[clnt_sock]) THEN ready \cup {clnt_sock} ELSE ready
    /\ events' = Tail(events) /\ pc' = "loop"
Greeting ==
    LET s == clients[clnt_sock]
        resets == /\ sessions[s].state # "refused" /\ clnt_sock # NoSock
                  /\ peer[open[clnt_sock]].end = "reset"
    IN  /\ pc = "getMsg" /\ getMsg(s)
        /\ peer' = IF resets THEN [peer EXCEPT ![open[clnt_sock]].end = "closed"] ELSE peer
        /\ IF clnt_sock # NoSock THEN Registers
           ELSE events' = <<>> /\ pc' = "wait" /\ UNCHANGED <<interest, ready>>
        /\ UNCHANGED <<backlog, open, clnt_sock, clients, stray, history>>

\* The event of a connection: it is read until nothing is left.
Reading(fd) == pc = "loop" /\ events # <<>> /\ Head(events) = fd /\ fd # serv_sock
NextEvent == events' = Tail(events) /\ UNCHANGED pc

\* buf holds one byte and no zero after it.
Sent(b) == IF b = 0 THEN <<>> ELSE IF stray THEN <<b, Stray>> ELSE <<b>>
\* write: the first one after the FTP server hung up is lost, the next one, or one
\* to a session that was refused, raises SIGPIPE.
sendMsg(s, b) ==
    CASE Sent(b) = <<>> -> UNCHANGED <<sessions, pc>>
      [] Sent(b) # <<>> /\ sessions[s].state = "up" ->
           sessions' = [sessions EXCEPT ![s].got = Append(@, Sent(b))] /\ UNCHANGED pc
      [] Sent(b) # <<>> /\ sessions[s].state = "down" ->
           sessions' = [sessions EXCEPT ![s].state = "broken"] /\ UNCHANGED pc
      [] OTHER -> pc' = "killed" /\ UNCHANGED sessions
\* To the session of the connection accepted last; there may be none.
Forward(b) ==
    IF clnt_sock \in DOMAIN clients THEN sendMsg(clients[clnt_sock], b)
    ELSE pc' = "undefined" /\ UNCHANGED sessions
Consumed(fd) ==
    LET c == open[fd]
        b == Head(peer[c].inbox)
    IN  /\ peer[c].inbox # <<>>
        /\ peer' = [peer EXCEPT ![c].inbox = Tail(@)]
        /\ taken' = IF b = 0 THEN taken ELSE [taken EXCEPT ![c] = Append(@, b)]
\* Variant: one read for each event.
Reads_once(fd) ==
    /\ Reading(fd) /\ Consumed(fd) /\ Forward(Head(peer[open[fd]].inbox))
    /\ events' = Tail(events)
    /\ UNCHANGED <<backlog, open, interest, ready, clnt_sock, clients, stray,
                   sessionOf, overlapped, aborted>>
ReadByte(fd) ==
    /\ Reading(fd) /\ Consumed(fd) /\ Forward(Head(peer[open[fd]].inbox))
    /\ UNCHANGED <<backlog, open, interest, ready, clnt_sock, clients, events, stray,
                   sessionOf, overlapped, aborted>>

AtEnd(fd) == peer[open[fd]].inbox = <<>> /\ peer[open[fd]].end = "closed"
Without(f, x) == [y \in DOMAIN f \ {x} |-> f[y]]
\* Variant: buf is sent before the end is looked at.
Sends_before_test(fd) ==
    /\ Reading(fd) /\ AtEnd(fd) /\ fd \in DOMAIN clients
    /\ interest' = interest \ {fd} /\ ready' = ready \ {fd}
    /\ sessions' = [sessions EXCEPT ![clients[fd]] =
                      [@ EXCEPT !.state = "deleted", !.sock = NoSock,
                                !.got = IF taken[open[fd]] = <<>> THEN @
                                        ELSE Append(@, Sent(Last(taken[open[fd]])))]]
    /\ clients' = Without(clients, fd) /\ open' = Without(open, fd) /\ NextEvent
    /\ UNCHANGED <<backlog, peer, clnt_sock, stray, history>>
\* The end: the session is deleted and forgotten, the descriptor closed.
ReadEnd(fd) ==
    /\ Reading(fd) /\ AtEnd(fd)
    /\ IF fd \notin DOMAIN clients
       THEN pc' = "undefined" /\ UNCHANGED <<open, interest, ready, clients, sessions, events>>
       ELSE /\ interest' = interest \ {fd} /\ ready' = ready \ {fd}
            /\ sessions' = [sessions EXCEPT ![clients[fd]] =
                              [@ EXCEPT !.state = "deleted", !.sock = NoSock]]
            /\ clients' = Without(clients, fd) /\ open' = Without(open, fd) /\ NextEvent
    /\ UNCHANGED <<backlog, peer, clnt_sock, stray, history>>
\* EAGAIN, or another error, which the connection gives once and is left open with.
ReadFails(fd) ==
    /\ Reading(fd) /\ peer[open[fd]].inbox = <<>>
    /\ peer[open[fd]].end \in {"up", "reset", "dead"}
    /\ peer' = IF peer[open[fd]].end = "up" THEN peer
               ELSE [peer EXCEPT ![open[fd]].end = "dead"]
    /\ NextEvent
    /\ UNCHANGED <<backlog, open, interest, ready, clnt_sock, clients, sessions, stray, history>>

Server == \/ epoll_wait \/ LoopEnd \/ accept \/ AcceptFails \/ Greeting
          \/ \E fd \in interest : ReadByte(fd) \/ ReadEnd(fd) \/ ReadFails(fd)
Environment == \/ \E c \in Conns : Connect(c) \/ Send(c) \/ Close(c) \/ Reset(c)
               \/ \E s \in DOMAIN sessions : Greet(s) \/ HangUp(s)
Next == Server \/ Environment

Spec == Init /\ [][Next]_vars

-----------------------------------------------------------------------------
(* Properties.                                                             *)

\* Whenever the loop is about to wait with no edge outstanding, no connection has
\* bytes or an end that were not read: with edge triggering nobody would report
\* them again.  Not after an accept failed: that throws the round's events away.
Drained ==
    pc = "wait" /\ ready = {} /\ ~aborted =>
        \A fd \in interest : peer[open[fd]].inbox = <<>> /\ peer[open[fd]].end \in {"up", "dead"}

\* What the FTP server got of the connection: the first byte of each write.
Real(s) == [k \in DOMAIN sessions[s].got |-> Head(sessions[s].got[k])]
\* As long as connections follow one another, descriptors and sessions are reused
\* properly: the loop uses no session that is gone, and a connection's session gets
\* the bytes read from it, each once and in order (zeros aside), while the FTP
\* server takes them.  With two connections open at a time this does not hold: what
\* one sends goes to the session of the other, or to one that is deleted.
SoleClient ==
    ~overlapped /\ ~aborted =>
        /\ pc # "undefined"
        /\ \A c \in DOMAIN sessionOf :
             /\ IsPrefix(Real(sessionOf[c]), taken[c])
             /\ sessions[sessionOf[c]].state = "up" => Real(sessionOf[c]) = taken[c]
=============================================================================
