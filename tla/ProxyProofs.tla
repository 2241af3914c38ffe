---------------------------- MODULE ProxyProofs -----------------------------
(***************************************************************************)
(* Proofs about the TCP proxy, for every set of connections and any number *)
(* of bytes on each.  Until an accept fails; what the code then does with  *)
(* the descriptor -1 is left to the model checker.                         *)
(***************************************************************************)
EXTENDS Proxy, FiniteSetTheorems, SequenceTheorems, TLAPS

Ends == {"none", "up", "closed", "reset", "dead"}
PeerRec == [inbox : Seq(Nat), end : Ends, sent : Nat]
SessionRec ==
    [sock : Int, state : {"up", "refused", "down", "broken", "deleted"},
     greeting : {"none", "there", "read"}, got : Seq(Seq(Int))]

\* The variables have their types; only open descriptors are registered.
ProxyType ==
    /\ backlog \in Seq(Conns)
    /\ peer \in [Conns -> PeerRec]
    /\ IsFiniteSet(DOMAIN open) /\ open \in [DOMAIN open -> Conns]
    /\ DOMAIN open \subseteq Nat \ {serv_sock}
    /\ interest \subseteq DOMAIN open /\ ready \subseteq interest
    /\ clients \in [DOMAIN clients -> DOMAIN sessions]
    /\ sessions \in Seq(SessionRec)
    /\ events \in Seq(Nat)
    /\ pc \in {"wait", "loop", "getMsg", "undefined", "killed"}
    /\ taken \in [Conns -> Seq(Nat)]
    /\ sessionOf \in [DOMAIN sessionOf -> DOMAIN sessions]
    /\ DOMAIN sessionOf \subseteq Conns

InEvents(fd) == \E k \in DOMAIN events : events[k] = fd

\* The events of a round: each descriptor once, and the listening one only
\* while a connection waits to be accepted.
EventsOK ==
    /\ pc = "wait" => events = <<>>
    /\ \A k, l \in DOMAIN events : events[k] = events[l] => k = l
    /\ pc = "loop" /\ InEvents(serv_sock) => backlog # <<>>
    /\ pc = "getMsg" => /\ events # <<>> /\ Head(events) = serv_sock
                        /\ clnt_sock \in DOMAIN open /\ clnt_sock \in DOMAIN clients

\* Nothing is left to read from the descriptor.
Dry(fd) == peer[open[fd]].inbox = <<>> /\ peer[open[fd]].end \in {"up", "dead"}

\* Whatever there is to read has an edge or an event of this round.
Noticed ==
    pc \in {"wait", "loop", "getMsg"} =>
        \A fd \in interest : Dry(fd) \/ fd \in ready \/ InEvents(fd)

\* Each connection is accepted once.
AcceptedOnce ==
    /\ \A k, l \in DOMAIN backlog : backlog[k] = backlog[l] => k = l
    /\ \A k \in DOMAIN backlog : backlog[k] \notin DOMAIN sessionOf
    /\ \A c \in Conns : peer[c].end = "none" =>
         /\ c \notin DOMAIN sessionOf
         /\ \A k \in DOMAIN backlog : backlog[k] # c

\* The only descriptor that is open is the one accepted last, and its session
\* is the one of its connection.
OneOpen ==
    /\ DOMAIN clients = DOMAIN open
    /\ \A fd \in DOMAIN open : /\ fd = clnt_sock /\ open[fd] \in DOMAIN sessionOf
                               /\ clients[fd] = sessionOf[open[fd]]

\* No two connections share a session; it gets what is read from its own.
OwnSession ==
    /\ \A c, d \in DOMAIN sessionOf : sessionOf[c] = sessionOf[d] => c = d
    /\ \A c \in Conns : c \notin DOMAIN sessionOf => taken[c] = <<>>
    /\ \A c \in DOMAIN sessionOf :
         LET got == sessions[sessionOf[c]].got
         IN  /\ Len(got) <= Len(taken[c])
             /\ \A k \in 1 .. Len(got) : Head(got[k]) = taken[c][k]
             /\ sessions[sessionOf[c]].state = "up" => Len(got) = Len(taken[c])

Core == ProxyType /\ EventsOK /\ Noticed /\ AcceptedOnce
Sole == OneOpen /\ OwnSession /\ pc # "undefined"

ProxyInv ==
    /\ aborted \in BOOLEAN /\ overlapped \in BOOLEAN
    /\ ~aborted => Core
    /\ ~aborted /\ ~overlapped => Sole
-----------------------------------------------------------------------------
(* Sequences, and descriptors that are free.                               *)

\* What Tail leaves.
LEMMA TailFacts ==
    ASSUME NEW S, NEW s \in Seq(S), s # <<>>
    PROVE  /\ Tail(s) \in Seq(S) /\ Head(s) = s[1] /\ 1 \in DOMAIN s
           /\ \A k \in DOMAIN Tail(s) :
                k + 1 \in DOMAIN s /\ Tail(s)[k] = s[k + 1] /\ k + 1 # 1
           /\ \A k \in DOMAIN s :
                k # 1 => k - 1 \in DOMAIN Tail(s) /\ Tail(s)[k - 1] = s[k]
<1>1. /\ Tail(s) \in Seq(S) /\ Head(s) = s[1] /\ Len(s) \in Nat \ {0}
      /\ Len(Tail(s)) = Len(s) - 1
      /\ \A i \in 1 .. Len(Tail(s)) : Tail(s)[i] = s[i + 1]
  BY HeadTailProperties
<1>2. DOMAIN s = 1 .. Len(s) /\ DOMAIN Tail(s) = 1 .. Len(s) - 1
  BY <1>1
<1>3. \A k \in 1 .. Len(s) : k # 1 =>
         k - 1 \in 1 .. Len(s) - 1 /\ Tail(s)[k - 1] = s[k]
  <2> SUFFICES ASSUME NEW k \in 1 .. Len(s), k # 1
               PROVE  k - 1 \in 1 .. Len(s) - 1 /\ Tail(s)[k - 1] = s[k]
    OBVIOUS
  <2>1. k - 1 \in 1 .. Len(Tail(s)) /\ (k - 1) + 1 = k
    BY <1>1
  <2>2. Tail(s)[k - 1] = s[(k - 1) + 1]
    BY <1>1, <2>1, Zenon
  <2> QED
    BY <1>1, <2>1, <2>2
<1> QED
  BY <1>1, <1>2, <1>3

\* What Append adds.
LEMMA AppendFacts ==
    ASSUME NEW S, NEW s \in Seq(S), NEW x \in S
    PROVE  /\ Append(s, x) \in Seq(S) /\ Append(s, x) # <<>> /\ Len(s) \in Nat
           /\ DOMAIN Append(s, x) = 1 .. Len(s) + 1 /\ DOMAIN s = 1 .. Len(s)
           /\ Len(Append(s, x)) = Len(s) + 1
           /\ Append(s, x)[Len(s) + 1] = x
           /\ \A k \in 1 .. Len(s) : Append(s, x)[k] = s[k]
<1>1. /\ Append(s, x) \in Seq(S) /\ Append(s, x) # <<>>
      /\ Len(Append(s, x)) = Len(s) + 1
      /\ Append(s, x)[Len(s) + 1] = x
      /\ \A k \in 1 .. Len(s) : Append(s, x)[k] = s[k]
  BY AppendProperties
<1>2. Len(s) \in Nat /\ DOMAIN s = 1 .. Len(s)
  BY LenProperties
<1>3. DOMAIN Append(s, x) = 1 .. Len(Append(s, x))
  BY <1>1, LenProperties
<1> QED
  BY <1>1, <1>2, <1>3

LEMMA LeastNatural ==
    ASSUME NEW T, T \subseteq Nat, T # {}
    PROVE  \E x \in T : \A y \in T : x <= y
<1> DEFINE R == OpToRel(<, Nat)
<1>1. IsWellFoundedOn(R, Nat)
  BY NatLessThanWellFounded
<1> HIDE DEF R
<1>2. PICK x \in T : \A y \in T : ~ (<<y, x>> \in R)
  BY <1>1, WFMin, Zenon
<1>3. \A y \in T : y < x => <<y, x>> \in R
  BY DEF R, OpToRel
<1>4. \A y \in T : ~ (y < x)
  BY <1>2, <1>3, Zenon
<1> QED
  BY <1>4

\* The kernel finds a descriptor that is not in use.
LEMMA FreeIsFree ==
    ASSUME NEW inUse, IsFiniteSet(inUse)
    PROVE  Free(inUse) \in Nat /\ Free(inUse) \notin inUse
<1> DEFINE n == Cardinality(inUse)
           S == (0 .. n) \ inUse
<1>1. n \in Nat
  BY FS_CardinalityType
<1>2. IsFiniteSet(0 .. n) /\ Cardinality(0 .. n) = n + 1
  BY <1>1, FS_Interval
<1>3. S # {}
  <2>1. SUFFICES ASSUME S = {} PROVE FALSE
    OBVIOUS
  <2>2. 0 .. n \in SUBSET inUse
    BY <2>1
  <2>3. Cardinality(0 .. n) <= n
    BY <2>2, FS_Subset
  <2> QED
    BY <1>1, <1>2, <2>3
<1>4. S \subseteq Nat
  BY <1>1
<1>5. \E x \in S : \A y \in S : x <= y
  BY <1>3, <1>4, LeastNatural
<1>6. Min(S) \in S
  BY <1>5 DEF Min
<1> QED
  BY <1>4, <1>6 DEF Free

\* Finitely many descriptors are in use.
LEMMA InUseFinite ==
    ASSUME ProxyType
    PROVE  IsFiniteSet(InUse)
<1> DEFINE S == DOMAIN sessions
           T == {sessions[s].sock : s \in DOMAIN sessions}
           f == [s \in S |-> sessions[s].sock]
<1>1. IsFiniteSet(S)
  <2>1. S = 1 .. Len(sessions) /\ Len(sessions) \in Nat
    BY DEF ProxyType
  <2> QED
    BY <2>1, FS_Interval
<1>2. f \in Surjection(S, T)
  BY DEF Surjection
<1>3. IsFiniteSet(T)
  BY <1>1, <1>2, FS_Surjection
<1>4. IsFiniteSet({serv_sock})
  BY FS_Singleton
<1>5. IsFiniteSet({serv_sock} \cup DOMAIN open)
  BY <1>4, FS_Union DEF ProxyType
<1> QED
  BY <1>3, <1>5, FS_Union DEF InUse

\* An order of a finite set has every element, once.
LEMMA OrderedAll ==
    ASSUME NEW S, IsFiniteSet(S), NEW e \in SetToSeqs(S)
    PROVE  /\ e \in Seq(S)
           /\ \A k, l \in DOMAIN e : e[k] = e[l] => k = l
           /\ \A x \in S : \E k \in DOMAIN e : e[k] = x
<1> DEFINE D == 1 .. Cardinality(S)
<1>1. Cardinality(S) \in Nat
  BY FS_CardinalityType
<1>2. e \in [D -> S] /\ \A k, l \in D : k # l => e[k] # e[l]
  BY DEF SetToSeqs
<1>3. e \in Injection(D, S)
  BY <1>2 DEF Injection, IsInjective
<1>4. Cardinality(D) = Cardinality(S)
  BY <1>1, FS_Interval
<1>5. e \in Surjection(D, S)
  BY <1>3, <1>4, FS_Injection
<1>6. e \in Seq(S)
  BY <1>1, <1>2
<1> QED
  BY <1>2, <1>5, <1>6 DEF Surjection
-----------------------------------------------------------------------------
(* Clients and the FTP server.                                             *)

LEMMA ProxyInit == Init => ProxyInv
<1> SUFFICES ASSUME Init PROVE ProxyInv
  OBVIOUS
<1>1. Nothing \in PeerRec
  BY DEF Nothing, PeerRec, Ends
<1>2. DOMAIN Empty = {}
  BY DEF Empty
<1>3. ProxyType
  BY <1>1, <1>2, FS_EmptySet DEF Init, ProxyType
<1>4. EventsOK /\ Noticed /\ AcceptedOnce /\ Sole
  BY <1>2 DEF Init, EventsOK, Noticed, AcceptedOnce, Sole, OneOpen, OwnSession
<1> QED
  BY <1>3, <1>4 DEF ProxyInv, Core, Init

LEMMA ConnectInv ==
    ASSUME Core, NEW c \in Conns, Connect(c)
    PROVE  Core' /\ (Sole => Sole')
<1> USE DEF Core
<1>1. /\ UNCHANGED <<open, interest, ready, clnt_sock, clients, sessions, events, pc,
                      taken, sessionOf>>
      /\ peer[c].end = "none" /\ peer' = [peer EXCEPT ![c].end = "up"]
      /\ backlog' = Append(backlog, c)
  BY DEF Connect, loop, history
<1>2. /\ \A d \in Conns : d # c => peer'[d] = peer[d]
      /\ peer'[c].end = "up" /\ peer' \in [Conns -> PeerRec]
  BY <1>1 DEF ProxyType, PeerRec, Ends
<1>3. /\ backlog' \in Seq(Conns) /\ backlog' # <<>>
      /\ DOMAIN backlog' = 1 .. Len(backlog) + 1 /\ DOMAIN backlog = 1 .. Len(backlog)
      /\ Len(backlog) \in Nat /\ backlog'[Len(backlog) + 1] = c
      /\ \A k \in 1 .. Len(backlog) : backlog'[k] = backlog[k]
  <2>1. backlog \in Seq(Conns)
    BY DEF ProxyType
  <2> QED
    BY <1>1, <2>1, AppendFacts
<1>4. ProxyType'
  BY <1>1, <1>2, <1>3 DEF ProxyType
<1>5. EventsOK'
  BY <1>1, <1>3 DEF EventsOK, InEvents
<1>6. Noticed'
  <2>1. \A fd \in interest : Dry(fd) => Dry(fd)'
    BY <1>1, <1>2 DEF Dry, ProxyType
  <2> QED
    BY <1>1, <2>1 DEF Noticed, InEvents
<1>7. AcceptedOnce'
  BY <1>1, <1>2, <1>3 DEF AcceptedOnce
<1> QED
  BY <1>1, <1>4, <1>5, <1>6, <1>7 DEF Sole, OneOpen, OwnSession

\* New bytes, an end or a reset raise an edge for whoever waits for them.
LEMMA PeerInv ==
    ASSUME Core, NEW c \in Conns, Send(c) \/ Close(c) \/ Reset(c)
    PROVE  Core' /\ (Sole => Sole')
<1> USE DEF Core
<1>1. /\ UNCHANGED <<backlog, open, interest, clnt_sock, clients, sessions, events, pc,
                      taken, sessionOf>>
      /\ ready' = ready \cup {fd \in interest : open[fd] = c}
  BY DEF Send, Close, Reset, Edge, loop, history
<1>2. peer \in [Conns -> PeerRec] /\ peer[c] \in PeerRec
  BY DEF ProxyType
<1>3. /\ peer' \in [Conns -> PeerRec] /\ peer'[c].end # "none"
      /\ \A d \in Conns : d # c => peer'[d] = peer[d]
  <2>1. CASE Send(c)
    <3>1. PICK b \in {0, peer[c].sent + 1} :
            peer' = [peer EXCEPT ![c].sent = @ + 1, ![c].inbox = Append(@, b)]
      BY <2>1 DEF Send
    <3>2. /\ peer[c].sent + 1 \in Nat /\ b \in Nat /\ peer[c].end = "up"
          /\ Append(peer[c].inbox, b) \in Seq(Nat)
      BY <1>2, <2>1 DEF PeerRec, Send
    <3> QED
      BY <1>2, <3>1, <3>2 DEF PeerRec
  <2>2. CASE Close(c)
    BY <1>2, <2>2 DEF Close, PeerRec, Ends
  <2>3. CASE Reset(c)
    <3>1. PICK left \in {peer[c].inbox, <<>>} :
            peer' = [peer EXCEPT ![c].end = "reset", ![c].inbox = left]
      BY <2>3 DEF Reset
    <3>2. peer[c].inbox \in Seq(Nat) /\ <<>> \in Seq(Nat)
      BY <1>2 DEF PeerRec
    <3>3. left \in Seq(Nat)
      BY <3>2
    <3> QED
      BY <1>2, <3>1, <3>3 DEF PeerRec, Ends
  <2> QED
    BY <2>1, <2>2, <2>3
<1>4. ProxyType'
  BY <1>1, <1>3 DEF ProxyType
<1>5. EventsOK'
  BY <1>1 DEF EventsOK, InEvents
<1>6. Noticed'
  <2>1. \A fd \in interest : open[fd] \in Conns
    BY DEF ProxyType
  <2>2. \A fd \in interest : open[fd] # c => (Dry(fd) => Dry(fd)')
    BY <1>1, <1>3, <2>1 DEF Dry
  <2> QED
    BY <1>1, <2>2 DEF Noticed, InEvents
<1>7. AcceptedOnce'
  BY <1>1, <1>3 DEF AcceptedOnce
<1> QED
  BY <1>1, <1>4, <1>5, <1>6, <1>7 DEF Sole, OneOpen, OwnSession

\* Sessions that only change in sock, greeting or state, and do not come up,
\* keep what they got.
SameGot ==
    /\ sessions' \in Seq(SessionRec) /\ DOMAIN sessions' = DOMAIN sessions
    /\ \A s \in DOMAIN sessions :
         /\ sessions'[s].got = sessions[s].got
         /\ sessions'[s].state = "up" => sessions[s].state = "up"

LEMMA OwnKept ==
    ASSUME ProxyType, OwnSession, SameGot, UNCHANGED <<sessionOf, taken>>
    PROVE  OwnSession'
<1>1. \A c \in DOMAIN sessionOf : sessionOf[c] \in DOMAIN sessions
  BY DEF ProxyType
<1> QED
  BY <1>1 DEF OwnSession, SameGot

\* A session whose state or greeting is replaced.
LEMMA SessionReplaced ==
    ASSUME ProxyType, NEW s \in DOMAIN sessions, NEW r \in SessionRec,
           r.got = sessions[s].got, r.state = "up" => sessions[s].state = "up",
           sessions' = [sessions EXCEPT ![s] = r]
    PROVE  SameGot
<1>1. sessions \in Seq(SessionRec) /\ s \in 1 .. Len(sessions)
  BY DEF ProxyType
<1>2. /\ sessions' \in Seq(SessionRec) /\ Len(sessions') = Len(sessions)
      /\ \A j \in 1 .. Len(sessions) : sessions'[j] = IF j = s THEN r ELSE sessions[j]
  BY <1>1, ExceptSeq
<1>3. DOMAIN sessions' = DOMAIN sessions
  BY <1>1, <1>2
<1> QED
  BY <1>1, <1>2, <1>3 DEF SameGot

LEMMA SessionInv ==
    ASSUME Core, NEW s \in DOMAIN sessions, Greet(s) \/ HangUp(s)
    PROVE  Core' /\ (Sole => Sole')
<1> USE DEF Core
<1>1. UNCHANGED <<backlog, peer, open, interest, ready, clnt_sock, clients, events, pc,
                  taken, sessionOf>>
  BY DEF Greet, HangUp, history
<1>2. sessions[s] \in SessionRec
  BY DEF ProxyType
<1>3. SameGot
  <2>1. CASE Greet(s)
    <3> DEFINE r == [sessions[s] EXCEPT !.greeting = "there"]
    <3>1. r \in SessionRec /\ r.got = sessions[s].got /\ r.state = sessions[s].state
      BY <1>2 DEF SessionRec
    <3>2. sessions' = [sessions EXCEPT ![s] = r]
      BY <2>1 DEF Greet
    <3> HIDE DEF r
    <3> QED
      BY <3>1, <3>2, SessionReplaced
  <2>2. CASE HangUp(s)
    <3> DEFINE r == [sessions[s] EXCEPT !.state = "down"]
    <3>1. r \in SessionRec /\ r.got = sessions[s].got /\ r.state = "down"
      BY <1>2 DEF SessionRec
    <3>2. sessions' = [sessions EXCEPT ![s] = r]
      BY <2>2 DEF HangUp
    <3> HIDE DEF r
    <3> QED
      BY <3>1, <3>2, SessionReplaced
  <2> QED
    BY <2>1, <2>2
<1>4. ProxyType'
  BY <1>1, <1>3 DEF ProxyType, SameGot
<1>5. EventsOK' /\ Noticed' /\ AcceptedOnce'
  BY <1>1 DEF EventsOK, InEvents, Noticed, Dry, AcceptedOnce
<1>6. ASSUME Sole PROVE Sole'
  BY <1>1, <1>3, <1>6, OwnKept DEF Sole, OneOpen
<1> QED
  BY <1>4, <1>5, <1>6
-----------------------------------------------------------------------------
(* The loop.                                                               *)

\* epoll_wait turns every edge into an event.
LEMMA WaitInv ==
    ASSUME Core, epoll_wait
    PROVE  Core' /\ (Sole => Sole')
<1> USE DEF Core
<1> DEFINE fds == ready \cup (IF backlog = <<>> THEN {} ELSE {serv_sock})
<1>1. /\ UNCHANGED <<backlog, peer, open, interest, clnt_sock, clients, sessions, taken, sessionOf>>
      /\ pc = "wait" /\ pc' = "loop" /\ ready' = {} /\ events' \in SetToSeqs(fds)
  BY DEF epoll_wait, history
<1>2. fds \subseteq Nat /\ (serv_sock \in fds => backlog # <<>>)
  BY DEF ProxyType, serv_sock
<1>3. IsFiniteSet(fds)
  <2>1. IsFiniteSet(ready)
    <3>1. IsFiniteSet(DOMAIN open) /\ ready \in SUBSET DOMAIN open
      BY DEF ProxyType
    <3> QED
      BY <3>1, FS_Subset
  <2>2. IsFiniteSet(IF backlog = <<>> THEN {} ELSE {serv_sock})
    BY FS_EmptySet, FS_Singleton
  <2> QED
    BY <2>1, <2>2, FS_Union
<1> HIDE DEF fds
<1>4. /\ events' \in Seq(fds)
      /\ \A k, l \in DOMAIN events' : events'[k] = events'[l] => k = l
      /\ \A x \in fds : \E k \in DOMAIN events' : events'[k] = x
  BY <1>1, <1>3, OrderedAll
<1>5. \A k \in DOMAIN events' : events'[k] \in fds
  BY <1>4
<1>6. events' \in Seq(Nat)
  <2>1. /\ Len(events') \in Nat /\ DOMAIN events' = 1 .. Len(events')
        /\ events' = [k \in 1 .. Len(events') |-> events'[k]]
    BY <1>4
  <2>2. events' \in [1 .. Len(events') -> Nat]
    BY <1>2, <1>5, <2>1
  <2> QED
    BY <2>1, <2>2
<1>7. ProxyType'
  BY <1>1, <1>6 DEF ProxyType
<1>8. EventsOK'
  BY <1>1, <1>2, <1>4, <1>5 DEF EventsOK, InEvents
<1>9. Noticed'
  <2>1. events = <<>> /\ DOMAIN events = {}
    BY <1>1 DEF EventsOK
  <2>2. \A fd \in interest : Dry(fd) \/ fd \in ready
    BY <1>1, <2>1 DEF Noticed, InEvents
  <2>3. \A fd \in ready : InEvents(fd)'
    BY <1>4 DEF InEvents, fds
  <2> QED
    BY <1>1, <2>2, <2>3 DEF Noticed, Dry
<1>10. AcceptedOnce'
  BY <1>1 DEF AcceptedOnce
<1> QED
  BY <1>1, <1>7, <1>8, <1>9, <1>10 DEF Sole, OneOpen, OwnSession

LEMMA LoopEndInv ==
    ASSUME Core, LoopEnd
    PROVE  Core' /\ (Sole => Sole')
<1>1. /\ UNCHANGED <<backlog, peer, open, interest, ready, clnt_sock, clients, sessions, events,
                     taken, sessionOf>>
      /\ pc = "loop" /\ pc' = "wait" /\ events = <<>>
  BY DEF LoopEnd, history
<1> QED
  BY <1>1 DEF Core, ProxyType, EventsOK, InEvents, Noticed, Dry, AcceptedOnce, Sole, OneOpen, OwnSession

\* After the first event the others are left, each once.
LEMMA NextEventFacts ==
    ASSUME ProxyType, EventsOK, NEW fd, events # <<>>, Head(events) = fd, events' = Tail(events)
    PROVE  /\ events' \in Seq(Nat)
           /\ \A k, l \in DOMAIN events' : events'[k] = events'[l] => k = l
           /\ ~ InEvents(fd)'
           /\ \A x : InEvents(x)' => InEvents(x)
           /\ \A x : x # fd /\ InEvents(x) => InEvents(x)'
<1>1. events \in Seq(Nat)
  BY DEF ProxyType
<1>2. /\ events' \in Seq(Nat) /\ fd = events[1] /\ 1 \in DOMAIN events
      /\ \A k \in DOMAIN events' :
           k + 1 \in DOMAIN events /\ events'[k] = events[k + 1] /\ k + 1 # 1
      /\ \A k \in DOMAIN events :
           k # 1 => k - 1 \in DOMAIN events' /\ events'[k - 1] = events[k]
  BY <1>1, TailFacts
<1>3. DOMAIN events' \subseteq Nat
  BY <1>2
<1>4. \A k, l \in DOMAIN events' : events'[k] = events'[l] => k = l
  <2> SUFFICES ASSUME NEW k \in DOMAIN events', NEW l \in DOMAIN events', events'[k] = events'[l]
               PROVE  k = l
    OBVIOUS
  <2>1. k + 1 = l + 1
    BY <1>2 DEF EventsOK
  <2> QED
    BY <1>3, <2>1
<1>5. ~ InEvents(fd)'
  BY <1>2 DEF InEvents, EventsOK
<1>6. \A x : InEvents(x)' => InEvents(x)
  BY <1>2 DEF InEvents
<1>7. \A x : x # fd /\ InEvents(x) => InEvents(x)'
  BY <1>2 DEF InEvents
<1> QED
  BY <1>2, <1>4, <1>5, <1>6, <1>7

\* accept takes the next connection on a descriptor nobody uses.
LEMMA AcceptFacts ==
    ASSUME Core, accept
    PROVE  /\ clnt_sock' \in Nat \ {serv_sock} /\ clnt_sock' \notin DOMAIN open
           /\ backlog # <<>> /\ backlog \in Seq(Conns) /\ backlog[1] \in Conns
           /\ \A c : c = backlog[1] =>
                /\ c = Head(backlog)
                /\ open' = [f \in DOMAIN open \cup {clnt_sock'} |->
                              IF f = clnt_sock' THEN c ELSE open[f]]
                /\ sessionOf' = [d \in DOMAIN sessionOf \cup {c} |->
                                   IF d = c THEN clients'[clnt_sock'] ELSE sessionOf[d]]
           /\ SessionFor(clnt_sock', InUse \cup {clnt_sock'})
           /\ IsFiniteSet(InUse \cup {clnt_sock'})
<1> USE DEF Core
<1> DEFINE fd == Free(InUse)
<1>1. IsFiniteSet(InUse)
  BY InUseFinite
<1>2. fd \in Nat /\ fd \notin InUse
  BY <1>1, FreeIsFree
<1>3. fd # serv_sock /\ fd \notin DOMAIN open
  BY <1>2 DEF InUse
<1>4. IsFiniteSet(InUse \cup {fd})
  BY <1>1, FS_Singleton, FS_Union
<1>5. backlog # <<>>
  <2>1. events \in Seq(Nat) /\ events # <<>> /\ Head(events) = serv_sock /\ pc = "loop"
    BY DEF accept, ProxyType
  <2>2. 1 \in DOMAIN events /\ events[1] = serv_sock
    BY <2>1, TailFacts
  <2> QED
    BY <2>1, <2>2 DEF EventsOK, InEvents
<1>6. backlog \in Seq(Conns) /\ Head(backlog) = backlog[1] /\ backlog[1] \in Conns
  <2>1. backlog \in Seq(Conns)
    BY DEF ProxyType
  <2>2. Head(backlog) = backlog[1] /\ 1 \in DOMAIN backlog
    BY <1>5, <2>1, TailFacts
  <2> QED
    BY <2>1, <2>2
<1>7. clnt_sock' = fd
  BY DEF accept
<1>8. /\ open' = [f \in DOMAIN open \cup {fd} |-> IF f = fd THEN Head(backlog) ELSE open[f]]
      /\ SessionFor(fd, InUse \cup {fd})
      /\ sessionOf' = [d \in DOMAIN sessionOf \cup {Head(backlog)} |->
                         IF d = Head(backlog) THEN clients'[fd] ELSE sessionOf[d]]
  BY DEF accept
<1> HIDE DEF fd
<1> QED
  BY <1>2, <1>3, <1>4, <1>5, <1>6, <1>7, <1>8

\* A session is made for a descriptor that has none.
LEMMA SessionForFacts ==
    ASSUME ProxyType, NEW fd, NEW used, IsFiniteSet(used), SessionFor(fd, used)
    PROVE  /\ sessions' \in Seq(SessionRec) /\ DOMAIN sessions \subseteq DOMAIN sessions'
           /\ clients' \in [DOMAIN clients' -> DOMAIN sessions'] /\ fd \in DOMAIN clients'
           /\ \A s \in DOMAIN sessions : sessions'[s] = sessions[s]
           /\ fd \notin DOMAIN clients =>
                /\ DOMAIN clients' = DOMAIN clients \cup {fd}
                /\ clients'[fd] \in DOMAIN sessions' \ DOMAIN sessions
                /\ sessions'[clients'[fd]].got = <<>>
<1>1. sessions \in Seq(SessionRec) /\ clients \in [DOMAIN clients -> DOMAIN sessions]
  BY DEF ProxyType
<1>2. CASE fd \in DOMAIN clients
  BY <1>1, <1>2 DEF SessionFor
<1>3. CASE fd \notin DOMAIN clients
  <2>1. PICK state \in {"up", "refused"} :
          sessions' = Append(sessions, tcpClient(Free(used), state))
    BY <1>3 DEF SessionFor
  <2>2. clients' = [f \in DOMAIN clients \cup {fd} |->
                      IF f = fd THEN Len(sessions) + 1 ELSE clients[f]]
    BY <1>3 DEF SessionFor
  <2> DEFINE r == tcpClient(Free(used), state)
  <2>3. Free(used) \in Int
    BY FreeIsFree
  <2>4. r \in SessionRec /\ r.got = <<>>
    BY <2>3 DEF tcpClient, SessionRec
  <2> HIDE DEF r
  <2>5. /\ sessions' \in Seq(SessionRec) /\ Len(sessions) \in Nat
        /\ DOMAIN sessions' = 1 .. Len(sessions) + 1 /\ DOMAIN sessions = 1 .. Len(sessions)
        /\ sessions'[Len(sessions) + 1] = r
        /\ \A s \in 1 .. Len(sessions) : sessions'[s] = sessions[s]
    BY <1>1, <2>1, <2>4, AppendFacts DEF r
  <2>6. DOMAIN clients' = DOMAIN clients \cup {fd} /\ clients'[fd] = Len(sessions) + 1
    BY <2>2
  <2>7. clients' \in [DOMAIN clients' -> DOMAIN sessions']
    BY <1>1, <2>2, <2>5
  <2> QED
    BY <1>3, <2>4, <2>5, <2>6, <2>7
<1> QED
  BY <1>2, <1>3

LEMMA AcceptInv ==
    ASSUME Core, accept
    PROVE  Core' /\ (Sole /\ ~ overlapped' => Sole')
<1> USE DEF Core
<1> DEFINE c == backlog[1]
           fd == clnt_sock'
<1>1. /\ UNCHANGED <<peer, interest, ready, events, taken>>
      /\ backlog' = Tail(backlog) /\ pc = "loop" /\ pc' = "getMsg"
      /\ overlapped' = (overlapped \/ DOMAIN open # {})
      /\ events # <<>> /\ Head(events) = serv_sock
  BY DEF accept
<1>2. /\ fd \in Nat \ {serv_sock} /\ fd \notin DOMAIN open
      /\ backlog # <<>> /\ backlog \in Seq(Conns) /\ c \in Conns
      /\ open' = [f \in DOMAIN open \cup {fd} |-> IF f = fd THEN c ELSE open[f]]
      /\ sessionOf' = [d \in DOMAIN sessionOf \cup {c} |->
                         IF d = c THEN clients'[fd] ELSE sessionOf[d]]
      /\ SessionFor(fd, InUse \cup {fd}) /\ IsFiniteSet(InUse \cup {fd})
  BY AcceptFacts
<1> HIDE DEF fd
<1>3. /\ sessions' \in Seq(SessionRec) /\ DOMAIN sessions \subseteq DOMAIN sessions'
      /\ clients' \in [DOMAIN clients' -> DOMAIN sessions'] /\ fd \in DOMAIN clients'
      /\ \A s \in DOMAIN sessions : sessions'[s] = sessions[s]
      /\ fd \notin DOMAIN clients =>
           /\ DOMAIN clients' = DOMAIN clients \cup {fd}
           /\ clients'[fd] \in DOMAIN sessions' \ DOMAIN sessions
           /\ sessions'[clients'[fd]].got = <<>>
  BY <1>2, SessionForFacts
<1>4. /\ backlog' \in Seq(Conns) /\ 1 \in DOMAIN backlog
      /\ \A k \in DOMAIN backlog' :
           k + 1 \in DOMAIN backlog /\ backlog'[k] = backlog[k + 1] /\ k + 1 # 1
  BY <1>1, <1>2, TailFacts
<1> HIDE DEF c
<1>5. ProxyType'
  <2>1. IsFiniteSet(DOMAIN open')
    <3>1. DOMAIN open' = DOMAIN open \cup {fd}
      BY <1>2
    <3>2. IsFiniteSet(DOMAIN open) /\ IsFiniteSet({fd})
      BY FS_Singleton DEF ProxyType
    <3>3. IsFiniteSet(DOMAIN open \cup {fd})
      BY <3>2, FS_Union, Zenon
    <3> QED
      BY <3>1, <3>3
  <2>2. open' \in [DOMAIN open' -> Conns] /\ DOMAIN open' \subseteq Nat \ {serv_sock}
    BY <1>2 DEF ProxyType
  <2>3. interest' \subseteq DOMAIN open' /\ ready' \subseteq interest'
    BY <1>1, <1>2 DEF ProxyType
  <2>4. sessionOf' \in [DOMAIN sessionOf' -> DOMAIN sessions'] /\ DOMAIN sessionOf' \subseteq Conns
    <3>1. clients'[fd] \in DOMAIN sessions'
      BY <1>3
    <3> QED
      BY <1>2, <1>3, <3>1 DEF ProxyType
  <2> QED
    BY <1>1, <1>3, <1>4, <2>1, <2>2, <2>3, <2>4 DEF ProxyType
<1>6. EventsOK'
  BY <1>1, <1>2, <1>3 DEF EventsOK, InEvents, fd
<1>7. Noticed'
  <2>1. \A f \in interest : open'[f] = open[f]
    BY <1>2 DEF ProxyType
  <2> QED
    BY <1>1, <2>1 DEF Noticed, InEvents, Dry
<1>8. AcceptedOnce'
  <2>1. \A k, l \in DOMAIN backlog' : backlog'[k] = backlog'[l] => k = l
    <3> SUFFICES ASSUME NEW k \in DOMAIN backlog', NEW l \in DOMAIN backlog',
                        backlog'[k] = backlog'[l]
                 PROVE  k = l
      OBVIOUS
    <3>1. k + 1 = l + 1
      BY <1>4 DEF AcceptedOnce
    <3>2. k \in Nat /\ l \in Nat
      BY <1>4
    <3> QED
      BY <3>1, <3>2
  <2>2. \A k \in DOMAIN backlog' : backlog'[k] # c /\ backlog'[k] \notin DOMAIN sessionOf
    BY <1>4 DEF AcceptedOnce, c
  <2>3. DOMAIN sessionOf' = DOMAIN sessionOf \cup {c}
    BY <1>2
  <2>4. peer[c].end # "none"
    BY <1>2, <1>4 DEF AcceptedOnce, c
  <2>5. \A d \in Conns : peer[d].end = "none" => \A k \in DOMAIN backlog' : backlog'[k] # d
    BY <1>4 DEF AcceptedOnce
  <2> QED
    BY <1>1, <2>1, <2>2, <2>3, <2>4, <2>5 DEF AcceptedOnce
<1>9. ASSUME Sole, ~ overlapped' PROVE Sole'
  <2>1. DOMAIN open = {} /\ DOMAIN clients = {}
    BY <1>1, <1>9 DEF Sole, OneOpen
  <2>2. /\ DOMAIN clients' = {fd}
        /\ clients'[fd] \in DOMAIN sessions' \ DOMAIN sessions
        /\ sessions'[clients'[fd]].got = <<>>
    BY <1>3, <2>1
  <2>3. c \notin DOMAIN sessionOf /\ taken[c] = <<>>
    BY <1>2, <1>4, <1>9 DEF AcceptedOnce, Sole, OwnSession, c
  <2>4. /\ DOMAIN sessionOf' = DOMAIN sessionOf \cup {c} /\ sessionOf'[c] = clients'[fd]
        /\ \A d \in DOMAIN sessionOf : sessionOf'[d] = sessionOf[d] /\ sessionOf[d] \in DOMAIN sessions
    BY <1>2, <2>3 DEF ProxyType
  <2>5. OneOpen'
    <3>1. DOMAIN open' = {fd} /\ open'[fd] = c
      BY <1>2, <2>1
    <3> QED
      BY <2>2, <2>4, <3>1 DEF OneOpen, fd
  <2>6. \A d, e \in DOMAIN sessionOf' : sessionOf'[d] = sessionOf'[e] => d = e
    BY <1>9, <2>2, <2>4 DEF Sole, OwnSession
  <2>7. \A d \in Conns : d \notin DOMAIN sessionOf' => taken'[d] = <<>>
    BY <1>1, <1>9, <2>4 DEF Sole, OwnSession
  <2>8. \A d \in DOMAIN sessionOf' : LET got == sessions'[sessionOf'[d]].got
          IN  /\ Len(got) <= Len(taken'[d])
              /\ \A k \in 1 .. Len(got) : Head(got[k]) = taken'[d][k]
              /\ sessions'[sessionOf'[d]].state = "up" => Len(got) = Len(taken'[d])
    <3> SUFFICES ASSUME NEW d \in DOMAIN sessionOf'
                 PROVE  LET got == sessions'[sessionOf'[d]].got
                        IN  /\ Len(got) <= Len(taken'[d])
                            /\ \A k \in 1 .. Len(got) : Head(got[k]) = taken'[d][k]
                            /\ sessions'[sessionOf'[d]].state = "up" => Len(got) = Len(taken'[d])
      OBVIOUS
    <3>1. CASE d = c
      <4>1. sessions'[sessionOf'[d]].got = <<>> /\ taken'[d] = <<>>
        BY <1>1, <2>2, <2>3, <2>4, <3>1
      <4> QED
        BY <4>1
    <3>2. CASE d \in DOMAIN sessionOf
      <4>1. sessions'[sessionOf'[d]] = sessions[sessionOf[d]]
        BY <1>3, <2>4, <3>2
      <4> QED
        BY <1>1, <1>9, <3>2, <4>1 DEF Sole, OwnSession
    <3> QED
      BY <2>4, <3>1, <3>2
  <2> QED
    BY <1>1, <1>9, <2>5, <2>6, <2>7, <2>8 DEF Sole, OwnSession
<1> QED
  BY <1>5, <1>6, <1>7, <1>8, <1>9

\* The descriptor is registered with the edge of what came before.
LEMMA GreetingInv ==
    ASSUME Core, Greeting
    PROVE  Core' /\ (Sole => Sole')
<1> USE DEF Core
<1> DEFINE s == clients[clnt_sock]
           c == open[clnt_sock]
<1>1. /\ UNCHANGED <<backlog, open, clnt_sock, clients, taken, sessionOf>>
      /\ pc = "getMsg" /\ getMsg(s)
  BY DEF Greeting, history
<1>2. /\ events # <<>> /\ Head(events) = serv_sock
      /\ clnt_sock \in DOMAIN open /\ clnt_sock \in DOMAIN clients
  BY <1>1 DEF EventsOK
<1>3. clnt_sock # NoSock /\ c \in Conns /\ peer[c] \in PeerRec
  BY <1>2 DEF ProxyType, NoSock, serv_sock
<1>4. /\ interest' = interest \cup {clnt_sock}
      /\ ready' = IF Readable(c) THEN ready \cup {clnt_sock} ELSE ready
      /\ events' = Tail(events) /\ pc' = "loop"
  BY <1>3 DEF Greeting, Registers
<1>5. \/ peer' = peer
      \/ peer[c].end = "reset" /\ peer' = [peer EXCEPT ![c].end = "closed"]
  BY <1>3 DEF Greeting
<1>6. /\ peer' \in [Conns -> PeerRec] /\ \A d \in Conns : d # c => peer'[d] = peer[d]
      /\ peer'[c].end = "none" => peer[c].end = "none"
      /\ peer'[c] = peer[c] \/ peer[c].end = "reset"
  <2>1. CASE peer' = peer
    BY <2>1 DEF ProxyType
  <2>2. CASE peer[c].end = "reset" /\ peer' = [peer EXCEPT ![c].end = "closed"]
    <3> HIDE DEF c
    <3>1. peer \in [Conns -> PeerRec]
      BY DEF ProxyType
    <3> QED
      BY <1>3, <2>2, <3>1 DEF PeerRec, Ends
  <2> QED
    BY <1>5, <2>1, <2>2
<1>7. SameGot
  <2>1. s \in DOMAIN sessions /\ sessions[s] \in SessionRec
    BY <1>2 DEF ProxyType
  <2>2. CASE UNCHANGED sessions
    BY <2>2 DEF SameGot, ProxyType
  <2>3. CASE sessions' = [sessions EXCEPT ![s].greeting = "read"]
    <3> DEFINE r == [sessions[s] EXCEPT !.greeting = "read"]
    <3>1. r \in SessionRec /\ r.got = sessions[s].got /\ r.state = sessions[s].state
      BY <2>1 DEF SessionRec
    <3>2. sessions' = [sessions EXCEPT ![s] = r]
      BY <2>3
    <3> HIDE DEF r, s
    <3> QED
      BY <2>1, <3>1, <3>2, SessionReplaced
  <2> QED
    BY <1>1, <2>2, <2>3 DEF getMsg
<1> HIDE DEF s, c
<1>8. /\ events' \in Seq(Nat)
      /\ \A k, l \in DOMAIN events' : events'[k] = events'[l] => k = l
      /\ ~ InEvents(serv_sock)'
      /\ \A x : x # serv_sock /\ InEvents(x) => InEvents(x)'
  BY <1>2, <1>4, NextEventFacts
<1>9. ProxyType'
  BY <1>1, <1>2, <1>4, <1>6, <1>7, <1>8 DEF ProxyType, SameGot
<1>10. EventsOK'
  BY <1>4, <1>8 DEF EventsOK
<1>11. Noticed'
  <2> SUFFICES ASSUME NEW fd \in interest'
               PROVE  Dry(fd)' \/ fd \in ready' \/ InEvents(fd)'
    BY DEF Noticed
  <2>1. fd \in DOMAIN open /\ open[fd] \in Conns /\ fd # serv_sock
    BY <1>2, <1>4 DEF ProxyType
  <2>2. Dry(fd) => Dry(fd)'
    BY <1>1, <1>6, <2>1 DEF Dry
  <2>3. CASE fd = clnt_sock
    <3>1. ~ Readable(c) => Dry(fd)
      BY <2>3 DEF Readable, Dry, c
    <3> QED
      BY <1>4, <2>2, <2>3, <3>1
  <2>4. CASE fd # clnt_sock
    <3>1. Dry(fd) \/ fd \in ready \/ InEvents(fd)
      BY <1>1, <1>4, <2>4 DEF Noticed
    <3> QED
      BY <1>4, <1>8, <2>1, <2>2, <3>1
  <2> QED
    BY <2>3, <2>4
<1>12. AcceptedOnce'
  BY <1>1, <1>6 DEF AcceptedOnce
<1>13. ASSUME Sole PROVE Sole'
  BY <1>1, <1>4, <1>7, <1>13, OwnKept DEF Sole, OneOpen
<1> QED
  BY <1>9, <1>10, <1>11, <1>12, <1>13

\* What sendMsg does of the session: nothing, one write, or it breaks.
LEMMA ForwardCases ==
    ASSUME NEW b, Forward(b), pc = "loop"
    PROVE  \/ b = 0 /\ clnt_sock \in DOMAIN clients /\ UNCHANGED <<sessions, pc>>
           \/ /\ b # 0 /\ clnt_sock \in DOMAIN clients /\ UNCHANGED pc
              /\ sessions[clients[clnt_sock]].state = "up"
              /\ \E w \in {<<b>>, <<b, Stray>>} :
                   sessions' = [sessions EXCEPT ![clients[clnt_sock]].got = Append(@, w)]
           \/ /\ b # 0 /\ clnt_sock \in DOMAIN clients /\ UNCHANGED pc
              /\ sessions[clients[clnt_sock]].state = "down"
              /\ sessions' = [sessions EXCEPT ![clients[clnt_sock]].state = "broken"]
           \/ /\ b # 0 /\ clnt_sock \in DOMAIN clients /\ pc' = "killed" /\ UNCHANGED sessions
              /\ sessions[clients[clnt_sock]].state # "up"
           \/ clnt_sock \notin DOMAIN clients /\ pc' = "undefined" /\ UNCHANGED sessions
<1> DEFINE s == clients[clnt_sock]
<1>1. CASE clnt_sock \notin DOMAIN clients
  BY <1>1 DEF Forward
<1>2. CASE clnt_sock \in DOMAIN clients
  <2>1. sendMsg(s, b)
    BY <1>2 DEF Forward
  <2>2. IF b = 0 THEN Sent(b) = <<>> ELSE Sent(b) \in {<<b>>, <<b, Stray>>} /\ Sent(b) # <<>>
    BY DEF Sent
  <2> HIDE DEF s
  <2>3. CASE b = 0
    BY <1>2, <2>1, <2>2, <2>3 DEF sendMsg
  <2>4. CASE b # 0 /\ sessions[s].state = "up"
    <3>1. sessions' = [sessions EXCEPT ![s].got = Append(@, Sent(b))] /\ UNCHANGED pc
      BY <2>1, <2>2, <2>4 DEF sendMsg
    <3> QED
      BY <1>2, <2>2, <2>4, <3>1 DEF s
  <2>5. CASE b # 0 /\ sessions[s].state = "down"
    BY <1>2, <2>1, <2>2, <2>5 DEF sendMsg, s
  <2>6. CASE b # 0 /\ sessions[s].state \notin {"up", "down"}
    BY <1>2, <2>1, <2>2, <2>6 DEF sendMsg, s
  <2> QED
    BY <2>3, <2>4, <2>5, <2>6
<1> QED
  BY <1>1, <1>2

\* What the loop knows while it reads a descriptor.
LEMMA ReadingFacts ==
    ASSUME Core, NEW fd \in interest, Reading(fd)
    PROVE  /\ pc = "loop" /\ events # <<>> /\ Head(events) = fd /\ fd # serv_sock
           /\ fd \in DOMAIN open /\ open[fd] \in Conns /\ peer[open[fd]] \in PeerRec
           /\ InEvents(fd)
<1>1. pc = "loop" /\ events # <<>> /\ Head(events) = fd /\ fd # serv_sock
  BY DEF Reading
<1>2. fd \in DOMAIN open /\ open[fd] \in Conns /\ peer[open[fd]] \in PeerRec /\ events \in Seq(Nat)
  BY DEF Core, ProxyType
<1>3. 1 \in DOMAIN events /\ events[1] = fd
  BY <1>1, <1>2, TailFacts
<1> QED
  BY <1>1, <1>2, <1>3 DEF InEvents

LEMMA ReadFailsInv ==
    ASSUME Core, NEW fd \in interest, ReadFails(fd)
    PROVE  Core' /\ (Sole => Sole')
<1> USE DEF Core
<1> DEFINE c == open[fd]
<1>1. /\ UNCHANGED <<backlog, open, interest, ready, clnt_sock, clients, sessions, pc, taken, sessionOf>>
      /\ events' = Tail(events) /\ Reading(fd)
      /\ peer[c].inbox = <<>> /\ peer[c].end \in {"up", "reset", "dead"}
      /\ peer' = IF peer[c].end = "up" THEN peer ELSE [peer EXCEPT ![c].end = "dead"]
  BY DEF ReadFails, history, NextEvent
<1>2. /\ pc = "loop" /\ events # <<>> /\ Head(events) = fd /\ fd # serv_sock
      /\ fd \in DOMAIN open /\ c \in Conns /\ peer[c] \in PeerRec
  BY <1>1, ReadingFacts
<1> HIDE DEF c
<1>3. /\ peer' \in [Conns -> PeerRec] /\ \A d \in Conns : d # c => peer'[d] = peer[d]
      /\ peer'[c].inbox = <<>> /\ peer'[c].end \in {"up", "dead"}
  <2>1. CASE peer[c].end = "up"
    BY <1>1, <1>2, <2>1 DEF ProxyType
  <2>2. CASE peer[c].end # "up"
    BY <1>1, <1>2, <2>2 DEF ProxyType, PeerRec, Ends
  <2> QED
    BY <2>1, <2>2
<1>4. /\ events' \in Seq(Nat)
      /\ \A k, l \in DOMAIN events' : events'[k] = events'[l] => k = l
      /\ \A x : InEvents(x)' => InEvents(x)
      /\ \A x : x # fd /\ InEvents(x) => InEvents(x)'
  BY <1>1, <1>2, NextEventFacts
<1>5. ProxyType'
  BY <1>1, <1>3, <1>4 DEF ProxyType
<1>6. EventsOK'
  BY <1>1, <1>2, <1>4 DEF EventsOK
<1>7. Noticed'
  <2> SUFFICES ASSUME NEW g \in interest
               PROVE  Dry(g)' \/ g \in ready \/ InEvents(g)'
    BY <1>1 DEF Noticed
  <2>1. open[g] \in Conns
    BY DEF ProxyType
  <2>2. CASE open[g] = c
    BY <1>1, <1>3, <2>2 DEF Dry
  <2>3. CASE open[g] # c
    <3>1. g # fd /\ (Dry(g) => Dry(g)')
      BY <1>1, <1>3, <2>1, <2>3 DEF Dry, c
    <3> QED
      BY <1>2, <1>4, <3>1 DEF Noticed
  <2> QED
    BY <2>2, <2>3
<1>8. AcceptedOnce'
  <2>1. \A d \in Conns : peer'[d].end = "none" => peer[d].end = "none"
    BY <1>3
  <2> QED
    BY <1>1, <2>1 DEF AcceptedOnce
<1> QED
  BY <1>1, <1>2, <1>5, <1>6, <1>7, <1>8 DEF Sole, OneOpen, OwnSession

\* An event is not left before its descriptor has nothing to read.
LEMMA ReadEndInv ==
    ASSUME Core, NEW fd \in interest, ReadEnd(fd)
    PROVE  Core' /\ (Sole => Sole')
<1> USE DEF Core
<1>1. UNCHANGED <<backlog, peer, clnt_sock, taken, sessionOf>> /\ Reading(fd)
  BY DEF ReadEnd, history
<1>2. /\ pc = "loop" /\ events # <<>> /\ Head(events) = fd /\ fd # serv_sock
      /\ fd \in DOMAIN open /\ InEvents(fd)
  BY <1>1, ReadingFacts
<1>3. CASE fd \notin DOMAIN clients
  <2>1. pc' = "undefined" /\ UNCHANGED <<open, interest, ready, clients, sessions, events>>
    BY <1>3 DEF ReadEnd
  <2>2. Core'
    BY <1>1, <2>1 DEF ProxyType, EventsOK, Noticed, AcceptedOnce
  <2>3. ~ Sole
    BY <1>2, <1>3 DEF Sole, OneOpen
  <2> QED
    BY <2>2, <2>3
<1>4. CASE fd \in DOMAIN clients
  <2> DEFINE s == clients[fd]
             r == [sessions[s] EXCEPT !.state = "deleted", !.sock = NoSock]
  <2>1. /\ interest' = interest \ {fd} /\ ready' = ready \ {fd}
        /\ sessions' = [sessions EXCEPT ![s] = r]
        /\ clients' = Without(clients, fd) /\ open' = Without(open, fd)
        /\ events' = Tail(events) /\ pc' = pc
    BY <1>4 DEF ReadEnd, NextEvent
  <2>2. /\ DOMAIN clients' = DOMAIN clients \ {fd} /\ DOMAIN open' = DOMAIN open \ {fd}
        /\ \A g \in DOMAIN clients' : clients'[g] = clients[g]
        /\ \A g \in DOMAIN open' : open'[g] = open[g]
        /\ clients' = [g \in DOMAIN clients \ {fd} |-> clients[g]]
        /\ open' = [g \in DOMAIN open \ {fd} |-> open[g]]
    BY <2>1 DEF Without
  <2>3. SameGot
    <3>1. s \in DOMAIN sessions /\ sessions[s] \in SessionRec
      BY <1>4 DEF ProxyType
    <3> HIDE DEF s
    <3>2. NoSock \in Int
      BY DEF NoSock
    <3>3. r \in SessionRec /\ r.got = sessions[s].got /\ r.state = "deleted"
      BY <3>1, <3>2 DEF SessionRec
    <3> HIDE DEF r
    <3> QED
      BY <2>1, <3>1, <3>3, SessionReplaced
  <2> HIDE DEF r, s
  <2>4. /\ events' \in Seq(Nat)
        /\ \A k, l \in DOMAIN events' : events'[k] = events'[l] => k = l
        /\ \A x : InEvents(x)' => InEvents(x)
        /\ \A x : x # fd /\ InEvents(x) => InEvents(x)'
    BY <1>2, <2>1, NextEventFacts
  <2>5. ProxyType'
    <3>1. IsFiniteSet(DOMAIN open')
      <4>1. IsFiniteSet(DOMAIN open) /\ DOMAIN open' \in SUBSET DOMAIN open
        BY <2>2 DEF ProxyType
      <4> QED
        BY <4>1, FS_Subset
    <3>2. open' \in [DOMAIN open' -> Conns] /\ clients' \in [DOMAIN clients' -> DOMAIN sessions']
      BY <2>2, <2>3 DEF ProxyType, SameGot
    <3>3. interest' \subseteq DOMAIN open' /\ ready' \subseteq interest'
      BY <2>1, <2>2 DEF ProxyType
    <3> QED
      BY <1>1, <2>1, <2>2, <2>3, <2>4, <3>1, <3>2, <3>3 DEF ProxyType, SameGot
  <2>6. EventsOK'
    BY <1>1, <1>2, <2>1, <2>4 DEF EventsOK
  <2>7. Noticed'
    <3> SUFFICES ASSUME NEW g \in interest'
                 PROVE  Dry(g)' \/ g \in ready' \/ InEvents(g)'
      BY DEF Noticed
    <3>1. g # fd /\ g \in interest /\ g \in DOMAIN open'
      BY <2>1, <2>2 DEF ProxyType
    <3>2. Dry(g) => Dry(g)'
      BY <1>1, <2>2, <3>1 DEF Dry
    <3> QED
      BY <1>2, <2>1, <2>4, <3>1, <3>2 DEF Noticed
  <2>8. AcceptedOnce'
    BY <1>1 DEF AcceptedOnce
  <2>9. ASSUME Sole PROVE Sole'
    <3>1. OneOpen'
      BY <1>1, <2>2, <2>9 DEF Sole, OneOpen
    <3> QED
      BY <1>1, <1>2, <2>1, <2>3, <2>9, <3>1, OwnKept DEF Sole
  <2> QED
    BY <2>5, <2>6, <2>7, <2>8, <2>9
<1> QED
  BY <1>3, <1>4

\* A write to a session that is up.
LEMMA WriteFacts ==
    ASSUME ProxyType, NEW s \in DOMAIN sessions, NEW b \in Nat, NEW w \in {<<b>>, <<b, Stray>>},
           sessions' = [sessions EXCEPT ![s].got = Append(@, w)]
    PROVE  /\ sessions' \in Seq(SessionRec) /\ DOMAIN sessions' = DOMAIN sessions
           /\ \A t \in DOMAIN sessions : t # s => sessions'[t] = sessions[t]
           /\ sessions'[s].got = Append(sessions[s].got, w)
           /\ sessions'[s].state = sessions[s].state
           /\ sessions[s].got \in Seq(Seq(Int)) /\ w \in Seq(Int) /\ Head(w) = b
<1> DEFINE r == [sessions[s] EXCEPT !.got = Append(sessions[s].got, w)]
<1>1. sessions \in Seq(SessionRec) /\ s \in 1 .. Len(sessions) /\ sessions[s] \in SessionRec
  BY DEF ProxyType
<1>2. w \in Seq(Int) /\ Head(w) = b
  <2>1. Stray \in Int
    BY DEF Stray
  <2>2. CASE w = <<b>>
    BY <2>2
  <2>3. CASE w = <<b, Stray>>
    BY <2>1, <2>3
  <2> QED
    BY <2>2, <2>3
<1>3. sessions[s].got \in Seq(Seq(Int))
  BY <1>1 DEF SessionRec
<1>4. Append(sessions[s].got, w) \in Seq(Seq(Int))
  BY <1>2, <1>3, AppendFacts
<1>5. /\ r \in SessionRec /\ r.got = Append(sessions[s].got, w)
      /\ r.state = sessions[s].state
  BY <1>1, <1>4 DEF SessionRec
<1>6. sessions' = [sessions EXCEPT ![s] = r]
  OBVIOUS
<1> HIDE DEF r
<1>7. /\ sessions' \in Seq(SessionRec) /\ Len(sessions') = Len(sessions)
      /\ \A j \in 1 .. Len(sessions) : sessions'[j] = IF j = s THEN r ELSE sessions[j]
  <2>1. r \in SessionRec
    BY <1>5
  <2> DEFINE e == [sessions EXCEPT ![s] = r]
  <2>2. /\ e \in Seq(SessionRec) /\ Len(e) = Len(sessions)
        /\ \A j \in 1 .. Len(sessions) : e[j] = IF j = s THEN r ELSE sessions[j]
    BY ONLY <1>1, <2>1, ExceptSeq
  <2> HIDE DEF e
  <2>3. sessions' = e
    BY <1>6 DEF e
  <2> QED
    BY ONLY <2>2, <2>3
<1>8. DOMAIN sessions' = DOMAIN sessions /\ DOMAIN sessions = 1 .. Len(sessions)
  BY <1>1, <1>7
<1> QED
  BY <1>1, <1>2, <1>3, <1>5, <1>7, <1>8

\* One byte is read and forwarded.
LEMMA ReadByteInv ==
    ASSUME Core, NEW fd \in interest, ReadByte(fd)
    PROVE  Core' /\ (Sole => Sole')
<1> USE DEF Core
<1> DEFINE c == open[fd]
           b == Head(peer[c].inbox)
           s == clients[clnt_sock]
<1>1. /\ UNCHANGED <<backlog, open, interest, ready, clnt_sock, clients, events, sessionOf>>
      /\ Reading(fd) /\ Forward(b) /\ peer[c].inbox # <<>>
      /\ peer' = [peer EXCEPT ![c].inbox = Tail(@)]
      /\ taken' = IF b = 0 THEN taken ELSE [taken EXCEPT ![c] = Append(@, b)]
  BY DEF ReadByte, Consumed
<1>2. /\ pc = "loop" /\ events # <<>> /\ Head(events) = fd /\ fd # serv_sock
      /\ fd \in DOMAIN open /\ c \in Conns /\ peer[c] \in PeerRec /\ InEvents(fd)
  BY <1>1, ReadingFacts
<1> HIDE DEF c
<1>3. b \in Nat /\ Tail(peer[c].inbox) \in Seq(Nat)
  <2>1. peer[c].inbox \in Seq(Nat)
    BY <1>2 DEF PeerRec
  <2> QED
    BY <1>1, <2>1, HeadTailProperties
<1>4. \/ b = 0 /\ clnt_sock \in DOMAIN clients /\ UNCHANGED <<sessions, pc>>
      \/ /\ b # 0 /\ clnt_sock \in DOMAIN clients /\ UNCHANGED pc /\ sessions[s].state = "up"
         /\ \E w \in {<<b>>, <<b, Stray>>} : sessions' = [sessions EXCEPT ![s].got = Append(@, w)]
      \/ /\ b # 0 /\ clnt_sock \in DOMAIN clients /\ UNCHANGED pc
         /\ sessions[s].state = "down" /\ sessions' = [sessions EXCEPT ![s].state = "broken"]
      \/ /\ b # 0 /\ clnt_sock \in DOMAIN clients /\ pc' = "killed" /\ UNCHANGED sessions
         /\ sessions[s].state # "up"
      \/ clnt_sock \notin DOMAIN clients /\ pc' = "undefined" /\ UNCHANGED sessions
  BY <1>1, <1>2, ForwardCases
<1> HIDE DEF b, s
<1>5. /\ peer' \in [Conns -> PeerRec] /\ \A d \in Conns : d # c => peer'[d] = peer[d]
      /\ peer'[c].end = peer[c].end
  <2>1. peer \in [Conns -> PeerRec]
    BY DEF ProxyType
  <2> QED
    BY <1>1, <1>2, <1>3, <2>1 DEF PeerRec
<1>6. /\ taken' \in [Conns -> Seq(Nat)] /\ \A d \in Conns : d # c => taken'[d] = taken[d]
      /\ taken'[c] = IF b = 0 THEN taken[c] ELSE Append(taken[c], b)
  <2>1. taken \in [Conns -> Seq(Nat)] /\ taken[c] \in Seq(Nat)
    BY <1>2 DEF ProxyType
  <2>2. Append(taken[c], b) \in Seq(Nat)
    BY <1>3, <2>1, AppendFacts
  <2> QED
    BY <1>1, <1>2, <2>1, <2>2
<1>7. /\ pc' \in {"loop", "killed", "undefined"}
      /\ sessions' \in Seq(SessionRec) /\ DOMAIN sessions' = DOMAIN sessions
  <2>1. CASE UNCHANGED sessions
    BY <1>2, <1>4, <2>1 DEF ProxyType
  <2>2. CASE /\ clnt_sock \in DOMAIN clients
             /\ \E w \in {<<b>>, <<b, Stray>>} :
                  sessions' = [sessions EXCEPT ![s].got = Append(@, w)]
    <3>1. s \in DOMAIN sessions
      BY <2>2 DEF ProxyType, s
    <3> QED
      BY <1>2, <1>3, <1>4, <2>2, <3>1, WriteFacts
  <2>3. CASE /\ clnt_sock \in DOMAIN clients
             /\ sessions' = [sessions EXCEPT ![s].state = "broken"]
    <3>1. s \in DOMAIN sessions /\ sessions[s] \in SessionRec
      BY <2>3 DEF ProxyType, s
    <3> DEFINE r == [sessions[s] EXCEPT !.state = "broken"]
    <3>2. r \in SessionRec /\ r.got = sessions[s].got /\ r.state = "broken"
      BY <3>1 DEF SessionRec
    <3>3. sessions' = [sessions EXCEPT ![s] = r]
      BY <2>3
    <3> HIDE DEF r
    <3>4. SameGot
      BY <3>1, <3>2, <3>3, SessionReplaced
    <3> QED
      BY <1>2, <1>4, <3>4 DEF SameGot
  <2> QED
    BY <1>4, <2>1, <2>2, <2>3
<1>8. ProxyType'
  BY <1>1, <1>5, <1>6, <1>7 DEF ProxyType
<1>9. EventsOK'
  BY <1>1, <1>2, <1>7 DEF EventsOK, InEvents
<1>10. Noticed'
  <2> SUFFICES ASSUME NEW g \in interest
               PROVE  Dry(g)' \/ g \in ready \/ InEvents(g)
    BY <1>1 DEF Noticed, InEvents
  <2>1. open[g] \in Conns
    BY DEF ProxyType
  <2>2. Dry(g) => Dry(g)'
    BY <1>1, <1>5, <2>1 DEF Dry
  <2> QED
    BY <1>2, <2>2 DEF Noticed
<1>11. AcceptedOnce'
  <2>1. \A d \in Conns : peer'[d].end = peer[d].end
    BY <1>5
  <2> QED
    BY <1>1, <2>1 DEF AcceptedOnce
<1>12. ASSUME Sole PROVE Sole'
  <2>1. /\ fd = clnt_sock /\ clnt_sock \in DOMAIN clients /\ c \in DOMAIN sessionOf
        /\ s = sessionOf[c] /\ s \in DOMAIN sessions
    BY <1>2, <1>12 DEF Sole, OneOpen, ProxyType, c, s
  <2>2. OneOpen' /\ pc' # "undefined"
    BY <1>1, <1>2, <1>4, <1>12, <2>1 DEF Sole, OneOpen
  <2>3. \A d \in DOMAIN sessionOf : d # c => sessionOf[d] # s /\ sessionOf[d] \in DOMAIN sessions
    BY <1>12, <2>1 DEF Sole, OwnSession, ProxyType
  <2>4. CASE b = 0
    BY <1>1, <1>4, <1>6, <1>12, <2>1, <2>2, <2>4, OwnKept DEF Sole, SameGot, ProxyType
  <2>5. CASE b # 0
    <3> DEFINE got == sessions[s].got
    <3>1. /\ Len(got) <= Len(taken[c])
          /\ \A k \in 1 .. Len(got) : Head(got[k]) = taken[c][k]
          /\ sessions[s].state = "up" => Len(got) = Len(taken[c])
      BY <1>12, <2>1 DEF Sole, OwnSession
    <3>2. taken[c] \in Seq(Nat) /\ taken'[c] = Append(taken[c], b)
      BY <1>2, <1>6, <2>5 DEF ProxyType
    <3>3. /\ Len(taken'[c]) = Len(taken[c]) + 1 /\ Len(taken[c]) \in Nat
          /\ taken'[c][Len(taken[c]) + 1] = b
          /\ \A k \in 1 .. Len(taken[c]) : taken'[c][k] = taken[c][k]
      BY <1>3, <3>2, AppendFacts
    <3>4. /\ Len(sessions'[s].got) <= Len(taken'[c])
          /\ \A k \in 1 .. Len(sessions'[s].got) : Head(sessions'[s].got[k]) = taken'[c][k]
          /\ sessions'[s].state = "up" => Len(sessions'[s].got) = Len(taken'[c])
          /\ \A t \in DOMAIN sessions : t # s => sessions'[t] = sessions[t]
      <4>1. CASE /\ sessions[s].state = "up"
                 /\ \E w \in {<<b>>, <<b, Stray>>} :
                      sessions' = [sessions EXCEPT ![s].got = Append(@, w)]
        <5>1. PICK w \in {<<b>>, <<b, Stray>>} :
                sessions' = [sessions EXCEPT ![s].got = Append(@, w)]
          BY <4>1
        <5>2. /\ \A t \in DOMAIN sessions : t # s => sessions'[t] = sessions[t]
              /\ sessions'[s].got = Append(got, w)
              /\ sessions'[s].state = sessions[s].state
              /\ got \in Seq(Seq(Int)) /\ w \in Seq(Int) /\ Head(w) = b
          <6>1. ProxyType /\ s \in DOMAIN sessions /\ b \in Nat
            BY <1>3, <2>1
          <6> QED
            BY <5>1, <6>1, WriteFacts
        <5> HIDE DEF got
        <5>3. /\ Len(sessions'[s].got) = Len(got) + 1 /\ Len(got) \in Nat
              /\ sessions'[s].got[Len(got) + 1] = w
              /\ \A k \in 1 .. Len(got) : sessions'[s].got[k] = got[k]
          BY <5>2, AppendFacts
        <5>4. Len(got) = Len(taken[c])
          BY <3>1, <4>1
        <5>5. ASSUME NEW k \in 1 .. Len(got) + 1
              PROVE  Head(sessions'[s].got[k]) = taken'[c][k]
          <6>1. CASE k = Len(got) + 1
            BY <3>3, <5>2, <5>3, <5>4, <6>1
          <6>2. CASE k # Len(got) + 1
            <7>1. k \in 1 .. Len(got)
              BY <5>3, <6>2
            <7> QED
              BY <3>1, <3>3, <5>3, <5>4, <7>1 DEF got
          <6> QED
            BY <6>1, <6>2
        <5> QED
          BY <3>3, <5>2, <5>3, <5>4, <5>5
      <4>2. CASE /\ sessions[s].state # "up"
                 /\ \/ UNCHANGED sessions
                    \/ sessions' = [sessions EXCEPT ![s].state = "broken"]
        <5>1. sessions \in Seq(SessionRec) /\ sessions[s] \in SessionRec /\ s \in 1 .. Len(sessions)
          BY <2>1 DEF ProxyType
        <5>2. /\ sessions'[s].got = got /\ sessions'[s].state # "up"
              /\ \A t \in DOMAIN sessions : t # s => sessions'[t] = sessions[t]
          <6>1. CASE UNCHANGED sessions
            BY <4>2, <6>1
          <6>2. CASE sessions' = [sessions EXCEPT ![s].state = "broken"]
            <7>1. /\ sessions'[s] = [sessions[s] EXCEPT !.state = "broken"]
                  /\ \A t \in DOMAIN sessions : t # s => sessions'[t] = sessions[t]
              BY <2>1, <6>2
            <7> QED
              BY <5>1, <7>1 DEF SessionRec
          <6> QED
            BY <4>2, <6>1, <6>2
        <5>3. got \in Seq(Seq(Int)) /\ Len(got) \in Nat
          BY <5>1 DEF SessionRec
        <5> HIDE DEF got
        <5> QED
          BY <3>1, <3>3, <5>2, <5>3
      <4> QED
        BY <1>4, <2>1, <2>5, <4>1, <4>2
    <3>5. OwnSession'
      <4>1. \A d \in Conns : d \notin DOMAIN sessionOf => taken'[d] = <<>>
        BY <1>6, <1>12, <2>1 DEF Sole, OwnSession
      <4>2. ASSUME NEW d \in DOMAIN sessionOf, d # c
            PROVE  sessions'[sessionOf[d]] = sessions[sessionOf[d]] /\ taken'[d] = taken[d]
        BY <1>6, <2>3, <3>4, <4>2 DEF ProxyType
      <4>3. ASSUME NEW d \in DOMAIN sessionOf
            PROVE  LET g == sessions'[sessionOf[d]].got
                   IN  /\ Len(g) <= Len(taken'[d])
                       /\ \A k \in 1 .. Len(g) : Head(g[k]) = taken'[d][k]
                       /\ sessions'[sessionOf[d]].state = "up" => Len(g) = Len(taken'[d])
        <5>1. CASE d = c
          BY <2>1, <3>4, <5>1
        <5>2. CASE d # c
          BY <1>12, <4>2, <5>2 DEF Sole, OwnSession
        <5> QED
          BY <5>1, <5>2
      <4>4. \A d, e \in DOMAIN sessionOf : sessionOf[d] = sessionOf[e] => d = e
        BY <1>12 DEF Sole, OwnSession
      <4> QED
        BY <1>1, <4>1, <4>3, <4>4 DEF OwnSession
    <3> QED
      BY <2>2, <3>5 DEF Sole
  <2> QED
    BY <2>4, <2>5
<1> QED
  BY <1>8, <1>9, <1>10, <1>11, <1>12
-----------------------------------------------------------------------------
(* The theorems.                                                           *)

LEMMA ProxyStep == ProxyInv /\ [Next]_vars => ProxyInv'
<1> SUFFICES ASSUME ProxyInv, [Next]_vars PROVE ProxyInv'
  OBVIOUS
<1>1. CASE UNCHANGED vars
  BY <1>1 DEF vars, ProxyInv, Core, ProxyType, EventsOK, InEvents, Noticed, Dry, AcceptedOnce,
              Sole, OneOpen, OwnSession
<1>2. CASE AcceptFails
  BY <1>2 DEF AcceptFails, ProxyInv
<1>3. CASE accept
  <2>1. aborted' = aborted /\ overlapped' = (overlapped \/ DOMAIN open # {})
    BY <1>3 DEF accept
  <2>2. ~ aborted => Core' /\ (Sole /\ ~ overlapped' => Sole')
    BY <1>3, AcceptInv DEF ProxyInv
  <2> QED
    BY <2>1, <2>2 DEF ProxyInv
<1>4. ASSUME UNCHANGED <<overlapped, aborted>>, Core => (Core' /\ (Sole => Sole')) PROVE ProxyInv'
  BY <1>4 DEF ProxyInv
<1>5. CASE epoll_wait
  BY <1>4, <1>5, WaitInv DEF epoll_wait, history
<1>6. CASE LoopEnd
  BY <1>4, <1>6, LoopEndInv DEF LoopEnd, history
<1>7. CASE Greeting
  BY <1>4, <1>7, GreetingInv DEF Greeting, history
<1>8. ASSUME NEW fd \in interest, ReadByte(fd) PROVE ProxyInv'
  BY <1>4, <1>8, ReadByteInv DEF ReadByte
<1>9. ASSUME NEW fd \in interest, ReadEnd(fd) PROVE ProxyInv'
  BY <1>4, <1>9, ReadEndInv DEF ReadEnd, history
<1>10. ASSUME NEW fd \in interest, ReadFails(fd) PROVE ProxyInv'
  BY <1>4, <1>10, ReadFailsInv DEF ReadFails, history
<1>11. ASSUME NEW c \in Conns, Connect(c) PROVE ProxyInv'
  BY <1>4, <1>11, ConnectInv DEF Connect, history
<1>12. ASSUME NEW c \in Conns, Send(c) \/ Close(c) \/ Reset(c) PROVE ProxyInv'
  BY <1>4, <1>12, PeerInv DEF Send, Close, Reset, history
<1>13. ASSUME NEW s \in DOMAIN sessions, Greet(s) \/ HangUp(s) PROVE ProxyInv'
  BY <1>4, <1>13, SessionInv DEF Greet, HangUp, history
<1> QED
  BY <1>1, <1>2, <1>3, <1>5, <1>6, <1>7, <1>8, <1>9, <1>10, <1>11, <1>12, <1>13
     DEF Next, Server, Environment

LEMMA ProxyInvariant == Spec => []ProxyInv
  BY ProxyInit, ProxyStep, PTL DEF Spec

\* With edge triggering no byte and no end is left unnoticed: whenever the loop is
\* about to wait with no edge outstanding, every connection has been read to the end.
THEOREM NothingUnread == Spec => []Drained
<1>1. ProxyInv => Drained
  <2> SUFFICES ASSUME ProxyInv, pc = "wait", ready = {}, ~ aborted, NEW fd \in interest
               PROVE  Dry(fd)
    BY DEF Drained, Dry
  <2>1. EventsOK /\ Noticed
    BY DEF ProxyInv, Core
  <2>2. ~ InEvents(fd)
    BY <2>1 DEF EventsOK, InEvents
  <2> QED
    BY <2>1, <2>2 DEF Noticed
<1> QED
  BY <1>1, ProxyInvariant, PTL

\* Connections that follow one another do not mix: each session gets the bytes of
\* its own connection, in order, and the loop uses no session that is gone.
THEOREM SessionsDoNotMix == Spec => []SoleClient
<1>1. ProxyInv => SoleClient
  <2> SUFFICES ASSUME ProxyInv, ~ overlapped, ~ aborted
               PROVE  /\ pc # "undefined"
                      /\ \A c \in DOMAIN sessionOf :
                           /\ IsPrefix(Real(sessionOf[c]), taken[c])
                           /\ sessions[sessionOf[c]].state = "up" => Real(sessionOf[c]) = taken[c]
    BY DEF SoleClient
  <2>1. Core /\ Sole
    BY DEF ProxyInv
  <2>2. ASSUME NEW c \in DOMAIN sessionOf
        PROVE  /\ IsPrefix(Real(sessionOf[c]), taken[c])
               /\ sessions[sessionOf[c]].state = "up" => Real(sessionOf[c]) = taken[c]
    <3> DEFINE s == sessionOf[c]
               got == sessions[s].got
    <3>1. /\ s \in DOMAIN sessions /\ sessions[s] \in SessionRec
          /\ taken[c] \in Seq(Nat)
      BY <2>1 DEF Core, ProxyType
    <3>2. got \in Seq(Seq(Int)) /\ Len(got) \in Nat /\ DOMAIN got = 1 .. Len(got)
      BY <3>1 DEF SessionRec
    <3>3. /\ Len(got) <= Len(taken[c])
          /\ \A k \in 1 .. Len(got) : Head(got[k]) = taken[c][k]
          /\ sessions[s].state = "up" => Len(got) = Len(taken[c])
      BY <2>1 DEF Sole, OwnSession
    <3>4. /\ Real(s) = [k \in 1 .. Len(got) |-> taken[c][k]]
      BY <3>2, <3>3 DEF Real
    <3> HIDE DEF s, got
    <3>5. Len(taken[c]) \in Nat /\ taken[c] = [k \in 1 .. Len(taken[c]) |-> taken[c][k]]
      BY <3>1
    <3>6. Real(s) = SubSeq(taken[c], 1, Len(got)) /\ Len(Real(s)) = Len(got)
      BY <3>1, <3>2, <3>3, <3>4, <3>5
    <3>7. IsPrefix(Real(s), taken[c])
      BY <3>1, <3>2, <3>3, <3>5, <3>6 DEF IsPrefix
    <3>8. sessions[s].state = "up" => Real(s) = taken[c]
      BY <3>3, <3>4, <3>5
    <3> QED
      BY <3>7, <3>8 DEF s
  <2> QED
    BY <2>1, <2>2 DEF Sole
<1> QED
  BY <1>1, ProxyInvariant, PTL
=============================================================================
