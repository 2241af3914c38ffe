---------------------------- MODULE KeeperProofs ----------------------------
(***************************************************************************)
(* Proofs about the homeKeeper process, for every set of addresses, every  *)
(* table of recipients and any number of changes and odd answers.          *)
(***************************************************************************)
EXTENDS Keeper, SequenceTheorems, WellFoundedInduction, TLAPS

Ips == Address \cup {NoAddress}
EmailRow == [recipient : Recipient, fits : BOOLEAN]
IpRow == [ip : Ips, send_flag : {0, 1}]
IpInfo == [rec_id : Nat \ {0}, ip : Ips, send_flag : {0, 1}]

\* The variables have their types.
KeeperType ==
    /\ public \in Address
    /\ body \in [ip : Ips, more : BOOLEAN]
    /\ table \in Seq(IpRow)
    /\ getter \in [pc : {"init", "poll", "read", "compare"}, resNew : Ips,
                   infos : Seq(IpInfo)]
    /\ mailer \in [pc : {"init", "read", "mail"}, infos : Seq(IpInfo),
                   unread : Seq(EmailRow), emailInfos : Seq(EmailRow),
                   todo : Seq(EmailRow), result : BOOLEAN]
    /\ used \in [changes : Nat, odd : Nat]

\* What getIp compares with is the newest row, which nobody else replaces.
ComparesNewest ==
    getter.pc = "compare" =>
        IF getter.infos = <<>> THEN table = <<>>
        ELSE table # <<>> /\ getter.infos[1].ip = Newest.ip

\* Everybody the first fetch finds is in s.
Covers(s) ==
    \A k \in DOMAIN Fetched(EmailTable) :
        \E l \in DOMAIN s : s[l].recipient = Fetched(EmailTable)[k].recipient

\* sendEmail keeps the recipients it has read.
RecipientsKept ==
    /\ mailer.pc = "read" =>
         \/ mailer.emailInfos = <<>> /\ mailer.unread = EmailTable
         \/ Covers(mailer.emailInfos)
    /\ mailer.pc = "mail" => Covers(mailer.emailInfos)

\* While mails are sent, infos[1] is a row of the table, and who is not among
\* those left to do has been tried with it.
MailsOfRow ==
    mailer.pc = "mail" =>
        /\ mailer.infos # <<>>
        /\ mailer.infos[1].rec_id \in DOMAIN table
        /\ table[mailer.infos[1].rec_id].ip = mailer.infos[1].ip
        /\ \A l \in DOMAIN mailer.emailInfos :
             \/ <<mailer.infos[1].rec_id, mailer.infos[1].ip,
                  mailer.emailInfos[l].recipient>> \in tried
             \/ \E m \in DOMAIN mailer.todo :
                  mailer.todo[m].recipient = mailer.emailInfos[l].recipient

KeeperInv ==
    /\ KeeperType
    /\ ComparesNewest /\ RowsDiffer
    /\ RecipientsKept /\ MailsOfRow /\ FlaggedWasTried
-----------------------------------------------------------------------------
(* What one getRes of emailInfo fetches.                                   *)

\* A set of natural numbers that is not empty has a least element.
LEMMA LeastNat ==
    ASSUME NEW T, T \subseteq Nat, T # {}
    PROVE  \E x \in T : \A y \in T : x <= y
<1> DEFINE R == OpToRel(<, Nat)
<1>1. IsWellFoundedOn(R, Nat)
  BY NatLessThanWellFounded
<1> HIDE DEF R
<1>2. PICK x \in T : \A y \in T : ~ (<<y, x>> \in R)
  BY <1>1, WFMin, Zenon
<1>3. \A y \in T : y < x => <<y, x>> \in R
  BY DEF R, OpToRel
<1>4. \A y \in T : ~ (y < x)
  BY <1>2, <1>3, Zenon
<1>5. \A y \in T : x <= y
  BY <1>4
<1> QED
  BY <1>5

\* The fetched rows and those left are sequences of rows.
LEMMA FetchedType ==
    ASSUME NEW unread \in Seq(EmailRow)
    PROVE  /\ Fetched(unread) \in Seq(EmailRow)
           /\ Unfetched(unread) \in Seq(EmailRow)
<1>1. Fetched(unread) \in Seq(EmailRow)
  <2>1. CASE Bad(unread) = {}
    BY <2>1 DEF Fetched
  <2>2. CASE Bad(unread) # {}
    <3> DEFINE k == CHOOSE k \in Bad(unread) : \A j \in Bad(unread) : k <= j
    <3>1. Bad(unread) \subseteq 1 .. Len(unread)
      BY DEF Bad
    <3>2. \E x \in Bad(unread) : \A y \in Bad(unread) : x <= y
      BY <2>2, <3>1, LeastNat
    <3>3. k \in Bad(unread)
      BY <3>2
    <3>4. k \in 1 .. Len(unread)
      BY <3>1, <3>3
    <3>5. Fetched(unread) = SubSeq(unread, 1, k - 1)
      BY <2>2 DEF Fetched
    <3> HIDE DEF k
    <3>6. \A i \in 1 .. (k - 1) : unread[i] \in EmailRow
      BY <3>4
    <3>7. SubSeq(unread, 1, k - 1) \in Seq(EmailRow)
      BY <3>4, <3>6, SubSeqProperties
    <3> QED
      BY <3>5, <3>7
  <2> QED
    BY <2>1, <2>2
<1>2. Unfetched(unread) \in Seq(EmailRow)
  <2> DEFINE m == Len(Fetched(unread)) + 2
  <2>1. m \in Nat \ {0}
    BY <1>1
  <2> HIDE DEF m
  <2>2. \A i \in m .. Len(unread) : unread[i] \in EmailRow
    BY <2>1
  <2>3. SubSeq(unread, m, Len(unread)) \in Seq(EmailRow)
    BY <2>1, <2>2, SubSeqProperties
  <2> QED
    BY <2>3 DEF Unfetched, m
<1> QED
  BY <1>1, <1>2
-----------------------------------------------------------------------------
(* The invariant.                                                          *)

\* It holds at the start.
LEMMA InitInv == Init => KeeperInv
<1> SUFFICES ASSUME Init PROVE KeeperInv
  OBVIOUS
<1>1. table = <<>> /\ getter.pc = "init" /\ mailer.pc = "init"
  BY DEF Init
<1>2. KeeperType
  BY DEF Init, KeeperType, Ips
<1>3. RowsDiffer /\ FlaggedWasTried
  BY <1>1 DEF RowsDiffer, FlaggedWasTried
<1> QED
  BY <1>1, <1>2, <1>3
  DEF KeeperInv, ComparesNewest, RecipientsKept, MailsOfRow

\* A change of the address, a poll or the start of getIp leaves what the
\* invariant speaks of alone.
LEMMA PollInv ==
    ASSUME KeeperInv,
           AddressChanges \/ GetterInit \/ PollAnswered \/ PollOdd
    PROVE  KeeperInv'
<1>0. /\ used \in [changes : Nat, odd : Nat]
      /\ \A n \in Nat : n + 1 \in Nat
  BY DEF KeeperInv, KeeperType
<1>1. KeeperType'
  <2>1. CASE AddressChanges
    <3>1. used' \in [changes : Nat, odd : Nat]
      BY <1>0, <2>1 DEF AddressChanges
    <3> QED
      BY <2>1, <3>1 DEF KeeperInv, KeeperType, AddressChanges
  <2>2. CASE GetterInit
    BY <2>2 DEF KeeperInv, KeeperType, GetterInit, GetterGoes, GetterOnly
  <2>3. ASSUME NEW b \in [ip : Ips, more : BOOLEAN], GetterHas(b),
               used' \in [changes : Nat, odd : Nat]
        PROVE  KeeperType'
    <3>1. Prefix(b) \in Ips
      BY DEF Prefix, Ips
    <3> QED
      BY <2>3, <3>1 DEF KeeperInv, KeeperType, GetterHas, GetterOnly
  <2>4. CASE PollAnswered
    <3>1. [ip |-> public, more |-> TRUE] \in [ip : Ips, more : BOOLEAN]
      BY DEF KeeperInv, KeeperType, Ips
    <3> QED
      BY <2>3, <2>4, <3>1 DEF KeeperInv, KeeperType, PollAnswered
  <2>5. CASE PollOdd
    <3>1. used' \in [changes : Nat, odd : Nat]
      BY <1>0, <2>5 DEF PollOdd
    <3>2. PICK b \in [ip : Ips, more : BOOLEAN] : GetterHas(b)
      <4>1. /\ [ip |-> public, more |-> FALSE] \in [ip : Ips, more : BOOLEAN]
            /\ body \in [ip : Ips, more : BOOLEAN]
            /\ \A ip \in Address \cup {NoAddress} :
                 [ip |-> ip, more |-> TRUE] \in [ip : Ips, more : BOOLEAN]
        BY DEF KeeperInv, KeeperType, Ips
      <4> QED
        BY <2>5, <4>1 DEF PollOdd
    <3> QED
      BY <2>3, <3>1, <3>2
  <2> QED
    BY <2>1, <2>2, <2>4, <2>5
<1>2. UNCHANGED <<table, mailer, tried>>
  BY DEF AddressChanges, GetterInit, PollAnswered, PollOdd, GetterOnly,
         GetterHas
<1>3. ComparesNewest'
  <2>1. CASE AddressChanges
    BY <2>1 DEF KeeperInv, ComparesNewest, Newest, AddressChanges
  <2>2. CASE GetterInit \/ PollAnswered \/ PollOdd
    <3>1. getter'.pc # "compare"
      BY <2>2 DEF KeeperInv, KeeperType, GetterInit, PollAnswered, PollOdd,
                  GetterGoes, GetterHas
    <3> QED
      BY <3>1 DEF ComparesNewest
  <2> QED
    BY <2>1, <2>2
<1>4. RowsDiffer' /\ RecipientsKept' /\ MailsOfRow' /\ FlaggedWasTried'
  BY <1>2 DEF KeeperInv, RowsDiffer, RecipientsKept, Covers, MailsOfRow,
              FlaggedWasTried
<1> QED
  BY <1>1, <1>3, <1>4 DEF KeeperInv

\* getIp reads the newest row, or fails to.
LEMMA ReadInv ==
    ASSUME KeeperInv, ReadOk \/ ReadFailed
    PROVE  KeeperInv'
<1> USE DEF KeeperInv
<1>1. UNCHANGED <<public, body, table, mailer, tried, used>>
  BY DEF ReadOk, ReadFailed, GetterOnly
<1>2. Select \in Seq(IpInfo)
  <2>1. CASE table = <<>>
    BY <2>1 DEF Select
  <2>2. CASE table # <<>>
    <3>1. Len(table) \in Nat \ {0} /\ Newest \in IpRow
      BY <2>2 DEF KeeperType, Newest
    <3> QED
      BY <2>2, <3>1 DEF Select, IpInfo, IpRow
  <2> QED
    BY <2>1, <2>2
<1>3. KeeperType'
  <2>1. <<>> \in Seq(IpInfo)
    OBVIOUS
  <2>2. getter' \in [pc : {"init", "poll", "read", "compare"}, resNew : Ips,
                     infos : Seq(IpInfo)]
    <3>1. CASE ReadOk
      BY <1>2, <3>1 DEF KeeperType, ReadOk
    <3>2. CASE ReadFailed
      BY <2>1, <3>2 DEF KeeperType, ReadFailed
    <3> QED
      BY <3>1, <3>2
  <2> QED
    BY <1>1, <2>2 DEF KeeperType
<1>4. ComparesNewest'
  <2>1. CASE ReadOk
    <3>1. getter'.infos = Select
      BY <2>1 DEF ReadOk, KeeperType
    <3>2. Select = <<>> <=> table = <<>>
      BY DEF Select
    <3>3. table # <<>> => Select[1].ip = Newest.ip
      BY DEF Select
    <3> QED
      BY <1>1, <3>1, <3>2, <3>3 DEF ComparesNewest, Newest
  <2>2. CASE ReadFailed
    BY <2>2 DEF ComparesNewest, ReadFailed, KeeperType
  <2> QED
    BY <2>1, <2>2
<1>5. RowsDiffer' /\ RecipientsKept' /\ MailsOfRow' /\ FlaggedWasTried'
  BY <1>1 DEF RowsDiffer, RecipientsKept, Covers, MailsOfRow,
              FlaggedWasTried
<1> QED
  BY <1>3, <1>4, <1>5

\* getIp appends a row whose address differs from the newest row's.
LEMMA InsertInv ==
    ASSUME KeeperInv, InsertOk \/ InsertNot
    PROVE  KeeperInv'
<1> USE DEF KeeperInv
<1>1. UNCHANGED <<public, body, mailer, tried, used>> /\ getter'.pc = "poll"
  BY DEF InsertOk, InsertNot, GetterOnly, GetterGoes, KeeperType
<1>2. ComparesNewest'
  BY <1>1 DEF ComparesNewest
<1>3. CASE InsertNot
  <2>1. UNCHANGED table
    BY <1>3 DEF InsertNot
  <2>2. KeeperType'
    BY <1>1, <1>3, <2>1 DEF KeeperType, InsertNot, GetterGoes
  <2> QED
    BY <1>1, <1>2, <2>1, <2>2
    DEF RowsDiffer, RecipientsKept, Covers, MailsOfRow, FlaggedWasTried
<1>4. CASE InsertOk
  <2> DEFINE row == Row(getter.resNew)
             n == Len(table)
  <2>1. row \in IpRow /\ table \in Seq(IpRow) /\ n \in Nat
    BY DEF KeeperType, Row, IpRow
  <2>2. /\ table' = Append(table, row) /\ Len(table') = n + 1
        /\ table' \in Seq(IpRow)
        /\ \A r \in 1 .. n : table'[r] = table[r]
        /\ table'[n + 1] = row
    BY <1>4, <2>1 DEF InsertOk
  <2>3. KeeperType'
    BY <1>1, <1>4, <2>2 DEF KeeperType, InsertOk, GetterGoes
  <2>4. n # 0 => table[n].ip # row.ip
    BY <1>4, <2>1 DEF InsertOk, Getter, Changed, ComparesNewest, Newest, Row
  <2>5. RowsDiffer'
    <3> SUFFICES ASSUME NEW r \in 2 .. Len(table')
                 PROVE  table'[r - 1].ip # table'[r].ip
      BY DEF RowsDiffer
    <3>1. CASE r = n + 1
      BY <2>1, <2>2, <2>4, <3>1
    <3>2. CASE r # n + 1
      BY <2>1, <2>2, <3>2 DEF RowsDiffer
    <3> QED
      BY <3>1, <3>2
  <2>6. RecipientsKept'
    BY <1>1 DEF RecipientsKept, Covers
  <2>7. MailsOfRow'
    <3>1. \A r \in DOMAIN table : r \in DOMAIN table' /\ table'[r] = table[r]
      BY <2>1, <2>2
    <3> HIDE DEF row, n
    <3> QED
      BY <1>1, <3>1 DEF MailsOfRow
  <2>8. FlaggedWasTried'
    <3>1. row.send_flag = 0
      BY DEF Row
    <3> HIDE DEF row
    <3> QED
      BY <1>1, <2>1, <2>2, <3>1 DEF FlaggedWasTried
  <2> QED
    BY <1>2, <2>3, <2>5, <2>6, <2>7, <2>8
<1> QED
  BY <1>3, <1>4

\* sendEmail's actions leave getIp and the addresses in the table alone.
LEMMA MailerLeaves ==
    ASSUME KeeperInv, MailerOnly, Len(table') = Len(table),
           table' \in Seq(IpRow),
           \A r \in DOMAIN table : table'[r].ip = table[r].ip
    PROVE  ComparesNewest' /\ RowsDiffer'
<1> USE DEF KeeperInv
<1>1. table \in Seq(IpRow) /\ Len(table) \in Nat
  BY DEF KeeperType
<1>2. table = <<>> <=> table' = <<>>
  BY <1>1
<1>3. table # <<>> => Newest'.ip = Newest.ip
  BY <1>1 DEF Newest
<1>4. ComparesNewest'
  BY <1>2, <1>3 DEF ComparesNewest, MailerOnly
<1>5. RowsDiffer'
  BY <1>1 DEF RowsDiffer
<1> QED
  BY <1>4, <1>5

\* sendEmail starts, or a round of it finds nothing to mail.
LEMMA MailerStartInv ==
    ASSUME KeeperInv, MailerInit \/ MailerIdle
    PROVE  KeeperInv'
<1> USE DEF KeeperInv
<1>1. UNCHANGED <<public, body, getter, used, table, tried>>
  BY DEF MailerInit, MailerIdle, MailerOnly
<1>2. mailer'.pc = "read"
  BY DEF MailerInit, MailerIdle, Mailer, KeeperType
<1>3. KeeperType' /\ RecipientsKept'
  <2>1. CASE MailerInit
    <3>1. EmailTable \in Seq(EmailRow) /\ <<>> \in Seq(EmailRow)
      BY EmailAssumption DEF EmailRow
    <3>2. KeeperType'
      BY <1>1, <2>1, <3>1 DEF KeeperType, MailerInit
    <3>3. mailer'.emailInfos = <<>> /\ mailer'.unread = EmailTable
      BY <2>1 DEF MailerInit, KeeperType
    <3> QED
      BY <1>2, <3>2, <3>3 DEF RecipientsKept
  <2>2. CASE MailerIdle
    <3>1. <<>> \in Seq(IpInfo)
      OBVIOUS
    <3>2. KeeperType'
      BY <1>1, <2>2, <3>1 DEF KeeperType, MailerIdle
    <3>3. UNCHANGED <<mailer.emailInfos, mailer.unread, mailer.pc>>
      BY <2>2 DEF MailerIdle, KeeperType
    <3> QED
      BY <1>2, <3>2, <3>3 DEF RecipientsKept, Covers
  <2> QED
    BY <2>1, <2>2
<1>4. MailsOfRow'
  BY <1>2 DEF MailsOfRow
<1>5. ComparesNewest' /\ RowsDiffer' /\ FlaggedWasTried'
  BY <1>1 DEF ComparesNewest, Newest, RowsDiffer, FlaggedWasTried
<1> QED
  BY <1>3, <1>4, <1>5

\* sendEmail takes the newest row and everybody read so far.
LEMMA MailerReadInv ==
    ASSUME KeeperInv, MailerRead
    PROVE  KeeperInv'
<1> USE DEF KeeperInv
<1> DEFINE more == Fetched(mailer.unread)
           all == mailer.emailInfos \o more
<1>1. UNCHANGED <<public, body, getter, used, table, tried>>
  BY DEF MailerRead, MailerOnly
<1>2. /\ mailer.emailInfos \in Seq(EmailRow) /\ mailer.unread \in Seq(EmailRow)
      /\ more \in Seq(EmailRow) /\ Unfetched(mailer.unread) \in Seq(EmailRow)
  BY FetchedType DEF KeeperType
<1>3. all \in Seq(EmailRow)
  BY <1>2
<1>4. table # <<>> /\ Len(table) \in DOMAIN table /\ Newest \in IpRow
  BY DEF MailerRead, Select, KeeperType, Newest
<1>5. /\ Select \in Seq(IpInfo) /\ Select # <<>>
      /\ Select[1].rec_id = Len(table) /\ Select[1].ip = Newest.ip
  BY <1>4 DEF Select, IpInfo, IpRow, KeeperType
<1>6. /\ mailer'.pc = "mail" /\ mailer'.infos = Select
      /\ mailer'.emailInfos = all /\ mailer'.todo = all
      /\ mailer'.unread = Unfetched(mailer.unread) /\ mailer'.result = TRUE
      /\ DOMAIN mailer' = DOMAIN mailer
  BY DEF MailerRead, KeeperType
<1>7. KeeperType'
  BY <1>1, <1>2, <1>3, <1>5 DEF KeeperType, MailerRead
<1>8. RecipientsKept'
  <2>1. CASE mailer.emailInfos = <<>> /\ mailer.unread = EmailTable
    <3>1. all = Fetched(EmailTable)
      BY <1>2, <2>1
    <3> QED
      BY <1>6, <3>1 DEF RecipientsKept, Covers
  <2>2. CASE Covers(mailer.emailInfos)
    <3>1. \A l \in DOMAIN mailer.emailInfos :
             l \in DOMAIN all /\ all[l] = mailer.emailInfos[l]
      <4> HIDE DEF more
      <4> DEFINE s == mailer.emailInfos
      <4>1. s \in Seq(EmailRow) /\ more \in Seq(EmailRow)
        BY <1>2
      <4> HIDE DEF s
      <4>2. \A l \in DOMAIN s : l \in DOMAIN (s \o more) /\ (s \o more)[l] = s[l]
        BY <4>1
      <4> QED
        BY <4>2 DEF s
    <3>2. Covers(all)
      BY <2>2, <3>1 DEF Covers
    <3> QED
      BY <1>6, <3>2 DEF RecipientsKept, Covers
  <2> QED
    BY <2>1, <2>2 DEF RecipientsKept, MailerRead, Mailer
<1>9. MailsOfRow'
  BY <1>1, <1>4, <1>5, <1>6 DEF MailsOfRow, Newest
<1>10. ComparesNewest' /\ RowsDiffer' /\ FlaggedWasTried'
  BY <1>1 DEF ComparesNewest, Newest, RowsDiffer, FlaggedWasTried
<1> QED
  BY <1>7, <1>8, <1>9, <1>10

\* The first of those left is tried with the row that was read.
LEMMA MailerSendInv ==
    ASSUME KeeperInv, MailerSend
    PROVE  KeeperInv'
<1> USE DEF KeeperInv
<1> DEFINE info == mailer.infos[1]
           todo == mailer.todo
<1>1. UNCHANGED <<public, body, getter, used, table>>
  BY DEF MailerSend, MailerOnly
<1>2. todo \in Seq(EmailRow) /\ todo # <<>> /\ mailer.pc = "mail"
  BY DEF MailerSend, Mailer, KeeperType
<1>3. PICK result \in BOOLEAN :
        mailer' = [mailer EXCEPT !.todo = Tail(@), !.result = result]
  <2>1. PICK handle \in BOOLEAN, failures \in 0 .. 6 :
          mailer' = [mailer EXCEPT !.todo = Tail(@),
                       !.result = SendMail(handle, failures) \/ @]
    BY DEF MailerSend
  <2>2. (SendMail(handle, failures) \/ mailer.result) \in BOOLEAN
    OBVIOUS
  <2> QED
    BY <2>1, <2>2
<1>4. /\ Tail(todo) \in Seq(EmailRow) /\ Len(Tail(todo)) = Len(todo) - 1
      /\ \A i \in 1 .. Len(todo) - 1 : Tail(todo)[i] = todo[i + 1]
      /\ Len(todo) \in Nat \ {0} /\ Head(todo) = todo[1]
  BY <1>2, HeadTailProperties
<1>5. /\ mailer'.pc = "mail" /\ mailer'.infos = mailer.infos
      /\ mailer'.emailInfos = mailer.emailInfos
      /\ mailer'.todo = Tail(todo)
  BY <1>2, <1>3 DEF KeeperType
<1>6. KeeperType'
  BY <1>1, <1>3, <1>4 DEF KeeperType
<1>7. RecipientsKept'
  BY <1>2, <1>5 DEF RecipientsKept, Covers
<1>8. tried' = tried \cup {<<info.rec_id, info.ip, Head(todo).recipient>>}
  BY DEF MailerSend
<1>9. \A m \in DOMAIN todo :
         m # 1 => m - 1 \in DOMAIN Tail(todo) /\ Tail(todo)[m - 1] = todo[m]
  <2> HIDE DEF todo
  <2>1. /\ DOMAIN todo = 1 .. Len(todo)
        /\ DOMAIN Tail(todo) = 1 .. Len(todo) - 1
    BY <1>2, <1>4
  <2>2. \A m \in 1 .. Len(todo) :
           m # 1 => m - 1 \in 1 .. Len(todo) - 1 /\ (m - 1) + 1 = m
    BY <1>4
  <2>3. \A i \in 1 .. Len(todo) - 1 : Tail(todo)[i] = todo[i + 1]
    BY <1>4
  <2> SUFFICES ASSUME NEW m \in 1 .. Len(todo), m # 1
               PROVE  m - 1 \in 1 .. Len(todo) - 1 /\ Tail(todo)[m - 1] = todo[m]
    BY <2>1
  <2>4. m - 1 \in 1 .. Len(todo) - 1 /\ (m - 1) + 1 = m
    BY <2>2, Zenon
  <2>5. Tail(todo)[m - 1] = todo[(m - 1) + 1]
    BY <2>3, <2>4, Zenon
  <2> QED
    BY <2>4, <2>5, Zenon
<1>10. MailsOfRow'
  <2>1. SUFFICES ASSUME NEW l \in DOMAIN mailer.emailInfos
        PROVE  \/ <<info.rec_id, info.ip, mailer.emailInfos[l].recipient>> \in tried'
               \/ \E m \in DOMAIN Tail(todo) :
                    Tail(todo)[m].recipient = mailer.emailInfos[l].recipient
    BY <1>1, <1>2, <1>5 DEF MailsOfRow
  <2>2. CASE <<info.rec_id, info.ip, mailer.emailInfos[l].recipient>> \in tried
    BY <1>8, <2>2
  <2>3. CASE \E m \in DOMAIN todo :
               todo[m].recipient = mailer.emailInfos[l].recipient
    <3>1. PICK m \in DOMAIN todo :
            todo[m].recipient = mailer.emailInfos[l].recipient
      BY <2>3
    <3>2. CASE m = 1
      BY <1>4, <1>8, <3>1, <3>2
    <3>3. CASE m # 1
      BY <1>9, <3>1, <3>3
    <3> QED
      BY <3>2, <3>3
  <2> QED
    BY <1>2, <2>2, <2>3 DEF MailsOfRow
<1>11. ComparesNewest' /\ RowsDiffer' /\ FlaggedWasTried'
  BY <1>1, <1>8 DEF ComparesNewest, Newest, RowsDiffer, FlaggedWasTried
<1> QED
  BY <1>6, <1>7, <1>10, <1>11

\* The flag is set on the row that was read, for which nobody is left, or
\* not at all.
LEMMA MailerUpdateInv ==
    ASSUME KeeperInv, MailerUpdate \/ MailerUpdateFailed
    PROVE  KeeperInv'
<1> USE DEF KeeperInv
<1> DEFINE r0 == mailer.infos[1].rec_id
<1>1. UNCHANGED <<public, body, getter, used, tried>> /\ MailerOnly
  BY DEF MailerUpdate, MailerUpdateFailed, MailerOnly
<1>2. mailer.pc = "mail" /\ mailer.todo = <<>>
  BY DEF MailerUpdate, MailerUpdateFailed, Mailer
<1>3. PICK pc \in {"init", "read"} : mailer' = [mailer EXCEPT !.pc = pc]
  BY DEF MailerUpdate, MailerUpdateFailed, MailerGoes
<1>4. \/ table' = table
      \/ table' = [table EXCEPT ![r0].send_flag = 1]
  BY DEF MailerUpdate, MailerUpdateFailed
<1>5. table \in Seq(IpRow) /\ r0 \in DOMAIN table
  BY <1>2 DEF MailsOfRow, KeeperType
<1>6. [table[r0] EXCEPT !.send_flag = 1] \in IpRow
  <2>1. table[r0] \in IpRow
    BY <1>5
  <2> QED
    BY <2>1 DEF IpRow
<1>7. table' \in Seq(IpRow) /\ Len(table') = Len(table)
  BY <1>4, <1>5, <1>6, ExceptSeq
<1>8. \A r \in DOMAIN table : /\ table'[r].ip = table[r].ip
                              /\ r # r0 => table'[r] = table[r]
  <2>1. \A r \in DOMAIN table : table[r] \in IpRow
    BY <1>5
  <2> QED
    BY <1>4, <1>5, <2>1 DEF IpRow
<1>9. KeeperType'
  BY <1>1, <1>3, <1>7 DEF KeeperType
<1>10. ComparesNewest' /\ RowsDiffer'
  BY <1>1, <1>7, <1>8, MailerLeaves
<1>11. RecipientsKept' /\ MailsOfRow'
  <2>1. mailer'.pc # "mail" /\ mailer'.emailInfos = mailer.emailInfos
    BY <1>3 DEF KeeperType
  <2> QED
    BY <1>2, <2>1 DEF RecipientsKept, Covers, MailsOfRow
<1>12. FlaggedWasTried'
  <2> SUFFICES ASSUME NEW r \in DOMAIN table', table'[r].send_flag = 1,
                      NEW k \in DOMAIN Fetched(EmailTable)
               PROVE  <<r, table'[r].ip, Fetched(EmailTable)[k].recipient>>
                        \in tried'
    BY DEF FlaggedWasTried
  <2>1. r \in DOMAIN table
    BY <1>5, <1>7
  <2>2. CASE r # r0
    BY <1>1, <1>8, <2>1, <2>2 DEF FlaggedWasTried
  <2>3. CASE r = r0
    <3>1. PICK l \in DOMAIN mailer.emailInfos :
            mailer.emailInfos[l].recipient = Fetched(EmailTable)[k].recipient
      BY <1>2 DEF RecipientsKept, Covers
    <3>2. ~ \E m \in DOMAIN mailer.todo : TRUE
      BY <1>2
    <3> QED
      BY <1>1, <1>2, <1>8, <2>1, <2>3, <3>1, <3>2 DEF MailsOfRow
  <2> QED
    BY <2>2, <2>3
<1> QED
  BY <1>9, <1>10, <1>11, <1>12

\* A step that changes nothing changes the invariant in nothing.
LEMMA KeeperStutter ==
    ASSUME KeeperInv, UNCHANGED vars
    PROVE  KeeperInv'
BY DEF vars, KeeperInv, KeeperType, ComparesNewest, Newest, RowsDiffer,
       RecipientsKept, Covers, MailsOfRow, FlaggedWasTried

LEMMA KeeperInvariant == Spec => []KeeperInv
<1>1. Init => KeeperInv
  BY InitInv
<1>2. KeeperInv /\ [Next]_vars => KeeperInv'
  <2> SUFFICES ASSUME KeeperInv, [Next]_vars PROVE KeeperInv'
    OBVIOUS
  <2>1. CASE AddressChanges \/ GetterInit \/ PollAnswered \/ PollOdd
    BY <2>1, PollInv
  <2>2. CASE ReadOk \/ ReadFailed
    BY <2>2, ReadInv
  <2>3. CASE InsertOk \/ InsertNot
    BY <2>3, InsertInv
  <2>4. CASE MailerInit \/ MailerIdle
    BY <2>4, MailerStartInv
  <2>5. CASE MailerRead
    BY <2>5, MailerReadInv
  <2>6. CASE MailerSend
    BY <2>6, MailerSendInv
  <2>7. CASE MailerUpdate \/ MailerUpdateFailed
    BY <2>7, MailerUpdateInv
  <2>8. CASE PollFailed \/ MailerInitFailed \/ UNCHANGED vars
    BY <2>8, KeeperStutter DEF PollFailed, MailerInitFailed
  <2> QED
    BY <2>1, <2>2, <2>3, <2>4, <2>5, <2>6, <2>7, <2>8
    DEF Next, getIp, sendEmail
<1> QED
  BY <1>1, <1>2, PTL DEF Spec

\* A row of ipInfo is flagged only after its own address has been given to
\* SendMail for everybody the first fetch of emailInfo finds, however getIp's
\* inserts interleave with sendEmail's select, mails and update
\* (workFunctions.hpp, sendEmail).
THEOREM MailedBeforeFlagged == Spec => []FlaggedWasTried
<1>1. KeeperInv => FlaggedWasTried
  BY DEF KeeperInv
<1> QED
  BY <1>1, KeeperInvariant, PTL

\* No two successive rows of ipInfo hold the same address, whichever reads
\* and inserts fail (workFunctions.hpp, getIp).
THEOREM ChangesRecorded == Spec => []RowsDiffer
<1>1. KeeperInv => RowsDiffer
  BY DEF KeeperInv
<1> QED
  BY <1>1, KeeperInvariant, PTL
=============================================================================
