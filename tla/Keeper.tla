------------------------------- MODULE Keeper -------------------------------
(***************************************************************************)
(* The homeKeeper process (homeKeeper/workFunctions.hpp): the thread getIp *)
(* records the public address in the table ipInfo, the thread sendEmail    *)
(* mails the newest row of it and sets its send_flag.  keeper::start and   *)
(* threadPool::start run both for ever; they share nothing but the table.  *)
(*                                                                         *)
(* External, modelled from how the code uses it: the address service, the  *)
(* database (any statement may fail; autocommit is on, so each takes       *)
(* effect at once) and the mail server.                                    *)
(***************************************************************************)
EXTENDS Integers, Sequences

CONSTANTS Address,      \* public addresses
          NoAddress,    \* the empty string curlUtil can return
          Recipient,    \* who can be a recipient of mails
          EmailTable,   \* the rows of emailInfo: [recipient, fits], fits: no
                        \* column is longer than its buffer
          MaxChanges,   \* bound: changes of the public address
          MaxOdd        \* bound: answers of curlUtil that are not the address

ASSUME AddressAssumption == NoAddress \notin Address
ASSUME EmailAssumption ==
    EmailTable \in Seq([recipient : Recipient, fits : BOOLEAN])
ASSUME BoundAssumption == MaxChanges \in Nat /\ MaxOdd \in Nat

VARIABLES public,       \* the public address
          body,         \* curl.hpp's global result: the last answer received
          table,        \* ipInfo: rec_id is the position, auto_increment
          getter,       \* the locals of getIp
          mailer,       \* the locals of sendEmail
          tried,        \* history: <<rec_id, ip, recipient>> given to SendMail
          used          \* how much of each bound is used up

vars == <<public, body, table, getter, mailer, tried, used>>

Row(ip) == [ip |-> ip, send_flag |-> 0]

Init ==
    /\ public \in Address
    /\ body = [ip |-> NoAddress, more |-> FALSE]
    /\ table = <<>>
    /\ getter = [pc |-> "init", resNew |-> NoAddress, infos |-> <<>>]
    /\ mailer = [pc |-> "init", infos |-> <<>>, unread |-> <<>>,
                 emailInfos |-> <<>>, todo |-> <<>>, result |-> TRUE]
    /\ tried = {}
    /\ used = [changes |-> 0, odd |-> 0]

\* The provider assigns another address.
AddressChanges ==
    /\ used.changes < MaxChanges
    /\ public' \in Address \ {public}
    /\ used' = [used EXCEPT !.changes = @ + 1]
    /\ UNCHANGED <<body, table, getter, mailer, tried>>

\* select ... where rec_id = (select max(rec_id) ...): none or the newest row.
Newest == table[Len(table)]
Select ==
    IF table = <<>> THEN <<>>
    ELSE << [rec_id |-> Len(table), ip |-> Newest.ip,
             send_flag |-> Newest.send_flag] >>
-----------------------------------------------------------------------------
(* getIp                                                                   *)

Getter(pc) == getter.pc = pc
GetterGoes(pc) == getter' = [getter EXCEPT !.pc = pc]
GetterOnly == UNCHANGED <<public, mailer, tried>>

\* tblIpInfo::init; after an error it is tried again.
GetterInit ==
    /\ Getter("init")
    /\ \E ok \in BOOLEAN : GetterGoes(IF ok THEN "poll" ELSE "init")
    /\ GetterOnly /\ UNCHANGED <<body, table, used>>

\* The digits and dots at the start of the answer; nothing when no other
\* character follows them, because position then stays 0.
Prefix(b) == IF b.more THEN b.ip ELSE NoAddress

\* curlUtil has an answer b; getIp goes on to read the table.
GetterHas(b) ==
    /\ body' = b
    /\ getter' = [getter EXCEPT !.pc = "read", !.resNew = Prefix(b)]
    /\ GetterOnly /\ UNCHANGED table

\* curlUtil: the service answers with the address and a line end.
PollAnswered ==
    /\ Getter("poll")
    /\ GetterHas([ip |-> public, more |-> TRUE])
    /\ UNCHANGED used

\* curlUtil: an answer without a line end, or one that starts with something
\* else (an error page, the last piece of an answer that came in pieces); or
\* curl_easy_init fails and the previous answer is used again.
PollOdd ==
    /\ Getter("poll")
    /\ used.odd < MaxOdd
    /\ used' = [used EXCEPT !.odd = @ + 1]
    /\ \/ GetterHas([ip |-> public, more |-> FALSE])
       \/ \E ip \in (Address \cup {NoAddress}) \ {public} :
             GetterHas([ip |-> ip, more |-> TRUE])
       \/ GetterHas(body)

\* curlUtil returns "failed": nothing changes, the loop polls again.
PollFailed == Getter("poll") /\ UNCHANGED vars

ReadOk ==
    /\ Getter("read")
    /\ getter' = [getter EXCEPT !.pc = "compare", !.infos = Select]
    /\ GetterOnly /\ UNCHANGED <<body, table, used>>

\* Variant: an error of getRes is taken for an empty table.
Failed_means_empty ==
    /\ Getter("read")
    /\ getter' = [getter EXCEPT !.pc = "compare", !.infos = <<>>]
    /\ GetterOnly /\ UNCHANGED <<body, table, used>>

ReadFailed ==
    /\ Getter("read")
    /\ getter' = [getter EXCEPT !.pc = "poll", !.infos = <<>>]
    /\ GetterOnly /\ UNCHANGED <<body, table, used>>

\* Variant: only the first address is recorded.
First_only == getter.infos = <<>>

\* The address differs from the newest row's.
Changed == getter.infos # <<>> => getter.infos[1].ip # getter.resNew

InsertOk ==
    /\ Getter("compare") /\ Changed
    /\ table' = Append(table, Row(getter.resNew))
    /\ GetterGoes("poll")
    /\ GetterOnly /\ UNCHANGED <<body, used>>

\* No change, or insertToDb fails, which getIp does not notice.
InsertNot ==
    /\ Getter("compare")
    /\ GetterGoes("poll")
    /\ GetterOnly /\ UNCHANGED <<body, table, used>>

getIp ==
    \/ GetterInit \/ PollAnswered \/ PollOdd \/ PollFailed
    \/ ReadOk \/ ReadFailed \/ InsertOk \/ InsertNot
-----------------------------------------------------------------------------
(* sendEmail                                                               *)

Mailer(pc) == mailer.pc = pc
MailerGoes(pc) == mailer' = [mailer EXCEPT !.pc = pc]
MailerOnly == UNCHANGED <<public, body, getter, used>>

\* emailInfo.init executes the select on emailInfo, then ipInfo.init; after
\* an error of either both are constructed anew.
MailerInit ==
    /\ Mailer("init")
    /\ mailer' = [mailer EXCEPT !.pc = "read", !.unread = EmailTable,
                                !.emailInfos = <<>>]
    /\ MailerOnly /\ UNCHANGED <<table, tried>>

MailerInitFailed == Mailer("init") /\ UNCHANGED vars

\* The rows of emailInfo that one getRes fetches: up to the first that does
\* not fit (MYSQL_DATA_TRUNCATED), which is lost.
Bad(unread) == {k \in DOMAIN unread : ~unread[k].fits}
Fetched(unread) ==
    IF Bad(unread) = {} THEN unread
    ELSE SubSeq(unread, 1, (CHOOSE k \in Bad(unread) : \A j \in Bad(unread) : k <= j) - 1)
Unfetched(unread) == SubSeq(unread, Len(Fetched(unread)) + 2, Len(unread))

\* The newest row has send_flag 0: the recipients read so far and the ones
\* fetched now get a mail.
MailerRead ==
    /\ Mailer("read")
    /\ Select # <<>> /\ Select[1].send_flag = 0
    /\ LET all == mailer.emailInfos \o Fetched(mailer.unread)
       IN  mailer' = [mailer EXCEPT !.pc = "mail", !.infos = Select,
                                    !.emailInfos = all, !.todo = all,
                                    !.unread = Unfetched(@), !.result = TRUE]
    /\ MailerOnly /\ UNCHANGED <<table, tried>>

\* An error, an empty table or a row that has been sent: next round.
MailerIdle ==
    /\ Mailer("read")
    /\ mailer' = [mailer EXCEPT !.infos = <<>>]
    /\ MailerOnly /\ UNCHANGED <<table, tried>>

\* What SendMail returns after this many failed tries of at most six: true
\* also without a curl handle, false also when a later try succeeded.
SendMail(handle, failures) == ~handle \/ failures = 0

MailerSend ==
    /\ Mailer("mail") /\ mailer.todo # <<>>
    /\ LET to == Head(mailer.todo).recipient
           info == mailer.infos[1]
       IN  tried' = tried \cup {<<info.rec_id, info.ip, to>>}
    /\ \E handle \in BOOLEAN, failures \in 0 .. 6 :
         mailer' = [mailer EXCEPT !.todo = Tail(@),
                                  !.result = SendMail(handle, failures) \/ @]
    /\ MailerOnly /\ UNCHANGED table

\* Variant: the newest row is flagged.
Flags_newest ==
    /\ Mailer("mail") /\ mailer.todo = <<>>
    /\ MailerGoes("read")
    /\ table' = [table EXCEPT ![Len(table)].send_flag = 1]
    /\ MailerOnly /\ UNCHANGED tried

\* updateToDb of the row that was read; if result is FALSE, start again.
MailerUpdate ==
    /\ Mailer("mail") /\ mailer.todo = <<>>
    /\ MailerGoes(IF mailer.result THEN "read" ELSE "init")
    /\ table' = IF mailer.result
                THEN [table EXCEPT ![mailer.infos[1].rec_id].send_flag = 1]
                ELSE table
    /\ MailerOnly /\ UNCHANGED tried

\* updateToDb fails, which sendEmail does not notice.
MailerUpdateFailed ==
    /\ Mailer("mail") /\ mailer.todo = <<>> /\ mailer.result
    /\ MailerGoes("read")
    /\ MailerOnly /\ UNCHANGED <<table, tried>>

sendEmail ==
    \/ MailerInit \/ MailerInitFailed \/ MailerRead \/ MailerIdle
    \/ MailerSend \/ MailerUpdate \/ MailerUpdateFailed

Next == AddressChanges \/ getIp \/ sendEmail

Spec == Init /\ [][Next]_vars

\* Both threads go on.  A loop that comes round again without any effect
\* (PollFailed, MailerInitFailed, a round of sendEmail without work) is a
\* stuttering step, so this says too that the address service answers and init
\* succeeds in the end.
Fairness == WF_vars(getIp) /\ WF_vars(sendEmail)

FairSpec == Spec /\ Fairness
-----------------------------------------------------------------------------
(* Correctness.                                                            *)

\* A row is flagged only after its own address has been mailed to everybody
\* the first fetch of emailInfo finds, although getIp may insert a newer row
\* between sendEmail's select and its update.
FlaggedWasTried ==
    \A r \in DOMAIN table : table[r].send_flag = 1 =>
        \A k \in DOMAIN Fetched(EmailTable) :
            <<r, table[r].ip, Fetched(EmailTable)[k].recipient>> \in tried

\* ipInfo records changes: no two rows in a row hold the same address, failed
\* reads and inserts included.
RowsDiffer == \A r \in 2 .. Len(table) : table[r - 1].ip # table[r].ip

\* A statement on ipInfo fails, or init does.  getIp and sendEmail do not connect
\* again after their first init, so a lost connection is a failure for ever.
StatementFails ==
    \/ GetterInit /\ getter'.pc = "init"
    \/ ReadFailed
    \/ Changed /\ InsertNot
    \/ Select # <<>> /\ Select[1].send_flag = 0 /\ MailerIdle
    \/ MailerUpdateFailed

\* An address that stays is in the end recorded, mailed and flagged if from some
\* time on no statement fails: whatever failed before, and in whatever order the
\* two threads have seen the table, neither is left believing that the address is
\* recorded or mailed when it is not.
StableAddressReported ==
    \A a \in Address :
        <>[](public = a) /\ <>[][~StatementFails]_vars =>
            <>[](table # <<>> /\ Newest.ip = a /\ Newest.send_flag = 1)
=============================================================================
