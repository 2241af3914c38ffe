---------------------------- MODULE HmLogProofs ----------------------------
(***************************************************************************)
(* Proofs about the logger, for any number of threads and messages: the    *)
(* critical sections exclude each other, no message is lost or overtaken,  *)
(* and the destructor cancels the print thread only when it has nothing    *)
(* left to write.                                                          *)
(***************************************************************************)
EXTENDS HmLog, TLAPS

\* The inductive invariant.  The batch is only non-empty while the print
\* thread writes it, which is why the destructor, holding the mutex, need not
\* look at it; and cancelled is set by the destructor's last round only.
IInv ==
    /\ TypeOK
    /\ Exclusive
    /\ InOrder
    /\ ~cancelled => printer # "dead" /\ (batch # <<>> => printer = "write")
    /\ ~cancelled => closer \notin {"cancel", "join", "done"}
-----------------------------------------------------------------------------
(* Facts about sequences.                                                  *)

\* The elements of a sequence over S are in S.
LEMMA ElementOf ==
    ASSUME NEW S, NEW s \in Seq(S), NEW k \in 1 .. Len(s)
    PROVE  s[k] \in S
  OBVIOUS

\* Two sequences of one length with the same elements are equal.
LEMMA SeqEqual ==
    ASSUME NEW S, NEW s \in Seq(S), NEW t \in Seq(S), Len(s) = Len(t),
           \A i \in 1 .. Len(s) : s[i] = t[i]
    PROVE  s = t
  OBVIOUS

\* Appending to the right part of a concatenation is appending to the whole.
LEMMA ConcatAppend ==
    ASSUME NEW S, NEW s \in Seq(S), NEW t \in Seq(S), NEW e \in S
    PROVE  s \o Append(t, e) = Append(s \o t, e)
<1>1. s \o Append(t, e) \in Seq(S) /\ Append(s \o t, e) \in Seq(S)
  OBVIOUS
<1>2. Len(s \o Append(t, e)) = Len(Append(s \o t, e))
  OBVIOUS
<1>3. \A i \in 1 .. Len(s \o Append(t, e)) :
          (s \o Append(t, e))[i] = Append(s \o t, e)[i]
  OBVIOUS
<1> QED
  BY <1>1, <1>2, <1>3, SeqEqual

\* Concatenating the empty sequence changes nothing.
LEMMA ConcatEmpty ==
    ASSUME NEW S, NEW s \in Seq(S)
    PROVE  s \o <<>> = s
  OBVIOUS

\* Moving the head of the second part to the end of the first.
LEMMA ConcatMove ==
    ASSUME NEW S, NEW s \in Seq(S), NEW t \in Seq(S), t # <<>>
    PROVE  Append(s, Head(t)) \o Tail(t) = s \o t
<1>1. Append(s, Head(t)) \o Tail(t) \in Seq(S) /\ s \o t \in Seq(S)
  OBVIOUS
<1>2. Len(Append(s, Head(t)) \o Tail(t)) = Len(s \o t)
  OBVIOUS
<1>3. \A i \in 1 .. Len(s \o t) :
          (Append(s, Head(t)) \o Tail(t))[i] = (s \o t)[i]
  OBVIOUS
<1> QED
  BY <1>1, <1>2, <1>3, SeqEqual
-----------------------------------------------------------------------------
\* The messages of a sequence of handled entries.
LEMMA LogsOf ==
    ASSUME NEW f \in Seq([log : log_t, written : BOOLEAN])
    PROVE  [k \in 1 .. Len(f) |-> f[k].log] \in Seq(log_t)
<1>1. Len(f) \in Nat
  OBVIOUS
<1>2. ASSUME NEW k \in 1 .. Len(f) PROVE f[k].log \in log_t
  <2>1. f[k] \in [log : log_t, written : BOOLEAN]
    BY ElementOf
  <2> QED
    BY <2>1
<1>3. [k \in 1 .. Len(f) |-> f[k].log] \in [1 .. Len(f) -> log_t]
  BY <1>2
<1> QED
  BY <1>1, <1>3

\* What printLog has handled is a sequence of messages, and handling one more
\* appends it.
LEMMA HandledType ==
    ASSUME TypeOK
    PROVE  /\ Handled \in Seq(log_t)
           /\ \A e \in log_t, w \in BOOLEAN :
                file' = Append(file, [log |-> e, written |-> w])
                => Handled' = Append(Handled, e)
<1>1. Handled \in Seq(log_t)
  BY LogsOf DEF TypeOK, Handled
<1>2. ASSUME NEW e \in log_t, NEW w \in BOOLEAN,
             file' = Append(file, [log |-> e, written |-> w])
      PROVE  Handled' = Append(Handled, e)
  <2> DEFINE x == [log |-> e, written |-> w]
             F == [log : log_t, written : BOOLEAN]
  <2>1. x \in F /\ file \in Seq(F) /\ x.log = e
    BY DEF TypeOK
  <2>2. Len(file') = Len(file) + 1 /\ file'[Len(file) + 1] = x
        /\ \A k \in 1 .. Len(file) : file'[k] = file[k]
    BY <1>2, <2>1
  <2>3. Handled' = [k \in 1 .. Len(file') |-> file'[k].log]
    BY DEF Handled
  <2>4. Len(Handled) = Len(file) /\ \A k \in 1 .. Len(file) : Handled[k] = file[k].log
    BY <2>1 DEF Handled
  <2>5. Handled' \in Seq(log_t)
    <3>1. file' \in Seq(F)
      BY <1>2, <2>1
    <3> QED
      BY <3>1, <2>3, LogsOf
  <2>6. Append(Handled, e) \in Seq(log_t) /\ Len(Append(Handled, e)) = Len(file) + 1
    BY <1>1, <2>4
  <2>7. Len(Handled') = Len(file) + 1
    BY <2>2, <2>3, <2>1
  <2>8. ASSUME NEW k \in 1 .. Len(file) + 1
        PROVE  Handled'[k] = Append(Handled, e)[k]
    BY <1>1, <2>1, <2>2, <2>3, <2>4
  <2> QED
    BY <2>5, <2>6, <2>7, <2>8, SeqEqual
<1> QED
  BY <1>1, <1>2

\* The logger starts in the invariant.
LEMMA InitIInv == Init => IInv
<1> SUFFICES ASSUME Init PROVE IInv
  OBVIOUS
<1>1. TypeOK
  <2>1. <<>> \in Seq(log_t) /\ <<>> \in Seq([log : log_t, written : BOOLEAN])
    OBVIOUS
  <2>2. producer \in [Producer -> {"outside", "push", "signal", "unlock"}]
    BY DEF Init
  <2> QED
    BY <2>1, <2>2 DEF Init, TypeOK
<1>2. Exclusive
  BY ThreadAssumption DEF Init, Exclusive
<1>3. Handled = <<>>
  BY DEF Init, Handled
<1>4. InOrder
  BY <1>3 DEF Init, InOrder
<1> QED
  BY <1>1, <1>2, <1>4 DEF IInv, Init

\* Every step keeps the types.
LEMMA NextTypeOK ==
    ASSUME TypeOK, [Next]_vars PROVE TypeOK'
<1> USE DEF TypeOK
<1>1. CASE UNCHANGED vars
  BY <1>1 DEF vars
<1>2. ASSUME NEW t \in Producer, InsertLock(t) PROVE TypeOK'
  BY <1>2 DEF InsertLock, lock
<1>3. ASSUME NEW t \in Producer, InsertPush(t) PROVE TypeOK'
  <2>1. PICK lvl \in Level : /\ logs' = Append(logs, [by |-> t, level |-> lvl])
                             /\ accepted' = Append(accepted, [by |-> t, level |-> lvl])
    BY <1>3 DEF InsertPush
  <2>2. [by |-> t, level |-> lvl] \in log_t
    BY DEF log_t
  <2>3. logs' \in Seq(log_t) /\ accepted' \in Seq(log_t)
    BY <2>1, <2>2
  <2> QED
    BY <1>3, <2>3 DEF InsertPush
<1>4. ASSUME NEW t \in Producer, InsertSignal(t) PROVE TypeOK'
  BY <1>4 DEF InsertSignal, log_signal
<1>5. ASSUME NEW t \in Producer, InsertUnlock(t) PROVE TypeOK'
  BY <1>5 DEF InsertUnlock, unlock
<1>6. ASSUME NEW lvl \in Level, setLevel(lvl) PROVE TypeOK'
  BY <1>6 DEF setLevel
<1>7. CASE PrinterWait \/ PrinterSpurious
  BY <1>7 DEF PrinterWait, PrinterSpurious
<1>8. CASE PrinterTake
  BY <1>8 DEF PrinterTake, lock
<1>9. CASE PrinterWrite
  <2>1. Head(batch) \in log_t /\ Tail(batch) \in Seq(log_t)
    BY <1>9 DEF PrinterWrite
  <2>2. (Head(batch).level >= current_log_level) \in BOOLEAN
    BY <2>1, LevelAssumption DEF log_t
  <2>3. file' \in Seq([log : log_t, written : BOOLEAN])
    BY <1>9, <2>1, <2>2 DEF PrinterWrite
  <2> QED
    BY <1>9, <2>1, <2>3 DEF PrinterWrite
<1>10. CASE PrinterUnlock \/ PrinterDies
  BY <1>10 DEF PrinterUnlock, PrinterDies, unlock
<1>11. CASE CloserStart \/ CloserLock \/ CloserSignal \/ CloserAgain
  BY <1>11 DEF CloserStart, CloserLock, CloserSignal, CloserAgain, lock, unlock,
               log_signal
<1>12. CASE CloserCancel \/ CloserUnlock \/ CloserJoin
  BY <1>12 DEF CloserCancel, CloserUnlock, CloserJoin, unlock
<1> QED
  BY <1>1, <1>2, <1>3, <1>4, <1>5, <1>6, <1>7, <1>8, <1>9, <1>10, <1>11, <1>12
     DEF Next, insertLog, printLog, hmLog_destructor

\* Every step keeps the critical sections apart and the messages in order.
LEMMA NextIInv ==
    ASSUME IInv, [Next]_vars PROVE IInv'
<1> USE DEF IInv
<1>1. TypeOK /\ TypeOK'
  BY NextTypeOK
<1>2. CASE cancelled
  \* cancelled stays, and only the types are claimed then
  <2>1. cancelled'
    BY <1>2 DEF Next, vars, insertLog, printLog, hmLog_destructor, InsertLock,
       InsertPush, InsertSignal, InsertUnlock, setLevel, PrinterWait, PrinterSpurious,
       PrinterTake, PrinterWrite, PrinterUnlock, PrinterDies, CloserStart, CloserLock,
       CloserSignal, CloserAgain, CloserCancel, CloserUnlock, CloserJoin
  <2> QED
    BY <1>1, <2>1 DEF Exclusive, InOrder
<1>3. CASE ~cancelled
  <2> DEFINE Quiet == /\ printer # "dead" /\ (batch # <<>> => printer = "write")
                      /\ closer \notin {"cancel", "join", "done"}
             Excl == /\ \A t \in Producer : producer[t] # "outside" <=> mutex = t
                     /\ printer = "write" <=> mutex = "printer"
                     /\ closer \in {"test", "again"} <=> mutex = "closer"
  <2>1. Quiet /\ Excl /\ Handled \o batch \o logs = accepted
    BY <1>3 DEF Exclusive, InOrder
  <2>2. SUFFICES ASSUME ~cancelled'
                 PROVE  Quiet' /\ Excl' /\ (Handled \o batch \o logs = accepted)'
    BY <1>1, <2>1 DEF Exclusive, InOrder
  <2>3. Handled \in Seq(log_t) /\ logs \in Seq(log_t) /\ batch \in Seq(log_t)
    BY <1>1, HandledType DEF TypeOK
  <2>4. ASSUME UNCHANGED <<logs, batch, file, accepted>>
        PROVE  (Handled \o batch \o logs = accepted)'
    BY <2>1, <2>4 DEF Handled
  <2>5. CASE UNCHANGED vars
    BY <2>1, <2>4, <2>5 DEF vars
  <2>6. ASSUME NEW t \in Producer, InsertLock(t) \/ InsertSignal(t) \/ InsertUnlock(t)
        PROVE  Quiet' /\ Excl'
    BY <1>1, <2>1, <2>6, ThreadAssumption
       DEF InsertLock, InsertSignal, InsertUnlock, lock, unlock, log_signal, TypeOK
  <2>7. ASSUME NEW t \in Producer, InsertPush(t)
        PROVE  Quiet' /\ Excl' /\ (Handled \o batch \o logs = accepted)'
    <3>1. Quiet' /\ Excl'
      BY <1>1, <2>1, <2>7, ThreadAssumption DEF InsertPush, TypeOK
    <3>2. PICK e \in log_t : logs' = Append(logs, e) /\ accepted' = Append(accepted, e)
      BY <2>7 DEF InsertPush, log_t
    <3>3. Handled' = Handled /\ batch' = batch
      BY <2>7 DEF InsertPush, Handled
    <3>4. Handled \o batch \in Seq(log_t)
      BY <2>3
    <3>5. (Handled \o batch) \o Append(logs, e) = Append((Handled \o batch) \o logs, e)
      BY <2>3, <3>4, ConcatAppend
    <3> QED
      BY <2>1, <3>1, <3>2, <3>3, <3>5
  <2>8. ASSUME NEW lvl \in Level, setLevel(lvl)
        PROVE  Quiet' /\ Excl' /\ UNCHANGED <<logs, batch, file, accepted>>
    BY <2>1, <2>8 DEF setLevel
  <2>9. CASE PrinterWait \/ PrinterSpurious \/ PrinterUnlock
    <3>1. Quiet' /\ Excl' /\ UNCHANGED <<logs, batch, file, accepted>>
      BY <1>1, <2>1, <2>9, ThreadAssumption
         DEF PrinterWait, PrinterSpurious, PrinterUnlock, unlock, TypeOK
    <3> QED
      BY <3>1, <2>4
  <2>10. CASE PrinterTake
    <3>1. Quiet' /\ Excl'
      BY <1>1, <2>1, <2>10, ThreadAssumption DEF PrinterTake, lock, TypeOK
    <3>2. /\ batch = <<>> /\ batch' = logs /\ logs' = <<>>
          /\ accepted' = accepted /\ Handled' = Handled
      BY <2>1, <2>10 DEF PrinterTake, Handled
    <3>3. Handled \o <<>> = Handled
      BY <2>3, ConcatEmpty
    <3>4. Handled \o logs \in Seq(log_t)
      BY <2>3
    <3>5. (Handled \o logs) \o <<>> = Handled \o logs
      BY <3>4, ConcatEmpty
    <3> QED
      BY <2>1, <3>1, <3>2, <3>3, <3>5
  <2>11. CASE PrinterWrite
    <3>1. Quiet' /\ Excl'
      BY <1>1, <2>1, <2>11, ThreadAssumption DEF PrinterWrite, TypeOK
    <3>2. Head(batch) \in log_t /\ batch # <<>>
      BY <2>3, <2>11 DEF PrinterWrite
    <3>3. PICK w \in BOOLEAN : file' = Append(file, [log |-> Head(batch), written |-> w])
      <4>1. (Head(batch).level >= current_log_level) \in BOOLEAN
        BY <3>2, <1>1, LevelAssumption DEF log_t, TypeOK
      <4> QED
        BY <4>1, <2>11 DEF PrinterWrite
    <3>4. Handled' = Append(Handled, Head(batch))
      BY <1>1, <3>2, <3>3, HandledType
    <3>5. batch' = Tail(batch) /\ logs' = logs /\ accepted' = accepted
      BY <2>11 DEF PrinterWrite
    <3>6. Append(Handled, Head(batch)) \o Tail(batch) = Handled \o batch
      BY <2>3, <3>2, ConcatMove
    <3> QED
      BY <2>1, <3>1, <3>4, <3>5, <3>6
  <2>12. CASE CloserStart \/ CloserLock \/ CloserSignal \/ CloserAgain
    <3>1. Quiet' /\ Excl' /\ UNCHANGED <<logs, batch, file, accepted>>
      BY <1>1, <2>1, <2>12, ThreadAssumption
         DEF CloserStart, CloserLock, CloserSignal, CloserAgain, lock, unlock,
             log_signal, TypeOK
    <3> QED
      BY <3>1, <2>4
  <2>13. ~PrinterDies /\ ~CloserCancel /\ ~CloserUnlock /\ ~CloserJoin
    BY <1>3, <2>1, <2>2 DEF PrinterDies, CloserCancel, CloserUnlock, CloserJoin
  <2>14. ASSUME NEW t \in Producer, InsertLock(t) \/ InsertSignal(t) \/ InsertUnlock(t)
         PROVE  (Handled \o batch \o logs = accepted)'
    BY <2>4, <2>14 DEF InsertLock, InsertSignal, InsertUnlock
  <2> QED
    BY <2>4, <2>5, <2>6, <2>7, <2>8, <2>9, <2>10, <2>11, <2>12, <2>13, <2>14
       DEF Next, insertLog, printLog, hmLog_destructor
<1> QED
  BY <1>2, <1>3

\* For every set of threads: the types, the critical sections of insertLog,
\* printLog and the destructor, and the order of the messages.
THEOREM LoggerCorrect == Spec => [](TypeOK /\ Exclusive /\ InOrder)
<1>1. IInv => TypeOK /\ Exclusive /\ InOrder
  BY DEF IInv
<1> QED
  BY <1>1, InitIInv, NextIInv, PTL DEF Spec

\* For every set of threads: the destructor's pthread_cancel finds everything
\* that was logged before it handled.
THEOREM LoggerDrained == Spec => CancelsWhenDrained
<1>1. ASSUME IInv, [Next]_vars
      PROVE  [~cancelled /\ cancelled' => Handled = accepted]_vars
  <2> SUFFICES ASSUME ~cancelled, cancelled' PROVE Handled = accepted
    OBVIOUS
  <2>1. CloserCancel
    BY <1>1 DEF Next, vars, insertLog, printLog, hmLog_destructor, InsertLock,
       InsertPush, InsertSignal, InsertUnlock, setLevel, PrinterWait, PrinterSpurious,
       PrinterTake, PrinterWrite, PrinterUnlock, PrinterDies, CloserStart, CloserLock,
       CloserSignal, CloserAgain, CloserUnlock, CloserJoin
  <2>2. mutex = "closer" /\ logs = <<>>
    BY <1>1, <2>1 DEF IInv, Exclusive, CloserCancel
  <2>3. printer # "write"
    BY <1>1, <2>2 DEF IInv, Exclusive
  <2>4. batch = <<>>
    BY <1>1, <2>3 DEF IInv
  <2>5. Handled \in Seq(log_t)
    BY <1>1, HandledType DEF IInv
  <2>6. (Handled \o <<>>) \o <<>> = Handled
    BY <2>5, ConcatEmpty
  <2> QED
    BY <1>1, <2>2, <2>4, <2>6 DEF IInv, InOrder
<1> QED
  BY <1>1, InitIInv, NextIInv, PTL DEF Spec, CancelsWhenDrained
=============================================================================
