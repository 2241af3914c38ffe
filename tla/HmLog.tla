------------------------------- MODULE HmLog -------------------------------
(***************************************************************************)
(* The asynchronous logger of include/hmLog.hpp: threads that call         *)
(* insertLog, the thread that runs printLog, and the thread that runs the  *)
(* destructor at exit.  They share the vector logs, the mutex logsMutex    *)
(* and the condition variable logCond.                                     *)
(*                                                                         *)
(* The pthread calls are external.  A mutex of the default kind does not   *)
(* check its owner: unlock frees it whoever holds it.  pthread_cond_wait   *)
(* may wake without a signal.  The cancellation of the print thread is     *)
(* asynchronous: once asked for, it strikes between any two steps.         *)
(***************************************************************************)
EXTENDS Integers, Sequences

CONSTANTS Producer,    \* the threads that log
          Level,       \* log levels: debug_level .. fatal_level
          Free,        \* the mutex when nobody holds it
          MaxLogs      \* bound: messages logged in all

ASSUME LevelAssumption == Level \subseteq Nat
ASSUME BoundAssumption == MaxLogs \in Nat
ASSUME ThreadAssumption ==
    /\ "printer" \notin Producer /\ "closer" \notin Producer
    /\ Free \notin Producer \cup {"printer", "closer"}

VARIABLES mutex,       \* logsMutex: its holder, or Free
          logs,        \* the vector of log_t
          current_log_level,
          producer,    \* where each thread is in insertLog
          printer,     \* where the print thread is in printLog
          batch,       \* what is left of printLog's logsTemp
          file,        \* [log, written] for each entry printLog has handled
          closer,      \* where the destructor is
          cancelled,   \* pthread_cancel has been called
          accepted     \* history: everything pushed onto logs

vars == <<mutex, logs, current_log_level, producer, printer, batch, file,
          closer, cancelled, accepted>>

log_t == [by : Producer, level : Level]

Init ==
    /\ mutex = Free
    /\ logs = <<>> /\ batch = <<>> /\ file = <<>> /\ accepted = <<>>
    /\ current_log_level \in Level
    /\ producer = [t \in Producer |-> "outside"]
    /\ printer = "loop"
    /\ closer = "off" /\ cancelled = FALSE
-----------------------------------------------------------------------------
\* Takes the mutex for thread t.
lock(t) == mutex = Free /\ mutex' = t

unlock == mutex' = Free

\* Wakes the print thread if it waits; otherwise nobody remembers the signal.
log_signal == printer' = IF printer = "wait" THEN "woken" ELSE printer
-----------------------------------------------------------------------------
(* insertLog                                                               *)

\* An empty message returns before this; formatting is left out.
InsertLock(t) ==
    /\ producer[t] = "outside"
    /\ Len(accepted) < MaxLogs
    /\ lock(t)
    /\ producer' = [producer EXCEPT ![t] = "push"]
    /\ UNCHANGED <<logs, current_log_level, printer, batch, file, closer,
                   cancelled, accepted>>

InsertPush(t) ==
    /\ producer[t] = "push"
    /\ \E lvl \in Level : LET log == [by |-> t, level |-> lvl] IN
         /\ logs' = Append(logs, log)
         /\ accepted' = Append(accepted, log)
    /\ producer' = [producer EXCEPT ![t] = "signal"]
    /\ UNCHANGED <<mutex, current_log_level, printer, batch, file, closer, cancelled>>

InsertSignal(t) ==
    /\ producer[t] = "signal"
    /\ log_signal
    /\ producer' = [producer EXCEPT ![t] = "unlock"]
    /\ UNCHANGED <<mutex, logs, current_log_level, batch, file, closer,
                   cancelled, accepted>>

InsertUnlock(t) ==
    /\ producer[t] = "unlock"
    /\ unlock
    /\ producer' = [producer EXCEPT ![t] = "outside"]
    /\ UNCHANGED <<logs, current_log_level, printer, batch, file, closer,
                   cancelled, accepted>>

\* setLevel takes no lock.
setLevel(lvl) ==
    /\ current_log_level' = lvl
    /\ UNCHANGED <<mutex, logs, producer, printer, batch, file, closer,
                   cancelled, accepted>>
-----------------------------------------------------------------------------
(* printLog                                                                *)

\* lock and log_wait: the print thread waits without looking at logs first.
PrinterWait ==
    /\ printer = "loop" /\ mutex = Free
    /\ printer' = "wait"
    /\ UNCHANGED <<mutex, logs, current_log_level, producer, batch, file, closer,
                   cancelled, accepted>>

\* pthread_cond_wait returns although nobody signalled.
PrinterSpurious ==
    /\ printer = "wait"
    /\ printer' = "woken"
    /\ UNCHANGED <<mutex, logs, current_log_level, producer, batch, file, closer,
                   cancelled, accepted>>

\* Variant: the mutex is given back before the batch is written.
Writes_unlocked ==
    /\ printer = "woken"
    /\ mutex = Free
    /\ batch' = logs
    /\ logs' = <<>>
    /\ printer' = "write"
    /\ UNCHANGED <<mutex, current_log_level, producer, file, closer, cancelled,
                   accepted>>

\* Variant: logs is copied, not moved.
Copies_logs ==
    /\ printer = "woken"
    /\ lock("printer")
    /\ batch' = logs
    /\ printer' = "write"
    /\ UNCHANGED <<logs, current_log_level, producer, file, closer, cancelled,
                   accepted>>

\* log_wait has the mutex back: logs is moved to logsTemp.
PrinterTake ==
    /\ printer = "woken"
    /\ lock("printer")
    /\ batch' = logs
    /\ logs' = <<>>
    /\ printer' = "write"
    /\ UNCHANGED <<current_log_level, producer, file, closer, cancelled, accepted>>

PrinterWrite ==
    /\ printer = "write" /\ batch # <<>>
    /\ file' = Append(file, [log |-> Head(batch),
                             written |-> Head(batch).level >= current_log_level])
    /\ batch' = Tail(batch)
    /\ UNCHANGED <<mutex, logs, current_log_level, producer, printer, closer,
                   cancelled, accepted>>

PrinterUnlock ==
    /\ printer = "write" /\ batch = <<>>
    /\ unlock
    /\ printer' = "loop"
    /\ UNCHANGED <<logs, current_log_level, producer, batch, file, closer,
                   cancelled, accepted>>

\* The cancellation strikes.  In pthread_cond_wait the thread first gets the
\* mutex back; the handler cleanup then unlocks, whoever holds the mutex.
PrinterDies ==
    /\ cancelled /\ printer # "dead"
    /\ printer \in {"wait", "woken"} => mutex = Free
    /\ unlock
    /\ printer' = "dead"
    /\ UNCHANGED <<logs, current_log_level, producer, batch, file, closer,
                   cancelled, accepted>>
-----------------------------------------------------------------------------
(* ~hmLog                                                                  *)

\* The process exits.
CloserStart ==
    /\ closer = "off"
    /\ closer' = "check"
    /\ UNCHANGED <<mutex, logs, current_log_level, producer, printer, batch, file,
                   cancelled, accepted>>

CloserLock ==
    /\ closer = "check"
    /\ lock("closer")
    /\ closer' = "test"
    /\ UNCHANGED <<logs, current_log_level, producer, printer, batch, file,
                   cancelled, accepted>>

\* Variant: the destructor waits for the print thread without waking it.
Closer_never_signals ==
    /\ closer = "test" /\ logs # <<>>
    /\ closer' = "again"
    /\ UNCHANGED <<mutex, logs, current_log_level, producer, printer, batch, file,
                   cancelled, accepted>>

\* Something is left: wake the print thread, unlock, sleep, look again.
CloserSignal ==
    /\ closer = "test" /\ logs # <<>>
    /\ log_signal
    /\ closer' = "again"
    /\ UNCHANGED <<mutex, logs, current_log_level, producer, batch, file,
                   cancelled, accepted>>

CloserAgain ==
    /\ closer = "again"
    /\ unlock
    /\ closer' = "check"
    /\ UNCHANGED <<logs, current_log_level, producer, printer, batch, file,
                   cancelled, accepted>>

\* logs is empty: pthread_cancel, still under the lock.
CloserCancel ==
    /\ closer = "test" /\ logs = <<>>
    /\ cancelled' = TRUE
    /\ closer' = "cancel"
    /\ UNCHANGED <<mutex, logs, current_log_level, producer, printer, batch, file,
                   accepted>>

CloserUnlock ==
    /\ closer = "cancel"
    /\ unlock
    /\ closer' = "join"
    /\ UNCHANGED <<logs, current_log_level, producer, printer, batch, file,
                   cancelled, accepted>>

CloserJoin ==
    /\ closer = "join" /\ printer = "dead"
    /\ closer' = "done"
    /\ UNCHANGED <<mutex, logs, current_log_level, producer, printer, batch, file,
                   cancelled, accepted>>
-----------------------------------------------------------------------------
insertLog(t) == InsertLock(t) \/ InsertPush(t) \/ InsertSignal(t) \/ InsertUnlock(t)

printLog ==
    PrinterWait \/ PrinterTake \/ PrinterWrite \/ PrinterUnlock \/ PrinterDies

hmLog_destructor ==
    \/ CloserLock \/ CloserSignal \/ CloserAgain
    \/ CloserCancel \/ CloserUnlock \/ CloserJoin

Next ==
    \/ \E t \in Producer : insertLog(t)
    \/ \E lvl \in Level : setLevel(lvl)
    \/ printLog
    \/ PrinterSpurious
    \/ CloserStart
    \/ hmLog_destructor

Spec == Init /\ [][Next]_vars

\* A thread that can run does.  Taking the mutex is strongly fair: nobody
\* keeps it for ever, and the destructor sleeps a second between two tries.
Fairness ==
    /\ \A t \in Producer :
         WF_vars(InsertPush(t) \/ InsertSignal(t) \/ InsertUnlock(t))
    /\ WF_vars(PrinterWrite \/ PrinterUnlock)
    /\ SF_vars(PrinterWait) /\ SF_vars(PrinterTake) /\ SF_vars(PrinterDies)
    /\ SF_vars(CloserLock)
    /\ WF_vars(CloserSignal \/ CloserAgain \/ CloserCancel \/ CloserUnlock
               \/ CloserJoin)

FairSpec == Spec /\ Fairness
-----------------------------------------------------------------------------
(* Correctness.                                                            *)

\* The entries printLog has handled, in its order.
Handled == [k \in 1 .. Len(file) |-> file[k].log]

TypeOK ==
    /\ mutex \in Producer \cup {"printer", "closer", Free}
    /\ logs \in Seq(log_t) /\ batch \in Seq(log_t) /\ accepted \in Seq(log_t)
    /\ file \in Seq([log : log_t, written : BOOLEAN])
    /\ current_log_level \in Level
    /\ producer \in [Producer -> {"outside", "push", "signal", "unlock"}]
    /\ printer \in {"loop", "wait", "woken", "write", "dead"}
    /\ closer \in {"off", "check", "test", "again", "cancel", "join", "done"}
    /\ cancelled \in BOOLEAN

\* Until the destructor cancels the print thread, the code between lock and
\* unlock runs in one thread at a time, and that thread owns the mutex.
Exclusive ==
    ~cancelled =>
        /\ \A t \in Producer : producer[t] # "outside" <=> mutex = t
        /\ printer = "write" <=> mutex = "printer"
        /\ closer \in {"test", "again"} <=> mutex = "closer"

\* Every message logged before the shutdown is, in the order of the calls,
\* handled, in printLog's batch or in logs: none is lost, repeated or
\* overtaken between insertLog, the move and the write.
InOrder == ~cancelled => Handled \o batch \o logs = accepted

\* The destructor cancels the print thread only when everything logged so far
\* has been handled: the batch too, which it never looks at.
CancelsWhenDrained ==
    [][~cancelled /\ cancelled' => Handled = accepted]_vars

\* The destructor returns, although a signal sent while the print thread is
\* not waiting is lost and the wait looks at no condition.
ShutdownCompletes == closer = "check" ~> closer = "done"
=============================================================================
