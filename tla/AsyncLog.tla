------------------------------ MODULE AsyncLog ------------------------------
(***************************************************************************)
(* pqnet::AsyncLog (pqnet/util/asynclog.h, asynclog.cpp): a singleton made *)
(* at its first use, threads that add logs to its queue, the consumer      *)
(* thread that writes them to the console or to the file of the day, a     *)
(* main thread that changes target and level, and the static Garbo object, *)
(* which closes the file and deletes the instance at exit.                 *)
(*                                                                         *)
(* What happens under the mutex is one step, except that the consumer      *)
(* holds it between the predicate of cond.wait and its sleep ("blocking"): *)
(* ~AsyncLog does not take it.  A user adds one log, which is known by the *)
(* user's name.  Dates are numbers; the file of a date has its number and  *)
(* stdout is 0.  At exit no thread is in the middle of addLog, and none    *)
(* calls it later.                                                         *)
(***************************************************************************)
EXTENDS Integers, Sequences

CONSTANTS Users,        \* threads that log
          Levels,       \* levels of logs and of the threshold
          INFO,         \* the threshold of a new AsyncLog
          MaxDate,      \* bound on the date
          MaxTargets    \* bound on the calls of setTarget and setLogLevel

ASSUME LogAssumption ==
    /\ Levels \subseteq Nat /\ INFO \in Levels
    /\ MaxDate \in Nat \ {0} /\ MaxTargets \in Nat

FILE == "FILE"
CONSOLE == "CONSOLE"
stdout == 0

VARIABLES instance,     \* number of AsyncLog objects that have been made
          level, target, currdate,
          lf,           \* AsyncLog::lf: stdout, or the date of a log file
          open,         \* log files that are open
          running, logqueue,
          cpc,          \* what the consumer is doing
          log,          \* the log that consume() was called with
          ts,           \* the date that consume() has read
          setting,      \* target of a setTarget that has not returned, or None
          racing,       \* whether setTarget has overlapped this consume()
          upc,          \* what each user is doing
          gpc,          \* how far the exit of the program is
          today,        \* the date
          calls,        \* calls of setTarget and setLogLevel
          added,        \* history: all logs in the order of the queue
          handled       \* history: what consume() did with each log

fileVars == <<target, currdate, lf, open, setting>>
vars == <<instance, level, fileVars, running, logqueue, cpc, log, ts, racing,
          upc, gpc, today, calls, added, handled>>

NoLog == <<>>
None == "none"

Init ==
    /\ instance = 0
    /\ level = INFO /\ target = CONSOLE /\ currdate = 1 /\ lf = stdout /\ open = {}
    /\ setting = None
    /\ running = FALSE /\ logqueue = <<>>
    /\ cpc = "none" /\ log = NoLog /\ ts = 1 /\ racing = FALSE
    /\ upc = [u \in Users |-> "idle"] /\ gpc = "idle"
    /\ today = 1 /\ calls = 0
    /\ added = <<>> /\ handled = <<>>

isIdle == logqueue = <<>>

MutexFree == cpc # "blocking"

(* notify_one; it is lost when the consumer does not wait. *)
Notify == cpc' = IF cpc = "waiting" THEN "lock" ELSE cpc

-----------------------------------------------------------------------------
(* Users: getInstance with its double check, then addLog.                  *)

ChecksInstance(u) ==
    /\ upc[u] = "idle" /\ gpc = "idle"
    /\ upc' = [upc EXCEPT ![u] = IF instance = 0 THEN "lock" ELSE "add"]
    /\ UNCHANGED <<instance, level, fileVars, running, logqueue, cpc, log, ts,
                   racing, gpc, today, calls, added, handled>>

StillNull == instance = 0

StartDate == today

(* The constructor starts the consumer, which waits for the mutex that     *)
(* getInstance holds.                                                      *)
getInstance(u) ==
    /\ upc[u] = "lock" /\ MutexFree
    /\ upc' = [upc EXCEPT ![u] = "add"]
    /\ IF StillNull
         THEN /\ instance' = instance + 1
              /\ currdate' = StartDate /\ running' = TRUE /\ cpc' = "lock"
         ELSE UNCHANGED <<instance, currdate, running, cpc>>
    /\ UNCHANGED <<level, target, lf, open, setting, logqueue, log, ts, racing, gpc,
                   today, calls, added, handled>>

(* Mutant: nobody is told of the log. *)
MutAfterQueueing == "done"

AfterQueueing == "notify"

addLog(u) ==
    /\ upc[u] = "add" /\ MutexFree
    /\ \E l \in Levels :
          /\ logqueue' = Append(logqueue, [by |-> u, level |-> l])
          /\ added' = Append(added, [by |-> u, level |-> l])
    /\ upc' = [upc EXCEPT ![u] = AfterQueueing]
    /\ UNCHANGED <<instance, level, fileVars, running, cpc, log, ts, racing, gpc,
                   today, calls, handled>>

Notifies(u) ==
    /\ upc[u] = "notify"
    /\ upc' = [upc EXCEPT ![u] = "done"]
    /\ Notify
    /\ UNCHANGED <<instance, level, fileVars, running, logqueue, log, ts, racing,
                   gpc, today, calls, added, handled>>

-----------------------------------------------------------------------------
(* The consumer.                                                           *)

MayExit == ~running /\ isIdle

(* Mutant: the first log is copied and stays in the queue. *)
MutPopped == logqueue

Popped == Tail(logqueue)

(* The predicate of cond.wait holds. *)
Proceeds ==
    /\ cpc = "lock"
    /\ ~running \/ ~isIdle
    /\ \/ /\ MayExit
          /\ cpc' = "exited"
          /\ UNCHANGED <<logqueue, log>>
       \/ /\ ~MayExit
          /\ cpc' = "consume" /\ log' = Head(logqueue) /\ logqueue' = Popped
    /\ UNCHANGED <<instance, level, fileVars, running, ts, racing, upc, gpc, today,
                   calls, added, handled>>

(* It does not: the consumer goes to sleep in two steps. *)
Sleeps ==
    /\ \/ /\ cpc = "lock" /\ running /\ isIdle
          /\ cpc' = "blocking"
       \/ /\ cpc = "blocking"
          /\ cpc' = "waiting"
    /\ UNCHANGED <<instance, level, fileVars, running, logqueue, log, ts, racing,
                   upc, gpc, today, calls, added, handled>>

(* A condition variable may wake a thread for no reason. *)
WakesUp ==
    /\ cpc = "waiting"
    /\ cpc' = "lock"
    /\ UNCHANGED <<instance, level, fileVars, running, logqueue, log, ts, racing,
                   upc, gpc, today, calls, added, handled>>

(* consume() returns; where is the stream the log was printed on, and -1   *)
(* when it was below the threshold.                                        *)
Handles(where) ==
    /\ cpc' = "lock" /\ log' = NoLog /\ racing' = FALSE
    /\ handled' = Append(handled, [log |-> log, lf |-> where, date |-> ts,
                                   file |-> target # CONSOLE, racing |-> racing])

Dropped == -1

(* The threshold, and the time of the log. *)
consume ==
    /\ cpc = "consume"
    /\ \/ /\ log.level < level
          /\ Handles(Dropped)
          /\ UNCHANGED ts
       \/ /\ log.level >= level
          /\ ts' = today /\ cpc' = "date" /\ racing' = (setting # None)
          /\ UNCHANGED <<log, handled>>
    /\ UNCHANGED <<instance, level, fileVars, running, logqueue, upc, gpc, today,
                   calls, added>>

(* Mutant: the date is compared, but not remembered. *)
MutNewDate == currdate

NewDate == ts

(* A new date: the file is closed and the one of the new date opened.  To  *)
(* close a file that is not open is undefined.                             *)
checkDate ==
    /\ cpc = "date"
    /\ IF target = CONSOLE \/ currdate = ts
         THEN cpc' = "print" /\ UNCHANGED fileVars
       ELSE IF lf \in open
         THEN /\ cpc' = "print"
              /\ currdate' = NewDate /\ lf' = NewDate
              /\ open' = (open \ {lf}) \cup {NewDate}
              /\ UNCHANGED <<target, setting>>
         ELSE cpc' = "undefined" /\ UNCHANGED fileVars
    /\ UNCHANGED <<instance, level, running, logqueue, log, ts, racing, upc, gpc,
                   today, calls, added, handled>>

(* fprintf; undefined on a file that has been closed. *)
fprintf ==
    /\ cpc = "print"
    /\ IF lf = stdout \/ lf \in open
         THEN Handles(lf)
         ELSE cpc' = "undefined" /\ UNCHANGED <<log, racing, handled>>
    /\ UNCHANGED <<instance, level, fileVars, running, logqueue, ts, upc, gpc, today,
                   calls, added>>

InConsume == cpc \in {"date", "print"}

(* setTarget has changed target and lf, which nothing protects, while      *)
(* consume() was using them: it may close a closed file or print on one.   *)
RaceGoesWrong ==
    /\ InConsume /\ racing
    /\ cpc' = "undefined"
    /\ UNCHANGED <<instance, level, fileVars, running, logqueue, log, ts, racing,
                   upc, gpc, today, calls, added, handled>>

Consumer == Proceeds \/ Sleeps \/ consume \/ checkDate \/ fprintf

-----------------------------------------------------------------------------
(* The main thread.                                                        *)

Calls ==
    /\ instance > 0 /\ gpc = "idle" /\ setting = None
    /\ calls < MaxTargets /\ calls' = calls + 1

(* Mutant: the log file is not closed when the target becomes the console. *)
MutClosed == open

Closed == open \ {lf}

Standard == stdout

(* setTarget: the files first, target last.  Asking for the target that is *)
(* set already does nothing.  A consume() that overlaps is noted.          *)
setTarget(t) ==
    /\ Calls
    /\ target # t
    /\ setting' = t
    /\ \/ /\ t = CONSOLE
          /\ open' = Closed /\ lf' = Standard
       \/ /\ t = FILE
          /\ open' = open \cup {currdate} /\ lf' = currdate
    /\ racing' = (racing \/ InConsume)
    /\ UNCHANGED <<instance, level, target, currdate, running, logqueue, cpc, log,
                   ts, upc, gpc, today, added, handled>>

setTargetReturns ==
    /\ setting # None
    /\ target' = setting /\ setting' = None
    /\ UNCHANGED <<instance, level, currdate, lf, open, running, logqueue, cpc, log,
                   ts, racing, upc, gpc, today, calls, added, handled>>

setLogLevel(l) ==
    /\ Calls
    /\ level' = l
    /\ UNCHANGED <<instance, fileVars, running, logqueue, cpc, log, ts, racing, upc,
                   gpc, today, added, handled>>

Quiet == \A u \in Users : upc[u] \in {"idle", "done"}

(* ~Garbo: without an instance nothing is done; a log file is closed first. *)
Garbo ==
    /\ gpc = "idle" /\ Quiet /\ setting = None
    /\ gpc' = IF instance = 0 THEN "gone" ELSE "delete"
    /\ open' = IF target = CONSOLE THEN open ELSE open \ {lf}
    /\ UNCHANGED <<instance, level, target, currdate, lf, setting, running, logqueue, cpc,
                   log, ts, racing, upc, today, calls, added, handled>>

(* ~AsyncLog: running becomes false, then the consumer is notified, and    *)
(* then joined.                                                            *)
DestructorStops ==
    /\ gpc = "delete"
    /\ running' = FALSE
    /\ gpc' = "notify"
    /\ UNCHANGED <<instance, level, fileVars, logqueue, cpc, log, ts, racing, upc,
                   today, calls, added, handled>>

DestructorNotifies ==
    /\ gpc = "notify"
    /\ Notify
    /\ gpc' = "join"
    /\ UNCHANGED <<instance, level, fileVars, running, logqueue, log, ts, racing, upc,
                   today, calls, added, handled>>

DestructorJoins ==
    /\ gpc = "join" /\ cpc = "exited"
    /\ gpc' = "gone"
    /\ UNCHANGED <<instance, level, fileVars, running, logqueue, cpc, log, ts, racing,
                   upc, today, calls, added, handled>>

(* Midnight. *)
Tomorrow ==
    /\ today < MaxDate
    /\ today' = today + 1
    /\ UNCHANGED <<instance, level, fileVars, running, logqueue, cpc, log, ts, racing,
                   upc, gpc, calls, added, handled>>

Terminated == (gpc = "gone" \/ cpc = "undefined") /\ UNCHANGED vars

InAddLog(u) == getInstance(u) \/ addLog(u) \/ Notifies(u)

Destructor == DestructorStops \/ DestructorNotifies \/ DestructorJoins

(* After undefined behaviour nothing more is said. *)
Next ==
    \/ /\ cpc # "undefined"
       /\ \/ \E u \in Users : ChecksInstance(u) \/ InAddLog(u)
          \/ Consumer \/ WakesUp \/ RaceGoesWrong
          \/ (\E t \in {CONSOLE, FILE} : setTarget(t)) \/ setTargetReturns
          \/ \E l \in Levels : setLogLevel(l)
          \/ Garbo \/ Destructor \/ Tomorrow
    \/ Terminated

Spec == Init /\ [][Next]_vars

(* The threads are scheduled, and hold the mutex for a step or two.        *)
FairSpec ==
    /\ Spec
    /\ WF_vars(cpc # "undefined" /\ Consumer)
    /\ \A u \in Users : WF_vars(cpc # "undefined" /\ InAddLog(u))
    /\ WF_vars(cpc # "undefined" /\ (setTargetReturns \/ Destructor))

-----------------------------------------------------------------------------
(* Properties.                                                             *)

Logs == [by : Users, level : Levels]
Files == 1..MaxDate

TypeOK ==
    /\ instance \in Nat
    /\ level \in Levels /\ target \in {CONSOLE, FILE} /\ currdate \in Files
    /\ lf \in Files \cup {stdout} /\ open \subseteq Files
    /\ setting \in {None, CONSOLE, FILE}
    /\ running \in BOOLEAN /\ logqueue \in Seq(Logs)
    /\ cpc \in {"none", "lock", "blocking", "waiting", "consume", "date", "print",
                "exited", "undefined"}
    /\ log \in Logs \cup {NoLog} /\ ts \in Files /\ racing \in BOOLEAN
    /\ upc \in [Users -> {"idle", "lock", "add", "notify", "done"}]
    /\ gpc \in {"idle", "delete", "notify", "join", "gone"}
    /\ today \in Files /\ calls \in 0..MaxTargets
    /\ added \in Seq(Logs)

(* Threads that call getInstance() for the first time together make one    *)
(* AsyncLog, and nobody logs without one.                                  *)
OneInstance ==
    /\ instance <= 1
    /\ (\E u \in Users : upc[u] \in {"add", "notify", "done"}) => instance = 1

(* Every log that was queued is handled once, in the order of the queue.   *)
OnceInOrder ==
    added = [i \in 1..Len(handled) |-> handled[i].log]
              \o (IF log = NoLog THEN <<>> ELSE <<log>>) \o logqueue

(* A consumer that has returned, when the program exits, leaves no log.    *)
NoLogStranded == cpc = "exited" => Len(handled) = Len(added)

(* As long as the program runs, the one open log file is lf, and there is  *)
(* none when the target is the console: midnight and setTarget neither     *)
(* leak a file nor lose one.                                               *)
StreamsMatch ==
    (gpc = "idle" /\ setting = None /\ cpc # "undefined") =>
        /\ open = IF target = CONSOLE THEN {} ELSE {lf}
        /\ target = CONSOLE <=> lf = stdout

(* A log that goes to a file goes to the file of the date that is printed  *)
(* with it, also right after midnight or after a time on the console,      *)
(* unless setTarget overlaps with consume().                               *)
RightFile ==
    \A i \in 1..Len(handled) :
        LET h == handled[i]
        IN  (h.file /\ h.lf # Dropped /\ ~h.racing) => h.lf = h.date

(* Two uses of the logger may close the file that the consumer is writing  *)
(* to: a setTarget that overlaps with this consume(), and an exit with the *)
(* target FILE, for which ~Garbo closes the file before the consumer has   *)
(* written what is queued.                                                 *)
FileTakenAway == racing \/ (gpc # "idle" /\ target = FILE)

(* The consumer uses a closed file in these two cases only: never while    *)
(* the program runs and setTarget stays out of consume(), and not at an    *)
(* exit with the target CONSOLE.                                           *)
ClosedByNobodyElse == cpc = "undefined" => FileTakenAway

(* There is one logger.  A consumer that returns has left no log behind,   *)
(* at whatever point of its sleep the program exits.  While the program    *)
(* runs no file is leaked, and unless it is taken away from under the      *)
(* consumer, none is used after it was closed.                             *)
LogInv == TypeOK /\ OneInstance /\ NoLogStranded /\ StreamsMatch /\ ClosedByNobodyElse

(* A queued log is handled, also when the program exits meanwhile, unless  *)
(* the file is taken away: by an overlapping setTarget or by an exit with  *)
(* the target FILE.                                                        *)
LogHandled ==
    \A u \in Users :
        (\E i \in 1..Len(logqueue) : logqueue[i].by = u)
            ~> \/ \E i \in 1..Len(handled) : handled[i].log.by = u
               \/ cpc = "undefined" /\ FileTakenAway
=============================================================================
