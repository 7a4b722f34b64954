-------------------------- MODULE AsyncLog_proofs --------------------------
(***************************************************************************)
(* The safety invariants of AsyncLog, proved for any number of users, any  *)
(* levels, and as many days and calls of setTarget as one likes.           *)
(***************************************************************************)
EXTENDS AsyncLog, SequenceTheorems, TLAPS

(* No log is the empty one. *)
LEMMA LogIsThere == NoLog \notin Logs
  BY DEF NoLog, Logs

(* The steps of the program, one by one. *)
LEMMA LogSteps ==
    ASSUME [Next]_vars
    PROVE  \/ \E u \in Users : ChecksInstance(u) \/ getInstance(u) \/ addLog(u) \/ Notifies(u)
           \/ Proceeds \/ Sleeps \/ consume \/ checkDate \/ fprintf \/ WakesUp \/ RaceGoesWrong
           \/ \E t \in {CONSOLE, FILE} : setTarget(t)
           \/ setTargetReturns
           \/ \E l \in Levels : setLogLevel(l)
           \/ Garbo \/ DestructorStops \/ DestructorNotifies \/ DestructorJoins \/ Tomorrow
           \/ UNCHANGED vars
  BY DEF Next, InAddLog, Consumer, Destructor, Terminated

-----------------------------------------------------------------------------
(* The inductive invariant.                                                *)

Entries == [log : Logs, lf : Files \cup {stdout, Dropped}, date : Files, file : BOOLEAN,
            racing : BOOLEAN]

LogTypes == TypeOK /\ handled \in Seq(Entries)

(* One AsyncLog, whose consumer runs until ~AsyncLog has told it to stop,  *)
(* which happens when nobody logs any more; what the consumer holds.       *)
LifeCycle ==
    /\ OneInstance
    /\ instance = 0 <=> cpc = "none"
    /\ gpc \in {"idle", "delete"} => (running <=> instance = 1)
    /\ gpc \notin {"idle", "delete"} => ~running
    /\ gpc # "idle" => Quiet /\ setting = None
    /\ cpc \in {"none", "lock", "blocking", "waiting", "exited"} => log = NoLog
    /\ cpc \in {"consume", "date", "print"} => log \in Logs
    /\ cpc = "exited" => gpc # "idle" /\ logqueue = <<>>

(* The log file while setTarget is under way, and what consume() has       *)
(* reached of it; a setTarget that overlaps has been noted.                *)
Streams ==
    /\ StreamsMatch
    /\ instance = 0 => target = CONSOLE /\ lf = stdout /\ setting = None
    /\ cpc # "undefined" /\ gpc = "idle" =>
         /\ setting = CONSOLE => target = FILE /\ lf = stdout /\ open = {}
         /\ setting = FILE => target = CONSOLE /\ lf # stdout /\ open = {lf}
    /\ setting = None /\ target = FILE => lf = currdate
    /\ setting = FILE => lf = currdate
    /\ InConsume /\ setting # None => racing
    /\ cpc = "print" /\ ~racing /\ target = FILE => lf = ts
    /\ cpc # "undefined" /\ setting = None => (target = CONSOLE <=> lf = stdout)
    /\ ClosedByNobodyElse

LogKept == LogTypes /\ LifeCycle /\ Streams

-----------------------------------------------------------------------------
(* Init => LogKept, and every step keeps it.                               *)

(* The program starts without an AsyncLog. *)
LEMMA LogInit == Init => LogKept
  <1>. SUFFICES ASSUME Init PROVE LogKept
    OBVIOUS
  <1>1. 1 \in Files /\ INFO \in Levels /\ 0 \in 0..MaxTargets
    BY LogAssumption DEF Files
  <1>4. <<>> \in Seq(Logs) /\ <<>> \in Seq(Entries)
    OBVIOUS
  <1>5. handled \in Seq(Entries)
    BY <1>4 DEF Init
  <1>6. TypeOK
    BY <1>1, <1>4 DEF Init, TypeOK
  <1>2. LifeCycle
    BY DEF Init, LifeCycle, OneInstance, Quiet, None
  <1>3. Streams
    BY DEF Init, Streams, StreamsMatch, ClosedByNobodyElse, FileTakenAway, InConsume, CONSOLE,
       FILE, stdout, None
  <1>. QED
    BY <1>2, <1>3, <1>5, <1>6 DEF LogKept, LogTypes

(* consume() adds an entry to the history. *)
LEMMA EntryAdded ==
    ASSUME LogTypes, log \in Logs, NEW where \in Files \cup {stdout, Dropped}, Handles(where)
    PROVE  handled' \in Seq(Entries)
  <1>1. [log |-> log, lf |-> where, date |-> ts, file |-> target # CONSOLE, racing |-> racing]
          \in Entries
    BY DEF LogTypes, TypeOK, Entries
  <1>. QED
    BY <1>1 DEF Handles, LogTypes

(* Every step keeps the types. *)
LEMMA LogTypesKept == ASSUME LogKept, [Next]_vars PROVE LogTypes'
  <1>t. /\ LogTypes
        /\ cpc \in {"consume", "date", "print"} => log \in Logs
    BY DEF LogKept, LifeCycle
  <1>1. ASSUME NEW u \in Users, ChecksInstance(u) PROVE LogTypes'
    <2>1. upc' \in [Users -> {"idle", "lock", "add", "notify", "done"}]
      BY <1>1, <1>t DEF ChecksInstance, LogTypes, TypeOK
    <2>. QED
      BY <1>1, <1>t, <2>1 DEF ChecksInstance, LogTypes, TypeOK, fileVars
  <1>2. ASSUME NEW u \in Users, getInstance(u) PROVE LogTypes'
    <2>1. upc' \in [Users -> {"idle", "lock", "add", "notify", "done"}]
      BY <1>2, <1>t DEF getInstance, LogTypes, TypeOK
    <2>2. CASE StillNull
      <3>1. instance' = instance + 1 /\ currdate' = today /\ running' = TRUE /\ cpc' = "lock"
        BY <1>2, <2>2 DEF getInstance, StartDate
      <3>2. instance' \in Nat
        BY <1>t, <3>1 DEF LogTypes, TypeOK
      <3>. QED
        BY <1>2, <1>t, <2>1, <3>1, <3>2 DEF getInstance, LogTypes, TypeOK
    <2>3. CASE ~StillNull
      <3>1. UNCHANGED <<instance, currdate, running, cpc>>
        BY <1>2, <2>3 DEF getInstance
      <3>. QED
        BY <1>2, <1>t, <2>1, <3>1 DEF getInstance, LogTypes, TypeOK
    <2>. QED
      BY <2>2, <2>3
  <1>3. ASSUME NEW u \in Users, addLog(u) PROVE LogTypes'
    <2>1. PICK l \in Levels : /\ logqueue' = Append(logqueue, [by |-> u, level |-> l])
                               /\ added' = Append(added, [by |-> u, level |-> l])
      BY <1>3 DEF addLog
    <2>2. [by |-> u, level |-> l] \in Logs
      BY DEF Logs
    <2>3. logqueue' \in Seq(Logs) /\ added' \in Seq(Logs)
      BY <1>t, <2>1, <2>2 DEF LogTypes, TypeOK
    <2>. QED
      BY <1>3, <1>t, <2>3 DEF addLog, AfterQueueing, LogTypes, TypeOK, fileVars, Files
  <1>4. ASSUME NEW u \in Users, Notifies(u) PROVE LogTypes'
    <2>1. upc' \in [Users -> {"idle", "lock", "add", "notify", "done"}]
      BY <1>4, <1>t DEF Notifies, LogTypes, TypeOK
    <2>. QED
      BY <1>4, <1>t, <2>1 DEF Notifies, Notify, LogTypes, TypeOK, fileVars
  <1>5. CASE Proceeds
    <2>1. logqueue # <<>> => Head(logqueue) \in Logs /\ Tail(logqueue) \in Seq(Logs)
      BY <1>t DEF LogTypes, TypeOK
    <2>2. logqueue' \in Seq(Logs) /\ log' \in Logs \cup {NoLog}
      BY <1>5, <1>t, <2>1 DEF Proceeds, MayExit, isIdle, Popped, LogTypes, TypeOK
    <2>3. cpc' \in {"exited", "consume"}
      BY <1>5 DEF Proceeds
    <2>. QED
      BY <1>5, <1>t, <2>2, <2>3 DEF Proceeds, LogTypes, TypeOK, fileVars, Files
  <1>6. CASE Sleeps
    BY <1>6, <1>t DEF Sleeps, LogTypes, TypeOK, fileVars
  <1>7. CASE consume
    <2>1. CASE log.level < level /\ Handles(Dropped) /\ UNCHANGED ts
      <3>1. handled' \in Seq(Entries)
        BY <1>7, <1>t, <2>1, EntryAdded DEF consume
      <3>. QED
        BY <1>7, <1>t, <2>1, <3>1 DEF consume, Handles, LogTypes, TypeOK, fileVars, Files
    <2>2. CASE /\ ts' = today /\ cpc' = "date" /\ racing' = (setting # None)
               /\ UNCHANGED <<log, handled>>
      BY <1>7, <1>t, <2>2 DEF consume, LogTypes, TypeOK, fileVars, Files
    <2>. QED
      BY <1>7, <2>1, <2>2 DEF consume
  <1>8. CASE checkDate
    BY <1>8, <1>t DEF checkDate, NewDate, LogTypes, TypeOK, fileVars
  <1>9. CASE fprintf
    <2>1. CASE lf = stdout \/ lf \in open
      <3>1. handled' \in Seq(Entries)
        BY <1>9, <1>t, <2>1, EntryAdded DEF fprintf, LogTypes, TypeOK
      <3>. QED
        BY <1>9, <1>t, <2>1, <3>1 DEF fprintf, Handles, LogTypes, TypeOK, fileVars, Files
    <2>2. CASE ~(lf = stdout \/ lf \in open)
      BY <1>9, <1>t, <2>2 DEF fprintf, LogTypes, TypeOK, fileVars, Files
    <2>. QED
      BY <2>1, <2>2
  <1>10. CASE WakesUp
    BY <1>10, <1>t DEF WakesUp, LogTypes, TypeOK, fileVars
  <1>11. CASE RaceGoesWrong
    BY <1>11, <1>t DEF RaceGoesWrong, InConsume, LogTypes, TypeOK, fileVars
  <1>12. ASSUME NEW t \in {CONSOLE, FILE}, setTarget(t) PROVE LogTypes'
    <2>1. /\ setting' \in {None, CONSOLE, FILE} /\ racing' \in BOOLEAN
          /\ open' \subseteq Files /\ lf' \in Files \cup {stdout}
      BY <1>12, <1>t DEF setTarget, Closed, Standard, InConsume, LogTypes, TypeOK
    <2>2. calls' \in 0..MaxTargets
      BY <1>12, <1>t, LogAssumption DEF setTarget, Calls, LogTypes, TypeOK
    <2>. QED
      BY <1>12, <1>t, <2>1, <2>2 DEF setTarget, LogTypes, TypeOK
  <1>13. CASE setTargetReturns
    BY <1>13, <1>t DEF setTargetReturns, LogTypes, TypeOK, fileVars
  <1>14. ASSUME NEW l \in Levels, setLogLevel(l) PROVE LogTypes'
    <2>1. calls' \in 0..MaxTargets
      BY <1>14, <1>t, LogAssumption DEF setLogLevel, Calls, LogTypes, TypeOK
    <2>. QED
      BY <1>14, <1>t, <2>1 DEF setLogLevel, LogTypes, TypeOK, fileVars
  <1>15. CASE Garbo
    BY <1>15, <1>t DEF Garbo, Quiet, LogTypes, TypeOK, fileVars
  <1>16. CASE DestructorStops
    BY <1>16, <1>t DEF DestructorStops, LogTypes, TypeOK, fileVars
  <1>17. CASE DestructorNotifies
    BY <1>17, <1>t DEF DestructorNotifies, Notify, LogTypes, TypeOK, fileVars
  <1>18. CASE DestructorJoins
    BY <1>18, <1>t DEF DestructorJoins, LogTypes, TypeOK, fileVars
  <1>19. CASE Tomorrow
    <2>1. today' \in Files
      BY <1>19, <1>t, LogAssumption DEF Tomorrow, LogTypes, TypeOK, Files
    <2>. QED
      BY <1>19, <1>t, <2>1 DEF Tomorrow, LogTypes, TypeOK, fileVars
  <1>20. CASE UNCHANGED vars
    BY <1>20, <1>t DEF vars, LogTypes, TypeOK, fileVars
  <1>. QED
    BY <1>1, <1>2, <1>3, <1>4, <1>5, <1>6, <1>7, <1>8, <1>9, <1>10, <1>11, <1>12, <1>13,
       <1>14, <1>15, <1>16, <1>17, <1>18, <1>19, <1>20, LogSteps

(* Every step keeps the life cycle. *)
LEMMA LifeCycleKept == ASSUME LogKept, [Next]_vars PROVE LifeCycle'
  <1>t. /\ LifeCycle /\ upc \in [Users -> {"idle", "lock", "add", "notify", "done"}]
        /\ instance \in Nat /\ running \in BOOLEAN /\ logqueue \in Seq(Logs)
        /\ cpc \in {"none", "lock", "blocking", "waiting", "consume", "date", "print",
                     "exited", "undefined"}
        /\ gpc \in {"idle", "delete", "notify", "join", "gone"}
    BY DEF LogKept, LogTypes, TypeOK
  <1>1. ASSUME NEW u \in Users, ChecksInstance(u) PROVE LifeCycle'
    BY <1>1, <1>t DEF ChecksInstance, LifeCycle, OneInstance, Quiet, fileVars
  <1>2. ASSUME NEW u \in Users, getInstance(u) PROVE LifeCycle'
    BY <1>2, <1>t DEF getInstance, StillNull, StartDate, MutexFree, LifeCycle, OneInstance,
       Quiet, fileVars
  <1>3. ASSUME NEW u \in Users, addLog(u) PROVE LifeCycle'
    <2>1. upc[u] = "add" /\ upc' = [upc EXCEPT ![u] = "notify"]
          /\ UNCHANGED <<instance, gpc, cpc, running, log, setting>>
      BY <1>3 DEF addLog, AfterQueueing, fileVars
    <2>2. gpc = "idle" /\ instance = 1 /\ cpc # "exited"
      BY <1>t, <2>1 DEF LifeCycle, OneInstance, Quiet
    <2>. QED
      BY <1>t, <2>1, <2>2 DEF LifeCycle, OneInstance
  <1>4. ASSUME NEW u \in Users, Notifies(u) PROVE LifeCycle'
    BY <1>4, <1>t DEF Notifies, Notify, LifeCycle, OneInstance, Quiet, fileVars
  <1>5. CASE Proceeds
    <2>1. logqueue # <<>> => Head(logqueue) \in Logs
      BY <1>t
    <2>. QED
      BY <1>5, <1>t, <2>1, LogIsThere
         DEF Proceeds, MayExit, isIdle, LifeCycle, OneInstance, Quiet, fileVars
  <1>6. CASE Sleeps
    BY <1>6, <1>t DEF Sleeps, LifeCycle, OneInstance, Quiet, fileVars
  <1>7. CASE consume
    BY <1>7, <1>t DEF consume, Handles, LifeCycle, OneInstance, Quiet, fileVars
  <1>8. CASE checkDate
    BY <1>8, <1>t DEF checkDate, NewDate, LifeCycle, OneInstance, Quiet, fileVars
  <1>9. CASE fprintf
    BY <1>9, <1>t DEF fprintf, Handles, LifeCycle, OneInstance, Quiet, fileVars
  <1>10. CASE WakesUp
    BY <1>10, <1>t DEF WakesUp, LifeCycle, OneInstance, Quiet, fileVars
  <1>11. CASE RaceGoesWrong
    BY <1>11, <1>t DEF RaceGoesWrong, InConsume, LifeCycle, OneInstance, Quiet, fileVars
  <1>12. ASSUME NEW t \in {CONSOLE, FILE}, setTarget(t) PROVE LifeCycle'
    BY <1>12, <1>t DEF setTarget, Calls, Closed, Standard, InConsume, LifeCycle,
       OneInstance, Quiet, fileVars
  <1>13. CASE setTargetReturns
    BY <1>13, <1>t DEF setTargetReturns, LifeCycle, OneInstance, Quiet, fileVars
  <1>14. ASSUME NEW l \in Levels, setLogLevel(l) PROVE LifeCycle'
    BY <1>14, <1>t DEF setLogLevel, Calls, LifeCycle, OneInstance, Quiet, fileVars
  <1>15. CASE Garbo
    BY <1>15, <1>t DEF Garbo, Quiet, LifeCycle, OneInstance, fileVars
  <1>16. CASE DestructorStops
    BY <1>16, <1>t DEF DestructorStops, LifeCycle, OneInstance, Quiet, fileVars
  <1>17. CASE DestructorNotifies
    BY <1>17, <1>t DEF DestructorNotifies, Notify, LifeCycle, OneInstance, Quiet, fileVars
  <1>18. CASE DestructorJoins
    BY <1>18, <1>t DEF DestructorJoins, LifeCycle, OneInstance, Quiet, fileVars
  <1>19. CASE Tomorrow
    BY <1>19, <1>t DEF Tomorrow, LifeCycle, OneInstance, Quiet, fileVars
  <1>20. CASE UNCHANGED vars
    BY <1>20, <1>t DEF vars, LifeCycle, OneInstance, Quiet, fileVars
  <1>. QED
    BY <1>1, <1>2, <1>3, <1>4, <1>5, <1>6, <1>7, <1>8, <1>9, <1>10, <1>11, <1>12, <1>13,
       <1>14, <1>15, <1>16, <1>17, <1>18, <1>19, <1>20, LogSteps

(* Every step keeps the files and the target together. *)
LEMMA StreamsKept == ASSUME LogKept, [Next]_vars PROVE Streams'
  <1>t. /\ Streams /\ LifeCycle /\ instance \in Nat
        /\ target \in {CONSOLE, FILE} /\ currdate \in Files /\ ts \in Files /\ open \subseteq Files
        /\ lf \in Files \cup {stdout} /\ setting \in {None, CONSOLE, FILE} /\ racing \in BOOLEAN
    BY DEF LogKept, LogTypes, TypeOK
  <1>f. stdout \notin Files
    BY LogAssumption DEF stdout, Files
  <1>1. ASSUME NEW u \in Users, ChecksInstance(u) PROVE Streams'
    BY <1>1, <1>t, <1>f DEF ChecksInstance, Streams, StreamsMatch, ClosedByNobodyElse,
       FileTakenAway, InConsume, fileVars, None, FILE, CONSOLE
  <1>2. ASSUME NEW u \in Users, getInstance(u) PROVE Streams'
    BY <1>2, <1>t, <1>f DEF getInstance, StillNull, StartDate, MutexFree, Streams,
       StreamsMatch, ClosedByNobodyElse, FileTakenAway, InConsume, fileVars, None, FILE, CONSOLE,
       LifeCycle
  <1>3. ASSUME NEW u \in Users, addLog(u) PROVE Streams'
    BY <1>3, <1>t, <1>f DEF addLog, AfterQueueing, MutexFree, Streams, StreamsMatch,
       ClosedByNobodyElse, FileTakenAway, InConsume, fileVars, None, FILE, CONSOLE
  <1>4. ASSUME NEW u \in Users, Notifies(u) PROVE Streams'
    BY <1>4, <1>t, <1>f DEF Notifies, Notify, Streams, StreamsMatch, ClosedByNobodyElse,
       FileTakenAway, InConsume, fileVars, None, FILE, CONSOLE
  <1>5. CASE Proceeds
    BY <1>5, <1>t, <1>f DEF Proceeds, MayExit, Popped, isIdle, Streams, StreamsMatch,
       ClosedByNobodyElse, FileTakenAway, InConsume, fileVars, None, FILE, CONSOLE
  <1>6. CASE Sleeps
    BY <1>6, <1>t, <1>f DEF Sleeps, Streams, StreamsMatch, ClosedByNobodyElse, FileTakenAway,
       InConsume, fileVars, None, FILE, CONSOLE
  <1>7. CASE consume
    BY <1>7, <1>t, <1>f DEF consume, Handles, Streams, StreamsMatch, ClosedByNobodyElse,
       FileTakenAway, InConsume, fileVars, None, FILE, CONSOLE
  <1>8. CASE checkDate
    BY <1>8, <1>t, <1>f DEF checkDate, NewDate, Streams, StreamsMatch, ClosedByNobodyElse,
       FileTakenAway, InConsume, fileVars, None, FILE, CONSOLE
  <1>9. CASE fprintf
    BY <1>9, <1>t, <1>f DEF fprintf, Handles, Streams, StreamsMatch, ClosedByNobodyElse,
       FileTakenAway, InConsume, fileVars, None, FILE, CONSOLE
  <1>10. CASE WakesUp
    BY <1>10, <1>t, <1>f DEF WakesUp, Streams, StreamsMatch, ClosedByNobodyElse, FileTakenAway,
       InConsume, fileVars, None, FILE, CONSOLE
  <1>11. CASE RaceGoesWrong
    BY <1>11, <1>t, <1>f DEF RaceGoesWrong, InConsume, Streams, StreamsMatch,
       ClosedByNobodyElse, FileTakenAway, fileVars, None, FILE, CONSOLE
  <1>12. ASSUME NEW t \in {CONSOLE, FILE}, setTarget(t) PROVE Streams'
    <2>1. /\ gpc = "idle" /\ setting = None /\ target # t /\ instance # 0 /\ setting' = t
          /\ racing' = (racing \/ InConsume)
          /\ UNCHANGED <<instance, target, currdate, cpc, ts, gpc>>
      BY <1>12, <1>t DEF setTarget, Calls
    <2>2. CASE t = CONSOLE
      <3>1. target = FILE /\ open' = open \ {lf} /\ lf' = stdout /\ setting' = CONSOLE
        BY <1>12, <1>t, <2>1, <2>2 DEF setTarget, Closed, Standard, FILE, CONSOLE
      <3>. QED
        BY <1>t, <1>f, <2>1, <3>1 DEF Streams, StreamsMatch, ClosedByNobodyElse, FileTakenAway,
           InConsume, None, FILE, CONSOLE
    <2>3. CASE t = FILE
      <3>1. target = CONSOLE /\ open' = open \cup {currdate} /\ lf' = currdate /\ setting' = FILE
        BY <1>12, <1>t, <2>1, <2>3 DEF setTarget, FILE, CONSOLE
      <3>. QED
        BY <1>t, <1>f, <2>1, <3>1 DEF Streams, StreamsMatch, ClosedByNobodyElse, FileTakenAway,
           InConsume, None, FILE, CONSOLE
    <2>. QED
      BY <2>2, <2>3
  <1>13. CASE setTargetReturns
    <2>1. gpc = "idle"
      BY <1>13, <1>t DEF setTargetReturns, LifeCycle
    <2>. QED
      BY <1>13, <1>t, <1>f, <2>1 DEF setTargetReturns, Streams, StreamsMatch, ClosedByNobodyElse,
       FileTakenAway, InConsume, fileVars, None, FILE, CONSOLE
  <1>14. ASSUME NEW l \in Levels, setLogLevel(l) PROVE Streams'
    BY <1>14, <1>t, <1>f DEF setLogLevel, Calls, Streams, StreamsMatch, ClosedByNobodyElse,
       FileTakenAway, InConsume, fileVars, None, FILE, CONSOLE
  <1>15. CASE Garbo
    BY <1>15, <1>t, <1>f DEF Garbo, Quiet, Streams, StreamsMatch, ClosedByNobodyElse, FileTakenAway,
       InConsume, fileVars, None, FILE, CONSOLE
  <1>16. CASE DestructorStops
    BY <1>16, <1>t, <1>f DEF DestructorStops, Streams, StreamsMatch, ClosedByNobodyElse,
       FileTakenAway, InConsume, fileVars, None, FILE, CONSOLE
  <1>17. CASE DestructorNotifies
    BY <1>17, <1>t, <1>f DEF DestructorNotifies, Notify, Streams, StreamsMatch,
       ClosedByNobodyElse, FileTakenAway, InConsume, fileVars, None, FILE, CONSOLE
  <1>18. CASE DestructorJoins
    BY <1>18, <1>t, <1>f DEF DestructorJoins, Streams, StreamsMatch, ClosedByNobodyElse,
       FileTakenAway, InConsume, fileVars, None, FILE, CONSOLE
  <1>19. CASE Tomorrow
    BY <1>19, <1>t, <1>f DEF Tomorrow, Streams, StreamsMatch, ClosedByNobodyElse, FileTakenAway,
       InConsume, fileVars, None, FILE, CONSOLE
  <1>20. CASE UNCHANGED vars
    BY <1>20, <1>t, <1>f DEF vars, Streams, StreamsMatch, ClosedByNobodyElse, FileTakenAway,
       InConsume, fileVars, None, FILE, CONSOLE
  <1>. QED
    BY <1>1, <1>2, <1>3, <1>4, <1>5, <1>6, <1>7, <1>8, <1>9, <1>10, <1>11, <1>12, <1>13,
       <1>14, <1>15, <1>16, <1>17, <1>18, <1>19, <1>20, LogSteps

-----------------------------------------------------------------------------
(* The order of the logs.                                                  *)

(* The logs that consume() has done with, and the one that it is given.    *)
Done == [i \in 1..Len(handled) |-> handled[i].log]
Now == IF log = NoLog THEN <<>> ELSE <<log>>

(* A log at the end of a queue is at the end of what comes before it too. *)
LEMMA AppendAfter ==
    ASSUME NEW s \in Seq(Logs), NEW q \in Seq(Logs), NEW e \in Logs
    PROVE  Append(s \o q, e) = s \o Append(q, e)
  <1>1. s \o q \in Seq(Logs) /\ <<e>> \in Seq(Logs)
    BY ConcatProperties
  <1>2. Append(s \o q, e) = (s \o q) \o <<e>>
    BY <1>1, AppendIsConcat
  <1>3. Append(q, e) = q \o <<e>>
    BY AppendIsConcat
  <1>. QED
    BY <1>1, <1>2, <1>3, ConcatAssociative

(* A queue is its first log and the others. *)
LEMMA FirstAndRest ==
    ASSUME NEW S, NEW q \in Seq(S), q # <<>>
    PROVE  /\ Head(q) \in S /\ Tail(q) \in Seq(S)
           /\ q = <<Head(q)>> \o Tail(q)
  <1>1. /\ Head(q) \in S /\ Tail(q) \in Seq(S) /\ Head(q) = q[1]
        /\ Len(Tail(q)) = Len(q) - 1 /\ \A i \in 1..Len(Tail(q)) : Tail(q)[i] = q[i + 1]
    BY HeadTailProperties
  <1>2. PICK n \in Nat : n = Len(q) /\ n > 0
    BY EmptySeq
  <1>3. PICK a \in S : a = Head(q)
    BY <1>1
  <1>4. <<a>> \in Seq(S) /\ Len(<<a>>) = 1 /\ <<a>>[1] = a
    OBVIOUS
  <1>5. /\ <<a>> \o Tail(q) \in Seq(S)
        /\ Len(<<a>> \o Tail(q)) = Len(<<a>>) + Len(Tail(q))
        /\ \A i \in 1..(Len(<<a>>) + Len(Tail(q))) :
              (<<a>> \o Tail(q))[i] = IF i <= Len(<<a>>) THEN <<a>>[i] ELSE Tail(q)[i - Len(<<a>>)]
    BY <1>1, <1>4, ConcatProperties
  <1>d. DEFINE whole == <<a>> \o Tail(q)
  <1>6. /\ whole \in Seq(S) /\ Len(whole) = n
        /\ \A i \in 1..n : whole[i] = IF i <= 1 THEN a ELSE Tail(q)[i - 1]
    BY <1>1, <1>2, <1>4, <1>5
  <1>h. HIDE DEF whole
  <1>7. ASSUME NEW i \in 1..n PROVE q[i] = whole[i]
    <2>1. whole[i] = IF i <= 1 THEN a ELSE Tail(q)[i - 1]
      BY <1>6
    <2>2. CASE i = 1
      BY <1>1, <1>3, <2>1, <2>2
    <2>3. CASE i > 1
      <3>1. i - 1 \in 1..Len(Tail(q)) /\ (i - 1) + 1 = i
        BY <1>1, <1>2, <2>3
      <3>2. Tail(q)[i - 1] = q[(i - 1) + 1]
        BY <1>1, <3>1
      <3>. QED
        BY <2>1, <2>3, <3>1, <3>2
    <2>. QED
      BY <2>2, <2>3
  <1>8. q = whole
    BY <1>2, <1>6, <1>7, SeqEqual
  <1>. QED
    BY <1>1, <1>3, <1>8 DEF whole

(* The logs of the history make a sequence. *)
LEMMA DoneTypes == ASSUME LogTypes PROVE Done \in Seq(Logs) /\ Len(Done) = Len(handled)
  <1>1. handled \in Seq(Entries)
    BY DEF LogTypes
  <1>2. PICK n \in Nat : n = Len(handled)
    BY <1>1
  <1>3. ASSUME NEW i \in 1..n PROVE handled[i].log \in Logs
    <2>1. handled[i] \in Entries
      BY <1>1, <1>2
    <2>. QED
      BY <2>1 DEF Entries
  <1>4. Done = [i \in 1..n |-> handled[i].log]
    BY <1>2 DEF Done
  <1>. QED
    BY <1>2, <1>3, <1>4

(* When consume() returns, its log is the last of those done with. *)
LEMMA DoneGrows ==
    ASSUME LogTypes, log \in Logs, NEW where, Handles(where)
    PROVE  Done' = Append(Done, log) /\ Now = <<log>> /\ Now' = <<>>
  <1>d. DEFINE e == [log |-> log, lf |-> where, date |-> ts, file |-> target # CONSOLE,
                     racing |-> racing]
  <1>1. handled' = Append(handled, e) /\ log' = NoLog /\ e.log = log
    BY DEF Handles
  <1>h. HIDE DEF e
  <1>2. Now = <<log>> /\ Now' = <<>>
    BY <1>1, LogIsThere DEF Now
  <1>3. Done \in Seq(Logs) /\ Len(Done) = Len(handled) /\ Len(handled) \in Nat
    BY DoneTypes DEF LogTypes
  <1>4. PICK n \in Nat : n = Len(handled)
    BY <1>3
  <1>5. handled \in Seq(Entries)
    BY DEF LogTypes
  <1>6. Len(handled') = n + 1 /\ handled'[n + 1] = e
        /\ \A i \in 1..n : handled'[i] = handled[i]
    BY <1>1, <1>4, <1>5
  <1>7. Done' = [i \in 1..(n + 1) |-> handled'[i].log]
    BY <1>6 DEF Done
  <1>8. Append(Done, log) \in Seq(Logs) /\ Len(Append(Done, log)) = n + 1
        /\ Append(Done, log)[n + 1] = log
        /\ \A i \in 1..n : Append(Done, log)[i] = Done[i]
    BY <1>3, <1>4, AppendProperties
  <1>9. ASSUME NEW i \in 1..(n + 1)
        PROVE  Done'[i] = Append(Done, log)[i]
    <2>1. CASE i = n + 1
      BY <1>1, <1>6, <1>7, <1>8, <2>1
    <2>2. CASE i # n + 1
      <3>1. i \in 1..n
        BY <2>2
      <3>2. Done[i] = handled[i].log
        BY <1>4, <3>1 DEF Done
      <3>. QED
        BY <1>6, <1>7, <1>8, <3>1, <3>2
    <2>. QED
      BY <2>1, <2>2
  <1>10. \A i \in 1..(n + 1) : Done'[i] \in Logs
    BY <1>8, <1>9
  <1>11. Done' \in Seq(Logs) /\ Len(Done') = n + 1
    BY <1>7, <1>10
  <1>12. Done' = Append(Done, log)
    BY <1>8, <1>9, <1>11, SeqEqual
  <1>. QED
    BY <1>2, <1>12

(* OnceInOrder in terms of the two. *)
LEMMA OnceInOrderMeans == OnceInOrder <=> added = Done \o Now \o logqueue
  BY DEF OnceInOrder, Done, Now

(* A step that leaves the logs where they are. *)
LEMMA LogsStay ==
    ASSUME OnceInOrder, UNCHANGED <<added, handled, log, logqueue>>
    PROVE  OnceInOrder'
  BY DEF OnceInOrder

(* Every step keeps the order. *)
LEMMA OrderKept == ASSUME LogKept, OnceInOrder, [Next]_vars PROVE OnceInOrder'
  <1>t. /\ LogTypes /\ logqueue \in Seq(Logs) /\ Done \in Seq(Logs)
        /\ log \in Logs \cup {NoLog}
    BY DoneTypes DEF LogKept, LogTypes, TypeOK
  <1>n. Now \in Seq(Logs)
    BY <1>t DEF Now
  <1>s. /\ cpc = "lock" => log = NoLog
        /\ cpc \in {"consume", "date", "print"} => log \in Logs
    BY DEF LogKept, LifeCycle
  <1>a. added = Done \o Now \o logqueue /\ Done \o Now \in Seq(Logs)
    BY <1>t, <1>n, OnceInOrderMeans, ConcatProperties
  <1>1. ASSUME NEW u \in Users, addLog(u) PROVE OnceInOrder'
    <2>1. PICK e \in Logs : /\ logqueue' = Append(logqueue, e)
                            /\ added' = Append(added, e)
      <3>1. PICK l \in Levels : /\ logqueue' = Append(logqueue, [by |-> u, level |-> l])
                                /\ added' = Append(added, [by |-> u, level |-> l])
        BY <1>1 DEF addLog
      <3>. QED
        BY <3>1 DEF Logs
    <2>2. UNCHANGED <<handled, log>>
      BY <1>1 DEF addLog
    <2>3. Append(Done \o Now \o logqueue, e) = Done \o Now \o Append(logqueue, e)
      <3>1. PICK before \in Seq(Logs) : before = Done \o Now
        BY <1>a
      <3>2. PICK q \in Seq(Logs) : q = logqueue
        BY <1>t
      <3>3. Append(before \o q, e) = before \o Append(q, e)
        BY AppendAfter, Zenon
      <3>. QED
        BY <3>1, <3>2, <3>3
    <2>4. added' = Done \o Now \o logqueue'
      BY <1>a, <2>1, <2>3
    <2>5. Done' = Done /\ Now' = Now
      BY <2>2 DEF Done, Now
    <2>6. added' = Done' \o Now' \o logqueue'
      BY <2>4, <2>5
    <2>. QED
      BY <2>6 DEF OnceInOrder, Done, Now
  <1>2. CASE Proceeds
    <2>1. CASE MayExit
      BY <1>2, <2>1, LogsStay DEF Proceeds
    <2>2. CASE ~MayExit
      <3>1. /\ log = NoLog /\ logqueue # <<>> /\ log' = Head(logqueue)
            /\ logqueue' = Tail(logqueue) /\ UNCHANGED <<added, handled>>
        BY <1>2, <1>s, <2>2 DEF Proceeds, MayExit, isIdle, Popped
      <3>2. /\ Head(logqueue) \in Logs /\ Tail(logqueue) \in Seq(Logs)
            /\ logqueue = <<Head(logqueue)>> \o Tail(logqueue)
        BY <1>t, <3>1, FirstAndRest
      <3>3. Now = <<>> /\ Now' = <<Head(logqueue)>> /\ Done' = Done
        BY <3>1, <3>2, LogIsThere DEF Now, Done
      <3>4. PICK one \in Seq(Logs) : one = <<Head(logqueue)>>
        <4>1. PICK a \in Logs : a = Head(logqueue)
          BY <3>2
        <4>2. <<a>> \in Seq(Logs)
          OBVIOUS
        <4>. QED
          BY <4>1, <4>2
      <3>5. Done \o Now = Done
        BY <1>t, <3>3, ConcatEmptySeq
      <3>6. Done \o logqueue = (Done \o one) \o Tail(logqueue)
        BY <1>t, <3>2, <3>4, ConcatAssociative
      <3>. QED
        BY <1>a, <3>1, <3>3, <3>4, <3>5, <3>6 DEF OnceInOrder, Done, Now
    <2>. QED
      BY <2>1, <2>2
  <1>3. ASSUME NEW where, Handles(where), log \in Logs, UNCHANGED <<added, logqueue>>
        PROVE  OnceInOrder'
    <2>1. Done' = Append(Done, log) /\ Now = <<log>> /\ Now' = <<>>
      BY <1>t, <1>3, DoneGrows
    <2>2. Append(Done, log) \in Seq(Logs) /\ Append(Done, log) = Done \o <<log>>
      BY <1>t, <1>3, AppendIsConcat, AppendProperties
    <2>3. Done' \o Now' = Done \o Now
      BY <2>1, <2>2, ConcatEmptySeq
    <2>. QED
      BY <1>3, <1>a, <2>3 DEF OnceInOrder, Done, Now
  <1>4. CASE consume
    <2>1. UNCHANGED <<added, logqueue>> /\ log \in Logs
      BY <1>4, <1>s DEF consume
    <2>2. Handles(Dropped) \/ UNCHANGED <<log, handled>>
      BY <1>4 DEF consume
    <2>. QED
      BY <1>3, <2>1, <2>2, LogsStay
  <1>5. CASE fprintf
    <2>1. UNCHANGED <<added, logqueue>> /\ log \in Logs
      BY <1>5, <1>s DEF fprintf
    <2>2. Handles(lf) \/ UNCHANGED <<log, handled>>
      BY <1>5 DEF fprintf
    <2>. QED
      BY <1>3, <2>1, <2>2, LogsStay
  <1>6. ASSUME NEW u \in Users, ChecksInstance(u) \/ getInstance(u) \/ Notifies(u)
        PROVE  OnceInOrder'
    BY <1>6, LogsStay DEF ChecksInstance, getInstance, Notifies
  <1>7. ASSUME NEW t \in {CONSOLE, FILE}, setTarget(t) PROVE OnceInOrder'
    BY <1>7, LogsStay DEF setTarget
  <1>8. ASSUME NEW l \in Levels, setLogLevel(l) PROVE OnceInOrder'
    BY <1>8, LogsStay DEF setLogLevel
  <1>9. CASE Sleeps \/ checkDate \/ WakesUp \/ RaceGoesWrong \/ setTargetReturns
    BY <1>9, LogsStay DEF Sleeps, checkDate, WakesUp, RaceGoesWrong, setTargetReturns
  <1>10. CASE Garbo \/ DestructorStops \/ DestructorNotifies \/ DestructorJoins \/ Tomorrow
    BY <1>10, LogsStay DEF Garbo, DestructorStops, DestructorNotifies, DestructorJoins, Tomorrow
  <1>11. CASE UNCHANGED vars
    BY <1>11, LogsStay DEF vars
  <1>. QED
    BY <1>1, <1>2, <1>4, <1>5, <1>6, <1>7, <1>8, <1>9, <1>10, <1>11, LogSteps

(* When the consumer has gone, every log is done with. *)
LEMMA NothingLeft == ASSUME LogKept, OnceInOrder PROVE NoLogStranded
  <1>. SUFFICES ASSUME cpc = "exited" PROVE Len(handled) = Len(added)
    BY DEF NoLogStranded
  <1>1. log = NoLog /\ logqueue = <<>> /\ Done \in Seq(Logs) /\ Len(Done) = Len(handled)
    BY DoneTypes DEF LogKept, LifeCycle
  <1>2. Now = <<>> /\ added = Done \o Now \o logqueue
    BY <1>1, OnceInOrderMeans DEF Now
  <1>3. Done \o <<>> = Done
    BY <1>1, ConcatEmptySeq
  <1>4. added = Done
    BY <1>1, <1>2, <1>3
  <1>. QED
    BY <1>1, <1>4

-----------------------------------------------------------------------------
(* The file that a log is printed on.                                      *)

(* An entry that consume() adds has the right file. *)
LEMMA RightFileKept == ASSUME LogKept, RightFile, [Next]_vars PROVE RightFile'
  <1>t. /\ handled \in Seq(Entries) /\ target \in {CONSOLE, FILE}
        /\ cpc = "print" /\ ~racing /\ target = FILE => lf = ts
    BY DEF LogKept, LogTypes, TypeOK, Streams
  <1>1. ASSUME NEW where, Handles(where), where # Dropped => cpc = "print" /\ where = lf
        PROVE  RightFile'
    <2>d. DEFINE e == [log |-> log, lf |-> where, date |-> ts, file |-> target # CONSOLE,
                       racing |-> racing]
    <2>1. handled' = Append(handled, e)
      BY <1>1 DEF Handles
    <2>2. e.file /\ e.lf # Dropped /\ ~e.racing => e.lf = e.date
      BY <1>1, <1>t DEF FILE, CONSOLE
    <2>h. HIDE DEF e
    <2>3. ASSUME NEW i \in 1..Len(handled')
          PROVE  handled'[i] = e \/ (i \in 1..Len(handled) /\ handled'[i] = handled[i])
      BY <1>t, <2>1
    <2>. QED
      BY <2>2, <2>3 DEF RightFile
  <1>2. CASE UNCHANGED handled
    BY <1>2 DEF RightFile
  <1>3. CASE consume
    BY <1>1, <1>2, <1>3 DEF consume
  <1>4. CASE fprintf
    BY <1>1, <1>2, <1>4 DEF fprintf
  <1>5. ASSUME NEW u \in Users, ChecksInstance(u) \/ getInstance(u) \/ addLog(u) \/ Notifies(u)
        PROVE  RightFile'
    BY <1>2, <1>5 DEF ChecksInstance, getInstance, addLog, Notifies
  <1>6. ASSUME NEW t \in {CONSOLE, FILE}, setTarget(t) PROVE RightFile'
    BY <1>2, <1>6 DEF setTarget
  <1>7. ASSUME NEW l \in Levels, setLogLevel(l) PROVE RightFile'
    BY <1>2, <1>7 DEF setLogLevel
  <1>8. CASE Proceeds \/ Sleeps \/ checkDate \/ WakesUp \/ RaceGoesWrong \/ setTargetReturns
    BY <1>2, <1>8 DEF Proceeds, Sleeps, checkDate, WakesUp, RaceGoesWrong, setTargetReturns
  <1>9. CASE Garbo \/ DestructorStops \/ DestructorNotifies \/ DestructorJoins \/ Tomorrow
    BY <1>2, <1>9 DEF Garbo, DestructorStops, DestructorNotifies, DestructorJoins, Tomorrow
  <1>10. CASE UNCHANGED vars
    BY <1>2, <1>10 DEF vars
  <1>. QED
    BY <1>3, <1>4, <1>5, <1>6, <1>7, <1>8, <1>9, <1>10, LogSteps

-----------------------------------------------------------------------------
(* What AsyncLog promises.                                                 *)

(* The three together are inductive. *)
LEMMA LogKeptAlways == Spec => [](LogKept /\ OnceInOrder /\ RightFile)
  <1>1. Init => LogKept /\ OnceInOrder /\ RightFile
    <2>. SUFFICES ASSUME Init PROVE OnceInOrder /\ RightFile
      BY LogInit
    <2>1. handled = <<>> /\ log = NoLog /\ logqueue = <<>> /\ added = <<>> /\ LogTypes
      BY LogInit DEF Init, LogKept
    <2>2. Done \in Seq(Logs) /\ Len(Done) = 0 /\ Now = <<>>
      BY <2>1, DoneTypes DEF Now
    <2>3. Done = <<>> /\ Done \o <<>> = Done
      BY <2>2, ConcatEmptySeq
    <2>4. OnceInOrder
      BY <2>1, <2>2, <2>3, OnceInOrderMeans
    <2>5. RightFile
      BY <2>1 DEF RightFile
    <2>. QED
      BY <2>4, <2>5
  <1>2. LogKept /\ OnceInOrder /\ RightFile /\ [Next]_vars
          => (LogKept /\ OnceInOrder /\ RightFile)'
    BY LogTypesKept, LifeCycleKept, StreamsKept, OrderKept, RightFileKept DEF LogKept
  <1>. QED
    BY <1>1, <1>2, PTL DEF Spec

(* There is one AsyncLog, a consumer that returns leaves no log behind,    *)
(* and while the program runs log files are not leaked; none is used after *)
(* it was closed, but for an overlapping setTarget and an exit with the    *)
(* target FILE.                                                            *)
THEOREM LogCorrect == Spec => []LogInv
  <1>1. LogKept /\ OnceInOrder /\ RightFile => LogInv
    BY NothingLeft DEF LogKept, LogTypes, LifeCycle, Streams, LogInv
  <1>. QED
    BY <1>1, LogKeptAlways, PTL

(* Every log that is queued is handled once, in the order of the queue.    *)
THEOREM LogsHandledInOrder == Spec => []OnceInOrder
  BY LogKeptAlways, PTL

(* A log that is printed to a file goes to the one of its date.            *)
THEOREM LogsInTheirFile == Spec => []RightFile
  BY LogKeptAlways, PTL
=============================================================================
