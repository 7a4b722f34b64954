-------------------------- MODULE ThreadPool_proofs -------------------------
(***************************************************************************)
(* Proof that PoolInv is an invariant of ThreadPool, for any number of     *)
(* workers and submitters, and with it that no worker sleeps on queued     *)
(* work that nobody will bring to it, and that no early task is left       *)
(* behind.                                                                 *)
(***************************************************************************)
EXTENDS ThreadPool, TLAPS, SequenceTheorems

(* The elements of a queue after a push and after a pop, as addTask and    *)
(* take() do them.                                                         *)
LEMMA QueueElements ==
    ASSUME NEW S, NEW q \in Seq(S)
    PROVE  /\ Range(q) \subseteq S
           /\ \A s \in S : Range(Append(q, s)) = Range(q) \cup {s}
           /\ q # <<>> => /\ Head(q) \in S /\ Tail(q) \in Seq(S)
                          /\ Range(q) = Range(Tail(q)) \cup {Head(q)}
           /\ q = <<>> => Range(q) = {}
  <1>1. Range(q) \subseteq S
    BY DEF Range
  <1>2. ASSUME NEW s \in S PROVE Range(Append(q, s)) = Range(q) \cup {s}
    <2>1. /\ DOMAIN Append(q, s) = 1..(Len(q) + 1)
          /\ DOMAIN q = 1..Len(q)
          /\ Len(q) \in Nat
          /\ Append(q, s)[Len(q) + 1] = s
          /\ \A i \in 1..Len(q) : Append(q, s)[i] = q[i]
      OBVIOUS
    <2>2. ASSUME NEW x \in Range(Append(q, s)) PROVE x \in Range(q) \cup {s}
      BY <2>1, <2>2 DEF Range
    <2>3. ASSUME NEW x \in Range(q) PROVE x \in Range(Append(q, s))
      <3>1. PICK i \in 1..Len(q) : x = q[i]
        BY <2>1, <2>3 DEF Range
      <3>2. x = Append(q, s)[i] /\ i \in DOMAIN Append(q, s)
        BY <2>1, <3>1
      <3>. QED
        BY <3>2 DEF Range
    <2>4. s \in Range(Append(q, s))
      <3>1. Len(q) + 1 \in DOMAIN Append(q, s)
        BY <2>1
      <3>. QED
        BY <2>1, <3>1 DEF Range
    <2>. QED
      BY <2>2, <2>3, <2>4
  <1>3. ASSUME q # <<>>
        PROVE  /\ Head(q) \in S /\ Tail(q) \in Seq(S)
               /\ Range(q) = Range(Tail(q)) \cup {Head(q)}
    <2>1. /\ Head(q) \in S /\ Tail(q) \in Seq(S)
          /\ Len(q) \in Nat \ {0} /\ DOMAIN q = 1..Len(q)
          /\ Head(q) = q[1]
          /\ DOMAIN Tail(q) = 1..(Len(q) - 1)
          /\ \A i \in 1..(Len(q) - 1) : Tail(q)[i] = q[i + 1]
      BY <1>3
    <2>2. ASSUME NEW x \in Range(q) PROVE x \in Range(Tail(q)) \cup {Head(q)}
      <3>1. PICK i \in 1..Len(q) : x = q[i]
        BY <2>1, <2>2 DEF Range
      <3>2. CASE i = 1
        BY <2>1, <3>1, <3>2
      <3>3. CASE i # 1
        <4>1. i - 1 \in DOMAIN Tail(q) /\ Tail(q)[i - 1] = x
          BY <2>1, <3>1, <3>3
        <4>. QED
          BY <4>1 DEF Range
      <3>. QED
        BY <3>2, <3>3
    <2>3. ASSUME NEW x \in Range(Tail(q)) PROVE x \in Range(q)
      <3>1. PICK i \in 1..(Len(q) - 1) : x = Tail(q)[i]
        BY <2>1, <2>3 DEF Range
      <3>2. i + 1 \in DOMAIN q /\ q[i + 1] = x
        BY <2>1, <3>1
      <3>. QED
        BY <3>2 DEF Range
    <2>4. Head(q) \in Range(q)
      <3>1. 1 \in DOMAIN q
        BY <2>1
      <3>. QED
        BY <2>1, <3>1 DEF Range
    <2>. QED
      BY <2>1, <2>2, <2>3, <2>4
  <1>4. ASSUME q = <<>> PROVE Range(q) = {}
    <2>1. DOMAIN q = {}
      BY <1>4
    <2>. QED
      BY <2>1 DEF Range
  <1>. QED
    BY <1>1, <1>2, <1>3, <1>4

(* The initial state satisfies the invariant. *)
LEMMA PoolInit == Init => PoolInv
  <1>. SUFFICES ASSUME Init PROVE PoolInv
    OBVIOUS
  <1>1. TypeOK
    <2>1. running \in BOOLEAN /\ addable \in BOOLEAN
      BY Zenon DEF Init
    <2>2. taskqueue \in Seq(Submitters)
      BY DEF Init
    <2>3. /\ mtx \in Workers \cup {Nobody}
          /\ task \in [Workers -> Submitters \cup {Nobody}]
          /\ early \subseteq Submitters /\ done \subseteq Submitters
      BY DEF Init
    <2>4. /\ wpc \in [Workers -> {"none", "lock", "blocking", "waiting", "task", "exited"}]
          /\ spc \in [Submitters -> {"idle", "adding", "notify", "added", "refused"}]
          /\ dpc \in {"idle", "stopping", "stopped"}
          /\ opc \in {"made", "running", "joining", "gone"}
      BY DEF Init
    <2>. QED
      BY <2>1, <2>2, <2>3, <2>4 DEF TypeOK
  <1>2. MutexHeld /\ MutexFree /\ TaskHeld /\ NotStarted
    BY DEF Init, MutexHeld, MutexFree, TaskHeld, NotStarted
  <1>3. NoSleepOnWork
    BY DEF Init, NoSleepOnWork, isIdle
  <1>4. EarlyAccounted /\ Submitted
    <2>1. taskqueue \in Seq(Submitters) /\ taskqueue = <<>>
      BY <1>1 DEF Init, TypeOK
    <2>2. Range(taskqueue) = {}
      BY <2>1, QueueElements
    <2>3. early = {}
      BY DEF Init
    <2>. QED
      BY <2>2, <2>3 DEF EarlyAccounted, Submitted
  <1>5. ExitClean
    BY DEF Init, ExitClean
  <1>. QED
    BY <1>1, <1>2, <1>3, <1>4, <1>5 DEF PoolInv

(* Every step of every thread keeps the types. *)
LEMMA PoolType == PoolInv /\ [Next]_vars => TypeOK'
  <1>. SUFFICES ASSUME TypeOK, TaskHeld, [Next]_vars PROVE TypeOK'
    BY DEF PoolInv
  <1>q. taskqueue # <<>> => /\ Head(taskqueue) \in Submitters
                            /\ Tail(taskqueue) \in Seq(Submitters)
    BY QueueElements DEF TypeOK
  <1>r. Range(taskqueue) \subseteq Submitters
    BY QueueElements DEF TypeOK
  <1>1. ASSUME NEW w \in Workers, Proceeds(w) PROVE TypeOK'
    BY <1>1, <1>q DEF TypeOK, Proceeds, MayExit, isIdle
  <1>2. ASSUME NEW w \in Workers, FindsNothing(w) PROVE TypeOK'
    BY <1>2 DEF TypeOK, FindsNothing
  <1>3. ASSUME NEW w \in Workers, Blocks(w) PROVE TypeOK'
    BY <1>3 DEF TypeOK, Blocks
  <1>4. ASSUME NEW w \in Workers, WakesUp(w) PROVE TypeOK'
    BY <1>4 DEF TypeOK, WakesUp, Waiting
  <1>5. ASSUME NEW w \in Workers, RunsTask(w) PROVE TypeOK'
    BY <1>5 DEF TypeOK, RunsTask, TaskHeld
  <1>6. ASSUME NEW s \in Submitters, ChecksAddable(s) PROVE TypeOK'
    BY <1>6 DEF TypeOK, ChecksAddable
  <1>7. ASSUME NEW s \in Submitters, AddsTask(s) PROVE TypeOK'
    <2>a. Append(taskqueue, s) \in Seq(Submitters) /\ taskqueue \in Seq(Submitters)
      BY AppendProperties DEF TypeOK
    <2>b. taskqueue' = taskqueue \/ taskqueue' = Append(taskqueue, s)
      BY <1>7, Zenon DEF AddsTask
    <2>c. early' \subseteq early \cup {s} /\ done' \subseteq done \cup {s}
      BY <1>7 DEF AddsTask
    <2>1. /\ taskqueue' \in Seq(Submitters)
          /\ early' \subseteq Submitters /\ done' \subseteq Submitters
      BY <2>a, <2>b, <2>c, Zenon DEF TypeOK
    <2>2. spc' \in [Submitters -> {"idle", "adding", "notify", "added", "refused"}]
      BY <1>7 DEF TypeOK, AddsTask, AfterQueueing
    <2>3. UNCHANGED <<running, addable, mtx, wpc, task, dpc, opc>>
      BY <1>7 DEF AddsTask
    <2>. QED
      BY <2>1, <2>2, <2>3 DEF TypeOK
  <1>8. ASSUME NEW s \in Submitters, Notifies(s) PROVE TypeOK'
    BY <1>8 DEF TypeOK, Notifies, NotifyOne, Waiting
  <1>9. CASE run
    BY <1>9, <1>r DEF TypeOK, run
  <1>10. CASE shutdownAddable
    BY <1>10 DEF TypeOK, shutdownAddable
  <1>11. CASE shutdownRunning
    BY <1>11 DEF TypeOK, shutdownRunning
  <1>12. CASE DestructorNotifies
    BY <1>12 DEF TypeOK, DestructorNotifies
  <1>13. CASE DestructorJoins
    BY <1>13 DEF TypeOK, DestructorJoins
  <1>14. CASE UNCHANGED vars
    BY <1>14 DEF TypeOK, vars
  <1>. QED
    BY <1>1, <1>2, <1>3, <1>4, <1>5, <1>6, <1>7, <1>8, <1>9, <1>10, <1>11, <1>12, <1>13, <1>14
    DEF Next, Worker, Submitter, Owner, Terminated

(* The mutex and the queue: while a worker is between its predicate and    *)
(* its sleep, nothing is queued.                                           *)
LEMMA PoolMutex ==
    PoolInv /\ [Next]_vars => MutexHeld' /\ MutexFree' /\ TaskHeld' /\ NotStarted'
  <1>. SUFFICES ASSUME TypeOK, MutexHeld, MutexFree, TaskHeld, NotStarted, [Next]_vars
                PROVE  MutexHeld' /\ MutexFree' /\ TaskHeld' /\ NotStarted'
    BY DEF PoolInv
  <1>q. taskqueue # <<>> => Head(taskqueue) \in Submitters
    BY QueueElements DEF TypeOK
  <1>. USE PoolAssumption
  <1>1. ASSUME NEW w \in Workers, Proceeds(w)
        PROVE  MutexHeld' /\ MutexFree' /\ TaskHeld' /\ NotStarted'
    BY <1>1, <1>q DEF TypeOK, MutexHeld, MutexFree, TaskHeld, NotStarted, isIdle, Proceeds, MayExit
  <1>2. ASSUME NEW w \in Workers, FindsNothing(w)
        PROVE  MutexHeld' /\ MutexFree' /\ TaskHeld' /\ NotStarted'
    BY <1>2 DEF TypeOK, MutexHeld, MutexFree, TaskHeld, NotStarted, isIdle, FindsNothing
  <1>3. ASSUME NEW w \in Workers, Blocks(w)
        PROVE  MutexHeld' /\ MutexFree' /\ TaskHeld' /\ NotStarted'
    BY <1>3 DEF TypeOK, MutexHeld, MutexFree, TaskHeld, NotStarted, isIdle, Blocks
  <1>4. ASSUME NEW w \in Workers, WakesUp(w)
        PROVE  MutexHeld' /\ MutexFree' /\ TaskHeld' /\ NotStarted'
    BY <1>4 DEF TypeOK, MutexHeld, MutexFree, TaskHeld, NotStarted, isIdle, WakesUp, Waiting
  <1>5. ASSUME NEW w \in Workers, RunsTask(w)
        PROVE  MutexHeld' /\ MutexFree' /\ TaskHeld' /\ NotStarted'
    BY <1>5 DEF TypeOK, MutexHeld, MutexFree, TaskHeld, NotStarted, isIdle, RunsTask
  <1>6. ASSUME NEW s \in Submitters, ChecksAddable(s)
        PROVE  MutexHeld' /\ MutexFree' /\ TaskHeld' /\ NotStarted'
    BY <1>6 DEF TypeOK, MutexHeld, MutexFree, TaskHeld, NotStarted, isIdle, ChecksAddable
  <1>7. ASSUME NEW s \in Submitters, AddsTask(s)
        PROVE  MutexHeld' /\ MutexFree' /\ TaskHeld' /\ NotStarted'
    BY <1>7 DEF TypeOK, MutexHeld, MutexFree, TaskHeld, NotStarted, isIdle, AddsTask, MayQueue,
               AfterQueueing
  <1>8. ASSUME NEW s \in Submitters, Notifies(s)
        PROVE  MutexHeld' /\ MutexFree' /\ TaskHeld' /\ NotStarted'
    BY <1>8 DEF TypeOK, MutexHeld, MutexFree, TaskHeld, NotStarted, isIdle, Notifies, NotifyOne,
               Waiting
  <1>9. CASE run
    BY <1>9 DEF TypeOK, MutexHeld, MutexFree, TaskHeld, NotStarted, isIdle, run
  <1>10. CASE shutdownAddable
    BY <1>10 DEF TypeOK, MutexHeld, MutexFree, TaskHeld, NotStarted, isIdle, shutdownAddable
  <1>11. CASE shutdownRunning
    BY <1>11 DEF TypeOK, MutexHeld, MutexFree, TaskHeld, NotStarted, isIdle, shutdownRunning
  <1>12. CASE DestructorNotifies
    BY <1>12 DEF TypeOK, MutexHeld, MutexFree, TaskHeld, NotStarted, isIdle, DestructorNotifies
  <1>13. CASE DestructorJoins
    BY <1>13 DEF TypeOK, MutexHeld, MutexFree, TaskHeld, NotStarted, isIdle, DestructorJoins
  <1>14. CASE UNCHANGED vars
    BY <1>14 DEF TypeOK, MutexHeld, MutexFree, TaskHeld, NotStarted, isIdle, vars
  <1>. QED
    BY <1>1, <1>2, <1>3, <1>4, <1>5, <1>6, <1>7, <1>8, <1>9, <1>10, <1>11, <1>12, <1>13, <1>14
    DEF Next, Worker, Submitter, Owner, Terminated

(* No step leaves a worker asleep, work queued and nobody on the way.      *)
LEMMA PoolAwake == PoolInv /\ [Next]_vars => NoSleepOnWork'
  <1>. SUFFICES ASSUME TypeOK, MutexHeld, NoSleepOnWork, [Next]_vars
                PROVE  NoSleepOnWork'
    BY DEF PoolInv
  <1>1. ASSUME NEW w \in Workers, Proceeds(w) PROVE NoSleepOnWork'
    BY <1>1 DEF TypeOK, MutexHeld, NoSleepOnWork, isIdle, Waiting, Proceeds, MayExit
  <1>2. ASSUME NEW w \in Workers, FindsNothing(w) PROVE NoSleepOnWork'
    BY <1>2 DEF TypeOK, MutexHeld, NoSleepOnWork, isIdle, Waiting, FindsNothing
  <1>3. ASSUME NEW w \in Workers, Blocks(w) PROVE NoSleepOnWork'
    BY <1>3 DEF TypeOK, MutexHeld, NoSleepOnWork, isIdle, Waiting, Blocks
  <1>4. ASSUME NEW w \in Workers, WakesUp(w) PROVE NoSleepOnWork'
    BY <1>4 DEF TypeOK, MutexHeld, NoSleepOnWork, isIdle, Waiting, WakesUp
  <1>5. ASSUME NEW w \in Workers, RunsTask(w) PROVE NoSleepOnWork'
    BY <1>5 DEF TypeOK, MutexHeld, NoSleepOnWork, isIdle, Waiting, RunsTask
  <1>6. ASSUME NEW s \in Submitters, ChecksAddable(s) PROVE NoSleepOnWork'
    BY <1>6 DEF TypeOK, MutexHeld, NoSleepOnWork, isIdle, Waiting, ChecksAddable
  <1>7. ASSUME NEW s \in Submitters, AddsTask(s) PROVE NoSleepOnWork'
    BY <1>7 DEF TypeOK, MutexHeld, NoSleepOnWork, isIdle, Waiting, AddsTask, MayQueue, AfterQueueing
  <1>8. ASSUME NEW s \in Submitters, Notifies(s) PROVE NoSleepOnWork'
    BY <1>8 DEF TypeOK, MutexHeld, NoSleepOnWork, isIdle, Waiting, Notifies, NotifyOne
  <1>9. CASE run
    BY <1>9 DEF TypeOK, MutexHeld, NoSleepOnWork, isIdle, Waiting, run
  <1>10. CASE shutdownAddable
    BY <1>10 DEF TypeOK, MutexHeld, NoSleepOnWork, isIdle, Waiting, shutdownAddable
  <1>11. CASE shutdownRunning
    BY <1>11 DEF TypeOK, MutexHeld, NoSleepOnWork, isIdle, Waiting, shutdownRunning
  <1>12. CASE DestructorNotifies
    BY <1>12 DEF TypeOK, MutexHeld, NoSleepOnWork, isIdle, Waiting, DestructorNotifies
  <1>13. CASE DestructorJoins
    BY <1>13 DEF TypeOK, MutexHeld, NoSleepOnWork, isIdle, Waiting, DestructorJoins
  <1>14. CASE UNCHANGED vars
    BY <1>14 DEF TypeOK, MutexHeld, NoSleepOnWork, isIdle, Waiting, vars
  <1>. QED
    BY <1>1, <1>2, <1>3, <1>4, <1>5, <1>6, <1>7, <1>8, <1>9, <1>10, <1>11, <1>12, <1>13, <1>14
    DEF Next, Worker, Submitter, Owner, Terminated

(* A task is queued only by its own addTask.                               *)
LEMMA PoolSubmitted == PoolInv /\ [Next]_vars => Submitted'
  <1>. SUFFICES ASSUME TypeOK, Submitted, [Next]_vars
                PROVE  Submitted'
    BY DEF PoolInv
  <1>q. /\ taskqueue # <<>> => Range(taskqueue) = Range(Tail(taskqueue)) \cup {Head(taskqueue)}
        /\ taskqueue = <<>> => Range(taskqueue) = {}
        /\ \A s \in Submitters : Range(Append(taskqueue, s)) = Range(taskqueue) \cup {s}
    BY QueueElements DEF TypeOK
  <1>1. ASSUME NEW w \in Workers, Proceeds(w) PROVE Submitted'
    BY <1>1, <1>q DEF TypeOK, Submitted, Proceeds, MayExit, isIdle
  <1>2. ASSUME NEW w \in Workers, FindsNothing(w) PROVE Submitted'
    BY <1>2 DEF TypeOK, Submitted, FindsNothing
  <1>3. ASSUME NEW w \in Workers, Blocks(w) PROVE Submitted'
    BY <1>3 DEF TypeOK, Submitted, Blocks
  <1>4. ASSUME NEW w \in Workers, WakesUp(w) PROVE Submitted'
    BY <1>4 DEF TypeOK, Submitted, WakesUp
  <1>5. ASSUME NEW w \in Workers, RunsTask(w) PROVE Submitted'
    BY <1>5 DEF TypeOK, Submitted, RunsTask
  <1>6. ASSUME NEW s \in Submitters, ChecksAddable(s) PROVE Submitted'
    BY <1>6 DEF TypeOK, Submitted, ChecksAddable
  <1>7. ASSUME NEW s \in Submitters, AddsTask(s) PROVE Submitted'
    <2>1. CASE Workers = {}
      BY <1>7, <2>1 DEF TypeOK, Submitted, AddsTask
    <2>2. CASE Workers # {}
      <3>1. /\ Range(taskqueue') = Range(taskqueue) \cup {s}
            /\ early' = IF running THEN early \cup {s} ELSE early
            /\ spc' = [spc EXCEPT ![s] = "notify"]
        BY <1>7, <2>2, <1>q DEF AddsTask, AfterQueueing
      <3>. QED
        BY <3>1 DEF TypeOK, Submitted
    <2>. QED
      BY <2>1, <2>2
  <1>8. ASSUME NEW s \in Submitters, Notifies(s) PROVE Submitted'
    BY <1>8 DEF TypeOK, Submitted, Notifies
  <1>9. CASE run
    BY <1>9 DEF TypeOK, Submitted, run
  <1>10. CASE shutdownAddable
    BY <1>10 DEF TypeOK, Submitted, shutdownAddable
  <1>11. CASE shutdownRunning
    BY <1>11 DEF TypeOK, Submitted, shutdownRunning
  <1>12. CASE DestructorNotifies
    BY <1>12 DEF TypeOK, Submitted, DestructorNotifies
  <1>13. CASE DestructorJoins
    BY <1>13 DEF TypeOK, Submitted, DestructorJoins
  <1>14. CASE UNCHANGED vars
    BY <1>14 DEF TypeOK, Submitted, vars
  <1>. QED
    BY <1>1, <1>2, <1>3, <1>4, <1>5, <1>6, <1>7, <1>8, <1>9, <1>10, <1>11, <1>12, <1>13, <1>14
    DEF Next, Worker, Submitter, Owner, Terminated

(* No step loses a task that was queued before the shutdown.               *)
LEMMA PoolAccounted == PoolInv /\ [Next]_vars => EarlyAccounted'
  <1>. SUFFICES ASSUME TypeOK, EarlyAccounted, [Next]_vars
                PROVE  EarlyAccounted'
    BY DEF PoolInv
  <1>q. /\ taskqueue # <<>> => Range(taskqueue) = Range(Tail(taskqueue)) \cup {Head(taskqueue)}
        /\ taskqueue = <<>> => Range(taskqueue) = {}
        /\ \A s \in Submitters : Range(Append(taskqueue, s)) = Range(taskqueue) \cup {s}
    BY QueueElements DEF TypeOK
  <1>1. ASSUME NEW w \in Workers, Proceeds(w) PROVE EarlyAccounted'
    <2>1. CASE MayExit
      <3>1. /\ UNCHANGED <<taskqueue, task, early, done>>
            /\ wpc[w] = "lock" /\ wpc' = [wpc EXCEPT ![w] = "exited"]
        BY <1>1, <2>1 DEF Proceeds
      <3>. QED
        BY <3>1 DEF TypeOK, EarlyAccounted
    <2>2. CASE ~MayExit
      <3>1. /\ taskqueue # <<>> /\ taskqueue' = Tail(taskqueue)
            /\ task' = [task EXCEPT ![w] = Head(taskqueue)]
            /\ wpc[w] = "lock" /\ wpc' = [wpc EXCEPT ![w] = "task"]
            /\ UNCHANGED <<early, done>>
        BY <1>1, <2>2 DEF Proceeds, MayExit, isIdle
      <3>2. Range(taskqueue) = Range(taskqueue') \cup {Head(taskqueue)}
        BY <3>1, <1>q
      <3>3. wpc'[w] = "task" /\ task'[w] = Head(taskqueue)
        BY <3>1 DEF TypeOK
      <3>4. \A v \in Workers : wpc[v] = "task" => wpc'[v] = "task" /\ task'[v] = task[v]
        BY <3>1 DEF TypeOK
      <3>. QED
        BY <3>1, <3>2, <3>3, <3>4 DEF EarlyAccounted
    <2>. QED
      BY <2>1, <2>2
  <1>2. ASSUME NEW w \in Workers, FindsNothing(w) PROVE EarlyAccounted'
    BY <1>2 DEF TypeOK, EarlyAccounted, FindsNothing
  <1>3. ASSUME NEW w \in Workers, Blocks(w) PROVE EarlyAccounted'
    BY <1>3 DEF TypeOK, EarlyAccounted, Blocks
  <1>4. ASSUME NEW w \in Workers, WakesUp(w) PROVE EarlyAccounted'
    BY <1>4 DEF TypeOK, EarlyAccounted, WakesUp, Waiting
  <1>5. ASSUME NEW w \in Workers, RunsTask(w) PROVE EarlyAccounted'
    BY <1>5 DEF TypeOK, EarlyAccounted, RunsTask
  <1>6. ASSUME NEW s \in Submitters, ChecksAddable(s) PROVE EarlyAccounted'
    BY <1>6 DEF TypeOK, EarlyAccounted, ChecksAddable
  <1>7. ASSUME NEW s \in Submitters, AddsTask(s) PROVE EarlyAccounted'
    <2>1. CASE Workers = {}
      BY <1>7, <2>1 DEF TypeOK, EarlyAccounted, AddsTask
    <2>2. CASE Workers # {}
      <3>1. /\ Range(taskqueue') = Range(taskqueue) \cup {s}
            /\ early' = IF running THEN early \cup {s} ELSE early
            /\ UNCHANGED <<running, wpc, task, done>>
            /\ spc[s] = "adding"
        BY <1>7, <2>2, <1>q DEF AddsTask
      <3>. QED
        BY <3>1 DEF EarlyAccounted
    <2>. QED
      BY <2>1, <2>2
  <1>8. ASSUME NEW s \in Submitters, Notifies(s) PROVE EarlyAccounted'
    BY <1>8 DEF TypeOK, EarlyAccounted, Notifies, NotifyOne, Waiting
  <1>9. CASE run
    BY <1>9 DEF TypeOK, EarlyAccounted, run
  <1>10. CASE shutdownAddable
    BY <1>10 DEF TypeOK, EarlyAccounted, shutdownAddable
  <1>11. CASE shutdownRunning
    BY <1>11 DEF TypeOK, EarlyAccounted, shutdownRunning
  <1>12. CASE DestructorNotifies
    BY <1>12 DEF TypeOK, EarlyAccounted, DestructorNotifies
  <1>13. CASE DestructorJoins
    BY <1>13 DEF TypeOK, EarlyAccounted, DestructorJoins
  <1>14. CASE UNCHANGED vars
    BY <1>14 DEF TypeOK, EarlyAccounted, vars
  <1>. QED
    BY <1>1, <1>2, <1>3, <1>4, <1>5, <1>6, <1>7, <1>8, <1>9, <1>10, <1>11, <1>12, <1>13, <1>14
    DEF Next, Worker, Submitter, Owner, Terminated

(* A worker that has left has seen the shutdown and an empty queue, and    *)
(* nothing early is queued after that.                                     *)
LEMMA PoolExit == PoolInv /\ [Next]_vars => ExitClean'
  <1>. SUFFICES ASSUME TypeOK, Submitted, ExitClean, [Next]_vars
                PROVE  ExitClean'
    BY DEF PoolInv
  <1>q. /\ taskqueue # <<>> => Range(taskqueue) = Range(Tail(taskqueue)) \cup {Head(taskqueue)}
        /\ taskqueue = <<>> => Range(taskqueue) = {}
        /\ \A s \in Submitters : Range(Append(taskqueue, s)) = Range(taskqueue) \cup {s}
    BY QueueElements DEF TypeOK
  <1>1. ASSUME NEW w \in Workers, Proceeds(w) PROVE ExitClean'
    BY <1>1, <1>q DEF TypeOK, ExitClean, Proceeds, MayExit, isIdle
  <1>2. ASSUME NEW w \in Workers, FindsNothing(w) PROVE ExitClean'
    BY <1>2 DEF TypeOK, ExitClean, FindsNothing
  <1>3. ASSUME NEW w \in Workers, Blocks(w) PROVE ExitClean'
    BY <1>3 DEF TypeOK, ExitClean, Blocks
  <1>4. ASSUME NEW w \in Workers, WakesUp(w) PROVE ExitClean'
    BY <1>4 DEF TypeOK, ExitClean, WakesUp, Waiting
  <1>5. ASSUME NEW w \in Workers, RunsTask(w) PROVE ExitClean'
    BY <1>5 DEF TypeOK, ExitClean, RunsTask
  <1>6. ASSUME NEW s \in Submitters, ChecksAddable(s) PROVE ExitClean'
    BY <1>6 DEF TypeOK, ExitClean, ChecksAddable
  <1>7. ASSUME NEW s \in Submitters, AddsTask(s) PROVE ExitClean'
    <2>1. CASE Workers = {}
      BY <1>7, <2>1 DEF TypeOK, ExitClean, AddsTask
    <2>2. CASE Workers # {}
      <3>1. /\ Range(taskqueue') = Range(taskqueue) \cup {s}
            /\ early' = IF running THEN early \cup {s} ELSE early
            /\ UNCHANGED <<running, wpc, task, done>>
            /\ spc[s] = "adding"
        BY <1>7, <2>2, <1>q DEF AddsTask
      <3>. QED
        BY <3>1 DEF ExitClean, Submitted
    <2>. QED
      BY <2>1, <2>2
  <1>8. ASSUME NEW s \in Submitters, Notifies(s) PROVE ExitClean'
    BY <1>8 DEF TypeOK, ExitClean, Notifies, NotifyOne, Waiting
  <1>9. CASE run
    BY <1>9 DEF TypeOK, ExitClean, run
  <1>10. CASE shutdownAddable
    BY <1>10 DEF TypeOK, ExitClean, shutdownAddable
  <1>11. CASE shutdownRunning
    BY <1>11 DEF TypeOK, ExitClean, shutdownRunning
  <1>12. CASE DestructorNotifies
    BY <1>12 DEF TypeOK, ExitClean, DestructorNotifies
  <1>13. CASE DestructorJoins
    BY <1>13 DEF TypeOK, ExitClean, DestructorJoins
  <1>14. CASE UNCHANGED vars
    BY <1>14 DEF TypeOK, ExitClean, vars
  <1>. QED
    BY <1>1, <1>2, <1>3, <1>4, <1>5, <1>6, <1>7, <1>8, <1>9, <1>10, <1>11, <1>12, <1>13, <1>14
    DEF Next, Worker, Submitter, Owner, Terminated

(* For every number of workers and submitters, PoolInv holds in every      *)
(* reachable state of the pool.                                            *)
THEOREM PoolInvariant == Spec => []PoolInv
  <1>1. PoolInv /\ [Next]_vars => PoolInv'
    BY PoolType, PoolMutex, PoolAwake, PoolSubmitted, PoolAccounted, PoolExit DEF PoolInv
  <1>. QED
    BY PoolInit, <1>1, PTL DEF Spec

(* addTask and cond.wait never leave a task queued with all workers asleep *)
(* and no notification to come.                                            *)
THEOREM PoolNeverSleepsOnWork == Spec => []NoSleepOnWork
  <1>1. PoolInv => NoSleepOnWork
    BY DEF PoolInv
  <1>. QED
    BY PoolInvariant, <1>1, PTL

(* When the last worker has left, every task that was queued before the    *)
(* shutdown has run.                                                       *)
THEOREM PoolStrandsNoTask == Spec => []NoTaskStranded
  <1>1. PoolInv => NoTaskStranded
    BY DEF PoolInv, NoTaskStranded, EarlyAccounted, ExitClean
  <1>. QED
    BY PoolInvariant, <1>1, PTL
=============================================================================
