----------------------------- MODULE ThreadPool -----------------------------
(***************************************************************************)
(* pqnet::ThreadPool (pqnet/util/threadpool.h, threadpool.cpp): worker     *)
(* threads that wait on a condition variable for tasks, threads that add   *)
(* tasks, a shutdown() from a signal handler or any thread, and the        *)
(* destructor, which wakes the workers and joins them.                     *)
(*                                                                         *)
(* What happens under the mutex is one step, with one exception: between   *)
(* evaluating the predicate of cond.wait and going to sleep a worker holds *)
(* the mutex, but shutdown() and the destructor do not take it, so the     *)
(* worker's two halves are steps of their own.  The two stores of          *)
(* shutdown() are also apart.  Each submitter adds one task, which is      *)
(* known by the submitter's name.                                          *)
(***************************************************************************)
EXTENDS Integers, Sequences, FiniteSets, Functions

CONSTANTS Workers,      \* the tn worker threads
          Submitters,   \* threads that call addTask
          Nobody        \* no thread

ASSUME PoolAssumption == Nobody \notin Workers /\ IsFiniteSet(Workers)

VARIABLES running,      \* ThreadPool::running
          addable,      \* ThreadPool::addable
          mtx,          \* worker that holds ThreadPool::mtx between two steps
          taskqueue,    \* ThreadPool::taskqueue
          wpc,          \* what each worker is doing
          task,         \* task that a worker runs
          spc,          \* what each submitter is doing
          dpc,          \* what the caller of shutdown() is doing
          opc,          \* what the owner of the pool is doing
          early,        \* tasks that were queued before running became false
          done          \* tasks that have run

vars == <<running, addable, mtx, taskqueue, wpc, task, spc, dpc, opc, early, done>>

Init ==
    /\ running = FALSE /\ addable = TRUE
    /\ mtx = Nobody /\ taskqueue = <<>>
    /\ wpc = [w \in Workers |-> "none"] /\ task = [w \in Workers |-> Nobody]
    /\ spc = [s \in Submitters |-> "idle"]
    /\ dpc = "idle" /\ opc = "made"
    /\ early = {} /\ done = {}

isIdle == taskqueue = <<>>

Waiting == {w \in Workers : wpc[w] = "waiting"}

(* notify_one wakes one of the waiting threads; without any it is lost. *)
NotifyOne ==
    IF Waiting = {} THEN UNCHANGED wpc
    ELSE \E w \in Waiting : wpc' = [wpc EXCEPT ![w] = "lock"]

-----------------------------------------------------------------------------
(* Workers.                                                                *)

(* Mutant: a worker leaves as soon as the pool is shut down. *)
MutMayExit == ~running

MayExit == ~running /\ isIdle

(* The worker has the mutex and the predicate of cond.wait holds: it leaves, *)
(* or takes the first task.                                                  *)
Proceeds(w) ==
    /\ wpc[w] = "lock" /\ mtx = Nobody
    /\ ~running \/ ~isIdle
    /\ \/ /\ MayExit
          /\ wpc' = [wpc EXCEPT ![w] = "exited"]
          /\ UNCHANGED <<taskqueue, task>>
       \/ /\ ~MayExit
          /\ wpc' = [wpc EXCEPT ![w] = "task"]
          /\ task' = [task EXCEPT ![w] = Head(taskqueue)]
          /\ taskqueue' = Tail(taskqueue)
    /\ UNCHANGED <<running, addable, mtx, spc, dpc, opc, early, done>>

(* The predicate does not hold: the worker is about to sleep. *)
FindsNothing(w) ==
    /\ wpc[w] = "lock" /\ mtx = Nobody
    /\ running /\ isIdle
    /\ wpc' = [wpc EXCEPT ![w] = "blocking"]
    /\ mtx' = w
    /\ UNCHANGED <<running, addable, taskqueue, task, spc, dpc, opc, early, done>>

(* It releases the mutex and sleeps, in one step of the condition variable. *)
Blocks(w) ==
    /\ wpc[w] = "blocking"
    /\ wpc' = [wpc EXCEPT ![w] = "waiting"]
    /\ mtx' = Nobody
    /\ UNCHANGED <<running, addable, taskqueue, task, spc, dpc, opc, early, done>>

(* A condition variable may wake a thread for no reason. *)
WakesUp(w) ==
    /\ w \in Waiting
    /\ wpc' = [wpc EXCEPT ![w] = "lock"]
    /\ UNCHANGED <<running, addable, mtx, taskqueue, task, spc, dpc, opc, early, done>>

RunsTask(w) ==
    /\ wpc[w] = "task"
    /\ wpc' = [wpc EXCEPT ![w] = "lock"]
    /\ done' = done \cup {task[w]}
    /\ task' = [task EXCEPT ![w] = Nobody]
    /\ UNCHANGED <<running, addable, mtx, taskqueue, spc, dpc, opc, early>>

-----------------------------------------------------------------------------
(* addTask.                                                                *)

ChecksAddable(s) ==
    /\ spc[s] = "idle" /\ opc \in {"made", "running"}
    /\ spc' = [spc EXCEPT ![s] = IF addable THEN "adding" ELSE "refused"]
    /\ UNCHANGED <<running, addable, mtx, taskqueue, wpc, task, dpc, opc, early, done>>

(* Mutant: the task is queued without the mutex. *)
MutMayQueue == TRUE

MayQueue == mtx = Nobody

(* Mutant: nobody is told of the task. *)
MutAfterQueueing == "added"

AfterQueueing == "notify"

(* Without workers the task runs at once, otherwise it is queued. *)
AddsTask(s) ==
    /\ spc[s] = "adding"
    /\ IF Workers = {}
         THEN /\ spc' = [spc EXCEPT ![s] = "added"]
              /\ done' = done \cup {s}
              /\ UNCHANGED <<taskqueue, early>>
         ELSE /\ MayQueue
              /\ spc' = [spc EXCEPT ![s] = AfterQueueing]
              /\ taskqueue' = Append(taskqueue, s)
              /\ early' = IF running THEN early \cup {s} ELSE early
              /\ UNCHANGED done
    /\ UNCHANGED <<running, addable, mtx, wpc, task, dpc, opc>>

Notifies(s) ==
    /\ spc[s] = "notify"
    /\ spc' = [spc EXCEPT ![s] = "added"]
    /\ NotifyOne
    /\ UNCHANGED <<running, addable, mtx, taskqueue, task, dpc, opc, early, done>>

-----------------------------------------------------------------------------
(* The owner, and whoever calls shutdown().                                *)

(* run() starts the workers. *)
run ==
    /\ opc = "made"
    /\ running' = TRUE
    /\ wpc' = [w \in Workers |-> "lock"]
    /\ opc' = "running"
    /\ early' = Range(taskqueue)
    /\ UNCHANGED <<addable, mtx, taskqueue, task, spc, dpc, done>>

(* running = addable = false: addable is stored first. *)
shutdownAddable ==
    /\ dpc = "idle" /\ opc = "running"
    /\ addable' = FALSE
    /\ dpc' = "stopping"
    /\ UNCHANGED <<running, mtx, taskqueue, wpc, task, spc, opc, early, done>>

shutdownRunning ==
    /\ dpc = "stopping"
    /\ running' = FALSE
    /\ dpc' = "stopped"
    /\ UNCHANGED <<addable, mtx, taskqueue, wpc, task, spc, opc, early, done>>

(* The owner destroys the pool once it has been shut down and nobody is in *)
(* the middle of addTask: cond.notify_all(), without the mutex.  (The      *)
(* repository's tests also wait for isIdle().)                             *)
DestructorNotifies ==
    /\ opc = "running" /\ ~running
    /\ \A s \in Submitters : spc[s] \notin {"adding", "notify"}
    /\ opc' = "joining"
    /\ wpc' = [w \in Workers |-> IF wpc[w] = "waiting" THEN "lock" ELSE wpc[w]]
    /\ UNCHANGED <<running, addable, mtx, taskqueue, task, spc, dpc, early, done>>

DestructorJoins ==
    /\ opc = "joining"
    /\ \A w \in Workers : wpc[w] = "exited"
    /\ opc' = "gone"
    /\ UNCHANGED <<running, addable, mtx, taskqueue, wpc, task, spc, dpc, early, done>>

Worker(w) == Proceeds(w) \/ FindsNothing(w) \/ Blocks(w) \/ RunsTask(w)

Submitter(s) == ChecksAddable(s) \/ AddsTask(s) \/ Notifies(s)

Owner == run \/ DestructorNotifies \/ DestructorJoins

Terminated == opc = "gone" /\ UNCHANGED vars

Next ==
    \/ \E w \in Workers : Worker(w) \/ WakesUp(w)
    \/ \E s \in Submitters : Submitter(s)
    \/ Owner \/ shutdownAddable \/ shutdownRunning \/ Terminated

Spec == Init /\ [][Next]_vars

(* The threads are scheduled; the mutex is held for one step at a time.    *)
(* Nobody has to call shutdown(), but once called it finishes.             *)
FairSpec ==
    /\ Spec
    /\ \A w \in Workers : WF_vars(Worker(w))
    /\ \A s \in Submitters : WF_vars(AddsTask(s) \/ Notifies(s))
    /\ WF_vars(Owner) /\ WF_vars(shutdownRunning)

-----------------------------------------------------------------------------
(* Properties.                                                             *)

TypeOK ==
    /\ running \in BOOLEAN /\ addable \in BOOLEAN
    /\ mtx \in Workers \cup {Nobody} /\ taskqueue \in Seq(Submitters)
    /\ wpc \in [Workers -> {"none", "lock", "blocking", "waiting", "task", "exited"}]
    /\ task \in [Workers -> Submitters \cup {Nobody}]
    /\ spc \in [Submitters -> {"idle", "adding", "notify", "added", "refused"}]
    /\ dpc \in {"idle", "stopping", "stopped"}
    /\ opc \in {"made", "running", "joining", "gone"}
    /\ early \subseteq Submitters /\ done \subseteq Submitters

(* When a task is queued and a worker sleeps, somebody is on the way: a    *)
(* worker that is awake, or a submitter that has still to notify.          *)
NoSleepOnWork ==
    (~isIdle /\ Waiting # {}) =>
        \/ \E w \in Workers : wpc[w] \in {"lock", "task"}
        \/ \E s \in Submitters : spc[s] = "notify"

(* A task that was queued before the pool was shut down is not left behind *)
(* by the workers.                                                         *)
NoTaskStranded ==
    (Workers # {} /\ \A w \in Workers : wpc[w] = "exited") => early \subseteq done

(* The mutex is held between two steps by a worker that is about to sleep, *)
(* and then nothing is queued.                                             *)
MutexHeld ==
    \A w \in Workers : wpc[w] = "blocking" => mtx = w /\ isIdle

MutexFree == mtx # Nobody => wpc[mtx] = "blocking"

TaskHeld == \A w \in Workers : wpc[w] = "task" => task[w] \in Submitters

(* A task is queued by a submitter that has not left addTask yet or has    *)
(* come to its end.                                                        *)
Submitted ==
    \A s \in Submitters :
        (s \in early \/ s \in Range(taskqueue)) => spc[s] \in {"notify", "added"}

NotStarted == opc = "made" => \A w \in Workers : wpc[w] = "none"

(* Every early task is queued, being run, or has run. *)
EarlyAccounted ==
    \A s \in early :
        \/ s \in done
        \/ s \in Range(taskqueue)
        \/ \E w \in Workers : wpc[w] = "task" /\ task[w] = s

(* A worker leaves only after the shutdown, with no early task queued. *)
ExitClean ==
    \A w \in Workers :
        wpc[w] = "exited" => ~running /\ \A s \in early : s \notin Range(taskqueue)

(* The inductive invariant: a sleeping worker is never out of reach of a   *)
(* queued task because the predicate of cond.wait is evaluated under the   *)
(* mutex that addTask takes, and a worker that leaves has seen an empty    *)
(* queue after the shutdown.                                               *)
PoolInv ==
    /\ TypeOK
    /\ MutexHeld
    /\ MutexFree
    /\ TaskHeld
    /\ Submitted
    /\ NotStarted
    /\ NoSleepOnWork
    /\ EarlyAccounted
    /\ ExitClean

(* A task queued before the shutdown runs, whatever happens afterwards.    *)
TaskRuns == \A s \in Submitters : (s \in early) ~> (s \in done)
=============================================================================
