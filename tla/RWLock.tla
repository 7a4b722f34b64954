------------------------------- MODULE RWLock -------------------------------
(***************************************************************************)
(* RWLock, its guards and its program (raw-examples/cpp11/rwlock): readers *)
(* wait while any writer holds or wants the lock, writers wait for readers *)
(* and for each other.  Every checker and every buyer locks once.          *)
(*                                                                         *)
(* A member function runs under mtx, so it is one step, except that a wait *)
(* splits it: a waiting thread goes on after a notification (woken) and    *)
(* evaluates its predicate again under the mutex.                          *)
(***************************************************************************)
EXTENDS Integers, FiniteSets

CONSTANTS Checkers, Buyers     \* the reading and the writing threads

VARIABLES rcnt, wcnt, wflag,
          at,                  \* thread -> "start", "wait", "woken", "in", "done"
          remain               \* the tickets left, 10 for each buyer

vars == <<rcnt, wcnt, wflag, at, remain>>

Threads == Checkers \cup Buyers

Init ==
    /\ rcnt = 0 /\ wcnt = 0 /\ wflag = FALSE
    /\ at = [t \in Threads |-> "start"]
    /\ remain = Cardinality(Buyers)

Waiting(S) == {t \in S : at[t] = "wait"}

(* The threads that notify_one may wake: one that waits, or nobody. *)
One(S) == IF Waiting(S) = {} THEN {{}} ELSE {{t} : t \in Waiting(S)}

(* Thread t goes to where, and the threads of woken are notified. *)
Moved(t, where, woken) ==
    at' = [u \in Threads |-> IF u = t THEN where ELSE IF u \in woken THEN "woken" ELSE at[u]]

rdLock(t) ==
    /\ t \in Checkers /\ at[t] \in {"start", "woken"}
    /\ IF wcnt = 0
         THEN rcnt' = rcnt + 1 /\ Moved(t, "in", {})
         ELSE Moved(t, "wait", {}) /\ UNCHANGED rcnt
    /\ UNCHANGED <<wcnt, wflag, remain>>

(* checkTicket's guard goes out of scope. *)
rdUnlock(t) ==
    /\ t \in Checkers /\ at[t] = "in"
    /\ rcnt' = rcnt - 1
    /\ \E woken \in IF rcnt = 1 /\ wcnt > 0 THEN One(Buyers) ELSE {{}} : Moved(t, "done", woken)
    /\ UNCHANGED <<wcnt, wflag, remain>>

(* Mutant: a writer does not wait for the readers inside. *)
MutMayWrite == ~wflag

MayWrite == rcnt = 0 /\ ~wflag

(* A writer counts itself once, before it waits for the first time. *)
wrLock(t) ==
    /\ t \in Buyers /\ at[t] \in {"start", "woken"}
    /\ wcnt' = IF at[t] = "start" THEN wcnt + 1 ELSE wcnt
    /\ IF MayWrite
         THEN wflag' = TRUE /\ Moved(t, "in", {})
         ELSE Moved(t, "wait", {}) /\ UNCHANGED wflag
    /\ UNCHANGED <<rcnt, remain>>

(* Mutant: the last writer forgets the readers. *)
MutAfterWriter == IF wcnt = 1 THEN {{}} ELSE One(Buyers)

(* The last writer lets all readers go, another one the next writer. *)
AfterWriter == IF wcnt = 1 THEN {Waiting(Checkers)} ELSE One(Buyers)

(* buyTicket takes its tickets and its guard goes out of scope. *)
wrUnlock(t) ==
    /\ t \in Buyers /\ at[t] = "in"
    /\ remain' = remain - 1
    /\ wcnt' = wcnt - 1
    /\ \E woken \in AfterWriter : Moved(t, "done", woken)
    /\ wflag' = FALSE
    /\ UNCHANGED rcnt

Step(t) == rdLock(t) \/ rdUnlock(t) \/ wrLock(t) \/ wrUnlock(t)

Next == \E t \in Threads : Step(t)

Inside(S) == {t \in S : at[t] = "in"}

(***************************************************************************)
(* A writer is alone in the lock, whatever order the threads come and are  *)
(* notified in, and the counters that decide so are right: rcnt counts the *)
(* readers inside, wcnt the writers inside, waiting and woken.             *)
(***************************************************************************)
WriterAlone ==
    /\ Inside(Buyers) # {} => Cardinality(Inside(Threads)) = 1
    /\ wflag <=> Inside(Buyers) # {}
    /\ rcnt = Cardinality(Inside(Checkers))
    /\ wcnt = Cardinality({t \in Buyers : at[t] \in {"wait", "woken", "in"}})

(* Every thread has been through the lock, so that main's joins return. *)
Finished == \A t \in Threads : at[t] = "done"
=============================================================================
