--------------------------- MODULE CountDownLatch ---------------------------
(***************************************************************************)
(* CountDownLatch and its program (raw-examples/cpp11/countdownlatch).     *)
(* countDown decrements under the mutex, but looks at the count again and  *)
(* notifies after it has let the mutex go; wait evaluates its predicate    *)
(* and goes to sleep under the mutex.                                      *)
(***************************************************************************)
EXTENDS Integers, FiniteSets

CONSTANT Pool        \* the threads that count down, 10 in the program

VARIABLES count,
          at,        \* thread of Pool -> "down", "check", "done"
          main       \* the waiting thread: "check", "asleep", "done"

vars == <<count, at, main>>

Init ==
    /\ count = Cardinality(Pool)
    /\ at = [t \in Pool |-> "down"]
    /\ main = "check"

decrement(t) ==
    /\ at[t] = "down"
    /\ count' = count - 1
    /\ at' = [at EXCEPT ![t] = "check"]
    /\ UNCHANGED main

notify(t) ==
    /\ at[t] = "check"
    /\ main' = IF count = 0 /\ main = "asleep" THEN "check" ELSE main
    /\ at' = [at EXCEPT ![t] = "done"]
    /\ UNCHANGED count

wait ==
    /\ main = "check"
    /\ main' = IF ~(count > 0) THEN "done" ELSE "asleep"
    /\ UNCHANGED <<count, at>>

Step(t) == decrement(t) \/ notify(t)

Next == wait \/ \E t \in Pool : Step(t)

(* The waiting thread has come through. *)
Finished == main = "done"
=============================================================================
