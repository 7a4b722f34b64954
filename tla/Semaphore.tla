----------------------------- MODULE Semaphore ------------------------------
(***************************************************************************)
(* Semaphore and its program (raw-examples/cpp11/semaphore): three threads *)
(* that, asked to, use two semaphores to print their words in order.       *)
(*                                                                         *)
(* wait and post run under the mutex and are one step each, but for the    *)
(* sleep in wait: cond.wait stands there without a predicate and without a *)
(* loop, so a thread that is woken goes on, whatever the count says.       *)
(***************************************************************************)
EXTENDS Integers, Sequences

VARIABLES useSem,     \* the program's argument
          early,      \* history: the threads that woke up without a notification
          count,      \* semaphore -> its count
          asleep,     \* thread -> the semaphore it sleeps on, or "none"
          pc,         \* thread -> the next statement of its function
          printed     \* the words on the console

vars == <<useSem, early, count, asleep, pc, printed>>

Sems == {"sem1", "sem2"}

(* func1, func2 and func3 as lists of statements. *)
Func == [t1 |-> << <<"wait", "sem2">>, <<"print", "FANTASY">> >>,
         t2 |-> << <<"wait", "sem1">>, <<"print", "DARK">>, <<"post", "sem2">> >>,
         t3 |-> << <<"print", "DEEP">>, <<"post", "sem1">> >>]

Threads == DOMAIN Func

Init ==
    /\ useSem \in BOOLEAN /\ early = {}
    /\ count = [s \in Sems |-> 0]
    /\ asleep = [t \in Threads |-> "none"]
    /\ pc = [t \in Threads |-> 1]
    /\ printed = <<>>

(* Thread t, awake, is at a statement of kind op. *)
At(t, op) == asleep[t] = "none" /\ pc[t] <= Len(Func[t]) /\ Func[t][pc[t]][1] = op

Operand(t) == Func[t][pc[t]][2]

print(t) ==
    /\ At(t, "print")
    /\ printed' = Append(printed, Operand(t))
    /\ pc' = [pc EXCEPT ![t] = @ + 1]
    /\ UNCHANGED <<useSem, early, count, asleep>>

(* Without semaphores the calls are not made. *)
skip(t) ==
    /\ ~useSem /\ (At(t, "wait") \/ At(t, "post"))
    /\ pc' = [pc EXCEPT ![t] = @ + 1]
    /\ UNCHANGED <<useSem, early, count, asleep, printed>>

(* Mutant: the count is compared before it is lowered. *)
MutMustSleep(s) == count[s] < 0

MustSleep(s) == count[s] - 1 < 0

wait(t) ==
    /\ useSem /\ At(t, "wait")
    /\ count' = [count EXCEPT ![Operand(t)] = @ - 1]
    /\ asleep' = [asleep EXCEPT ![t] = IF MustSleep(Operand(t)) THEN Operand(t) ELSE "none"]
    /\ pc' = [pc EXCEPT ![t] = @ + 1]
    /\ UNCHANGED <<useSem, early, printed>>

post(t) ==
    /\ useSem /\ At(t, "post")
    /\ LET s == Operand(t)
           sleepers == {u \in Threads : asleep[u] = s}
       IN  /\ count' = [count EXCEPT ![s] = @ + 1]
           /\ IF count[s] + 1 <= 0 /\ sleepers # {}
                THEN \E u \in sleepers : asleep' = [asleep EXCEPT ![u] = "none"]
                ELSE UNCHANGED asleep
    /\ pc' = [pc EXCEPT ![t] = @ + 1]
    /\ UNCHANGED <<useSem, early, printed>>

(* A condition variable may wake a thread up that nobody has notified. *)
wakeUp(t) ==
    /\ asleep[t] # "none"
    /\ asleep' = [asleep EXCEPT ![t] = "none"]
    /\ early' = early \cup {t}
    /\ UNCHANGED <<useSem, count, pc, printed>>

Step(t) == print(t) \/ skip(t) \/ wait(t) \/ post(t)

Next == \E t \in Threads : Step(t) \/ wakeUp(t)

(* Word a is on the console before word b. *)
Before(a, b) ==
    \A i \in DOMAIN printed : printed[i] = b => \E j \in 1..(i - 1) : printed[j] = a

(***************************************************************************)
(* With semaphores, a word comes behind the one its thread waits for,      *)
(* unless that very thread woke up without a notification (the wait has no *)
(* predicate): a post made before, between or after the waits is neither   *)
(* lost nor used twice, and the count a thread leaves behind that woke up  *)
(* too early does not put the other thread out of order.                   *)
(***************************************************************************)
WordsInOrder ==
    useSem => /\ "t2" \in early \/ Before("DEEP", "DARK")
              /\ "t1" \in early \/ Before("DARK", "FANTASY")

(* All three functions have returned, so that main's joins return. *)
Finished == \A t \in Threads : asleep[t] = "none" /\ pc[t] > Len(Func[t])
=============================================================================
