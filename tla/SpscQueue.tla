----------------------------- MODULE SpscQueue -----------------------------
(***************************************************************************)
(* The single-producer single-consumer LockFreeQueue and its program       *)
(* (raw-examples/cpp11/lockFreeQueue/spsc): the producer pushes 1, 2, 3,   *)
(* ... and tries again when the queue is full; the consumer stops after    *)
(* MaxFail failures in a row.                                              *)
(*                                                                         *)
(* A step is one access to an atomic index or to a slot.  Each thread      *)
(* loads its own index, which nobody else stores, together with the other  *)
(* one.  Steps interleave: the release stores and acquire loads of the     *)
(* code order the slot accesses between them.                              *)
(***************************************************************************)
EXTENDS Integers

CONSTANTS N,         \* slots of the queue, 5 in the program
          Pushes,    \* values the producer pushes, 10 in the program
          MaxFail    \* failures that end the consumer, 3 in the program

VARIABLES nHead, nTail, queue,
          producer,  \* at: the next step; counter: the last value pushed
          consumer   \* at, failCount; popped: values popped; element: the last

vars == <<nHead, nTail, queue, producer, consumer>>

Init ==
    /\ nHead = 0 /\ nTail = 0
    /\ queue = [i \in 0..(N - 1) |-> 0]
    /\ producer = [at |-> "test", counter |-> 0]
    /\ consumer = [at |-> "test", failCount |-> 0, popped |-> 0, element |-> 0]

(* The index after i. *)
Following(i) == IF i + 1 = N THEN 0 ELSE i + 1

(* Mutant: the test comes before the index is wrapped. *)
MutFull == nTail + 1 = nHead

(* One slot stays empty, to tell a full queue from an empty one. *)
Full == Following(nTail) = nHead

(* push: a full queue makes it return false, which changes nothing. *)
PushTest ==
    /\ producer.at = "test" /\ ~Full
    /\ producer' = [producer EXCEPT !.at = "write"]
    /\ UNCHANGED <<nHead, nTail, queue, consumer>>

PushWrite ==
    /\ producer.at = "write"
    /\ queue' = [queue EXCEPT ![nTail] = producer.counter + 1]
    /\ producer' = [producer EXCEPT !.at = "store"]
    /\ UNCHANGED <<nHead, nTail, consumer>>

PushStore ==
    /\ producer.at = "store"
    /\ nTail' = Following(nTail)
    /\ producer' = [at |-> IF producer.counter + 1 >= Pushes THEN "done" ELSE "test",
                    counter |-> producer.counter + 1]
    /\ UNCHANGED <<nHead, queue, consumer>>

(* pop on an empty queue fails; the program counts the failures. *)
PopEmpty ==
    /\ consumer.at = "test" /\ nHead = nTail
    /\ consumer' = [consumer EXCEPT
                      !.failCount = @ + 1,
                      !.at = IF consumer.failCount + 1 >= MaxFail THEN "done" ELSE "test"]
    /\ UNCHANGED <<nHead, nTail, queue, producer>>

PopTest ==
    /\ consumer.at = "test" /\ nHead # nTail
    /\ consumer' = [consumer EXCEPT !.at = "read"]
    /\ UNCHANGED <<nHead, nTail, queue, producer>>

PopRead ==
    /\ consumer.at = "read"
    /\ consumer' = [consumer EXCEPT !.at = "store", !.element = queue[nHead]]
    /\ UNCHANGED <<nHead, nTail, queue, producer>>

PopStore ==
    /\ consumer.at = "store"
    /\ nHead' = Following(nHead)
    /\ consumer' = [consumer EXCEPT !.at = "test", !.failCount = 0, !.popped = @ + 1]
    /\ UNCHANGED <<nTail, queue, producer>>

Push == PushTest \/ PushWrite \/ PushStore

Pop == PopEmpty \/ PopTest \/ PopRead \/ PopStore

Next == Push \/ Pop

(***************************************************************************)
(* The k-th value popped is the k-th value pushed, none is overwritten     *)
(* before it is read, and no slot is written while it is read: the plain   *)
(* accesses of push and pop to _queue never meet.                          *)
(***************************************************************************)
FifoNoRace ==
    /\ ~(producer.at = "write" /\ consumer.at = "read" /\ nHead = nTail)
    /\ consumer.at = "store" => consumer.element = consumer.popped + 1
    /\ consumer.popped <= producer.counter
=============================================================================
