------------------------- MODULE DoubleBufferedQueue ------------------------
(***************************************************************************)
(* Queue, DoubleBufferedQueue and the two loops that exercise them         *)
(* (raw-examples/cpp11/doublebufferedqueue), with one producer and one     *)
(* consumer as in the program.  A producer appends to wq under wmtx; the   *)
(* consumer takes from rq under rmtx and swaps the two when rq is empty.   *)
(* Queue is the same with one buffer, rq, and one mutex.                   *)
(*                                                                         *)
(* empty(), and the test in pop, read wq without wmtx while the producer   *)
(* may be appending: the read finds the queue as it was before or after    *)
(* the append, which an interleaving of whole appends covers.              *)
(***************************************************************************)
EXTENDS Integers, Sequences

CONSTANT sum           \* values produced, 10000 in the program

VARIABLES kind,        \* which of the two classes the loops run on
          rq, wq,
          produced,    \* the producer's i
          at, cnt      \* the consumer: its next step, the values it has popped

vars == <<kind, rq, wq, produced, at, cnt>>

Init ==
    /\ kind \in {"Queue", "DoubleBufferedQueue"}
    /\ rq = <<>> /\ wq = <<>>
    /\ produced = 0
    /\ at = "loop" /\ cnt = 0

PushQueue ==
    /\ kind = "Queue" /\ produced < sum
    /\ rq' = Append(rq, produced)
    /\ produced' = produced + 1
    /\ UNCHANGED <<kind, wq, at, cnt>>

PushDouble ==
    /\ kind = "DoubleBufferedQueue" /\ produced < sum
    /\ wq' = Append(wq, produced)
    /\ produced' = produced + 1
    /\ UNCHANGED <<kind, rq, at, cnt>>

(* The consumer's loop polls until the queue is not empty. *)
empty == rq = <<>> /\ wq = <<>>

Poll ==
    /\ at = "loop" /\ cnt < sum /\ ~empty
    /\ at' = "pop"
    /\ UNCHANGED <<kind, rq, wq, produced, cnt>>

Leave ==
    /\ at = "loop" /\ cnt = sum
    /\ at' = "done" /\ cnt' = 0
    /\ UNCHANGED <<kind, rq, wq, produced>>

(* Mutant: pop swaps whenever something has been written. *)
MutMustSwap == wq # <<>>

MustSwap == rq = <<>> /\ wq # <<>>

PopTest ==
    /\ at = "pop"
    /\ at' = IF kind = "DoubleBufferedQueue" /\ MustSwap THEN "swap" ELSE "front"
    /\ UNCHANGED <<kind, rq, wq, produced, cnt>>

PopSwap ==
    /\ at = "swap"
    /\ rq' = wq /\ wq' = rq
    /\ at' = "front"
    /\ UNCHANGED <<kind, produced, cnt>>

PopFront ==
    /\ at = "front" /\ rq # <<>>
    /\ rq' = Tail(rq)
    /\ cnt' = cnt + 1 /\ at' = "loop"
    /\ UNCHANGED <<kind, wq, produced>>

Produce == PushQueue \/ PushDouble

Consume == Poll \/ Leave \/ PopTest \/ PopSwap \/ PopFront

Next == Produce \/ Consume

(***************************************************************************)
(* When pop takes the front of rq there is one, and it is the oldest value *)
(* not yet popped: the swap, decided on a test made without wmtx, neither  *)
(* overtakes values that are still in rq nor leaves rq empty.              *)
(***************************************************************************)
FrontIsOldest == at = "front" => rq # <<>> /\ Head(rq) = cnt

(* The consumer has popped every value and left its loop. *)
Finished == at = "done"
=============================================================================
