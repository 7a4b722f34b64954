---------------------------- MODULE MCSync_proofs ---------------------------
(***************************************************************************)
(* Proofs about the queues, locks and channels of raw-examples, for every  *)
(* number of threads, slots and values.  The programs share no state: each *)
(* has its own inductive invariant, and a step of another program leaves   *)
(* it alone.                                                               *)
(***************************************************************************)
EXTENDS MCSync, SequenceTheorems, FiniteSetTheorems, TLAPS

-----------------------------------------------------------------------------
(* The double-buffered queue.                                              *)

(* A step of the whole is a step of the queue, or leaves it alone. *)
LEMMA DbqStep == [Next]_vars => Dbq!Next \/ UNCHANGED dbqVars
  BY DEF Next, vars, dbqVars

DbqTypes ==
    /\ kind \in {"Queue", "DoubleBufferedQueue"}
    /\ at \in {"loop", "pop", "swap", "front", "done"}
    /\ rq \in Seq(Nat) /\ wq \in Seq(Nat) /\ produced \in Nat /\ cnt \in Nat

(* The values cnt, cnt + 1, ... produced - 1 are in rq and behind it in wq. *)
DbqOrder ==
    /\ produced = cnt + Len(rq) + Len(wq)
    /\ \A i \in 1..Len(rq) : rq[i] = cnt + i - 1
    /\ \A i \in 1..Len(wq) : wq[i] = cnt + Len(rq) + i - 1

(* The consumer swaps only into an empty rq, and pops only from one that   *)
(* is not.                                                                 *)
DbqControl ==
    /\ kind = "Queue" => wq = <<>>
    /\ at = "pop" => rq # <<>> \/ wq # <<>>
    /\ at = "swap" => kind = "DoubleBufferedQueue" /\ rq = <<>> /\ wq # <<>>
    /\ at = "front" => rq # <<>>

DbqInv == DbqTypes /\ DbqControl /\ (at # "done" => DbqOrder)

(* A value pushed behind a run of numbers continues it. *)
LEMMA RunGrows ==
    ASSUME NEW s \in Seq(Nat), NEW b \in Nat, \A i \in 1..Len(s) : s[i] = b + i - 1
    PROVE  /\ Append(s, b + Len(s)) \in Seq(Nat) /\ Append(s, b + Len(s)) # <<>>
           /\ Len(Append(s, b + Len(s))) = Len(s) + 1
           /\ \A i \in 1..(Len(s) + 1) : Append(s, b + Len(s))[i] = b + i - 1
  <1>. DEFINE x == b + Len(s)
              t == Append(s, x)
  <1>1. x \in Nat /\ Len(s) \in Nat /\ x = b + (Len(s) + 1) - 1
    OBVIOUS
  <1>. HIDE DEF x
  <1>2. /\ t \in Seq(Nat) /\ Len(t) = Len(s) + 1 /\ t[Len(s) + 1] = x
        /\ \A i \in 1..Len(s) : t[i] = s[i]
    BY <1>1, AppendProperties
  <1>. HIDE DEF t
  <1>3. ASSUME NEW i \in 1..(Len(s) + 1) PROVE t[i] = b + i - 1
    <2>1. i \in 1..Len(s) \/ i = Len(s) + 1
      BY <1>1
    <2>. QED
      BY <1>1, <1>2, <2>1
  <1>4. t # <<>>
    BY <1>1, <1>2
  <1>. QED
    BY <1>2, <1>3, <1>4 DEF t, x

(* The first number taken from a run leaves the run that follows it. *)
LEMMA RunShrinks ==
    ASSUME NEW s \in Seq(Nat), NEW b \in Nat, s # <<>>, \A i \in 1..Len(s) : s[i] = b + i - 1
    PROVE  /\ Tail(s) \in Seq(Nat) /\ Len(Tail(s)) = Len(s) - 1
           /\ \A i \in 1..(Len(s) - 1) : Tail(s)[i] = (b + 1) + i - 1
  <1>1. /\ Tail(s) \in Seq(Nat) /\ Len(Tail(s)) = Len(s) - 1 /\ Len(s) \in Nat \ {0}
        /\ \A i \in 1..(Len(s) - 1) : Tail(s)[i] = s[i + 1]
    BY HeadTailProperties
  <1>2. ASSUME NEW i \in 1..(Len(s) - 1) PROVE Tail(s)[i] = (b + 1) + i - 1
    <2>1. i \in Nat /\ i + 1 \in 1..Len(s) /\ b + (i + 1) - 1 = (b + 1) + i - 1
      BY <1>1
    <2>. QED
      BY <1>1, <2>1
  <1>. QED
    BY <1>1, <1>2

(* Both loops keep the values in order. *)
LEMMA DbqKept == DbqInv /\ [Next]_vars => DbqInv'
  <1>. SUFFICES ASSUME DbqInv, Dbq!Next \/ UNCHANGED dbqVars PROVE DbqInv'
    BY DbqStep
  <1>t. DbqTypes /\ DbqControl
    BY DEF DbqInv
  <1>e. /\ Len(rq) \in Nat /\ Len(wq) \in Nat
        /\ rq = <<>> <=> Len(rq) = 0
        /\ wq = <<>> <=> Len(wq) = 0
    BY <1>t DEF DbqTypes
  <1>1. CASE Dbq!PushQueue
    <2>1. /\ kind = "Queue" /\ rq' = Append(rq, produced) /\ produced' = produced + 1
          /\ UNCHANGED <<kind, wq, at, cnt>>
      BY <1>1 DEF Dbq!PushQueue
    <2>2. wq = <<>> /\ Len(wq) = 0
      BY <2>1, <1>e, <1>t DEF DbqControl
    <2>3. rq' \in Seq(Nat) /\ rq' # <<>>
      <3>1. rq \in Seq(Nat) /\ produced \in Nat
        BY <1>t DEF DbqTypes
      <3>. QED
        BY <2>1, <3>1, AppendProperties
    <2>4. at # "done" => DbqOrder'
      <3>. SUFFICES ASSUME at # "done" PROVE DbqOrder'
        OBVIOUS
      <3>1. produced = cnt + Len(rq) /\ \A i \in 1..Len(rq) : rq[i] = cnt + i - 1
        BY <1>e, <1>t, <2>2 DEF DbqInv, DbqOrder, DbqTypes
      <3>2. /\ Len(rq') = Len(rq) + 1
            /\ \A i \in 1..(Len(rq) + 1) : rq'[i] = cnt + i - 1
        BY <1>t, <2>1, <3>1, RunGrows DEF DbqTypes
      <3>. QED
        BY <1>e, <1>t, <2>1, <2>2, <3>1, <3>2 DEF DbqOrder, DbqTypes
    <2>5. DbqTypes' /\ DbqControl'
      BY <1>t, <2>1, <2>3 DEF DbqTypes, DbqControl
    <2>. QED
      BY <2>1, <2>4, <2>5 DEF DbqInv
  <1>2. CASE Dbq!PushDouble
    <2>1. /\ kind = "DoubleBufferedQueue" /\ wq' = Append(wq, produced)
          /\ produced' = produced + 1 /\ UNCHANGED <<kind, rq, at, cnt>>
      BY <1>2 DEF Dbq!PushDouble
    <2>2. wq' \in Seq(Nat) /\ wq' # <<>>
      <3>1. wq \in Seq(Nat) /\ produced \in Nat
        BY <1>t DEF DbqTypes
      <3>. QED
        BY <2>1, <3>1, AppendProperties
    <2>3. at # "done" => DbqOrder'
      <3>. SUFFICES ASSUME at # "done" PROVE DbqOrder'
        OBVIOUS
      <3>1. /\ produced = cnt + Len(rq) + Len(wq) /\ cnt + Len(rq) \in Nat
            /\ \A i \in 1..Len(rq) : rq[i] = cnt + i - 1
            /\ \A i \in 1..Len(wq) : wq[i] = cnt + Len(rq) + i - 1
        BY <1>e, <1>t DEF DbqInv, DbqOrder, DbqTypes
      <3>2. /\ Len(wq') = Len(wq) + 1
            /\ \A i \in 1..(Len(wq) + 1) : wq'[i] = cnt + Len(rq) + i - 1
        BY <1>t, <2>1, <3>1, RunGrows DEF DbqTypes
      <3>3. produced' = cnt' + Len(rq') + Len(wq')
        BY <1>e, <1>t, <2>1, <3>1, <3>2 DEF DbqTypes
      <3>. QED
        BY <2>1, <3>1, <3>2, <3>3 DEF DbqOrder
    <2>4. DbqTypes' /\ DbqControl'
      BY <1>t, <2>1, <2>2 DEF DbqTypes, DbqControl
    <2>. QED
      BY <2>1, <2>3, <2>4 DEF DbqInv
  <1>3. CASE Dbq!Poll \/ Dbq!Leave \/ Dbq!PopTest
    <2>1. UNCHANGED <<kind, rq, wq, produced>> /\ (at' # "done" => at # "done" /\ cnt' = cnt)
      BY <1>3 DEF Dbq!Poll, Dbq!Leave, Dbq!PopTest
    <2>2. DbqTypes' /\ DbqControl'
      BY <1>3, <1>t
      DEF DbqTypes, DbqControl, Dbq!Poll, Dbq!empty, Dbq!Leave, Dbq!PopTest, Dbq!MustSwap
    <2>3. at' # "done" => DbqOrder'
      BY <2>1 DEF DbqInv, DbqOrder
    <2>. QED
      BY <2>2, <2>3 DEF DbqInv
  <1>4. CASE Dbq!PopSwap
    <2>1. /\ at = "swap" /\ rq' = wq /\ wq' = rq /\ at' = "front"
          /\ UNCHANGED <<kind, produced, cnt>>
      BY <1>4 DEF Dbq!PopSwap
    <2>2. DbqTypes' /\ DbqControl'
      BY <1>t, <2>1 DEF DbqTypes, DbqControl
    <2>3. Len(rq) = 0 /\ DbqOrder
      BY <1>e, <1>t, <2>1 DEF DbqControl, DbqInv
    <2>4. DbqOrder'
      BY <1>e, <1>t, <2>1, <2>3 DEF DbqOrder, DbqTypes
    <2>. QED
      BY <2>2, <2>4 DEF DbqInv
  <1>5. CASE Dbq!PopFront
    <2>1. /\ at = "front" /\ rq # <<>> /\ rq' = Tail(rq) /\ cnt' = cnt + 1 /\ at' = "loop"
          /\ UNCHANGED <<kind, wq, produced>>
      BY <1>5 DEF Dbq!PopFront
    <2>2. DbqOrder
      BY <2>1 DEF DbqInv
    <2>3. /\ rq' \in Seq(Nat) /\ Len(rq') = Len(rq) - 1
          /\ \A i \in 1..(Len(rq) - 1) : rq'[i] = (cnt + 1) + i - 1
      BY <1>t, <2>1, <2>2, RunShrinks DEF DbqTypes, DbqOrder
    <2>4. DbqTypes' /\ DbqControl'
      BY <1>t, <2>1, <2>3 DEF DbqTypes, DbqControl
    <2>5. DbqOrder'
      <3>1. /\ produced = cnt + Len(rq) + Len(wq) /\ cnt \in Nat
            /\ \A i \in 1..Len(wq) : wq[i] = cnt + Len(rq) + i - 1
        BY <1>t, <2>2 DEF DbqTypes, DbqOrder
      <3>2. cnt + 1 + (Len(rq) - 1) = cnt + Len(rq)
        BY <1>e, <3>1
      <3>. QED
        BY <2>1, <2>3, <3>1, <3>2 DEF DbqOrder
    <2>. QED
      BY <2>4, <2>5 DEF DbqInv
  <1>6. CASE UNCHANGED dbqVars
    BY <1>6 DEF DbqInv, DbqTypes, DbqControl, DbqOrder, dbqVars
  <1>. QED
    BY <1>1, <1>2, <1>3, <1>4, <1>5, <1>6 DEF Dbq!Next, Dbq!Produce, Dbq!Consume

(* Whatever the producer does between the test, the swap and the pop, pop  *)
(* finds the oldest value at the front of rq.                              *)
THEOREM DbqPopsInOrder == Spec => []DbqFifo
  <1>1. Init => DbqInv
    BY DEF Init, Dbq!Init, DbqInv, DbqTypes, DbqControl, DbqOrder
  <1>2. DbqInv => DbqFifo
    <2>. SUFFICES ASSUME DbqInv, at = "front" PROVE rq # <<>> /\ Head(rq) = cnt
      BY DEF DbqFifo, Dbq!FrontIsOldest
    <2>1. rq \in Seq(Nat) /\ rq # <<>> /\ cnt \in Nat
      BY DEF DbqInv, DbqTypes, DbqControl
    <2>2. Len(rq) \in Nat \ {0} /\ Head(rq) = rq[1]
      BY <2>1
    <2>3. rq[1] = cnt + 1 - 1
      BY <2>2 DEF DbqInv, DbqOrder
    <2>. QED
      BY <2>1, <2>2, <2>3
  <1>. QED
    BY <1>1, <1>2, DbqKept, PTL DEF Spec

-----------------------------------------------------------------------------
(* The single-producer single-consumer queue.                              *)

(* A step of the whole is a step of the queue, or leaves it alone. *)
LEMMA SpscStep == [Next]_vars => Spsc!Next \/ UNCHANGED spscVars
  BY DEF Next, vars, spscVars

(* The slot k places behind slot i. *)
Behind(i, k) == IF i + k >= SpscN THEN i + k - SpscN ELSE i + k

SpscTypes ==
    /\ sHead \in 0..(SpscN - 1) /\ sTail \in 0..(SpscN - 1)
    /\ queue \in [0..(SpscN - 1) -> Nat]
    /\ producer \in [at : {"test", "write", "store", "done"}, counter : Nat]
    /\ consumer \in [at : {"test", "read", "store", "done"}, failCount : Nat,
                     popped : Nat, element : Nat]

(* The values that were pushed and not yet popped. *)
Held == producer.counter - consumer.popped

(* The held values lie in the slots from sHead on, and one slot is free;   *)
(* the producer writes into a free slot, the consumer reads a held one.    *)
SpscOrder ==
    /\ Held \in 0..(SpscN - 1) /\ sTail = Behind(sHead, Held)
    /\ \A k \in 0..(SpscN - 1) : k < Held => queue[Behind(sHead, k)] = consumer.popped + 1 + k
    /\ producer.at \in {"write", "store"} => Held < SpscN - 1
    /\ producer.at = "store" => queue[sTail] = producer.counter + 1
    /\ consumer.at \in {"read", "store"} => Held > 0
    /\ consumer.at = "store" => consumer.element = consumer.popped + 1

SpscInv == SpscTypes /\ SpscOrder

(* Each access of push and of pop keeps the held values in their slots. *)
LEMMA SpscKept == SpscInv /\ [Next]_vars => SpscInv'
  <1>. SUFFICES ASSUME SpscInv, Spsc!Next \/ UNCHANGED spscVars PROVE SpscInv'
    BY SpscStep
  <1>n. SpscN \in Nat \ {0}
    BY SyncAssumption
  <1>t. SpscTypes /\ SpscOrder
    BY DEF SpscInv
  <1>f. \A i \in 0..(SpscN - 1) : Spsc!Following(i) = Behind(i, 1)
    BY <1>n DEF Behind, Spsc!Following
  <1>b. \A i \in 0..(SpscN - 1), k \in 0..(SpscN - 1) : Behind(i, k) \in 0..(SpscN - 1)
    BY <1>n DEF Behind
  <1>d. \A i \in 0..(SpscN - 1), j, k \in 0..(SpscN - 1) : j # k => Behind(i, j) # Behind(i, k)
    BY <1>n DEF Behind
  <1>1. CASE Spsc!PushTest
    <2>1. /\ producer.at = "test" /\ Behind(sTail, 1) # sHead
          /\ producer' = [producer EXCEPT !.at = "write"]
          /\ UNCHANGED <<sHead, sTail, queue, consumer>>
      BY <1>1, <1>f, <1>t DEF Spsc!PushTest, Spsc!Full, SpscTypes
    <2>2. Held < SpscN - 1
      <3>1. /\ Held \in 0..(SpscN - 1) /\ sTail = Behind(sHead, Held)
            /\ sHead \in 0..(SpscN - 1)
        BY <1>t DEF SpscTypes, SpscOrder
      <3>2. Behind(Behind(sHead, SpscN - 1), 1) = sHead
        BY <1>n, <3>1 DEF Behind
      <3>3. Held # SpscN - 1
        BY <2>1, <3>1, <3>2
      <3>. QED
        BY <1>n, <3>1, <3>3
    <2>3. producer' \in [at : {"test", "write", "store", "done"}, counter : Nat]
          /\ producer'.at = "write" /\ producer'.counter = producer.counter
      BY <1>t, <2>1 DEF SpscTypes
    <2>4. Held' = Held
      BY <2>1 DEF Held
    <2>5. SpscTypes'
      BY <1>t, <2>1, <2>3 DEF SpscTypes
    <2>6. SpscOrder'
      BY <1>t, <2>1, <2>2, <2>3, <2>4 DEF SpscOrder
    <2>. QED
      BY <2>5, <2>6 DEF SpscInv
  <1>2. CASE Spsc!PushWrite
    <2>1. /\ producer.at = "write"
          /\ queue' = [queue EXCEPT ![sTail] = producer.counter + 1]
          /\ producer' = [producer EXCEPT !.at = "store"]
          /\ UNCHANGED <<sHead, sTail, consumer>>
      BY <1>2 DEF Spsc!PushWrite
    <2>2. /\ producer' \in [at : {"test", "write", "store", "done"}, counter : Nat]
          /\ producer'.at = "store" /\ producer'.counter = producer.counter
          /\ Held' = Held
      BY <1>t, <2>1 DEF SpscTypes, Held
    <2>3. /\ queue' \in [0..(SpscN - 1) -> Nat] /\ queue'[sTail] = producer.counter + 1
          /\ \A j \in 0..(SpscN - 1) : j # sTail => queue'[j] = queue[j]
      BY <1>t, <2>1 DEF SpscTypes
    <2>4. ASSUME NEW k \in 0..(SpscN - 1), k < Held
          PROVE  queue'[Behind(sHead, k)] = consumer.popped + 1 + k
      <3>1. sTail = Behind(sHead, Held) /\ Held \in 0..(SpscN - 1) /\ k # Held
        BY <1>t, <2>4 DEF SpscOrder
      <3>2. Behind(sHead, k) # sTail /\ Behind(sHead, k) \in 0..(SpscN - 1)
        BY <1>b, <1>d, <1>t, <3>1 DEF SpscTypes
      <3>. QED
        BY <1>t, <2>3, <2>4, <3>2 DEF SpscOrder
    <2>5. SpscOrder'
      BY <1>t, <2>1, <2>2, <2>3, <2>4 DEF SpscOrder
    <2>. QED
      BY <1>t, <2>1, <2>2, <2>3, <2>5 DEF SpscInv, SpscTypes
  <1>3. CASE Spsc!PushStore
    <2>1. /\ producer.at = "store" /\ sTail' = Behind(sTail, 1)
          /\ producer' = [at |-> IF producer.counter + 1 >= SpscPushes THEN "done" ELSE "test",
                          counter |-> producer.counter + 1]
          /\ UNCHANGED <<sHead, queue, consumer>>
      BY <1>3, <1>f, <1>t DEF Spsc!PushStore, SpscTypes
    <2>2. /\ producer' \in [at : {"test", "write", "store", "done"}, counter : Nat]
          /\ producer'.at \in {"test", "done"} /\ producer'.counter = producer.counter + 1
      BY <1>t, <2>1 DEF SpscTypes
    <2>3. Held' = Held + 1 /\ Held \in Nat /\ Held < SpscN - 1
      BY <1>t, <2>1, <2>2 DEF SpscTypes, SpscOrder, Held
    <2>4. sTail' \in 0..(SpscN - 1) /\ sTail' = Behind(sHead', Held')
      <3>1. sTail = Behind(sHead, Held) /\ sHead \in 0..(SpscN - 1)
        BY <1>t DEF SpscTypes, SpscOrder
      <3>. QED
        BY <1>n, <2>1, <2>3, <3>1 DEF Behind
    <2>5. ASSUME NEW k \in 0..(SpscN - 1), k < Held'
          PROVE  queue'[Behind(sHead', k)] = consumer'.popped + 1 + k
      <3>1. CASE k < Held
        BY <1>t, <2>1, <3>1 DEF SpscOrder
      <3>2. CASE k = Held
        <4>1. queue[Behind(sHead, k)] = producer.counter + 1
          BY <1>t, <2>1, <3>2 DEF SpscOrder
        <4>2. producer.counter + 1 = consumer.popped + 1 + k
          BY <1>t, <3>2 DEF Held, SpscTypes
        <4>. QED
          BY <2>1, <4>1, <4>2
      <3>. QED
        BY <2>3, <2>5, <3>1, <3>2
    <2>6. SpscOrder'
      BY <1>n, <1>t, <2>1, <2>2, <2>3, <2>4, <2>5 DEF SpscOrder
    <2>. QED
      BY <1>t, <2>1, <2>2, <2>4, <2>6 DEF SpscInv, SpscTypes
  <1>4. CASE Spsc!PopEmpty
    <2>1. /\ UNCHANGED <<sHead, sTail, queue, producer>>
          /\ consumer' = [consumer EXCEPT
                            !.failCount = @ + 1,
                            !.at = IF consumer.failCount + 1 >= MaxFail THEN "done" ELSE "test"]
      BY <1>4 DEF Spsc!PopEmpty
    <2>c. consumer \in [at : {"test", "read", "store", "done"}, failCount : Nat,
                        popped : Nat, element : Nat]
      BY <1>t DEF SpscTypes
    <2>e. \E a \in {"test", "done"} :
            consumer' = [at |-> a, failCount |-> consumer.failCount + 1,
                         popped |-> consumer.popped, element |-> consumer.element]
      BY <2>c, <2>1
    <2>2. /\ consumer' \in [at : {"test", "read", "store", "done"}, failCount : Nat,
                            popped : Nat, element : Nat]
          /\ consumer'.at \in {"test", "done"} /\ consumer'.popped = consumer.popped
      BY <2>c, <2>e
    <2>. QED
      BY <1>t, <2>1, <2>2 DEF SpscInv, SpscTypes, SpscOrder, Held
  <1>5. CASE Spsc!PopTest
    <2>1. /\ UNCHANGED <<sHead, sTail, queue, producer>> /\ sHead # sTail
          /\ consumer' = [consumer EXCEPT !.at = "read"]
      BY <1>5 DEF Spsc!PopTest
    <2>2. /\ consumer' \in [at : {"test", "read", "store", "done"}, failCount : Nat,
                            popped : Nat, element : Nat]
          /\ consumer'.at = "read" /\ consumer'.popped = consumer.popped
      BY <1>t, <2>1 DEF SpscTypes
    <2>3. Held > 0
      BY <1>n, <1>t, <2>1 DEF SpscTypes, SpscOrder, Behind
    <2>. QED
      BY <1>t, <2>1, <2>2, <2>3 DEF SpscInv, SpscTypes, SpscOrder, Held
  <1>6. CASE Spsc!PopRead
    <2>1. /\ UNCHANGED <<sHead, sTail, queue, producer>> /\ consumer.at = "read"
          /\ consumer' = [consumer EXCEPT !.at = "store", !.element = queue[sHead]]
      BY <1>6 DEF Spsc!PopRead
    <2>2. Held > 0 /\ 0 \in 0..(SpscN - 1) /\ Behind(sHead, 0) = sHead
      BY <1>n, <1>t, <2>1 DEF SpscTypes, SpscOrder, Behind
    <2>3. queue[sHead] = consumer.popped + 1 /\ queue[sHead] \in Nat
      BY <1>t, <2>2 DEF SpscTypes, SpscOrder
    <2>4. /\ consumer' \in [at : {"test", "read", "store", "done"}, failCount : Nat,
                            popped : Nat, element : Nat]
          /\ consumer'.at = "store" /\ consumer'.popped = consumer.popped
          /\ consumer'.element = queue[sHead]
      BY <1>t, <2>1, <2>3 DEF SpscTypes
    <2>. QED
      BY <1>t, <2>1, <2>2, <2>3, <2>4 DEF SpscInv, SpscTypes, SpscOrder, Held
  <1>7. CASE Spsc!PopStore
    <2>1. /\ UNCHANGED <<sTail, queue, producer>> /\ consumer.at = "store"
          /\ sHead' = Behind(sHead, 1)
          /\ consumer' = [consumer EXCEPT !.at = "test", !.failCount = 0, !.popped = @ + 1]
      BY <1>7, <1>f, <1>t DEF Spsc!PopStore, SpscTypes
    <2>c. consumer \in [at : {"test", "read", "store", "done"}, failCount : Nat,
                        popped : Nat, element : Nat]
      BY <1>t DEF SpscTypes
    <2>e. consumer' = [at |-> "test", failCount |-> 0,
                       popped |-> consumer.popped + 1, element |-> consumer.element]
      BY <2>c, <2>1
    <2>2. /\ consumer' \in [at : {"test", "read", "store", "done"}, failCount : Nat,
                            popped : Nat, element : Nat]
          /\ consumer'.at = "test" /\ consumer'.popped = consumer.popped + 1
      BY <2>c, <2>e
    <2>h. Held \in 1..(SpscN - 1)
      BY <1>n, <1>t, <2>1 DEF SpscOrder
    <2>3. Held' = Held - 1 /\ Held \in 1..(SpscN - 1)
      <3>1. producer.counter \in Nat /\ consumer.popped \in Nat /\ producer' = producer
        BY <1>t, <2>1 DEF SpscTypes
      <3>. QED
        BY <2>2, <2>h, <3>1 DEF Held
    <2>4. sHead \in 0..(SpscN - 1) /\ sTail = Behind(sHead, Held)
      BY <1>t DEF SpscTypes, SpscOrder
    <2>5. sHead' \in 0..(SpscN - 1) /\ sTail = Behind(sHead', Held')
      BY <1>n, <2>1, <2>3, <2>4 DEF Behind
    <2>6. ASSUME NEW k \in 0..(SpscN - 1), k < Held'
          PROVE  queue'[Behind(sHead', k)] = consumer'.popped + 1 + k
      <3>1. k + 1 \in 0..(SpscN - 1) /\ k + 1 < Held
        BY <1>n, <2>3, <2>6
      <3>2. Behind(sHead', k) = Behind(sHead, k + 1)
        BY <1>n, <2>1, <2>4, <3>1 DEF Behind
      <3>3. queue[Behind(sHead, k + 1)] = consumer.popped + 1 + (k + 1)
        BY <1>t, <3>1 DEF SpscOrder
      <3>4. consumer.popped + 1 + (k + 1) = consumer'.popped + 1 + k
        BY <1>t, <2>2 DEF SpscTypes
      <3>. QED
        BY <2>1, <3>2, <3>3, <3>4
    <2>7. SpscOrder'
      BY <1>n, <1>t, <2>1, <2>2, <2>3, <2>5, <2>6 DEF SpscOrder
    <2>. QED
      BY <1>t, <2>1, <2>2, <2>5, <2>7 DEF SpscInv, SpscTypes
  <1>8. CASE UNCHANGED spscVars
    BY <1>8 DEF SpscInv, SpscTypes, SpscOrder, Held, spscVars
  <1>. QED
    BY <1>1, <1>2, <1>3, <1>4, <1>5, <1>6, <1>7, <1>8 DEF Spsc!Next, Spsc!Push, Spsc!Pop

(* With any number of slots, one producer and one consumer get the values  *)
(* across in order, and their plain accesses to a slot never meet.         *)
THEOREM SpscInOrder == Spec => []SpscFifo
  <1>1. Init => SpscInv
    <2>. SUFFICES ASSUME Spsc!Init PROVE SpscInv
      BY DEF Init
    <2>n. SpscN \in Nat \ {0}
      BY SyncAssumption
    <2>1. SpscTypes
      BY <2>n DEF Spsc!Init, SpscTypes
    <2>2. Held = 0 /\ Behind(sHead, Held) = sTail
      BY <2>n DEF Spsc!Init, Held, Behind
    <2>3. SpscOrder
      BY <2>n, <2>2 DEF Spsc!Init, SpscOrder
    <2>. QED
      BY <2>1, <2>3 DEF SpscInv
  <1>2. SpscInv => SpscFifo
    <2>. SUFFICES ASSUME SpscInv PROVE Spsc!FifoNoRace
      BY DEF SpscFifo
    <2>n. SpscN \in Nat \ {0}
      BY SyncAssumption
    <2>1. consumer.at = "store" => consumer.element = consumer.popped + 1
      BY DEF SpscInv, SpscOrder
    <2>2. consumer.popped <= producer.counter
      BY DEF SpscInv, SpscOrder, SpscTypes, Held
    <2>3. ASSUME producer.at = "write", consumer.at = "read" PROVE sHead # sTail
      <3>1. /\ Held > 0 /\ Held \in 0..(SpscN - 1) /\ sTail = Behind(sHead, Held)
            /\ sHead \in 0..(SpscN - 1)
        BY <2>3 DEF SpscInv, SpscOrder, SpscTypes
      <3>. QED
        BY <2>n, <3>1 DEF Behind
    <2>. QED
      BY <2>1, <2>2, <2>3 DEF Spsc!FifoNoRace
  <1>. QED
    BY <1>1, <1>2, SpscKept, PTL DEF Spec

-----------------------------------------------------------------------------
(* The reader-writer lock.                                                 *)

(* A step of the whole is a step of the lock, or leaves it alone. *)
LEMMA RWStep == [Next]_vars => RW!Next \/ UNCHANGED rwVars
  BY DEF Next, vars, rwVars

RWTypes ==
    /\ rwAt \in [Checkers \cup Buyers -> {"start", "wait", "woken", "in", "done"}]
    /\ wflag \in BOOLEAN

Readers == {t \in Checkers : rwAt[t] = "in"}
Writers == {t \in Buyers : rwAt[t] = "in"}

(* The writers that have counted themselves. *)
Counted == {t \in Buyers : rwAt[t] \in {"wait", "woken", "in"}}

RWInv ==
    /\ RWTypes
    /\ rcnt = Cardinality(Readers) /\ wcnt = Cardinality(Counted)
    /\ wflag <=> Writers # {}
    /\ \A b \in Writers, t \in Readers \cup Writers : t = b

(* A thread that moves changes no other thread but those it wakes up. *)
LEMMA MovedEffect ==
    ASSUME RWTypes, NEW t \in Checkers \cup Buyers,
           NEW where \in {"wait", "in", "done"},
           NEW woken, \A u \in woken : rwAt[u] = "wait",
           RW!Moved(t, where, woken)
    PROVE  /\ rwAt' \in [Checkers \cup Buyers -> {"start", "wait", "woken", "in", "done"}]
           /\ rwAt'[t] = where
           /\ \A u \in Checkers \cup Buyers : u # t =>
                /\ rwAt'[u] = "in" <=> rwAt[u] = "in"
                /\ rwAt'[u] \in {"wait", "woken", "in"} <=> rwAt[u] \in {"wait", "woken", "in"}
  <1>1. /\ rwAt \in [Checkers \cup Buyers -> {"start", "wait", "woken", "in", "done"}]
        /\ rwAt' = [u \in Checkers \cup Buyers |->
                      IF u = t THEN where ELSE IF u \in woken THEN "woken" ELSE rwAt[u]]
    BY DEF RWTypes, RW!Moved, RW!Threads
  <1>. QED
    BY <1>1

(* notify_one wakes only a thread that waits. *)
LEMMA OneWaits ==
    ASSUME NEW S, NEW woken \in RW!One(S) PROVE \A u \in woken : rwAt[u] = "wait"
  BY DEF RW!One, RW!Waiting

(* The sets that are counted are finite. *)
LEMMA RWFinite ==
    /\ IsFiniteSet(Readers) /\ IsFiniteSet(Writers) /\ IsFiniteSet(Counted)
    /\ Cardinality(Readers) \in Nat /\ Cardinality(Counted) \in Nat
    /\ Cardinality(Readers) = 0 => Readers = {}
    /\ Cardinality(Counted) = 0 => Counted = {}
  <1>1. Readers \in SUBSET Checkers /\ Writers \in SUBSET Buyers /\ Counted \in SUBSET Buyers
    BY DEF Readers, Writers, Counted
  <1>2. IsFiniteSet(Readers) /\ IsFiniteSet(Writers) /\ IsFiniteSet(Counted)
    BY <1>1, SyncAssumption, FS_Subset
  <1>. QED
    BY <1>2, FS_CardinalityType, FS_EmptySet

(* Every member function keeps the counters right and the writer alone. *)
LEMMA RWKept == RWInv /\ [Next]_vars => RWInv'
  <1>. SUFFICES ASSUME RWInv, RW!Next \/ UNCHANGED rwVars PROVE RWInv'
    BY RWStep
  <1>t. RWTypes /\ Checkers \cap Buyers = {}
    BY SyncAssumption DEF RWInv
  <1>1. ASSUME NEW t \in Checkers, RW!rdLock(t) PROVE RWInv'
    <2>1. /\ UNCHANGED <<wcnt, wflag>> /\ rwAt[t] \in {"start", "woken"}
          /\ \/ wcnt = 0 /\ rcnt' = rcnt + 1 /\ RW!Moved(t, "in", {})
             \/ rcnt' = rcnt /\ RW!Moved(t, "wait", {})
      BY <1>1 DEF RW!rdLock
    <2>2. CASE wcnt = 0 /\ rcnt' = rcnt + 1 /\ RW!Moved(t, "in", {})
      <3>1. /\ RWTypes' /\ Readers' = Readers \cup {t} /\ Writers' = Writers
            /\ Counted' = Counted /\ t \notin Readers
        BY <1>t, <2>1, <2>2, MovedEffect DEF RWTypes, Readers, Writers, Counted
      <3>2. Writers = {}
        BY <2>2, RWFinite DEF RWInv, Writers, Counted
      <3>3. rcnt' = Cardinality(Readers')
        BY <2>2, <3>1, RWFinite, FS_AddElement DEF RWInv
      <3>. QED
        BY <2>1, <3>1, <3>2, <3>3 DEF RWInv
    <2>3. CASE rcnt' = rcnt /\ RW!Moved(t, "wait", {})
      <3>1. /\ RWTypes' /\ Readers' = Readers /\ Writers' = Writers
            /\ Counted' = Counted
        BY <1>t, <2>1, <2>3, MovedEffect DEF RWTypes, Readers, Writers, Counted
      <3>. QED
        BY <2>1, <2>3, <3>1 DEF RWInv
    <2>. QED
      BY <2>1, <2>2, <2>3
  <1>2. ASSUME NEW t \in Checkers, RW!rdUnlock(t) PROVE RWInv'
    <2>1. /\ UNCHANGED <<wcnt, wflag>> /\ rwAt[t] = "in" /\ rcnt' = rcnt - 1
          /\ \E woken \in RW!One(Buyers) \cup {{}} : RW!Moved(t, "done", woken)
      BY <1>2 DEF RW!rdUnlock
    <2>2. PICK woken \in RW!One(Buyers) \cup {{}} : RW!Moved(t, "done", woken)
      BY <2>1
    <2>3. \A u \in woken : rwAt[u] = "wait"
      BY <2>2, OneWaits
    <2>4. /\ RWTypes' /\ Readers' = Readers \ {t} /\ Writers' = Writers
          /\ Counted' = Counted /\ t \in Readers
      BY <1>t, <2>1, <2>2, <2>3, MovedEffect DEF RWTypes, Readers, Writers, Counted
    <2>5. rcnt' = Cardinality(Readers')
      BY <2>1, <2>4, RWFinite, FS_RemoveElement DEF RWInv
    <2>. QED
      BY <2>1, <2>4, <2>5 DEF RWInv
  <1>3. ASSUME NEW t \in Buyers, RW!wrLock(t) PROVE RWInv'
    <2>1. /\ UNCHANGED rcnt /\ rwAt[t] \in {"start", "woken"}
          /\ wcnt' = IF rwAt[t] = "start" THEN wcnt + 1 ELSE wcnt
          /\ \/ rcnt = 0 /\ ~wflag /\ wflag' = TRUE /\ RW!Moved(t, "in", {})
             \/ wflag' = wflag /\ RW!Moved(t, "wait", {})
      BY <1>3 DEF RW!wrLock, RW!MayWrite
    <2>m. \E where \in {"wait", "in"} : RW!Moved(t, where, {})
      BY <2>1
    <2>2. /\ RWTypes' /\ Readers' = Readers /\ Counted' = Counted \cup {t}
          /\ t \in Counted <=> rwAt[t] # "start"
      <3>1. PICK where \in {"wait", "in"} : RW!Moved(t, where, {})
        BY <2>m
      <3>2. /\ rwAt' \in [Checkers \cup Buyers -> {"start", "wait", "woken", "in", "done"}]
            /\ rwAt'[t] = where
            /\ \A u \in Checkers \cup Buyers : u # t =>
                 /\ rwAt'[u] = "in" <=> rwAt[u] = "in"
                 /\ rwAt'[u] \in {"wait", "woken", "in"} <=> rwAt[u] \in {"wait", "woken", "in"}
        BY <1>t, <3>1, MovedEffect
      <3>3. wflag' \in BOOLEAN
        BY <1>t, <2>1 DEF RWTypes
      <3>. QED
        BY <1>t, <2>1, <3>2, <3>3 DEF RWTypes, Readers, Counted
    <2>3. wcnt' = Cardinality(Counted')
      BY <2>1, <2>2, RWFinite, FS_AddElement DEF RWInv
    <2>4. CASE rcnt = 0 /\ ~wflag /\ wflag' = TRUE /\ RW!Moved(t, "in", {})
      <3>1. Readers = {} /\ Writers = {}
        BY <2>4, RWFinite DEF RWInv
      <3>2. Writers' = {t}
        BY <1>t, <2>4, <3>1, MovedEffect DEF Writers
      <3>. QED
        BY <2>1, <2>2, <2>3, <2>4, <3>1, <3>2 DEF RWInv
    <2>5. CASE wflag' = wflag /\ RW!Moved(t, "wait", {})
      <3>1. Writers' = Writers
        BY <1>t, <2>1, <2>5, MovedEffect DEF Writers
      <3>. QED
        BY <2>1, <2>2, <2>3, <2>5, <3>1 DEF RWInv
    <2>. QED
      BY <2>1, <2>4, <2>5
  <1>4. ASSUME NEW t \in Buyers, RW!wrUnlock(t) PROVE RWInv'
    <2>1. /\ UNCHANGED rcnt /\ rwAt[t] = "in" /\ wcnt' = wcnt - 1 /\ wflag' = FALSE
          /\ \E woken \in RW!One(Buyers) \cup {RW!Waiting(Checkers)} : RW!Moved(t, "done", woken)
      BY <1>4 DEF RW!wrUnlock, RW!AfterWriter
    <2>2. PICK woken \in RW!One(Buyers) \cup {RW!Waiting(Checkers)} : RW!Moved(t, "done", woken)
      BY <2>1
    <2>3. \A u \in woken : rwAt[u] = "wait"
      BY <2>2, OneWaits DEF RW!Waiting
    <2>4. /\ RWTypes' /\ Readers' = Readers /\ Writers' = Writers \ {t}
          /\ Counted' = Counted \ {t} /\ t \in Counted /\ t \in Writers
      BY <1>t, <2>1, <2>2, <2>3, MovedEffect DEF RWTypes, Readers, Writers, Counted
    <2>5. wcnt' = Cardinality(Counted')
      BY <2>1, <2>4, RWFinite, FS_RemoveElement DEF RWInv
    <2>6. Writers' = {}
      BY <2>4 DEF RWInv
    <2>. QED
      BY <2>1, <2>4, <2>5, <2>6 DEF RWInv
  <1>5. CASE UNCHANGED rwVars
    BY <1>5 DEF RWInv, RWTypes, Readers, Writers, Counted, rwVars
  <1>6. ASSUME RW!Next PROVE RWInv'
    <2>1. PICK t \in Checkers \cup Buyers : RW!Step(t)
      BY <1>6 DEF RW!Next, RW!Threads
    <2>2. \/ t \in Checkers /\ (RW!rdLock(t) \/ RW!rdUnlock(t))
          \/ t \in Buyers /\ (RW!wrLock(t) \/ RW!wrUnlock(t))
      BY <2>1 DEF RW!Step, RW!rdLock, RW!rdUnlock, RW!wrLock, RW!wrUnlock
    <2>. QED
      BY <1>1, <1>2, <1>3, <1>4, <2>2
  <1>. QED
    BY <1>5, <1>6

(* With any number of readers and writers a writer is alone in the lock,   *)
(* and the counters that decide it count what they should.                 *)
THEOREM RWWriterAlone == Spec => []WriterAlone
  <1>1. Init => RWInv
    <2>. SUFFICES ASSUME RW!Init PROVE RWInv
      BY DEF Init
    <2>1. RWTypes /\ rcnt = 0 /\ wcnt = 0 /\ ~wflag
      BY DEF RW!Init, RW!Threads, RWTypes
    <2>2. Readers = {} /\ Writers = {} /\ Counted = {}
      BY DEF RW!Init, RW!Threads, Readers, Writers, Counted
    <2>. QED
      BY <2>1, <2>2, FS_EmptySet DEF RWInv
  <1>2. RWInv => WriterAlone
    <2>. SUFFICES ASSUME RWInv PROVE RW!WriterAlone
      BY DEF WriterAlone
    <2>1. /\ RW!Inside(Buyers) = Writers /\ RW!Inside(Checkers) = Readers
          /\ RW!Inside(RW!Threads) = Readers \cup Writers
      BY DEF RW!Inside, RW!Threads, Readers, Writers
    <2>2. ASSUME Writers # {} PROVE Cardinality(Readers \cup Writers) = 1
      <3>1. PICK b \in Writers : TRUE
        BY <2>2
      <3>2. Readers \cup Writers = {b}
        BY <3>1 DEF RWInv
      <3>. QED
        BY <3>2, FS_Singleton
    <2>3. wflag <=> Writers # {}
      BY DEF RWInv
    <2>4. rcnt = Cardinality(Readers) /\ wcnt = Cardinality(Counted)
      BY DEF RWInv
    <2>5. \A S : RW!Cardinality(S) = Cardinality(S)
      BY DEF RW!Cardinality, Cardinality
    <2>. QED
      BY <2>1, <2>2, <2>3, <2>4, <2>5 DEF RW!WriterAlone, Counted
  <1>. QED
    BY <1>1, <1>2, RWKept, PTL DEF Spec

-----------------------------------------------------------------------------
(* The shared-memory channel.                                              *)

(* A step of the whole is a step of the channel, or leaves it alone. *)
LEMMA ShmStep == [Next]_vars => Shm!Next \/ UNCHANGED shmVars
  BY DEF Next, vars, shmVars

WriterAt == {"shmget", "semget", "setall", "p1", "write", "v2", "rmshm", "rmsem", "done", "failed"}
ReaderAt == {"shmget", "semget", "test", "p2", "read", "v1", "rmshm", "rmsem", "done", "failed"}

ShmTypes ==
    /\ segment \in 0..1 /\ num \in [1..2 -> Nat]
    /\ sem = <<>> \/ sem \in [1..2 -> Nat]
    /\ w \in [at : WriterAt, shm : 0..1, i : Nat]
    /\ r \in [at : ReaderAt, shm : 0..1, received : Nat]

(* The scalars that the processes share and keep. *)
WAt == w.at
WShm == w.shm
Sent == w.i
RAt == r.at
RShm == r.shm
Got == r.received
Sems == sem # <<>>
Sem1 == sem[1]
Sem2 == sem[2]
Num == num[1]

(* Who is between P and V. *)
Writing == IF WAt \in {"write", "v2"} THEN 1 ELSE 0
Fetching == IF RAt = "read" THEN 1 ELSE 0
Returning == IF RAt = "v1" THEN 1 ELSE 0

(* Both processes use segment 1: it is there while one is still to get it. *)
ShmSegment ==
    /\ WShm = IF WAt = "shmget" THEN 0 ELSE 1
    /\ RShm = IF RAt = "shmget" THEN 0 ELSE 1
    /\ WAt = "shmget" \/ RAt = "shmget" =>
         segment = IF WAt # "shmget" \/ RAt # "shmget" THEN 1 ELSE 0

(* The messages handed over and taken, with or without the semaphores. *)
ShmTurns ==
    /\ Sent >= Got + Fetching
    /\ Sent + Writing + Returning <= Got + 1
    /\ Sems =>
         /\ Sem2 = Sent - Got - Fetching
         /\ Sem1 = IF WAt = "setall" THEN 0 ELSE Got + 1 - Sent - Writing - Returning

(* How far the writer is, and what that says of the message it wrote. *)
ShmWriter ==
    /\ WAt \in {"shmget", "semget", "setall"} => Sent = 0
    /\ WAt \in {"shmget", "semget", "setall", "p1", "write"} =>
         Sent <= Last /\ Num = IF Sent = 0 THEN 0 ELSE Sent - 1
    /\ WAt = "v2" => Sent <= Last /\ Num = Sent
    /\ WAt \in {"rmshm", "rmsem", "done"} => Sent = Last + 1 /\ Num = Last

(* Who can be where while there are no semaphores. *)
ShmLife ==
    /\ WAt \in {"shmget", "semget"} => ~Sems /\ RAt \in {"shmget", "semget", "failed"}
    /\ ~Sems => WAt \in {"shmget", "semget", "done"} \/ RAt \in {"done", "failed"}
    /\ WAt = "failed" => ~Sems /\ RAt \in {"done", "failed"}
    /\ RAt \in {"shmget", "semget"} => Got = 0
    /\ RAt = "read" => Num = Got
    /\ RAt = "v1" => Got > 0
    /\ RAt \in {"rmshm", "rmsem", "done"} => Got >= Last

ShmInv == ShmTypes /\ ShmSegment /\ ShmTurns /\ ShmWriter /\ ShmLife

(* The semaphore set, seen as a function. *)
LEMMA SemSet ==
    /\ <<0, 0>> \in [1..2 -> Nat] /\ <<1, 0>> \in [1..2 -> Nat]
    /\ <<0, 0>>[1] = 0 /\ <<0, 0>>[2] = 0 /\ <<1, 0>>[1] = 1 /\ <<1, 0>>[2] = 0
    /\ \A f \in [1..2 -> Nat] : f # <<>>
  <1>1. \A f \in [1..2 -> Nat] : f # <<>>
    <2>. SUFFICES ASSUME NEW f \in [1..2 -> Nat], f = <<>> PROVE FALSE
      OBVIOUS
    <2>1. DOMAIN f = 1..2 /\ DOMAIN f = {}
      OBVIOUS
    <2>2. 1 \in 1..2
      OBVIOUS
    <2>. QED
      BY <2>1, <2>2
  <1>2. <<0, 0>> \in [1..2 -> Nat] /\ <<1, 0>> \in [1..2 -> Nat]
    OBVIOUS
  <1>. QED
    BY <1>1, <1>2

(* A process goes on to its next step. *)
LEMMA WriterMoves ==
    ASSUME ShmTypes, NEW a \in WriterAt, NEW g \in 0..1, NEW k \in Nat,
           w' = [at |-> a, shm |-> g, i |-> k]
    PROVE  w' \in [at : WriterAt, shm : 0..1, i : Nat] /\ WAt' = a /\ WShm' = g /\ Sent' = k
  BY DEF WAt, WShm, Sent

(* The same for the reader. *)
LEMMA ReaderMoves ==
    ASSUME ShmTypes, NEW a \in ReaderAt, NEW g \in 0..1, NEW k \in Nat,
           r' = [at |-> a, shm |-> g, received |-> k]
    PROVE  r' \in [at : ReaderAt, shm : 0..1, received : Nat] /\ RAt' = a /\ RShm' = g /\ Got' = k
  BY DEF RAt, RShm, Got

(* The records, field by field. *)
LEMMA ShmRecords ==
    ASSUME ShmTypes
    PROVE  /\ w = [at |-> WAt, shm |-> WShm, i |-> Sent]
           /\ r = [at |-> RAt, shm |-> RShm, received |-> Got]
           /\ WAt \in WriterAt /\ WShm \in 0..1 /\ Sent \in Nat
           /\ RAt \in ReaderAt /\ RShm \in 0..1 /\ Got \in Nat
           /\ Num \in Nat /\ Sems \in BOOLEAN /\ (Sems => Sem1 \in Nat /\ Sem2 \in Nat)
  <1>1. w = [at |-> WAt, shm |-> WShm, i |-> Sent]
    BY DEF ShmTypes, WAt, WShm, Sent
  <1>2. r = [at |-> RAt, shm |-> RShm, received |-> Got]
    BY DEF ShmTypes, RAt, RShm, Got
  <1>3. WAt \in WriterAt /\ WShm \in 0..1 /\ Sent \in Nat
    BY DEF ShmTypes, WAt, WShm, Sent
  <1>4. RAt \in ReaderAt /\ RShm \in 0..1 /\ Got \in Nat
    BY DEF ShmTypes, RAt, RShm, Got
  <1>5. Num \in Nat /\ Sems \in BOOLEAN /\ (Sems => Sem1 \in Nat /\ Sem2 \in Nat)
    BY DEF ShmTypes, Num, Sems, Sem1, Sem2
  <1>. QED
    BY <1>1, <1>2, <1>3, <1>4, <1>5

(* What a process leaves alone. *)
LEMMA ShmFrames ==
    /\ UNCHANGED w => UNCHANGED <<WAt, WShm, Sent>>
    /\ UNCHANGED r => UNCHANGED <<RAt, RShm, Got>>
    /\ UNCHANGED num => UNCHANGED Num
    /\ UNCHANGED sem => UNCHANGED <<Sems, Sem1, Sem2>>
  BY DEF WAt, WShm, Sent, RAt, RShm, Got, Num, Sems, Sem1, Sem2

(* P passes a semaphore that is not zero. *)
LEMMA SemDown ==
    ASSUME ShmTypes, NEW k \in 1..2, Shm!P(k)
    PROVE  /\ sem' \in [1..2 -> Nat] /\ Sems /\ Sems'
           /\ k = 1 => Sem1 > 0 /\ Sem1' = Sem1 - 1 /\ Sem2' = Sem2
           /\ k = 2 => Sem2 > 0 /\ Sem2' = Sem2 - 1 /\ Sem1' = Sem1
  <1>1. sem \in [1..2 -> Nat] /\ sem[k] > 0 /\ sem' = [sem EXCEPT ![k] = sem[k] - 1]
    BY DEF ShmTypes, Shm!P, Shm!HaveSem
  <1>2. sem' \in [1..2 -> Nat] /\ sem'[k] = sem[k] - 1 /\ \A j \in 1..2 : j # k => sem'[j] = sem[j]
    BY <1>1
  <1>3. Sems /\ Sems'
    BY <1>1, <1>2, SemSet DEF Sems
  <1>. QED
    BY <1>1, <1>2, <1>3 DEF Sem1, Sem2

(* V raises a semaphore. *)
LEMMA SemUp ==
    ASSUME ShmTypes, NEW k \in 1..2, Shm!V(k)
    PROVE  /\ sem' \in [1..2 -> Nat] /\ Sems /\ Sems'
           /\ k = 1 => Sem1' = Sem1 + 1 /\ Sem2' = Sem2
           /\ k = 2 => Sem2' = Sem2 + 1 /\ Sem1' = Sem1
  <1>1. sem \in [1..2 -> Nat] /\ sem' = [sem EXCEPT ![k] = sem[k] + 1]
    BY DEF ShmTypes, Shm!V, Shm!HaveSem
  <1>2. sem' \in [1..2 -> Nat] /\ sem'[k] = sem[k] + 1 /\ \A j \in 1..2 : j # k => sem'[j] = sem[j]
    BY <1>1
  <1>3. Sems /\ Sems'
    BY <1>1, <1>2, SemSet DEF Sems
  <1>. QED
    BY <1>1, <1>2, <1>3 DEF Sem1, Sem2

(* Each step of the writer keeps the turns. *)
LEMMA ShmWriterKept == ShmInv /\ Shm!Writer => ShmInv'
  <1>. SUFFICES ASSUME ShmInv, Shm!Writer PROVE ShmInv'
    OBVIOUS
  <1>t. ShmTypes /\ ShmSegment /\ ShmTurns /\ ShmWriter /\ ShmLife
    BY DEF ShmInv
  <1>l. Last \in Nat \ {0}
    BY SyncAssumption
  <1>v. /\ w = [at |-> WAt, shm |-> WShm, i |-> Sent]
        /\ r = [at |-> RAt, shm |-> RShm, received |-> Got]
        /\ WAt \in WriterAt /\ WShm \in 0..1 /\ Sent \in Nat
        /\ RAt \in ReaderAt /\ RShm \in 0..1 /\ Got \in Nat
        /\ Num \in Nat /\ Sems \in BOOLEAN /\ (Sems => Sem1 \in Nat /\ Sem2 \in Nat)
    BY <1>t, ShmRecords
  <1>n. /\ Sent \in Nat /\ Got \in Nat /\ Num \in Nat /\ (Sems => Sem1 \in Nat /\ Sem2 \in Nat)
        /\ WAt \in WriterAt /\ RAt \in ReaderAt
    BY <1>v
  <1>g. WAt = "shmget" => Shm!Segment = 1
    BY <1>t, <1>v DEF ShmSegment, Shm!Segment, WShm, RShm, ShmTypes
  <1>1. CASE Shm!WriterGet
    <2>1. /\ w.at = "shmget" /\ w' = [at |-> "semget", shm |-> 1, i |-> Sent]
          /\ UNCHANGED <<num, sem, r>> /\ segment' = 1
      <3>1. w.at = "shmget" /\ Shm!Segment = 1
        BY <1>1, <1>g DEF Shm!WriterGet, WAt
      <3>2. /\ w' = [w EXCEPT !.at = "semget", !.shm = 1]
            /\ UNCHANGED <<num, sem, r>> /\ segment' = 1
        BY <1>1, <3>1, Zenon DEF Shm!WriterGet
      <3>. QED
        BY <1>v, <3>1, <3>2
    <2>2. /\ WAt = "shmget" /\ w' \in [at : WriterAt, shm : 0..1, i : Nat]
          /\ WAt' = "semget" /\ WShm' = 1 /\ Sent' = Sent
      BY <1>t, <1>v, <2>1, WriterMoves DEF WAt, WriterAt
    <2>3. UNCHANGED <<Num, Sems, Sem1, Sem2, RAt, RShm, Got>>
      BY <2>1, ShmFrames
    <2>4. segment' = 1
      BY <2>1
    <2>5. ShmTypes'
      BY <1>t, <2>1, <2>2, <2>4 DEF ShmTypes
    <2>6. ShmSegment'
      BY <1>l, <1>n, <1>t, <2>2, <2>3, <2>4 DEF ShmSegment, ShmTurns, ShmLife, ShmWriter,
         Writing, Returning, Fetching
    <2>7. ShmTurns'
      BY <1>l, <1>n, <1>t, <2>2, <2>3, <2>4 DEF ShmTurns, ShmWriter, ShmLife, Writing, Fetching,
         Returning
    <2>8. ShmWriter'
      BY <1>l, <1>n, <1>t, <2>2, <2>3, <2>4 DEF ShmWriter, ShmLife
    <2>9. ShmLife'
      BY <1>l, <1>n, <1>t, <2>2, <2>3, <2>4 DEF ShmTurns, ShmWriter, ShmLife, Writing, Fetching,
         Returning
    <2>. QED
      BY <2>5, <2>6, <2>7, <2>8, <2>9 DEF ShmInv
  <1>2. CASE Shm!WriterSemGet
    <2>1. /\ w.at = "semget" /\ w' = [at |-> "setall", shm |-> WShm, i |-> Sent]
          /\ UNCHANGED <<segment, num, r>>
          /\ sem' = <<0, 0>>
      BY <1>2, <1>t, <1>v DEF Shm!WriterSemGet, Shm!HaveSem, ShmLife, Sems, WAt
    <2>2. /\ WAt = "semget" /\ w' \in [at : WriterAt, shm : 0..1, i : Nat]
          /\ WAt' = "setall" /\ WShm' = WShm /\ Sent' = Sent
      BY <1>t, <1>v, <2>1, WriterMoves DEF WAt, WriterAt
    <2>3. UNCHANGED <<segment, Num, RAt, RShm, Got>>
      BY <2>1, ShmFrames
    <2>4. /\ sem' \in [1..2 -> Nat] /\ Sems' /\ Sem1' = 0 /\ Sem2' = 0
      BY <2>1, SemSet DEF Sems, Sem1, Sem2
    <2>5. ShmTypes'
      BY <1>t, <2>1, <2>2, <2>4 DEF ShmTypes
    <2>6. ShmSegment'
      BY <1>l, <1>n, <1>t, <2>2, <2>3, <2>4 DEF ShmSegment, ShmTurns, ShmLife, ShmWriter,
         Writing, Returning, Fetching
    <2>7. ShmTurns'
      BY <1>l, <1>n, <1>t, <2>2, <2>3, <2>4 DEF ShmTurns, ShmWriter, ShmLife, Writing, Fetching,
         Returning
    <2>8. ShmWriter'
      BY <1>l, <1>n, <1>t, <2>2, <2>3, <2>4 DEF ShmWriter, ShmLife
    <2>9. ShmLife'
      BY <1>l, <1>n, <1>t, <2>2, <2>3, <2>4 DEF ShmTurns, ShmWriter, ShmLife, Writing, Fetching,
         Returning
    <2>. QED
      BY <2>5, <2>6, <2>7, <2>8, <2>9 DEF ShmInv
  <1>3. CASE Shm!WriterSetAll
    <2>1. /\ w.at = "setall" /\ w' = [at |-> "p1", shm |-> WShm, i |-> Sent]
          /\ UNCHANGED <<segment, num, r>>
          /\ sem' = <<1, 0>>
      BY <1>3, <1>v DEF Shm!WriterSetAll
    <2>2. /\ WAt = "setall" /\ w' \in [at : WriterAt, shm : 0..1, i : Nat]
          /\ WAt' = "p1" /\ WShm' = WShm /\ Sent' = Sent
      BY <1>t, <1>v, <2>1, WriterMoves DEF WAt, WriterAt
    <2>3. UNCHANGED <<segment, Num, RAt, RShm, Got>>
      BY <2>1, ShmFrames
    <2>4. /\ sem' \in [1..2 -> Nat] /\ Sems' /\ Sem1' = 1 /\ Sem2' = 0
      BY <2>1, SemSet DEF Sems, Sem1, Sem2
    <2>5. ShmTypes'
      BY <1>t, <2>1, <2>2, <2>4 DEF ShmTypes
    <2>6. ShmSegment'
      BY <1>l, <1>n, <1>t, <2>2, <2>3, <2>4 DEF ShmSegment, ShmTurns, ShmLife, ShmWriter,
         Writing, Returning, Fetching
    <2>7. ShmTurns'
      BY <1>l, <1>n, <1>t, <2>2, <2>3, <2>4 DEF ShmTurns, ShmWriter, ShmLife, Writing, Fetching,
         Returning
    <2>8. ShmWriter'
      BY <1>l, <1>n, <1>t, <2>2, <2>3, <2>4 DEF ShmWriter, ShmLife
    <2>9. ShmLife'
      BY <1>l, <1>n, <1>t, <2>2, <2>3, <2>4 DEF ShmTurns, ShmWriter, ShmLife, Writing, Fetching,
         Returning
    <2>. QED
      BY <2>5, <2>6, <2>7, <2>8, <2>9 DEF ShmInv
  <1>4. CASE Shm!WriterP1
    <2>1. /\ w.at = "p1" /\ w' = [at |-> "write", shm |-> WShm, i |-> Sent]
          /\ UNCHANGED <<segment, num, r>>
          /\ Shm!P(1)
      BY <1>4, <1>v DEF Shm!WriterP1
    <2>2. /\ WAt = "p1" /\ w' \in [at : WriterAt, shm : 0..1, i : Nat]
          /\ WAt' = "write" /\ WShm' = WShm /\ Sent' = Sent
      BY <1>t, <1>v, <2>1, WriterMoves DEF WAt, WriterAt
    <2>3. UNCHANGED <<segment, Num, RAt, RShm, Got>>
      BY <2>1, ShmFrames
    <2>4. /\ sem' \in [1..2 -> Nat] /\ Sems /\ Sems' /\ Sem1 > 0
          /\ Sem1' = Sem1 - 1 /\ Sem2' = Sem2
      BY <1>t, <2>1, SemDown
    <2>5. ShmTypes'
      BY <1>t, <2>1, <2>2, <2>4 DEF ShmTypes
    <2>6. ShmSegment'
      BY <1>l, <1>n, <1>t, <2>2, <2>3, <2>4 DEF ShmSegment, ShmTurns, ShmLife, ShmWriter,
         Writing, Returning, Fetching
    <2>7. ShmTurns'
      BY <1>l, <1>n, <1>t, <2>2, <2>3, <2>4 DEF ShmTurns, ShmWriter, ShmLife, Writing, Fetching,
         Returning
    <2>8. ShmWriter'
      BY <1>l, <1>n, <1>t, <2>2, <2>3, <2>4 DEF ShmWriter, ShmLife
    <2>9. ShmLife'
      BY <1>l, <1>n, <1>t, <2>2, <2>3, <2>4 DEF ShmTurns, ShmWriter, ShmLife, Writing, Fetching,
         Returning
    <2>. QED
      BY <2>5, <2>6, <2>7, <2>8, <2>9 DEF ShmInv
  <1>5. CASE Shm!WriterWrite
    <2>1. /\ w.at = "write" /\ w' = [at |-> "v2", shm |-> WShm, i |-> Sent]
          /\ UNCHANGED <<segment, sem, r>>
          /\ num' = [num EXCEPT ![WShm] = Sent]
      BY <1>5, <1>v DEF Shm!WriterWrite
    <2>2. /\ WAt = "write" /\ w' \in [at : WriterAt, shm : 0..1, i : Nat]
          /\ WAt' = "v2" /\ WShm' = WShm /\ Sent' = Sent
      BY <1>t, <1>v, <2>1, WriterMoves DEF WAt, WriterAt
    <2>3. UNCHANGED <<segment, Sems, Sem1, Sem2, RAt, RShm, Got>>
      BY <2>1, ShmFrames
    <2>4. num' \in [1..2 -> Nat] /\ Num' = Sent
      BY <1>n, <1>t, <2>1, <2>2 DEF ShmTypes, ShmSegment, Num
    <2>5. ShmTypes'
      BY <1>t, <2>1, <2>2, <2>4 DEF ShmTypes
    <2>6. ShmSegment'
      BY <1>l, <1>n, <1>t, <2>2, <2>3, <2>4 DEF ShmSegment, ShmTurns, ShmLife, ShmWriter,
         Writing, Returning, Fetching
    <2>7. ShmTurns'
      BY <1>l, <1>n, <1>t, <2>2, <2>3, <2>4 DEF ShmTurns, ShmWriter, ShmLife, Writing, Fetching,
         Returning
    <2>8. ShmWriter'
      BY <1>l, <1>n, <1>t, <2>2, <2>3, <2>4 DEF ShmWriter, ShmLife
    <2>9. ShmLife'
      BY <1>l, <1>n, <1>t, <2>2, <2>3, <2>4 DEF ShmTurns, ShmWriter, ShmLife, Writing, Fetching,
         Returning
    <2>. QED
      BY <2>5, <2>6, <2>7, <2>8, <2>9 DEF ShmInv
  <1>6. CASE Shm!WriterV2
    <2>1. /\ w.at = "v2"
          /\ w' = [at |-> (IF Sent = Last THEN "rmshm" ELSE "p1"),
                 shm |-> WShm, i |-> Sent + 1]
          /\ UNCHANGED <<segment, num, r>>
          /\ Shm!V(2)
      BY <1>6, <1>v DEF Shm!WriterV2
    <2>2. /\ WAt = "v2" /\ w' \in [at : WriterAt, shm : 0..1, i : Nat]
          /\ WAt' = (IF Sent = Last THEN "rmshm" ELSE "p1") /\ WShm' = WShm /\ Sent' = Sent + 1
      BY <1>t, <1>v, <2>1, WriterMoves DEF WAt, WriterAt
    <2>3. UNCHANGED <<segment, Num, RAt, RShm, Got>>
      BY <2>1, ShmFrames
    <2>4. /\ sem' \in [1..2 -> Nat] /\ Sems /\ Sems'
          /\ Sem2' = Sem2 + 1 /\ Sem1' = Sem1
      BY <1>t, <2>1, SemUp
    <2>5. ShmTypes'
      BY <1>t, <2>1, <2>2, <2>4 DEF ShmTypes
    <2>6. ShmSegment'
      BY <1>l, <1>n, <1>t, <2>2, <2>3, <2>4 DEF ShmSegment, ShmTurns, ShmLife, ShmWriter,
         Writing, Returning, Fetching
    <2>7. ShmTurns'
      BY <1>l, <1>n, <1>t, <2>2, <2>3, <2>4 DEF ShmTurns, ShmWriter, ShmLife, Writing, Fetching,
         Returning
    <2>8. ShmWriter'
      BY <1>l, <1>n, <1>t, <2>2, <2>3, <2>4 DEF ShmWriter, ShmLife
    <2>9. ShmLife'
      BY <1>l, <1>n, <1>t, <2>2, <2>3, <2>4 DEF ShmTurns, ShmWriter, ShmLife, Writing, Fetching,
         Returning
    <2>. QED
      BY <2>5, <2>6, <2>7, <2>8, <2>9 DEF ShmInv
  <1>7. CASE Shm!WriterFails
    <2>1. /\ w.at \in {"p1", "v2"} /\ w' = [at |-> "failed", shm |-> WShm, i |-> Sent]
          /\ UNCHANGED <<segment, num, sem, r>>
          /\ sem = <<>>
      BY <1>7, <1>v DEF Shm!WriterFails, Shm!HaveSem
    <2>2. /\ WAt \in {"p1", "v2"} /\ w' \in [at : WriterAt, shm : 0..1, i : Nat]
          /\ WAt' = "failed" /\ WShm' = WShm /\ Sent' = Sent
      BY <1>t, <1>v, <2>1, WriterMoves DEF WAt, WriterAt
    <2>3. UNCHANGED <<segment, Num, Sems, Sem1, Sem2, RAt, RShm, Got>>
      BY <2>1, ShmFrames
    <2>4. ~Sems
      BY <2>1 DEF Sems
    <2>5. ShmTypes'
      BY <1>t, <2>1, <2>2, <2>4 DEF ShmTypes
    <2>6. ShmSegment'
      BY <1>l, <1>n, <1>t, <2>2, <2>3, <2>4 DEF ShmSegment, ShmTurns, ShmLife, ShmWriter,
         Writing, Returning, Fetching
    <2>7. ShmTurns'
      BY <1>l, <1>n, <1>t, <2>2, <2>3, <2>4 DEF ShmTurns, ShmWriter, ShmLife, Writing, Fetching,
         Returning
    <2>8. ShmWriter'
      BY <1>l, <1>n, <1>t, <2>2, <2>3, <2>4 DEF ShmWriter, ShmLife
    <2>9. ShmLife'
      BY <1>l, <1>n, <1>t, <2>2, <2>3, <2>4 DEF ShmTurns, ShmWriter, ShmLife, Writing, Fetching,
         Returning
    <2>. QED
      BY <2>5, <2>6, <2>7, <2>8, <2>9 DEF ShmInv
  <1>8. CASE Shm!WriterRmShm
    <2>1. /\ w.at = "rmshm" /\ w' = [at |-> "rmsem", shm |-> WShm, i |-> Sent]
          /\ UNCHANGED <<num, sem, r>>
          /\ segment' \in {0, segment}
      BY <1>8, <1>v DEF Shm!WriterRmShm
    <2>2. /\ WAt = "rmshm" /\ w' \in [at : WriterAt, shm : 0..1, i : Nat]
          /\ WAt' = "rmsem" /\ WShm' = WShm /\ Sent' = Sent
      BY <1>t, <1>v, <2>1, WriterMoves DEF WAt, WriterAt
    <2>3. UNCHANGED <<Num, Sems, Sem1, Sem2, RAt, RShm, Got>>
      BY <2>1, ShmFrames
    <2>4. segment' \in 0..1 /\ (RAt = "shmget" => FALSE)
      BY <1>l, <1>n, <1>t, <2>1, <2>2 DEF ShmTypes, ShmTurns, ShmWriter, ShmLife, Writing,
         Fetching, Returning
    <2>5. ShmTypes'
      BY <1>t, <2>1, <2>2, <2>4 DEF ShmTypes
    <2>6. ShmSegment'
      BY <1>l, <1>n, <1>t, <2>2, <2>3, <2>4 DEF ShmSegment, ShmTurns, ShmLife, ShmWriter,
         Writing, Returning, Fetching
    <2>7. ShmTurns'
      BY <1>l, <1>n, <1>t, <2>2, <2>3, <2>4 DEF ShmTurns, ShmWriter, ShmLife, Writing, Fetching,
         Returning
    <2>8. ShmWriter'
      BY <1>l, <1>n, <1>t, <2>2, <2>3, <2>4 DEF ShmWriter, ShmLife
    <2>9. ShmLife'
      BY <1>l, <1>n, <1>t, <2>2, <2>3, <2>4 DEF ShmTurns, ShmWriter, ShmLife, Writing, Fetching,
         Returning
    <2>. QED
      BY <2>5, <2>6, <2>7, <2>8, <2>9 DEF ShmInv
  <1>9. CASE Shm!WriterRmSem
    <2>1. /\ w.at = "rmsem" /\ w' = [at |-> "done", shm |-> WShm, i |-> Sent]
          /\ UNCHANGED <<segment, num, r>>
          /\ sem' = <<>>
      BY <1>9, <1>v DEF Shm!WriterRmSem
    <2>2. /\ WAt = "rmsem" /\ w' \in [at : WriterAt, shm : 0..1, i : Nat]
          /\ WAt' = "done" /\ WShm' = WShm /\ Sent' = Sent
      BY <1>t, <1>v, <2>1, WriterMoves DEF WAt, WriterAt
    <2>3. UNCHANGED <<segment, Num, RAt, RShm, Got>>
      BY <2>1, ShmFrames
    <2>4. ~Sems' /\ sem' = <<>>
      BY <2>1 DEF Sems
    <2>5. ShmTypes'
      BY <1>t, <2>1, <2>2, <2>4 DEF ShmTypes
    <2>6. ShmSegment'
      BY <1>l, <1>n, <1>t, <2>2, <2>3, <2>4 DEF ShmSegment, ShmTurns, ShmLife, ShmWriter,
         Writing, Returning, Fetching
    <2>7. ShmTurns'
      BY <1>l, <1>n, <1>t, <2>2, <2>3, <2>4 DEF ShmTurns, ShmWriter, ShmLife, Writing, Fetching,
         Returning
    <2>8. ShmWriter'
      BY <1>l, <1>n, <1>t, <2>2, <2>3, <2>4 DEF ShmWriter, ShmLife
    <2>9. ShmLife'
      BY <1>l, <1>n, <1>t, <2>2, <2>3, <2>4 DEF ShmTurns, ShmWriter, ShmLife, Writing, Fetching,
         Returning
    <2>. QED
      BY <2>5, <2>6, <2>7, <2>8, <2>9 DEF ShmInv
  <1>. QED
    BY <1>1, <1>2, <1>3, <1>4, <1>5, <1>6, <1>7, <1>8, <1>9 DEF Shm!Writer

(* Each step of the reader keeps the turns. *)
LEMMA ShmReaderKept == ShmInv /\ Shm!Reader => ShmInv'
  <1>. SUFFICES ASSUME ShmInv, Shm!Reader PROVE ShmInv'
    OBVIOUS
  <1>t. ShmTypes /\ ShmSegment /\ ShmTurns /\ ShmWriter /\ ShmLife
    BY DEF ShmInv
  <1>l. Last \in Nat \ {0}
    BY SyncAssumption
  <1>v. /\ w = [at |-> WAt, shm |-> WShm, i |-> Sent]
        /\ r = [at |-> RAt, shm |-> RShm, received |-> Got]
        /\ WAt \in WriterAt /\ WShm \in 0..1 /\ Sent \in Nat
        /\ RAt \in ReaderAt /\ RShm \in 0..1 /\ Got \in Nat
        /\ Num \in Nat /\ Sems \in BOOLEAN /\ (Sems => Sem1 \in Nat /\ Sem2 \in Nat)
    BY <1>t, ShmRecords
  <1>n. /\ Sent \in Nat /\ Got \in Nat /\ Num \in Nat /\ (Sems => Sem1 \in Nat /\ Sem2 \in Nat)
        /\ WAt \in WriterAt /\ RAt \in ReaderAt
    BY <1>v
  <1>g. RAt = "shmget" => Shm!Segment = 1
    BY <1>t, <1>v DEF ShmSegment, Shm!Segment, WShm, RShm, ShmTypes
  <1>1. CASE Shm!ReaderGet
    <2>1. /\ r.at = "shmget" /\ r' = [at |-> "semget", shm |-> 1, received |-> Got]
          /\ UNCHANGED <<num, sem, w>> /\ segment' = 1
      <3>1. r.at = "shmget" /\ Shm!Segment = 1
        BY <1>1, <1>g DEF Shm!ReaderGet, RAt
      <3>2. /\ r' = [r EXCEPT !.at = "semget", !.shm = 1]
            /\ UNCHANGED <<num, sem, w>> /\ segment' = 1
        BY <1>1, <3>1, Zenon DEF Shm!ReaderGet
      <3>. QED
        BY <1>v, <3>1, <3>2
    <2>2. /\ RAt = "shmget" /\ r' \in [at : ReaderAt, shm : 0..1, received : Nat]
          /\ RAt' = "semget" /\ RShm' = 1 /\ Got' = Got
      BY <1>t, <1>v, <2>1, ReaderMoves DEF RAt, ReaderAt
    <2>3. UNCHANGED <<Num, Sems, Sem1, Sem2, WAt, WShm, Sent>>
      BY <2>1, ShmFrames
    <2>4. segment' = 1
      BY <2>1
    <2>5. ShmTypes'
      BY <1>t, <2>1, <2>2, <2>4 DEF ShmTypes
    <2>6. ShmSegment'
      BY <1>l, <1>n, <1>t, <2>2, <2>3, <2>4 DEF ShmSegment, ShmTurns, ShmLife, ShmWriter,
         Writing, Returning, Fetching
    <2>7. ShmTurns'
      BY <1>l, <1>n, <1>t, <2>2, <2>3, <2>4 DEF ShmTurns, ShmWriter, ShmLife, Writing, Fetching,
         Returning
    <2>8. ShmWriter'
      BY <1>l, <1>n, <1>t, <2>2, <2>3, <2>4 DEF ShmWriter, ShmLife
    <2>9. ShmLife'
      BY <1>l, <1>n, <1>t, <2>2, <2>3, <2>4 DEF ShmTurns, ShmWriter, ShmLife, Writing, Fetching,
         Returning
    <2>. QED
      BY <2>5, <2>6, <2>7, <2>8, <2>9 DEF ShmInv
  <1>2. CASE Shm!ReaderSemGet
    <2>1. /\ r.at = "semget"
          /\ r' = [at |-> (IF Sems THEN "test" ELSE "failed"),
                 shm |-> RShm, received |-> Got]
          /\ UNCHANGED <<segment, num, sem, w>>
      BY <1>2, <1>v DEF Shm!ReaderSemGet, Shm!HaveSem, Sems
    <2>2. /\ RAt = "semget" /\ r' \in [at : ReaderAt, shm : 0..1, received : Nat]
          /\ RAt' = (IF Sems THEN "test" ELSE "failed") /\ RShm' = RShm /\ Got' = Got
      BY <1>t, <1>v, <2>1, ReaderMoves DEF RAt, ReaderAt
    <2>3. UNCHANGED <<segment, Num, Sems, Sem1, Sem2, WAt, WShm, Sent>>
      BY <2>1, ShmFrames
    <2>5. ShmTypes'
      BY <1>t, <2>1, <2>2 DEF ShmTypes
    <2>6. ShmSegment'
      BY <1>l, <1>n, <1>t, <2>2, <2>3 DEF ShmSegment, ShmTurns, ShmLife, ShmWriter, Writing,
         Returning, Fetching
    <2>7. ShmTurns'
      BY <1>l, <1>n, <1>t, <2>2, <2>3 DEF ShmTurns, ShmWriter, ShmLife, Writing, Fetching,
         Returning
    <2>8. ShmWriter'
      BY <1>l, <1>n, <1>t, <2>2, <2>3 DEF ShmWriter, ShmLife
    <2>9. ShmLife'
      BY <1>l, <1>n, <1>t, <2>2, <2>3 DEF ShmTurns, ShmWriter, ShmLife, Writing, Fetching,
         Returning
    <2>. QED
      BY <2>5, <2>6, <2>7, <2>8, <2>9 DEF ShmInv
  <1>3. CASE Shm!ReaderTest
    <2>1. /\ r.at = "test"
          /\ r' = [at |-> (IF Num < Last THEN "p2" ELSE "rmshm"),
                 shm |-> RShm, received |-> Got]
          /\ UNCHANGED <<segment, num, sem, w>>
      BY <1>3, <1>t, <1>v DEF Shm!ReaderTest, Shm!More, ShmSegment, RAt, RShm, Num
    <2>2. /\ RAt = "test" /\ r' \in [at : ReaderAt, shm : 0..1, received : Nat]
          /\ RAt' = (IF Num < Last THEN "p2" ELSE "rmshm") /\ RShm' = RShm /\ Got' = Got
      BY <1>t, <1>v, <2>1, ReaderMoves DEF RAt, ReaderAt
    <2>3. UNCHANGED <<segment, Num, Sems, Sem1, Sem2, WAt, WShm, Sent>>
      BY <2>1, ShmFrames
    <2>4. Num >= Last => Got >= Last
      <3>1. WAt \notin {"shmget", "semget", "failed"}
        BY <1>t, <2>2 DEF ShmLife
      <3>2. CASE WAt \in {"setall", "p1", "write"}
        BY <1>l, <1>n, <1>t, <3>2 DEF ShmWriter
      <3>3. CASE WAt = "v2"
        BY <1>l, <1>n, <1>t, <2>2, <3>3 DEF ShmWriter, ShmTurns, Writing, Returning
      <3>4. CASE WAt \in {"rmshm", "rmsem", "done"}
        BY <1>l, <1>n, <1>t, <2>2, <3>4 DEF ShmWriter, ShmTurns, Writing, Returning
      <3>. QED
        BY <1>n, <3>1, <3>2, <3>3, <3>4 DEF WriterAt
    <2>5. ShmTypes'
      BY <1>t, <2>1, <2>2, <2>4 DEF ShmTypes
    <2>6. ShmSegment'
      BY <1>l, <1>n, <1>t, <2>2, <2>3, <2>4 DEF ShmSegment, ShmTurns, ShmLife, ShmWriter,
         Writing, Returning, Fetching
    <2>7. ShmTurns'
      BY <1>l, <1>n, <1>t, <2>2, <2>3, <2>4 DEF ShmTurns, ShmWriter, ShmLife, Writing, Fetching,
         Returning
    <2>8. ShmWriter'
      BY <1>l, <1>n, <1>t, <2>2, <2>3, <2>4 DEF ShmWriter, ShmLife
    <2>9. ShmLife'
      BY <1>l, <1>n, <1>t, <2>2, <2>3, <2>4 DEF ShmTurns, ShmWriter, ShmLife, Writing, Fetching,
         Returning
    <2>. QED
      BY <2>5, <2>6, <2>7, <2>8, <2>9 DEF ShmInv
  <1>4. CASE Shm!ReaderP2
    <2>1. /\ r.at = "p2" /\ r' = [at |-> "read", shm |-> RShm, received |-> Got]
          /\ UNCHANGED <<segment, num, w>>
          /\ Shm!P(2)
      BY <1>4, <1>v DEF Shm!ReaderP2
    <2>2. /\ RAt = "p2" /\ r' \in [at : ReaderAt, shm : 0..1, received : Nat]
          /\ RAt' = "read" /\ RShm' = RShm /\ Got' = Got
      BY <1>t, <1>v, <2>1, ReaderMoves DEF RAt, ReaderAt
    <2>3. UNCHANGED <<segment, Num, WAt, WShm, Sent>>
      BY <2>1, ShmFrames
    <2>4. /\ sem' \in [1..2 -> Nat] /\ Sems /\ Sems' /\ Sem2 > 0
          /\ Sem2' = Sem2 - 1 /\ Sem1' = Sem1
      BY <1>t, <2>1, SemDown
    <2>m. Num = Got
      <3>1. Sent = Got + 1 /\ Writing = 0 /\ WAt # "failed"
        BY <1>n, <1>t, <2>2, <2>4 DEF ShmTurns, ShmLife, Writing, Fetching, Returning
      <3>2. WAt \in {"p1", "rmshm", "rmsem", "done"}
        BY <1>n, <1>t, <3>1 DEF ShmWriter, WriterAt, Writing
      <3>. QED
        BY <1>l, <1>n, <1>t, <3>1, <3>2 DEF ShmWriter
    <2>5. ShmTypes'
      BY <1>t, <2>1, <2>2, <2>4 DEF ShmTypes
    <2>6. ShmSegment'
      BY <1>l, <1>n, <1>t, <2>2, <2>3, <2>4 DEF ShmSegment, ShmTurns, ShmLife, ShmWriter,
         Writing, Returning, Fetching
    <2>7. ShmTurns'
      BY <1>l, <1>n, <1>t, <2>2, <2>3, <2>4 DEF ShmTurns, ShmWriter, ShmLife, Writing, Fetching,
         Returning
    <2>8. ShmWriter'
      BY <1>l, <1>n, <1>t, <2>2, <2>3, <2>4 DEF ShmWriter, ShmLife
    <2>9. ShmLife'
      BY <1>t, <2>2, <2>3, <2>4, <2>m DEF ShmLife
    <2>. QED
      BY <2>5, <2>6, <2>7, <2>8, <2>9 DEF ShmInv
  <1>5. CASE Shm!ReaderRead
    <2>1. /\ r.at = "read" /\ r' = [at |-> "v1", shm |-> RShm, received |-> Got + 1]
          /\ UNCHANGED <<segment, num, sem, w>>
      BY <1>5, <1>v DEF Shm!ReaderRead
    <2>2. /\ RAt = "read" /\ r' \in [at : ReaderAt, shm : 0..1, received : Nat]
          /\ RAt' = "v1" /\ RShm' = RShm /\ Got' = Got + 1
      BY <1>t, <1>v, <2>1, ReaderMoves DEF RAt, ReaderAt
    <2>3. UNCHANGED <<segment, Num, Sems, Sem1, Sem2, WAt, WShm, Sent>>
      BY <2>1, ShmFrames
    <2>5. ShmTypes'
      BY <1>t, <2>1, <2>2 DEF ShmTypes
    <2>6. ShmSegment'
      BY <1>l, <1>n, <1>t, <2>2, <2>3 DEF ShmSegment, ShmTurns, ShmLife, ShmWriter, Writing,
         Returning, Fetching
    <2>7. ShmTurns'
      BY <1>l, <1>n, <1>t, <2>2, <2>3 DEF ShmTurns, ShmWriter, ShmLife, Writing, Fetching,
         Returning
    <2>8. ShmWriter'
      BY <1>l, <1>n, <1>t, <2>2, <2>3 DEF ShmWriter, ShmLife
    <2>9. ShmLife'
      BY <1>l, <1>n, <1>t, <2>2, <2>3 DEF ShmTurns, ShmWriter, ShmLife, Writing, Fetching,
         Returning
    <2>. QED
      BY <2>5, <2>6, <2>7, <2>8, <2>9 DEF ShmInv
  <1>6. CASE Shm!ReaderV1
    <2>1. /\ r.at = "v1" /\ r' = [at |-> "test", shm |-> RShm, received |-> Got]
          /\ UNCHANGED <<segment, num, w>>
          /\ Shm!V(1)
      BY <1>6, <1>v DEF Shm!ReaderV1
    <2>2. /\ RAt = "v1" /\ r' \in [at : ReaderAt, shm : 0..1, received : Nat]
          /\ RAt' = "test" /\ RShm' = RShm /\ Got' = Got
      BY <1>t, <1>v, <2>1, ReaderMoves DEF RAt, ReaderAt
    <2>3. UNCHANGED <<segment, Num, WAt, WShm, Sent>>
      BY <2>1, ShmFrames
    <2>4. /\ sem' \in [1..2 -> Nat] /\ Sems /\ Sems'
          /\ Sem1' = Sem1 + 1 /\ Sem2' = Sem2
      BY <1>t, <2>1, SemUp
    <2>5. ShmTypes'
      BY <1>t, <2>1, <2>2, <2>4 DEF ShmTypes
    <2>6. ShmSegment'
      BY <1>l, <1>n, <1>t, <2>2, <2>3, <2>4 DEF ShmSegment, ShmTurns, ShmLife, ShmWriter,
         Writing, Returning, Fetching
    <2>7. ShmTurns'
      BY <1>l, <1>n, <1>t, <2>2, <2>3, <2>4 DEF ShmTurns, ShmWriter, ShmLife, Writing, Fetching,
         Returning
    <2>8. ShmWriter'
      BY <1>l, <1>n, <1>t, <2>2, <2>3, <2>4 DEF ShmWriter, ShmLife
    <2>9. ShmLife'
      BY <1>l, <1>n, <1>t, <2>2, <2>3, <2>4 DEF ShmTurns, ShmWriter, ShmLife, Writing, Fetching,
         Returning
    <2>. QED
      BY <2>5, <2>6, <2>7, <2>8, <2>9 DEF ShmInv
  <1>7. CASE Shm!ReaderFails
    <2>1. /\ r.at \in {"p2", "v1"} /\ r' = [at |-> "failed", shm |-> RShm, received |-> Got]
          /\ UNCHANGED <<segment, num, sem, w>>
          /\ sem = <<>>
      BY <1>7, <1>v DEF Shm!ReaderFails, Shm!HaveSem
    <2>2. /\ RAt \in {"p2", "v1"} /\ r' \in [at : ReaderAt, shm : 0..1, received : Nat]
          /\ RAt' = "failed" /\ RShm' = RShm /\ Got' = Got
      BY <1>t, <1>v, <2>1, ReaderMoves DEF RAt, ReaderAt
    <2>3. UNCHANGED <<segment, Num, Sems, Sem1, Sem2, WAt, WShm, Sent>>
      BY <2>1, ShmFrames
    <2>4. ~Sems
      BY <2>1 DEF Sems
    <2>5. ShmTypes'
      BY <1>t, <2>1, <2>2, <2>4 DEF ShmTypes
    <2>6. ShmSegment'
      BY <1>l, <1>n, <1>t, <2>2, <2>3, <2>4 DEF ShmSegment, ShmTurns, ShmLife, ShmWriter,
         Writing, Returning, Fetching
    <2>7. ShmTurns'
      BY <1>l, <1>n, <1>t, <2>2, <2>3, <2>4 DEF ShmTurns, ShmWriter, ShmLife, Writing, Fetching,
         Returning
    <2>8. ShmWriter'
      BY <1>l, <1>n, <1>t, <2>2, <2>3, <2>4 DEF ShmWriter, ShmLife
    <2>9. ShmLife'
      BY <1>l, <1>n, <1>t, <2>2, <2>3, <2>4 DEF ShmTurns, ShmWriter, ShmLife, Writing, Fetching,
         Returning
    <2>. QED
      BY <2>5, <2>6, <2>7, <2>8, <2>9 DEF ShmInv
  <1>8. CASE Shm!ReaderRmShm
    <2>1. /\ r.at = "rmshm"
          /\ r' = [at |-> (IF segment = RShm THEN "rmsem" ELSE "failed"),
                 shm |-> RShm, received |-> Got]
          /\ UNCHANGED <<num, sem, w>>
          /\ segment' \in {0, segment}
      BY <1>8, <1>v DEF Shm!ReaderRmShm
    <2>2. /\ RAt = "rmshm" /\ r' \in [at : ReaderAt, shm : 0..1, received : Nat]
          /\ RAt' = (IF segment = RShm THEN "rmsem" ELSE "failed") /\ RShm' = RShm /\ Got' = Got
      BY <1>t, <1>v, <2>1, ReaderMoves DEF RAt, ReaderAt
    <2>3. UNCHANGED <<Num, Sems, Sem1, Sem2, WAt, WShm, Sent>>
      BY <2>1, ShmFrames
    <2>4. segment' \in 0..1 /\ (WAt = "shmget" => FALSE)
      BY <1>l, <1>n, <1>t, <2>1, <2>2 DEF ShmTypes, ShmLife
    <2>5. ShmTypes'
      BY <1>t, <2>1, <2>2, <2>4 DEF ShmTypes
    <2>6. ShmSegment'
      BY <1>l, <1>n, <1>t, <2>2, <2>3, <2>4 DEF ShmSegment, ShmTurns, ShmLife, ShmWriter,
         Writing, Returning, Fetching
    <2>7. ShmTurns'
      BY <1>l, <1>n, <1>t, <2>2, <2>3, <2>4 DEF ShmTurns, ShmWriter, ShmLife, Writing, Fetching,
         Returning
    <2>8. ShmWriter'
      BY <1>l, <1>n, <1>t, <2>2, <2>3, <2>4 DEF ShmWriter, ShmLife
    <2>9. ShmLife'
      BY <1>l, <1>n, <1>t, <2>2, <2>3, <2>4 DEF ShmTurns, ShmWriter, ShmLife, Writing, Fetching,
         Returning
    <2>. QED
      BY <2>5, <2>6, <2>7, <2>8, <2>9 DEF ShmInv
  <1>9. CASE Shm!ReaderRmSem
    <2>1. /\ r.at = "rmsem"
          /\ r' = [at |-> (IF Sems THEN "done" ELSE "failed"),
                 shm |-> RShm, received |-> Got]
          /\ UNCHANGED <<segment, num, w>>
          /\ sem' = <<>>
      BY <1>9, <1>v DEF Shm!ReaderRmSem, Shm!HaveSem, Sems
    <2>2. /\ RAt = "rmsem" /\ r' \in [at : ReaderAt, shm : 0..1, received : Nat]
          /\ RAt' = (IF Sems THEN "done" ELSE "failed") /\ RShm' = RShm /\ Got' = Got
      BY <1>t, <1>v, <2>1, ReaderMoves DEF RAt, ReaderAt
    <2>3. UNCHANGED <<segment, Num, WAt, WShm, Sent>>
      BY <2>1, ShmFrames
    <2>4. ~Sems' /\ sem' = <<>>
      BY <2>1 DEF Sems
    <2>5. ShmTypes'
      BY <1>t, <2>1, <2>2, <2>4 DEF ShmTypes
    <2>6. ShmSegment'
      BY <1>l, <1>n, <1>t, <2>2, <2>3, <2>4 DEF ShmSegment, ShmTurns, ShmLife, ShmWriter,
         Writing, Returning, Fetching
    <2>7. ShmTurns'
      BY <1>l, <1>n, <1>t, <2>2, <2>3, <2>4 DEF ShmTurns, ShmWriter, ShmLife, Writing, Fetching,
         Returning
    <2>8. ShmWriter'
      BY <1>l, <1>n, <1>t, <2>2, <2>3, <2>4 DEF ShmWriter, ShmLife
    <2>9. ShmLife'
      BY <1>l, <1>n, <1>t, <2>2, <2>3, <2>4 DEF ShmTurns, ShmWriter, ShmLife, Writing, Fetching,
         Returning
    <2>. QED
      BY <2>5, <2>6, <2>7, <2>8, <2>9 DEF ShmInv
  <1>. QED
    BY <1>1, <1>2, <1>3, <1>4, <1>5, <1>6, <1>7, <1>8, <1>9 DEF Shm!Reader

(* For any number of messages, and whichever process starts or removes the *)
(* segment first: the processes take turns, the reader misses no message   *)
(* before the last and reads none twice.                                   *)
THEOREM ShmInTurns == Spec => []ShmTakeTurns
  <1>1. Init => ShmInv
    <2>. SUFFICES ASSUME Shm!Init PROVE ShmInv
      BY DEF Init
    <2>1. ShmTypes
      BY DEF Shm!Init, Shm!Segments, ShmTypes, WriterAt, ReaderAt
    <2>2. ShmSegment /\ ShmTurns /\ ShmLife
      BY DEF Shm!Init, ShmSegment, ShmTurns, ShmLife, Writing, Fetching, Returning,
             WAt, WShm, Sent, RAt, RShm, Got, Sems, Sem1, Sem2, Num
    <2>3. ShmWriter
      BY SyncAssumption DEF Shm!Init, Shm!Segments, ShmWriter, WAt, Sent, Num
    <2>. QED
      BY <2>1, <2>2, <2>3 DEF ShmInv
  <1>2. ShmInv /\ [Next]_vars => ShmInv'
    <2>1. ASSUME ShmInv, UNCHANGED shmVars PROVE ShmInv'
      BY <2>1 DEF ShmInv, ShmTypes, ShmSegment, ShmTurns, ShmWriter, ShmLife, Writing, Fetching,
                  Returning, shmVars, WAt, WShm, Sent, RAt, RShm, Got, Sems, Sem1, Sem2, Num
    <2>. QED
      BY <2>1, ShmStep, ShmWriterKept, ShmReaderKept DEF Shm!Next
  <1>3. ShmInv => ShmTakeTurns
    <2>. SUFFICES ASSUME ShmInv PROVE Shm!TakeTurns
      BY DEF ShmTakeTurns
    <2>1. ~(w.at \in {"write", "v2"} /\ r.at \in {"read", "v1"})
      <3>1. WAt \in WriterAt /\ Sent \in Nat /\ Got \in Nat /\ ShmTurns
        BY ShmRecords DEF ShmInv
      <3>2. ~(WAt \in {"write", "v2"} /\ RAt \in {"read", "v1"})
        BY <3>1 DEF ShmTurns, Writing, Fetching, Returning
      <3>. QED
        BY <3>2 DEF WAt, RAt
    <2>2. r.at = "read" => num[r.shm] = r.received
      BY DEF ShmInv, ShmSegment, ShmLife, RAt, RShm, Num, Got
    <2>3. r.at \in {"rmshm", "rmsem", "done"} => r.received >= Last
      BY DEF ShmInv, ShmLife, RAt, Got
    <2>. QED
      BY <2>1, <2>2, <2>3 DEF Shm!TakeTurns
  <1>. QED
    BY <1>1, <1>2, <1>3, PTL DEF Spec

-----------------------------------------------------------------------------
(* The multi-producer multi-consumer queue.                                *)

(* A step of the whole is a step of the queue, or leaves it alone. *)
LEMMA MpmcStep == [Next]_vars => Mpmc!Next \/ UNCHANGED mpmcVars
  BY DEF Next, vars, mpmcVars

(* The slot of a position, and the round in which it is used. *)
Slot(p) == p % N
Round(p) == p \div N
Slots == 0..(N - 1)

(* Their types, and what they say of the position. *)
LEMMA SlotTypes ==
  \A p \in Nat : Slot(p) \in Slots /\ Round(p) \in Nat /\ p = N * Round(p) + Slot(p)
  BY SyncAssumption DEF Slot, Round, Slots

(* The positions of a slot are used round by round. *)
LEMMA RoundGrows ==
    ASSUME NEW p \in Nat, NEW q \in Nat, Slot(p) = Slot(q), p < q
    PROVE  Round(p) < Round(q)
  <1>1. /\ p = N * Round(p) + Slot(p) /\ q = N * Round(q) + Slot(q)
        /\ Round(p) \in Nat /\ Round(q) \in Nat /\ Slot(p) \in Nat /\ N \in Nat \ {0}
    BY SlotTypes, SyncAssumption DEF Slots
  <1>2. N * Round(p) < N * Round(q)
    BY <1>1
  <1>3. ASSUME NEW a \in Nat, NEW b \in Nat, N * a < N * b PROVE a < b
    BY <1>1, <1>3
  <1>. QED
    BY <1>1, <1>2, <1>3

(* A position is known by its slot and its round. *)
LEMMA OnePosition ==
    ASSUME NEW p \in Nat, NEW q \in Nat, Slot(p) = Slot(q), Round(p) = Round(q)
    PROVE  p = q
  <1>1. Round(p) \in Nat /\ Round(q) \in Nat
    BY SlotTypes
  <1>2. ~(p < q) /\ ~(q < p)
    BY <1>1, RoundGrows
  <1>. QED
    BY <1>2

(* The position of a slot one round earlier. *)
LEMMA RoundBefore ==
    ASSUME NEW p \in Nat, Round(p) > 0
    PROVE  p - N \in Nat /\ p - N < p /\ Slot(p - N) = Slot(p) /\ Round(p - N) = Round(p) - 1
  BY SyncAssumption DEF Slot, Round

(* The fields of the threads and of the slots, as functions of their own. *)
Workers == Producers \cup Consumers
ThreadAt == {"call", "loadPush", "loadPop", "decide", "use", "finish", "done"}
ThreadRec == [at : ThreadAt, pos : Nat, pushCount : Nat, popCount : Nat, n : Nat]
Value == {<<>>} \cup (Producers \X Nat)
SlotRec == [push : Nat, pop : Nat, val : Value]

At == [t \in Workers |-> th[t].at]
Pos == [t \in Workers |-> th[t].pos]
SeenPush == [t \in Workers |-> th[t].pushCount]
SeenPop == [t \in Workers |-> th[t].popCount]
Pushed == [k \in Slots |-> slot[k].push]
Popped == [k \in Slots |-> slot[k].pop]
Holds == [k \in Slots |-> slot[k].val]

MpmcTypes ==
    /\ nHead \in Nat /\ nTail \in Nat
    /\ th \in [Workers -> ThreadRec] /\ slot \in [Slots -> SlotRec]
    /\ DOMAIN placed \subseteq Nat /\ DOMAIN popped \subseteq Nat

(* The rounds that the slots have seen, and the positions not yet claimed. *)
MpmcRounds ==
    /\ \A k \in Slots : Popped[k] <= Pushed[k] /\ Pushed[k] <= Popped[k] + 1
    /\ \A p \in Nat :
         /\ p >= nTail => Round(p) >= Pushed[Slot(p)]
         /\ p >= nHead => Round(p) >= Popped[Slot(p)]
         /\ p < nHead => Round(p) < Pushed[Slot(p)]

(* A thread that uses a slot has it alone, in its own round. *)
MpmcUse ==
    /\ \A t \in Workers : At[t] \in {"use", "finish"} =>
         /\ t \in Producers => /\ Pos[t] < nTail /\ SeenPush[t] = Round(Pos[t])
                               /\ Pushed[Slot(Pos[t])] = Round(Pos[t])
                               /\ Popped[Slot(Pos[t])] = Round(Pos[t])
         /\ t \in Consumers => /\ Pos[t] < nHead /\ SeenPop[t] = Round(Pos[t])
                               /\ Popped[Slot(Pos[t])] = Round(Pos[t])
                               /\ Pushed[Slot(Pos[t])] = Round(Pos[t]) + 1
    /\ \A t, u \in Workers :
         t # u /\ At[t] \in {"use", "finish"} /\ At[u] \in {"use", "finish"} =>
            Slot(Pos[t]) # Slot(Pos[u])

(* What a thread saw may be old, but not from before its position's round. *)
MpmcSeen ==
    \A t \in Workers :
      /\ At[t] = "loadPush" /\ t \in Consumers => Pos[t] <= nHead
      /\ At[t] \in {"loadPop", "decide"} =>
           /\ SeenPush[t] <= Pushed[Slot(Pos[t])]
           /\ t \in Consumers => Round(Pos[t]) <= SeenPush[t]
      /\ At[t] = "decide" => SeenPop[t] <= Popped[Slot(Pos[t])]

(* A full slot holds the value of its position. *)
MpmcValues ==
    /\ \A p \in Nat :
         Pushed[Slot(p)] = Popped[Slot(p)] + 1 /\ Round(p) = Popped[Slot(p)] =>
            p \in DOMAIN placed /\ Holds[Slot(p)] = placed[p]
    /\ \A t \in Producers : At[t] = "finish" =>
         Pos[t] \in DOMAIN placed /\ Holds[Slot(Pos[t])] = placed[Pos[t]]
    /\ \A p \in DOMAIN popped : p < nHead /\ p \in DOMAIN placed /\ popped[p] = placed[p]

MpmcInv == MpmcTypes /\ MpmcRounds /\ MpmcUse /\ MpmcSeen /\ MpmcValues

Busy == {"use", "finish"}

(* What a thread's step does to the fields of the threads. *)
LEMMA ThreadMoves ==
    ASSUME th \in [Workers -> ThreadRec], NEW t \in Workers, NEW rec \in ThreadRec,
           th' = [th EXCEPT ![t] = rec]
    PROVE  /\ th' \in [Workers -> ThreadRec]
           /\ At' = [At EXCEPT ![t] = rec.at] /\ Pos' = [Pos EXCEPT ![t] = rec.pos]
           /\ SeenPush' = [SeenPush EXCEPT ![t] = rec.pushCount]
           /\ SeenPop' = [SeenPop EXCEPT ![t] = rec.popCount]
  BY DEF At, Pos, SeenPush, SeenPop

(* What an update of a slot does to the fields of the slots. *)
LEMMA SlotMoves ==
    ASSUME slot \in [Slots -> SlotRec], NEW k \in Slots, NEW rec \in SlotRec,
           slot' = [slot EXCEPT ![k] = rec]
    PROVE  /\ slot' \in [Slots -> SlotRec]
           /\ Pushed' = [Pushed EXCEPT ![k] = rec.push]
           /\ Popped' = [Popped EXCEPT ![k] = rec.pop]
           /\ Holds' = [Holds EXCEPT ![k] = rec.val]
  BY DEF Pushed, Popped, Holds

(* The types of the fields. *)
LEMMA FieldTypes ==
    ASSUME MpmcTypes
    PROVE  /\ At \in [Workers -> ThreadAt] /\ Pos \in [Workers -> Nat]
           /\ SeenPush \in [Workers -> Nat] /\ SeenPop \in [Workers -> Nat]
           /\ Pushed \in [Slots -> Nat] /\ Popped \in [Slots -> Nat]
           /\ DOMAIN Holds = Slots
           /\ nHead \in Nat /\ nTail \in Nat
  BY DEF MpmcTypes, At, Pos, SeenPush, SeenPop, Pushed, Popped, Holds, ThreadRec, SlotRec

(* A thread's step that touches nothing shared, and does not make it the   *)
(* owner of a slot, leaves the invariant, given what it may then have seen. *)
LEMMA LocalStep ==
    ASSUME MpmcInv, NEW t \in Workers, NEW rec \in ThreadRec,
           th' = [th EXCEPT ![t] = rec], rec.at \notin Busy,
           UNCHANGED <<nHead, nTail, slot, placed, popped>>,
           rec.at = "loadPush" /\ t \in Consumers => rec.pos <= nHead,
           rec.at \in {"loadPop", "decide"} =>
             /\ rec.pushCount <= Pushed[Slot(rec.pos)]
             /\ t \in Consumers => Round(rec.pos) <= rec.pushCount,
           rec.at = "decide" => rec.popCount <= Popped[Slot(rec.pos)]
    PROVE  MpmcInv'
  <1>1. /\ th' \in [Workers -> ThreadRec]
        /\ At' = [At EXCEPT ![t] = rec.at] /\ Pos' = [Pos EXCEPT ![t] = rec.pos]
        /\ SeenPush' = [SeenPush EXCEPT ![t] = rec.pushCount]
        /\ SeenPop' = [SeenPop EXCEPT ![t] = rec.popCount]
    BY ThreadMoves DEF MpmcInv, MpmcTypes
  <1>2. Pushed' = Pushed /\ Popped' = Popped /\ Holds' = Holds
    BY DEF Pushed, Popped, Holds
  <1>3. /\ At \in [Workers -> ThreadAt] /\ Pos \in [Workers -> Nat]
        /\ SeenPush \in [Workers -> Nat] /\ SeenPop \in [Workers -> Nat]
    BY FieldTypes DEF MpmcInv
  <1>4. MpmcTypes'
    BY <1>1 DEF MpmcInv, MpmcTypes
  <1>5. MpmcRounds'
    BY <1>2 DEF MpmcInv, MpmcRounds
  <1>6. \A u \in Workers : At'[u] \in Busy =>
          u # t /\ At'[u] = At[u] /\ Pos'[u] = Pos[u]
                /\ SeenPush'[u] = SeenPush[u] /\ SeenPop'[u] = SeenPop[u]
    BY <1>1, <1>3
  <1>7. MpmcUse'
    BY <1>2, <1>6 DEF MpmcInv, MpmcUse, Busy
  <1>8. \A u \in Workers : u # t =>
          /\ At'[u] = At[u] /\ Pos'[u] = Pos[u]
          /\ SeenPush'[u] = SeenPush[u] /\ SeenPop'[u] = SeenPop[u]
    BY <1>1, <1>3
  <1>9. /\ At'[t] = rec.at /\ Pos'[t] = rec.pos
        /\ SeenPush'[t] = rec.pushCount /\ SeenPop'[t] = rec.popCount
    BY <1>1, <1>3
  <1>10. MpmcSeen'
    BY <1>2, <1>8, <1>9 DEF MpmcInv, MpmcSeen
  <1>11. MpmcValues'
    BY <1>2, <1>6 DEF MpmcInv, MpmcValues, Busy, Workers
  <1>. QED
    BY <1>4, <1>5, <1>7, <1>10, <1>11 DEF MpmcInv

(* The round of a position a consumer may take is one the slot has reached: *)
(* the position one round earlier has been claimed, so it was pushed.      *)
LEMMA RoundReached ==
    ASSUME MpmcTypes, MpmcRounds, NEW p \in Nat, p <= nHead
    PROVE  Round(p) <= Pushed[Slot(p)]
  <1>1. Slot(p) \in Slots /\ Round(p) \in Nat /\ Pushed[Slot(p)] \in Nat /\ nHead \in Nat
    BY SlotTypes, FieldTypes
  <1>2. CASE p < nHead
    BY <1>1, <1>2 DEF MpmcRounds
  <1>3. CASE p = nHead /\ Round(p) > 0
    <2>1. /\ p - N \in Nat /\ p - N < nHead
          /\ Slot(p - N) = Slot(p) /\ Round(p - N) = Round(p) - 1
      BY <1>3, RoundBefore
    <2>2. Round(p - N) < Pushed[Slot(p - N)]
      BY <2>1 DEF MpmcRounds
    <2>. QED
      BY <1>1, <2>1, <2>2
  <1>. QED
    BY <1>1, <1>2, <1>3

(* A record of a thread after the loads of a slot's counts. *)
LEMMA Loaded ==
    ASSUME NEW old \in ThreadRec, NEW c \in Nat, NEW q
    PROVE  /\ q = [old EXCEPT !.at = "loadPop", !.pushCount = c] =>
                q = [at |-> "loadPop", pos |-> old.pos, pushCount |-> c,
                     popCount |-> old.popCount, n |-> old.n]
           /\ q = [old EXCEPT !.at = "decide", !.popCount = c] =>
                q = [at |-> "decide", pos |-> old.pos, pushCount |-> old.pushCount,
                     popCount |-> c, n |-> old.n]
  BY DEF ThreadRec, ThreadAt

(* The load of an index. *)
LEMMA StepLoadIndex ==
    ASSUME MpmcInv, NEW t \in Workers, Mpmc!LoadIndex(t) \/ Mpmc!LoseClaim(t)
    PROVE  MpmcInv'
  <1>. DEFINE where == IF t \in Producers THEN nTail ELSE nHead
              rec == [at |-> "loadPush", pos |-> where, pushCount |-> th[t].pushCount,
                      popCount |-> th[t].popCount, n |-> th[t].n]
  <1>1. rec \in ThreadRec /\ (t \in Consumers => rec.pos <= nHead)
    BY SyncAssumption DEF MpmcInv, MpmcTypes, ThreadRec, ThreadAt
  <1>2. th' = [th EXCEPT ![t] = rec]
    BY DEF MpmcInv, MpmcTypes, ThreadRec, Mpmc!LoadIndex, Mpmc!LoseClaim
  <1>3. UNCHANGED <<nHead, nTail, slot, placed, popped>>
    BY DEF Mpmc!LoadIndex, Mpmc!LoseClaim
  <1>4. rec.at = "loadPush"
    OBVIOUS
  <1>. HIDE DEF rec
  <1>. QED
    BY <1>1, <1>2, <1>3, <1>4, LocalStep DEF Busy

(* The load of the pushes that the slot has seen. *)
LEMMA StepLoadPushCount ==
    ASSUME MpmcInv, NEW t \in Workers, Mpmc!LoadPushCount(t)
    PROVE  MpmcInv'
  <1>. DEFINE rec == [at |-> "loadPop", pos |-> Pos[t], pushCount |-> Pushed[Slot(Pos[t])],
                      popCount |-> SeenPop[t], n |-> th[t].n]
  <1>1. /\ At[t] = "loadPush" /\ Pos[t] \in Nat /\ SeenPop[t] \in Nat /\ th[t].n \in Nat
        /\ Slot(Pos[t]) \in Slots /\ Pushed[Slot(Pos[t])] \in Nat
        /\ Slot(Pos[t]) = Pos[t] % N /\ Pos[t] = th[t].pos
        /\ Pushed[Slot(Pos[t])] = slot[th[t].pos % N].push
    <2>1. /\ At[t] = "loadPush" /\ Pos[t] \in Nat /\ SeenPop[t] \in Nat /\ th[t].n \in Nat
          /\ Pos[t] = th[t].pos
      BY DEF MpmcInv, MpmcTypes, Mpmc!LoadPushCount, At, Pos, SeenPop, ThreadRec
    <2>2. Slot(Pos[t]) \in Slots /\ Slot(Pos[t]) = th[t].pos % N
      BY <2>1, SlotTypes DEF Slot
    <2>. QED
      BY <2>1, <2>2, FieldTypes DEF MpmcInv, Pushed
  <1>2. t \in Consumers => Round(Pos[t]) <= Pushed[Slot(Pos[t])]
    BY <1>1, RoundReached DEF MpmcInv, MpmcSeen
  <1>3. rec \in ThreadRec
    BY <1>1 DEF ThreadRec, ThreadAt
  <1>4. th' = [th EXCEPT ![t] = rec]
    <2>1. th[t] \in ThreadRec /\ SeenPop[t] = th[t].popCount
      BY DEF MpmcInv, MpmcTypes, SeenPop
    <2>2. th' = [th EXCEPT ![t].at = "loadPop", ![t].pushCount = Pushed[Slot(Pos[t])]]
      BY <1>1 DEF Mpmc!LoadPushCount, Mpmc!Mine
    <2>3. th'[t] = [th[t] EXCEPT !.at = "loadPop", !.pushCount = Pushed[Slot(Pos[t])]]
      BY <2>2 DEF MpmcInv, MpmcTypes
    <2>4. th'[t] = [at |-> "loadPop", pos |-> th[t].pos, pushCount |-> Pushed[Slot(Pos[t])],
                    popCount |-> th[t].popCount, n |-> th[t].n]
      BY <1>1, <2>1, <2>3, Loaded, Zenon
    <2>5. th'[t] = rec
      BY <1>1, <2>1, <2>4
    <2>. HIDE DEF rec
    <2>. QED
      BY <2>2, <2>5 DEF MpmcInv, MpmcTypes
  <1>5. UNCHANGED <<nHead, nTail, slot, placed, popped>>
    BY DEF Mpmc!LoadPushCount
  <1>6. /\ rec.at = "loadPop" /\ rec.pos = Pos[t] /\ rec.pushCount = Pushed[Slot(Pos[t])]
    OBVIOUS
  <1>. HIDE DEF rec
  <1>7. /\ rec.pushCount <= Pushed[Slot(rec.pos)]
        /\ t \in Consumers => Round(rec.pos) <= rec.pushCount
    BY <1>1, <1>2, <1>6
  <1>8. rec.at # "loadPush" /\ rec.at # "decide" /\ rec.at \notin Busy
    BY <1>6 DEF Busy
  <1>. QED
    BY <1>3, <1>4, <1>5, <1>7, <1>8, LocalStep

(* The load of the pops that the slot has seen. *)
LEMMA StepLoadPopCount ==
    ASSUME MpmcInv, NEW t \in Workers, Mpmc!LoadPopCount(t)
    PROVE  MpmcInv'
  <1>. DEFINE rec == [at |-> "decide", pos |-> Pos[t], pushCount |-> SeenPush[t],
                      popCount |-> Popped[Slot(Pos[t])], n |-> th[t].n]
  <1>1. /\ At[t] = "loadPop" /\ Pos[t] \in Nat /\ SeenPush[t] \in Nat /\ th[t].n \in Nat
        /\ Slot(Pos[t]) \in Slots /\ Popped[Slot(Pos[t])] \in Nat
        /\ Slot(Pos[t]) = Pos[t] % N /\ Pos[t] = th[t].pos
        /\ Popped[Slot(Pos[t])] = slot[th[t].pos % N].pop
    <2>1. /\ At[t] = "loadPop" /\ Pos[t] \in Nat /\ SeenPush[t] \in Nat /\ th[t].n \in Nat
          /\ Pos[t] = th[t].pos
      BY DEF MpmcInv, MpmcTypes, Mpmc!LoadPopCount, At, Pos, SeenPush, ThreadRec
    <2>2. Slot(Pos[t]) \in Slots /\ Slot(Pos[t]) = th[t].pos % N
      BY <2>1, SlotTypes DEF Slot
    <2>. QED
      BY <2>1, <2>2, FieldTypes DEF MpmcInv, Popped
  <1>3. rec \in ThreadRec
    BY <1>1 DEF ThreadRec, ThreadAt
  <1>4. th' = [th EXCEPT ![t] = rec]
    <2>1. th[t] \in ThreadRec /\ SeenPush[t] = th[t].pushCount
      BY DEF MpmcInv, MpmcTypes, SeenPush
    <2>2. th' = [th EXCEPT ![t].at = "decide", ![t].popCount = Popped[Slot(Pos[t])]]
      BY <1>1 DEF Mpmc!LoadPopCount, Mpmc!Mine
    <2>3. th'[t] = [th[t] EXCEPT !.at = "decide", !.popCount = Popped[Slot(Pos[t])]]
      BY <2>2 DEF MpmcInv, MpmcTypes
    <2>4. th'[t] = [at |-> "decide", pos |-> th[t].pos, pushCount |-> th[t].pushCount,
                    popCount |-> Popped[Slot(Pos[t])], n |-> th[t].n]
      BY <1>1, <2>1, <2>3, Loaded, Zenon
    <2>5. th'[t] = rec
      BY <1>1, <2>1, <2>4
    <2>. HIDE DEF rec
    <2>. QED
      BY <2>2, <2>5 DEF MpmcInv, MpmcTypes
  <1>5. UNCHANGED <<nHead, nTail, slot, placed, popped>>
    BY DEF Mpmc!LoadPopCount
  <1>6. /\ rec.at = "decide" /\ rec.pos = Pos[t] /\ rec.pushCount = SeenPush[t]
        /\ rec.popCount = Popped[Slot(Pos[t])]
    OBVIOUS
  <1>. HIDE DEF rec
  <1>7. /\ rec.pushCount <= Pushed[Slot(rec.pos)] /\ rec.popCount <= Popped[Slot(rec.pos)]
        /\ t \in Consumers => Round(rec.pos) <= rec.pushCount
    BY <1>1, <1>6 DEF MpmcInv, MpmcSeen
  <1>8. rec.at # "loadPush" /\ rec.at \notin Busy
    BY <1>6 DEF Busy
  <1>. QED
    BY <1>3, <1>4, <1>5, <1>7, <1>8, LocalStep

(* A call that ends without an element, or starts over. *)
LEMMA StepOutside ==
    ASSUME MpmcInv, NEW t \in Workers, Mpmc!Refused(t) \/ Mpmc!NotMyTurn(t)
    PROVE  MpmcInv'
  <1>1. PICK where \in {"call", "done"}, n \in Nat :
               th' = [th EXCEPT ![t] = Mpmc!Outside(where, n)]
    BY DEF MpmcInv, MpmcTypes, ThreadRec, Mpmc!Refused, Mpmc!NotMyTurn
  <1>. DEFINE rec == Mpmc!Outside(where, n)
  <1>2. rec \in ThreadRec /\ rec.at \in {"call", "done"}
    BY DEF Mpmc!Outside, ThreadRec, ThreadAt
  <1>3. UNCHANGED <<nHead, nTail, slot, placed, popped>>
    BY DEF Mpmc!Refused, Mpmc!NotMyTurn
  <1>4. th' = [th EXCEPT ![t] = rec]
    BY <1>1
  <1>. HIDE DEF rec
  <1>5. /\ rec.at \notin Busy /\ rec.at # "loadPush" /\ rec.at # "loadPop" /\ rec.at # "decide"
    BY <1>2 DEF Busy
  <1>. QED
    BY <1>2, <1>3, <1>4, <1>5, LocalStep

(* A thread that only moves on. *)
LEMMA GoMoves ==
    ASSUME th \in [Workers -> ThreadRec], NEW t \in Workers, NEW where \in ThreadAt,
           th' = [th EXCEPT ![t].at = where]
    PROVE  /\ th' \in [Workers -> ThreadRec]
           /\ At' = [At EXCEPT ![t] = where] /\ Pos' = Pos
           /\ SeenPush' = SeenPush /\ SeenPop' = SeenPop
  BY DEF At, Pos, SeenPush, SeenPop, ThreadRec

(* Exclusion holds for all once it holds between the new owner and the others. *)
LEMMA NewOwner ==
    ASSUME MpmcTypes, MpmcUse, NEW t \in Workers,
           At' = [At EXCEPT ![t] = "use"], Pos' = Pos,
           \A u \in Workers : u # t /\ At[u] \in Busy => Slot(Pos[u]) # Slot(Pos[t])
    PROVE  \A v, u \in Workers :
             v # u /\ At'[v] \in Busy /\ At'[u] \in Busy => Slot(Pos'[v]) # Slot(Pos'[u])
  <1>1. \A u \in Workers : u # t => At'[u] = At[u]
    BY FieldTypes
  <1>. QED
    BY <1>1 DEF MpmcUse, Busy

(* A producer that claims the tail: its counts are the slot's, so the slot *)
(* is empty and in the round of the tail.                                  *)
LEMMA StepClaimPush ==
    ASSUME MpmcInv, NEW t \in Producers, Mpmc!Claim(t)
    PROVE  MpmcInv'
  <1>. DEFINE k == Slot(nTail)
  <1>1. t \in Workers /\ t \notin Consumers
    BY SyncAssumption DEF Workers
  <1>2. /\ At[t] = "decide" /\ SeenPush[t] <= SeenPop[t] /\ Round(nTail) = SeenPush[t]
        /\ Pos[t] = nTail /\ nTail' = nTail + 1
        /\ th' = [th EXCEPT ![t].at = "use"]
        /\ UNCHANGED <<nHead, slot, placed, popped>>
    <2>1. th[t] \in ThreadRec
      BY <1>1 DEF MpmcInv, MpmcTypes
    <2>. QED
      BY <1>1, <2>1 DEF Mpmc!Claim, Mpmc!PushRefused, Mpmc!PopRefused, Mpmc!isMyTurn,
            Mpmc!Compared, Mpmc!Go, Round, At, Pos, SeenPush, SeenPop, ThreadRec
  <1>3. /\ th' \in [Workers -> ThreadRec]
        /\ At' = [At EXCEPT ![t] = "use"] /\ Pos' = Pos
        /\ SeenPush' = SeenPush /\ SeenPop' = SeenPop
    BY <1>1, <1>2, GoMoves DEF MpmcInv, MpmcTypes, ThreadAt
  <1>4. Pushed' = Pushed /\ Popped' = Popped /\ Holds' = Holds
    BY <1>2 DEF Pushed, Popped, Holds
  <1>5. /\ At \in [Workers -> ThreadAt] /\ Pos \in [Workers -> Nat]
        /\ SeenPush \in [Workers -> Nat] /\ SeenPop \in [Workers -> Nat]
        /\ Pushed \in [Slots -> Nat] /\ Popped \in [Slots -> Nat]
        /\ nHead \in Nat /\ nTail \in Nat
        /\ k \in Slots /\ Round(nTail) \in Nat
    BY FieldTypes, SlotTypes DEF MpmcInv
  <1>. HIDE DEF k
  <1>6. Pushed[k] = Round(nTail) /\ Popped[k] = Round(nTail)
    <2>1. SeenPop[t] <= Popped[k]
      BY <1>1, <1>2 DEF MpmcInv, MpmcSeen, k
    <2>2. Popped[k] <= Pushed[k] /\ Pushed[k] <= Round(nTail)
      BY <1>5 DEF MpmcInv, MpmcRounds, k
    <2>3. /\ Popped[k] \in Nat /\ Pushed[k] \in Nat
          /\ SeenPush[t] \in Nat /\ SeenPop[t] \in Nat
      BY <1>1, <1>5
    <2>. QED
      BY <1>2, <1>5, <2>1, <2>2, <2>3
  <1>7. MpmcTypes'
    BY <1>2, <1>3, <1>5 DEF MpmcInv, MpmcTypes
  <1>8. MpmcRounds'
    BY <1>2, <1>4, <1>5 DEF MpmcInv, MpmcRounds
  <1>9. \A u \in Workers : u # t /\ At[u] \in Busy => Slot(Pos[u]) # Slot(Pos[t])
    <2>1. SUFFICES ASSUME NEW u \in Workers, At[u] \in Busy, Slot(Pos[u]) = k
                   PROVE  FALSE
      BY <1>2 DEF k
    <2>2. u \in Producers
      BY <1>5, <1>6, <2>1 DEF MpmcInv, MpmcUse, Busy, Workers
    <2>3. Pos[u] < nTail /\ Round(Pos[u]) = Round(nTail)
      BY <1>6, <2>1, <2>2 DEF MpmcInv, MpmcUse, Busy
    <2>. QED
      BY <1>5, <2>1, <2>3, OnePosition DEF k
  <1>10. MpmcUse'
    <2>1. \A v, u \in Workers :
             v # u /\ At'[v] \in Busy /\ At'[u] \in Busy => Slot(Pos'[v]) # Slot(Pos'[u])
      BY <1>1, <1>3, <1>9, NewOwner DEF MpmcInv
    <2>2. ASSUME NEW u \in Workers, At'[u] \in Busy
          PROVE  /\ u \in Producers => /\ Pos[u] < nTail' /\ SeenPush[u] = Round(Pos[u])
                                       /\ Pushed[Slot(Pos[u])] = Round(Pos[u])
                                       /\ Popped[Slot(Pos[u])] = Round(Pos[u])
                 /\ u \in Consumers => /\ Pos[u] < nHead /\ SeenPop[u] = Round(Pos[u])
                                       /\ Popped[Slot(Pos[u])] = Round(Pos[u])
                                       /\ Pushed[Slot(Pos[u])] = Round(Pos[u]) + 1
      <3>1. CASE u = t
        BY <1>1, <1>2, <1>5, <1>6, <3>1 DEF k
      <3>2. CASE u # t
        <4>1. At[u] \in Busy /\ Pos[u] \in Nat
          BY <1>3, <1>5, <2>2, <3>2
        <4>. QED
          BY <1>2, <1>5, <4>1 DEF MpmcInv, MpmcUse, Busy
      <3>. QED
        BY <3>1, <3>2
    <2>. QED
      BY <1>2, <1>3, <1>4, <2>1, <2>2 DEF MpmcUse, Busy
  <1>11. \A u \in Workers : u # t => At'[u] = At[u]
    BY <1>3, <1>5
  <1>12. At'[t] = "use"
    BY <1>1, <1>3, <1>5
  <1>13. MpmcSeen'
    BY <1>2, <1>3, <1>4, <1>11, <1>12 DEF MpmcInv, MpmcSeen
  <1>14. MpmcValues'
    BY <1>1, <1>2, <1>3, <1>4, <1>11, <1>12 DEF MpmcInv, MpmcValues, Workers
  <1>. QED
    BY <1>7, <1>8, <1>10, <1>13, <1>14 DEF MpmcInv

(* A consumer that claims the head: the slot was filled in this round, and *)
(* not emptied since.                                                      *)
LEMMA StepClaimPop ==
    ASSUME MpmcInv, NEW t \in Consumers, Mpmc!Claim(t)
    PROVE  MpmcInv'
  <1>. DEFINE k == Slot(nHead)
  <1>1. t \in Workers /\ t \notin Producers
    BY SyncAssumption DEF Workers
  <1>2. /\ At[t] = "decide" /\ SeenPush[t] # SeenPop[t] /\ Round(nHead) = SeenPop[t]
        /\ Pos[t] = nHead /\ nHead' = nHead + 1
        /\ th' = [th EXCEPT ![t].at = "use"]
        /\ UNCHANGED <<nTail, slot, placed, popped>>
    <2>1. th[t] \in ThreadRec
      BY <1>1 DEF MpmcInv, MpmcTypes
    <2>. QED
      BY <1>1, <2>1 DEF Mpmc!Claim, Mpmc!PushRefused, Mpmc!PopRefused, Mpmc!isMyTurn,
            Mpmc!Compared, Mpmc!Go, Round, At, Pos, SeenPush, SeenPop, ThreadRec
  <1>3. /\ th' \in [Workers -> ThreadRec]
        /\ At' = [At EXCEPT ![t] = "use"] /\ Pos' = Pos
        /\ SeenPush' = SeenPush /\ SeenPop' = SeenPop
    BY <1>1, <1>2, GoMoves DEF MpmcInv, MpmcTypes, ThreadAt
  <1>4. Pushed' = Pushed /\ Popped' = Popped /\ Holds' = Holds
    BY <1>2 DEF Pushed, Popped, Holds
  <1>5. /\ At \in [Workers -> ThreadAt] /\ Pos \in [Workers -> Nat]
        /\ SeenPush \in [Workers -> Nat] /\ SeenPop \in [Workers -> Nat]
        /\ Pushed \in [Slots -> Nat] /\ Popped \in [Slots -> Nat]
        /\ nHead \in Nat /\ nTail \in Nat
        /\ k \in Slots /\ Round(nHead) \in Nat
    BY FieldTypes, SlotTypes DEF MpmcInv
  <1>. HIDE DEF k
  <1>6. Pushed[k] = Round(nHead) + 1 /\ Popped[k] = Round(nHead)
    <2>1. /\ SeenPop[t] <= Popped[k] /\ SeenPush[t] <= Pushed[k]
          /\ Round(nHead) <= SeenPush[t]
      BY <1>1, <1>2 DEF MpmcInv, MpmcSeen, k
    <2>2. /\ Popped[k] <= Pushed[k] /\ Pushed[k] <= Popped[k] + 1
          /\ Popped[k] <= Round(nHead)
      BY <1>5 DEF MpmcInv, MpmcRounds, k
    <2>3. /\ Popped[k] \in Nat /\ Pushed[k] \in Nat
          /\ SeenPush[t] \in Nat /\ SeenPop[t] \in Nat
      BY <1>1, <1>5
    <2>. QED
      BY <1>2, <1>5, <2>1, <2>2, <2>3
  <1>7. MpmcTypes'
    BY <1>2, <1>3, <1>5 DEF MpmcInv, MpmcTypes
  <1>8. MpmcRounds'
    <2>1. ASSUME NEW q \in Nat
          PROVE  /\ q >= nTail => Round(q) >= Pushed[Slot(q)]
                 /\ q >= nHead' => Round(q) >= Popped[Slot(q)]
                 /\ q < nHead' => Round(q) < Pushed[Slot(q)]
      <3>1. CASE q = nHead
        <4>1. nHead >= nTail => Round(nHead) >= Pushed[k]
          BY <1>5 DEF MpmcInv, MpmcRounds, k
        <4>2. Pushed[Slot(q)] = Round(q) + 1 /\ Round(q) \in Nat
          BY <1>5, <1>6, <3>1 DEF k
        <4>3. q < nHead' /\ ~(q >= nHead')
          BY <1>2, <1>5, <3>1
        <4>4. q >= nTail => Round(q) >= Pushed[Slot(q)]
          BY <3>1, <4>1 DEF k
        <4>5. Round(q) < Pushed[Slot(q)]
          BY <4>2
        <4>. QED
          BY <4>3, <4>4, <4>5
      <3>2. CASE q # nHead
        <4>1. (q >= nHead' => q >= nHead) /\ (q < nHead' => q < nHead)
          BY <1>2, <1>5, <3>2
        <4>. QED
          BY <4>1, Zenon DEF MpmcInv, MpmcRounds
      <3>. QED
        BY <3>1, <3>2
    <2>. QED
      BY <1>2, <1>4, <2>1 DEF MpmcInv, MpmcRounds
  <1>9. \A u \in Workers : u # t /\ At[u] \in Busy => Slot(Pos[u]) # Slot(Pos[t])
    <2>1. SUFFICES ASSUME NEW u \in Workers, At[u] \in Busy, Slot(Pos[u]) = k
                   PROVE  FALSE
      BY <1>2 DEF k
    <2>2. u \in Consumers
      BY <1>5, <1>6, <2>1 DEF MpmcInv, MpmcUse, Busy, Workers
    <2>3. Pos[u] < nHead /\ Round(Pos[u]) = Round(nHead)
      BY <1>6, <2>1, <2>2 DEF MpmcInv, MpmcUse, Busy
    <2>. QED
      BY <1>5, <2>1, <2>3, OnePosition DEF k
  <1>10. MpmcUse'
    <2>1. \A v, u \in Workers :
             v # u /\ At'[v] \in Busy /\ At'[u] \in Busy => Slot(Pos'[v]) # Slot(Pos'[u])
      BY <1>1, <1>3, <1>9, NewOwner DEF MpmcInv
    <2>2. ASSUME NEW u \in Workers, At'[u] \in Busy
          PROVE  /\ u \in Producers => /\ Pos[u] < nTail /\ SeenPush[u] = Round(Pos[u])
                                       /\ Pushed[Slot(Pos[u])] = Round(Pos[u])
                                       /\ Popped[Slot(Pos[u])] = Round(Pos[u])
                 /\ u \in Consumers => /\ Pos[u] < nHead' /\ SeenPop[u] = Round(Pos[u])
                                       /\ Popped[Slot(Pos[u])] = Round(Pos[u])
                                       /\ Pushed[Slot(Pos[u])] = Round(Pos[u]) + 1
      <3>1. CASE u = t
        BY <1>1, <1>2, <1>5, <1>6, <3>1 DEF k
      <3>2. CASE u # t
        <4>1. At[u] \in Busy /\ Pos[u] \in Nat
          BY <1>3, <1>5, <2>2, <3>2
        <4>. QED
          BY <1>2, <1>5, <4>1 DEF MpmcInv, MpmcUse, Busy
      <3>. QED
        BY <3>1, <3>2
    <2>. QED
      BY <1>2, <1>3, <1>4, <2>1, <2>2 DEF MpmcUse, Busy
  <1>11. \A u \in Workers : u # t => At'[u] = At[u]
    BY <1>3, <1>5
  <1>12. At'[t] = "use"
    BY <1>1, <1>3, <1>5
  <1>13. MpmcSeen'
    <2>1. ASSUME NEW u \in Workers, At[u] = "loadPush", u \in Consumers PROVE Pos[u] <= nHead'
      <3>1. Pos[u] <= nHead /\ Pos[u] \in Nat
        BY <1>5, <2>1 DEF MpmcInv, MpmcSeen
      <3>. QED
        BY <1>2, <1>5, <3>1
    <2>. QED
      BY <2>1, <1>3, <1>4, <1>11, <1>12 DEF MpmcInv, MpmcSeen
  <1>14. MpmcValues'
    <2>1. \A q \in DOMAIN popped : q < nHead'
      BY <1>2, <1>5 DEF MpmcInv, MpmcValues, MpmcTypes
    <2>. QED
      BY <2>1, <1>1, <1>2, <1>3, <1>4, <1>11, <1>12 DEF MpmcInv, MpmcValues, Workers
  <1>. QED
    BY <1>7, <1>8, <1>10, <1>13, <1>14 DEF MpmcInv

(* What a busy thread's slot is, as MpmcUse and the types give it. *)
LEMMA BusySlot ==
    ASSUME MpmcInv, NEW t \in Workers, At[t] \in Busy
    PROVE  /\ Pos[t] \in Nat /\ Slot(Pos[t]) \in Slots /\ Round(Pos[t]) \in Nat
           /\ \A u \in Workers : u # t /\ At[u] \in Busy => Slot(Pos[u]) # Slot(Pos[t])
           /\ t \in Producers => /\ Pos[t] < nTail /\ SeenPush[t] = Round(Pos[t])
                                 /\ Pushed[Slot(Pos[t])] = Round(Pos[t])
                                 /\ Popped[Slot(Pos[t])] = Round(Pos[t])
           /\ t \in Consumers => /\ Pos[t] < nHead /\ SeenPop[t] = Round(Pos[t])
                                 /\ Popped[Slot(Pos[t])] = Round(Pos[t])
                                 /\ Pushed[Slot(Pos[t])] = Round(Pos[t]) + 1
  <1>1. Pos[t] \in Nat
    BY FieldTypes DEF MpmcInv
  <1>2. Slot(Pos[t]) \in Slots /\ Round(Pos[t]) \in Nat
    BY <1>1, SlotTypes
  <1>3. \A u \in Workers : u # t /\ At[u] \in Busy => Slot(Pos[u]) # Slot(Pos[t])
    BY DEF MpmcInv, MpmcUse, Busy
  <1>. QED
    BY <1>1, <1>2, <1>3 DEF MpmcInv, MpmcUse, Busy

(* The write of a claimed slot. *)
LEMMA StepWriteValue ==
    ASSUME MpmcInv, NEW t \in Workers, Mpmc!WriteValue(t)
    PROVE  MpmcInv'
  <1>. DEFINE k == Slot(Pos[t])
              value == Mpmc!counterNext(t)
  <1>1. /\ t \in Producers /\ t \notin Consumers /\ At[t] = "use"
        /\ th[t] \in ThreadRec /\ th[t].pos = Pos[t] /\ value \in Value
    BY SyncAssumption DEF Mpmc!WriteValue, MpmcInv, MpmcTypes, At, Pos, ThreadRec,
          Mpmc!counterNext, Value
  <1>2. /\ Pos[t] \in Nat /\ k \in Slots /\ Round(Pos[t]) \in Nat
        /\ \A u \in Workers : u # t /\ At[u] \in Busy => Slot(Pos[u]) # k
        /\ Pushed[k] = Round(Pos[t]) /\ Popped[k] = Round(Pos[t])
        /\ Pos[t] < nTail
    BY <1>1, BusySlot DEF Busy
  <1>. HIDE DEF value
  <1>3. /\ th' = [th EXCEPT ![t].at = "finish"]
        /\ slot' = [slot EXCEPT ![k].val = value]
        /\ placed' = [q \in DOMAIN placed \cup {Pos[t]} |->
                         IF q = Pos[t] THEN value ELSE placed[q]]
        /\ UNCHANGED <<nHead, nTail, popped>>
    BY <1>1 DEF Mpmc!WriteValue, Mpmc!Go, Mpmc!Mine, Slot, value
  <1>. HIDE DEF k
  <1>4. /\ th' \in [Workers -> ThreadRec]
        /\ At' = [At EXCEPT ![t] = "finish"] /\ Pos' = Pos
        /\ SeenPush' = SeenPush /\ SeenPop' = SeenPop
    BY <1>3, GoMoves DEF MpmcInv, MpmcTypes, ThreadAt
  <1>5. /\ slot' \in [Slots -> SlotRec]
        /\ Pushed' = Pushed /\ Popped' = Popped
        /\ Holds' = [Holds EXCEPT ![k] = value]
    BY <1>1, <1>2, <1>3 DEF MpmcInv, MpmcTypes, SlotRec, Pushed, Popped, Holds
  <1>6. /\ At \in [Workers -> ThreadAt] /\ Pos \in [Workers -> Nat] /\ DOMAIN Holds = Slots
        /\ Pushed \in [Slots -> Nat] /\ Popped \in [Slots -> Nat]
    BY FieldTypes DEF MpmcInv
  <1>7. /\ DOMAIN placed' = DOMAIN placed \cup {Pos[t]} /\ placed'[Pos[t]] = value
        /\ \A q \in DOMAIN placed : q # Pos[t] => placed'[q] = placed[q]
    BY <1>3
  <1>8. MpmcTypes'
    BY <1>2, <1>3, <1>4, <1>5, <1>7 DEF MpmcInv, MpmcTypes
  <1>9. MpmcRounds'
    BY <1>3, <1>5 DEF MpmcInv, MpmcRounds
  <1>10. At'[t] = "finish" /\ \A u \in Workers : u # t => At'[u] = At[u]
    BY <1>4, <1>6
  <1>11. \A u \in Workers : At'[u] \in Busy => At[u] \in Busy
    BY <1>1, <1>10 DEF Busy
  <1>12. MpmcUse'
    BY <1>3, <1>4, <1>5, <1>11 DEF MpmcInv, MpmcUse, Busy
  <1>13. MpmcSeen'
    BY <1>3, <1>4, <1>5, <1>10 DEF MpmcInv, MpmcSeen
  <1>14. Holds'[k] = value /\ \A j \in Slots : j # k => Holds'[j] = Holds[j]
    BY <1>2, <1>5, <1>6
  <1>15. ASSUME NEW q \in Nat, Pushed[Slot(q)] = Popped[Slot(q)] + 1, Round(q) = Popped[Slot(q)]
         PROVE  q \in DOMAIN placed' /\ Holds'[Slot(q)] = placed'[q]
    <2>1. Slot(q) # k /\ Slot(q) \in Slots
      BY <1>2, <1>15, SlotTypes
    <2>2. q \in DOMAIN placed /\ Holds[Slot(q)] = placed[q]
      BY <1>15 DEF MpmcInv, MpmcValues
    <2>3. q # Pos[t]
      BY <2>1 DEF k
    <2>. QED
      BY <1>7, <1>14, <2>1, <2>2, <2>3
  <1>16. ASSUME NEW u \in Producers, At'[u] = "finish"
         PROVE  Pos[u] \in DOMAIN placed' /\ Holds'[Slot(Pos[u])] = placed'[Pos[u]]
    <2>1. CASE u = t
      BY <1>7, <1>14, <2>1 DEF k
    <2>2. CASE u # t
      <3>1. u \in Workers /\ At[u] = "finish" /\ Pos[u] \in Nat
        BY <1>6, <1>10, <1>16, <2>2 DEF Workers
      <3>2. Slot(Pos[u]) # k /\ Slot(Pos[u]) \in Slots
        BY <1>2, <2>2, <3>1, SlotTypes DEF Busy
      <3>3. Pos[u] \in DOMAIN placed /\ Holds[Slot(Pos[u])] = placed[Pos[u]]
        BY <3>1 DEF MpmcInv, MpmcValues
      <3>4. Pos[u] # Pos[t]
        BY <3>2 DEF k
      <3>. QED
        BY <1>7, <1>14, <3>2, <3>3, <3>4
    <2>. QED
      BY <2>1, <2>2
  <1>17. ASSUME NEW q \in DOMAIN popped
         PROVE  q < nHead /\ q \in DOMAIN placed' /\ popped[q] = placed'[q]
    <2>1. q < nHead /\ q \in DOMAIN placed /\ popped[q] = placed[q] /\ q \in Nat
      BY DEF MpmcInv, MpmcValues, MpmcTypes
    <2>2. Round(q) < Pushed[Slot(q)]
      BY <2>1 DEF MpmcInv, MpmcRounds
    <2>3. q # Pos[t]
      BY <1>2, <2>2 DEF k
    <2>. QED
      BY <1>7, <2>1, <2>3
  <1>18. MpmcValues'
    BY <1>3, <1>4, <1>5, <1>15, <1>16, <1>17 DEF MpmcValues
  <1>. QED
    BY <1>8, <1>9, <1>12, <1>13, <1>18 DEF MpmcInv

(* The read of a claimed slot. *)
LEMMA StepReadValue ==
    ASSUME MpmcInv, NEW t \in Workers, Mpmc!ReadValue(t)
    PROVE  MpmcInv'
  <1>. DEFINE k == Slot(Pos[t])
  <1>1. /\ t \in Consumers /\ t \notin Producers /\ At[t] = "use"
        /\ th[t] \in ThreadRec /\ th[t].pos = Pos[t]
    BY SyncAssumption DEF Mpmc!ReadValue, MpmcInv, MpmcTypes, At, Pos
  <1>2. /\ Pos[t] \in Nat /\ k \in Slots /\ Round(Pos[t]) \in Nat /\ Pos[t] < nHead
        /\ Pushed[k] = Round(Pos[t]) + 1 /\ Popped[k] = Round(Pos[t])
    BY <1>1, BusySlot DEF Busy
  <1>3. /\ th' = [th EXCEPT ![t].at = "finish"]
        /\ popped' = [q \in DOMAIN popped \cup {Pos[t]} |->
                         IF q = Pos[t] THEN slot[k].val ELSE popped[q]]
        /\ UNCHANGED <<nHead, nTail, slot, placed>>
    BY <1>1 DEF Mpmc!ReadValue, Mpmc!Go, Mpmc!Mine, Slot
  <1>4. slot[k].val = Holds[k]
    BY <1>2 DEF Holds
  <1>5. Pos[t] \in DOMAIN placed /\ Holds[k] = placed[Pos[t]]
    BY <1>2 DEF MpmcInv, MpmcValues
  <1>. HIDE DEF k
  <1>6. /\ th' \in [Workers -> ThreadRec]
        /\ At' = [At EXCEPT ![t] = "finish"] /\ Pos' = Pos
        /\ SeenPush' = SeenPush /\ SeenPop' = SeenPop
    BY <1>3, GoMoves DEF MpmcInv, MpmcTypes, ThreadAt
  <1>7. Pushed' = Pushed /\ Popped' = Popped /\ Holds' = Holds
    BY <1>3 DEF Pushed, Popped, Holds
  <1>8. /\ DOMAIN popped' = DOMAIN popped \cup {Pos[t]} /\ popped'[Pos[t]] = placed[Pos[t]]
        /\ \A q \in DOMAIN popped : q # Pos[t] => popped'[q] = popped[q]
    BY <1>3, <1>4, <1>5
  <1>9. MpmcTypes'
    BY <1>2, <1>3, <1>6, <1>8 DEF MpmcInv, MpmcTypes
  <1>10. MpmcRounds'
    BY <1>3, <1>7 DEF MpmcInv, MpmcRounds
  <1>11. At'[t] = "finish" /\ \A u \in Workers : u # t => At'[u] = At[u]
    BY <1>6, FieldTypes DEF MpmcInv
  <1>12. \A u \in Workers : At'[u] \in Busy => At[u] \in Busy
    BY <1>1, <1>11 DEF Busy
  <1>13. MpmcUse'
    BY <1>3, <1>6, <1>7, <1>12 DEF MpmcInv, MpmcUse, Busy
  <1>14. MpmcSeen'
    BY <1>3, <1>6, <1>7, <1>11 DEF MpmcInv, MpmcSeen
  <1>15. \A q \in DOMAIN popped' : q < nHead /\ q \in DOMAIN placed /\ popped'[q] = placed[q]
    BY <1>2, <1>5, <1>8 DEF MpmcInv, MpmcValues
  <1>16. \A u \in Producers : At'[u] = "finish" => At[u] = "finish"
    BY <1>1, <1>11 DEF Workers
  <1>17. MpmcValues'
    BY <1>3, <1>6, <1>7, <1>15, <1>16 DEF MpmcInv, MpmcValues
  <1>. QED
    BY <1>9, <1>10, <1>13, <1>14, <1>17 DEF MpmcInv

(* What the rise of a count does to the fields of the slots. *)
LEMMA CountMoves ==
    ASSUME slot \in [Slots -> SlotRec], NEW k \in Slots, NEW c \in Nat
    PROVE  /\ slot' = [slot EXCEPT ![k].push = c + 1] =>
                /\ slot' \in [Slots -> SlotRec] /\ Popped' = Popped /\ Holds' = Holds
                /\ Pushed' = [Pushed EXCEPT ![k] = c + 1]
           /\ slot' = [slot EXCEPT ![k].pop = c + 1] =>
                /\ slot' \in [Slots -> SlotRec] /\ Pushed' = Pushed /\ Holds' = Holds
                /\ Popped' = [Popped EXCEPT ![k] = c + 1]
  <1>1. c + 1 \in Nat
    OBVIOUS
  <1>2. ASSUME slot' = [slot EXCEPT ![k].push = c + 1]
        PROVE  /\ slot' \in [Slots -> SlotRec] /\ Popped' = Popped /\ Holds' = Holds
               /\ Pushed' = [Pushed EXCEPT ![k] = c + 1]
    BY <1>1, <1>2 DEF SlotRec, Pushed, Popped, Holds
  <1>3. ASSUME slot' = [slot EXCEPT ![k].pop = c + 1]
        PROVE  /\ slot' \in [Slots -> SlotRec] /\ Pushed' = Pushed /\ Holds' = Holds
               /\ Popped' = [Popped EXCEPT ![k] = c + 1]
    BY <1>1, <1>3 DEF SlotRec, Pushed, Popped, Holds
  <1>. QED
    BY <1>2, <1>3

(* The end of a push: the slot is full, in a round that no unclaimed        *)
(* position of the slot has.                                               *)
LEMMA StepFinishPush ==
    ASSUME MpmcInv, NEW t \in Workers, Mpmc!FinishPush(t)
    PROVE  MpmcInv'
  <1>. DEFINE k == Slot(Pos[t])
  <1>1. /\ t \in Producers /\ t \notin Consumers /\ At[t] = "finish"
        /\ th[t] \in ThreadRec /\ th[t].pos = Pos[t] /\ th[t].pushCount = SeenPush[t]
    BY SyncAssumption DEF Mpmc!FinishPush, MpmcInv, MpmcTypes, At, Pos, SeenPush
  <1>2. /\ Pos[t] \in Nat /\ k \in Slots /\ Round(Pos[t]) \in Nat
        /\ \A u \in Workers : u # t /\ At[u] \in Busy => Slot(Pos[u]) # k
        /\ SeenPush[t] = Round(Pos[t])
        /\ Pushed[k] = Round(Pos[t]) /\ Popped[k] = Round(Pos[t])
        /\ Pos[t] < nTail
    BY <1>1, BusySlot DEF Busy
  <1>3. PICK where \in {"call", "done"}, n \in Nat :
               th' = [th EXCEPT ![t] = Mpmc!Outside(where, n)]
    <2>1. th' = [th EXCEPT ![t] = Mpmc!Outside(IF th[t].n + 1 >= Pushes THEN "done" ELSE "call",
                                               th[t].n + 1)]
      BY DEF Mpmc!FinishPush
    <2>2. th[t].n + 1 \in Nat
      BY <1>1 DEF ThreadRec
    <2>. QED
      BY <2>1, <2>2
  <1>4. /\ slot' = [slot EXCEPT ![k].push = Round(Pos[t]) + 1]
        /\ UNCHANGED <<nHead, nTail, placed, popped>>
    BY <1>1, <1>2 DEF Mpmc!FinishPush, Mpmc!Mine, Slot
  <1>. DEFINE rec == Mpmc!Outside(where, n)
  <1>5. rec \in ThreadRec /\ rec.at = where /\ th' = [th EXCEPT ![t] = rec]
    BY <1>3 DEF Mpmc!Outside, ThreadRec, ThreadAt
  <1>. HIDE DEF k, rec
  <1>6. /\ th' \in [Workers -> ThreadRec]
        /\ At' = [At EXCEPT ![t] = where] /\ Pos' = [Pos EXCEPT ![t] = rec.pos]
        /\ SeenPush' = [SeenPush EXCEPT ![t] = rec.pushCount]
        /\ SeenPop' = [SeenPop EXCEPT ![t] = rec.popCount]
    BY <1>5, ThreadMoves DEF MpmcInv, MpmcTypes
  <1>7. /\ slot' \in [Slots -> SlotRec] /\ Popped' = Popped /\ Holds' = Holds
        /\ Pushed' = [Pushed EXCEPT ![k] = Round(Pos[t]) + 1]
    BY <1>2, <1>4, CountMoves DEF MpmcInv, MpmcTypes
  <1>8. /\ At \in [Workers -> ThreadAt] /\ Pos \in [Workers -> Nat]
        /\ SeenPush \in [Workers -> Nat] /\ SeenPop \in [Workers -> Nat]
        /\ Pushed \in [Slots -> Nat] /\ Popped \in [Slots -> Nat]
        /\ nTail \in Nat
    BY FieldTypes DEF MpmcInv
  <1>9. /\ Pushed'[k] = Round(Pos[t]) + 1 /\ Popped[k] \in Nat
        /\ \A j \in Slots : Pushed[j] <= Pushed'[j] /\ (j # k => Pushed'[j] = Pushed[j])
    BY <1>2, <1>7, <1>8
  <1>10. At'[t] = where /\ where \notin Busy /\ where # "loadPush" /\ where # "loadPop"
         /\ where # "decide"
    BY <1>3, <1>6, <1>8 DEF Busy
  <1>11. \A u \in Workers : u # t =>
           /\ At'[u] = At[u] /\ Pos'[u] = Pos[u]
           /\ SeenPush'[u] = SeenPush[u] /\ SeenPop'[u] = SeenPop[u]
    BY <1>6, <1>8
  <1>12. MpmcTypes'
    BY <1>4, <1>6, <1>7 DEF MpmcInv, MpmcTypes
  <1>13. MpmcRounds'
    <2>1. \A j \in Slots : Popped[j] <= Pushed'[j] /\ Pushed'[j] <= Popped[j] + 1
      <3>1. SUFFICES ASSUME NEW j \in Slots
                     PROVE  Popped[j] <= Pushed'[j] /\ Pushed'[j] <= Popped[j] + 1
        OBVIOUS
      <3>2. CASE j = k
        BY <1>2, <1>9, <3>2
      <3>3. CASE j # k
        BY <1>9, <3>3 DEF MpmcInv, MpmcRounds
      <3>. QED
        BY <3>2, <3>3
    <2>2. ASSUME NEW q \in Nat, q >= nTail PROVE Round(q) >= Pushed'[Slot(q)]
      <3>1. Slot(q) \in Slots /\ Round(q) \in Nat
        BY SlotTypes
      <3>2. CASE Slot(q) = k
        <4>1. Pos[t] < q
          BY <1>2, <1>8, <2>2
        <4>2. Round(Pos[t]) < Round(q)
          BY <1>2, <3>2, <4>1, RoundGrows DEF k
        <4>. QED
          BY <1>2, <1>9, <3>1, <3>2, <4>2
      <3>3. CASE Slot(q) # k
        BY <1>9, <2>2, <3>1, <3>3 DEF MpmcInv, MpmcRounds
      <3>. QED
        BY <3>2, <3>3
    <2>3. ASSUME NEW q \in Nat, q < nHead PROVE Round(q) < Pushed'[Slot(q)]
      <3>1. Slot(q) \in Slots /\ Round(q) \in Nat
        BY SlotTypes
      <3>2. Round(q) < Pushed[Slot(q)] /\ Pushed[Slot(q)] <= Pushed'[Slot(q)]
        BY <1>9, <2>3, <3>1 DEF MpmcInv, MpmcRounds
      <3>3. Pushed[Slot(q)] \in Nat /\ Pushed'[Slot(q)] \in Nat
        BY <1>2, <1>7, <1>8, <3>1
      <3>. QED
        BY <3>1, <3>2, <3>3
    <2>4. \A q \in Nat : q >= nHead => Round(q) >= Popped[Slot(q)]
      BY DEF MpmcInv, MpmcRounds
    <2>. QED
      BY <1>4, <1>7, <2>1, <2>2, <2>3, <2>4 DEF MpmcRounds
  <1>14. ASSUME NEW u \in Workers, At'[u] \in Busy
         PROVE  /\ u # t /\ At[u] \in Busy /\ At'[u] = At[u] /\ Pos'[u] = Pos[u]
                /\ SeenPush'[u] = SeenPush[u] /\ SeenPop'[u] = SeenPop[u]
                /\ Slot(Pos[u]) # k /\ Pushed'[Slot(Pos[u])] = Pushed[Slot(Pos[u])]
    <2>1. u # t
      BY <1>10, <1>14
    <2>2. At[u] \in Busy /\ Slot(Pos[u]) \in Slots
      BY <1>8, <1>11, <1>14, <2>1, SlotTypes
    <2>. QED
      BY <1>2, <1>9, <1>11, <2>1, <2>2
  <1>15. MpmcUse'
    BY <1>4, <1>7, <1>14 DEF MpmcInv, MpmcUse, Busy
  <1>16. MpmcSeen'
    <2>1. SUFFICES ASSUME NEW u \in Workers, u # t
          PROVE  /\ At[u] = "loadPush" /\ u \in Consumers => Pos[u] <= nHead
                 /\ At[u] \in {"loadPop", "decide"} =>
                      /\ SeenPush[u] <= Pushed'[Slot(Pos[u])]
                      /\ u \in Consumers => Round(Pos[u]) <= SeenPush[u]
                 /\ At[u] = "decide" => SeenPop[u] <= Popped[Slot(Pos[u])]
      BY <1>4, <1>7, <1>10, <1>11 DEF MpmcSeen
    <2>2. /\ At[u] = "loadPush" /\ u \in Consumers => Pos[u] <= nHead
          /\ At[u] \in {"loadPop", "decide"} =>
               /\ SeenPush[u] <= Pushed[Slot(Pos[u])]
               /\ u \in Consumers => Round(Pos[u]) <= SeenPush[u]
          /\ At[u] = "decide" => SeenPop[u] <= Popped[Slot(Pos[u])]
      BY DEF MpmcInv, MpmcSeen
    <2>3. Slot(Pos[u]) \in Slots
      BY <1>8, SlotTypes
    <2>4. /\ Pushed[Slot(Pos[u])] <= Pushed'[Slot(Pos[u])] /\ SeenPush[u] \in Nat
          /\ Pushed[Slot(Pos[u])] \in Nat /\ Pushed'[Slot(Pos[u])] \in Nat
      BY <1>2, <1>7, <1>8, <1>9, <2>3
    <2>5. SeenPush[u] <= Pushed[Slot(Pos[u])] => SeenPush[u] <= Pushed'[Slot(Pos[u])]
      BY <2>4
    <2>. QED
      BY <2>2, <2>5
  <1>17. ASSUME NEW q \in Nat, Pushed'[Slot(q)] = Popped[Slot(q)] + 1,
                Round(q) = Popped[Slot(q)]
         PROVE  q \in DOMAIN placed /\ Holds[Slot(q)] = placed[q]
    <2>1. CASE Slot(q) = k
      <3>1. q = Pos[t]
        BY <1>2, <1>17, <2>1, OnePosition DEF k
      <3>. QED
        BY <1>1, <3>1 DEF MpmcInv, MpmcValues
    <2>2. CASE Slot(q) # k
      <3>1. Slot(q) \in Slots
        BY SlotTypes
      <3>2. Pushed'[Slot(q)] = Pushed[Slot(q)]
        BY <1>9, <2>2, <3>1
      <3>. QED
        BY <1>17, <3>2 DEF MpmcInv, MpmcValues
    <2>. QED
      BY <2>1, <2>2
  <1>18. \A u \in Producers : At'[u] = "finish" => At[u] = "finish" /\ Pos'[u] = Pos[u]
    BY <1>14 DEF Workers, Busy
  <1>19. MpmcValues'
    BY <1>4, <1>7, <1>17, <1>18 DEF MpmcInv, MpmcValues
  <1>. QED
    BY <1>12, <1>13, <1>15, <1>16, <1>19 DEF MpmcInv

(* The end of a pop: the slot is empty again, for its next round. *)
LEMMA StepFinishPop ==
    ASSUME MpmcInv, NEW t \in Workers, Mpmc!FinishPop(t)
    PROVE  MpmcInv'
  <1>. DEFINE k == Slot(Pos[t])
              rec == Mpmc!Outside("call", 0)
  <1>1. /\ t \in Consumers /\ t \notin Producers /\ At[t] = "finish"
        /\ th[t] \in ThreadRec /\ th[t].pos = Pos[t] /\ th[t].popCount = SeenPop[t]
    BY SyncAssumption DEF Mpmc!FinishPop, MpmcInv, MpmcTypes, At, Pos, SeenPop
  <1>2. /\ Pos[t] \in Nat /\ k \in Slots /\ Round(Pos[t]) \in Nat
        /\ \A u \in Workers : u # t /\ At[u] \in Busy => Slot(Pos[u]) # k
        /\ SeenPop[t] = Round(Pos[t])
        /\ Pushed[k] = Round(Pos[t]) + 1 /\ Popped[k] = Round(Pos[t])
        /\ Pos[t] < nHead
    BY <1>1, BusySlot DEF Busy
  <1>4. /\ slot' = [slot EXCEPT ![k].pop = Round(Pos[t]) + 1]
        /\ UNCHANGED <<nHead, nTail, placed, popped>>
    BY <1>1, <1>2 DEF Mpmc!FinishPop, Mpmc!Mine, Slot
  <1>5. rec \in ThreadRec /\ rec.at = "call" /\ th' = [th EXCEPT ![t] = rec]
    BY DEF Mpmc!FinishPop, Mpmc!Outside, ThreadRec, ThreadAt
  <1>. HIDE DEF k, rec
  <1>6. /\ th' \in [Workers -> ThreadRec]
        /\ At' = [At EXCEPT ![t] = "call"] /\ Pos' = [Pos EXCEPT ![t] = rec.pos]
        /\ SeenPush' = [SeenPush EXCEPT ![t] = rec.pushCount]
        /\ SeenPop' = [SeenPop EXCEPT ![t] = rec.popCount]
    <2>1. /\ th' \in [Workers -> ThreadRec]
          /\ At' = [At EXCEPT ![t] = rec.at] /\ Pos' = [Pos EXCEPT ![t] = rec.pos]
          /\ SeenPush' = [SeenPush EXCEPT ![t] = rec.pushCount]
          /\ SeenPop' = [SeenPop EXCEPT ![t] = rec.popCount]
      BY <1>5, ThreadMoves DEF MpmcInv, MpmcTypes
    <2>. QED
      BY <1>5, <2>1
  <1>7. /\ slot' \in [Slots -> SlotRec] /\ Pushed' = Pushed /\ Holds' = Holds
        /\ Popped' = [Popped EXCEPT ![k] = Round(Pos[t]) + 1]
    BY <1>2, <1>4, CountMoves DEF MpmcInv, MpmcTypes
  <1>8. /\ At \in [Workers -> ThreadAt] /\ Pos \in [Workers -> Nat]
        /\ SeenPush \in [Workers -> Nat] /\ SeenPop \in [Workers -> Nat]
        /\ Pushed \in [Slots -> Nat] /\ Popped \in [Slots -> Nat]
        /\ nHead \in Nat
    BY FieldTypes DEF MpmcInv
  <1>9. /\ Popped'[k] = Round(Pos[t]) + 1
        /\ \A j \in Slots : Popped[j] <= Popped'[j] /\ (j # k => Popped'[j] = Popped[j])
    BY <1>2, <1>7, <1>8
  <1>10. At'[t] = "call"
    BY <1>6, <1>8
  <1>11. \A u \in Workers : u # t =>
           /\ At'[u] = At[u] /\ Pos'[u] = Pos[u]
           /\ SeenPush'[u] = SeenPush[u] /\ SeenPop'[u] = SeenPop[u]
    BY <1>6, <1>8
  <1>12. MpmcTypes'
    BY <1>4, <1>6, <1>7 DEF MpmcInv, MpmcTypes
  <1>13. MpmcRounds'
    <2>1. \A j \in Slots : Popped'[j] <= Pushed[j] /\ Pushed[j] <= Popped'[j] + 1
      <3>1. SUFFICES ASSUME NEW j \in Slots
                     PROVE  Popped'[j] <= Pushed[j] /\ Pushed[j] <= Popped'[j] + 1
        OBVIOUS
      <3>2. CASE j = k
        BY <1>2, <1>9, <3>2
      <3>3. CASE j # k
        BY <1>9, <3>3 DEF MpmcInv, MpmcRounds
      <3>. QED
        BY <3>2, <3>3
    <2>2. ASSUME NEW q \in Nat, q >= nHead PROVE Round(q) >= Popped'[Slot(q)]
      <3>1. Slot(q) \in Slots /\ Round(q) \in Nat
        BY SlotTypes
      <3>2. CASE Slot(q) = k
        <4>1. Pos[t] < q
          BY <1>2, <1>8, <2>2
        <4>2. Round(Pos[t]) < Round(q)
          BY <1>2, <3>2, <4>1, RoundGrows DEF k
        <4>. QED
          BY <1>2, <1>9, <3>1, <3>2, <4>2
      <3>3. CASE Slot(q) # k
        BY <1>9, <2>2, <3>1, <3>3 DEF MpmcInv, MpmcRounds
      <3>. QED
        BY <3>2, <3>3
    <2>3. \A q \in Nat : /\ q >= nTail => Round(q) >= Pushed[Slot(q)]
                         /\ q < nHead => Round(q) < Pushed[Slot(q)]
      BY DEF MpmcInv, MpmcRounds
    <2>. QED
      BY <1>4, <1>7, <2>1, <2>2, <2>3 DEF MpmcRounds
  <1>14. ASSUME NEW u \in Workers, At'[u] \in Busy
         PROVE  /\ u # t /\ At[u] \in Busy /\ At'[u] = At[u] /\ Pos'[u] = Pos[u]
                /\ SeenPush'[u] = SeenPush[u] /\ SeenPop'[u] = SeenPop[u]
                /\ Slot(Pos[u]) # k /\ Popped'[Slot(Pos[u])] = Popped[Slot(Pos[u])]
    <2>1. u # t
      BY <1>10, <1>14 DEF Busy
    <2>2. At[u] \in Busy /\ Slot(Pos[u]) \in Slots
      BY <1>8, <1>11, <1>14, <2>1, SlotTypes
    <2>. QED
      BY <1>2, <1>9, <1>11, <2>1, <2>2
  <1>15. MpmcUse'
    BY <1>4, <1>7, <1>14 DEF MpmcInv, MpmcUse, Busy
  <1>16. MpmcSeen'
    <2>1. SUFFICES ASSUME NEW u \in Workers, u # t
          PROVE  /\ At[u] = "loadPush" /\ u \in Consumers => Pos[u] <= nHead
                 /\ At[u] \in {"loadPop", "decide"} =>
                      /\ SeenPush[u] <= Pushed[Slot(Pos[u])]
                      /\ u \in Consumers => Round(Pos[u]) <= SeenPush[u]
                 /\ At[u] = "decide" => SeenPop[u] <= Popped'[Slot(Pos[u])]
      BY <1>4, <1>7, <1>10, <1>11 DEF MpmcSeen
    <2>2. /\ At[u] = "loadPush" /\ u \in Consumers => Pos[u] <= nHead
          /\ At[u] \in {"loadPop", "decide"} =>
               /\ SeenPush[u] <= Pushed[Slot(Pos[u])]
               /\ u \in Consumers => Round(Pos[u]) <= SeenPush[u]
          /\ At[u] = "decide" => SeenPop[u] <= Popped[Slot(Pos[u])]
      BY DEF MpmcInv, MpmcSeen
    <2>3. Slot(Pos[u]) \in Slots
      BY <1>8, SlotTypes
    <2>4. /\ Popped[Slot(Pos[u])] <= Popped'[Slot(Pos[u])] /\ SeenPop[u] \in Nat
          /\ Popped[Slot(Pos[u])] \in Nat /\ Popped'[Slot(Pos[u])] \in Nat
      BY <1>2, <1>7, <1>8, <1>9, <2>3
    <2>5. SeenPop[u] <= Popped[Slot(Pos[u])] => SeenPop[u] <= Popped'[Slot(Pos[u])]
      BY <2>4
    <2>. QED
      BY <2>2, <2>5
  <1>17. ASSUME NEW q \in Nat, Pushed[Slot(q)] = Popped'[Slot(q)] + 1,
                Round(q) = Popped'[Slot(q)]
         PROVE  q \in DOMAIN placed /\ Holds[Slot(q)] = placed[q]
    <2>1. Slot(q) # k
      BY <1>2, <1>9, <1>17
    <2>2. Slot(q) \in Slots
      BY SlotTypes
    <2>3. Popped'[Slot(q)] = Popped[Slot(q)]
      BY <1>9, <2>1, <2>2
    <2>. QED
      BY <1>17, <2>3 DEF MpmcInv, MpmcValues
  <1>18. \A u \in Producers : At'[u] = "finish" => At[u] = "finish" /\ Pos'[u] = Pos[u]
    BY <1>14 DEF Workers, Busy
  <1>19. MpmcValues'
    BY <1>4, <1>7, <1>17, <1>18 DEF MpmcInv, MpmcValues
  <1>. QED
    BY <1>12, <1>13, <1>15, <1>16, <1>19 DEF MpmcInv

(* A thread's step, and a step of the other programs. *)
LEMMA MpmcStepKeeps == ASSUME MpmcInv, [Next]_vars PROVE MpmcInv'
  <1>1. ASSUME NEW t \in Workers, Mpmc!Step(t) PROVE MpmcInv'
    <2>1. CASE Mpmc!Claim(t)
      BY <2>1, StepClaimPush, StepClaimPop DEF Workers
    <2>2. CASE ~Mpmc!Claim(t)
      BY <1>1, <2>2, StepLoadIndex, StepLoadPushCount, StepLoadPopCount, StepOutside,
         StepWriteValue, StepReadValue, StepFinishPush, StepFinishPop DEF Mpmc!Step
    <2>. QED
      BY <2>1, <2>2
  <1>2. CASE Mpmc!Next
    BY <1>1, <1>2 DEF Mpmc!Next, Mpmc!Threads, Workers
  <1>3. CASE UNCHANGED mpmcVars
    <2>1. UNCHANGED <<nHead, nTail, th, slot, placed, popped>>
      BY <1>3 DEF mpmcVars
    <2>2. /\ At' = At /\ Pos' = Pos /\ SeenPush' = SeenPush /\ SeenPop' = SeenPop
          /\ Pushed' = Pushed /\ Popped' = Popped /\ Holds' = Holds
      BY <2>1 DEF At, Pos, SeenPush, SeenPop, Pushed, Popped, Holds
    <2>3. MpmcTypes' /\ MpmcRounds'
      BY <2>1, <2>2 DEF MpmcInv, MpmcTypes, MpmcRounds
    <2>4. MpmcUse' /\ MpmcSeen'
      BY <2>1, <2>2 DEF MpmcInv, MpmcUse, MpmcSeen
    <2>5. MpmcValues'
      BY <2>1, <2>2 DEF MpmcInv, MpmcValues
    <2>. QED
      BY <2>3, <2>4, <2>5 DEF MpmcInv
  <1>. QED
    BY <1>2, <1>3, MpmcStep

(* The program starts with every slot empty, in round 0. *)
LEMMA MpmcInit == Init => MpmcInv
  <1>. SUFFICES ASSUME Mpmc!Init PROVE MpmcInv
    BY DEF Init
  <1>1. /\ nHead = 0 /\ nTail = 0 /\ placed = <<>> /\ popped = <<>>
        /\ th = [t \in Workers |-> Mpmc!Outside("call", 0)]
        /\ slot = [k \in Slots |-> [push |-> 0, pop |-> 0, val |-> <<>>]]
    BY DEF Mpmc!Init, Mpmc!Threads, Mpmc!Nothing, Workers, Slots
  <1>2. MpmcTypes
    <2>1. DOMAIN placed \subseteq Nat /\ DOMAIN popped \subseteq Nat
      BY <1>1
    <2>2. Mpmc!Outside("call", 0) \in ThreadRec
      BY DEF Mpmc!Outside, ThreadRec, ThreadAt
    <2>3. [push |-> 0, pop |-> 0, val |-> <<>>] \in SlotRec
      BY DEF SlotRec, Value
    <2>. QED
      BY <1>1, <2>1, <2>2, <2>3 DEF MpmcTypes
  <1>3. /\ \A t \in Workers : At[t] = "call"
        /\ \A k \in Slots : Pushed[k] = 0 /\ Popped[k] = 0
    BY <1>1 DEF At, Pushed, Popped, Mpmc!Outside
  <1>4. MpmcRounds
    BY <1>1, <1>3, SlotTypes DEF MpmcRounds
  <1>5. MpmcUse /\ MpmcSeen
    BY <1>3 DEF MpmcUse, MpmcSeen
  <1>6. MpmcValues
    BY <1>1, <1>3, SlotTypes DEF MpmcValues, Workers
  <1>. QED
    BY <1>2, <1>4, <1>5, <1>6 DEF MpmcInv

(* With any number of slots, of producers and of consumers, no two threads *)
(* use a slot at the same time, and a consumer gets at each position the   *)
(* value that was put there, whatever old counts a delayed thread holds.   *)
THEOREM MpmcSlotsExclusive == Spec => []MpmcExclusive
  <1>1. MpmcInv => MpmcExclusive
    <2>. SUFFICES ASSUME MpmcInv PROVE MpmcExclusive
      OBVIOUS
    <2>1. ASSUME NEW t \in Workers, NEW u \in Workers, t # u,
                 {th[t].at, th[u].at} \subseteq {"use", "finish"}
          PROVE  th[t].pos % N # th[u].pos % N
      <3>1. At[t] \in {"use", "finish"} /\ At[u] \in {"use", "finish"}
        BY <2>1 DEF At
      <3>2. Slot(Pos[t]) # Slot(Pos[u])
        BY <2>1, <3>1 DEF MpmcInv, MpmcUse
      <3>. QED
        BY <3>2 DEF Slot, Pos
    <2>2. \A q \in DOMAIN popped : q \in DOMAIN placed /\ popped[q] = placed[q]
      BY DEF MpmcInv, MpmcValues
    <2>. QED
      BY <2>1, <2>2 DEF MpmcExclusive, Mpmc!SlotsExclusive, Mpmc!Threads, Mpmc!Mine, Workers
  <1>. QED
    BY <1>1, MpmcInit, MpmcStepKeeps, PTL DEF Spec

-----------------------------------------------------------------------------
(* The semaphores and the three threads that print in order.               *)

(* A step of the whole is a step of the threads, or leaves them alone. *)
LEMMA SemStep == [Next]_vars => Sem!Next \/ UNCHANGED semVars
  BY DEF Next, vars, semVars

(* The statements the threads are at, where they sleep, and the counts. *)
P1 == pc["t1"]
P2 == pc["t2"]
P3 == pc["t3"]
S1 == asleep["t1"]
S2 == asleep["t2"]
S3 == asleep["t3"]
C1 == semCount["sem1"]
C2 == semCount["sem2"]

SemTypes ==
    /\ useSem \in BOOLEAN
    /\ semCount \in [{"sem1", "sem2"} -> Int]
    /\ asleep \in [{"t1", "t2", "t3"} -> {"none", "sem1", "sem2"}]
    /\ pc \in [{"t1", "t2", "t3"} -> Nat]
    /\ P1 \in 1..3 /\ P2 \in 1..4 /\ P3 \in 1..3

E1 == "t1" \in early
E2 == "t2" \in early

(* A count is the posts less the waits that were begun; who waited before  *)
(* the post sleeps until it or until it wakes up on its own; who did not   *)
(* wake up on its own goes on behind the post.                             *)
SemTurns ==
    /\ C1 = (IF P3 = 3 THEN 1 ELSE 0) - (IF P2 > 1 THEN 1 ELSE 0)
    /\ C2 = (IF P2 = 4 THEN 1 ELSE 0) - (IF P1 > 1 THEN 1 ELSE 0)
    /\ S1 = (IF P1 = 2 /\ P2 < 4 /\ ~E1 THEN "sem2" ELSE "none")
    /\ S2 = (IF P2 = 2 /\ P3 < 3 /\ ~E2 THEN "sem1" ELSE "none")
    /\ S3 = "none"
    /\ P2 > 2 => P3 = 3 \/ E2
    /\ P1 > 2 => P2 = 4 \/ E1
    /\ E1 => P1 > 1
    /\ E2 => P2 > 1

(* A word is on the console. *)
Said(word) == \E i \in DOMAIN printed : printed[i] = word

(* A thread that is behind its print has said its word. *)
Words ==
    /\ printed \in Seq({"DEEP", "DARK", "FANTASY"})
    /\ P3 > 1 => Said("DEEP")
    /\ P2 > 2 => Said("DARK")

Ordered ==
    /\ E2 \/ Sem!Before("DEEP", "DARK")
    /\ E1 \/ Sem!Before("DARK", "FANTASY")

SemInv == SemTypes /\ Words /\ (useSem => SemTurns /\ Ordered)

(* The statements of the three functions. *)
LEMMA SemFunc ==
    /\ Sem!Threads = {"t1", "t2", "t3"}
    /\ Len(Sem!Func["t1"]) = 2 /\ Len(Sem!Func["t2"]) = 3 /\ Len(Sem!Func["t3"]) = 2
    /\ Sem!Func["t1"][1] = <<"wait", "sem2">> /\ Sem!Func["t1"][2] = <<"print", "FANTASY">>
    /\ Sem!Func["t2"][1] = <<"wait", "sem1">> /\ Sem!Func["t2"][2] = <<"print", "DARK">>
    /\ Sem!Func["t2"][3] = <<"post", "sem2">>
    /\ Sem!Func["t3"][1] = <<"print", "DEEP">> /\ Sem!Func["t3"][2] = <<"post", "sem1">>
  BY DEF Sem!Threads, Sem!Func

(* A thread that goes on to its next statement. *)
LEMMA PcMoves ==
    ASSUME SemTypes, NEW t \in {"t1", "t2", "t3"}, pc' = [pc EXCEPT ![t] = @ + 1]
    PROVE  /\ pc' \in [{"t1", "t2", "t3"} -> Nat]
           /\ P1' = (IF t = "t1" THEN P1 + 1 ELSE P1)
           /\ P2' = (IF t = "t2" THEN P2 + 1 ELSE P2)
           /\ P3' = (IF t = "t3" THEN P3 + 1 ELSE P3)
  BY DEF SemTypes, P1, P2, P3

(* A thread that falls asleep or is woken up. *)
LEMMA SleepMoves ==
    ASSUME SemTypes, NEW t \in {"t1", "t2", "t3"}, NEW on \in {"none", "sem1", "sem2"},
           asleep' = [asleep EXCEPT ![t] = on]
    PROVE  /\ asleep' \in [{"t1", "t2", "t3"} -> {"none", "sem1", "sem2"}]
           /\ S1' = (IF t = "t1" THEN on ELSE S1)
           /\ S2' = (IF t = "t2" THEN on ELSE S2)
           /\ S3' = (IF t = "t3" THEN on ELSE S3)
  BY DEF SemTypes, S1, S2, S3

(* A count that is raised or lowered by d. *)
LEMMA CountChanges ==
    ASSUME SemTypes, NEW sm \in {"sem1", "sem2"}, NEW d \in {-1, 1},
           semCount' = [semCount EXCEPT ![sm] = semCount[sm] + d]
    PROVE  /\ semCount' \in [{"sem1", "sem2"} -> Int]
           /\ C1' = (IF sm = "sem1" THEN C1 + d ELSE C1)
           /\ C2' = (IF sm = "sem2" THEN C2 + d ELSE C2)
  BY DEF SemTypes, C1, C2

(* The fields of the program's state have their types. *)
LEMMA SemFields ==
    ASSUME SemTypes
    PROVE  /\ C1 \in Int /\ C2 \in Int /\ P1 \in 1..3 /\ P2 \in 1..4 /\ P3 \in 1..3
           /\ S1 \in {"none", "sem1", "sem2"} /\ S2 \in {"none", "sem1", "sem2"}
           /\ S3 \in {"none", "sem1", "sem2"}
  BY DEF SemTypes, C1, C2, S1, S2, S3

(* A thread is at a statement of a kind only at these places. *)
LEMMA SemAt ==
    ASSUME SemTypes, NEW t \in {"t1", "t2", "t3"}
    PROVE  /\ Sem!At(t, "print") =>
                \/ t = "t1" /\ P1 = 2 /\ Sem!Operand(t) = "FANTASY"
                \/ t = "t2" /\ P2 = 2 /\ Sem!Operand(t) = "DARK"
                \/ t = "t3" /\ P3 = 1 /\ Sem!Operand(t) = "DEEP"
           /\ Sem!At(t, "wait") =>
                \/ t = "t1" /\ P1 = 1 /\ Sem!Operand(t) = "sem2"
                \/ t = "t2" /\ P2 = 1 /\ Sem!Operand(t) = "sem1"
           /\ Sem!At(t, "post") =>
                \/ t = "t2" /\ P2 = 3 /\ Sem!Operand(t) = "sem2"
                \/ t = "t3" /\ P3 = 2 /\ Sem!Operand(t) = "sem1"
  <1>1. ASSUME t = "t1", P1 <= 2
        PROVE  \/ P1 = 1 /\ Sem!Func[t][pc[t]] = <<"wait", "sem2">>
               \/ P1 = 2 /\ Sem!Func[t][pc[t]] = <<"print", "FANTASY">>
    BY <1>1, SemFunc, SemFields DEF P1
  <1>2. ASSUME t = "t2", P2 <= 3
        PROVE  \/ P2 = 1 /\ Sem!Func[t][pc[t]] = <<"wait", "sem1">>
               \/ P2 = 2 /\ Sem!Func[t][pc[t]] = <<"print", "DARK">>
               \/ P2 = 3 /\ Sem!Func[t][pc[t]] = <<"post", "sem2">>
    BY <1>2, SemFunc, SemFields DEF P2
  <1>3. ASSUME t = "t3", P3 <= 2
        PROVE  \/ P3 = 1 /\ Sem!Func[t][pc[t]] = <<"print", "DEEP">>
               \/ P3 = 2 /\ Sem!Func[t][pc[t]] = <<"post", "sem1">>
    BY <1>3, SemFunc, SemFields DEF P3
  <1>4. ASSUME NEW op, Sem!At(t, op)
        PROVE  /\ t = "t1" => P1 <= 2
               /\ t = "t2" => P2 <= 3
               /\ t = "t3" => P3 <= 2
               /\ Sem!Func[t][pc[t]][1] = op /\ Sem!Operand(t) = Sem!Func[t][pc[t]][2]
    BY <1>4, SemFunc DEF Sem!At, Sem!Operand, P1, P2, P3
  <1>5. CASE t = "t1"
    BY <1>1, <1>4, <1>5
  <1>6. CASE t = "t2"
    BY <1>2, <1>4, <1>6
  <1>7. CASE t = "t3"
    BY <1>3, <1>4, <1>7
  <1>. QED
    BY <1>5, <1>6, <1>7

(* The thread that is at a statement is awake. *)
LEMMA SemAwake ==
    ASSUME SemTypes, NEW t \in {"t1", "t2", "t3"}, NEW op, Sem!At(t, op)
    PROVE  /\ t = "t1" => S1 = "none"
           /\ t = "t2" => S2 = "none"
           /\ t = "t3" => S3 = "none"
  BY DEF Sem!At, S1, S2, S3

(* A word is added to the console: what was said stays said, and the order *)
(* of two words is kept if the later one is not added before the other.    *)
LEMMA SaysWord ==
    ASSUME printed \in Seq({"DEEP", "DARK", "FANTASY"}), NEW w1 \in {"DEEP", "DARK", "FANTASY"},
           printed' = Append(printed, w1)
    PROVE  /\ printed' \in Seq({"DEEP", "DARK", "FANTASY"})
           /\ Said(w1)' /\ \A a : Said(a) => Said(a)'
           /\ \A a, b : Sem!Before(a, b) /\ (w1 = b => Said(a)) => Sem!Before(a, b)'
  <1>1. PICK n \in Nat : n = Len(printed)
    OBVIOUS
  <1>2. /\ DOMAIN printed = 1..n /\ DOMAIN printed' = 1..(n + 1)
        /\ printed'[n + 1] = w1 /\ \A i \in 1..n : printed'[i] = printed[i]
    BY <1>1
  <1>3. printed' \in Seq({"DEEP", "DARK", "FANTASY"})
    OBVIOUS
  <1>4. Said(w1)'
    <2>1. n + 1 \in DOMAIN printed'
      BY <1>2
    <2>. QED
      BY <1>2, <2>1 DEF Said
  <1>5. ASSUME NEW a, Said(a) PROVE Said(a)'
    <2>1. PICK i \in 1..n : printed[i] = a
      BY <1>2, <1>5 DEF Said
    <2>2. i \in DOMAIN printed' /\ printed'[i] = a
      BY <1>2, <2>1
    <2>. QED
      BY <2>2 DEF Said
  <1>6. ASSUME NEW a, NEW b, Sem!Before(a, b), w1 = b => Said(a)
        PROVE  Sem!Before(a, b)'
    <2>1. ASSUME NEW i \in 1..(n + 1), printed'[i] = b
          PROVE  \E j \in 1..(i - 1) : printed'[j] = a
      <3>1. CASE i \in 1..n
        <4>1. PICK j \in 1..(i - 1) : printed[j] = a
          BY <1>2, <1>6, <2>1, <3>1 DEF Sem!Before
        <4>2. j \in 1..n
          BY <3>1
        <4>. QED
          BY <1>2, <4>1, <4>2
      <3>2. CASE i = n + 1
        <4>1. PICK j \in 1..n : printed[j] = a
          BY <1>2, <1>6, <2>1, <3>2 DEF Said
        <4>2. j \in 1..(i - 1) /\ printed'[j] = a
          BY <1>2, <3>2, <4>1
        <4>. QED
          BY <4>2
      <3>3. i \in 1..n \/ i = n + 1
        OBVIOUS
      <3>. QED
        BY <3>1, <3>2, <3>3
    <2>. QED
      BY <1>2, <2>1 DEF Sem!Before
  <1>. QED
    BY <1>3, <1>4, <1>5, <1>6

(* A word is printed. *)
LEMMA SemPrint ==
    ASSUME SemInv, NEW t \in {"t1", "t2", "t3"}, Sem!print(t)
    PROVE  SemInv'
  <1>1. /\ Sem!At(t, "print") /\ printed' = Append(printed, Sem!Operand(t))
        /\ pc' = [pc EXCEPT ![t] = @ + 1]
        /\ UNCHANGED <<useSem, early, semCount, asleep>>
    BY DEF Sem!print
  <1>2. SemTypes
    BY DEF SemInv
  <1>3. /\ pc' \in [{"t1", "t2", "t3"} -> Nat]
        /\ P1' = (IF t = "t1" THEN P1 + 1 ELSE P1)
        /\ P2' = (IF t = "t2" THEN P2 + 1 ELSE P2)
        /\ P3' = (IF t = "t3" THEN P3 + 1 ELSE P3)
    BY <1>1, <1>2, PcMoves
  <1>4. C1' = C1 /\ C2' = C2 /\ S1' = S1 /\ S2' = S2 /\ S3' = S3
    BY <1>1 DEF C1, C2, S1, S2, S3
  <1>5. \/ t = "t1" /\ P1 = 2 /\ Sem!Operand(t) = "FANTASY" /\ S1 = "none"
        \/ t = "t2" /\ P2 = 2 /\ Sem!Operand(t) = "DARK" /\ S2 = "none"
        \/ t = "t3" /\ P3 = 1 /\ Sem!Operand(t) = "DEEP" /\ S3 = "none"
    BY <1>1, <1>2, SemAt, SemAwake
  <1>6. P1 \in 1..3 /\ P2 \in 1..4 /\ P3 \in 1..3
    BY <1>2, SemFields
  <1>7. SemTypes'
    BY <1>1, <1>2, <1>3, <1>5, <1>6 DEF SemTypes
  <1>8. E1' = E1 /\ E2' = E2
    BY <1>1 DEF E1, E2
  <1>9. PICK w1 \in {"DEEP", "DARK", "FANTASY"} : w1 = Sem!Operand(t)
    BY <1>5
  <1>10. /\ printed' \in Seq({"DEEP", "DARK", "FANTASY"})
         /\ Said(w1)' /\ \A a : Said(a) => Said(a)'
         /\ \A a, b : Sem!Before(a, b) /\ (w1 = b => Said(a)) => Sem!Before(a, b)'
    <2>1. printed \in Seq({"DEEP", "DARK", "FANTASY"})
      BY DEF SemInv, Words
    <2>. QED
      BY <1>1, <1>9, <2>1, SaysWord
  <1>11. (P3 > 1 => Said("DEEP")) /\ (P2 > 2 => Said("DARK"))
    BY DEF SemInv, Words
  <1>12. Words'
    <2>1. P3' > 1 => Said("DEEP")'
      BY <1>3, <1>5, <1>6, <1>9, <1>10, <1>11
    <2>2. P2' > 2 => Said("DARK")'
      BY <1>3, <1>5, <1>6, <1>9, <1>10, <1>11
    <2>. QED
      BY <1>10, <2>1, <2>2 DEF Words
  <1>13. ASSUME useSem PROVE SemTurns' /\ Ordered'
    <2>1. SemTurns /\ Ordered
      BY <1>13 DEF SemInv
    <2>2. SemTurns'
      BY <1>3, <1>4, <1>5, <1>6, <1>8, <2>1 DEF SemTurns
    <2>3. E2' \/ Sem!Before("DEEP", "DARK")'
      <3>1. w1 = "DARK" => E2 \/ Said("DEEP")
        BY <1>5, <1>6, <1>9, <1>11, <2>1 DEF SemTurns
      <3>. QED
        BY <1>8, <1>10, <2>1, <3>1 DEF Ordered
    <2>4. E1' \/ Sem!Before("DARK", "FANTASY")'
      <3>1. w1 = "FANTASY" => E1 \/ Said("DARK")
        BY <1>5, <1>6, <1>9, <1>11, <2>1 DEF SemTurns
      <3>. QED
        BY <1>8, <1>10, <2>1, <3>1 DEF Ordered
    <2>5. Ordered'
      BY <2>3, <2>4 DEF Ordered
    <2>. QED
      BY <2>2, <2>5
  <1>. QED
    BY <1>1, <1>7, <1>12, <1>13 DEF SemInv

(* The words stay as they are. *)
LEMMA WordsStay ==
    ASSUME SemInv, UNCHANGED <<printed, early>>, P3 > 1 <=> P3' > 1, P2 > 2 <=> P2' > 2
    PROVE  Words' /\ (Ordered => Ordered') /\ E1' = E1 /\ E2' = E2
  <1>1. Words'
    BY DEF SemInv, Words, Said
  <1>2. E1' = E1 /\ E2' = E2
    BY DEF E1, E2
  <1>3. Sem!Before("DEEP", "DARK")' = Sem!Before("DEEP", "DARK")
    BY DEF Sem!Before
  <1>4. Sem!Before("DARK", "FANTASY")' = Sem!Before("DARK", "FANTASY")
    BY DEF Sem!Before
  <1>5. Ordered => Ordered'
    BY <1>2, <1>3, <1>4 DEF Ordered
  <1>. QED
    BY <1>1, <1>2, <1>5

(* A call that is not made. *)
LEMMA SemSkip ==
    ASSUME SemInv, NEW t \in {"t1", "t2", "t3"}, Sem!skip(t)
    PROVE  SemInv'
  <1>1. /\ ~useSem /\ (Sem!At(t, "wait") \/ Sem!At(t, "post"))
        /\ pc' = [pc EXCEPT ![t] = @ + 1]
        /\ UNCHANGED <<useSem, early, semCount, asleep, printed>>
    BY DEF Sem!skip
  <1>2. SemTypes
    BY DEF SemInv
  <1>3. /\ pc' \in [{"t1", "t2", "t3"} -> Nat]
        /\ P1' = (IF t = "t1" THEN P1 + 1 ELSE P1)
        /\ P2' = (IF t = "t2" THEN P2 + 1 ELSE P2)
        /\ P3' = (IF t = "t3" THEN P3 + 1 ELSE P3)
    BY <1>1, <1>2, PcMoves
  <1>4. \/ t = "t1" /\ P1 = 1
        \/ t = "t2" /\ P2 \in {1, 3}
        \/ t = "t3" /\ P3 = 2
    BY <1>1, <1>2, SemAt
  <1>5. P1 \in 1..3 /\ P2 \in 1..4 /\ P3 \in 1..3
    BY <1>2, SemFields
  <1>6. SemTypes'
    BY <1>1, <1>2, <1>3, <1>4, <1>5 DEF SemTypes
  <1>7. Words'
    <2>1. (P3 > 1 <=> P3' > 1) /\ (P2 > 2 => P2' > 2)
      BY <1>3, <1>4, <1>5
    <2>2. P2' > 2 => P2 > 2
      BY <1>3, <1>4, <1>5
    <2>. QED
      BY <1>1, <2>1, <2>2, WordsStay
  <1>. QED
    BY <1>1, <1>6, <1>7 DEF SemInv

(* A wait: the count was zero, and the thread sleeps, unless the post was  *)
(* made before.                                                            *)
LEMMA SemWait ==
    ASSUME SemInv, NEW t \in {"t1", "t2", "t3"}, Sem!wait(t)
    PROVE  SemInv'
  <1>. DEFINE sm == Sem!Operand(t)
              on == IF semCount[sm] - 1 < 0 THEN sm ELSE "none"
  <1>1. /\ Sem!At(t, "wait")
        /\ pc' = [pc EXCEPT ![t] = @ + 1]
        /\ UNCHANGED <<useSem, early, printed>>
    BY DEF Sem!wait
  <1>2. SemTypes
    BY DEF SemInv
  <1>3. \/ t = "t1" /\ P1 = 1 /\ sm = "sem2" /\ S1 = "none" /\ semCount[sm] = C2
        \/ t = "t2" /\ P2 = 1 /\ sm = "sem1" /\ S2 = "none" /\ semCount[sm] = C1
    BY <1>1, <1>2, SemAt, SemAwake DEF C1, C2
  <1>4. semCount[sm] \in Int /\ on \in {"none", "sem1", "sem2"}
    BY <1>2, <1>3, SemFields
  <1>5. semCount' = [semCount EXCEPT ![sm] = semCount[sm] + -1]
    BY <1>4 DEF Sem!wait
  <1>6. asleep' = [asleep EXCEPT ![t] = on]
    BY DEF Sem!wait, Sem!MustSleep
  <1>7. on = "none" <=> semCount[sm] >= 1
    BY <1>3, <1>4
  <1>8. on = IF semCount[sm] >= 1 THEN "none" ELSE sm
    BY <1>4
  <1>. HIDE DEF sm, on
  <1>9. /\ pc' \in [{"t1", "t2", "t3"} -> Nat]
        /\ P1' = (IF t = "t1" THEN P1 + 1 ELSE P1)
        /\ P2' = (IF t = "t2" THEN P2 + 1 ELSE P2)
        /\ P3' = (IF t = "t3" THEN P3 + 1 ELSE P3)
    BY <1>1, <1>2, PcMoves
  <1>10. /\ asleep' \in [{"t1", "t2", "t3"} -> {"none", "sem1", "sem2"}]
         /\ S1' = (IF t = "t1" THEN on ELSE S1)
         /\ S2' = (IF t = "t2" THEN on ELSE S2)
         /\ S3' = (IF t = "t3" THEN on ELSE S3)
    BY <1>2, <1>4, <1>6, SleepMoves
  <1>11. /\ semCount' \in [{"sem1", "sem2"} -> Int]
         /\ C1' = (IF sm = "sem1" THEN C1 + -1 ELSE C1)
         /\ C2' = (IF sm = "sem2" THEN C2 + -1 ELSE C2)
    BY <1>2, <1>3, <1>5, CountChanges
  <1>12. P1 \in 1..3 /\ P2 \in 1..4 /\ P3 \in 1..3 /\ C1 \in Int /\ C2 \in Int
    BY <1>2, SemFields
  <1>13. SemTypes'
    BY <1>1, <1>2, <1>3, <1>9, <1>10, <1>11, <1>12 DEF SemTypes
  <1>14. Words' /\ (Ordered => Ordered') /\ E1' = E1 /\ E2' = E2
    <2>1. (P3 > 1 <=> P3' > 1) /\ (P2 > 2 <=> P2' > 2)
      BY <1>3, <1>9, <1>12
    <2>. QED
      BY <1>1, <2>1, WordsStay
  <1>15. ASSUME useSem PROVE SemTurns' /\ Ordered'
    <2>1. SemTurns /\ Ordered
      BY <1>15 DEF SemInv
    <2>2. CASE t = "t1"
      <3>1. /\ P1 = 1 /\ P1' = 2 /\ P2' = P2 /\ P3' = P3 /\ S2' = S2 /\ S3' = S3
            /\ C1' = C1 /\ C2' = C2 - 1 /\ S1' = IF C2 >= 1 THEN "none" ELSE "sem2"
        BY <1>3, <1>8, <1>9, <1>10, <1>11, <1>12, <2>2
      <3>2. SemTurns'
        BY <1>12, <1>14, <2>1, <3>1 DEF SemTurns
      <3>. QED
        BY <1>14, <2>1, <3>2
    <2>3. CASE t = "t2"
      <3>1. /\ P2 = 1 /\ P2' = 2 /\ P1' = P1 /\ P3' = P3 /\ S1' = S1 /\ S3' = S3
            /\ C2' = C2 /\ C1' = C1 - 1 /\ S2' = IF C1 >= 1 THEN "none" ELSE "sem1"
        BY <1>3, <1>8, <1>9, <1>10, <1>11, <1>12, <2>3
      <3>2. SemTurns'
        BY <1>12, <1>14, <2>1, <3>1 DEF SemTurns
      <3>. QED
        BY <1>14, <2>1, <3>2
    <2>. QED
      BY <1>3, <2>2, <2>3
  <1>. QED
    BY <1>1, <1>13, <1>15, <1>14 DEF SemInv

(* A post: it wakes the thread that sleeps, if one does. *)
LEMMA SemPost ==
    ASSUME SemInv, NEW t \in {"t1", "t2", "t3"}, Sem!post(t)
    PROVE  SemInv'
  <1>. DEFINE sm == Sem!Operand(t)
              sleepers == {u \in {"t1", "t2", "t3"} : asleep[u] = sm}
  <1>1. /\ Sem!At(t, "post")
        /\ pc' = [pc EXCEPT ![t] = @ + 1]
        /\ UNCHANGED <<useSem, early, printed>>
    BY DEF Sem!post
  <1>2. SemTypes
    BY DEF SemInv
  <1>3. \/ t = "t2" /\ P2 = 3 /\ sm = "sem2" /\ S2 = "none" /\ semCount[sm] = C2
        \/ t = "t3" /\ P3 = 2 /\ sm = "sem1" /\ S3 = "none" /\ semCount[sm] = C1
    BY <1>1, <1>2, SemAt, SemAwake DEF C1, C2
  <1>4. semCount[sm] \in Int
    BY <1>2, <1>3, SemFields
  <1>5. semCount' = [semCount EXCEPT ![sm] = semCount[sm] + 1]
    BY <1>4 DEF Sem!post
  <1>6. \/ /\ semCount[sm] + 1 <= 0
           /\ \E u \in sleepers : asleep' = [asleep EXCEPT ![u] = "none"]
      \/ /\ semCount[sm] + 1 > 0 \/ sleepers = {}
         /\ asleep' = asleep
    BY <1>4, SemFunc DEF Sem!post
  <1>. HIDE DEF sm
  <1>9. /\ pc' \in [{"t1", "t2", "t3"} -> Nat]
        /\ P1' = (IF t = "t1" THEN P1 + 1 ELSE P1)
        /\ P2' = (IF t = "t2" THEN P2 + 1 ELSE P2)
        /\ P3' = (IF t = "t3" THEN P3 + 1 ELSE P3)
    BY <1>1, <1>2, PcMoves
  <1>10. /\ asleep' \in [{"t1", "t2", "t3"} -> {"none", "sem1", "sem2"}]
         /\ \/ /\ semCount[sm] + 1 <= 0
               /\ \/ S1 = sm /\ S1' = "none" /\ S2' = S2 /\ S3' = S3
                  \/ S2 = sm /\ S1' = S1 /\ S2' = "none" /\ S3' = S3
                  \/ S3 = sm /\ S1' = S1 /\ S2' = S2 /\ S3' = "none"
            \/ /\ semCount[sm] + 1 > 0 \/ (S1 # sm /\ S2 # sm /\ S3 # sm)
               /\ S1' = S1 /\ S2' = S2 /\ S3' = S3
    <2>1. ASSUME NEW u \in sleepers, semCount[sm] + 1 <= 0,
                 asleep' = [asleep EXCEPT ![u] = "none"]
          PROVE  /\ asleep' \in [{"t1", "t2", "t3"} -> {"none", "sem1", "sem2"}]
                 /\ \/ S1 = sm /\ S1' = "none" /\ S2' = S2 /\ S3' = S3
                    \/ S2 = sm /\ S1' = S1 /\ S2' = "none" /\ S3' = S3
                    \/ S3 = sm /\ S1' = S1 /\ S2' = S2 /\ S3' = "none"
      <3>1. /\ asleep' \in [{"t1", "t2", "t3"} -> {"none", "sem1", "sem2"}]
            /\ S1' = (IF u = "t1" THEN "none" ELSE S1)
            /\ S2' = (IF u = "t2" THEN "none" ELSE S2)
            /\ S3' = (IF u = "t3" THEN "none" ELSE S3)
        BY <1>2, <2>1, SleepMoves
      <3>2. /\ u = "t1" => S1 = sm
            /\ u = "t2" => S2 = sm
            /\ u = "t3" => S3 = sm
        BY <2>1 DEF S1, S2, S3
      <3>. QED
        BY <3>1, <3>2
    <2>2. ASSUME semCount[sm] + 1 > 0 \/ sleepers = {}, asleep' = asleep
          PROVE  /\ asleep' \in [{"t1", "t2", "t3"} -> {"none", "sem1", "sem2"}]
                 /\ semCount[sm] + 1 > 0 \/ (S1 # sm /\ S2 # sm /\ S3 # sm)
                 /\ S1' = S1 /\ S2' = S2 /\ S3' = S3
      BY <1>2, <2>2 DEF SemTypes, S1, S2, S3
    <2>. QED
      BY <1>6, <2>1, <2>2
  <1>11. /\ semCount' \in [{"sem1", "sem2"} -> Int]
         /\ C1' = (IF sm = "sem1" THEN C1 + 1 ELSE C1)
         /\ C2' = (IF sm = "sem2" THEN C2 + 1 ELSE C2)
    BY <1>2, <1>3, <1>5, CountChanges
  <1>12. P1 \in 1..3 /\ P2 \in 1..4 /\ P3 \in 1..3 /\ C1 \in Int /\ C2 \in Int
    BY <1>2, SemFields
  <1>. HIDE DEF sleepers
  <1>13. SemTypes'
    BY <1>1, <1>2, <1>3, <1>9, <1>10, <1>11, <1>12 DEF SemTypes
  <1>14. Words' /\ (Ordered => Ordered') /\ E1' = E1 /\ E2' = E2
    <2>1. (P3 > 1 <=> P3' > 1) /\ (P2 > 2 <=> P2' > 2)
      BY <1>3, <1>9, <1>12
    <2>. QED
      BY <1>1, <2>1, WordsStay
  <1>15. ASSUME useSem PROVE SemTurns' /\ Ordered'
    <2>1. SemTurns /\ Ordered
      BY <1>15 DEF SemInv
    <2>2. CASE t = "t2"
      <3>1. /\ P2 = 3 /\ P2' = 4 /\ P1' = P1 /\ P3' = P3 /\ C1' = C1 /\ C2' = C2 + 1
            /\ sm = "sem2" /\ semCount[sm] = C2
        BY <1>3, <1>9, <1>11, <1>12, <2>2
      <3>2. S1' = "none" /\ S2' = S2 /\ S3' = S3
        BY <1>10, <1>12, <2>1, <3>1 DEF SemTurns
      <3>3. SemTurns'
        BY <1>12, <1>14, <2>1, <3>1, <3>2 DEF SemTurns
      <3>. QED
        BY <1>14, <2>1, <3>3
    <2>3. CASE t = "t3"
      <3>1. /\ P3 = 2 /\ P3' = 3 /\ P1' = P1 /\ P2' = P2 /\ C2' = C2 /\ C1' = C1 + 1
            /\ sm = "sem1" /\ semCount[sm] = C1
        BY <1>3, <1>9, <1>11, <1>12, <2>3
      <3>2. S2' = "none" /\ S1' = S1 /\ S3' = S3
        BY <1>10, <1>12, <2>1, <3>1 DEF SemTurns
      <3>3. SemTurns'
        BY <1>12, <1>14, <2>1, <3>1, <3>2 DEF SemTurns
      <3>. QED
        BY <1>14, <2>1, <3>3
    <2>. QED
      BY <1>3, <2>2, <2>3
  <1>. QED
    BY <1>1, <1>13, <1>15, <1>14 DEF SemInv

(* Every step of the program keeps the counts and the order. *)
LEMMA SemKept == ASSUME SemInv, [Next]_vars PROVE SemInv'
  <1>1. ASSUME NEW t \in {"t1", "t2", "t3"}, Sem!wakeUp(t) PROVE SemInv'
    <2>1. /\ asleep[t] # "none" /\ asleep' = [asleep EXCEPT ![t] = "none"]
          /\ early' = early \cup {t}
          /\ UNCHANGED <<useSem, semCount, pc, printed>>
      BY <1>1 DEF Sem!wakeUp
    <2>2. SemTypes'
      BY <2>1 DEF SemInv, SemTypes, P1, P2, P3
    <2>3. Words'
      BY <2>1 DEF SemInv, Words, Said, P2, P3
    <2>4. ASSUME useSem PROVE SemTurns' /\ Ordered'
      <3>1. SemTypes /\ SemTurns /\ Ordered
        BY <2>4 DEF SemInv
      <3>2. /\ S1' = (IF t = "t1" THEN "none" ELSE S1)
            /\ S2' = (IF t = "t2" THEN "none" ELSE S2)
            /\ S3' = (IF t = "t3" THEN "none" ELSE S3)
        BY <2>1, <3>1, SleepMoves
      <3>3. P1' = P1 /\ P2' = P2 /\ P3' = P3 /\ C1' = C1 /\ C2' = C2
        BY <2>1 DEF P1, P2, P3, C1, C2
      <3>4. /\ E1' <=> E1 \/ t = "t1"
            /\ E2' <=> E2 \/ t = "t2"
        BY <2>1 DEF E1, E2
      <3>5. /\ t = "t1" => S1 # "none"
            /\ t = "t2" => S2 # "none"
            /\ t = "t3" => S3 # "none"
        BY <2>1 DEF S1, S2, S3
      <3>6. SemTurns'
        BY <3>1, <3>2, <3>3, <3>4, <3>5, SemFields DEF SemTurns
      <3>7. Sem!Before("DEEP", "DARK")' = Sem!Before("DEEP", "DARK")
        BY <2>1 DEF Sem!Before
      <3>8. Sem!Before("DARK", "FANTASY")' = Sem!Before("DARK", "FANTASY")
        BY <2>1 DEF Sem!Before
      <3>9. Ordered'
        BY <3>1, <3>4, <3>7, <3>8 DEF Ordered
      <3>. QED
        BY <3>6, <3>9
    <2>. QED
      BY <2>1, <2>2, <2>3, <2>4 DEF SemInv
  <1>2. CASE Sem!Next
    BY <1>1, <1>2, SemFunc, SemPrint, SemSkip, SemWait, SemPost DEF Sem!Next, Sem!Step
  <1>3. CASE UNCHANGED semVars
    <2>1. UNCHANGED <<useSem, early, semCount, asleep, pc, printed>>
      BY <1>3 DEF semVars
    <2>2. P1' = P1 /\ P2' = P2 /\ P3' = P3
      BY <2>1 DEF P1, P2, P3
    <2>3. SemTypes'
      BY <2>1, <2>2 DEF SemInv, SemTypes
    <2>4. Words' /\ (Ordered => Ordered') /\ E1' = E1 /\ E2' = E2
      BY <2>1, <2>2, WordsStay
    <2>5. SemTurns => SemTurns'
      BY <2>1, <2>2, <2>4 DEF SemTurns, S1, S2, S3, C1, C2
    <2>. QED
      BY <2>1, <2>3, <2>4, <2>5 DEF SemInv
  <1>. QED
    BY <1>2, <1>3, SemStep

(* With semaphores, DARK comes behind DEEP and FANTASY behind DARK, unless *)
(* the very thread that prints the later word woke up in a wait without a  *)
(* notification, whichever of a wait and its post comes first and whatever *)
(* the other thread did.                                                   *)
THEOREM SemPrintsInOrder == Spec => []WordsInOrder
  <1>1. Init => SemInv
    <2>. SUFFICES ASSUME Sem!Init PROVE SemInv
      BY DEF Init
    <2>1. /\ useSem \in BOOLEAN /\ early = {}
          /\ semCount = [sm \in {"sem1", "sem2"} |-> 0]
          /\ asleep = [t \in {"t1", "t2", "t3"} |-> "none"]
          /\ pc = [t \in {"t1", "t2", "t3"} |-> 1] /\ printed = <<>>
      BY SemFunc DEF Sem!Init, Sem!Sems
    <2>2. /\ P1 = 1 /\ P2 = 1 /\ P3 = 1 /\ S1 = "none" /\ S2 = "none" /\ S3 = "none"
          /\ C1 = 0 /\ C2 = 0 /\ ~E1 /\ ~E2
      BY <2>1 DEF P1, P2, P3, S1, S2, S3, C1, C2, E1, E2
    <2>3. SemTypes
      BY <2>1, <2>2 DEF SemTypes
    <2>4. Words
      BY <2>1, <2>2 DEF Words
    <2>5. SemTurns
      BY <2>2 DEF SemTurns
    <2>6. DOMAIN printed = {}
      BY <2>1
    <2>7. Ordered
      BY <2>6 DEF Ordered, Sem!Before
    <2>. QED
      BY <2>3, <2>4, <2>5, <2>7 DEF SemInv
  <1>2. SemInv => WordsInOrder
    BY DEF SemInv, Ordered, WordsInOrder, Sem!WordsInOrder, E1, E2
  <1>. QED
    BY <1>1, <1>2, SemKept, PTL DEF Spec

-----------------------------------------------------------------------------
(* The ring.                                                               *)

LEMMA RingStep == [Next]_vars => (program = "Ring" /\ Ring!Next) \/ UNCHANGED ringVars
  BY DEF Next, vars, ringVars

Chars == Byte \cup {NUL}

RingInv ==
    /\ buf \in [0..(SIZE - 1) -> Chars] /\ full \in BOOLEAN
    /\ rIdx \in 0..SIZE /\ wIdx \in 0..SIZE
    /\ full => rIdx = wIdx

(* The place of a position in the ring. *)
Place(x) == x % SIZE

(* Less than a turn ahead or behind, the place is found by one SIZE. *)
LEMMA Places ==
    ASSUME NEW x \in Int
    PROVE  /\ Place(x) \in 0..(SIZE - 1)
           /\ x \in 0..(SIZE - 1) => Place(x) = x
           /\ x - SIZE \in 0..(SIZE - 1) => Place(x) = x - SIZE
           /\ x + SIZE \in 0..(SIZE - 1) => Place(x) = x + SIZE
  <1>. SIZE \in Nat \ {0}
    BY SyncAssumption
  <1>1. Place(x) \in 0..(SIZE - 1)
    BY DEF Place
  <1>2. x \in 0..(SIZE - 1) => Place(x) = x
    BY DEF Place
  <1>3. x - SIZE \in 0..(SIZE - 1) => Place(x) = x - SIZE
    BY DEF Place
  <1>4. x + SIZE \in 0..(SIZE - 1) => Place(x) = x + SIZE
    BY DEF Place
  <1>. QED
    BY <1>1, <1>2, <1>3, <1>4

(* The len characters of b from idx on. *)
Read(b, idx, len) == [i \in 1..len |-> b[Place(idx + i - 1)]]

LEMMA ReadIs ==
    ASSUME NEW b \in [0..(SIZE - 1) -> Chars], NEW x \in 0..SIZE, NEW n \in Nat
    PROVE  /\ Read(b, x, n) \in Seq(Chars) /\ Len(Read(b, x, n)) = n
           /\ \A i \in 1..n : Read(b, x, n)[i] = b[Place(x + i - 1)]
  <1>1. \A i \in 1..n : b[Place(x + i - 1)] \in Chars
    <2>1. SUFFICES ASSUME NEW i \in 1..n
                   PROVE  b[Place(x + i - 1)] \in Chars
      OBVIOUS
    <2>2. x + i - 1 \in Int
      BY SyncAssumption
    <2>3. Place(x + i - 1) \in 0..(SIZE - 1)
      BY <2>2, Places
    <2>. QED
      BY <2>3
  <1>2. PICK s : s = Read(b, x, n)
    OBVIOUS
  <1>3. s \in [1..n -> Chars] /\ \A i \in 1..n : s[i] = b[Place(x + i - 1)]
    BY <1>1, <1>2 DEF Read
  <1>4. s \in Seq(Chars) /\ Len(s) = n
    BY <1>3
  <1>. QED
    BY <1>2, <1>3, <1>4

LEMMA TailIs ==
    ASSUME NEW s \in Seq(Chars), NEW k \in 0..Len(s)
    PROVE  /\ SubSeq(s, k + 1, Len(s)) \in Seq(Chars)
           /\ Len(SubSeq(s, k + 1, Len(s))) = Len(s) - k
           /\ \A i \in 1..(Len(s) - k) : SubSeq(s, k + 1, Len(s))[i] = s[k + i]
  <1>1. PICK n \in Nat : n = Len(s)
    OBVIOUS
  <1>2. k + 1 \in 1..(n + 1) /\ n \in ((k + 1) - 1)..n
    BY <1>1
  <1>3. /\ SubSeq(s, k + 1, n) \in Seq(Chars)
        /\ Len(SubSeq(s, k + 1, n)) = IF k + 1 <= n THEN n - (k + 1) + 1 ELSE 0
        /\ \A i \in 1..(n - (k + 1) + 1) : SubSeq(s, k + 1, n)[i] = s[(k + 1) + i - 1]
    BY <1>1, <1>2, SubSeqProperties
  <1>4. \A i \in 1..(n - k) : i \in 1..(n - (k + 1) + 1) /\ (k + 1) + i - 1 = k + i
    BY <1>1
  <1>. QED
    BY <1>1, <1>3, <1>4

(* The y behind the first len of the characters from x on. *)
Ahead(x, len, y) == y = x + len \/ y = x + len - SIZE

LEMMA FrontTaken ==
    ASSUME NEW b \in [0..(SIZE - 1) -> Chars], NEW x \in 0..SIZE, NEW y \in 0..SIZE,
           NEW n \in 0..SIZE, NEW len \in 1..n, Ahead(x, len, y)
    PROVE  /\ Read(b, x, n) = Read(b, x, len) \o Read(b, y, n - len)
           /\ Read(b, y, n - len) = SubSeq(Read(b, x, n), len + 1, n)
  <1>. SIZE \in Nat \ {0}
    BY SyncAssumption
  <1>1. PICK s : s = Read(b, x, n)
    OBVIOUS
  <1>2. PICK f : f = Read(b, x, len)
    OBVIOUS
  <1>3. PICK g : g = Read(b, y, n - len)
    OBVIOUS
  <1>4. n \in Nat /\ len \in Nat /\ n - len \in Nat
    OBVIOUS
  <1>5. s \in Seq(Chars) /\ Len(s) = n /\ \A i \in 1..n : s[i] = b[Place(x + i - 1)]
    <2>1. /\ Read(b, x, n) \in Seq(Chars) /\ Len(Read(b, x, n)) = n
          /\ \A i \in 1..n : Read(b, x, n)[i] = b[Place(x + i - 1)]
      BY <1>4, ReadIs
    <2>. QED
      BY <1>1, <2>1
  <1>6. f \in Seq(Chars) /\ Len(f) = len /\ \A i \in 1..len : f[i] = b[Place(x + i - 1)]
    <2>1. /\ Read(b, x, len) \in Seq(Chars) /\ Len(Read(b, x, len)) = len
          /\ \A i \in 1..len : Read(b, x, len)[i] = b[Place(x + i - 1)]
      BY <1>4, ReadIs
    <2>. QED
      BY <1>2, <2>1
  <1>7. /\ g \in Seq(Chars) /\ Len(g) = n - len
        /\ \A i \in 1..(n - len) : g[i] = b[Place(y + i - 1)]
    <2>1. /\ Read(b, y, n - len) \in Seq(Chars) /\ Len(Read(b, y, n - len)) = n - len
          /\ \A i \in 1..(n - len) : Read(b, y, n - len)[i] = b[Place(y + i - 1)]
      BY <1>4, ReadIs
    <2>. QED
      BY <1>3, <2>1
  <1>8. ASSUME NEW i \in 1..(n - len)
        PROVE  g[i] = s[len + i]
    <2>1. PICK u \in Int : u = y + i - 1
      OBVIOUS
    <2>2. PICK v \in Int : v = x + (len + i) - 1
      OBVIOUS
    <2>3. u \in 0..(2 * SIZE - 1) /\ v \in 0..(2 * SIZE - 1)
      BY <2>1, <2>2
    <2>4. v = u \/ v = u + SIZE
      BY <2>1, <2>2 DEF Ahead
    <2>5. Place(u) = Place(v)
      <3>1. CASE v = u
        BY <3>1
      <3>2. CASE v = u + SIZE
        <4>1. u \in 0..(SIZE - 1) /\ v - SIZE = u
          BY <2>3, <3>2
        <4>2. Place(u) = u /\ Place(v) = u
          BY <4>1, Places
        <4>. QED
          BY <4>2
      <3>. QED
        BY <2>4, <3>1, <3>2
    <2>6. len + i \in 1..n
      BY <1>4
    <2>. QED
      BY <1>5, <1>7, <2>1, <2>2, <2>5, <2>6
  <1>9. s = f \o g
    <2>1. /\ f \o g \in Seq(Chars) /\ Len(f \o g) = Len(f) + Len(g)
          /\ \A i \in 1..(Len(f) + Len(g)) :
               (f \o g)[i] = IF i <= Len(f) THEN f[i] ELSE g[i - Len(f)]
      BY <1>6, <1>7, ConcatProperties
    <2>2. /\ Len(f) = len /\ Len(f) + Len(g) = n
      BY <1>4, <1>6, <1>7
    <2>3. Len(f \o g) = n /\ \A i \in 1..n : (f \o g)[i] = IF i <= len THEN f[i] ELSE g[i - len]
      BY <2>1, <2>2
    <2>4. ASSUME NEW i \in 1..n
          PROVE  s[i] = (f \o g)[i]
      <3>1. (f \o g)[i] = IF i <= len THEN f[i] ELSE g[i - len]
        BY <2>3
      <3>2. CASE i <= len
        <4>1. i \in 1..len
          BY <3>2
        <4>2. f[i] = s[i]
          BY <1>5, <1>6, <4>1
        <4>. QED
          BY <3>1, <3>2, <4>2
      <3>3. CASE ~(i <= len)
        <4>1. PICK j \in 1..(n - len) : j = i - len
          BY <3>3
        <4>2. len + j = i /\ ~(i <= len)
          BY <3>3, <4>1
        <4>. QED
          BY <1>8, <3>1, <4>1, <4>2
      <3>. QED
        BY <3>2, <3>3
    <2>. QED
      BY <1>5, <2>1, <2>4, <2>3, SeqEqual
  <1>10. g = SubSeq(s, len + 1, n)
    <2>1. PICK t : t = SubSeq(s, len + 1, n)
      OBVIOUS
    <2>2. t \in Seq(Chars) /\ Len(t) = n - len /\ \A i \in 1..(n - len) : t[i] = s[len + i]
      BY <1>4, <1>5, <2>1, TailIs
    <2>. QED
      BY <1>7, <1>8, <2>1, <2>2, SeqEqual
  <1>. QED
    BY <1>1, <1>2, <1>3, <1>9, <1>10

(* The copy of d to y. *)
Written(b, y, d) ==
    [j \in 0..(SIZE - 1) |-> IF Place(j - y) + 1 <= Len(d) THEN d[Place(j - y) + 1] ELSE b[j]]

LEMMA WrittenIn ==
    ASSUME NEW b \in [0..(SIZE - 1) -> Chars], NEW y \in 0..SIZE, NEW d \in Seq(Chars),
           NEW len \in Nat, len = Len(d), NEW j \in 0..(SIZE - 1)
    PROVE  /\ Written(b, y, d)[j] \in Chars
           /\ Place(j - y) + 1 <= len => Written(b, y, d)[j] = d[Place(j - y) + 1]
           /\ ~(Place(j - y) + 1 <= len) => Written(b, y, d)[j] = b[j]
  <1>1. PICK v \in 0..(SIZE - 1) : v = Place(j - y)
    <2>1. j - y \in Int
      BY SyncAssumption
    <2>. QED
      BY <2>1, Places
  <1>2. PICK a : a = Written(b, y, d)[j]
    OBVIOUS
  <1>3. a = IF v + 1 <= len THEN d[v + 1] ELSE b[j]
    BY <1>1, <1>2 DEF Written
  <1>4. v + 1 <= len => d[v + 1] \in Chars
    OBVIOUS
  <1>. QED
    BY <1>1, <1>2, <1>3, <1>4

(* The len characters d fit behind the n from x to y. *)
Fits(b, x, n, y, d, len) ==
    /\ b \in [0..(SIZE - 1) -> Chars] /\ x \in 0..SIZE /\ n \in 0..SIZE /\ y \in 0..SIZE
    /\ Ahead(x, n, y)
    /\ d \in Seq(Chars) /\ len = Len(d) /\ len \in 0..(SIZE - n)

LEMMA BackPut ==
    ASSUME NEW b, NEW x, NEW n, NEW y, NEW d, NEW len, Fits(b, x, n, y, d, len)
    PROVE  Read(Written(b, y, d), x, n + len) = Read(b, x, n) \o d
  <1>. /\ b \in [0..(SIZE - 1) -> Chars] /\ x \in 0..SIZE /\ y \in 0..SIZE
       /\ n \in 0..SIZE /\ d \in Seq(Chars) /\ len \in 0..(SIZE - n)
    BY DEF Fits
  <1>1. Ahead(x, n, y) /\ len = Len(d)
    BY DEF Fits
  <1>. SIZE \in Nat \ {0}
    BY SyncAssumption
  <1>2. len \in Nat /\ len = Len(d)
    BY <1>1
  <1>3. PICK c : c = Written(b, y, d)
    OBVIOUS
  <1>4. c \in [0..(SIZE - 1) -> Chars]
    <2>1. \A j \in 0..(SIZE - 1) : c[j] \in Chars
      BY <1>2, <1>3, WrittenIn
    <2>. QED
      BY <1>3, <2>1 DEF Written
  <1>5. ASSUME NEW j \in 0..(SIZE - 1)
         PROVE  /\ Place(j - y) + 1 <= len => c[j] = d[Place(j - y) + 1]
                /\ ~(Place(j - y) + 1 <= len) => c[j] = b[j]
    <2>1. /\ Place(j - y) + 1 <= len => Written(b, y, d)[j] = d[Place(j - y) + 1]
          /\ ~(Place(j - y) + 1 <= len) => Written(b, y, d)[j] = b[j]
      BY <1>2, WrittenIn
    <2>. QED
      BY <1>3, <2>1
  <1>6. n + len \in Nat /\ n \in Nat /\ n + len <= SIZE
    BY <1>2
  <1>7. PICK s : s = Read(b, x, n)
    OBVIOUS
  <1>8. s \in Seq(Chars) /\ Len(s) = n /\ \A i \in 1..n : s[i] = b[Place(x + i - 1)]
    <2>1. /\ Read(b, x, n) \in Seq(Chars) /\ Len(Read(b, x, n)) = n
          /\ \A i \in 1..n : Read(b, x, n)[i] = b[Place(x + i - 1)]
      BY <1>6, ReadIs
    <2>. QED
      BY <1>7, <2>1
  <1>9. PICK t : t = Read(c, x, n + len)
    OBVIOUS
  <1>10. /\ t \in Seq(Chars) /\ Len(t) = n + len
        /\ \A i \in 1..(n + len) : t[i] = c[Place(x + i - 1)]
    <2>1. /\ Read(c, x, n + len) \in Seq(Chars) /\ Len(Read(c, x, n + len)) = n + len
          /\ \A i \in 1..(n + len) : Read(c, x, n + len)[i] = c[Place(x + i - 1)]
      BY <1>4, <1>6, ReadIs
    <2>. QED
      BY <1>9, <2>1
  <1>11. /\ s \o d \in Seq(Chars) /\ Len(s \o d) = n + len
        /\ \A i \in 1..(n + len) : (s \o d)[i] = IF i <= n THEN s[i] ELSE d[i - n]
    <2>1. /\ s \o d \in Seq(Chars) /\ Len(s \o d) = Len(s) + Len(d)
          /\ \A i \in 1..(Len(s) + Len(d)) :
               (s \o d)[i] = IF i <= Len(s) THEN s[i] ELSE d[i - Len(s)]
      BY <1>8, ConcatProperties
    <2>2. Len(s) = n /\ Len(d) = len
      BY <1>2, <1>8
    <2>. QED
      BY <2>1, <2>2
  <1>12. ASSUME NEW i \in 1..(n + len)
         PROVE  t[i] = (s \o d)[i]
    <2>1. PICK u \in Int : u = x + i - 1
      OBVIOUS
    <2>2. u \in 0..(2 * SIZE - 1)
      BY <1>6, <2>1
    <2>3. PICK j \in 0..(SIZE - 1) : j = Place(u)
      BY Places
    <2>4. j = u \/ j = u - SIZE
      <3>1. CASE u \in 0..(SIZE - 1)
        BY <2>3, <3>1, Places
      <3>2. CASE u - SIZE \in 0..(SIZE - 1)
        BY <2>3, <3>2, Places
      <3>. QED
        BY <2>2, <3>1, <3>2
    <2>5. t[i] = c[j] /\ (i <= n => s[i] = b[j])
      <3>1. t[i] = c[j]
        BY <1>10, <2>1, <2>3
      <3>2. i <= n => i \in 1..n
        BY <1>6
      <3>3. i <= n => s[i] = b[j]
        BY <1>8, <2>1, <2>3, <3>2
      <3>. QED
        BY <3>1, <3>3
    <2>6. CASE i <= n
      <3>1. PICK v \in Int : v = ((i - 1) - n) + SIZE
        BY <1>6
      <3>2. v \in 0..(SIZE - 1) /\ v + 1 > len
        BY <1>6, <2>6, <3>1
      <3>3. j - y = v \/ j - y = v - SIZE
        BY <1>6, <2>1, <2>4, <2>6, <3>1, <3>2, <1>1 DEF Ahead
      <3>4. v = Place(j - y)
        <4>1. PICK a \in Int : a = j - y
          OBVIOUS
        <4>2. CASE a = v
          <5>1. Place(a) = a
            BY <3>2, <4>2, Places
          <5>. QED
            BY <4>1, <4>2, <5>1
        <4>3. CASE a = v - SIZE
          <5>1. a + SIZE = v
            BY <4>3
          <5>. QED
            <6>1. Place(a) = a + SIZE
              BY <3>2, <5>1, Places
            <6>. QED
              BY <4>1, <5>1, <6>1
        <4>. QED
          BY <3>3, <4>1, <4>2, <4>3
      <3>5. c[j] = b[j]
        <4>1. v \in Int /\ ~(v + 1 <= len)
          BY <1>2, <3>2
        <4>. QED
          BY <1>5, <3>4, <4>1
      <3>. QED
        BY <1>11, <2>5, <2>6, <3>5
    <2>7. CASE ~(i <= n)
      <3>1. PICK v \in Int : v = (i - 1) - n
        BY <1>6
      <3>2. v \in 0..(SIZE - 1) /\ v + 1 <= len /\ v + 1 = i - n
        BY <1>6, <2>7, <3>1
      <3>3. j - y = v \/ j - y = v - SIZE
        BY <1>6, <2>1, <2>4, <2>7, <3>1, <3>2, <1>1 DEF Ahead
      <3>4. v = Place(j - y)
        <4>1. PICK a \in Int : a = j - y
          OBVIOUS
        <4>2. CASE a = v
          <5>1. Place(a) = a
            BY <3>2, <4>2, Places
          <5>. QED
            BY <4>1, <4>2, <5>1
        <4>3. CASE a = v - SIZE
          <5>1. a + SIZE = v
            BY <4>3
          <5>. QED
            <6>1. Place(a) = a + SIZE
              BY <3>2, <5>1, Places
            <6>. QED
              BY <4>1, <5>1, <6>1
        <4>. QED
          BY <3>3, <4>1, <4>2, <4>3
      <3>5. c[j] = d[i - n]
        BY <1>2, <1>5, <3>2, <3>4
      <3>6. (s \o d)[i] = d[i - n]
        <4>1. ~(i <= n)
          BY <1>6, <2>7
        <4>. QED
          BY <1>11, <4>1
      <3>. QED
        BY <2>5, <3>5, <3>6
    <2>. QED
      BY <2>6, <2>7
  <1>13. t = s \o d
    BY <1>10, <1>11, <1>12, SeqEqual
  <1>. QED
    BY <1>2, <1>3, <1>7, <1>9, <1>13

(* What can be read and written, and where the indices are then. *)
LEMMA RingFill ==
    ASSUME RingInv
    PROVE  /\ Ring!readableBytes \in 0..SIZE
           /\ Ring!writableBytes = SIZE - Ring!readableBytes
           /\ Ahead(rIdx, Ring!readableBytes, wIdx)
  BY SyncAssumption DEF RingInv, Ring!readableBytes, Ring!writableBytes, Ahead

LEMMA IndexMoves ==
    ASSUME NEW x \in 0..SIZE, NEW len \in 1..SIZE
    PROVE  Ring!Advanced(x, len) \in 0..SIZE /\ Ahead(x, len, Ring!Advanced(x, len))
  BY SyncAssumption DEF Ring!Advanced, Ahead

(* After a read of len there is so much less to read. *)
LEMMA FillShrinks ==
    ASSUME RingInv, NEW len \in 1..Ring!readableBytes, Ring!Consume(len)
    PROVE  RingInv' /\ Ring!readableBytes' = Ring!readableBytes - len
  <1>. SIZE \in Nat \ {0}
    BY SyncAssumption
  <1>1. PICK n \in 0..SIZE : n = Ring!readableBytes
    BY RingFill
  <1>2. /\ rIdx' = IF len <= SIZE - rIdx THEN rIdx + len ELSE len - (SIZE - rIdx)
        /\ full' = (IF rIdx = wIdx THEN FALSE ELSE full) /\ UNCHANGED <<buf, wIdx>>
    BY DEF Ring!Consume, Ring!Advanced, Ring!StillFull
  <1>3. rIdx \in 0..SIZE /\ wIdx \in 0..SIZE /\ len \in 1..n /\ (full => rIdx = wIdx)
    BY <1>1 DEF RingInv
  <1>4. ~full'
    BY <1>2, <1>3
  <1>5. rIdx' \in 0..SIZE
    BY <1>2, <1>3
  <1>6. RingInv'
    BY <1>2, <1>3, <1>4, <1>5 DEF RingInv
  <1>7. Ring!readableBytes' = IF rIdx' < wIdx THEN wIdx - rIdx'
                              ELSE IF rIdx' > wIdx THEN (SIZE - rIdx') + wIdx ELSE 0
    BY <1>2, <1>4 DEF Ring!readableBytes
  <1>8. n = IF rIdx < wIdx THEN wIdx - rIdx
            ELSE IF rIdx > wIdx THEN (SIZE - rIdx) + wIdx
            ELSE IF full THEN SIZE ELSE 0
    BY <1>1 DEF Ring!readableBytes
  <1>9. Ring!readableBytes' = n - len
    BY <1>2, <1>3, <1>7, <1>8
  <1>. QED
    BY <1>1, <1>6, <1>9

(* After len characters were written there is so much more to read. *)
LEMMA FillGrows ==
    ASSUME RingInv, NEW len \in 1..(SIZE - Ring!readableBytes),
           wIdx' = Ring!Advanced(wIdx, len), rIdx' = rIdx,
           full' = IF rIdx = wIdx' THEN TRUE ELSE full
    PROVE  /\ wIdx' \in 0..SIZE /\ full' \in BOOLEAN /\ (full' => rIdx' = wIdx')
           /\ Ring!readableBytes' = Ring!readableBytes + len
  <1>. SIZE \in Nat \ {0}
    BY SyncAssumption
  <1>1. PICK n \in 0..SIZE : n = Ring!readableBytes
    BY RingFill
  <1>2. wIdx' = IF len <= SIZE - wIdx THEN wIdx + len ELSE len - (SIZE - wIdx)
    BY DEF Ring!Advanced
  <1>3. rIdx \in 0..SIZE /\ wIdx \in 0..SIZE /\ len \in 1..(SIZE - n) /\ (full => rIdx = wIdx)
    BY <1>1 DEF RingInv
  <1>4. n = IF rIdx < wIdx THEN wIdx - rIdx
            ELSE IF rIdx > wIdx THEN (SIZE - rIdx) + wIdx
            ELSE IF full THEN SIZE ELSE 0
    BY <1>1 DEF Ring!readableBytes
  <1>5. ~full
    BY <1>3, <1>4
  <1>6. wIdx' \in 0..SIZE
    BY <1>2, <1>3
  <1>7. full' <=> rIdx = wIdx'
    BY <1>5
  <1>8. full' \in BOOLEAN
    <2>1. full \in BOOLEAN
      BY DEF RingInv
    <2>. QED
      BY <2>1
  <1>9. Ring!readableBytes' = IF rIdx < wIdx' THEN wIdx' - rIdx
                              ELSE IF rIdx > wIdx' THEN (SIZE - rIdx) + wIdx' ELSE SIZE
    <2>1. Ring!readableBytes' = IF rIdx' < wIdx' THEN wIdx' - rIdx'
                                ELSE IF rIdx' > wIdx' THEN (SIZE - rIdx') + wIdx'
                                ELSE IF full' THEN SIZE ELSE 0
      BY DEF Ring!readableBytes
    <2>. QED
      BY <1>3, <1>6, <1>7, <2>1
  <1>10. Ring!readableBytes' = n + len
    BY <1>2, <1>3, <1>4, <1>5, <1>9
  <1>. QED
    BY <1>1, <1>6, <1>7, <1>8, <1>10

LEMMA StrncpyIs ==
    ASSUME NEW d \in Seq(Chars)
    PROVE  /\ Ring!Strncpy(d) \in Seq(Chars) /\ Len(Ring!Strncpy(d)) = Len(d)
           /\ \A i \in 1..Len(d) : Ring!Strncpy(d)[i] =
                IF \E j \in 1..i : d[j] = NUL THEN NUL ELSE d[i]
  <1>1. PICK n \in Nat : n = Len(d)
    OBVIOUS
  <1>2. PICK s : s = Ring!Strncpy(d)
    OBVIOUS
  <1>3. s = [i \in 1..n |-> IF \E j \in 1..i : d[j] = NUL THEN NUL ELSE d[i]]
    BY <1>1, <1>2 DEF Ring!Strncpy
  <1>4. \A i \in 1..n : d[i] \in Chars /\ NUL \in Chars
    BY <1>1 DEF Chars
  <1>5. s \in [1..n -> Chars]
    BY <1>3, <1>4
  <1>6. s \in Seq(Chars) /\ Len(s) = n
    BY <1>5
  <1>7. \A i \in 1..n : s[i] = IF \E j \in 1..i : d[j] = NUL THEN NUL ELSE d[i]
    BY <1>3
  <1>. QED
    BY <1>1, <1>2, <1>6, <1>7

(* A piece of a text is a text. *)
LEMMA PieceOfText ==
    ASSUME NEW d \in Seq(Chars), Ring!Text(d), NEW f \in Seq(Chars), NEW k \in Nat,
           k + Len(f) <= Len(d), \A i \in 1..Len(f) : f[i] = d[k + i]
    PROVE  Ring!Strncpy(f) = f
  <1>1. PICK s : s = Ring!Strncpy(f)
    OBVIOUS
  <1>2. /\ s \in Seq(Chars) /\ Len(s) = Len(f)
        /\ \A i \in 1..Len(f) : s[i] = IF \E j \in 1..i : f[j] = NUL THEN NUL ELSE f[i]
    BY <1>1, StrncpyIs
  <1>3. \A i \in 1..Len(d) : d[i] = IF \E j \in 1..i : d[j] = NUL THEN NUL ELSE d[i]
    BY StrncpyIs DEF Ring!Text
  <1>4. ASSUME NEW i \in 1..Len(f)
        PROVE  s[i] = f[i]
    <2>1. CASE \E j \in 1..i : f[j] = NUL
      <3>1. PICK j \in 1..i : f[j] = NUL
        BY <2>1
      <3>2. j \in 1..Len(f) /\ k + j \in 1..(k + i) /\ k + i \in 1..Len(d)
        OBVIOUS
      <3>3. d[k + j] = NUL
        BY <3>1, <3>2
      <3>4. d[k + i] = NUL
        BY <1>3, <3>2, <3>3
      <3>5. f[i] = NUL /\ s[i] = NUL
        BY <1>2, <2>1, <3>4
      <3>. QED
        BY <3>5
    <2>2. CASE ~\E j \in 1..i : f[j] = NUL
      BY <1>2, <2>2
    <2>. QED
      BY <2>1, <2>2
  <1>5. s = f
    BY <1>2, <1>4, SeqEqual
  <1>. QED
    BY <1>1, <1>5

(* What append stores is as long as what it is given, and a text is stored *)
(* as it is.                                                               *)
LEMMA StoredIs ==
    ASSUME NEW d \in Seq(Chars), wIdx \in 0..SIZE
    PROVE  /\ Ring!Stored(d) \in Seq(Chars) /\ Len(Ring!Stored(d)) = Len(d)
           /\ Ring!Text(d) => Ring!Stored(d) = d
  <1>. SIZE \in Nat \ {0}
    BY SyncAssumption
  <1>1. PICK a \in Nat : a = SIZE - wIdx
    OBVIOUS
  <1>2. CASE wIdx < rIdx \/ Len(d) <= a
    <2>1. Ring!Stored(d) = Ring!Strncpy(d)
      BY <1>1, <1>2 DEF Ring!Stored
    <2>. QED
      BY <2>1, StrncpyIs DEF Ring!Text
  <1>3. CASE ~(wIdx < rIdx \/ Len(d) <= a)
    <2>1. PICK n \in Nat : n = Len(d) /\ a < n
      BY <1>3
    <2>2. PICK f : f = SubSeq(d, 1, a)
      OBVIOUS
    <2>3. PICK g : g = SubSeq(d, a + 1, n)
      OBVIOUS
    <2>4. f \in Seq(Chars) /\ Len(f) = a /\ \A i \in 1..a : f[i] = d[i]
      BY <2>1, <2>2
    <2>5. g \in Seq(Chars) /\ Len(g) = n - a /\ \A i \in 1..(n - a) : g[i] = d[a + i]
      BY <2>1, <2>3
    <2>6. Ring!Stored(d) = Ring!Strncpy(f) \o Ring!Strncpy(g)
      BY <1>1, <1>3, <2>1, <2>2, <2>3 DEF Ring!Stored
    <2>7. Ring!Strncpy(f) \in Seq(Chars) /\ Len(Ring!Strncpy(f)) = a
      BY <2>4, StrncpyIs
    <2>8. Ring!Strncpy(g) \in Seq(Chars) /\ Len(Ring!Strncpy(g)) = n - a
      BY <2>5, StrncpyIs
    <2>9. Ring!Stored(d) \in Seq(Chars) /\ Len(Ring!Stored(d)) = Len(d)
      <3>1. /\ Ring!Strncpy(f) \o Ring!Strncpy(g) \in Seq(Chars)
            /\ Len(Ring!Strncpy(f) \o Ring!Strncpy(g)) =
                 Len(Ring!Strncpy(f)) + Len(Ring!Strncpy(g))
        BY <2>7, <2>8, ConcatProperties
      <3>2. a + (n - a) = n
        BY <2>1
      <3>. QED
        BY <2>1, <2>6, <2>7, <2>8, <3>1, <3>2
    <2>10. ASSUME Ring!Text(d)
           PROVE  Ring!Stored(d) = d
      <3>1. \A i \in 1..a : f[i] = d[0 + i]
        BY <2>4
      <3>2. Ring!Strncpy(f) = f
        <4>1. 0 + Len(f) <= Len(d)
          BY <2>1, <2>4
        <4>. QED
          BY <2>4, <2>10, <3>1, <4>1, PieceOfText
      <3>3. Ring!Strncpy(g) = g
        <4>1. a + Len(g) <= Len(d)
          BY <2>1, <2>5
        <4>. QED
          BY <2>5, <2>10, <4>1, PieceOfText
      <3>4. f \o g = d
        <4>1. SubSeq(d, 1, n) = d
          BY <2>1, SubSeqFull
        <4>2. 1 \in 1..(n + 1) /\ a \in (1 - 1)..n /\ n \in a..n
          BY <2>1
        <4>. QED
          BY <2>1, <2>2, <2>3, <4>1, <4>2, ConcatAdjacentSubSeq
      <3>. QED
        BY <2>6, <3>2, <3>3, <3>4
    <2>. QED
      BY <2>9, <2>10
  <1>. QED
    BY <1>2, <1>3

LEMMA ContentsAre == Ring!Contents = Read(buf, rIdx, Ring!readableBytes)
  BY DEF Ring!Contents, Ring!Span, Read, Place

LEMMA ContentsThen == (Ring!Contents = Read(buf, rIdx, Ring!readableBytes))'
  BY ContentsAre, PTL

(* A call that is refused. *)
LEMMA RingRefuses ==
    ASSUME RingInv, Ring!Refuse
    PROVE  RingInv' /\ Ring!Contents' = Ring!Contents
  <1>1. UNCHANGED <<buf, full, rIdx, wIdx>>
    BY DEF Ring!Refuse
  <1>2. Ring!readableBytes' = Ring!readableBytes
    BY <1>1 DEF Ring!readableBytes
  <1>. QED
    BY <1>1, <1>2, ContentsAre, ContentsThen DEF RingInv

(* A read hands out the front of the contents and leaves the others. *)
LEMMA RingReads ==
    ASSUME RingInv, NEW len \in 1..Ring!readableBytes, Ring!Consume(len)
    PROVE  /\ RingInv'
           /\ Ring!Contents = Ring!Span(rIdx, len) \o Ring!Contents'
           /\ Ring!Contents' = SubSeq(Ring!Contents, len + 1, Len(Ring!Contents))
  <1>. SIZE \in Nat \ {0}
    BY SyncAssumption
  <1>1. PICK n \in 0..SIZE : n = Ring!readableBytes
    BY RingFill
  <1>2. RingInv' /\ Ring!readableBytes' = n - len
    BY <1>1, FillShrinks
  <1>3. buf' = buf /\ rIdx' = Ring!Advanced(rIdx, len)
    BY DEF Ring!Consume
  <1>4. PICK b \in [0..(SIZE - 1) -> Chars] : b = buf
    BY DEF RingInv
  <1>5. PICK x \in 0..SIZE : x = rIdx
    BY DEF RingInv
  <1>6. PICK k \in 1..n : k = len /\ k \in 1..SIZE
    BY <1>1
  <1>7. PICK y \in 0..SIZE : y = rIdx' /\ Ahead(x, k, y)
    <2>1. Ring!Advanced(x, k) \in 0..SIZE /\ Ahead(x, k, Ring!Advanced(x, k))
      BY <1>6, IndexMoves
    <2>2. rIdx' = Ring!Advanced(x, k)
      BY <1>3, <1>5, <1>6
    <2>. QED
      BY <2>1, <2>2
  <1>8. Ring!Contents = Read(b, x, n)
    BY <1>1, <1>4, <1>5, ContentsAre
  <1>9. Ring!Contents' = Read(b, y, n - k)
    BY <1>2, <1>3, <1>4, <1>6, <1>7, ContentsThen
  <1>10. /\ Read(b, x, n) = Read(b, x, k) \o Read(b, y, n - k)
         /\ Read(b, y, n - k) = SubSeq(Read(b, x, n), k + 1, n)
    BY <1>7, FrontTaken
  <1>11. Len(Read(b, x, n)) = n
    <2>1. n \in Nat
      OBVIOUS
    <2>. QED
      BY <2>1, ReadIs
  <1>12. Ring!Span(rIdx, len) = Read(b, x, k)
    BY <1>4, <1>5, <1>6 DEF Ring!Span, Read, Place
  <1>. QED
    BY <1>2, <1>6, <1>8, <1>9, <1>10, <1>11, <1>12

(* A write puts what it stores behind the contents. *)
LEMMA RingWrites ==
    ASSUME RingInv, NEW d \in Seq(Chars), Len(d) > 0, Len(d) <= Ring!writableBytes,
           buf' = Ring!Copied(wIdx, d), wIdx' = Ring!Advanced(wIdx, Len(d)), rIdx' = rIdx,
           full' = IF rIdx = wIdx' THEN TRUE ELSE full
    PROVE  RingInv' /\ Ring!Contents' = Ring!Contents \o d
  <1>1. PICK n \in 0..SIZE : n = Ring!readableBytes /\ Ahead(rIdx, n, wIdx)
    BY SyncAssumption, RingFill
  <1>2. PICK len \in 0..(SIZE - n) : len = Len(d) /\ len \in 1..(SIZE - n)
    BY <1>1, SyncAssumption, RingFill
  <1>3. /\ wIdx' \in 0..SIZE /\ full' \in BOOLEAN /\ (full' => rIdx' = wIdx')
        /\ Ring!readableBytes' = n + len
    BY <1>1, <1>2, SyncAssumption, FillGrows
  <1>4. PICK b \in [0..(SIZE - 1) -> Chars] : b = buf
    BY DEF RingInv
  <1>5. PICK x \in 0..SIZE : x = rIdx
    BY DEF RingInv
  <1>6. PICK y \in 0..SIZE : y = wIdx
    BY DEF RingInv
  <1>7. PICK c : c = buf'
    OBVIOUS
  <1>8. c = Written(b, y, d)
    BY <1>4, <1>6, <1>7 DEF Ring!Copied, Written, Place
  <1>9. Ahead(x, n, y)
    BY <1>1, <1>5, <1>6
  <1>10. /\ c \in [0..(SIZE - 1) -> Chars]
         /\ Read(c, x, n + len) = Read(b, x, n) \o d
    <2>1. Read(Written(b, y, d), x, n + len) = Read(b, x, n) \o d
      <3>1. Fits(b, x, n, y, d, len)
        BY <1>2, <1>9 DEF Fits
      <3>. QED
        BY <3>1, BackPut
    <2>2. len \in Nat
      BY SyncAssumption
    <2>3. \A j \in 0..(SIZE - 1) : Written(b, y, d)[j] \in Chars
      BY <1>2, <2>2, WrittenIn
    <2>4. Written(b, y, d) \in [0..(SIZE - 1) -> Chars]
      BY <2>3 DEF Written
    <2>. QED
      BY <1>8, <2>1, <2>4
  <1>11. RingInv'
    BY <1>3, <1>5, <1>7, <1>10 DEF RingInv
  <1>12. Ring!Contents = Read(b, x, n)
    BY <1>1, <1>4, <1>5, ContentsAre
  <1>13. Ring!Contents' = Read(c, x, n + len)
    BY <1>3, <1>5, <1>7, ContentsThen
  <1>. QED
    BY <1>2, <1>10, <1>11, <1>12, <1>13

LEMMA ContentsIn ==
    ASSUME RingInv
    PROVE  Ring!Contents \in Seq(Chars) /\ Len(Ring!Contents) = Ring!readableBytes
  <1>1. PICK n \in Nat : n = Ring!readableBytes
    BY SyncAssumption, RingFill
  <1>2. PICK b \in [0..(SIZE - 1) -> Chars] : b = buf
    BY DEF RingInv
  <1>3. PICK x \in 0..SIZE : x = rIdx
    BY DEF RingInv
  <1>4. Ring!Contents = Read(b, x, n)
    BY <1>1, <1>2, <1>3, ContentsAre
  <1>. QED
    BY <1>1, <1>4, ReadIs

(* What the callers give the ring; an integer is not empty. *)
LEMMA GivenIs ==
    ASSUME NEW d
    PROVE  /\ d \in Ring!Texts => d \in Seq(Chars)
           /\ d \in Ring!Ints => d \in Seq(Chars) /\ Len(d) > 0
  <1>1. ASSUME d \in Ring!Texts PROVE d \in Seq(Chars)
    <2>1. PICK n \in 0..MaxLen : d \in [1..n -> Byte]
      BY <1>1 DEF Ring!Texts
    <2>2. n \in Nat /\ d \in [1..n -> Chars]
      BY <2>1, SyncAssumption DEF Chars
    <2>. QED
      BY <2>2
  <1>2. ASSUME d \in Ring!Ints PROVE d \in Seq(Chars) /\ Len(d) > 0
    <2>1. PICK n \in IntSizes : d \in [1..n -> Byte]
      BY <1>2 DEF Ring!Ints
    <2>2. n \in Nat \ {0} /\ d \in [1..n -> Chars]
      BY <2>1, SyncAssumption DEF Chars
    <2>. QED
      BY <2>2
  <1>. QED
    BY <1>1, <1>2

(* Nothing is read: a full ring is empty then, any other one as it was. *)
LEMMA RingReadsNothing ==
    ASSUME RingInv, Ring!Consume(0)
    PROVE  /\ RingInv' /\ Ring!Span(rIdx, 0) = <<>>
           /\ full => Ring!Contents' = <<>>
           /\ ~full => Ring!Contents = <<>> \o Ring!Contents'
  <1>. SIZE \in Nat \ {0}
    BY SyncAssumption
  <1>1. /\ rIdx' = (IF 0 <= SIZE - rIdx THEN rIdx + 0 ELSE 0 - (SIZE - rIdx))
        /\ full' = (IF rIdx = wIdx THEN FALSE ELSE full) /\ UNCHANGED <<buf, wIdx>>
    BY DEF Ring!Consume, Ring!Advanced, Ring!StillFull
  <1>2. rIdx \in 0..SIZE /\ full \in BOOLEAN /\ (full => rIdx = wIdx)
    BY DEF RingInv
  <1>3. rIdx' = rIdx
    BY <1>1, <1>2
  <1>4. full' = FALSE
    BY <1>1, <1>2
  <1>5. RingInv'
    BY <1>1, <1>3, <1>4 DEF RingInv
  <1>6. Ring!Span(rIdx, 0) = <<>>
    BY DEF Ring!Span
  <1>7. ASSUME full PROVE Ring!Contents' = <<>>
    <2>1. Ring!readableBytes' = 0
      BY <1>1, <1>2, <1>3, <1>4, <1>7 DEF Ring!readableBytes
    <2>2. (Ring!Contents = Ring!Span(rIdx, Ring!readableBytes))'
      BY DEF Ring!Contents
    <2>3. Ring!Contents' = [i \in 1..0 |-> buf'[(rIdx' + i - 1) % SIZE]]
      BY <2>1 DEF Ring!Contents, Ring!Span
    <2>. QED
      BY <2>3
  <1>8. ASSUME ~full PROVE Ring!Contents = <<>> \o Ring!Contents'
    <2>1. full' = full
      BY <1>2, <1>4, <1>8
    <2>2. RingInv' /\ Ring!Contents' = Ring!Contents
      BY <1>1, <1>3, <2>1, RingRefuses DEF Ring!Refuse
    <2>3. PICK c \in Seq(Chars) : c = Ring!Contents
      BY ContentsIn
    <2>4. <<>> \o c = c
      OBVIOUS
    <2>. QED
      BY <2>2, <2>3, <2>4
  <1>. QED
    BY <1>5, <1>6, <1>7, <1>8

(* Nothing is written: where the indices meet the ring is full then, any *)
(* other one is as it was.                                               *)
LEMMA RingWritesNothing ==
    ASSUME RingInv, buf' = Ring!Copied(wIdx, <<>>), wIdx' = Ring!Advanced(wIdx, 0), rIdx' = rIdx,
           full' = IF rIdx = wIdx' THEN TRUE ELSE full
    PROVE  /\ RingInv'
           /\ IF rIdx = wIdx /\ ~full
              THEN Ring!Contents' = Ring!Span(rIdx, SIZE)
              ELSE Ring!Contents' = Ring!Contents
  <1>. SIZE \in Nat \ {0}
    BY SyncAssumption
  <1>1. /\ rIdx \in 0..SIZE /\ wIdx \in 0..SIZE /\ full \in BOOLEAN /\ (full => rIdx = wIdx)
        /\ buf \in [0..(SIZE - 1) -> Chars]
    BY DEF RingInv
  <1>2. wIdx' = wIdx
    <2>1. wIdx' = IF 0 <= SIZE - wIdx THEN wIdx + 0 ELSE 0 - (SIZE - wIdx)
      BY DEF Ring!Advanced
    <2>. QED
      BY <1>1, <2>1
  <1>3. buf' = buf
    <2>1. <<>> \in Seq(Chars) /\ Len(<<>>) = 0
      OBVIOUS
    <2>2. PICK d \in Seq(Chars) : d = <<>> /\ Len(d) = 0
      BY <2>1
    <2>3. PICK y \in 0..SIZE : y = wIdx
      BY <1>1
    <2>4. PICK b \in [0..(SIZE - 1) -> Chars] : b = buf
      BY <1>1
    <2>5. buf' = Written(b, y, d)
      BY <2>2, <2>3, <2>4 DEF Ring!Copied, Written, Place
    <2>6. ASSUME NEW j \in 0..(SIZE - 1) PROVE Written(b, y, d)[j] = b[j]
      <3>1. j - y \in Int
        BY <2>3
      <3>2. PICK v \in 0..(SIZE - 1) : v = Place(j - y)
        BY <3>1, Places
      <3>3. ~(v + 1 <= 0)
        BY <3>2
      <3>. QED
        BY <2>2, <3>2, <3>3, WrittenIn
    <2>7. Written(b, y, d) = b
      BY <2>6 DEF Written
    <2>. QED
      BY <2>4, <2>5, <2>7
  <1>4. full' \in BOOLEAN /\ (full' => rIdx = wIdx)
    BY <1>1, <1>2
  <1>5. RingInv'
    BY <1>1, <1>2, <1>3, <1>4 DEF RingInv
  <1>6. CASE rIdx = wIdx /\ ~full
    <2>1. full'
      BY <1>2, <1>6
    <2>2. Ring!readableBytes' = SIZE
      BY <1>1, <1>2, <1>6, <2>1 DEF Ring!readableBytes
    <2>3. Ring!Contents' = [i \in 1..SIZE |-> buf[(rIdx + i - 1) % SIZE]]
      BY <1>3, <2>2 DEF Ring!Contents, Ring!Span
    <2>. QED
      BY <1>5, <1>6, <2>3 DEF Ring!Span
  <1>7. CASE ~(rIdx = wIdx /\ ~full)
    <2>1. full' = full
      BY <1>1, <1>2, <1>7
    <2>2. Ring!Contents' = Ring!Contents
      BY <1>2, <1>3, <2>1, RingRefuses DEF Ring!Refuse
    <2>. QED
      BY <1>5, <1>7, <2>2
  <1>. QED
    BY <1>6, <1>7

(* A refused call tells a short one. *)
LEMMA ShortStep ==
    ASSUME RingInv, Ring!Refuse, last'.call \in {"short", "undefined"}
    PROVE  RingInv' /\ Ring!FifoStep
  <1>1. RingInv' /\ Ring!Contents' = Ring!Contents
    BY RingRefuses
  <1>. QED
    BY <1>1 DEF Ring!FifoStep

(* A read that is not refused. *)
LEMMA GotStep ==
    ASSUME RingInv, NEW len \in Nat, ~(Ring!readableBytes < len), Ring!Consume(len),
           last' = [call |-> "get", data |-> Ring!Span(rIdx, len)]
    PROVE  RingInv' /\ Ring!FifoStep
  <1>1. last'.call = "get" /\ last'.data = Ring!Span(rIdx, len)
    OBVIOUS
  <1>2. CASE len # 0
    <2>1. len \in 1..Ring!readableBytes
      BY <1>2, SyncAssumption, RingFill
    <2>2. RingInv' /\ Ring!Contents = Ring!Span(rIdx, len) \o Ring!Contents'
      BY <2>1, RingReads
    <2>3. Ring!Span(rIdx, len) # <<>>
      <3>1. PICK s : s = Ring!Span(rIdx, len)
        OBVIOUS
      <3>2. 1 \in DOMAIN s
        BY <1>2, <3>1 DEF Ring!Span
      <3>. QED
        BY <3>1, <3>2
    <2>. QED
      BY <1>1, <2>2, <2>3 DEF Ring!FifoStep
  <1>3. CASE len = 0
    <2>1. /\ RingInv' /\ Ring!Span(rIdx, 0) = <<>>
          /\ full => Ring!Contents' = <<>>
          /\ ~full => Ring!Contents = <<>> \o Ring!Contents'
      BY <1>3, RingReadsNothing
    <2>2. last'.data = <<>>
      BY <1>1, <1>3, <2>1
    <2>. QED
      BY <1>1, <2>1, <2>2 DEF Ring!FifoStep
  <1>. QED
    BY <1>2, <1>3

LEMMA GetStep ==
    ASSUME RingInv, NEW len \in Nat, Ring!get(len)
    PROVE  RingInv' /\ Ring!FifoStep
  <1>1. CASE Ring!readableBytes < len
    <2>1. Ring!Refuse /\ last' = [call |-> "short", data |-> <<>>]
      BY <1>1 DEF Ring!get
    <2>2. last'.call = "short"
      BY <2>1
    <2>. QED
      BY <2>1, <2>2, ShortStep
  <1>2. CASE ~(Ring!readableBytes < len)
    <2>1. Ring!Consume(len) /\ last' = [call |-> "get", data |-> Ring!Span(rIdx, len)]
      BY <1>2 DEF Ring!get
    <2>. QED
      BY <1>2, <2>1, GotStep
  <1>. QED
    BY <1>1, <1>2

LEMMA GetIntStep ==
    ASSUME RingInv, NEW len \in Nat, Ring!getInt(len)
    PROVE  RingInv' /\ Ring!FifoStep
  <1>1. CASE Ring!readableBytes < len
    <2>1. Ring!Refuse /\ last' = [call |-> "short", data |-> [i \in 1..len |-> NUL]]
      BY <1>1 DEF Ring!getInt
    <2>2. last'.call = "short"
      BY <2>1
    <2>. QED
      BY <2>1, <2>2, ShortStep
  <1>2. CASE ~(Ring!readableBytes < len) /\ Ring!Overruns(len)
    <2>1. Ring!Refuse /\ last' = [call |-> "undefined", data |-> <<>>]
      BY <1>2 DEF Ring!getInt
    <2>2. last'.call = "undefined"
      BY <2>1
    <2>. QED
      BY <2>1, <2>2, ShortStep
  <1>3. CASE ~(Ring!readableBytes < len) /\ ~Ring!Overruns(len)
    <2>1. Ring!Consume(len) /\ last' = [call |-> "get", data |-> Ring!Span(rIdx, len)]
      BY <1>3 DEF Ring!getInt
    <2>. QED
      BY <1>3, <2>1, GotStep
  <1>. QED
    BY <1>1, <1>2, <1>3

(* A write of s for d is one of the queue. *)
LEMMA StoreStep ==
    ASSUME RingInv, NEW d \in Seq(Chars), NEW s \in Seq(Chars), Len(s) = Len(d),
           NEW f \in {"append", "appendInt"}, f = "appendInt" => Len(d) > 0, Ring!Store(d, s, f),
           Ring!Text(d) \/ f = "appendInt" => s = d
    PROVE  RingInv' /\ Ring!FifoStep
  <1>1. CASE Ring!writableBytes < Len(d)
    <2>1. Ring!Refuse /\ last' = [call |-> "short", data |-> <<>>]
      BY <1>1 DEF Ring!Store
    <2>2. last'.call = "short"
      BY <2>1
    <2>. QED
      BY <2>1, <2>2, ShortStep
  <1>2. ASSUME ~(Ring!writableBytes < Len(d))
        PROVE  /\ buf' = Ring!Copied(wIdx, s) /\ wIdx' = Ring!Advanced(wIdx, Len(s))
               /\ full' = (IF rIdx = wIdx' THEN TRUE ELSE full) /\ rIdx' = rIdx
               /\ last' = [call |-> f, data |-> d]
    BY <1>2 DEF Ring!Store
  <1>3. CASE ~(Ring!writableBytes < Len(d)) /\ Len(d) > 0
    <2>1. Len(s) > 0 /\ Len(s) <= Ring!writableBytes
      <3>1. Ring!writableBytes \in Int
        BY SyncAssumption, RingFill
      <3>. QED
        BY <1>3, <3>1
    <2>2. RingInv' /\ Ring!Contents' = Ring!Contents \o s
      BY <1>2, <1>3, <2>1, RingWrites
    <2>3. last'.call = f /\ last'.data = d
      BY <1>2, <1>3
    <2>4. Len(Ring!Contents') = Len(Ring!Contents) + Len(d)
      <3>1. PICK g \in Seq(Chars) : g = Ring!Contents
        BY ContentsIn
      <3>2. Len(g \o s) = Len(g) + Len(s)
        BY ConcatProperties
      <3>. QED
        BY <2>2, <3>1, <3>2
    <2>5. d # <<>>
      BY <1>3
    <2>. QED
      BY <2>2, <2>3, <2>4, <2>5 DEF Ring!FifoStep
  <1>4. CASE ~(Ring!writableBytes < Len(d)) /\ ~(Len(d) > 0)
    <2>1. Len(d) = 0 /\ d = <<>> /\ s = <<>> /\ f = "append"
      BY <1>4
    <2>2. last'.call = "append" /\ last'.data = <<>>
      BY <1>2, <1>4, <2>1
    <2>3. /\ RingInv'
          /\ IF rIdx = wIdx /\ ~full
             THEN Ring!Contents' = Ring!Span(rIdx, SIZE)
             ELSE Ring!Contents' = Ring!Contents
      <3>1. /\ buf' = Ring!Copied(wIdx, <<>>) /\ wIdx' = Ring!Advanced(wIdx, 0) /\ rIdx' = rIdx
            /\ full' = (IF rIdx = wIdx' THEN TRUE ELSE full)
        BY <1>2, <1>4, <2>1
      <3>. QED
        BY <3>1, RingWritesNothing
    <2>4. Ring!Contents = Ring!Contents \o <<>> /\ Len(Ring!Contents) = Len(Ring!Contents) + 0
      <3>1. PICK g \in Seq(Chars) : g = Ring!Contents
        BY ContentsIn
      <3>2. g = g \o <<>> /\ Len(g) = Len(g) + 0
        OBVIOUS
      <3>. QED
        BY <3>1, <3>2
    <2>5. Len(<<>>) = 0
      OBVIOUS
    <2>. QED
      BY <2>2, <2>3, <2>4, <2>5 DEF Ring!FifoStep
  <1>. QED
    BY <1>1, <1>3, <1>4

LEMMA AppendStep ==
    ASSUME RingInv, NEW d \in Ring!Texts, Ring!append(d)
    PROVE  RingInv' /\ Ring!FifoStep
  <1>1. d \in Seq(Chars)
    BY GivenIs
  <1>2. PICK s : s = Ring!Stored(d)
    OBVIOUS
  <1>3. s \in Seq(Chars) /\ Len(s) = Len(d) /\ (Ring!Text(d) => s = d)
    BY <1>1, <1>2, StoredIs DEF RingInv
  <1>4. Ring!Store(d, s, "append")
    BY <1>2 DEF Ring!append
  <1>. QED
    BY <1>1, <1>3, <1>4, StoreStep

LEMMA AppendIntStep ==
    ASSUME RingInv, NEW d \in Ring!Ints, Ring!appendInt(d)
    PROVE  RingInv' /\ Ring!FifoStep
  <1>1. d \in Seq(Chars) /\ Len(d) > 0
    BY GivenIs
  <1>2. Ring!Store(d, d, "appendInt")
    BY DEF Ring!appendInt
  <1>. QED
    BY <1>1, <1>2, StoreStep

LEMMA RingCalls ==
    ASSUME RingInv, Ring!Next
    PROVE  RingInv' /\ Ring!FifoStep
  <1>1. CASE \E len \in 0..MaxLen : Ring!get(len)
    <2>1. PICK len \in 0..MaxLen : Ring!get(len)
      BY <1>1
    <2>2. len \in Nat
      BY SyncAssumption
    <2>. QED
      BY <2>1, <2>2, GetStep
  <1>2. CASE \E len \in IntSizes : Ring!getInt(len)
    <2>1. PICK len \in IntSizes : Ring!getInt(len)
      BY <1>2
    <2>2. len \in Nat
      BY SyncAssumption
    <2>. QED
      BY <2>1, <2>2, GetIntStep
  <1>3. CASE \E d \in Ring!Texts : Ring!append(d)
    BY <1>3, AppendStep
  <1>4. CASE \E d \in Ring!Ints : Ring!appendInt(d)
    BY <1>4, AppendIntStep
  <1>. QED
    BY <1>1, <1>2, <1>3, <1>4 DEF Ring!Next

LEMMA RingSteps ==
    RingInv /\ [Next]_vars => RingInv' /\ [program = "Ring" => Ring!FifoStep]_ringVars
  <1>1. SUFFICES ASSUME RingInv, [Next]_vars
                 PROVE  RingInv' /\ [program = "Ring" => Ring!FifoStep]_ringVars
    OBVIOUS
  <1>2. CASE Ring!Next
    BY <1>1, <1>2, RingCalls
  <1>3. CASE UNCHANGED ringVars
    BY <1>1, <1>3 DEF RingInv, ringVars
  <1>. QED
    BY <1>1, <1>2, <1>3, RingStep

(* Ring buffer: through every wrap, every call that moves a byte is a step *)
(* of a bounded first-in first-out queue (get, getIntN and append, but for *)
(* an integer read across the end of the buffer, whose call writes outside *)
(* of its result).  get(0) empties a full ring, and append of nothing      *)
(* fills one whose indices meet.                                           *)
THEOREM RingIsFifo == Spec => RingFifo
  <1>1. Init => RingInv
    <2>1. SUFFICES ASSUME Ring!Init
                   PROVE  RingInv
      BY DEF Init
    <2>2. buf = [i \in 0..(SIZE - 1) |-> NUL] /\ NUL \in Chars
      BY <2>1 DEF Ring!Init, Chars
    <2>3. buf \in [0..(SIZE - 1) -> Chars]
      BY <2>2
    <2>4. full = FALSE /\ rIdx = 0 /\ wIdx = 0 /\ 0 \in 0..SIZE
      BY <2>1, SyncAssumption DEF Ring!Init
    <2>. QED
      BY <2>3, <2>4 DEF RingInv
  <1>. QED
    BY <1>1, RingSteps, PTL DEF Spec, RingFifo
=============================================================================
