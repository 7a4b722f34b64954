----------------------------- MODULE MpmcQueue -----------------------------
(***************************************************************************)
(* The multi-producer multi-consumer LockFreeQueue and its program         *)
(* (raw-examples/cpp11/lockFreeQueue/mpmc).  A slot counts the pushes and  *)
(* the pops it has seen to the end; a thread whose round it is claims a    *)
(* position by compare-and-exchange on nTail or nHead, uses the slot, and  *)
(* only then raises the slot's count.                                      *)
(*                                                                         *)
(* A step is one access to shared memory.  push and pop have the same      *)
(* shape, so a thread of either kind takes the same steps; what differs is *)
(* when it is refused, whose turn it is and what it does with the slot.    *)
(* Accesses interleave; the relaxed loads are not reordered.               *)
(***************************************************************************)
EXTENDS Integers

CONSTANTS N,           \* slots, 5 in the program
          Producers, Consumers,
          Pushes,      \* pushes of each producer, 15 in the program
          MaxFail      \* failures that end a consumer, 3 in the program

VARIABLES nHead, nTail,
          slot,        \* index -> [push, pop, val]: the finished counts, the value
          th,          \* thread -> its control state and local variables
          placed,      \* history: position -> the value its producer pushed
          popped       \* history: position -> the value its consumer got

vars == <<nHead, nTail, slot, th, placed, popped>>

Nothing == <<>>
Threads == Producers \cup Consumers

(* A thread between two calls of push or pop: n values pushed by now, or n *)
(* failures in a row; the local variables of the last call are gone.       *)
Outside(where, n) == [at |-> where, pos |-> 0, pushCount |-> 0, popCount |-> 0, n |-> n]

Init ==
    /\ nHead = 0 /\ nTail = 0
    /\ slot = [i \in 0..(N - 1) |-> [push |-> 0, pop |-> 0, val |-> Nothing]]
    /\ th = [t \in Threads |-> Outside("call", 0)]
    /\ placed = <<>> /\ popped = <<>>

Mine(t) == th[t].pos % N

Go(t, where) == th' = [th EXCEPT ![t].at = where]

(* The load of nTail or nHead, at the start of the call and after a round  *)
(* that was not the thread's own.                                          *)
LoadIndex(t) ==
    /\ th[t].at = "call"
    /\ th' = [th EXCEPT ![t].at = "loadPush",
                        ![t].pos = IF t \in Producers THEN nTail ELSE nHead]
    /\ UNCHANGED <<nHead, nTail, slot, placed, popped>>

LoadPushCount(t) ==
    /\ th[t].at = "loadPush"
    /\ th' = [th EXCEPT ![t].at = "loadPop", ![t].pushCount = slot[Mine(t)].push]
    /\ UNCHANGED <<nHead, nTail, slot, placed, popped>>

LoadPopCount(t) ==
    /\ th[t].at = "loadPop"
    /\ th' = [th EXCEPT ![t].at = "decide", ![t].popCount = slot[Mine(t)].pop]
    /\ UNCHANGED <<nHead, nTail, slot, placed, popped>>

(* The slot still holds an element: push returns false, and the program    *)
(* pushes the same value again later.                                      *)
PushRefused(t) == t \in Producers /\ th[t].pushCount > th[t].popCount

(* The slot holds no element: pop returns false. *)
PopRefused(t) == t \in Consumers /\ th[t].popCount = th[t].pushCount

isMyTurn(t) ==
    th[t].pos \div N = IF t \in Producers THEN th[t].pushCount ELSE th[t].popCount

Refused(t) ==
    /\ th[t].at = "decide" /\ (PushRefused(t) \/ PopRefused(t))
    /\ IF t \in Consumers
         THEN th' = [th EXCEPT ![t] = Outside(IF th[t].n + 1 >= MaxFail THEN "done" ELSE "call",
                                              th[t].n + 1)]
         ELSE th' = [th EXCEPT ![t] = Outside("call", th[t].n)]
    /\ UNCHANGED <<nHead, nTail, slot, placed, popped>>

NotMyTurn(t) ==
    /\ th[t].at = "decide" /\ ~PushRefused(t) /\ ~PopRefused(t) /\ ~isMyTurn(t)
    /\ th' = [th EXCEPT ![t] = Outside("call", th[t].n)]
    /\ UNCHANGED <<nHead, nTail, slot, placed, popped>>

(* Mutant: an exchange that forgets to compare. *)
MutCompared(t, index) == TRUE

Compared(t, index) == th[t].pos = index

(* compare_exchange_weak succeeds. *)
Claim(t) ==
    /\ th[t].at = "decide" /\ ~PushRefused(t) /\ ~PopRefused(t) /\ isMyTurn(t)
    /\ IF t \in Producers
         THEN Compared(t, nTail) /\ nTail' = th[t].pos + 1 /\ UNCHANGED nHead
         ELSE Compared(t, nHead) /\ nHead' = th[t].pos + 1 /\ UNCHANGED nTail
    /\ Go(t, "use")
    /\ UNCHANGED <<slot, placed, popped>>

(* compare_exchange_weak fails, for a reason or for none, and loads the    *)
(* index anew.                                                             *)
LoseClaim(t) ==
    /\ th[t].at = "decide" /\ ~PushRefused(t) /\ ~PopRefused(t) /\ isMyTurn(t)
    /\ th' = [th EXCEPT ![t].at = "loadPush",
                        ![t].pos = IF t \in Producers THEN nTail ELSE nHead]
    /\ UNCHANGED <<nHead, nTail, slot, placed, popped>>

(* The producer's next value. *)
counterNext(t) == <<t, th[t].n + 1>>

WriteValue(t) ==
    /\ t \in Producers /\ th[t].at = "use"
    /\ slot' = [slot EXCEPT ![Mine(t)].val = counterNext(t)]
    /\ placed' = [p \in DOMAIN placed \cup {th[t].pos} |->
                    IF p = th[t].pos THEN counterNext(t) ELSE placed[p]]
    /\ Go(t, "finish")
    /\ UNCHANGED <<nHead, nTail, popped>>

FinishPush(t) ==
    /\ t \in Producers /\ th[t].at = "finish"
    /\ slot' = [slot EXCEPT ![Mine(t)].push = th[t].pushCount + 1]
    /\ th' = [th EXCEPT ![t] = Outside(IF th[t].n + 1 >= Pushes THEN "done" ELSE "call",
                                       th[t].n + 1)]
    /\ UNCHANGED <<nHead, nTail, placed, popped>>

ReadValue(t) ==
    /\ t \in Consumers /\ th[t].at = "use"
    /\ popped' = [p \in DOMAIN popped \cup {th[t].pos} |->
                    IF p = th[t].pos THEN slot[Mine(t)].val ELSE popped[p]]
    /\ Go(t, "finish")
    /\ UNCHANGED <<nHead, nTail, slot, placed>>

FinishPop(t) ==
    /\ t \in Consumers /\ th[t].at = "finish"
    /\ slot' = [slot EXCEPT ![Mine(t)].pop = th[t].popCount + 1]
    /\ th' = [th EXCEPT ![t] = Outside("call", 0)]
    /\ UNCHANGED <<nHead, nTail, placed, popped>>

Step(t) ==
    \/ LoadIndex(t) \/ LoadPushCount(t) \/ LoadPopCount(t)
    \/ Refused(t) \/ NotMyTurn(t) \/ Claim(t) \/ LoseClaim(t)
    \/ WriteValue(t) \/ FinishPush(t) \/ ReadValue(t) \/ FinishPop(t)

Next == \E t \in Threads : Step(t)

(***************************************************************************)
(* No two threads use one slot at the same time, and the value a consumer  *)
(* gets at a position is the one a producer put at that position: nothing  *)
(* is lost, doubled or read half-way, whatever counts a delayed thread     *)
(* still holds.                                                            *)
(***************************************************************************)
SlotsExclusive ==
    /\ \A t, u \in Threads :
         t # u /\ {th[t].at, th[u].at} \subseteq {"use", "finish"} => Mine(t) # Mine(u)
    /\ \A p \in DOMAIN popped : p \in DOMAIN placed /\ popped[p] = placed[p]
=============================================================================
