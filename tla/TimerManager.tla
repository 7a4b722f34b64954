---------------------------- MODULE TimerManager ----------------------------
(***************************************************************************)
(* TimerManager (raw-examples/cpp11/timingwheel/2): five wheels, as in the *)
(* Linux kernel of old.  The first has a list for each of the next         *)
(* TVR_SIZE jiffies, a list of a later wheel stands for a whole turn of    *)
(* the wheel before it, and is distributed (cascade) when that turn        *)
(* begins.  A jiffy is a microsecond.                                      *)
(*                                                                         *)
(* One step is one timer that handle() moves or runs, or a callback;       *)
(* handle() may return after any jiffy, since the clock decides how many   *)
(* there are.  A timer is the address of its TimerNode, so one that is     *)
(* freed may be added again.  Timers have sIDs of their own, for erase     *)
(* deletes all that share one; a callback cancels at most one; an interval *)
(* whose product with 1000 is 0 in 32 bits is left out.  long has 64 bits, *)
(* so no expiration is taken for a negative one.                           *)
(***************************************************************************)
EXTENDS Integers, Sequences, SequencesExt

CONSTANTS TVR_SIZE, TVN_SIZE,    \* 256 and 64
          Nodes,                 \* the timers
          Delays, Intervals,     \* what users ask for, in 32 bits of microseconds;
                                 \* interval 0 is a one-shot timer
          MaxJiffies             \* bound: jiffies handled

VARIABLES jiffies,
          tw,         \* <<wheel, index>> -> the list of timers there
          node,       \* timer -> endtime, interval, and turns: by how many turns of
                      \* the first wheel it may be late (see OnTime)
          rmNode,
          at,         \* "sleep", "cascade", "scan", "run"; "broken" after a wild access
          level,      \* the wheel that handle() is at
          p, q,       \* the list positions of handle()
          mayCancel   \* whether the callback has not cancelled yet

vars == <<jiffies, tw, node, rmNode, at, level, p, q, mayCancel>>

Null == "null"
Freed == "freed"      \* a list position whose timer was cancelled

(* A list of wheel n stands for Unit(n) jiffies; 2^32 in all. *)
Unit(n) ==
    CASE n = 1 -> 1
      [] n = 2 -> TVR_SIZE
      [] n = 3 -> TVR_SIZE * TVN_SIZE
      [] n = 4 -> TVR_SIZE * TVN_SIZE * TVN_SIZE
      [] n = 5 -> TVR_SIZE * TVN_SIZE * TVN_SIZE * TVN_SIZE
      [] n = 6 -> TVR_SIZE * TVN_SIZE * TVN_SIZE * TVN_SIZE * TVN_SIZE

Size(n) == IF n = 1 THEN TVR_SIZE ELSE TVN_SIZE

Index(time, n) == (time \div Unit(n)) % Size(n)

Lists == UNION {{n} \X (0..(Size(n) - 1)) : n \in 1..5}

NoNode == [endtime |-> 0, interval |-> 0, turns |-> 0]

Init ==
    /\ jiffies = 0
    /\ tw = [s \in Lists |-> <<>>]
    /\ node = [t \in Nodes |-> NoNode]
    /\ rmNode = Null /\ at = "sleep" /\ level = 1 /\ p = Null /\ q = Null
    /\ mayCancel = TRUE

(* Mutant: the bounds of the wheels are inclusive. *)
MutWheel(expiration) ==
    IF \E n \in 1..4 : expiration <= Unit(n + 1)
    THEN CHOOSE n \in 1..4 : expiration <= Unit(n + 1)
                             /\ \A m \in 1..(n - 1) : expiration > Unit(m + 1)
    ELSE 5

(* The first wheel that reaches far enough. *)
Wheel(expiration) ==
    IF \E n \in 1..4 : expiration < Unit(n + 1)
    THEN CHOOSE n \in 1..4 : expiration < Unit(n + 1)
                             /\ \A m \in 1..(n - 1) : expiration >= Unit(m + 1)
    ELSE 5

(* addTimerNode: the difference is kept in 32 bits. *)
Slot(endtime) ==
    LET n == Wheel((endtime - jiffies) % Unit(6)) IN <<n, Index(endtime, n)>>

addTimerNode(lists, t, endtime) == [lists EXCEPT ![Slot(endtime)] = Append(@, t)]

Listed(t) == \E s \in DOMAIN tw : Contains(tw[s], t)

(* User code runs between two calls of handle() and in callbacks.  new may *)
(* return any address that is free, the one in rmNode too.                 *)
addTimer(t, expiration, interval) ==
    /\ at \in {"sleep", "run"} /\ ~Listed(t)
    /\ node' = [node EXCEPT ![t] =
                  [endtime |-> jiffies + expiration, interval |-> interval,
                   turns |-> IF at = "run" /\ expiration = 0 THEN 1 ELSE 0]]
    /\ tw' = addTimerNode(tw, t, jiffies + expiration)
    /\ UNCHANGED <<jiffies, rmNode, at, level, p, q, mayCancel>>

Place(list, t) == CHOOSE i \in 1..Len(list) : list[i] = t

Without(list, t) == IF Contains(list, t) THEN RemoveAt(list, Place(list, t)) ELSE list

Unlinked(lists, t) == [s \in DOMAIN lists |-> Without(lists[s], t)]

delTimer(t) ==
    /\ at \in {"sleep", "run"} /\ mayCancel /\ Listed(t)
    /\ rmNode' = t
    /\ tw' = Unlinked(tw, t)
    /\ node' = [node EXCEPT ![t] = NoNode]
    /\ p' = IF p = t THEN Freed ELSE p
    /\ q' = IF q = t THEN Freed ELSE q
    /\ mayCancel' = (at = "sleep")
    /\ UNCHANGED <<jiffies, at, level>>

(* The list of wheel n for this moment. *)
Current(n) == <<n, Index(jiffies, n)>>

First(list) == IF list = <<>> THEN Null ELSE Head(list)

Behind(list, t) ==
    LET i == Place(list, t) IN IF i = Len(list) THEN Null ELSE list[i + 1]

(* A wheel that has come round has the next one distribute a list, and the *)
(* first wheel's list is walked through at the end.                        *)
After(n) ==
    LET cascades == n < 5 /\ Index(jiffies, n) = 0
    IN  /\ at' = IF cascades THEN "cascade" ELSE "scan"
        /\ level' = IF cascades THEN n + 1 ELSE 1
        /\ p' = First(tw[Current(level')])

(* A jiffy begins. *)
handle ==
    /\ at = "sleep" /\ jiffies < MaxJiffies
    /\ After(1)
    /\ UNCHANGED <<jiffies, tw, node, rmNode, q, mayCancel>>

cascade ==
    /\ at = "cascade" /\ p # Null
    /\ tw' = addTimerNode(Unlinked(tw, p), p, node[p].endtime)
    /\ p' = Behind(tw[Current(level)], p)
    /\ UNCHANGED <<jiffies, node, rmNode, at, level, q, mayCancel>>

Cascaded ==
    /\ at = "cascade" /\ p = Null
    /\ After(level)
    /\ UNCHANGED <<jiffies, tw, node, rmNode, q, mayCancel>>

run ==
    /\ at = "scan" /\ p # Null
    /\ q' = Behind(tw[Current(1)], p)
    /\ at' = "run" /\ mayCancel' = TRUE
    /\ UNCHANGED <<jiffies, tw, node, rmNode, level, p>>

(* The end of the loop's body: p = q, whose timer must not be freed.      *)
Proceed(lists) ==
    /\ tw' = lists
    /\ at' = IF q = Freed THEN "broken" ELSE "scan"
    /\ p' = q /\ q' = Null /\ mayCancel' = TRUE
    /\ UNCHANGED <<jiffies, level>>

(* The timer that ran has cancelled itself, or it has the address of one   *)
(* that was cancelled before: then it stays where it is and runs again     *)
(* when the first wheel has turned.                                        *)
Removed ==
    /\ at = "run" /\ p \in {Freed, rmNode}
    /\ Proceed(tw)
    /\ node' = IF p = Freed THEN node ELSE [node EXCEPT ![p].turns = @ + 1]
    /\ rmNode' = Null

Restarted ==
    /\ at = "run" /\ p \notin {Freed, rmNode} /\ node[p].interval > 0
    /\ node' = [node EXCEPT ![p].endtime = jiffies + node[p].interval, ![p].turns = 0]
    /\ Proceed(addTimerNode(Unlinked(tw, p), p, jiffies + node[p].interval))
    /\ UNCHANGED rmNode

Deleted ==
    /\ at = "run" /\ p \notin {Freed, rmNode} /\ node[p].interval = 0
    /\ Proceed(Unlinked(tw, p))
    /\ node' = [node EXCEPT ![p] = NoNode]
    /\ UNCHANGED rmNode

JiffyEnds ==
    /\ at = "scan" /\ p = Null
    /\ jiffies' = jiffies + 1 /\ at' = "sleep"
    /\ UNCHANGED <<tw, node, rmNode, level, p, q, mayCancel>>

Next ==
    \/ \E t \in Nodes, expiration \in Delays, interval \in Intervals :
         addTimer(t, expiration, interval)
    \/ \E t \in Nodes : delTimer(t)
    \/ handle \/ cascade \/ Cascaded \/ run \/ Removed \/ Restarted \/ Deleted \/ JiffyEnds

(***************************************************************************)
(* A timer runs in the jiffy of its endtime, however many wheels it comes  *)
(* down through, and none is left behind.  Two timers may be late, each by *)
(* one turn of the first wheel: one that a callback adds for the very      *)
(* jiffy that is being handled, behind the last of its list; and one at    *)
(* the address of a timer cancelled before, which rmNode still holds when  *)
(* it runs, and which runs once more.  Nothing is said once a callback has *)
(* cancelled the next timer of the list.                                   *)
(***************************************************************************)
OnTime ==
    /\ at = "run" /\ p # Freed =>
         \E k \in 0..node[p].turns : jiffies = node[p].endtime + k * TVR_SIZE
    /\ at = "sleep" => \A s \in DOMAIN tw : \A t \in ToSet(tw[s]) :
         jiffies <= node[t].endtime + node[t].turns * TVR_SIZE
=============================================================================
