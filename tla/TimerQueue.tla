----------------------------- MODULE TimerQueue -----------------------------
(***************************************************************************)
(* pqnet::TimerQueue (pqnet/core/timerqueue.cpp) as an event loop uses it: *)
(* the loop sleeps for as long as getExpire says, handle() runs what is    *)
(* due, and the user adds and cancels timers from a timer's callback or    *)
(* from the loop's other callbacks.                                        *)
(*                                                                         *)
(* handle() walks a std::set while the callbacks it runs insert into and   *)
(* erase from that set, so its iterators are modelled: an iterator is the  *)
(* node it points to, and erasing a node records that an iterator to it    *)
(* dangles.  Using one is undefined behaviour, which stops the model in    *)
(* the state "undefined".                                                  *)
(*                                                                         *)
(* A Timer's id is the address of a local variable of addTimer, so timers  *)
(* added at different stack depths have ids of their own and timers added  *)
(* at the same depth share one; both happen here.  Times are in a          *)
(* scaled-down microsecond; clock, queue and timeouts keep the program's   *)
(* units, as the constants below.                                          *)
(***************************************************************************)
EXTENDS Integers

CONSTANTS US_PER_MS,    \* microseconds in a millisecond (1000)
          ZERO_DELAY,   \* delay in microseconds used for an expiration of 0 (100)
          EXPIRE,       \* TimerQueue::Expire, in milliseconds (20)
          UINT_MOD,     \* number of values of uint (2^32)
          Addrs,        \* addresses the local variable of addTimer may have
          Expirations,  \* values of _expiration, in milliseconds
          Intervals,    \* values of _interval, in milliseconds
          MaxCancels,   \* bound: delTimer calls within one callback
          MaxTimers,    \* bound: timers that are added
          MaxTime       \* bound: the clock

ASSUME TimerAssumption ==
    /\ US_PER_MS \in Nat \ {0} /\ ZERO_DELAY \in Nat \ {0}
    /\ EXPIRE \in Nat \ {0} /\ UINT_MOD \in Nat \ {0}
    /\ Addrs \subseteq Nat \ {0} /\ Expirations \subseteq Nat /\ Intervals \subseteq Nat
    /\ MaxCancels \in Nat /\ MaxTimers \in Nat /\ MaxTime \in Nat

Timers == 1..MaxTimers
NoNode == [end |-> 0, id |-> 0, timer |-> 0]

VARIABLES now,          \* the clock
          tmqueue,      \* TimerQueue::tmqueue, a set of nodes
          rhTimerId,    \* TimerQueue::rhTimerId
          pc,           \* what the loop thread is doing
          wake,         \* when the epoll_wait it sleeps in times out
          slept,        \* when it began to sleep
          currtime,     \* local variable of handle
          it, tmpIt,    \* iterators of handle; NoNode is end()
          itGone, tmpGone, \* the node they point to has been erased
          cancels,      \* delTimer calls of the callback that runs
          added,        \* number of timers added
          idOf,         \* id of each of them
          interval,     \* interval of each of them
          due,          \* the time its user asked for
          fired,        \* one-shot timers that have run
          refired,      \* those that have run again
          cancelled     \* timers whose user has called delTimer

iterVars == <<currtime, it, tmpIt, itGone, tmpGone, cancels>>
timerVars == <<added, idOf, interval, due>>
userVars == <<fired, refired, cancelled>>
vars == <<now, tmqueue, rhTimerId, pc, wake, slept, iterVars, timerVars, userVars>>

Init ==
    /\ now = 0 /\ tmqueue = {} /\ rhTimerId = 0
    /\ pc = "user" /\ wake = 0 /\ slept = 0
    /\ currtime = 0 /\ it = NoNode /\ tmpIt = NoNode
    /\ itGone = FALSE /\ tmpGone = FALSE /\ cancels = 0
    /\ added = 0
    /\ idOf = [t \in Timers |-> 0] /\ interval = [t \in Timers |-> 0]
    /\ due = [t \in Timers |-> 0]
    /\ fired = {} /\ refired = {} /\ cancelled = {}

-----------------------------------------------------------------------------
(* The set of pairs (endtime, timer), ordered by endtime, then id.         *)

Before(m, n) == m.end < n.end \/ (m.end = n.end /\ m.id < n.id)

SameKey(m, n) == m.end = n.end /\ m.id = n.id

First(S) == IF S = {} THEN NoNode ELSE CHOOSE m \in S : \A n \in S : ~Before(n, m)

After(q, m) == First({n \in q : Before(m, n)})

(* std::set::insert keeps the element that is there. *)
Insert(q, n) == IF \E m \in q : SameKey(m, n) THEN q ELSE q \cup {n}

-----------------------------------------------------------------------------
(* Operations of the user.                                                 *)

(* Mutant: the expiration is taken for microseconds. *)
MutDelay(expiration) == IF expiration > 0 THEN expiration ELSE ZERO_DELAY

(* _expiration * 1000 is computed in uint. *)
Delay(expiration) ==
    IF expiration > 0 THEN (expiration * US_PER_MS) % UINT_MOD ELSE ZERO_DELAY

InUserCode == pc = "user" \/ pc = "callback"

addTimer(expiration, intvl, id) ==
    /\ InUserCode
    /\ added < MaxTimers
    /\ LET t == added + 1
       IN  /\ tmqueue' = Insert(tmqueue, [end |-> now + Delay(expiration),
                                          id |-> id, timer |-> t])
           /\ added' = t
           /\ idOf' = [idOf EXCEPT ![t] = id]
           /\ interval' = [interval EXCEPT ![t] = intvl]
           /\ due' = [due EXCEPT ![t] = now + expiration * US_PER_MS]
    /\ UNCHANGED <<now, rhTimerId, pc, wake, slept, iterVars, userVars>>

(* Mutant: cancelling the head is not noted. *)
MutNoteHead(n) == rhTimerId

NoteHead(n) == IF n = First(tmqueue) THEN n.id ELSE rhTimerId

(* Mutant: the search begins behind the head. *)
MutWithId(id) == {n \in tmqueue \ {First(tmqueue)} : n.id = id}

WithId(id) == {n \in tmqueue : n.id = id}

(* The user cancels timer t; the first node with its id is erased. *)
delTimer(t) ==
    /\ \/ pc = "user" /\ UNCHANGED cancels
       \/ pc = "callback" /\ cancels < MaxCancels /\ cancels' = cancels + 1
    /\ t \in 1..added /\ t \notin cancelled
    /\ cancelled' = cancelled \cup {t}
    /\ LET same == WithId(idOf[t])
           gone == First(same)
       IN  IF same = {}
             THEN UNCHANGED <<tmqueue, rhTimerId, itGone, tmpGone>>
             ELSE /\ rhTimerId' = NoteHead(gone)
                  /\ tmqueue' = tmqueue \ {gone}
                  /\ itGone' = (itGone \/ gone = it)
                  /\ tmpGone' = (tmpGone \/ gone = tmpIt)
    /\ UNCHANGED <<now, pc, wake, slept, currtime, it, tmpIt, timerVars, fired, refired>>

-----------------------------------------------------------------------------
(* The loop.                                                               *)

(* Mutant: the clock in milliseconds is taken from the end in microseconds. *)
MutGetExpire ==
    IF tmqueue = {} THEN EXPIRE
    ELSE LET endtime == First(tmqueue).end
             currms == now \div US_PER_MS
         IN  IF endtime >= currms THEN endtime - currms ELSE EXPIRE

getExpire ==
    IF tmqueue = {} THEN EXPIRE
    ELSE LET endtime == First(tmqueue).end \div US_PER_MS
             currms == now \div US_PER_MS
         IN  IF endtime >= currms THEN endtime - currms ELSE EXPIRE

(* The loop's other callbacks have returned; epoll_wait(..., getExpire()). *)
EpollWait ==
    /\ pc = "user"
    /\ pc' = "sleep"
    /\ wake' = now + getExpire * US_PER_MS
    /\ slept' = now
    /\ UNCHANGED <<now, tmqueue, rhTimerId, iterVars, timerVars, userVars>>

(* epoll_wait times out, or returns earlier with an event; handle() begins. *)
EpollReturns ==
    /\ pc = "sleep"
    /\ currtime' = now
    /\ it' = First(tmqueue)
    /\ itGone' = FALSE
    /\ pc' = "handle"
    /\ wake' = 0 /\ slept' = 0
    /\ UNCHANGED <<now, tmqueue, rhTimerId, tmpIt, tmpGone, cancels, timerVars,
                   userVars>>

(* Mutant: a timer is due a unit early. *)
MutIsDue(n) == n.end <= currtime + 1

IsDue(n) == n.end <= currtime

(* The first timer that is due is run; its callback begins.  (tmpIt is a   *)
(* local of one turn of the loop and the other iterators are locals of     *)
(* handle: they are reset when they go out of scope.)                      *)
Run ==
    /\ pc = "handle"
    /\ it # NoNode /\ IsDue(it)
    /\ tmpIt' = After(tmqueue, it)
    /\ tmpGone' = FALSE
    /\ cancels' = 0
    /\ pc' = "callback"
    /\ LET t == it.timer
       IN  /\ fired' = IF interval[t] = 0 THEN fired \cup {t} ELSE fired
           /\ refired' = IF t \in fired THEN refired \cup {t} ELSE refired
    /\ UNCHANGED <<now, tmqueue, rhTimerId, wake, slept, currtime, it, itGone,
                   timerVars, cancelled>>

HandleEnds ==
    /\ pc = "handle"
    /\ it = NoNode \/ ~IsDue(it)
    /\ pc' = "user"
    /\ currtime' = 0 /\ it' = NoNode /\ tmpIt' = NoNode
    /\ itGone' = FALSE /\ tmpGone' = FALSE /\ cancels' = 0
    /\ UNCHANGED <<now, tmqueue, rhTimerId, wake, slept, timerVars, userVars>>

(* The callback removed its own timer, says rhTimerId. *)
ReturnsRemoved ==
    /\ pc = "callback" /\ rhTimerId = it.id
    /\ rhTimerId' = 0
    /\ it' = tmpIt
    /\ itGone' = FALSE
    /\ pc' = IF tmpGone THEN "undefined" ELSE "handle"
    /\ tmpIt' = NoNode /\ tmpGone' = FALSE /\ cancels' = 0
    /\ UNCHANGED <<now, tmqueue, wake, slept, currtime, timerVars, userVars>>

(* The interval is added to the time of this handle(), and also wraps. *)
Restart(n) == currtime + ((interval[n.timer] * US_PER_MS) % UINT_MOD)

(* Mutant: a timer that has run stays, whatever it is. *)
MutRequeue(rest, n) == Insert(rest, [n EXCEPT !.end = Restart(n)])

(* A periodic timer goes back into the queue, a one-shot timer does not. *)
Requeue(rest, n) ==
    IF interval[n.timer] > 0 THEN Insert(rest, [n EXCEPT !.end = Restart(n)]) ELSE rest

(* Otherwise the node is erased and the walk goes on behind it. *)
ReturnsKept ==
    /\ pc = "callback" /\ rhTimerId # it.id
    /\ LET rest == tmqueue \ {it}
       IN  IF itGone
             THEN pc' = "undefined" /\ UNCHANGED <<tmqueue, it>>
             ELSE /\ pc' = "handle"
                  /\ it' = After(rest, it)
                  /\ tmqueue' = Requeue(rest, it)
    /\ tmpIt' = NoNode /\ tmpGone' = FALSE /\ cancels' = 0
    /\ UNCHANGED <<now, rhTimerId, wake, slept, currtime, itGone, timerVars, userVars>>

(* Time passes at any point, but epoll_wait does not oversleep. *)
Tick ==
    /\ now < MaxTime /\ pc # "undefined"
    /\ pc = "sleep" => now < wake
    /\ now' = now + 1
    /\ UNCHANGED <<tmqueue, rhTimerId, pc, wake, slept, iterVars, timerVars, userVars>>

(* Nothing is said of what follows. *)
Undefined == pc = "undefined" /\ UNCHANGED vars

Next ==
    \/ \E e \in Expirations, i \in Intervals, a \in Addrs : addTimer(e, i, a)
    \/ \E t \in Timers : delTimer(t)
    \/ EpollWait \/ EpollReturns \/ Run \/ HandleEnds
    \/ ReturnsRemoved \/ ReturnsKept \/ Tick \/ Undefined

Spec == Init /\ [][Next]_vars

-----------------------------------------------------------------------------
(* Properties.                                                             *)

Node == [end : Nat, id : Addrs, timer : Timers]

TypeOK ==
    /\ now \in 0..MaxTime /\ tmqueue \subseteq Node
    /\ rhTimerId \in Addrs \cup {0}
    /\ pc \in {"user", "sleep", "handle", "callback", "undefined"}
    /\ wake \in Nat /\ slept \in Nat /\ currtime \in 0..MaxTime
    /\ it \in Node \cup {NoNode} /\ tmpIt \in Node \cup {NoNode}
    /\ itGone \in BOOLEAN /\ tmpGone \in BOOLEAN /\ cancels \in 0..MaxCancels
    /\ added \in 0..MaxTimers
    /\ idOf \in [Timers -> Addrs \cup {0}]
    /\ interval \in [Timers -> Intervals \cup {0}] /\ due \in [Timers -> Nat]
    /\ fired \subseteq Timers /\ refired \subseteq fired /\ cancelled \subseteq Timers

DistinctIds == \A t, u \in 1..added : idOf[t] = idOf[u] => t = u

(* handle() never uses an iterator to a node that a callback has erased,   *)
(* as long as the timers have ids of their own.                            *)
NoDangling == DistinctIds => pc # "undefined"

(* A one-shot timer runs at most once, whatever is cancelled around it.    *)
OneShotOnce == refired = {}

Queued(t) == \E n \in tmqueue : n.timer = t

(* A timer that was added stays in the queue until it is cancelled or, if  *)
(* it is a one-shot timer, has run.                                        *)
NoTimerLost ==
    \A t \in 1..added : t \in cancelled \/ t \in fired \/ Queued(t)

(* Timers with ids of their own neither get lost nor run once too often,   *)
(* through every order of cancellations inside and outside of callbacks.   *)
TimerInv == TypeOK /\ (DistinctIds => OneShotOnce /\ NoTimerLost)

(* Timer t starts to run in this step. *)
Fires(t) == pc = "handle" /\ pc' = "callback" /\ it.timer = t

(* No callback runs before the time its user asked for.                    *)
NotEarly == [][\A t \in Timers : Fires(t) => now >= due[t]]_vars

(* No callback of a timer runs once delTimer was called for it, not even   *)
(* when the call was made by the timer's own callback or by that of        *)
(* another timer that is due at the same time.  (A timer that shares its   *)
(* id with another may run, as delTimer then removes the first of them.)   *)
CancelledNeverFires ==
    [][DistinctIds => \A t \in cancelled : ~Fires(t)]_vars

(* The loop never sleeps for more than EXPIRE past the later of the time   *)
(* the first timer is due and the time it began to sleep.                  *)
NoOversleep ==
    (pc = "sleep" /\ tmqueue # {}) =>
        LET end == First(tmqueue).end
        IN  wake <= (IF end > slept THEN end ELSE slept) + EXPIRE * US_PER_MS
=============================================================================
