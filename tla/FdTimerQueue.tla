---------------------------- MODULE FdTimerQueue ----------------------------
(***************************************************************************)
(* TimerQueue over a timerfd and its program (raw-examples/linux/          *)
(* timerqueue).  The timerfd is armed for the first timer of the queue; it *)
(* repeats with that timer's interval, and handle() arms it anew when it   *)
(* has run everything that is due.                                         *)
(*                                                                         *)
(* One unit of time is the 0.1 ms an expiration of 0 stands for.  main     *)
(* adds timers before it waits, and callbacks add and cancel; a callback   *)
(* cancels at most one.  Timers have ids of their own (what happens to     *)
(* timers that share one is in TimerQueue and TimingWheel).  While a timer *)
(* runs it is the first of the queue, so the iterators of handle() always  *)
(* stand for the first.                                                    *)
(*                                                                         *)
(* A delay is armed as it is, but the end times are computed with products *)
(* and differences of 32 bits.                                             *)
(***************************************************************************)
EXTENDS Integers, FiniteSets

CONSTANTS Timers,            \* numbers, which order timers of one endtime
          Delays, Intervals,
          Wrap,              \* 2^32 microseconds
          MaxTime            \* bound: the clock

VARIABLES now,
          tmqueue,           \* the timers in the queue
          tm,                \* timer -> endtime, interval
          added,             \* the timers that were ever added
          fd,                \* when the timerfd fires (0: it is not armed), every how often
          ready,             \* whether it has fired and was not read or set since
          rhTimerId,
          at,                \* "start", "wait", "scan", "run", "done"
          currtime, mayCancel,
          late,              \* what the last handle() took before it armed the timerfd
          beyond             \* whether addTimer has armed it for later than the endtime

vars == <<now, tmqueue, tm, added, fd, ready, rhTimerId, at, currtime, mayCancel, late, beyond>>

Disarmed == [fires |-> 0, every |-> 0]
NoTimer == [endtime |-> 0, interval |-> 0]

Init ==
    /\ now = 1 /\ tmqueue = {} /\ added = {} /\ tm = [t \in Timers |-> NoTimer]
    /\ fd = Disarmed /\ ready = FALSE
    /\ rhTimerId = 0 /\ at = "start" /\ currtime = 0 /\ mayCancel = TRUE /\ late = 0
    /\ beyond = FALSE

Before(t, u) ==
    \/ tm[t].endtime < tm[u].endtime
    \/ tm[t].endtime = tm[u].endtime /\ t < u

Head(queue) == CHOOSE t \in queue : \A u \in queue \ {t} : Before(t, u)

(* The timerfd fires, once or again and again. *)
Tick ==
    /\ now < MaxTime /\ at # "done"
    /\ now' = now + 1
    /\ ready' = (ready \/ fd.fires = now')
    /\ fd' = IF fd.fires # now' THEN fd
             ELSE IF fd.every > 0 THEN [fd EXCEPT !.fires = now' + fd.every] ELSE Disarmed
    /\ UNCHANGED <<tmqueue, tm, added, rhTimerId, at, currtime, mayCancel, late, beyond>>

(* timerfd_settime: in a while, or not at all; it is no longer readable. *)
settime(while, interval) ==
    /\ fd' = IF while = 0 THEN Disarmed ELSE [fires |-> now + while, every |-> interval]
    /\ ready' = FALSE

Expiration(ms) == IF ms > 0 THEN ms ELSE 1

(* What is left of a delay in 32 bits of microseconds. *)
Kept(delay) == delay % Wrap

addTimer(t, ms, interval) ==
    /\ at \in {"start", "run"} /\ t \notin added
    /\ added' = added \cup {t}
    /\ tm' = [tm EXCEPT ![t] = [endtime |-> now + Kept(Expiration(ms)), interval |-> interval]]
    /\ IF tmqueue = {} \/ now + Kept(Expiration(ms)) < tm[Head(tmqueue)].endtime
         THEN settime(Expiration(ms), interval) /\ beyond' = (ms >= Wrap)
         ELSE UNCHANGED <<fd, ready, beyond>>
    /\ tmqueue' = tmqueue \cup {t}
    /\ UNCHANGED <<now, rhTimerId, at, currtime, mayCancel, late>>

(* The time until a timer, in 32 bits. *)
Until(t, time) == (tm[t].endtime - time) % Wrap

delTimer(t) ==
    /\ at = "run" /\ mayCancel /\ t \in tmqueue
    /\ IF t # Head(tmqueue) THEN UNCHANGED <<fd, ready, rhTimerId>>
       ELSE /\ IF tmqueue = {t} THEN settime(0, 0)
               ELSE LET u == Head(tmqueue \ {t}) IN settime(Until(u, now), tm[u].interval)
            /\ rhTimerId' = t
    /\ tmqueue' = tmqueue \ {t}
    /\ tm' = [tm EXCEPT ![t] = NoTimer]
    /\ mayCancel' = FALSE
    /\ UNCHANGED <<now, added, at, currtime, late, beyond>>

(* main enters its loop. *)
Loop ==
    /\ at = "start"
    /\ at' = "wait"
    /\ UNCHANGED <<now, tmqueue, tm, added, fd, ready, rhTimerId, currtime, mayCancel, late,
                   beyond>>

(* epoll_wait returns the timerfd; handle() reads it and the clock. *)
refresh ==
    /\ at = "wait" /\ ready
    /\ at' = "scan" /\ ready' = FALSE /\ currtime' = now
    /\ UNCHANGED <<now, tmqueue, tm, added, fd, rhTimerId, mayCancel, late, beyond>>

(* SIGINT ends the loop and the program. *)
Interrupted ==
    /\ at = "wait"
    /\ at' = "done"
    /\ UNCHANGED <<now, tmqueue, tm, added, fd, ready, rhTimerId, currtime, mayCancel, late,
                   beyond>>

Due == tmqueue # {} /\ tm[Head(tmqueue)].endtime <= currtime

run ==
    /\ at = "scan" /\ Due
    /\ at' = "run" /\ mayCancel' = TRUE
    /\ UNCHANGED <<now, tmqueue, tm, added, fd, ready, rhTimerId, currtime, late, beyond>>

(* The callback returns.  It ran the first timer, which it may have        *)
(* removed.                                                                *)
Returns ==
    /\ at = "run"
    /\ IF rhTimerId # 0
         THEN rhTimerId' = 0 /\ UNCHANGED <<tmqueue, tm>>
         ELSE LET t == Head(tmqueue)
              IN  /\ IF tm[t].interval > 0
                       THEN /\ tm' = [tm EXCEPT ![t].endtime = currtime + Kept(tm[t].interval)]
                            /\ UNCHANGED tmqueue
                       ELSE tmqueue' = tmqueue \ {t} /\ tm' = [tm EXCEPT ![t] = NoTimer]
                  /\ UNCHANGED rhTimerId
    /\ at' = "scan" /\ mayCancel' = TRUE
    /\ UNCHANGED <<now, added, fd, ready, currtime, late, beyond>>

(* Mutant: a timerfd that repeats is taken to be right already. *)
MutRearm ==
    IF tmqueue = {} THEN settime(0, 0)
    ELSE IF fd.every > 0 THEN UNCHANGED <<fd, ready>>
    ELSE settime(Until(Head(tmqueue), currtime), tm[Head(tmqueue)].interval)

Rearm ==
    IF tmqueue = {} THEN settime(0, 0)
    ELSE settime(Until(Head(tmqueue), currtime), tm[Head(tmqueue)].interval)

HandleReturns ==
    /\ at = "scan" /\ ~Due
    /\ Rearm
    /\ late' = now - currtime
    /\ at' = "wait" /\ currtime' = 0 /\ beyond' = FALSE
    /\ UNCHANGED <<now, tmqueue, tm, added, rhTimerId, mayCancel>>

Next ==
    \/ Tick \/ Loop \/ refresh \/ Interrupted \/ run \/ Returns \/ HandleReturns
    \/ \E t \in Timers, ms \in Delays, interval \in Intervals : addTimer(t, ms, interval)
    \/ \E t \in Timers : delTimer(t)

(***************************************************************************)
(* Whoever waits for the timerfd does not wait in vain: with timers in the *)
(* queue it has fired or is armed, whatever was added, cancelled and       *)
(* restarted, and although delTimer may compute a wait that wraps; and it  *)
(* is armed for the first of them, no later than the running of the        *)
(* callbacks before took.  Only the first wait may be longer, when the     *)
(* delay that the timerfd was armed with does not fit into 32 bits of      *)
(* microseconds: the endtime keeps less of it.  Without timers it is not   *)
(* armed.                                                                  *)
(***************************************************************************)
Armed ==
    at = "wait" =>
      IF tmqueue = {} THEN fd = Disarmed /\ ~ready
      ELSE \/ ready
           \/ /\ fd.fires > now
              /\ beyond \/ fd.fires <= tm[Head(tmqueue)].endtime + late
=============================================================================
