---------------------------- MODULE TimingWheel -----------------------------
(***************************************************************************)
(* TimingWheel (raw-examples/cpp11/timingwheel/1): SlotNum lists of        *)
(* timers; handle() works through the list of one slot and moves on.  A    *)
(* timer further away than a turn counts the turns in Round.               *)
(*                                                                         *)
(* now counts the calls of handle(), so slotIdx is now modulo SlotNum.     *)
(* Iterators are timers, End behind the last.  A timer's id is the address *)
(* of a local variable of addTimer, so timers may share one.  A callback   *)
(* cancels at most one timer.                                              *)
(***************************************************************************)
EXTENDS Integers, Sequences, SequencesExt

CONSTANTS SlotNum,      \* 60 in the code
          tick,         \* milliseconds between two calls of handle()
          Timers,
          Ids,          \* addresses the local variable of addTimer may have
          Delays,       \* milliseconds a user asks for; an interval may be 0
          MaxTicks      \* bound: calls of handle()

VARIABLES now, slots, rhTimerId,
          tim,          \* timer -> id, Round, SlotIdx, interval; and, of when it was
                        \* set: ticks, due, and whether that was inside of handle()
          added,        \* the timers that were ever added
          at,           \* "sleep", "scan", "run"; "broken" after a wild access
          it, tmpIt,    \* the iterators of handle()
          mayCancel     \* whether the callback has not cancelled yet

vars == <<now, slots, rhTimerId, tim, added, at, it, tmpIt, mayCancel>>

End == "end"
slotIdx == now % SlotNum

NoId == 0
NoTim == [id |-> NoId, Round |-> 0, SlotIdx |-> 0, interval |-> 0, due |-> 0,
          ticks |-> 0, inside |-> FALSE]

Init ==
    /\ now = 0 /\ rhTimerId = NoId
    /\ slots = [i \in 0..(SlotNum - 1) |-> <<>>]
    /\ tim = [t \in Timers |-> NoTim]
    /\ added = {}
    /\ at = "sleep" /\ it = End /\ tmpIt = End /\ mayCancel = TRUE

First(list) == IF list = <<>> THEN End ELSE Head(list)

Place(list, t) == CHOOSE i \in 1..Len(list) : list[i] = t

Behind(list, t) ==
    LET i == Place(list, t) IN IF i = Len(list) THEN End ELSE list[i + 1]

Without(list, t) == RemoveAt(list, Place(list, t))

Ticks(ms) == IF ms < tick THEN 1 ELSE ms \div tick

(* The timer ms from now; due remembers the call of handle() it is for. *)
Wound(id, ms, interval) ==
    [id |-> id, interval |-> interval, Round |-> Ticks(ms) \div SlotNum,
     SlotIdx |-> (slotIdx + Ticks(ms)) % SlotNum,
     due |-> now + Ticks(ms), ticks |-> Ticks(ms), inside |-> at = "run"]

(* User code runs between two calls of handle() and in callbacks. *)
addTimer(t, id, ms, interval) ==
    /\ at \in {"sleep", "run"} /\ t \notin added
    /\ added' = added \cup {t}
    /\ tim' = [tim EXCEPT ![t] = Wound(id, ms, interval)]
    /\ slots' = [slots EXCEPT ![tim'[t].SlotIdx] = Append(@, t)]
    /\ UNCHANGED <<now, rhTimerId, at, it, tmpIt, mayCancel>>

(* The first timer of t's list with t's id goes. *)
delTimer(t) ==
    /\ at \in {"sleep", "run"} /\ mayCancel
    /\ LET slot == slots[tim[t].SlotIdx]
           gone == SelectInSeq(slot, LAMBDA u : tim[u].id = tim[t].id)
       IN  /\ Contains(slot, t)
           /\ rhTimerId' = IF slotIdx = tim[t].SlotIdx /\ gone = 1 THEN tim[t].id ELSE rhTimerId
           /\ slots' = [slots EXCEPT ![tim[t].SlotIdx] = RemoveAt(@, gone)]
    /\ mayCancel' = (at = "sleep")
    /\ UNCHANGED <<now, tim, added, at, it, tmpIt>>

handle ==
    /\ at = "sleep" /\ now < MaxTicks
    /\ at' = "scan" /\ it' = First(slots[slotIdx])
    /\ UNCHANGED <<now, slots, rhTimerId, tim, added, tmpIt, mayCancel>>

Turn ==
    /\ at = "scan" /\ it # End /\ tim[it].Round > 0
    /\ tim' = [tim EXCEPT ![it].Round = @ - 1]
    /\ it' = Behind(slots[slotIdx], it)
    /\ UNCHANGED <<now, slots, rhTimerId, added, at, tmpIt, mayCancel>>

run ==
    /\ at = "scan" /\ it # End /\ tim[it].Round = 0
    /\ tmpIt' = Behind(slots[slotIdx], it)
    /\ at' = "run" /\ mayCancel' = TRUE
    /\ UNCHANGED <<now, slots, rhTimerId, tim, added, it>>

(* Whether the timer that ran has removed itself, says rhTimerId. *)
RemovedItself == rhTimerId = tim[it].id

(* run returned; the timer is left alone and the next one is looked at,    *)
(* which must be there still.                                              *)
Removed ==
    /\ at = "run" /\ RemovedItself
    /\ rhTimerId' = NoId /\ it' = tmpIt /\ tmpIt' = End
    /\ at' = IF tmpIt = End \/ Contains(slots[slotIdx], tmpIt) THEN "scan" ELSE "broken"
    /\ mayCancel' = TRUE
    /\ UNCHANGED <<now, slots, tim, added>>

(* The timer removed itself, was not the first of its list, and is used    *)
(* again; nothing is said of what follows.                                 *)
Dangles ==
    /\ at = "run" /\ ~RemovedItself /\ ~Contains(slots[slotIdx], it)
    /\ at' = "broken"
    /\ UNCHANGED <<now, slots, rhTimerId, tim, added, it, tmpIt, mayCancel>>

(* Mutant: a timer that is restarted starts from the next slot. *)
MutRewound(t) == [Wound(tim[t].id, tim[t].interval, tim[t].interval)
                    EXCEPT !.SlotIdx = (@ + 1) % SlotNum]

Rewound(t) == Wound(tim[t].id, tim[t].interval, tim[t].interval)

(* A periodic timer moves to the end of its next list, which may be the    *)
(* list it is in; the iterator is advanced before.                         *)
Restarted ==
    /\ at = "run" /\ ~RemovedItself /\ Contains(slots[slotIdx], it) /\ tim[it].interval > 0
    /\ tim' = [tim EXCEPT ![it] = Rewound(it)]
    /\ slots' = [[slots EXCEPT ![slotIdx] = Without(@, it)]
                   EXCEPT ![tim'[it].SlotIdx] = Append(@, it)]
    /\ it' = Behind(slots[slotIdx], it) /\ tmpIt' = End
    /\ at' = "scan" /\ mayCancel' = TRUE
    /\ UNCHANGED <<now, rhTimerId, added>>

Erased ==
    /\ at = "run" /\ ~RemovedItself /\ Contains(slots[slotIdx], it) /\ tim[it].interval = 0
    /\ slots' = [slots EXCEPT ![slotIdx] = Without(@, it)]
    /\ it' = Behind(slots[slotIdx], it) /\ tmpIt' = End
    /\ at' = "scan" /\ mayCancel' = TRUE
    /\ tim' = [tim EXCEPT ![it] = [NoTim EXCEPT !.id = tim[it].id]]
    /\ UNCHANGED <<now, rhTimerId, added>>

HandleReturns ==
    /\ at = "scan" /\ it = End
    /\ now' = now + 1 /\ at' = "sleep"
    /\ UNCHANGED <<slots, rhTimerId, tim, added, it, tmpIt, mayCancel>>

Next ==
    \/ \E t \in Timers, id \in Ids, ms \in Delays, interval \in Delays \cup {0} :
          addTimer(t, id, ms, interval)
    \/ \E t \in Timers : delTimer(t)
    \/ handle \/ Turn \/ run \/ Removed \/ Dangles \/ Restarted \/ Erased \/ HandleReturns

(***************************************************************************)
(* A timer runs in the call of handle() it was set for, and not before or  *)
(* after, through any number of turns, restarts and cancellations.  A      *)
(* timer set inside of handle(), by a callback or by a restart, for a      *)
(* whole number of turns may come a turn late: it goes to the end of the   *)
(* list that is being worked on, and if handle() is past that end, its     *)
(* Round is not counted down on the spot.                                  *)
(*                                                                         *)
(* All this is said only as long as no two timers have ever had one id,    *)
(* which the code does not see to: main's two addTimer calls may well use  *)
(* one stack address.  Nor is anything said once a callback has cancelled  *)
(* the next timer, or itself from behind the first place (Dangles).        *)
(***************************************************************************)
DistinctIds == \A t, u \in added : tim[t].id = tim[u].id => t = u

MayBeLate(t) == tim[t].inside /\ tim[t].ticks % SlotNum = 0

OnTime ==
    DistinctIds =>
      /\ at = "run" =>
           now = tim[it].due \/ (MayBeLate(it) /\ now = tim[it].due + SlotNum)
      /\ at = "sleep" => \A t \in Timers : Contains(slots[tim[t].SlotIdx], t) =>
           now <= tim[t].due \/ (MayBeLate(t) /\ now <= tim[t].due + SlotNum)
=============================================================================
