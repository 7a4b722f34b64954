------------------------- MODULE TimerQueue_proofs --------------------------
(***************************************************************************)
(* The properties of TimerQueue, proved for any number of timers, any ids, *)
(* delays and intervals.  What a callback may do to the iterators of       *)
(* handle() is proved for one delTimer per callback, and what depends on   *)
(* the time a timer is put at, for delays that fit into 32 bits.           *)
(***************************************************************************)
EXTENDS TimerQueue, WellFoundedInduction, TLAPS

(* No delay in microseconds wraps.                                         *)
NoWrap == \A e \in Expirations \cup Intervals : e * US_PER_MS < UINT_MOD

-----------------------------------------------------------------------------
(* The order of the set.                                                   *)

Earlier == OpToRel(<, Nat)

(* A set of times or of ids has a lowest one. *)
LEMMA LowestOfNaturals ==
    ASSUME NEW T, T \subseteq Nat, T # {}
    PROVE  \E m \in T : \A e \in T : m <= e
  <1>1. IsWellFoundedOn(Earlier, Nat)
    BY NatLessThanWellFounded DEF Earlier
  <1>2. PICK m \in T : \A e \in T : <<e, m>> \notin Earlier
    BY <1>1, WFMin
  <1>3. ASSUME NEW e \in T
        PROVE  m <= e
    <2>1. <<e, m>> \notin Earlier /\ e \in Nat /\ m \in Nat
      BY <1>2
    <2>2. e < m => <<e, m>> \in Earlier
      BY <2>1 DEF Earlier, OpToRel
    <2>. QED
      BY <2>1, <2>2
  <1>. QED
    BY <1>3

LEMMA NodesAre ==
    /\ \A n \in Node : n.end \in Nat /\ n.id \in Nat /\ n.id # 0 /\ n.timer \in Timers /\ n # NoNode
    /\ NoNode.end = 0 /\ NoNode.id = 0
  <1>1. NoNode.timer = 0 /\ NoNode.end = 0 /\ NoNode.id = 0
    BY DEF NoNode
  <1>2. ASSUME NEW n \in Node
        PROVE  n.end \in Nat /\ n.id \in Nat /\ n.id # 0 /\ n.timer \in Timers /\ n.timer # 0
    <2>1. n.end \in Nat /\ n.id \in Addrs /\ n.timer \in Timers
      BY DEF Node
    <2>2. n.id \in Nat \ {0}
      BY <2>1, TimerAssumption
    <2>3. MaxTimers \in Nat
      BY TimerAssumption
    <2>4. n.timer # 0
      BY <2>1, <2>3 DEF Timers
    <2>. QED
      BY <2>1, <2>2, <2>4
  <1>. QED
    BY <1>1, <1>2

LEMMA Order ==
    ASSUME NEW m \in Node, NEW n \in Node
    PROVE  /\ Before(m, n) \/ Before(n, m) \/ SameKey(m, n)
           /\ ~(Before(m, n) /\ Before(n, m)) /\ (SameKey(m, n) => ~Before(m, n) /\ ~Before(n, m))
           /\ \A k \in Node : Before(m, n) /\ Before(n, k) => Before(m, k)
           /\ Before(m, n) => m.end <= n.end
           /\ m.end < n.end => Before(m, n)
  BY NodesAre DEF Before, SameKey

(* begin() of a set that is not empty. *)
LEMMA FirstIs ==
    ASSUME NEW S, S \subseteq Node
    PROVE  /\ S = {} => First(S) = NoNode
           /\ S # {} => First(S) \in S /\ \A n \in S : ~Before(n, First(S))
  <1>1. CASE S = {}
    BY <1>1 DEF First
  <1>2. CASE S # {}
    <2>1. PICK e \in {n.end : n \in S} : \A x \in {n.end : n \in S} : e <= x
      <3>1. {n.end : n \in S} \subseteq Nat /\ {n.end : n \in S} # {}
        BY <1>2, NodesAre
      <3>. QED
        BY <3>1, LowestOfNaturals
    <2>2. PICK T : T = {n \in S : n.end = e}
      OBVIOUS
    <2>3. PICK i \in {n.id : n \in T} : \A x \in {n.id : n \in T} : i <= x
      <3>1. {n.id : n \in T} \subseteq Nat /\ {n.id : n \in T} # {}
        BY <2>1, <2>2, NodesAre
      <3>. QED
        BY <3>1, LowestOfNaturals
    <2>4. PICK m \in S : m.end = e /\ m.id = i
      BY <2>2, <2>3
    <2>5. \A n \in S : ~Before(n, m)
      <3>1. TAKE n \in S
      <3>2. e <= n.end /\ (n.end = e => i <= n.id)
        BY <2>1, <2>2, <2>3
      <3>3. n.end \in Nat /\ n.id \in Nat /\ m.end \in Nat /\ m.id \in Nat
        BY NodesAre
      <3>. QED
        BY <2>4, <3>2, <3>3 DEF Before
    <2>6. First(S) = CHOOSE x \in S : \A n \in S : ~Before(n, x)
      BY <1>2 DEF First
    <2>. QED
      BY <1>2, <2>5, <2>6
  <1>. QED
    BY <1>1, <1>2

(* ++it. *)
LEMMA AfterIs ==
    ASSUME NEW q, q \subseteq Node, NEW m
    PROVE  /\ After(q, m) # NoNode =>
                /\ After(q, m) \in q /\ Before(m, After(q, m))
                /\ \A n \in q : Before(m, n) => ~Before(n, After(q, m))
           /\ After(q, m) = NoNode => \A n \in q : ~Before(m, n)
           /\ After(q, m) \in q \cup {NoNode}
  <1>1. PICK S : S = {n \in q : Before(m, n)}
    OBVIOUS
  <1>2. S \subseteq Node /\ After(q, m) = First(S)
    BY <1>1 DEF After
  <1>3. NoNode \notin S
    BY <1>2, NodesAre
  <1>. QED
    BY <1>1, <1>2, <1>3, FirstIs

LEMMA InsertIs ==
    ASSUME NEW q, NEW n
    PROVE  /\ (\E m \in q : SameKey(m, n)) => Insert(q, n) = q
           /\ ~(\E m \in q : SameKey(m, n)) => Insert(q, n) = q \cup {n}
           /\ q \subseteq Insert(q, n) /\ Insert(q, n) \subseteq q \cup {n}
  BY DEF Insert

-----------------------------------------------------------------------------
(* Units.                                                                  *)

LEMMA Division ==
    ASSUME NEW a \in Nat, NEW b \in Nat \ {0}
    PROVE  /\ a \div b \in Nat /\ (a \div b) * b <= a /\ a < (a \div b) * b + b
           /\ a % b \in Nat /\ (a < b => a % b = a)
  OBVIOUS

LEMMA Product ==
    ASSUME NEW a \in Nat, NEW b \in Nat \ {0}
    PROVE  a * b \in Nat /\ (a > 0 => a * b >= b /\ a * b > 0)
  OBVIOUS

LEMMA Delays ==
    ASSUME NEW e \in Expirations
    PROVE  /\ Delay(e) \in Nat
           /\ NoWrap => Delay(e) > 0 /\ Delay(e) >= e * US_PER_MS
  <1>1. e \in Nat /\ US_PER_MS \in Nat \ {0} /\ UINT_MOD \in Nat \ {0} /\ ZERO_DELAY \in Nat \ {0}
    BY TimerAssumption
  <1>2. PICK x \in Nat : x = e * US_PER_MS
    BY <1>1, Product
  <1>3. x % UINT_MOD \in Nat /\ (x < UINT_MOD => x % UINT_MOD = x)
    BY <1>1, <1>2, Division
  <1>4. NoWrap => x < UINT_MOD
    BY <1>2 DEF NoWrap
  <1>5. e > 0 => x > 0
    BY <1>1, <1>2, Product
  <1>6. e = 0 => x = 0
    BY <1>1, <1>2
  <1>. QED
    BY <1>1, <1>2, <1>3, <1>4, <1>5, <1>6 DEF Delay

-----------------------------------------------------------------------------
(* The inductive invariants.                                               *)

(* The queue is a set by key, with one node for a timer.                   *)
Keys ==
    /\ \A n \in tmqueue : n.timer \in 1..added /\ idOf[n.timer] = n.id
    /\ \A m, n \in tmqueue : SameKey(m, n) \/ m.timer = n.timer => m = n
    /\ \A t \in fired : t \in 1..added /\ interval[t] = 0
    /\ cancelled \subseteq 1..added

(* An iterator points into the queue unless it dangles, and handle() knows *)
(* neither of its iterators to dangle when no callback runs.               *)
Iterators ==
    /\ currtime <= now
    /\ pc = "handle" => ~itGone /\ (it # NoNode => it \in tmqueue)
    /\ pc = "callback" =>
          /\ it \in Node /\ it.timer \in 1..added /\ idOf[it.timer] = it.id
          /\ IsDue(it) /\ (interval[it.timer] = 0 => it.timer \in fired)
          /\ itGone <=> it \notin tmqueue
          /\ tmpIt # it /\ (tmpIt = NoNode => ~tmpGone)
          /\ tmpIt # NoNode => tmpIt.timer \in 1..added /\ (tmpGone <=> tmpIt \notin tmqueue)

QueueKept == TypeOK /\ Keys /\ Iterators

(* With ids of their own: what was cancelled is not in the queue, what has *)
(* run for good is there only while it runs, and rhTimerId, which outlives *)
(* the handle() that it is meant for, is the id of a cancelled timer.      *)
OwnIds ==
    /\ \A n \in tmqueue : /\ n.timer \notin cancelled
                          /\ n.timer \in fired => n = it /\ pc \in {"callback", "undefined"}
    /\ OneShotOnce /\ NoTimerLost
    /\ rhTimerId = 0 \/ \E t \in cancelled : idOf[t] = rhTimerId

OwnIdsKept == DistinctIds => OwnIds

(* No node is earlier than the time asked for.                             *)
OnTime == \A n \in tmqueue : n.end >= due[n.timer]

(* Due nodes are run from the head of the queue; a callback that has       *)
(* cancelled its own timer has cancelled nothing else, and said so.        *)
Walk ==
    /\ pc # "undefined"
    /\ pc \in {"handle", "callback"} /\ it # NoNode /\ ~itGone /\ IsDue(it) =>
          \A n \in tmqueue : ~Before(n, it)
    /\ pc = "callback" =>
          /\ tmpIt # NoNode /\ ~tmpGone /\ IsDue(tmpIt) =>
                \A n \in tmqueue : n # it => ~Before(n, tmpIt)
          /\ itGone \/ tmpGone => cancels = 1
          /\ itGone => ~tmpGone /\ rhTimerId = it.id

WalkKept == DistinctIds => Walk

-----------------------------------------------------------------------------
(* Types.                                                                  *)

(* A new timer and its node. *)
LEMMA Adding ==
    ASSUME TypeOK, NEW e \in Expirations, NEW i \in Intervals, NEW a \in Addrs, addTimer(e, i, a),
           NEW t, t = added + 1,
           NEW n, n = [end |-> now + Delay(e), id |-> a, timer |-> t]
    PROVE  /\ t \in Timers /\ t \notin 1..added /\ 1..added' = (1..added) \cup {t}
           /\ added' \in 0..MaxTimers
           /\ n \in Node /\ n.end = now + Delay(e) /\ n.id = a /\ n.timer = t
           /\ tmqueue' = Insert(tmqueue, n)
           /\ idOf' \in [Timers -> Addrs \cup {0}]
           /\ interval' \in [Timers -> Intervals \cup {0}] /\ due' \in [Timers -> Nat]
           /\ idOf'[t] = a /\ interval'[t] = i /\ due'[t] = now + e * US_PER_MS
           /\ \A u \in 1..added :
                 /\ u \in Timers /\ idOf'[u] = idOf[u]
                 /\ interval'[u] = interval[u] /\ due'[u] = due[u]
           /\ UNCHANGED <<now, rhTimerId, pc, wake, slept, currtime, it, tmpIt, itGone, tmpGone,
                          cancels, fired, refired, cancelled>>
           /\ InUserCode
  <1>1. /\ added < MaxTimers /\ tmqueue' = Insert(tmqueue, n) /\ added' = t
        /\ idOf' = [idOf EXCEPT ![t] = a] /\ interval' = [interval EXCEPT ![t] = i]
        /\ due' = [due EXCEPT ![t] = now + e * US_PER_MS] /\ InUserCode
        /\ UNCHANGED <<now, rhTimerId, pc, wake, slept, currtime, it, tmpIt, itGone, tmpGone,
                       cancels, fired, refired, cancelled>>
    BY DEF addTimer, iterVars, userVars
  <1>2. /\ added \in 0..MaxTimers /\ MaxTimers \in Nat /\ now \in Nat
        /\ idOf \in [Timers -> Addrs \cup {0}]
        /\ interval \in [Timers -> Intervals \cup {0}] /\ due \in [Timers -> Nat]
    BY TimerAssumption DEF TypeOK
  <1>3. /\ t \in Timers /\ t \notin 1..added /\ 1..added' = (1..added) \cup {t}
        /\ added' \in 0..MaxTimers /\ \A u \in 1..added : u \in Timers /\ u # t
    BY <1>1, <1>2 DEF Timers
  <1>4. now + Delay(e) \in Nat /\ now + e * US_PER_MS \in Nat
    <2>1. e \in Nat /\ US_PER_MS \in Nat \ {0}
      BY TimerAssumption
    <2>2. e * US_PER_MS \in Nat
      BY <2>1, Product
    <2>3. Delay(e) \in Nat
      BY Delays
    <2>. QED
      BY <1>2, <2>2, <2>3
  <1>5. n \in Node /\ n.end = now + Delay(e) /\ n.id = a /\ n.timer = t
    BY <1>3, <1>4 DEF Node
  <1>6. /\ idOf' \in [Timers -> Addrs \cup {0}] /\ idOf'[t] = a
        /\ \A u \in 1..added : idOf'[u] = idOf[u]
    BY <1>1, <1>2, <1>3
  <1>7. /\ interval' \in [Timers -> Intervals \cup {0}] /\ interval'[t] = i
        /\ \A u \in 1..added : interval'[u] = interval[u]
    BY <1>1, <1>2, <1>3
  <1>8. /\ due' \in [Timers -> Nat] /\ due'[t] = now + e * US_PER_MS
        /\ \A u \in 1..added : due'[u] = due[u]
    <2>1. PICK x \in Nat : x = now + e * US_PER_MS
      BY <1>4
    <2>. QED
      BY <1>1, <1>2, <1>3, <2>1
  <1>. QED
    BY <1>1, <1>3, <1>5, <1>6, <1>7, <1>8

(* A delTimer that finds a node, and one that does not. *)
LEMMA Deleting ==
    ASSUME TypeOK, NEW t \in Timers, delTimer(t),
           NEW g, g = First(WithId(idOf[t]))
    PROVE  /\ pc \in {"user", "callback"} /\ t \in 1..added /\ t \notin cancelled
           /\ cancelled' = cancelled \cup {t}
           /\ pc = "callback" => cancels < MaxCancels /\ cancels' = cancels + 1
           /\ pc = "user" => cancels' = cancels
           /\ cancels' \in 0..MaxCancels
           /\ \/ /\ \A n \in tmqueue : n.id # idOf[t]
                 /\ UNCHANGED <<tmqueue, rhTimerId, itGone, tmpGone>>
              \/ /\ g \in tmqueue /\ g.id = idOf[t] /\ tmqueue' = tmqueue \ {g}
                 /\ rhTimerId' = NoteHead(g)
                 /\ itGone' = (itGone \/ g = it) /\ tmpGone' = (tmpGone \/ g = tmpIt)
           /\ UNCHANGED <<now, pc, wake, slept, currtime, it, tmpIt, added, idOf, interval, due,
                          fired, refired>>
  <1>1. /\ pc \in {"user", "callback"} /\ t \in 1..added /\ t \notin cancelled
        /\ cancelled' = cancelled \cup {t}
        /\ pc = "callback" => cancels < MaxCancels /\ cancels' = cancels + 1
        /\ pc = "user" => cancels' = cancels
        /\ UNCHANGED <<now, pc, wake, slept, currtime, it, tmpIt, added, idOf, interval, due,
                       fired, refired>>
    BY DEF delTimer, timerVars
  <1>2. cancels' \in 0..MaxCancels
    BY <1>1, TimerAssumption DEF TypeOK
  <1>3. PICK S : S = WithId(idOf[t])
    OBVIOUS
  <1>4. S = {n \in tmqueue : n.id = idOf[t]} /\ S \subseteq Node /\ g = First(S)
    BY <1>3 DEF WithId, TypeOK
  <1>5. CASE S = {}
    <2>1. UNCHANGED <<tmqueue, rhTimerId, itGone, tmpGone>>
      BY <1>3, <1>5 DEF delTimer
    <2>. QED
      BY <1>1, <1>2, <1>4, <1>5, <2>1
  <1>6. CASE S # {}
    <2>1. /\ rhTimerId' = NoteHead(g) /\ tmqueue' = tmqueue \ {g}
          /\ itGone' = (itGone \/ g = it) /\ tmpGone' = (tmpGone \/ g = tmpIt)
      BY <1>3, <1>4, <1>6 DEF delTimer
    <2>2. g \in S
      BY <1>4, <1>6, FirstIs
    <2>. QED
      BY <1>1, <1>2, <1>4, <2>1, <2>2
  <1>. QED
    BY <1>5, <1>6

(* A periodic timer's next node. *)
LEMMA Restarting ==
    ASSUME TypeOK, NEW n \in Node, NEW m, m = [n EXCEPT !.end = Restart(n)]
    PROVE  /\ m \in Node /\ m.id = n.id /\ m.timer = n.timer /\ m.end >= currtime
           /\ NoWrap /\ interval[n.timer] > 0 => m.end > currtime
  <1>1. n.timer \in Timers /\ interval[n.timer] \in Nat /\ US_PER_MS \in Nat \ {0}
        /\ UINT_MOD \in Nat \ {0} /\ currtime \in Nat
    BY NodesAre, TimerAssumption DEF TypeOK
  <1>2. PICK x \in Nat : x = interval[n.timer] * US_PER_MS
    BY <1>1, Product
  <1>3. x % UINT_MOD \in Nat /\ (x < UINT_MOD => x % UINT_MOD = x)
    BY <1>1, <1>2, Division
  <1>4. Restart(n) = currtime + (x % UINT_MOD)
    BY <1>2 DEF Restart
  <1>5. NoWrap /\ interval[n.timer] > 0 => x < UINT_MOD /\ x > 0
    <2>1. SUFFICES ASSUME NoWrap, interval[n.timer] > 0
                   PROVE  x < UINT_MOD /\ x > 0
      OBVIOUS
    <2>2. interval[n.timer] \in Intervals
      BY <1>1, <2>1 DEF TypeOK
    <2>. QED
      BY <1>1, <1>2, <2>1, <2>2, Product DEF NoWrap
  <1>6. Restart(n) \in Nat
    BY <1>1, <1>3, <1>4
  <1>7. m \in Node /\ m.id = n.id /\ m.timer = n.timer /\ m.end = Restart(n)
    BY <1>6 DEF Node
  <1>. QED
    BY <1>1, <1>3, <1>4, <1>5, <1>7

LEMMA TypesKept ==
    ASSUME QueueKept, [Next]_vars
    PROVE  TypeOK'
  <1>1. TypeOK /\ Iterators
    BY DEF QueueKept
  <1>2. CASE \E e \in Expirations, i \in Intervals, a \in Addrs : addTimer(e, i, a)
    <2>1. PICK e \in Expirations, i \in Intervals, a \in Addrs : addTimer(e, i, a)
      BY <1>2
    <2>2. PICK t, n : t = added + 1 /\ n = [end |-> now + Delay(e), id |-> a, timer |-> t]
      OBVIOUS
    <2>3. /\ added' \in 0..MaxTimers /\ n \in Node /\ tmqueue' = Insert(tmqueue, n)
          /\ idOf' \in [Timers -> Addrs \cup {0}]
          /\ interval' \in [Timers -> Intervals \cup {0}] /\ due' \in [Timers -> Nat]
          /\ UNCHANGED <<now, rhTimerId, pc, wake, slept, currtime, it, tmpIt, itGone, tmpGone,
                         cancels, fired, refired, cancelled>>
      BY <1>1, <2>1, <2>2, Adding
    <2>4. tmqueue' \subseteq Node
      BY <1>1, <2>3, InsertIs DEF TypeOK
    <2>. QED
      BY <1>1, <2>3, <2>4 DEF TypeOK
  <1>3. CASE \E t \in Timers : delTimer(t)
    <2>1. PICK t \in Timers : delTimer(t)
      BY <1>3
    <2>2. PICK g : g = First(WithId(idOf[t]))
      OBVIOUS
    <2>3. /\ cancelled' = cancelled \cup {t} /\ cancels' \in 0..MaxCancels
          /\ UNCHANGED <<now, pc, wake, slept, currtime, it, tmpIt, added, idOf, interval, due,
                         fired, refired>>
          /\ \/ UNCHANGED <<tmqueue, rhTimerId, itGone, tmpGone>>
             \/ /\ g \in tmqueue /\ tmqueue' = tmqueue \ {g}
                /\ rhTimerId' = NoteHead(g)
                /\ itGone' = (itGone \/ g = it) /\ tmpGone' = (tmpGone \/ g = tmpIt)
      BY <1>1, <2>1, <2>2, Deleting
    <2>4. /\ tmqueue' \subseteq Node /\ rhTimerId' \in Addrs \cup {0}
          /\ itGone' \in BOOLEAN /\ tmpGone' \in BOOLEAN
      <3>1. CASE UNCHANGED <<tmqueue, rhTimerId, itGone, tmpGone>>
        BY <1>1, <3>1 DEF TypeOK
      <3>2. CASE /\ g \in tmqueue /\ tmqueue' = tmqueue \ {g} /\ rhTimerId' = NoteHead(g)
                 /\ itGone' = (itGone \/ g = it) /\ tmpGone' = (tmpGone \/ g = tmpIt)
        <4>1. tmqueue \subseteq Node /\ rhTimerId \in Addrs \cup {0}
          BY <1>1 DEF TypeOK
        <4>2. g.id \in Addrs
          BY <3>2, <4>1 DEF Node
        <4>. QED
          BY <3>2, <4>1, <4>2 DEF NoteHead
      <3>. QED
        BY <2>3, <3>1, <3>2
    <2>. QED
      BY <1>1, <2>3, <2>4 DEF TypeOK
  <1>4. CASE EpollWait
    <2>1. getExpire \in Nat
      <3>1. EXPIRE \in Nat /\ US_PER_MS \in Nat \ {0} /\ now \in Nat /\ tmqueue \subseteq Node
        BY <1>1, TimerAssumption DEF TypeOK
      <3>2. CASE tmqueue = {}
        BY <3>1, <3>2 DEF getExpire
      <3>3. CASE tmqueue # {}
        <4>1. First(tmqueue).end \in Nat
          BY <3>1, <3>3, FirstIs, NodesAre
        <4>2. First(tmqueue).end \div US_PER_MS \in Nat /\ now \div US_PER_MS \in Nat
          BY <3>1, <4>1, Division
        <4>. QED
          BY <3>1, <3>3, <4>2 DEF getExpire
      <3>. QED
        BY <3>2, <3>3
    <2>2. getExpire * US_PER_MS \in Nat
      BY <2>1, Product, TimerAssumption
    <2>3. wake' \in Nat /\ slept' \in Nat
      BY <1>1, <1>4, <2>2, TimerAssumption DEF EpollWait, TypeOK
    <2>. QED
      BY <1>1, <1>4, <2>3 DEF EpollWait, TypeOK, iterVars, timerVars, userVars
  <1>5. CASE EpollReturns
    <2>1. First(tmqueue) \in Node \cup {NoNode}
      BY <1>1, FirstIs DEF TypeOK
    <2>. QED
      BY <1>1, <1>5, <2>1 DEF EpollReturns, TypeOK, timerVars, userVars
  <1>6. CASE Run
    <2>1. /\ After(tmqueue, it) \in Node \cup {NoNode} /\ it.timer \in Timers
      BY <1>1, <1>6, AfterIs, NodesAre DEF Run, TypeOK
    <2>2. fired' \subseteq Timers /\ refired' \subseteq fired' /\ 0 \in 0..MaxCancels
      BY <1>1, <1>6, <2>1, TimerAssumption DEF Run, TypeOK
    <2>. QED
      BY <1>1, <1>6, <2>1, <2>2 DEF Run, TypeOK, timerVars
  <1>7. CASE HandleEnds
    <2>1. 0 \in 0..MaxCancels /\ 0 \in 0..MaxTime
      BY TimerAssumption
    <2>. QED
      BY <1>1, <1>7, <2>1 DEF HandleEnds, TypeOK, timerVars, userVars
  <1>8. CASE ReturnsRemoved
    <2>1. 0 \in 0..MaxCancels
      BY TimerAssumption
    <2>2. pc' \in {"handle", "undefined"}
      BY <1>8 DEF ReturnsRemoved
    <2>. QED
      BY <1>1, <1>8, <2>1, <2>2 DEF ReturnsRemoved, TypeOK, timerVars, userVars
  <1>9. CASE ReturnsKept
    <2>1. PICK rest : rest = tmqueue \ {it}
      OBVIOUS
    <2>2. it \in Node /\ rest \subseteq Node
      BY <1>1, <1>9, <2>1 DEF ReturnsKept, Iterators, TypeOK
    <2>3. After(rest, it) \in Node \cup {NoNode} /\ Requeue(rest, it) \subseteq Node
      <3>1. PICK m : m = [it EXCEPT !.end = Restart(it)]
        OBVIOUS
      <3>2. m \in Node
        BY <1>1, <2>2, <3>1, Restarting
      <3>. QED
        BY <2>2, <3>1, <3>2, AfterIs, InsertIs DEF Requeue
    <2>4. /\ pc' \in {"handle", "undefined"}
          /\ it' = it \/ it' = After(rest, it)
          /\ tmqueue' = tmqueue \/ tmqueue' = Requeue(rest, it)
      BY <1>9, <2>1 DEF ReturnsKept
    <2>5. it' \in Node \cup {NoNode} /\ tmqueue' \subseteq Node /\ 0 \in 0..MaxCancels
      BY <1>1, <2>2, <2>3, <2>4, TimerAssumption DEF TypeOK
    <2>. QED
      BY <1>1, <1>9, <2>4, <2>5 DEF ReturnsKept, TypeOK, timerVars, userVars
  <1>10. CASE Tick
    BY <1>1, <1>10, TimerAssumption DEF Tick, TypeOK, iterVars, timerVars, userVars
  <1>11. CASE UNCHANGED vars
    BY <1>1, <1>11 DEF TypeOK, vars, iterVars, timerVars, userVars
  <1>. QED
    BY <1>2, <1>3, <1>4, <1>5, <1>6, <1>7, <1>8, <1>9, <1>10, <1>11 DEF Next, Undefined

-----------------------------------------------------------------------------
(* The queue and the iterators into it.                                    *)

(* The node of a periodic timer that has run and is put back.              *)
Again(n) ==
    /\ n \in Node /\ n.id = it.id /\ n.timer = it.timer
    /\ n.end >= currtime /\ (NoWrap => n.end > currtime)
    /\ interval[n.timer] > 0
    /\ \A m \in tmqueue : m # it => ~SameKey(m, n)

(* What the end of a callback leaves of a node that is still there.        *)
LEMMA Keeping ==
    ASSUME QueueKept, ReturnsKept
    PROVE  /\ pc = "callback" /\ rhTimerId # it.id /\ it \in Node
           /\ itGone => pc' = "undefined" /\ UNCHANGED <<tmqueue, it>>
           /\ ~itGone => /\ pc' = "handle" /\ it \in tmqueue
                         /\ it' = After(tmqueue \ {it}, it)
                         /\ it' \in tmqueue' \cup {NoNode}
                         /\ \A n \in tmqueue : n # it => n \in tmqueue' /\ n.timer # it.timer
                         /\ \A n \in tmqueue' : \/ n \in tmqueue /\ n # it
                                                \/ n \notin tmqueue \ {it} /\ Again(n)
                         /\ interval[it.timer] > 0 => \E n \in tmqueue' : n.id = it.id
           /\ UNCHANGED <<now, rhTimerId, wake, slept, currtime, itGone, added, idOf, interval, due,
                          fired, refired, cancelled>>
  <1>1. TypeOK /\ Keys /\ Iterators /\ tmqueue \subseteq Node
    BY DEF QueueKept, TypeOK
  <1>2. PICK rest : rest = tmqueue \ {it}
    OBVIOUS
  <1>3. /\ pc = "callback" /\ rhTimerId # it.id
        /\ UNCHANGED <<now, rhTimerId, wake, slept, currtime, itGone, added, idOf, interval, due,
                       fired, refired, cancelled>>
        /\ itGone => pc' = "undefined" /\ UNCHANGED <<tmqueue, it>>
        /\ ~itGone => pc' = "handle" /\ it' = After(rest, it) /\ tmqueue' = Requeue(rest, it)
    BY <1>2 DEF ReturnsKept, timerVars, userVars
  <1>4. it \in Node /\ (~itGone => it \in tmqueue)
    BY <1>1, <1>3 DEF Iterators
  <1>5. ASSUME ~itGone
        PROVE  /\ it' \in tmqueue' \cup {NoNode}
               /\ \A n \in tmqueue : n # it => n \in tmqueue' /\ n.timer # it.timer
               /\ \A n \in tmqueue' : \/ n \in tmqueue /\ n # it
                                      \/ n \notin tmqueue \ {it} /\ Again(n)
               /\ interval[it.timer] > 0 => \E n \in tmqueue' : n.id = it.id
    <2>1. PICK m : m = [it EXCEPT !.end = Restart(it)]
      OBVIOUS
    <2>2. /\ m \in Node /\ m.id = it.id /\ m.timer = it.timer /\ m.end >= currtime
          /\ NoWrap /\ interval[it.timer] > 0 => m.end > currtime
      BY <1>1, <1>4, <2>1, Restarting
    <2>3. /\ interval[it.timer] > 0 => tmqueue' = Insert(rest, m)
          /\ ~(interval[it.timer] > 0) => tmqueue' = rest
      BY <1>3, <1>5, <2>1 DEF Requeue
    <2>4. \A n \in rest : n \in tmqueue' /\ n.timer # it.timer
      <3>1. \A n \in rest : n.timer # it.timer
        BY <1>1, <1>2, <1>4, <1>5 DEF Keys
      <3>2. rest \subseteq tmqueue'
        BY <2>3, InsertIs
      <3>. QED
        BY <3>1, <3>2
    <2>5. it' \in rest \cup {NoNode}
      BY <1>1, <1>2, <1>3, <1>5, AfterIs
    <2>6. \A n \in tmqueue' : \/ n \in rest
                              \/ n = m /\ interval[it.timer] > 0 /\ \A k \in rest : ~SameKey(k, m)
      <3>1. CASE interval[it.timer] > 0
        BY <2>3, <3>1, InsertIs
      <3>2. CASE ~(interval[it.timer] > 0)
        BY <2>3, <3>2
      <3>. QED
        BY <3>1, <3>2
    <2>7. ASSUME interval[it.timer] > 0, \A k \in rest : ~SameKey(k, m)
          PROVE  Again(m) /\ m \notin rest
      <3>1. SameKey(m, m)
        BY DEF SameKey
      <3>. QED
        BY <1>2, <2>2, <2>7, <3>1 DEF Again
    <2>8. interval[it.timer] > 0 => \E n \in tmqueue' : n.id = it.id
      BY <2>2, <2>3, InsertIs DEF SameKey
    <2>9. it' \in tmqueue' \cup {NoNode}
      BY <2>4, <2>5
    <2>. QED
      BY <1>2, <2>4, <2>6, <2>7, <2>8, <2>9
  <1>. QED
    BY <1>2, <1>3, <1>4, <1>5

LEMMA KeysKept ==
    ASSUME QueueKept, [Next]_vars
    PROVE  Keys'
  <1>1. TypeOK /\ Keys /\ Iterators /\ tmqueue \subseteq Node
    BY DEF QueueKept, TypeOK
  <1>2. CASE \E e \in Expirations, i \in Intervals, a \in Addrs : addTimer(e, i, a)
    <2>1. PICK e \in Expirations, i \in Intervals, a \in Addrs : addTimer(e, i, a)
      BY <1>2
    <2>2. PICK t, n : t = added + 1 /\ n = [end |-> now + Delay(e), id |-> a, timer |-> t]
      OBVIOUS
    <2>3. /\ t \notin 1..added /\ 1..added' = (1..added) \cup {t}
          /\ n.id = a /\ n.timer = t /\ tmqueue' = Insert(tmqueue, n) /\ idOf'[t] = a
          /\ \A u \in 1..added : idOf'[u] = idOf[u] /\ interval'[u] = interval[u]
          /\ UNCHANGED <<fired, cancelled>>
      BY <1>1, <2>1, <2>2, Adding
    <2>4. \/ tmqueue' = tmqueue
          \/ tmqueue' = tmqueue \cup {n} /\ \A m \in tmqueue : ~SameKey(m, n)
      BY <2>3, InsertIs
    <2>5. \A m \in tmqueue : ~SameKey(m, n) => ~SameKey(n, m)
      BY DEF SameKey
    <2>6. \A m \in tmqueue' : m.timer \in 1..added' /\ idOf'[m.timer] = m.id
      BY <1>1, <2>3, <2>4 DEF Keys
    <2>7. \A k, m \in tmqueue' : SameKey(k, m) \/ k.timer = m.timer => k = m
      BY <1>1, <2>3, <2>4, <2>5 DEF Keys
    <2>8. (\A u \in fired' : u \in 1..added' /\ interval'[u] = 0) /\ cancelled' \subseteq 1..added'
      BY <1>1, <2>3 DEF Keys
    <2>. QED
      BY <2>6, <2>7, <2>8 DEF Keys
  <1>3. CASE \E t \in Timers : delTimer(t)
    <2>1. PICK t \in Timers : delTimer(t)
      BY <1>3
    <2>2. /\ t \in 1..added /\ cancelled' = cancelled \cup {t} /\ tmqueue' \subseteq tmqueue
          /\ UNCHANGED <<added, idOf, interval, fired>>
      BY <1>1, <2>1, Deleting
    <2>. QED
      BY <1>1, <2>2 DEF Keys
  <1>4. CASE Run
    <2>1. it \in tmqueue /\ UNCHANGED <<tmqueue, added, idOf, interval, cancelled>>
      BY <1>1, <1>4 DEF Run, Iterators, timerVars
    <2>2. \A u \in fired' : u \in fired \/ (u = it.timer /\ interval[u] = 0)
      BY <1>4 DEF Run
    <2>. QED
      BY <1>1, <2>1, <2>2 DEF Keys
  <1>5. CASE ReturnsKept
    <2>1. CASE itGone
      BY <1>1, <1>5, <2>1, Keeping DEF Keys
    <2>2. CASE ~itGone
      <3>1. /\ it \in tmqueue /\ UNCHANGED <<added, idOf, interval, fired, cancelled>>
            /\ \A n \in tmqueue : n # it => n.timer # it.timer
            /\ \A n \in tmqueue' : \/ n \in tmqueue /\ n # it
                                   \/ /\ n.id = it.id /\ n.timer = it.timer
                                      /\ \A m \in tmqueue : m # it => ~SameKey(m, n)
        BY <1>5, <2>2, Keeping DEF Again
      <3>2. \A n \in tmqueue' : n.timer \in 1..added' /\ idOf'[n.timer] = n.id
        BY <1>1, <3>1 DEF Keys
      <3>3. \A m, n : SameKey(m, n) => SameKey(n, m)
        BY DEF SameKey
      <3>4. \A m, n \in tmqueue' : SameKey(m, n) \/ m.timer = n.timer => m = n
        <4>1. PICK rest : rest = tmqueue \ {it}
          OBVIOUS
        <4>2. \A m, n \in tmqueue' : m \notin rest /\ n \notin rest => m = n
          <5>1. PICK new : new = [it EXCEPT !.end = Restart(it)]
            OBVIOUS
          <5>2. tmqueue' \subseteq rest \cup {new}
            <6>1. tmqueue' = Requeue(rest, it)
              BY <1>5, <2>2, <4>1 DEF ReturnsKept
            <6>2. Requeue(rest, it) = rest \/ Requeue(rest, it) = Insert(rest, new)
              BY <5>1 DEF Requeue
            <6>. QED
              BY <6>1, <6>2, InsertIs
          <5>. QED
            BY <5>2
        <4>. QED
          BY <1>1, <3>1, <3>3, <4>1, <4>2 DEF Keys
      <3>. QED
        BY <1>1, <3>1, <3>2, <3>4 DEF Keys
    <2>. QED
      BY <2>1, <2>2
  <1>6. CASE UNCHANGED <<tmqueue, added, idOf, interval, fired, cancelled>>
    BY <1>1, <1>6 DEF Keys
  <1>7. \/ UNCHANGED <<tmqueue, added, idOf, interval, fired, cancelled>>
        \/ (\E e \in Expirations, i \in Intervals, a \in Addrs : addTimer(e, i, a))
        \/ (\E t \in Timers : delTimer(t)) \/ Run \/ ReturnsKept
    BY DEF Next, EpollWait, EpollReturns, HandleEnds, ReturnsRemoved, Tick, Undefined,
           timerVars, userVars, vars
  <1>. QED
    BY <1>2, <1>3, <1>4, <1>5, <1>6, <1>7

LEMMA IteratorsKept ==
    ASSUME QueueKept, [Next]_vars
    PROVE  Iterators'
  <1>1. TypeOK /\ Keys /\ Iterators /\ tmqueue \subseteq Node
        /\ currtime \in Nat /\ now \in Nat
    BY TimerAssumption DEF QueueKept, TypeOK
  <1>2. CASE \E e \in Expirations, i \in Intervals, a \in Addrs : addTimer(e, i, a)
    <2>1. PICK e \in Expirations, i \in Intervals, a \in Addrs : addTimer(e, i, a)
      BY <1>2
    <2>2. PICK t, n : t = added + 1 /\ n = [end |-> now + Delay(e), id |-> a, timer |-> t]
      OBVIOUS
    <2>3. /\ t \notin 1..added /\ 1..added' = (1..added) \cup {t}
          /\ n.timer = t /\ tmqueue' = Insert(tmqueue, n)
          /\ \A u \in 1..added : idOf'[u] = idOf[u] /\ interval'[u] = interval[u]
          /\ UNCHANGED <<now, pc, currtime, it, tmpIt, itGone, tmpGone, fired>>
          /\ pc # "handle"
      BY <1>1, <2>1, <2>2, Adding DEF InUserCode
    <2>4. tmqueue \subseteq tmqueue' /\ tmqueue' \subseteq tmqueue \cup {n}
      BY <2>3, InsertIs
    <2>. QED
      BY <1>1, <2>3, <2>4 DEF Iterators, IsDue
  <1>3. CASE \E t \in Timers : delTimer(t)
    <2>1. PICK t \in Timers : delTimer(t)
      BY <1>3
    <2>2. PICK g : g = First(WithId(idOf[t]))
      OBVIOUS
    <2>3. /\ pc # "handle"
          /\ UNCHANGED <<now, pc, currtime, it, tmpIt, added, idOf, interval, fired>>
          /\ \/ UNCHANGED <<tmqueue, itGone, tmpGone>>
             \/ /\ g \in tmqueue /\ tmqueue' = tmqueue \ {g}
                /\ itGone' = (itGone \/ g = it) /\ tmpGone' = (tmpGone \/ g = tmpIt)
      BY <1>1, <2>1, <2>2, Deleting
    <2>4. g \in tmqueue => g # NoNode
      BY <1>1, NodesAre
    <2>5. CASE UNCHANGED <<tmqueue, itGone, tmpGone>>
      BY <1>1, <2>3, <2>5 DEF Iterators, IsDue
    <2>6. CASE /\ g \in tmqueue /\ tmqueue' = tmqueue \ {g}
               /\ itGone' = (itGone \/ g = it) /\ tmpGone' = (tmpGone \/ g = tmpIt)
      <3>1. currtime' <= now' /\ (IsDue(it) => IsDue(it)')
        BY <1>1, <2>3 DEF Iterators, IsDue
      <3>2. pc = "callback" => (itGone' <=> it \notin tmqueue')
        BY <1>1, <2>6 DEF Iterators
      <3>3. pc = "callback" => (tmpIt = NoNode => ~tmpGone')
        BY <1>1, <2>4, <2>6 DEF Iterators
      <3>4. pc = "callback" => (tmpIt # NoNode => (tmpGone' <=> tmpIt \notin tmqueue'))
        BY <1>1, <2>6 DEF Iterators
      <3>. QED
        BY <1>1, <2>3, <3>1, <3>2, <3>3, <3>4 DEF Iterators
    <2>. QED
      BY <2>3, <2>5, <2>6
  <1>4. CASE Run
    <2>1. /\ pc' = "callback" /\ it \in tmqueue /\ it # NoNode /\ IsDue(it) /\ ~itGone
          /\ tmpIt' = After(tmqueue, it) /\ tmpGone' = FALSE
          /\ interval[it.timer] = 0 => it.timer \in fired'
          /\ UNCHANGED <<now, tmqueue, currtime, it, itGone, added, idOf, interval>>
      BY <1>1, <1>4 DEF Run, Iterators, timerVars
    <2>2. it \in Node /\ it.timer \in 1..added /\ idOf[it.timer] = it.id
      BY <1>1, <2>1 DEF Keys
    <2>3. tmpIt' # NoNode => tmpIt' \in tmqueue /\ tmpIt' # it /\ tmpIt'.timer \in 1..added
      <3>1. tmpIt' # NoNode => tmpIt' \in tmqueue /\ Before(it, tmpIt')
        BY <1>1, <2>1, AfterIs
      <3>2. ~Before(it, it)
        BY <2>2, Order
      <3>. QED
        BY <1>1, <3>1, <3>2 DEF Keys
    <2>. QED
      BY <1>1, <2>1, <2>2, <2>3 DEF Iterators, IsDue
  <1>5. CASE ReturnsKept
    <2>1. /\ currtime' = currtime /\ now' = now /\ itGone' = itGone
          /\ pc' = "undefined" \/ (pc' = "handle" /\ ~itGone /\ it' \in tmqueue' \cup {NoNode})
      BY <1>5, Keeping
    <2>. QED
      BY <1>1, <2>1 DEF Iterators
  <1>6. CASE ReturnsRemoved
    <2>1. /\ it' = tmpIt /\ itGone' = FALSE /\ pc = "callback"
          /\ pc' = IF tmpGone THEN "undefined" ELSE "handle"
          /\ UNCHANGED <<now, tmqueue, currtime>>
      BY <1>6 DEF ReturnsRemoved
    <2>. QED
      BY <1>1, <2>1 DEF Iterators
  <1>7. CASE EpollReturns
    <2>1. First(tmqueue) # NoNode => First(tmqueue) \in tmqueue
      BY <1>1, FirstIs
    <2>. QED
      BY <1>1, <1>7, <2>1 DEF EpollReturns, Iterators
  <1>8. CASE HandleEnds
    BY <1>1, <1>8 DEF HandleEnds, Iterators
  <1>9. CASE EpollWait
    BY <1>1, <1>9 DEF EpollWait, Iterators, iterVars
  <1>10. CASE Tick
    <2>1. now' = now + 1 /\ UNCHANGED <<pc, tmqueue, iterVars, timerVars, userVars>>
      BY <1>10 DEF Tick
    <2>2. currtime' <= now'
      BY <1>1, <2>1 DEF Iterators, iterVars
    <2>. QED
      BY <1>1, <2>1, <2>2 DEF Iterators, IsDue, iterVars, timerVars, userVars
  <1>11. CASE UNCHANGED vars
    BY <1>1, <1>11 DEF Iterators, IsDue, vars, iterVars, timerVars, userVars
  <1>. QED
    BY <1>2, <1>3, <1>4, <1>5, <1>6, <1>7, <1>8, <1>9, <1>10, <1>11 DEF Next, Undefined

LEMMA QueueKeptInit == Init => QueueKept
  <1>1. SUFFICES ASSUME Init
                 PROVE  QueueKept
    OBVIOUS
  <1>2. TypeOK
    <2>1. /\ 0 \in 0..MaxTime /\ 0 \in 0..MaxCancels /\ 0 \in 0..MaxTimers
      BY TimerAssumption
    <2>2. /\ idOf \in [Timers -> Addrs \cup {0}] /\ due \in [Timers -> Nat]
          /\ interval \in [Timers -> Intervals \cup {0}]
      BY <1>1 DEF Init
    <2>3. itGone \in BOOLEAN /\ tmpGone \in BOOLEAN
      BY <1>1 DEF Init
    <2>4. /\ now \in 0..MaxTime /\ tmqueue \subseteq Node /\ rhTimerId \in Addrs \cup {0}
          /\ wake \in Nat /\ slept \in Nat /\ currtime \in 0..MaxTime
          /\ cancels \in 0..MaxCancels /\ added \in 0..MaxTimers
      BY <1>1, <2>1 DEF Init
    <2>5. /\ pc \in {"user", "sleep", "handle", "callback", "undefined"}
          /\ it \in Node \cup {NoNode} /\ tmpIt \in Node \cup {NoNode}
          /\ fired \subseteq Timers /\ refired \subseteq fired /\ cancelled \subseteq Timers
      BY <1>1 DEF Init
    <2>. QED
      BY <2>2, <2>3, <2>4, <2>5 DEF TypeOK
  <1>3. Keys
    BY <1>1 DEF Init, Keys
  <1>4. Iterators
    BY <1>1 DEF Init, Iterators
  <1>. QED
    BY <1>2, <1>3, <1>4 DEF QueueKept

LEMMA QueueKeptStep ==
    ASSUME QueueKept, [Next]_vars
    PROVE  QueueKept'
  BY TypesKept, KeysKept, IteratorsKept DEF QueueKept

-----------------------------------------------------------------------------
(* Timers with ids of their own.                                           *)

(* Ids stay what they are.                                                 *)
LEMMA IdsStay ==
    ASSUME QueueKept, [Next]_vars, DistinctIds'
    PROVE  DistinctIds
  <1>1. TypeOK
    BY DEF QueueKept
  <1>2. CASE \E e \in Expirations, i \in Intervals, a \in Addrs : addTimer(e, i, a)
    <2>1. PICK e \in Expirations, i \in Intervals, a \in Addrs : addTimer(e, i, a)
      BY <1>2
    <2>2. PICK t, n : t = added + 1 /\ n = [end |-> now + Delay(e), id |-> a, timer |-> t]
      OBVIOUS
    <2>3. 1..added' = (1..added) \cup {t} /\ \A u \in 1..added : idOf'[u] = idOf[u]
      BY <1>1, <2>1, <2>2, Adding
    <2>. QED
      BY <2>3 DEF DistinctIds
  <1>3. CASE UNCHANGED <<added, idOf>>
    BY <1>3 DEF DistinctIds
  <1>4. \/ UNCHANGED <<added, idOf>>
        \/ \E e \in Expirations, i \in Intervals, a \in Addrs : addTimer(e, i, a)
    BY DEF Next, delTimer, EpollWait, EpollReturns, Run, HandleEnds, ReturnsRemoved, ReturnsKept,
           Tick, Undefined, timerVars, vars
  <1>. QED
    BY <1>2, <1>3, <1>4

(* The timer of a node with the id of timer t is timer t.                  *)
LEMMA NodeOfId ==
    ASSUME Keys, DistinctIds
    PROVE  /\ \A n \in tmqueue : \A t \in 1..added : n.id = idOf[t] => n.timer = t
           /\ \A n \in tmqueue : n.timer \in 1..added
  BY DEF Keys, DistinctIds

LEMMA AddingOwn ==
    ASSUME QueueKept, OwnIds, DistinctIds', DistinctIds,
           NEW e \in Expirations, NEW i \in Intervals, NEW a \in Addrs, addTimer(e, i, a)
    PROVE  OwnIds'
  <1>1. TypeOK /\ Keys
    BY DEF QueueKept
  <1>2. PICK t, n : t = added + 1 /\ n = [end |-> now + Delay(e), id |-> a, timer |-> t]
    OBVIOUS
  <1>3. /\ t \notin 1..added /\ 1..added' = (1..added) \cup {t}
        /\ n.id = a /\ n.timer = t /\ tmqueue' = Insert(tmqueue, n) /\ idOf'[t] = a
        /\ \A u \in 1..added : idOf'[u] = idOf[u]
        /\ UNCHANGED <<rhTimerId, pc, it, fired, refired, cancelled>>
    BY <1>1, <1>2, Adding
  <1>4. \A m \in tmqueue : ~SameKey(m, n)
    <2>1. SUFFICES ASSUME NEW m \in tmqueue, SameKey(m, n)
                   PROVE  FALSE
      OBVIOUS
    <2>2. m.timer \in 1..added /\ idOf[m.timer] = a
      BY <1>1, <1>3, <2>1 DEF Keys, SameKey
    <2>3. idOf'[m.timer] = idOf'[t] /\ m.timer \in 1..added' /\ t \in 1..added' /\ m.timer # t
      BY <1>3, <2>2
    <2>. QED
      BY <2>3 DEF DistinctIds
  <1>5. tmqueue' = tmqueue \cup {n}
    BY <1>3, <1>4, InsertIs
  <1>6. t \notin cancelled /\ t \notin fired
    BY <1>1, <1>3 DEF Keys
  <1>7. \A m \in tmqueue' : /\ m.timer \notin cancelled'
                            /\ m.timer \in fired' => m = it' /\ pc' \in {"callback", "undefined"}
    BY <1>3, <1>5, <1>6 DEF OwnIds
  <1>8. NoTimerLost'
    BY <1>3, <1>5 DEF OwnIds, NoTimerLost, Queued
  <1>9. OneShotOnce'
    BY <1>3 DEF OwnIds, OneShotOnce
  <1>10. rhTimerId' = 0 \/ \E u \in cancelled' : idOf'[u] = rhTimerId'
    BY <1>1, <1>3 DEF OwnIds, Keys
  <1>. QED
    BY <1>7, <1>8, <1>9, <1>10 DEF OwnIds

LEMMA DeletingOwn ==
    ASSUME QueueKept, OwnIds, DistinctIds, NEW t \in Timers, delTimer(t)
    PROVE  OwnIds'
  <1>1. TypeOK /\ Keys
    BY DEF QueueKept
  <1>2. PICK g : g = First(WithId(idOf[t]))
    OBVIOUS
  <1>3. /\ t \in 1..added /\ cancelled' = cancelled \cup {t}
        /\ \/ /\ \A n \in tmqueue : n.id # idOf[t]
              /\ UNCHANGED <<tmqueue, rhTimerId>>
           \/ /\ g \in tmqueue /\ g.id = idOf[t] /\ tmqueue' = tmqueue \ {g}
              /\ rhTimerId' = NoteHead(g)
        /\ UNCHANGED <<pc, it, added, idOf, fired, refired>>
    BY <1>1, <1>2, Deleting
  <1>4. /\ tmqueue' \subseteq tmqueue
        /\ \A n \in tmqueue' : n.timer # t
        /\ \A n \in tmqueue : n \notin tmqueue' => n.timer = t
    BY <1>1, <1>3, NodeOfId DEF Keys
  <1>5. \A n \in tmqueue' : /\ n.timer \notin cancelled'
                            /\ n.timer \in fired' => n = it' /\ pc' \in {"callback", "undefined"}
    BY <1>3, <1>4 DEF OwnIds
  <1>6. NoTimerLost'
    BY <1>3, <1>4 DEF OwnIds, NoTimerLost, Queued
  <1>7. OneShotOnce'
    BY <1>3 DEF OwnIds, OneShotOnce
  <1>8. rhTimerId' = rhTimerId \/ rhTimerId' = idOf[t]
    BY <1>3 DEF NoteHead
  <1>9. rhTimerId' = 0 \/ \E u \in cancelled' : idOf'[u] = rhTimerId'
    BY <1>3, <1>8 DEF OwnIds
  <1>. QED
    BY <1>5, <1>6, <1>7, <1>9 DEF OwnIds

LEMMA RunningOwn ==
    ASSUME QueueKept, OwnIds, Run
    PROVE  OwnIds' /\ it.timer \notin fired
  <1>1. TypeOK /\ Keys /\ Iterators
    BY DEF QueueKept
  <1>2. /\ pc = "handle" /\ it # NoNode /\ pc' = "callback"
        /\ fired' = IF interval[it.timer] = 0 THEN fired \cup {it.timer} ELSE fired
        /\ refired' = IF it.timer \in fired THEN refired \cup {it.timer} ELSE refired
        /\ UNCHANGED <<tmqueue, rhTimerId, it, added, idOf, cancelled>>
    BY DEF Run, timerVars
  <1>3. it \in tmqueue
    BY <1>1, <1>2 DEF Iterators
  <1>4. \A n \in tmqueue : n.timer \notin fired
    BY <1>2 DEF OwnIds
  <1>5. \A n \in tmqueue : n.timer = it.timer => n = it
    BY <1>1, <1>3 DEF Keys
  <1>6. \A n \in tmqueue' : /\ n.timer \notin cancelled'
                            /\ n.timer \in fired' => n = it' /\ pc' \in {"callback", "undefined"}
    BY <1>2, <1>4, <1>5 DEF OwnIds
  <1>7. NoTimerLost'
    BY <1>2 DEF OwnIds, NoTimerLost, Queued
  <1>8. OneShotOnce'
    BY <1>2, <1>3, <1>4 DEF OwnIds, OneShotOnce
  <1>9. rhTimerId' = 0 \/ \E u \in cancelled' : idOf'[u] = rhTimerId'
    BY <1>2 DEF OwnIds
  <1>. QED
    BY <1>3, <1>4, <1>6, <1>7, <1>8, <1>9 DEF OwnIds

LEMMA RemovedOwn ==
    ASSUME QueueKept, OwnIds, DistinctIds, ReturnsRemoved
    PROVE  OwnIds' /\ it.timer \in cancelled /\ it \notin tmqueue
  <1>1. TypeOK /\ Keys /\ Iterators
    BY DEF QueueKept
  <1>2. /\ pc = "callback" /\ rhTimerId = it.id /\ rhTimerId' = 0
        /\ UNCHANGED <<tmqueue, added, idOf, fired, refired, cancelled>>
    BY DEF ReturnsRemoved, timerVars, userVars
  <1>3. it \in Node /\ it.timer \in 1..added /\ idOf[it.timer] = it.id /\ it.id # 0
    BY <1>1, <1>2, NodesAre DEF Iterators
  <1>4. PICK t \in cancelled : idOf[t] = it.id
    BY <1>2, <1>3 DEF OwnIds
  <1>5. t = it.timer
    BY <1>1, <1>3, <1>4 DEF DistinctIds, Keys
  <1>6. it \notin tmqueue
    BY <1>4, <1>5 DEF OwnIds
  <1>7. \A n \in tmqueue : n.timer \notin cancelled /\ n.timer \notin fired
    BY <1>6 DEF OwnIds
  <1>8. NoTimerLost' /\ OneShotOnce'
    BY <1>2 DEF OwnIds, NoTimerLost, Queued, OneShotOnce
  <1>. QED
    BY <1>2, <1>4, <1>5, <1>6, <1>7, <1>8 DEF OwnIds

LEMMA KeptOwn ==
    ASSUME QueueKept, Keys', OwnIds, DistinctIds, ReturnsKept
    PROVE  OwnIds'
  <1>1. TypeOK /\ Keys /\ Iterators
    BY DEF QueueKept
  <1>2. /\ pc = "callback" /\ it \in Node
        /\ UNCHANGED <<rhTimerId, added, idOf, interval, fired, refired, cancelled>>
    BY Keeping
  <1>3. OneShotOnce' /\ (rhTimerId' = 0 \/ \E u \in cancelled' : idOf'[u] = rhTimerId')
    BY <1>2 DEF OwnIds, OneShotOnce
  <1>4. CASE itGone
    <2>1. pc' = "undefined" /\ UNCHANGED <<tmqueue, it>>
      BY <1>4, Keeping
    <2>2. NoTimerLost'
      BY <1>2, <2>1 DEF OwnIds, NoTimerLost, Queued
    <2>. QED
      BY <1>2, <1>3, <2>1, <2>2 DEF OwnIds
  <1>5. CASE ~itGone
    <2>1. /\ it \in tmqueue
          /\ \A n \in tmqueue : n # it => n \in tmqueue'
          /\ interval[it.timer] > 0 => \E n \in tmqueue' : n.id = it.id
      BY <1>5, Keeping
    <2>2. \A n \in tmqueue' : \/ n \in tmqueue /\ n # it
                              \/ n.timer = it.timer /\ interval[n.timer] > 0
      BY <1>5, Keeping DEF Again
    <2>3. it.timer \in 1..added /\ idOf[it.timer] = it.id /\ it.timer \notin cancelled
      BY <1>1, <2>1 DEF Keys, OwnIds
    <2>4. \A u \in fired : interval[u] = 0
      BY <1>1 DEF Keys
    <2>5. \A n \in tmqueue' : n.timer \notin cancelled' /\ n.timer \notin fired'
      <3>1. SUFFICES ASSUME NEW n \in tmqueue'
                     PROVE  n.timer \notin cancelled /\ n.timer \notin fired
        BY <1>2
      <3>2. CASE n \in tmqueue /\ n # it
        BY <3>2 DEF OwnIds
      <3>3. CASE n.timer = it.timer /\ interval[n.timer] > 0
        BY <2>3, <2>4, <3>3
      <3>. QED
        BY <2>2, <3>2, <3>3
    <2>6. interval[it.timer] = 0 => it.timer \in fired
      BY <1>1, <1>2 DEF Iterators
    <2>7. interval[it.timer] > 0 => \E n \in tmqueue' : n.timer = it.timer
      <3>1. SUFFICES ASSUME NEW n \in tmqueue', n.id = it.id
                     PROVE  n.timer = it.timer
        BY <2>1
      <3>2. n.timer \in 1..added /\ idOf[n.timer] = n.id
        BY <1>2 DEF Keys
      <3>. QED
        BY <2>3, <3>1, <3>2 DEF DistinctIds
    <2>8. interval[it.timer] = 0 \/ interval[it.timer] > 0
      <3>1. it.timer \in Timers
        BY <1>2, NodesAre
      <3>2. interval[it.timer] \in Intervals \cup {0}
        BY <1>1, <3>1 DEF TypeOK
      <3>3. PICK i \in Intervals \cup {0} : i = interval[it.timer]
        BY <3>2
      <3>4. i \in Nat
        BY <3>3, TimerAssumption
      <3>5. i = 0 \/ i > 0
        BY <3>4
      <3>. QED
        BY <3>3, <3>5
    <2>9. NoTimerLost'
      <3>1. SUFFICES ASSUME NEW u \in 1..added
                     PROVE  u \in cancelled \/ u \in fired \/ \E n \in tmqueue' : n.timer = u
        BY <1>2 DEF NoTimerLost, Queued
      <3>2. u \in cancelled \/ u \in fired \/ \E n \in tmqueue : n.timer = u
        BY DEF OwnIds, NoTimerLost, Queued
      <3>. QED
        BY <2>1, <2>6, <2>7, <2>8, <3>2
    <2>. QED
      BY <1>3, <2>5, <2>9 DEF OwnIds
  <1>. QED
    BY <1>4, <1>5

LEMMA OwnIdsStep ==
    ASSUME QueueKept, Keys', OwnIdsKept, [Next]_vars
    PROVE  OwnIdsKept'
  <1>1. SUFFICES ASSUME DistinctIds'
                 PROVE  OwnIds'
    BY DEF OwnIdsKept
  <1>2. DistinctIds /\ OwnIds
    BY <1>1, IdsStay DEF OwnIdsKept
  <1>3. CASE \E e \in Expirations, i \in Intervals, a \in Addrs : addTimer(e, i, a)
    BY <1>1, <1>2, <1>3, AddingOwn
  <1>4. CASE \E t \in Timers : delTimer(t)
    BY <1>2, <1>4, DeletingOwn
  <1>5. CASE Run
    BY <1>2, <1>5, RunningOwn
  <1>6. CASE ReturnsRemoved
    BY <1>2, <1>6, RemovedOwn
  <1>7. CASE ReturnsKept
    BY <1>2, <1>7, KeptOwn
  <1>8. CASE EpollWait \/ EpollReturns \/ HandleEnds
    <2>1. /\ pc \notin {"callback", "undefined"}
          /\ UNCHANGED <<tmqueue, rhTimerId, added, idOf, fired, refired, cancelled>>
      BY <1>8 DEF EpollWait, EpollReturns, HandleEnds, timerVars, userVars
    <2>. QED
      BY <1>2, <2>1 DEF OwnIds, OneShotOnce, NoTimerLost, Queued
  <1>9. CASE UNCHANGED <<tmqueue, rhTimerId, pc, it, added, idOf, fired, refired, cancelled>>
    BY <1>2, <1>9 DEF OwnIds, OneShotOnce, NoTimerLost, Queued
  <1>10. Tick \/ UNCHANGED vars =>
           UNCHANGED <<tmqueue, rhTimerId, pc, it, added, idOf, fired, refired, cancelled>>
    BY DEF Tick, vars, iterVars, timerVars, userVars
  <1>. QED
    BY <1>3, <1>4, <1>5, <1>6, <1>7, <1>8, <1>9, <1>10 DEF Next, Undefined

LEMMA OwnIdsAreKept == Spec => [](QueueKept /\ OwnIdsKept)
  <1>1. Init => QueueKept /\ OwnIdsKept
    <2>1. Init => QueueKept
      BY QueueKeptInit
    <2>2. Init => OwnIds
      BY DEF Init, OwnIds, OneShotOnce, NoTimerLost
    <2>. QED
      BY <2>1, <2>2 DEF OwnIdsKept
  <1>2. QueueKept /\ OwnIdsKept /\ [Next]_vars => (QueueKept /\ OwnIdsKept)'
    BY QueueKeptStep, OwnIdsStep DEF QueueKept
  <1>. QED
    BY <1>1, <1>2, PTL DEF Spec

(* The timers, the queue and the iterators are of their types; with ids of *)
(* their own, no timer is lost and no one-shot timer runs twice, whatever  *)
(* callbacks cancel (timerqueue.cpp:77-143).                               *)
THEOREM TimersCorrect == Spec => []TimerInv
  <1>1. QueueKept /\ OwnIdsKept => TimerInv
    BY DEF QueueKept, OwnIdsKept, OwnIds, TimerInv
  <1>. QED
    BY <1>1, OwnIdsAreKept, PTL

(* No timer runs once delTimer was called for it (timerqueue.cpp:43-75).   *)
THEOREM CancelledStaysOut == Spec => CancelledNeverFires
  <1>1. QueueKept /\ OwnIdsKept /\ [Next]_vars =>
          [DistinctIds => \A t \in cancelled : ~Fires(t)]_vars
    <2>1. SUFFICES ASSUME QueueKept, OwnIdsKept, [Next]_vars, DistinctIds,
                          NEW t \in cancelled, Fires(t)
                   PROVE  FALSE
      OBVIOUS
    <2>2. Run
      BY <2>1 DEF Fires, Next, addTimer, InUserCode, delTimer, EpollWait, EpollReturns, HandleEnds,
                  ReturnsRemoved, ReturnsKept, Tick, Undefined, vars
    <2>3. it \in tmqueue
      BY <2>1, <2>2 DEF Run, QueueKept, Iterators
    <2>. QED
      BY <2>1, <2>3 DEF Fires, OwnIdsKept, OwnIds
  <1>. QED
    BY <1>1, OwnIdsAreKept, PTL DEF Spec, CancelledNeverFires
-----------------------------------------------------------------------------
(* Time.                                                                   *)

LEMMA OnTimeStep ==
    ASSUME NoWrap, QueueKept, OnTime, [Next]_vars
    PROVE  OnTime'
  <1>1. TypeOK /\ Keys /\ Iterators
    BY DEF QueueKept
  <1>2. CASE \E e \in Expirations, i \in Intervals, a \in Addrs : addTimer(e, i, a)
    <2>1. PICK e \in Expirations, i \in Intervals, a \in Addrs : addTimer(e, i, a)
      BY <1>2
    <2>2. PICK t, n : t = added + 1 /\ n = [end |-> now + Delay(e), id |-> a, timer |-> t]
      OBVIOUS
    <2>3. /\ n.end = now + Delay(e) /\ n.timer = t
          /\ tmqueue' = Insert(tmqueue, n) /\ due'[t] = now + e * US_PER_MS
          /\ \A u \in 1..added : due'[u] = due[u]
      BY <1>1, <2>1, <2>2, Adding
    <2>4. n.end >= due'[n.timer]
      <3>1. PICK d \in Nat : d = Delay(e) /\ d >= e * US_PER_MS
        BY Delays
      <3>2. PICK x \in Nat : x = e * US_PER_MS
        BY TimerAssumption, Product
      <3>3. now \in Nat
        BY <1>1, TimerAssumption DEF TypeOK
      <3>. QED
        BY <2>3, <3>1, <3>2, <3>3
    <2>5. \A m \in tmqueue : m.timer \in 1..added
      BY <1>1 DEF Keys
    <2>. QED
      BY <2>3, <2>4, <2>5, InsertIs DEF OnTime
  <1>3. CASE ReturnsKept
    <2>1. due' = due
      BY <1>3, Keeping
    <2>2. CASE itGone
      BY <1>3, <2>1, <2>2, Keeping DEF OnTime
    <2>3. CASE ~itGone
      <3>1. pc = "callback" /\ it \in tmqueue
        BY <1>3, <2>3, Keeping
      <3>2. \A n \in tmqueue' : \/ n \in tmqueue
                                \/ n \in Node /\ n.timer = it.timer /\ n.end >= currtime
        BY <1>3, <2>3, Keeping DEF Again
      <3>3. it.end <= currtime /\ it.end >= due[it.timer]
        BY <1>1, <3>1 DEF Iterators, IsDue, OnTime
      <3>4. it \in Node /\ currtime \in Nat
        BY <1>1, <3>1 DEF TypeOK
      <3>5. it.end \in Nat /\ due[it.timer] \in Nat
        BY <1>1, <3>4, NodesAre DEF TypeOK
      <3>6. \A n \in tmqueue' : n \in tmqueue \/ n.end >= due[n.timer]
        BY <3>2, <3>3, <3>4, <3>5, NodesAre
      <3>. QED
        BY <2>1, <3>6 DEF OnTime
    <2>. QED
      BY <2>2, <2>3
  <1>4. CASE tmqueue' \subseteq tmqueue /\ due' = due
    BY <1>4 DEF OnTime
  <1>5. CASE \E t \in Timers : delTimer(t)
    <2>1. PICK t \in Timers : delTimer(t)
      BY <1>5
    <2>2. tmqueue' \subseteq tmqueue /\ due' = due
      BY <1>1, <2>1, Deleting
    <2>. QED
      BY <1>4, <2>2
  <1>6. CASE UNCHANGED <<tmqueue, due>>
    BY <1>6 DEF OnTime
  <1>7. \/ \E e \in Expirations, i \in Intervals, a \in Addrs : addTimer(e, i, a)
        \/ ReturnsKept \/ (\E t \in Timers : delTimer(t)) \/ UNCHANGED <<tmqueue, due>>
    BY DEF Next, EpollWait, EpollReturns, Run, HandleEnds, ReturnsRemoved, Tick, Undefined,
           timerVars, vars
  <1>. QED
    BY <1>2, <1>3, <1>5, <1>6, <1>7

(* The timer whose callback begins is the one that iterator points to.     *)
LEMMA FiringRuns ==
    ASSUME [Next]_vars, NEW t, Fires(t)
    PROVE  Run
  BY DEF Fires, Next, addTimer, InUserCode, delTimer, EpollWait, EpollReturns, HandleEnds,
         ReturnsRemoved, ReturnsKept, Tick, Undefined, vars

(* No callback runs before the time its user asked for, through every      *)
(* restart of a periodic timer (timerqueue.cpp:10-27, 101-143).  A delay   *)
(* that wraps in 32 bits is put too early.                                 *)
THEOREM NeverEarly ==
    ASSUME NoWrap
    PROVE  Spec => NotEarly
  <1>1. Init => QueueKept /\ OnTime
    <2>1. Init => OnTime
      BY DEF Init, OnTime
    <2>. QED
      BY <2>1, QueueKeptInit
  <1>2. QueueKept /\ OnTime /\ [Next]_vars => (QueueKept /\ OnTime)'
    BY QueueKeptStep, OnTimeStep
  <1>3. QueueKept /\ OnTime /\ [Next]_vars => [\A t \in Timers : Fires(t) => now >= due[t]]_vars
    <2>1. SUFFICES ASSUME QueueKept, OnTime, [Next]_vars, NEW t \in Timers, Fires(t)
                   PROVE  now >= due[t]
      OBVIOUS
    <2>2. Run /\ it.timer = t
      BY <2>1, FiringRuns DEF Fires
    <2>3. it \in tmqueue /\ it.end <= currtime /\ currtime <= now
      BY <2>1, <2>2 DEF Run, QueueKept, Iterators, IsDue
    <2>4. it.end >= due[t]
      BY <2>1, <2>2, <2>3 DEF OnTime
    <2>5. it \in Node /\ currtime \in Nat /\ now \in Nat /\ due[t] \in Nat
      BY <2>1, <2>3, TimerAssumption DEF QueueKept, TypeOK
    <2>6. it.end \in Nat
      BY <2>5, NodesAre
    <2>. QED
      BY <2>3, <2>4, <2>5, <2>6
  <1>. QED
    BY <1>1, <1>2, <1>3, PTL DEF Spec, NotEarly

(* What getExpire leaves of a node's end when the units are rounded.       *)
LEMMA Rounding ==
    ASSUME NEW end \in Nat, NEW clock \in Nat, NEW u \in Nat \ {0}
    PROVE  /\ (end \div u >= clock \div u) =>
                /\ (end \div u) - (clock \div u) \in Nat
                /\ clock + ((end \div u) - (clock \div u)) * u
                     <= (IF end > clock THEN end ELSE clock) + u
  <1>1. PICK d \in Nat, c \in Nat : d = end \div u /\ c = clock \div u
    BY Division
  <1>2. PICK x \in Nat, y \in Nat : x = d * u /\ y = c * u
    BY <1>1, Product
  <1>3. x <= end /\ end < x + u /\ y <= clock /\ clock < y + u
    BY <1>1, <1>2, Division
  <1>4. (d - c) * u = x - y
    BY <1>1, <1>2
  <1>. QED
    BY <1>1, <1>2, <1>3, <1>4

LEMMA SleepsNoLonger ==
    ASSUME TypeOK, EpollWait
    PROVE  NoOversleep' /\ wake' \in Nat
  <1>1. pc' = "sleep" /\ tmqueue' = tmqueue /\ slept' = now /\ wake' = now + getExpire * US_PER_MS
    BY DEF EpollWait
  <1>2. /\ now \in Nat /\ tmqueue \subseteq Node
        /\ US_PER_MS \in Nat \ {0} /\ EXPIRE \in Nat \ {0}
    BY TimerAssumption DEF TypeOK
  <1>3. PICK X \in Nat : X = EXPIRE * US_PER_MS /\ X >= US_PER_MS
    BY <1>2, Product
  <1>4. CASE tmqueue = {}
    BY <1>1, <1>2, <1>3, <1>4 DEF NoOversleep, getExpire
  <1>5. CASE tmqueue # {}
    <2>1. PICK f \in Node : f = First(tmqueue)
      BY <1>2, <1>5, FirstIs
    <2>2. PICK end \in Nat : end = f.end
      BY <2>1, NodesAre
    <2>3. getExpire = IF end \div US_PER_MS >= now \div US_PER_MS
                        THEN (end \div US_PER_MS) - (now \div US_PER_MS) ELSE EXPIRE
      BY <1>5, <2>1, <2>2 DEF getExpire
    <2>4. PICK e : e = getExpire
      OBVIOUS
    <2>5. /\ e \in Nat
          /\ \/ e = EXPIRE
             \/ now + e * US_PER_MS <= (IF end > now THEN end ELSE now) + US_PER_MS
      BY <1>2, <2>2, <2>3, <2>4, Rounding
    <2>6. PICK p \in Nat : p = e * US_PER_MS
      BY <1>2, <2>5, Product
    <2>7. wake' = now + p
      BY <1>1, <2>4, <2>6
    <2>8. now + p <= (IF end > now THEN end ELSE now) + X
      <3>1. CASE e = EXPIRE
        BY <1>2, <1>3, <2>2, <2>6, <3>1
      <3>2. CASE now + e * US_PER_MS <= (IF end > now THEN end ELSE now) + US_PER_MS
        BY <1>2, <1>3, <2>2, <2>6, <3>2
      <3>. QED
        BY <2>5, <3>1, <3>2
    <2>9. First(tmqueue') = f
      BY <1>1, <2>1
    <2>. QED
      BY <1>1, <1>2, <1>3, <2>2, <2>6, <2>7, <2>8, <2>9 DEF NoOversleep
  <1>. QED
    BY <1>4, <1>5

(* The loop does not sleep on when a timer is due, but for EXPIRE at most  *)
(* (timerqueue.cpp:77-99).                                                 *)
THEOREM SleepsInTime == Spec => []NoOversleep
  <1>1. Init => QueueKept /\ NoOversleep
    <2>1. Init => NoOversleep
      BY DEF Init, NoOversleep
    <2>. QED
      BY <2>1, QueueKeptInit
  <1>2. QueueKept /\ NoOversleep /\ [Next]_vars => (QueueKept /\ NoOversleep)'
    <2>1. SUFFICES ASSUME QueueKept, NoOversleep, [Next]_vars
                   PROVE  NoOversleep'
      BY QueueKeptStep
    <2>2. CASE EpollWait
      BY <2>1, <2>2, SleepsNoLonger DEF QueueKept
    <2>3. CASE pc' # "sleep"
      BY <2>3 DEF NoOversleep
    <2>4. CASE UNCHANGED <<pc, tmqueue, wake, slept>>
      <3>1. First(tmqueue') = First(tmqueue)
        BY <2>4
      <3>. QED
        BY <2>1, <2>4, <3>1 DEF NoOversleep
    <2>5. EpollWait \/ pc' # "sleep" \/ UNCHANGED <<pc, tmqueue, wake, slept>>
      BY <2>1 DEF Next, addTimer, InUserCode, delTimer, EpollReturns, Run, HandleEnds,
                  ReturnsRemoved, ReturnsKept, Tick, Undefined, vars
    <2>. QED
      BY <2>2, <2>3, <2>4, <2>5
  <1>. QED
    BY <1>1, <1>2, PTL DEF Spec
-----------------------------------------------------------------------------
(* The walk through the queue, when a callback cancels one timer at most.  *)

LEMMA AddingWalks ==
    ASSUME NoWrap, QueueKept, Walk,
           NEW e \in Expirations, NEW i \in Intervals, NEW a \in Addrs, addTimer(e, i, a)
    PROVE  Walk'
  <1>1. TypeOK /\ Iterators /\ currtime \in Nat /\ now \in Nat
    BY TimerAssumption DEF QueueKept, TypeOK
  <1>2. PICK t, n : t = added + 1 /\ n = [end |-> now + Delay(e), id |-> a, timer |-> t]
    OBVIOUS
  <1>3. /\ n \in Node /\ n.end = now + Delay(e) /\ tmqueue' = Insert(tmqueue, n) /\ InUserCode
        /\ UNCHANGED <<rhTimerId, pc, currtime, it, tmpIt, itGone, tmpGone, cancels>>
    BY <1>1, <1>2, Adding
  <1>4. n.end > currtime
    <2>1. PICK d \in Nat : d = Delay(e) /\ d > 0
      BY Delays
    <2>2. currtime <= now
      BY <1>1 DEF Iterators
    <2>. QED
      BY <1>1, <1>3, <2>1, <2>2
  <1>5. ASSUME NEW m \in Node, IsDue(m)
        PROVE  ~Before(n, m)
    BY <1>1, <1>3, <1>4, <1>5, NodesAre DEF IsDue, Before
  <1>6. \A m \in tmqueue' : m \in tmqueue \/ m = n
    BY <1>3, InsertIs
  <1>7. it \in Node \cup {NoNode} /\ tmpIt \in Node \cup {NoNode}
    BY <1>1 DEF TypeOK
  <1>8. IsDue(it)' = IsDue(it) /\ IsDue(tmpIt)' = IsDue(tmpIt)
    BY <1>3 DEF IsDue
  <1>9. pc' \in {"handle", "callback"} /\ it' # NoNode /\ ~itGone' /\ IsDue(it)' =>
          \A m \in tmqueue' : ~Before(m, it')
    BY <1>3, <1>5, <1>6, <1>7, <1>8 DEF Walk
  <1>10. pc' = "callback" /\ tmpIt' # NoNode /\ ~tmpGone' /\ IsDue(tmpIt)' =>
           \A m \in tmqueue' : m # it' => ~Before(m, tmpIt')
    BY <1>3, <1>5, <1>6, <1>7, <1>8 DEF Walk
  <1>. QED
    BY <1>3, <1>9, <1>10 DEF Walk

LEMMA DeletingWalks ==
    ASSUME MaxCancels <= 1, QueueKept, Walk, NEW t \in Timers, delTimer(t)
    PROVE  Walk'
  <1>1. TypeOK /\ Keys /\ Iterators /\ tmqueue \subseteq Node
    BY DEF QueueKept, TypeOK
  <1>2. PICK g : g = First(WithId(idOf[t]))
    OBVIOUS
  <1>3. /\ pc \in {"user", "callback"}
        /\ pc = "callback" => cancels < MaxCancels /\ cancels' = cancels + 1
        /\ \/ UNCHANGED <<tmqueue, rhTimerId, itGone, tmpGone>>
           \/ /\ g \in tmqueue /\ tmqueue' = tmqueue \ {g} /\ rhTimerId' = NoteHead(g)
              /\ itGone' = (itGone \/ g = it) /\ tmpGone' = (tmpGone \/ g = tmpIt)
        /\ UNCHANGED <<pc, currtime, it, tmpIt>>
    BY <1>1, <1>2, Deleting
  <1>4. tmqueue' \subseteq tmqueue /\ (itGone => itGone') /\ (tmpGone => tmpGone')
    <2>1. tmqueue' \subseteq tmqueue
      BY <1>3
    <2>2. \/ UNCHANGED <<itGone, tmpGone>>
          \/ itGone' = (itGone \/ g = it) /\ tmpGone' = (tmpGone \/ g = tmpIt)
      BY <1>3
    <2>3. itGone => itGone'
      BY <2>2
    <2>4. tmpGone => tmpGone'
      BY <2>2
    <2>. QED
      BY <2>1, <2>3, <2>4
  <1>5. IsDue(it)' = IsDue(it) /\ IsDue(tmpIt)' = IsDue(tmpIt)
    BY <1>3 DEF IsDue
  <1>6. CASE pc = "user"
    BY <1>3, <1>6 DEF Walk
  <1>7. CASE pc = "callback"
    <2>1. cancels = 0 /\ cancels' = 1
      <3>1. cancels \in Nat /\ MaxCancels \in Nat /\ cancels < MaxCancels /\ cancels' = cancels + 1
        BY <1>1, <1>3, <1>7, TimerAssumption DEF TypeOK
      <3>. QED
        BY <3>1
    <2>2. ~itGone /\ ~tmpGone
      BY <1>7, <2>1 DEF Walk
    <2>3. it' # NoNode /\ ~itGone' /\ IsDue(it)' => \A n \in tmqueue' : ~Before(n, it')
      BY <1>3, <1>4, <1>5, <1>7 DEF Walk
    <2>4. tmpIt' # NoNode /\ ~tmpGone' /\ IsDue(tmpIt)' =>
            \A n \in tmqueue' : n # it' => ~Before(n, tmpIt')
      BY <1>3, <1>4, <1>5, <1>7 DEF Walk
    <2>5. ASSUME itGone'
          PROVE  ~tmpGone' /\ rhTimerId' = it'.id
      <3>1. g = it /\ g \in tmqueue /\ rhTimerId' = NoteHead(g) /\ (tmpGone' <=> g = tmpIt)
        BY <1>3, <2>2, <2>5
      <3>2. tmpIt # it /\ IsDue(it) /\ it \in Node /\ it # NoNode
        BY <1>1, <1>7, NodesAre DEF Iterators
      <3>3. \A n \in tmqueue : ~Before(n, it)
        BY <1>7, <2>2, <3>2 DEF Walk
      <3>4. PICK f \in tmqueue : f = First(tmqueue) /\ ~Before(it, f)
        BY <1>1, <3>1, FirstIs
      <3>5. SameKey(f, it)
        BY <1>1, <3>2, <3>3, <3>4, Order
      <3>6. f = it
        BY <1>1, <3>1, <3>4, <3>5 DEF Keys
      <3>. QED
        BY <1>3, <3>1, <3>2, <3>4, <3>6 DEF NoteHead
    <2>6. itGone' \/ tmpGone' => cancels' = 1
      BY <2>1
    <2>. QED
      BY <1>3, <1>7, <2>3, <2>4, <2>5, <2>6 DEF Walk
  <1>. QED
    BY <1>3, <1>6, <1>7

LEMMA RunningWalks ==
    ASSUME QueueKept, Walk, Run
    PROVE  Walk'
  <1>1. TypeOK /\ Keys /\ Iterators /\ tmqueue \subseteq Node
    BY DEF QueueKept, TypeOK
  <1>2. /\ pc = "handle" /\ it # NoNode /\ IsDue(it) /\ pc' = "callback"
        /\ tmpIt' = After(tmqueue, it) /\ tmpGone' = FALSE
        /\ UNCHANGED <<tmqueue, rhTimerId, currtime, it, itGone>>
    BY DEF Run
  <1>3. ~itGone /\ it \in tmqueue /\ it \in Node
    BY <1>1, <1>2 DEF Iterators
  <1>4. \A n \in tmqueue : ~Before(n, it)
    BY <1>2, <1>3 DEF Walk
  <1>5. ASSUME NEW n \in tmqueue, n # it
        PROVE  Before(it, n)
    <2>1. ~SameKey(n, it)
      BY <1>1, <1>3, <1>5 DEF Keys
    <2>. QED
      BY <1>1, <1>3, <1>4, <2>1, Order
  <1>6. tmpIt' # NoNode => \A n \in tmqueue : n # it => ~Before(n, tmpIt')
    BY <1>1, <1>2, <1>5, AfterIs
  <1>. QED
    BY <1>2, <1>3, <1>4, <1>6 DEF Walk

LEMMA RemovedWalks ==
    ASSUME QueueKept, OwnIds, DistinctIds, Walk, ReturnsRemoved
    PROVE  Walk'
  <1>1. /\ pc = "callback" /\ it' = tmpIt /\ itGone' = FALSE
        /\ pc' = IF tmpGone THEN "undefined" ELSE "handle"
        /\ UNCHANGED <<tmqueue, currtime>>
    BY DEF ReturnsRemoved
  <1>2. it \notin tmqueue /\ itGone
    BY <1>1, RemovedOwn DEF QueueKept, Iterators
  <1>3. ~tmpGone /\ pc' = "handle"
    BY <1>1, <1>2 DEF Walk
  <1>4. tmpIt # NoNode /\ IsDue(tmpIt) => \A n \in tmqueue : ~Before(n, tmpIt)
    BY <1>1, <1>2, <1>3 DEF Walk
  <1>5. IsDue(it)' => IsDue(tmpIt)
    BY <1>1 DEF IsDue
  <1>. QED
    BY <1>1, <1>3, <1>4, <1>5 DEF Walk

LEMMA KeptWalks ==
    ASSUME NoWrap, QueueKept, Walk, ReturnsKept
    PROVE  Walk'
  <1>1. TypeOK /\ Keys /\ Iterators /\ tmqueue \subseteq Node /\ currtime \in Nat
    BY TimerAssumption DEF QueueKept, TypeOK
  <1>2. pc = "callback" /\ rhTimerId # it.id /\ it \in Node /\ currtime' = currtime
    BY Keeping
  <1>3. ~itGone
    BY <1>2 DEF Walk
  <1>4. PICK rest : rest = tmqueue \ {it}
    OBVIOUS
  <1>5. /\ pc' = "handle" /\ it \in tmqueue /\ it' = After(rest, it)
        /\ \A n \in tmqueue' : n \in rest \/ Again(n)
    BY <1>3, <1>4, Keeping
  <1>6. IsDue(it) /\ it # NoNode
    BY <1>1, <1>2, NodesAre DEF Iterators
  <1>7. \A n \in tmqueue : ~Before(n, it)
    BY <1>2, <1>3, <1>6 DEF Walk
  <1>8. ASSUME NEW n \in rest
        PROVE  Before(it, n)
    <2>1. ~SameKey(n, it) /\ n \in tmqueue
      BY <1>1, <1>4, <1>5, <1>8 DEF Keys
    <2>. QED
      BY <1>1, <1>2, <1>7, <2>1, Order
  <1>9. ASSUME it' # NoNode, IsDue(it)', NEW n \in tmqueue'
        PROVE  ~Before(n, it')
    <2>1. it' \in rest /\ \A k \in rest : Before(it, k) => ~Before(k, it')
      BY <1>1, <1>4, <1>5, <1>9, AfterIs
    <2>2. CASE n \in rest
      BY <1>8, <2>1, <2>2
    <2>3. CASE Again(n)
      <3>1. PICK j \in Node : j = it'
        BY <1>1, <1>4, <2>1
      <3>2. n \in Node /\ n.end > currtime /\ j.end <= currtime
        BY <1>2, <1>9, <2>3, <3>1 DEF Again, IsDue
      <3>3. ~Before(n, j)
        BY <1>1, <3>2, NodesAre DEF Before
      <3>. QED
        BY <3>1, <3>3
    <2>. QED
      BY <1>5, <2>2, <2>3
  <1>. QED
    BY <1>5, <1>9 DEF Walk

LEMMA WalkStep ==
    ASSUME NoWrap, MaxCancels <= 1, QueueKept, OwnIdsKept, WalkKept, [Next]_vars
    PROVE  WalkKept'
  <1>1. SUFFICES ASSUME DistinctIds'
                 PROVE  Walk'
    BY DEF WalkKept
  <1>2. DistinctIds /\ OwnIds /\ Walk
    BY <1>1, IdsStay DEF OwnIdsKept, WalkKept
  <1>3. CASE \E e \in Expirations, i \in Intervals, a \in Addrs : addTimer(e, i, a)
    BY <1>2, <1>3, AddingWalks
  <1>4. CASE \E t \in Timers : delTimer(t)
    BY <1>2, <1>4, DeletingWalks
  <1>5. CASE Run
    BY <1>2, <1>5, RunningWalks
  <1>6. CASE ReturnsRemoved
    BY <1>2, <1>6, RemovedWalks
  <1>7. CASE ReturnsKept
    BY <1>2, <1>7, KeptWalks
  <1>8. CASE EpollReturns
    <2>1. pc' = "handle" /\ it' = First(tmqueue) /\ tmqueue' = tmqueue
      BY <1>8 DEF EpollReturns
    <2>2. \A n \in tmqueue : ~Before(n, First(tmqueue))
      BY FirstIs DEF QueueKept, TypeOK
    <2>. QED
      BY <2>1, <2>2 DEF Walk
  <1>9. CASE EpollWait \/ HandleEnds
    BY <1>9 DEF EpollWait, HandleEnds, Walk
  <1>10. CASE UNCHANGED <<tmqueue, rhTimerId, pc, currtime, it, tmpIt, itGone, tmpGone, cancels>>
    BY <1>2, <1>10 DEF Walk, IsDue
  <1>11. Tick \/ UNCHANGED vars =>
           UNCHANGED <<tmqueue, rhTimerId, pc, currtime, it, tmpIt, itGone, tmpGone, cancels>>
    BY DEF Tick, vars, iterVars
  <1>. QED
    BY <1>3, <1>4, <1>5, <1>6, <1>7, <1>8, <1>9, <1>10, <1>11 DEF Next, Undefined

(* handle() uses no iterator to an erased node, when the timers have ids   *)
(* of their own and a callback cancels one timer at most                   *)
(* (timerqueue.cpp:43-75, 101-143).                                        *)
THEOREM IteratorsHold ==
    ASSUME NoWrap, MaxCancels <= 1
    PROVE  Spec => []NoDangling
  <1>1. Init => WalkKept
    BY DEF Init, WalkKept, Walk
  <1>2. QueueKept /\ OwnIdsKept /\ WalkKept /\ [Next]_vars => WalkKept'
    BY WalkStep
  <1>3. WalkKept => NoDangling
    BY DEF WalkKept, Walk, NoDangling
  <1>. QED
    BY <1>1, <1>2, <1>3, OwnIdsAreKept, PTL DEF Spec
=============================================================================
