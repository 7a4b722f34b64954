------------------------------- MODULE MCSync -------------------------------
(***************************************************************************)
(* The queues, locks and channels of raw-examples, model-checked side by   *)
(* side: program names the one that runs, the others stay where they are.  *)
(***************************************************************************)
EXTENDS Integers, Sequences, FiniteSets

CONSTANTS SpscN, SpscPushes,     \* the single-producer queue and its producer
          N,                     \* slots of the multi-producer queue
          Pushes, MaxFail,       \* its producers; failures that end a consumer
          Producers, Consumers,
          sum,                   \* values through the double-buffered queue
          SIZE, Byte, NUL, IntSizes, MaxLen,   \* the ring
          Checkers, Buyers,      \* threads of the reader-writer lock
          Pool,                  \* threads that count down
          Last                   \* the last message in shared memory

ASSUME SyncAssumption ==
    /\ SpscN \in Nat \ {0} /\ N \in Nat \ {0}
    /\ Producers \cap Consumers = {}
    /\ IsFiniteSet(Checkers) /\ IsFiniteSet(Buyers) /\ Checkers \cap Buyers = {}
    /\ Last \in Nat \ {0}
    /\ SIZE \in Nat \ {0} /\ MaxLen \in Nat /\ IntSizes \subseteq Nat \ {0}

VARIABLES program,
          sHead, sTail, queue, producer, consumer,
          nHead, nTail, slot, th, placed, popped,
          kind, rq, wq, produced, at, cnt,
          buf, full, rIdx, wIdx, last,
          rcnt, wcnt, wflag, rwAt, remain,
          useSem, early, semCount, asleep, pc, printed,
          count, poolAt, main,
          segment, num, sem, w, r

Spsc  == INSTANCE SpscQueue WITH nHead <- sHead, nTail <- sTail, N <- SpscN, Pushes <- SpscPushes
Mpmc  == INSTANCE MpmcQueue
Dbq   == INSTANCE DoubleBufferedQueue
Ring  == INSTANCE RingBuffer
RW    == INSTANCE RWLock WITH at <- rwAt
Sem   == INSTANCE Semaphore WITH count <- semCount
Latch == INSTANCE CountDownLatch WITH at <- poolAt
Shm   == INSTANCE ShmChannel

spscVars  == <<sHead, sTail, queue, producer, consumer>>
mpmcVars  == <<nHead, nTail, slot, th, placed, popped>>
dbqVars   == <<kind, rq, wq, produced, at, cnt>>
ringVars  == <<buf, full, rIdx, wIdx, last>>
rwVars    == <<rcnt, wcnt, wflag, rwAt, remain>>
semVars   == <<useSem, early, semCount, asleep, pc, printed>>
latchVars == <<count, poolAt, main>>
shmVars   == <<segment, num, sem, w, r>>

vars == <<program, spscVars, mpmcVars, dbqVars, ringVars, rwVars, semVars, latchVars, shmVars>>

Init ==
    /\ program \in {"Spsc", "Mpmc", "Dbq", "Ring", "RW", "Sem", "Latch", "Shm"}
    /\ Spsc!Init /\ Mpmc!Init /\ Dbq!Init /\ Ring!Init
    /\ RW!Init /\ Sem!Init /\ Latch!Init /\ Shm!Init
    \* a parameter of a program that does not run has one value
    /\ program # "Dbq" => kind = "Queue"
    /\ program # "Sem" => ~useSem

Next ==
    /\ UNCHANGED program
    /\ \/ /\ program = "Spsc" /\ Spsc!Next
          /\ UNCHANGED <<mpmcVars, dbqVars, ringVars, rwVars, semVars, latchVars, shmVars>>
       \/ /\ program = "Mpmc" /\ Mpmc!Next
          /\ UNCHANGED <<spscVars, dbqVars, ringVars, rwVars, semVars, latchVars, shmVars>>
       \/ /\ program = "Dbq" /\ Dbq!Next
          /\ UNCHANGED <<spscVars, mpmcVars, ringVars, rwVars, semVars, latchVars, shmVars>>
       \/ /\ program = "Ring" /\ Ring!Next
          /\ UNCHANGED <<spscVars, mpmcVars, dbqVars, rwVars, semVars, latchVars, shmVars>>
       \/ /\ program = "RW" /\ RW!Next
          /\ UNCHANGED <<spscVars, mpmcVars, dbqVars, ringVars, semVars, latchVars, shmVars>>
       \/ /\ program = "Sem" /\ Sem!Next
          /\ UNCHANGED <<spscVars, mpmcVars, dbqVars, ringVars, rwVars, latchVars, shmVars>>
       \/ /\ program = "Latch" /\ Latch!Next
          /\ UNCHANGED <<spscVars, mpmcVars, dbqVars, ringVars, rwVars, semVars, shmVars>>
       \/ /\ program = "Shm" /\ Shm!Next
          /\ UNCHANGED <<spscVars, mpmcVars, dbqVars, ringVars, rwVars, semVars, latchVars>>

(* Every thread of a program that is to end keeps running. *)
Fairness ==
    /\ WF_dbqVars(program = "Dbq" /\ Dbq!Produce) /\ WF_dbqVars(program = "Dbq" /\ Dbq!Consume)
    /\ \A t \in RW!Threads : WF_rwVars(program = "RW" /\ RW!Step(t))
    /\ \A t \in Sem!Threads : WF_semVars(program = "Sem" /\ Sem!Step(t))
    /\ \A t \in Pool : WF_latchVars(program = "Latch" /\ Latch!Step(t))
    /\ WF_latchVars(program = "Latch" /\ Latch!wait)

Spec == Init /\ [][Next]_vars /\ Fairness

-----------------------------------------------------------------------------
(* Lock-free queue, one producer and one consumer: values come out in the  *)
(* order of the pushes and no slot is written while it is read.            *)
SpscFifo == Spsc!FifoNoRace

(* Lock-free queue, many of each: a slot has one user at a time, and each  *)
(* position yields the value that was put there.                           *)
MpmcExclusive == Mpmc!SlotsExclusive

(* Double-buffered queue: pop always finds the oldest value at the front.  *)
DbqFifo == Dbq!FrontIsOldest

(* Ring buffer: every call that moves a byte is a step of a bounded        *)
(* first-in first-out queue, up to an integer read across the end of the   *)
(* buffer, and a call without a byte empties a full ring or fills an empty *)
(* one where the indices meet.                                             *)
RingFifo == [][program = "Ring" => Ring!FifoStep]_ringVars

(* Reader-writer lock: a writer is alone, and the counters are right. *)
WriterAlone == RW!WriterAlone

(* Semaphores: each thread prints behind the one it waits for, unless it   *)
(* woke up itself without a notification.                                  *)
WordsInOrder == Sem!WordsInOrder

(* Shared memory: the processes take turns and lose no message but the     *)
(* last.                                                                   *)
ShmTakeTurns == Shm!TakeTurns

(* The programs of the reader-writer lock, the semaphore, the latch and    *)
(* the double-buffered queue end: nobody sleeps through the notification   *)
(* it waits for (whatever spurious wake-ups the semaphore sees), and the   *)
(* consumer of the queue gets everything.  The mains of the lock-free      *)
(* queues join their threads too, and may wait for ever: their consumers   *)
(* give up after some failures, and a producer then finds the queue full.  *)
MainReturns ==
    <>(/\ program = "Dbq" => Dbq!Finished
       /\ program = "RW" => RW!Finished
       /\ program = "Sem" => Sem!Finished
       /\ program = "Latch" => Latch!Finished)
=============================================================================
