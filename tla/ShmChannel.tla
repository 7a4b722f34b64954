----------------------------- MODULE ShmChannel -----------------------------
(***************************************************************************)
(* The writer and the reader of raw-examples/linux/shm: one message in a   *)
(* shared memory segment, handed over with two semaphores, {1, 0} at the   *)
(* start.  The reader decides without a semaphore whether another message  *)
(* will come (msg->num < 10), and either process may be the one that       *)
(* removes the segment and the semaphores while the other still uses them. *)
(* Either may start first; the calls that wait for removed semaphores fail *)
(* and end their process.                                                  *)
(***************************************************************************)
EXTENDS Integers

CONSTANT Last        \* the number of the last message, 10 in the program

VARIABLES segment,   \* the segment the key names, 0 when there is none
          num,       \* segment -> msg->num in it
          sem,       \* the values of the two semaphores, <<>> when there is no set
          w,         \* the writer: at, its segment shm, its message number i
          r          \* the reader: at, its segment shm, the messages it received

vars == <<segment, num, sem, w, r>>

Segments == 1..2     \* a segment that is removed can be made anew once

Init ==
    /\ segment = 0
    /\ num = [s \in Segments |-> 0]
    /\ sem = <<>>
    /\ w = [at |-> "shmget", shm |-> 0, i |-> 0]
    /\ r = [at |-> "shmget", shm |-> 0, received |-> 0]

(* The segment that shmget with IPC_CREAT gives: the one there is, or a    *)
(* new one.                                                                *)
Segment == IF segment # 0 THEN segment ELSE IF w.shm = 1 \/ r.shm = 1 THEN 2 ELSE 1

HaveSem == sem # <<>>

(* semop: P waits for a positive value, both fail when the set is gone. *)
P(s) == HaveSem /\ sem[s] > 0 /\ sem' = [sem EXCEPT ![s] = @ - 1]
V(s) == HaveSem /\ sem' = [sem EXCEPT ![s] = @ + 1]

WriterGet ==
    /\ w.at = "shmget"
    /\ segment' = Segment
    /\ w' = [w EXCEPT !.at = "semget", !.shm = Segment]
    /\ UNCHANGED <<num, sem, r>>

(* semget makes the set of two, with zeroes; SETALL comes later. *)
WriterSemGet ==
    /\ w.at = "semget"
    /\ sem' = IF HaveSem THEN sem ELSE <<0, 0>>
    /\ w' = [w EXCEPT !.at = "setall"]
    /\ UNCHANGED <<segment, num, r>>

WriterSetAll ==
    /\ w.at = "setall"
    /\ sem' = <<1, 0>>
    /\ w' = [w EXCEPT !.at = "p1"]
    /\ UNCHANGED <<segment, num, r>>

WriterP1 ==
    /\ w.at = "p1" /\ P(1)
    /\ w' = [w EXCEPT !.at = "write"]
    /\ UNCHANGED <<segment, num, r>>

WriterWrite ==
    /\ w.at = "write"
    /\ num' = [num EXCEPT ![w.shm] = w.i]
    /\ w' = [w EXCEPT !.at = "v2"]
    /\ UNCHANGED <<segment, sem, r>>

WriterV2 ==
    /\ w.at = "v2" /\ V(2)
    /\ w' = [w EXCEPT !.i = @ + 1, !.at = IF w.i = Last THEN "rmshm" ELSE "p1"]
    /\ UNCHANGED <<segment, num, r>>

(* A semaphore call on a removed set: the writer returns 1. *)
WriterFails ==
    /\ w.at \in {"p1", "v2"} /\ ~HaveSem
    /\ w' = [w EXCEPT !.at = "failed"]
    /\ UNCHANGED <<segment, num, sem, r>>

(* IPC_RMID; the writer accepts that the reader was faster (EINVAL). *)
WriterRmShm ==
    /\ w.at = "rmshm"
    /\ segment' = IF segment = w.shm THEN 0 ELSE segment
    /\ w' = [w EXCEPT !.at = "rmsem"]
    /\ UNCHANGED <<num, sem, r>>

WriterRmSem ==
    /\ w.at = "rmsem"
    /\ sem' = <<>>
    /\ w' = [w EXCEPT !.at = "done"]
    /\ UNCHANGED <<segment, num, r>>

ReaderGet ==
    /\ r.at = "shmget"
    /\ segment' = Segment
    /\ r' = [r EXCEPT !.at = "semget", !.shm = Segment]
    /\ UNCHANGED <<num, sem, w>>

(* semget of a set of no semaphores fails unless the set is there. *)
ReaderSemGet ==
    /\ r.at = "semget"
    /\ r' = [r EXCEPT !.at = IF HaveSem THEN "test" ELSE "failed"]
    /\ UNCHANGED <<segment, num, sem, w>>

(* Mutant: the reader stops one message early. *)
MutMore(n) == n < Last - 1

More(n) == n < Last

ReaderTest ==
    /\ r.at = "test"
    /\ r' = [r EXCEPT !.at = IF More(num[r.shm]) THEN "p2" ELSE "rmshm"]
    /\ UNCHANGED <<segment, num, sem, w>>

ReaderP2 ==
    /\ r.at = "p2" /\ P(2)
    /\ r' = [r EXCEPT !.at = "read"]
    /\ UNCHANGED <<segment, num, w>>

ReaderRead ==
    /\ r.at = "read"
    /\ r' = [r EXCEPT !.at = "v1", !.received = @ + 1]
    /\ UNCHANGED <<segment, num, sem, w>>

ReaderV1 ==
    /\ r.at = "v1" /\ V(1)
    /\ r' = [r EXCEPT !.at = "test"]
    /\ UNCHANGED <<segment, num, w>>

ReaderFails ==
    /\ r.at \in {"p2", "v1"} /\ ~HaveSem
    /\ r' = [r EXCEPT !.at = "failed"]
    /\ UNCHANGED <<segment, num, sem, w>>

(* The reader gives up when the writer has removed its segment before. *)
ReaderRmShm ==
    /\ r.at = "rmshm"
    /\ segment' = IF segment = r.shm THEN 0 ELSE segment
    /\ r' = [r EXCEPT !.at = IF segment = r.shm THEN "rmsem" ELSE "failed"]
    /\ UNCHANGED <<num, sem, w>>

ReaderRmSem ==
    /\ r.at = "rmsem"
    /\ sem' = <<>>
    /\ r' = [r EXCEPT !.at = IF HaveSem THEN "done" ELSE "failed"]
    /\ UNCHANGED <<segment, num, w>>

Writer ==
    \/ WriterGet \/ WriterSemGet \/ WriterSetAll \/ WriterP1 \/ WriterWrite
    \/ WriterV2 \/ WriterFails \/ WriterRmShm \/ WriterRmSem

Reader ==
    \/ ReaderGet \/ ReaderSemGet \/ ReaderTest \/ ReaderP2 \/ ReaderRead
    \/ ReaderV1 \/ ReaderFails \/ ReaderRmShm \/ ReaderRmSem

Next == Writer \/ Reader

(***************************************************************************)
(* The two processes take turns and no message before the last is lost:    *)
(* the writer never writes while the reader reads, the reader finds the    *)
(* messages 0, 1, 2, ... without a gap or a repetition, and a reader that  *)
(* leaves its loop, on a number it read out of turn, has received all but  *)
(* the last.                                                               *)
(***************************************************************************)
TakeTurns ==
    /\ ~(w.at \in {"write", "v2"} /\ r.at \in {"read", "v1"})
    /\ r.at = "read" => num[r.shm] = r.received
    /\ r.at \in {"rmshm", "rmsem", "done"} => r.received >= Last
=============================================================================
