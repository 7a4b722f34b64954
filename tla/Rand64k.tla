------------------------------ MODULE Rand64k -------------------------------
(***************************************************************************)
(* TcpClient (pqnet/core/client) and the two programs of examples/rand64k: *)
(* the sender sends packages of random length, one at a time, until the    *)
(* receiver has acknowledged Total; it sends the next one a second after   *)
(* the acknowledgement.                                                    *)
(*                                                                         *)
(* Streams are sequences of 32-bit words: a package is Protocol, the       *)
(* length, and as many words of data (which are printable and never look   *)
(* like Protocol); lengths are in words.  The network hands the receiver   *)
(* any prefix of what is on the wire, an acknowledgement (one word)        *)
(* arrives whole.  The receiver's loop is a single step here, see          *)
(* TcpConnection and TcpServer.                                            *)
(***************************************************************************)
EXTENDS Integers, Sequences

CONSTANTS Total,        \* 64 KB
          DataLens      \* lengths of a package

VARIABLES at,           \* of the sender: "init", "start", "wait" (in epoll_wait), "timers",
                        \* "events", "check", "left", "done"; "killed" by SIGPIPE
          loopFlag, cnt, status, connected,
          remainSize, dataLen,
          timers,       \* pending timers
          closes,       \* calls of onClose
          mayInt,       \* whether SIGINT is still to come
          wire, input,  \* to the receiver: on the wire; received and not yet read
          got,          \* words of data the receiver has read
          peer,         \* the receiver: "up", "gone"
          acks,         \* in the sender's socket, before the end of the stream
          ready,        \* whether epoll has an event to report (edge-triggered)
          rst,          \* the connection was reset: "no", "pending", "told"
          split         \* whether a package arrived in pieces

sender == <<loopFlag, status, connected, remainSize, dataLen, timers, closes>>
receiver == <<input, got, peer, split>>
vars == <<at, cnt, mayInt, sender, wire, receiver, acks, ready, rst>>

Protocol == -1
Data == 0

Init ==
    /\ at = "init" /\ loopFlag = FALSE /\ cnt = 0 /\ mayInt = TRUE
    /\ status = "CONNECTING" /\ connected = FALSE
    /\ remainSize = Total /\ dataLen = 0 /\ timers = 0 /\ closes = 0
    /\ wire = <<>> /\ input = <<>> /\ got = 0 /\ peer = "up" /\ split = FALSE
    /\ acks = <<>> /\ ready = FALSE /\ rst = "no"

Package(len) == <<Protocol, len>> \o [i \in 1..len |-> Data]

(* The receiver may not be there; a failed connect is only logged. *)
init ==
    /\ at = "init" /\ at' = "start"
    /\ connected' \in BOOLEAN
    /\ UNCHANGED <<cnt, mayInt, loopFlag, status, remainSize, dataLen, timers, closes, wire,
                   receiver, acks, ready, rst>>

(* Writing to a socket that is not connected, or whose reset was reported, *)
(* raises SIGPIPE; the first write after the peer is gone is lost and      *)
(* answered by a reset.                                                    *)
send(len, next) ==
    IF ~connected' \/ rst = "told"
      THEN at' = "killed" /\ UNCHANGED <<wire, ready, rst>>
      ELSE /\ at' = next
           /\ wire' = IF peer = "gone" THEN wire ELSE wire \o Package(len)
           /\ ready' = (ready \/ peer = "gone")
           /\ rst' = IF peer = "gone" THEN "pending" ELSE rst

(* connectEstablished, with onConnect; loop() sets its flag, whatever a    *)
(* signal handler has done before.                                         *)
start ==
    /\ at = "start"
    /\ status' = "CONNECTED" /\ dataLen' \in DataLens /\ loopFlag' = TRUE
    /\ UNCHANGED <<cnt, mayInt, connected, remainSize, timers, closes, receiver, acks>>
    /\ send(dataLen', "check")

epoll_wait ==
    /\ at = "wait" /\ (ready \/ timers > 0)
    /\ at' = "timers" /\ ready' = FALSE
    /\ cnt' = IF ready THEN 1 ELSE 0
    /\ UNCHANGED <<mayInt, sender, wire, receiver, acks, rst>>

(* The timer of onMsgArrived sends the package. *)
runAfter ==
    /\ at = "timers" /\ timers > 0
    /\ timers' = timers - 1
    /\ UNCHANGED <<cnt, mayInt, loopFlag, status, connected, remainSize, dataLen, closes,
                   receiver, acks>>
    /\ send(dataLen, "timers")

(* A timer that is pending is not always due, but epoll_wait returns       *)
(* without an event only when one is.                                      *)
HandledTimers ==
    /\ at = "timers" /\ (timers = 0 \/ cnt # 0)
    /\ at' = IF cnt = 1 THEN "events" ELSE "check"
    /\ loopFlag' = (loopFlag /\ cnt # -1)
    /\ UNCHANGED <<cnt, mayInt, status, connected, remainSize, dataLen, timers, closes, wire,
                   receiver, acks, ready, rst>>

(* An event: the error handler fetches the error of a reset; the read      *)
(* takes the acknowledgements, or finds the end of the stream.             *)
Readable == acks # <<>>

Told == IF rst = "pending" THEN "told" ELSE rst

(* Mutant: the acknowledgement is counted twice. *)
MutRest(n) == remainSize - 2 * n

Rest(n) == remainSize - n

onMsgArrived ==
    /\ at = "events" /\ Readable
    /\ IF Rest(Head(acks)) <= 0
         THEN remainSize' = 0 /\ loopFlag' = FALSE /\ UNCHANGED <<dataLen, timers>>
         ELSE /\ remainSize' = Rest(Head(acks)) /\ dataLen' \in DataLens
              /\ timers' = timers + 1 /\ UNCHANGED loopFlag
    /\ acks' = <<>>
    /\ rst' = Told /\ at' = "check"
    /\ UNCHANGED <<cnt, mayInt, status, connected, closes, wire, receiver, ready>>

(* handleClose with onClose.  TcpClient sets no remove callback. *)
handleClose ==
    /\ at = "events" /\ ~Readable
    /\ closes' = IF status = "CONNECTED" THEN closes + 1 ELSE closes
    /\ loopFlag' = (loopFlag /\ remainSize = 0)
    /\ status' = "DISCONNECTING" /\ rst' = Told /\ at' = "check"
    /\ UNCHANGED <<cnt, mayInt, connected, remainSize, dataLen, timers, wire, receiver, acks,
                   ready>>

loop ==
    /\ at = "check" /\ at' = IF loopFlag THEN "wait" ELSE "left"
    /\ cnt' = 0
    /\ UNCHANGED <<mayInt, sender, wire, receiver, acks, ready, rst>>

(* connectDestroyed with onClose, for a connection that is still up; the   *)
(* descriptor of another one is left open.                                 *)
destroy ==
    /\ at = "left" /\ at' = "done"
    /\ IF status = "CONNECTED"
         THEN closes' = closes + 1 /\ status' = "DISCONNECTED"
         ELSE UNCHANGED <<closes, status>>
    /\ UNCHANGED <<cnt, mayInt, loopFlag, connected, remainSize, dataLen, timers, wire,
                   receiver, acks, ready, rst>>

(* The handler of SIGINT and SIGTERM.  epoll_wait returns with EINTR, but  *)
(* a signal that comes before it is called, or with an event, only sets    *)
(* the flag: it is looked at when epoll_wait returns for another reason.   *)
SIGINT_HANDLER ==
    /\ mayInt /\ at \notin {"init", "done", "killed"} /\ mayInt' = FALSE
    /\ loopFlag' = FALSE
    /\ \/ at = "wait" /\ at' = "timers" /\ cnt' = -1
       \/ UNCHANGED <<at, cnt>>
    /\ UNCHANGED <<status, connected, remainSize, dataLen, timers, closes, wire, receiver, acks,
                   ready, rst>>

Sender ==
    \/ init \/ start \/ epoll_wait \/ runAfter \/ HandledTimers
    \/ onMsgArrived \/ handleClose \/ loop \/ destroy

-----------------------------------------------------------------------------
(* What is left of words when the receiver has read a package from them. *)
Unread(words) == SubSeq(words, 3 + words[2], Len(words))

Least(a, b) == IF a < b THEN a ELSE b

(* The receiver's onMsgArrived.  It takes what is there for one package:   *)
(*  - another first word is skipped;                                       *)
(*  - without data, whatever datalen was read or is uninitialized, get     *)
(*    returns an empty string, substr throws and the program ends, perhaps *)
(*    with a reset;                                                        *)
(*  - else datalen is acknowledged, however much of it was there.          *)
Received(words) ==
    \/ /\ words[1] # Protocol
       /\ input' = Tail(words)
       /\ UNCHANGED <<got, peer, acks, ready, rst>>
    \/ /\ words[1] = Protocol /\ Len(words) <= 2
       /\ peer' = "gone" /\ input' = <<>> /\ ready' = TRUE
       /\ rst' \in {rst, "pending"}
       /\ UNCHANGED <<got, acks>>
    \/ /\ words[1] = Protocol /\ Len(words) > 2
       /\ input' = Unread(words)
       /\ got' = got + Least(words[2], Len(words) - 2)
       /\ acks' = Append(acks, words[2]) /\ ready' = TRUE
       /\ UNCHANGED <<peer, rst>>

(* The receiver's loop gets the first n words on the wire. *)
Arrives(n) ==
    /\ peer = "up" /\ n <= Len(wire)
    /\ Received(input \o SubSeq(wire, 1, n))
    /\ wire' = SubSeq(wire, n + 1, Len(wire))
    /\ split' = (split \/ n < Len(wire))
    /\ UNCHANGED <<at, cnt, mayInt, sender>>

(* The receiver's program ends, in good order or with a reset. *)
PeerQuits ==
    /\ peer = "up" /\ at # "init" /\ peer' = "gone" /\ ready' = TRUE
    /\ rst' \in {rst, "pending"}
    /\ UNCHANGED <<at, cnt, mayInt, sender, wire, input, got, acks, split>>

Receiver == \E n \in 1..Len(wire) : Arrives(n)

Next == Sender \/ SIGINT_HANDLER \/ Receiver \/ PeerQuits

-----------------------------------------------------------------------------
(* Messages and timers that will make the sender or the receiver go on. *)
InTurn == {x \in {"package", "ack", "timer"} :
             CASE x = "package" -> wire # <<>>
               [] x = "ack"     -> Readable
               [] x = "timer"   -> timers > 0}

(***************************************************************************)
(* A sender that is done has been told of the close once, whoever closed;  *)
(* it has closed the descriptor unless it saw the peer close first.  There *)
(* is one acknowledgement for it at a time, so that taking one 32-bit word *)
(* per message is enough.  As long as packages arrive whole there is one   *)
(* thing in turn at a time, and what the sender counts as received the     *)
(* receiver has got.                                                       *)
(***************************************************************************)
Accounted ==
    /\ closes <= 1 /\ Len(acks) <= 1
    /\ at = "done" => closes = 1 /\ (status = "DISCONNECTED" \/ peer # "up")
    /\ ~split =>
         /\ \A x, y \in InTurn : x = y
         /\ Total - remainSize <= got
         /\ at \in {"wait", "timers"} /\ loopFlag /\ peer = "up" => InTurn # {}

(* The sender is through: everything was acknowledged, a signal ended it,  *)
(* or the receiver has gone; only a split package may leave it waiting.    *)
Through == at \in {"done", "killed"} \/ split
=============================================================================
