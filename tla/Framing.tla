------------------------------ MODULE Framing -------------------------------
(***************************************************************************)
(* The streams between a child server and its clients, and the reading of  *)
(* messages from them: write, read and hang-up as comFIFO.c and            *)
(* comSocket.c use them, readData and split of comWrapper.c.               *)
(*                                                                         *)
(* A stream is the sequence of messages written to it, each with the       *)
(* position of its last byte, the terminator.  A read takes the bytes that *)
(* are there, BufferSize at most; split keeps what ends in a terminator    *)
(* and drops the rest, so that the next piece is the tail of a message.    *)
(* What a read returned waits in the one readBuffer of the process, which  *)
(* is emptied before anything is read again, whatever connection is asked. *)
(***************************************************************************)
EXTENDS Integers, Sequences

CONSTANTS Conns,       \* the connections, each in one direction
          Readers,     \* the processes that read
          ReaderOf,    \* ReaderOf[c]: the process at the end of c
          Messages,
          Size,        \* Size[m]: the bytes of m, with its terminator
          BufferSize,  \* BUFFER_SIZE
          PipeSize,    \* what a stream holds before a write blocks
          ShortReads   \* bound: how few bytes recv may return

ASSUME StreamsAssumption == ReaderOf \in [Conns -> Readers]
ASSUME SizesAssumption == /\ Size \in [Messages -> Nat \ {0}]
                          /\ BufferSize \in Nat \ {0}
                          /\ PipeSize \in Nat
                          /\ ShortReads \subseteq Nat \ {0}

VARIABLES transport,   \* which of the makefile's two transports is built in
          sent,        \* sent[c]: the messages written, each with its end
          got,         \* got[c]: the bytes read
          readBuffer,  \* readBuffer[r]: the pieces that process r has not used
          taken,       \* history: the last message of c that was handed out
          behind       \* history: whether a read left bytes in c

streamVars == <<transport, sent, got, readBuffer, taken, behind>>

Init == /\ transport \in {"fifo", "socket"}
        /\ sent = [c \in Conns |-> <<>>]
        /\ got = [c \in Conns |-> 0]
        /\ readBuffer = [r \in Readers |-> <<>>]
        /\ taken = [c \in Conns |-> 0]
        /\ behind = [c \in Conns |-> FALSE]

\* The end of the i-th message of c, and of all of them.
End(c, i) == IF i = 0 THEN 0 ELSE sent[c][i].end
Written(c) == End(c, Len(sent[c]))
Waiting(c) == Written(c) - got[c]
Room(c, m) == Waiting(c) + Size[m] <= PipeSize

\* sendData: blocks while there is no room.
Send(c, m) ==
    /\ Room(c, m)
    /\ sent' = [sent EXCEPT ![c] = Append(@, [msg |-> m, end |-> Written(c) + Size[m]])]
    /\ UNCHANGED <<transport, got, readBuffer, taken, behind>>
-----------------------------------------------------------------------------
Most(c) == IF Waiting(c) < BufferSize THEN Waiting(c) ELSE BufferSize

\* receiveData: read on a FIFO takes all it can, recv may take less.  Both block
\* while there is nothing.
ReadSizes(c) == { n \in {Most(c)} \cup ShortReads :
                      0 < n /\ n <= Most(c) /\ (n = Most(c) \/ transport = "socket") }

\* The last message of c that ends within the first bytes of the stream.
LastEnded(c, upto) ==
    CHOOSE i \in 0 .. Len(sent[c]) : /\ End(c, i) <= upto
                                     /\ \A j \in i + 1 .. Len(sent[c]) : End(c, j) > upto

\* split: a piece for each terminator among the next n bytes.  The first lacks
\* its beginning if the read before ended inside the message.
Pieces(c, n) ==
    LET first == LastEnded(c, got[c])
    IN  [k \in 1 .. LastEnded(c, got[c] + n) - first |->
            [conn |-> c, msg |-> first + k, whole |-> End(c, first + k - 1) >= got[c]]]

\* The pieces from which readData(c) takes the next, n bytes read if need be.
Queue(c, n) == IF readBuffer[ReaderOf[c]] # <<>> THEN readBuffer[ReaderOf[c]] ELSE Pieces(c, n)

\* The calls of receiveData that readData(c) makes: none, or one.
Reading(c, n) ==
    IF readBuffer[ReaderOf[c]] # <<>>
    THEN n = 0 /\ UNCHANGED <<got, behind>>
    ELSE /\ n \in ReadSizes(c)
         /\ got' = [got EXCEPT ![c] = @ + n]
         /\ behind' = [behind EXCEPT ![c] = @ \/ n < Waiting(c)]

\* Mutant of ReadData: the last piece stays in the buffer.
ReadDataKeeps(c, n, queue) ==
    /\ Reading(c, n)
    /\ queue = Queue(c, n)
    /\ queue # <<>>
    /\ readBuffer' = [readBuffer EXCEPT ![ReaderOf[c]] = IF Len(queue) = 1 THEN queue ELSE Tail(queue)]
    /\ taken' = [taken EXCEPT ![Head(queue).conn] = Head(queue).msg]
    /\ UNCHANGED <<transport, sent>>

\* readData(c) hands out the first piece of queue.
ReadData(c, n, queue) ==
    /\ Reading(c, n)
    /\ queue = Queue(c, n)
    /\ queue # <<>>
    /\ readBuffer' = [readBuffer EXCEPT ![ReaderOf[c]] = Tail(queue)]
    /\ taken' = [taken EXCEPT ![Head(queue).conn] = Head(queue).msg]
    /\ UNCHANGED <<transport, sent>>

\* No terminator among the bytes, or no byte from a peer that has hung up:
\* split returns a NULL array, which readData dereferences.  The caller has to
\* see that the process is no more.
ReadNothing(c, n) ==
    /\ readBuffer[ReaderOf[c]] = <<>>
    /\ \/ Reading(c, n) /\ Pieces(c, n) = <<>>
       \/ n = 0 /\ transport = "socket" /\ Waiting(c) = 0 /\ UNCHANGED <<got, behind>>
    /\ UNCHANGED <<transport, sent, readBuffer, taken>>

Next == \E c \in Conns : \/ \E m \in Messages : Send(c, m)
                         \/ \E n \in 0 .. BufferSize : ReadData(c, n, Queue(c, n)) \/ ReadNothing(c, n)

Spec == Init /\ [][Next]_streamVars
-----------------------------------------------------------------------------
Piece == [conn : Conns, msg : Nat, whole : BOOLEAN]

TypeOK == /\ transport \in {"fifo", "socket"}
          /\ sent \in [Conns -> Seq([msg : Messages, end : Nat])]
          /\ got \in [Conns -> Nat]
          /\ readBuffer \in [Readers -> Seq(Piece)]
          /\ taken \in [Conns -> Nat]
          /\ behind \in [Conns -> BOOLEAN]

\* The pieces of c that wait to be handed out.
Rest(c) == LET rest == readBuffer[ReaderOf[c]]
           IN  IF rest # <<>> /\ rest[1].conn = c THEN rest ELSE <<>>

\* As long as every read emptied a stream, each message that was taken from it
\* is handed out once, whole and in the order it was sent, and none is lost:
\* messages are dropped, cut or run together (comWrapper.c:40-57) only by a
\* reader that has fallen behind by more than BUFFER_SIZE, or by a short recv.
WholeUnlessBehind ==
    \A c \in Conns : ~behind[c] =>
        /\ \A k \in DOMAIN Rest(c) : Rest(c)[k].whole /\ Rest(c)[k].msg = taken[c] + k
        /\ got[c] = End(c, taken[c] + Len(Rest(c)))
=============================================================================
