------------------------------ MODULE GameLink ------------------------------
(***************************************************************************)
(* A child server and its clients over the streams of Framing, from the    *)
(* last announcements of the lobby to the result of the game.  The main    *)
(* thread of the server writes to everybody in turn and blocks on a stream *)
(* that is full; its mover thread reads what the clients send.  A client   *)
(* reads in one thread, and sends its player's turns from another.         *)
(*                                                                         *)
(* What the messages do to the lobby and to the board is in ChildServer,   *)
(* Client and GameRound; here it is which messages arrive, and as what.    *)
(***************************************************************************)
EXTENDS Framing, Marshalling

CONSTANTS Slots,      \* the numbers of the clients, from 0
          Nobody,     \* no slot
          Letters,    \* the characters of names
          Announced,  \* the PLAYERs that every client is told of in the lobby
          Boards,     \* the boards of a game, one for each turn
          MaxPoints,  \* bound: MaxPoints[k] turns of player k are sent
          Winners,    \* bound: the players that may win, or Nobody
          Quitters    \* bound: the players that may press Ctrl-C during the game

Down(k) == <<"down", k>>
Up(k) == <<"up", k>>
Client(k) == <<"client", k>>
Server == <<"server", Nobody>>

\* A message, and the struct it was made from: a STRING is the number of the
\* player that left.
Message(type, of) == [type |-> type, of |-> of]
Bye == Message("BYE", 0)
LinkMessages ==
    { Message("PLAYER", i) : i \in DOMAIN Announced } \cup { Message("BOOLEAN", b) : b \in {0, 1} }
        \cup { Message("BOARD", t) : t \in DOMAIN Boards } \cup { Message("STRING", k) : k \in Slots }
        \cup {Message("POINT", 0), Bye}
Struct(m) == CASE m.type = "PLAYER" -> Announced[m.of]
               [] m.type = "BOARD"  -> Boards[m.of]
               [] m.type = "POINT"  -> [x |-> -1, y |-> 0]
               [] m.type = "STRING" -> Digits[m.of]
               [] m.type = "BOOLEAN" -> m.of
Data == [m \in LinkMessages |-> IF m = Bye THEN <<>> ELSE marshalling(Struct(m), m.type)]
Read == [m \in LinkMessages \ {Bye} |-> unmarshalling(Data[m])]
Fields == [i \in DOMAIN Announced |-> PlayerFields(Data[Message("PLAYER", i)])]

ASSUME LinkAssumption ==
    /\ IsFiniteSet(Slots) /\ Slots = 0 .. Cardinality(Slots) - 1 /\ Nobody \notin Slots
    /\ DOMAIN Announced = 1 .. Len(Announced) /\ Len(Announced) \in Nat
    /\ DOMAIN Boards = 1 .. Len(Boards) /\ Len(Boards) \in Nat
    /\ Conns = { Down(k) : k \in Slots } \cup { Up(k) : k \in Slots }
    /\ Readers = { Client(k) : k \in Slots } \cup {Server}
    /\ \A k \in Slots : ReaderOf[Down(k)] = Client(k) /\ ReaderOf[Up(k)] = Server
    /\ Messages = LinkMessages
    /\ Size = [m \in LinkMessages |-> Len(Data[m]) + 1]
    /\ MaxPoints \in [Slots -> Nat]
    /\ Winners \subseteq Slots \cup {Nobody} /\ Quitters \subseteq Slots

\* No number is negative: a score comes through loadInt, which has no digits for
\* one below zero (db.c:182-198).  A board is a square of digits (childServer.c:106-114).
ASSUME StructsAssumption ==
    /\ \A i \in DOMAIN Announced :
          Announced[i] \in [name : Seq(Letters), num : Nat, score : Nat, ready : {0, 1}]
    /\ \A t \in DOMAIN Boards : \E n \in {Boards[t].rows} :
          /\ n \in Nat \ {0}
          /\ Boards[t] \in [rows : {n}, columns : {n}, board : [0 .. n - 1 -> [0 .. n - 1 -> 0 .. 9]]]

VARIABLES seated,   \* the slots whose client is not NULL
          stage,    \* where the server's main thread is
          tick,     \* the boards that have been sent
          todo,     \* the writes main has before it: to whom, what
          writing,  \* whether main is inside the first of them
          leaver,   \* the slot that the mover disconnects
          notices,  \* the slots that the mover has still to tell of it
          foreign,  \* history: whether a message was taken for another slot's request
          burst,    \* history: whether a read of the server took several messages
          phase,    \* phase[k]: where client k is
          buffers,  \* buffers[k]: what unmarshPlayer's locals hold
          players,  \* players[k]: the PLAYERs it has read in the lobby
          shown     \* shown[k]: the board on its screen during the game, 0 for none

mainVars == <<stage, tick, todo, writing>>
moverVars == <<seated, leaver, notices, foreign, burst>>
clientVars == <<phase, buffers, players, shown>>
vars == <<streamVars, mainVars, moverVars, clientVars>>

\* The stream that some writes leave: the messages, each with its end.
Ends(messages) ==
    LET end[n \in 0 .. Len(messages)] == IF n = 0 THEN 0 ELSE end[n - 1] + Size[messages[n]]
    IN  end
Stream(messages) == [n \in DOMAIN messages |-> [msg |-> messages[n], end |-> Ends(messages)[n]]]

\* Mutant of Opening: the lobby sends the start of the game twice.
OpeningTwice == [i \in DOMAIN Announced |-> Message("PLAYER", i)]
                    \o << Message("BOOLEAN", 1), Message("BOOLEAN", 1) >>

\* The last announcements to each client, and sendGameStart.
Opening == [i \in DOMAIN Announced |-> Message("PLAYER", i)] \o << Message("BOOLEAN", 1) >>

\* initGame begins, and no client has read the last messages of the lobby.
LinkInit ==
    /\ transport \in {"fifo", "socket"}
    /\ sent = [c \in Conns |-> IF ReaderOf[c] = Server THEN <<>> ELSE Stream(Opening)]
    /\ got = [c \in Conns |-> 0]
    /\ readBuffer = [r \in Readers |-> <<>>]
    /\ taken = [c \in Conns |-> 0]
    /\ behind = [c \in Conns |-> FALSE]
    /\ seated = Slots
    /\ stage = "game"
    /\ tick = 0
    /\ todo = <<>>
    /\ writing = FALSE
    /\ leaver = Nobody
    /\ notices = {}
    /\ foreign = FALSE
    /\ burst = FALSE
    /\ phase = [k \in Slots |-> "lobby"]
    /\ buffers = [k \in Slots |-> Blank]
    /\ players = [k \in Slots |-> <<>>]
    /\ shown = [k \in Slots |-> 0]
-----------------------------------------------------------------------------
(* The main thread of the server.                                          *)

\* Mutant of HungUp: a FIFO whose reader has gone is an error, too (open with
\* O_WRONLY instead of O_RDWR).
HungUpFifo(k) == phase[k] \in {"quit", "gone", "dead"}

\* The peer has closed the connection.  FIFOs are open at both ends in both
\* processes, and do not notice.
HungUp(k) == transport = "socket" /\ phase[k] \in {"quit", "gone", "dead"}

Alive == stage \in {"game", "over"}

\* A loop over clients[] passes over an empty slot, and blocks in sendData when
\* the stream of another is full.
NextSlot == /\ Alive
            /\ todo # <<>>
            /\ ~writing
            /\ \/ Head(todo).to \notin seated /\ todo' = Tail(todo) /\ UNCHANGED writing
               \/ /\ Head(todo).to \in seated
                  /\ ~Room(Down(Head(todo).to), Head(todo).msg)
                  /\ writing' = TRUE
                  /\ UNCHANGED todo
            /\ UNCHANGED <<streamVars, stage, tick, moverVars, clientVars>>

\* sendData: a socket whose peer has gone may fail, and the process exits.
Write == /\ Alive
         /\ todo # <<>>
         /\ writing \/ Head(todo).to \in seated
         /\ \/ /\ Send(Down(Head(todo).to), Head(todo).msg)
               /\ todo' = Tail(todo)
               /\ writing' = FALSE
               /\ UNCHANGED stage
            \/ /\ HungUp(Head(todo).to)
               /\ stage' = "failed"
               /\ UNCHANGED <<streamVars, todo, writing>>
         /\ UNCHANGED <<tick, moverVars, clientVars>>

\* The writes of m to every slot in turn.
ToAll(m) == [n \in 1 .. Cardinality(Slots) |-> [to |-> n - 1, msg |-> m]]

\* A turn of initGame: half a second later the board goes to everybody.
Update == /\ stage = "game"
          /\ todo = <<>>
          /\ tick < Len(Boards)
          /\ tick' = tick + 1
          /\ todo' = ToAll(Message("BOARD", tick'))
          /\ UNCHANGED <<streamVars, stage, writing, moverVars, clientVars>>

\* Mutant of Results: only the winner is told.
ResultsOfWinner(winner) ==
    IF winner = Nobody THEN <<>> ELSE << [to |-> winner, msg |-> Message("BOOLEAN", 1)] >>

\* TRUE to the player whose snake is left, FALSE to the others.
Results(winner) ==
    [n \in 1 .. Cardinality(Slots) |->
        [to |-> n - 1, msg |-> Message("BOOLEAN", IF n - 1 = winner THEN 1 ELSE 0)]]

\* isgameOver after a turn.
GameOver == /\ stage = "game"
            /\ tick > 0
            /\ todo = <<>>
            /\ stage' = "over"
            /\ \E winner \in Winners : todo' = Results(winner)
            /\ UNCHANGED <<streamVars, tick, writing, moverVars, clientVars>>

\* initGame and lobby return, and with them main.
Exit == /\ stage = "over"
        /\ todo = <<>>
        /\ stage' = "exited"
        /\ UNCHANGED <<streamVars, tick, todo, writing, moverVars, clientVars>>
-----------------------------------------------------------------------------
(* The mover thread of the server, which initGame starts.                  *)

Readable(k) == k \in seated /\ (Waiting(Up(k)) > 0 \/ HungUp(k))

\* listenToClients has chosen slot k, the lowest that select reports.
Chosen(k) == /\ Alive
             /\ leaver = Nobody
             /\ Readable(k)
             /\ \A j \in Slots : Readable(j) => k <= j

MsgOf(piece) == sent[piece.conn][piece.msg].msg

\* readData and resolveRequest for slot k.  A piece of at most one character is
\* a goodbye; a POINT turns the snake of the slot.  What is left of a POINT that
\* was cut may be short enough, too.
Serve(k, n) ==
    /\ Chosen(k)
    /\ \E queue \in {Queue(Up(k), n)} :
          /\ ReadData(Up(k), n, queue)
          /\ leaver' \in IF ~Head(queue).whole THEN {k, Nobody}
                         ELSE IF MsgOf(Head(queue)) = Bye THEN {k} ELSE {Nobody}
          /\ foreign' = (foreign \/ Head(queue).conn # Up(k))
          /\ burst' = (burst \/ Len(queue) > 1)
    /\ notices' = IF leaver' = k THEN seated \ {k} ELSE {}
    /\ UNCHANGED <<seated, mainVars, clientVars>>

\* The read of a connection that was closed, or of half a message, kills the
\* process.
ServeNothing(k, n) ==
    /\ Chosen(k)
    /\ ReadNothing(Up(k), n)
    /\ n = 0 => HungUp(k)
    /\ stage' = "failed"
    /\ UNCHANGED <<tick, todo, writing, moverVars, clientVars>>

\* disconnect tells the others, lowest first ...
Notify(k) ==
    /\ Alive
    /\ k \in notices
    /\ \A j \in notices : k <= j
    /\ \/ /\ Send(Down(k), Message("STRING", leaver))
          /\ notices' = notices \ {k}
          /\ UNCHANGED stage
       \/ /\ HungUp(k)
          /\ stage' = "failed"
          /\ UNCHANGED <<streamVars, notices>>
    /\ UNCHANGED <<seated, tick, todo, writing, leaver, foreign, burst, clientVars>>

\* ... and then clears the slot.
Free == /\ Alive
        /\ leaver # Nobody
        /\ notices = {}
        /\ seated' = seated \ {leaver}
        /\ leaver' = Nobody
        /\ UNCHANGED <<streamVars, mainVars, notices, foreign, burst, clientVars>>
-----------------------------------------------------------------------------
(* The clients.                                                            *)

\* The phase a BOOLEAN leads to, in prepareLobby and in startGame.
Told(k, value) == IF phase[k] = "lobby" THEN "playing" ELSE IF value = 1 THEN "won" ELSE "lost"

\* A PLAYER.  The locals of unmarshPlayer still hold what the call before left,
\* or have been overwritten since.
ReadPlayer(k, i) ==
    \E old \in {Blank, buffers[k]} : \E b \in {PlayerBuffers(Fields[i], old)} :
        /\ players' = [players EXCEPT ![k] = Append(@, unmarshPlayer(b))]
        /\ buffers' = [buffers EXCEPT ![k] = b]
        /\ UNCHANGED <<phase, shown>>

\* Client k goes to another phase.  What it had on its screen or on its stack
\* does not matter any more.
Enter(k, next) ==
    /\ phase' = [phase EXCEPT ![k] = next]
    /\ IF next = phase[k] THEN UNCHANGED <<buffers, players, shown>>
       ELSE /\ buffers' = [buffers EXCEPT ![k] = Blank]
            /\ players' = [players EXCEPT ![k] = <<>>]
            /\ shown' = [shown EXCEPT ![k] = 0]

\* What a round of prepareLobby or startGame does with a whole message.
Understand(k, m) ==
    \/ m.type = "PLAYER" /\ phase[k] = "lobby" /\ ReadPlayer(k, m.of)
    \/ m.type = "BOOLEAN" /\ Enter(k, Told(k, Read[m]))
    \/ /\ m.type = "BOARD" /\ phase[k] = "playing"
       /\ shown' = [shown EXCEPT ![k] = m.of]
       /\ UNCHANGED <<phase, buffers, players>>
    \/ /\ \/ m.type = "STRING"
          \/ m.type = "PLAYER" /\ phase[k] = "playing"
          \/ m.type = "BOARD" /\ phase[k] = "lobby"
       /\ UNCHANGED <<phase, buffers, players, shown>>

\* The tail of a message begins with any character: it is ignored, taken for a
\* BOOLEAN, or kills the process (printBoard of NULL, a field without an end).
Misunderstand(k) == \E p \in {phase[k], "dead", Told(k, 0), Told(k, 1)} : Enter(k, p)

Listening(k) == phase[k] \in {"lobby", "playing"}

Receive(k, n) ==
    /\ Listening(k)
    /\ \E queue \in {Queue(Down(k), n)} :
          /\ ReadData(Down(k), n, queue)
          /\ IF Head(queue).whole THEN Understand(k, MsgOf(Head(queue))) ELSE Misunderstand(k)
    /\ UNCHANGED <<mainVars, moverVars>>

\* A read without a terminator or, after the server has gone, of a closed socket.
ReceiveNothing(k, n) ==
    /\ Listening(k)
    /\ n = 0 => ~Alive
    /\ ReadNothing(Down(k), n)
    /\ Enter(k, "dead")
    /\ UNCHANGED <<mainVars, moverVars>>

\* An arrow key in the thread of listenToPress.
Press(k) ==
    /\ phase[k] = "playing"
    /\ Len(sent[Up(k)]) < MaxPoints[k]
    /\ \/ Send(Up(k), Message("POINT", 0)) /\ UNCHANGED clientVars
       \/ ~Alive /\ transport = "socket" /\ Enter(k, "dead") /\ UNCHANGED streamVars
    /\ UNCHANGED <<mainVars, moverVars>>

\* connHandler, after the game or at Ctrl-C: closeConn writes one byte to a
\* FIFO and just closes a socket.
Leave(k) ==
    /\ \/ phase[k] \in {"won", "lost"} /\ Enter(k, "gone")
       \/ k \in Quitters /\ phase[k] = "playing" /\ Enter(k, "quit")
    /\ IF transport = "fifo" THEN Send(Up(k), Bye) ELSE UNCHANGED streamVars
    /\ UNCHANGED <<mainVars, moverVars>>
-----------------------------------------------------------------------------
Main == NextSlot \/ Write \/ Update \/ GameOver \/ Exit
Mover == \/ Free
         \/ \E k \in Slots : \/ Notify(k)
                             \/ \E n \in {0} \cup ReadSizes(Up(k)) : Serve(k, n) \/ ServeNothing(k, n)
Reader(k) == \E n \in {0} \cup ReadSizes(Down(k)) : Receive(k, n) \/ ReceiveNothing(k, n)

LinkNext == \/ Main \/ Mover
            \/ \E k \in Slots : Reader(k) \/ Press(k) \/ Leave(k)

LinkSpec == LinkInit /\ [][LinkNext]_vars

\* The kernel runs every thread that can run; players do as they like, and
\* nothing makes a client keep pace.
FairLinkSpec == /\ LinkSpec
                /\ WF_vars(Main) /\ WF_vars(Mover)
                /\ \A k \in Slots : WF_vars(Reader(k))
-----------------------------------------------------------------------------
\* The clients that read every stream to its end so far.
Keeping(k) == ~behind[Down(k)]

\* A client that has kept pace ends its game only with the server: it has a
\* result only once the server has declared the game over, and dies only after
\* the server has gone, on sockets (client.c:92-104).  The BOOLEAN that starts a
\* game and the one that ends it differ in nothing but their place.
EndsWithServer ==
    \A k \in Slots : Keeping(k) =>
        /\ phase[k] \in {"won", "lost"} => stage \in {"over", "exited", "failed"}
        /\ phase[k] = "dead" => transport = "socket" /\ ~Alive

\* On FIFOs nothing that clients do ends the server; on sockets it takes a client
\* that has gone, or a message that came in two parts (comSocket.c:108-132, where
\* closeConn sends no goodbye).
OnlyHangUpKills ==
    stage = "failed" => /\ transport = "socket"
                        /\ \E k \in Slots : phase[k] \in {"quit", "gone", "dead"} \/ behind[Up(k)]

\* A request is executed for the client that wrote it, as long as no client has
\* sent two messages before one read: the buffer of readData is one for all
\* connections (comWrapper.c:7-30).
RequestIsOwn == foreign => burst

\* a fits into what b occupies in the buffers.
FitsOver(a, b) == /\ Len(a.name) >= Len(b.name)
                  /\ Len(Digits[a.score]) >= Len(Digits[b.score])
                  /\ Len(Digits[a.num]) >= Len(Digits[b.num])

\* A client that has kept pace reads a PLAYER as it was announced, unless an
\* earlier one was longer in a field, whose end it then sees, or there is a
\* separator in a name so far, which moves the fields (marshalling.c:83-100); and
\* the boards on its screen are those that were sent (180-243).
ReadAsSent ==
    \A k \in Slots : Keeping(k) =>
        /\ \A i \in DOMAIN players[k] :
              (/\ \A j \in 1 .. i : Sep \notin Range(Announced[j].name)
               /\ \A j \in 1 .. i - 1 : FitsOver(Announced[i], Announced[j]))
                  => players[k][i] = Announced[i]
        /\ shown[k] # 0 => Read[Message("BOARD", shown[k])] = Boards[shown[k]]

\* On FIFOs every client is told the result if all of them read, keep pace and
\* stay until then.  Each of the conditions is needed: the writes of the main
\* thread wait for the slowest reader (comFIFO.c:148-150, childServer.c:116-120).
AllAreTold ==
    \A k \in Slots :
        (/\ transport = "fifo"
         /\ [](\A j \in Slots : Keeping(j) /\ phase[j] # "quit"))
            => <>(phase[k] \in {"won", "lost"})
=============================================================================
