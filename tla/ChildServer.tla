---------------------------- MODULE ChildServer -----------------------------
(***************************************************************************)
(* The process that runs one lobby (childServer.c): the thread that reads  *)
(* requests, from select to the end of the handler, and the arrival of new *)
(* clients.  It writes the slots without a lock, as the accept thread does.*)
(*                                                                         *)
(* The accept thread is the abstraction SlotTable that AcceptThread is     *)
(* proved to implement: a waiting connection gets some empty slot.  Its    *)
(* slot appears in the table between two steps of a handler; a handler is  *)
(* cut only where that makes a difference.  The database is a table that   *)
(* answers at once (DbService with one caller).                            *)
(*                                                                         *)
(* readData takes every message a connection has queued, hands out the     *)
(* first and keeps the others in one global readBuffer, which the next     *)
(* call drains whatever connection it is for (comWrapper.c:7-35).          *)
(***************************************************************************)
EXTENDS Wire, FiniteSets

CONSTANTS NoAccount,   \* the absence of an account
          StaleFdBits  \* whether the fd_set that listenToClients never clears
                       \* holds a bit that makes its first select fail

VARIABLES clients,     \* clients[k]: the Client in slot k, or Null
          accounts,    \* accounts[u]: the password of u, or NoAccount
          readBuffer,  \* messages received and not yet handed out
          at,          \* where the reading thread is
          cur,         \* the slot whose request it resolves
          next,        \* the loop index of notifyExistingPlayers
          startGame,   \* the flag that ends the lobby loop
          freed,       \* history: some client has been disconnected
          alive,       \* FALSE when the process has crashed
          pending,     \* connections that wait for acceptConnection
          inbox,       \* inbox[c]: bytes from client c not yet read
          outbox       \* outbox[c]: bytes to client c not yet read

serverVars == <<clients, accounts, readBuffer, at, cur, next, startGame, freed, alive>>
vars == <<serverVars, pending, inbox, outbox>>

States == {"LOGGING", "WAITING", "READY_PLAY", "PLAYING"}
Expectations == {"USER", "NEWPASSWORD", "PASSWORD", "READY_TO_PLAY", "MOVEMENT"}
Client == [con : Conns, name : Texts \cup {Unset}, state : States, expecting : Expectations]

Seated == { k \in Slots : clients[k] # Null }
Connected(cs) == { cs[k].con : k \in { j \in Slots : cs[j] # Null } }

Init == /\ clients = [k \in Slots |-> Null]
        /\ \E old \in [Names -> Passwords \cup {NoAccount}] :
              accounts = [t \in Texts |-> IF t \in Names THEN old[t] ELSE NoAccount]
        /\ readBuffer = <<>>
        /\ at = "select"
        /\ cur = 0
        /\ next = 0
        /\ startGame = FALSE
        /\ freed = FALSE
        /\ alive = TRUE

\* sendData to every connection of a set; each has its own stream.
SendTo(cons, m) == [c \in Conns |-> IF c \in cons THEN Append(outbox[c], m) ELSE outbox[c]]
-----------------------------------------------------------------------------
\* Mutant of AcceptClient: the scan does not look whether the slot is empty.
AcceptClientAnywhere(c, k) ==
    /\ alive
    /\ c \in pending
    /\ ~freed => \A j \in Slots : j < k => clients[j] # Null
    /\ pending' = pending \ {c}
    /\ clients' = [clients EXCEPT ![k] =
                     [con |-> c, name |-> Unset, state |-> "LOGGING", expecting |-> "USER"]]
    /\ UNCHANGED <<accounts, readBuffer, at, cur, next, startGame, freed, alive, inbox, outbox>>

\* listenNewClients stores the new client; its name field stays unwritten.
AcceptClient(c, k) ==
    /\ alive
    /\ c \in pending
    /\ clients[k] = Null
    /\ ~freed => \A j \in Slots : j < k => clients[j] # Null
    /\ pending' = pending \ {c}
    /\ clients' = [clients EXCEPT ![k] =
                     [con |-> c, name |-> Unset, state |-> "LOGGING", expecting |-> "USER"]]
    /\ UNCHANGED <<accounts, readBuffer, at, cur, next, startGame, freed, alive, inbox, outbox>>

Readable(k) == clients[k] # Null /\ inbox[clients[k].con] # <<>>

\* listenToClients returns the first slot whose connection select reports; a
\* select that fails on a stale bit leaves the first client's own bit set.
ListenToClients(k) ==
    /\ alive
    /\ at = "select"
    /\ k \in Seated
    /\ \/ Readable(k) /\ \A j \in Slots : Readable(j) => k <= j
       \/ StaleFdBits /\ \A j \in Seated : k <= j
    /\ at' = "read"
    /\ cur' = k
    /\ UNCHANGED <<clients, accounts, readBuffer, next, startGame, freed, alive, pending, inbox, outbox>>

\* The message readData returns for slot cur.
Queue == IF readBuffer # <<>> THEN readBuffer ELSE inbox[clients[cur].con]
Request == Head(Queue)

\* readData; blocks while there is nothing to read.
ReadData == /\ alive
            /\ at = "read"
            /\ Queue # <<>>
            /\ readBuffer' = Tail(Queue)
            /\ inbox' = IF readBuffer # <<>> THEN inbox
                        ELSE [inbox EXCEPT ![clients[cur].con] = <<>>]
            /\ UNCHANGED pending

Me == clients[cur]

\* Mutant of Farewell: an off-by-one in the size, which a BOOLEAN has too.
FarewellShort(m) == m.type \in {"BYE", "BOOLEAN"}

\* readData returns 0 for a message of at most one byte.
Farewell(m) == m = Bye

\* resolveRequest has read a request of a client it expects this from.
Asked(expecting) == ReadData /\ ~Farewell(Request) /\ Me.expecting = expecting

\* The client logged in.
LoggedIn == [Me EXCEPT !.expecting = "READY_TO_PLAY", !.state = "WAITING"]

\* A handler that returns forgets its locals; one that goes on keeps cur.
Resolved == at' = "select" /\ cur' = 0 /\ next' = 0
GoOn(place) == at' = place /\ next' = 0 /\ UNCHANGED cur

\* Mutant of InLobby: only players who are not ready are told.
InLobbyWaiting(cs) ==
    { cs[k].con : k \in { j \in Slots : cs[j] # Null /\ cs[j].state = "WAITING" } }

\* The connections that notifyNewPlayer writes to, the player's own excepted.
InLobby(cs) == { cs[k].con : k \in { j \in Slots : cs[j] # Null /\ cs[j].state # "LOGGING" } }

\* CreatePlayerStruct and marshPlayer for a client.
Announcement(k, cl) == PlayerMsg(k, cl.name, cl.state = "READY_PLAY")

\* notifyNewPlayer(cur), the slot holding cl by then, after an answer to cur.
AnswerAndNotify(answer, cl) ==
    LET told == InLobby([clients EXCEPT ![cur] = cl]) \ {cl.con}
    IN  [c \in Conns |-> IF c = cl.con THEN Append(outbox[c], answer)
                         ELSE IF c \in told THEN Append(outbox[c], Announcement(cur, cl))
                         ELSE outbox[c]]
-----------------------------------------------------------------------------
\* validateUser
ResolveUser ==
    /\ Asked("USER")
    /\ Resolved
    /\ IF Request.type = "STRING"
       THEN LET known == accounts[Request.text] # NoAccount
            IN  /\ clients' = [clients EXCEPT
                      ![cur].name = Request.text,
                      ![cur].expecting = IF known THEN "PASSWORD" ELSE "NEWPASSWORD"]
                /\ outbox' = SendTo({Me.con}, BooleanMsg(known))
       ELSE UNCHANGED <<clients, outbox>>
    /\ UNCHANGED <<accounts, startGame, freed, alive>>

\* Mutant of ResolvePassword: a wrong password is not answered.
ResolvePasswordSilent ==
    /\ Asked("PASSWORD")
    /\ LET right == Request.type = "STRING" /\ accounts[Me.name] = Request.text
       IN  IF right
           THEN /\ clients' = [clients EXCEPT ![cur] = LoggedIn]
                /\ outbox' = AnswerAndNotify(BooleanMsg(TRUE), LoggedIn)
                /\ GoOn("announce")
           ELSE /\ Resolved
                /\ UNCHANGED <<clients, outbox>>
    /\ UNCHANGED <<accounts, startGame, freed, alive>>

\* validatePassword, then notifyNewPlayer and notifyExistingPlayers.  What is
\* not a STRING leaves the password unwritten; it is taken to match no account.
ResolvePassword ==
    /\ Asked("PASSWORD")
    /\ LET right == Request.type = "STRING" /\ accounts[Me.name] = Request.text
       IN  IF right
           THEN /\ clients' = [clients EXCEPT ![cur] = LoggedIn]
                /\ outbox' = AnswerAndNotify(BooleanMsg(TRUE), LoggedIn)
                /\ GoOn("announce")
           ELSE /\ Resolved
                /\ outbox' = SendTo({Me.con}, BooleanMsg(FALSE))
                /\ UNCHANGED clients
    /\ UNCHANGED <<accounts, startGame, freed, alive>>

\* Mutant of ResolveNewPassword: the result of createUserDB is not looked at.
ResolveNewPasswordUnchecked ==
    /\ Asked("NEWPASSWORD")
    /\ IF Request.type = "STRING"
       THEN /\ clients' = [clients EXCEPT ![cur] = LoggedIn]
            /\ outbox' = AnswerAndNotify(BooleanMsg(TRUE), LoggedIn)
            /\ GoOn("announce")
       ELSE Resolved /\ UNCHANGED <<clients, outbox>>
    /\ UNCHANGED <<accounts, startGame, freed, alive>>

\* createUserDB; whether it succeeds or not, the client is announced.
ResolveNewPassword ==
    /\ Asked("NEWPASSWORD")
    /\ IF Request.type = "STRING"
       THEN LET created == accounts[Me.name] = NoAccount
                cl == IF created THEN LoggedIn ELSE Me
            IN  /\ accounts' = IF created
                               THEN [accounts EXCEPT ![Me.name] = Request.text]
                               ELSE accounts
                /\ clients' = [clients EXCEPT ![cur] = cl]
                /\ outbox' = AnswerAndNotify(BooleanMsg(created), cl)
                /\ GoOn("announce")
       ELSE Resolved /\ UNCHANGED <<accounts, clients, outbox>>
    /\ UNCHANGED <<startGame, freed, alive>>

\* One iteration of notifyExistingPlayers: every client of the table, logged
\* in or not, is announced to cur.  Reading an unwritten name yields some text
\* or kills the process.
NotifyExistingPlayers ==
    /\ alive
    /\ at = "announce"
    /\ next \in Slots
    /\ next' = next + 1
    /\ \/ /\ outbox' = IF clients[next] # Null
                       THEN SendTo({Me.con}, Announcement(next, clients[next]))
                       ELSE outbox
          /\ UNCHANGED alive
       \/ /\ clients[next] # Null
          /\ clients[next].name = Unset
          /\ alive' = FALSE
          /\ UNCHANGED outbox
    /\ UNCHANGED <<clients, accounts, readBuffer, at, cur, startGame, freed, pending, inbox>>

NotifyDone ==
    /\ alive
    /\ at = "announce"
    /\ next = MaxPlayers
    /\ Resolved
    /\ UNCHANGED <<clients, accounts, readBuffer, startGame, freed, alive, pending, inbox, outbox>>
-----------------------------------------------------------------------------
\* Mutant of AllReady: an off-by-one in the number of players it takes.
AllReadyThree(cs) ==
    LET seated == { k \in Slots : cs[k] # Null }
    IN  /\ \A k \in seated : cs[k].state = "READY_PLAY"
        /\ Cardinality(seated) > 2

\* Mutant of AllReady: two who are ready suffice.
AllReadySome(cs) ==
    Cardinality({ k \in Slots : cs[k] # Null /\ cs[k].state = "READY_PLAY" }) > 1

\* The test of checkGameStart.
AllReady(cs) ==
    LET seated == { k \in Slots : cs[k] # Null }
    IN  /\ \A k \in seated : cs[k].state = "READY_PLAY"
        /\ \E j, k \in seated : j # k

\* Mutant of StartFlag: the lobby loop is not told.
StartFlagKept(start) == startGame

\* startGame = 1, if all are ready.
StartFlag(start) == startGame \/ start

\* The state a BOOLEAN puts the player in.
Word(flag) == IF flag THEN "READY_PLAY" ELSE "WAITING"

\* A ready player or one who takes it back; the others are told, and TRUE is
\* followed by the test of checkGameStart.
ResolveReady ==
    /\ Asked("READY_TO_PLAY")
    /\ IF Request.type = "BOOLEAN"
       THEN LET cl == [Me EXCEPT !.state = Word(Request.flag)]
                cs == [clients EXCEPT ![cur] = cl]
                start == Request.flag /\ AllReady(cs)
            IN  /\ clients' = cs
                /\ outbox' = SendTo(InLobby(cs) \ {Me.con}, Announcement(cur, cl))
                /\ startGame' = StartFlag(start)
                /\ IF start THEN GoOn("start") ELSE Resolved
       ELSE Resolved /\ UNCHANGED <<clients, outbox, startGame>>
    /\ UNCHANGED <<accounts, freed, alive>>

\* sendGameStart goes through the table again: whoever is in it now plays.
SendGameStart ==
    /\ alive
    /\ at = "start"
    /\ clients' = [k \in Slots |->
          IF clients[k] = Null THEN Null
          ELSE [clients[k] EXCEPT !.state = "PLAYING", !.expecting = "MOVEMENT"]]
    /\ outbox' = SendTo(Connected(clients), BooleanMsg(TRUE))
    /\ Resolved
    /\ UNCHANGED <<accounts, readBuffer, startGame, freed, alive, pending, inbox>>

\* In the game only a POINT does something, and to the board alone.
ResolveMovement ==
    /\ Asked("MOVEMENT")
    /\ Resolved
    /\ UNCHANGED <<clients, accounts, startGame, freed, alive, outbox>>

\* Mutant of Disconnect: the slot keeps its (freed) client.
DisconnectKeepsSlot ==
    /\ ReadData
    /\ Farewell(Request)
    /\ outbox' = SendTo(Connected(clients) \ {Me.con}, StringMsg(cur))
    /\ Resolved
    /\ alive' \in IF Me.name = Unset THEN BOOLEAN ELSE {TRUE}
    /\ UNCHANGED <<clients, accounts, startGame, freed>>

\* disconnect: everybody else in the table is told the number of the slot, the
\* client is freed, its name too, written or not.
Disconnect ==
    /\ ReadData
    /\ Farewell(Request)
    /\ outbox' = SendTo(Connected(clients) \ {Me.con}, StringMsg(cur))
    /\ clients' = [clients EXCEPT ![cur] = Null]
    /\ Resolved
    /\ alive' \in IF Me.name = Unset THEN BOOLEAN ELSE {TRUE}
    /\ freed' = TRUE
    /\ UNCHANGED <<accounts, startGame>>

\* What the reading thread does.
Reader == \/ \E k \in Slots : ListenToClients(k)
          \/ ResolveUser \/ ResolvePassword \/ ResolveNewPassword
          \/ NotifyExistingPlayers \/ NotifyDone
          \/ ResolveReady \/ SendGameStart \/ ResolveMovement \/ Disconnect

Accepter == \E c \in Conns, k \in Slots : AcceptClient(c, k)

Next == Reader \/ Accepter
-----------------------------------------------------------------------------
TypeOK == /\ clients \in [Slots -> Client \cup {Null}]
          /\ accounts \in [Texts -> Texts \cup {NoAccount}]
          /\ readBuffer \in Seq(ClientMessages)
          /\ at \in {"select", "read", "announce", "start"}
          /\ cur \in Slots
          /\ next \in 0 .. MaxPlayers
          /\ startGame \in BOOLEAN
          /\ freed \in BOOLEAN
          /\ alive \in BOOLEAN
          /\ pending \subseteq Conns
          /\ inbox \in [Conns -> Seq(ClientMessages)]
          /\ outbox \in [Conns -> Seq(ServerMessages)]
=============================================================================
