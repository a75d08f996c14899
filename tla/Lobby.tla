------------------------------- MODULE Lobby --------------------------------
(***************************************************************************)
(* A child server and its clients, from the first connection to the start  *)
(* of the game.  The FIFO transport, the makefile's default, keeps each    *)
(* direction of each connection in order and loses nothing.                *)
(***************************************************************************)
EXTENDS Wire, FiniteSets, SequencesExt

CONSTANTS NoAccount, StaleFdBits, UserOf, MaxBurst, MaxInputs, Leavers

ASSUME NoAccountAssumption == NoAccount \notin Texts
ASSUME StaleFdBitsAssumption == StaleFdBits \in BOOLEAN
ASSUME UserOfAssumption == UserOf \in [Conns -> Names]
ASSUME BoundsAssumption == MaxBurst \in Nat \ {0} /\ MaxInputs \in [Conns -> Nat]

VARIABLES clients, accounts, readBuffer, at, cur, next, startGame, freed, alive,
          phase, players, ready, inputs, pending, inbox, outbox

S == INSTANCE ChildServer
P == INSTANCE Client

serverVars == <<clients, accounts, readBuffer, at, cur, next, startGame, freed, alive>>
clientVars == <<phase, players, ready, inputs>>
vars == <<serverVars, clientVars, pending, inbox, outbox>>

Init == S!Init /\ P!Init

ServerStep == S!Next /\ UNCHANGED clientVars
ClientStep == P!Next /\ UNCHANGED serverVars

Next == ServerStep \/ ClientStep

Spec == Init /\ [][Next]_vars

\* Both threads of the server and every client process run when they can.
\* Players connect, type, press keys and quit as they like.
FairSpec == /\ Spec
            /\ WF_vars(S!Reader /\ UNCHANGED clientVars)
            /\ WF_vars(S!Accepter /\ UNCHANGED clientVars)
            /\ \A c \in Conns : WF_vars(P!Program(c) /\ UNCHANGED serverVars)
-----------------------------------------------------------------------------
\* Every variable of the server, the clients and the connections has its type.
TypeOK == S!TypeOK /\ P!TypeOK

LoggedIn == { k \in Slots : clients[k] # Null /\ clients[k].state \in {"WAITING", "READY_PLAY"} }

\* A player of the lobby has an account, and it is the account of the name that
\* this player typed: no interleaving of logins and registrations, and no
\* message of another connection, logs a client in as somebody else.
LoggedInIsOwner ==
    \A k \in LoggedIn : /\ accounts[clients[k].name] # NoAccount
                        /\ clients[k].name = UserOf[clients[k].con]

Running(c) == phase[c] \notin {"gone", "crashed"}

\* Nothing is on its way and no handler runs.
Quiet == /\ alive
         /\ at = "select"
         /\ readBuffer = <<>>
         /\ pending = {}
         /\ \A c \in Conns : Running(c) => inbox[c] = <<>> /\ outbox[c] = <<>>
         /\ \A k \in S!Seated : Running(clients[k].con)

\* Whatever the order of logins, announcements and key presses, a client's
\* screen ends up showing every other player of the lobby, in the right slot
\* and with the right ready mark.
LobbyShowsOthers ==
    Quiet => \A c \in Conns, k \in LoggedIn :
        phase[c] = "lobby" /\ clients[k].con # c =>
            players[c][k] = [name |-> clients[k].name, ready |-> clients[k].state = "READY_PLAY"]

\* The server takes a client out of the lobby only when that client has quit.
OnlyLeaversRemoved ==
    [][ \A k \in Slots : clients[k] # Null /\ clients'[k] = Null
            => phase[clients[k].con] = "gone" ]_vars

\* The table of the server as SlotTable has it: connections and no states.
TableClients == [k \in Slots |-> IF clients[k] = Null THEN Null ELSE clients[k].con]
TableGone == { c \in Conns \ pending : phase[c] # "outside" /\ \A k \in Slots : TableClients[k] # c }
Table == INSTANCE SlotTable WITH clients <- TableClients, gone <- TableGone

\* Handlers that rewrite slots while clients arrive, notices that go through the
\* table and goodbyes handed to another slot keep the promise of SlotTable: a
\* connection waits, holds exactly one slot and is gone, and no handler moves it or
\* takes its slot for another one (childServer.c:303-331, 375-388).
KeepsTable == Table!Spec

\* Between the test that all are ready and the loop that starts the game only
\* the accept thread changes the table: a player of the lobby who is not ready
\* is never drawn into the game, only a client that connects meanwhile can be.
OnlyNewcomersDragged ==
    [][ \A k \in Slots : clients[k] # Null /\ clients'[k] # Null
            /\ clients[k].state # "PLAYING" /\ clients'[k].state = "PLAYING"
            => \/ clients[k].state = "READY_PLAY"
               \/ clients[k].state = "LOGGING" /\ clients[k].expecting = "USER" ]_vars

\* A client that believes the game has begun is right.
ClientStartsWithServer ==
    \A c \in Conns : phase[c] = "playing" => startGame

\* A client that waits for the answer to its name or password gets one, unless
\* the game begins or the server dies.
LoginAnswered ==
    \A c \in Conns : phase[c] \in {"asked", "checked"}
        ~> phase[c] \notin {"asked", "checked"} \/ startGame \/ ~alive

In == { c \in Conns : phase[c] \notin {"outside", "gone", "crashed"} }

\* At least two players are in the lobby, and all of them say they are ready.
AllSayReady == Cardinality(In) > 1 /\ \A c \in In : phase[c] = "lobby" /\ ready[c]

\* When all say they are ready, and stay, the game begins.
ReadyLobbyStarts == AllSayReady ~> startGame \/ ~AllSayReady \/ ~alive

\* ... and has begun by the time nothing is under way any more, whoever made
\* the condition true and however.
ReadyLobbyHasStarted == Quiet /\ AllSayReady => startGame

Seats(c) == { k \in S!Seated : clients[k].con = c }

\* A client that quits is taken out of the table, unless its goodbye was read
\* together with an earlier message and is kept where select does not see it.
LeaverRemoved ==
    \A c \in Conns : phase[c] = "gone" ~> Seats(c) = {} \/ Contains(readBuffer, Bye) \/ ~alive
=============================================================================
