------------------------------- MODULE Client -------------------------------
(***************************************************************************)
(* The client processes of one lobby (client.c), from the connection to    *)
(* the child server to the exit: the login dialogue, the lobby screen, the *)
(* inputs of the player.  A client that waits for an answer takes whatever *)
(* message comes next for it.                                              *)
(***************************************************************************)
EXTENDS Wire

CONSTANTS UserOf,     \* UserOf[c]: the name that the player of c types
          MaxBurst,   \* messages a player sends before the server reads them
          MaxInputs,  \* bound: passwords, ENTERs and Xs that the player of c types
          Leavers     \* the clients whose player may quit

VARIABLES phase,    \* phase[c]: where client c is
          players,  \* players[c]: the lobby screen of c
          ready,    \* ready[c]: the flag ready
          inputs,   \* inputs[c]: passwords, ENTERs and Xs so far
          pending, inbox, outbox  \* see ChildServer

clientVars == <<phase, players, ready, inputs>>
vars == <<clientVars, pending, inbox, outbox>>

Phases == {"outside", "naming", "asked", "typing", "checked", "lobby", "playing",
           "gone", "crashed"}
Entry == [name : Texts \cup {Unset}, ready : BOOLEAN]

Init == /\ phase = [c \in Conns |-> "outside"]
        /\ players = [c \in Conns |-> [k \in Slots |-> Null]]
        /\ ready = [c \in Conns |-> FALSE]
        /\ inputs = [c \in Conns |-> 0]
        /\ pending = {}
        /\ inbox = [c \in Conns |-> <<>>]
        /\ outbox = [c \in Conns |-> <<>>]

Goto(c, p) == phase' = [phase EXCEPT ![c] = p]
Send(c, m) == inbox' = [inbox EXCEPT ![c] = Append(@, m)]
MaySend(c) == Len(inbox[c]) < MaxBurst
MayType(c) == /\ MaySend(c)
              /\ inputs[c] < MaxInputs[c]
              /\ inputs' = [inputs EXCEPT ![c] = @ + 1]
Incoming(c) == Head(outbox[c])
Receive(c) == outbox[c] # <<>> /\ outbox' = [outbox EXCEPT ![c] = Tail(@)]
-----------------------------------------------------------------------------
\* connectToPeer with the number that the super server answered.
Connect(c) == /\ phase[c] = "outside"
              /\ Goto(c, "naming")
              /\ pending' = pending \cup {c}
              /\ UNCHANGED <<players, ready, inputs, inbox, outbox>>

\* getInformation sends the name ...
SendName(c) == /\ phase[c] = "naming"
               /\ Goto(c, "asked")
               /\ Send(c, StringMsg(UserOf[c]))
               /\ UNCHANGED <<players, ready, inputs, pending, outbox>>

\* ... takes the next message for the answer, which only words the prompt ...
ReadNameAnswer(c) == /\ phase[c] = "asked"
                     /\ Receive(c)
                     /\ Goto(c, "typing")
                     /\ UNCHANGED <<players, ready, inputs, pending, inbox>>

\* ... sends the password ...
SendPassword(c, p) == /\ phase[c] = "typing"
                      /\ MayType(c)
                      /\ Goto(c, "checked")
                      /\ Send(c, StringMsg(p))
                      /\ UNCHANGED <<players, ready, pending, outbox>>

\* ... and asks for it again until TRUE comes.
ReadPasswordAnswer(c) == /\ phase[c] = "checked"
                         /\ Receive(c)
                         /\ Goto(c, IF Incoming(c) = BooleanMsg(TRUE) THEN "lobby" ELSE "typing")
                         /\ UNCHANGED <<players, ready, inputs, pending, inbox>>
-----------------------------------------------------------------------------
\* The slots of the screen that show the name, and the first of them, which
\* is the one that belongs and changeReady find.
Shown(c, name) == { k \in Slots : players[c][k] # Null /\ players[c][k].name = name }
FirstShown(c, name) == { k \in Shown(c, name) : \A j \in Shown(c, name) : k <= j }

\* prepareLobby: a PLAYER whose name is on the screen changes that entry's
\* ready mark, any other is put in the slot the message names.
ReadPlayer(c) ==
    /\ phase[c] = "lobby"
    /\ Receive(c)
    /\ Incoming(c).type = "PLAYER"
    /\ \/ /\ Shown(c, Incoming(c).name) = {}
          /\ players' = [players EXCEPT ![c][Incoming(c).num] =
                            [name |-> Incoming(c).name, ready |-> Incoming(c).ready]]
       \/ \E k \in FirstShown(c, Incoming(c).name) :
             players' = [players EXCEPT ![c][k].ready = Incoming(c).ready]
    /\ UNCHANGED <<phase, ready, inputs, pending, inbox>>

\* playerLeft: for a slot that the screen does not show, index is whatever the
\* stack holds: another entry goes, or the process dies.
ReadPlayerLeft(c) ==
    /\ phase[c] = "lobby"
    /\ Receive(c)
    /\ Incoming(c).type = "STRING"
    /\ LET leaving == Incoming(c).text
           shown == { k \in Slots : players[c][k] # Null }
       IN  \/ \E k \in IF leaving \in shown THEN {leaving} ELSE shown :
                 /\ players' = [players EXCEPT ![c][k] = Null]
                 /\ UNCHANGED phase
           \/ /\ leaving \notin shown
              /\ Goto(c, "crashed")
              /\ UNCHANGED players
    /\ UNCHANGED <<ready, inputs, pending, inbox>>

\* Any BOOLEAN starts the game.
ReadGameStart(c) == /\ phase[c] = "lobby"
                    /\ Receive(c)
                    /\ Incoming(c).type = "BOOLEAN"
                    /\ Goto(c, "playing")
                    /\ UNCHANGED <<players, ready, inputs, pending, inbox>>

\* ENTER when not ready, X when ready, in the thread listenToPress.
PressKey(c) == /\ phase[c] = "lobby"
               /\ MayType(c)
               /\ ready' = [ready EXCEPT ![c] = ~@]
               /\ \/ Shown(c, UserOf[c]) = {} /\ UNCHANGED players
                  \/ \E k \in FirstShown(c, UserOf[c]) :
                        players' = [players EXCEPT ![c][k].ready = ~ready[c]]
               /\ Send(c, BooleanMsg(~ready[c]))
               /\ UNCHANGED <<phase, pending, outbox>>

\* startGame of client.c: of what the model sends only a BOOLEAN matters, it
\* ends the game and with it the process.
ReadInGame(c) == /\ phase[c] = "playing"
                 /\ Receive(c)
                 /\ IF Incoming(c).type = "BOOLEAN"
                    THEN Goto(c, "gone") /\ Send(c, Bye)
                    ELSE UNCHANGED <<phase, inbox>>
                 /\ UNCHANGED <<players, ready, inputs, pending>>

\* SIGINT at any time (or X in the lobby): connHandler says goodbye and exits.
Quit(c) == /\ c \in Leavers
           /\ phase[c] \notin {"outside", "gone", "crashed"}
           /\ MaySend(c)
           /\ Goto(c, "gone")
           /\ Send(c, Bye)
           /\ UNCHANGED <<players, ready, inputs, pending, outbox>>

\* The program's own steps; the others wait for a player.
Program(c) == \/ ReadNameAnswer(c) \/ ReadPasswordAnswer(c) \/ ReadPlayer(c)
              \/ ReadPlayerLeft(c) \/ ReadGameStart(c) \/ ReadInGame(c)

Player(c) == \/ Connect(c) \/ SendName(c) \/ PressKey(c) \/ Quit(c)
             \/ \E p \in Passwords : SendPassword(c, p)

Next == \E c \in Conns : Program(c) \/ Player(c)
-----------------------------------------------------------------------------
TypeOK == /\ phase \in [Conns -> Phases]
          /\ players \in [Conns -> [Slots -> Entry \cup {Null}]]
          /\ ready \in [Conns -> BOOLEAN]
          /\ inputs \in [Conns -> Nat]
=============================================================================
