---------------------------- MODULE SuperServer -----------------------------
(***************************************************************************)
(* The process that players connect to first (superServer.c).  It forks a  *)
(* child server for a lobby that has none, remembers its pid, and sends    *)
(* the player on to the lobby's own endpoint; a thread per child waits for *)
(* its end.  The model goes up to the moment at which the child server     *)
(* accepts the player (comFIFO.c, the makefile's default transport).       *)
(*                                                                         *)
(* An endpoint is one FIFO.  Whoever connects writes its name to it; one   *)
(* read takes all the names that are there, and only the first is used.    *)
(* The file stays when its server has gone.  Endpoint 0 is the super       *)
(* server's, endpoint j that of lobby j.                                   *)
(***************************************************************************)
EXTENDS Integers, Sequences, FiniteSets

CONSTANTS Clients,         \* the client processes; each starts once
          NoClient,        \* the founder of a child server not forked yet
          Lobbies,         \* the lobbies that players ask for, of 1 .. 10
          LastLobby,       \* MAX_LOBBY; the array servers ends before it
          ListenLocation,  \* the number in the config file
          MaxForks,        \* bound: child servers ever forked
          MaxPlayers,      \* MAX_PLAYERS
          GamesEnd         \* whether child servers come to their end

ASSUME LobbiesAssumption == LastLobby \in Nat /\ Lobbies \subseteq 1 .. LastLobby
ASSUME BoundsAssumption == MaxForks \in Nat /\ MaxPlayers \in Nat \ {0} /\ GamesEnd \in BOOLEAN
ASSUME NoClientAssumption == NoClient \notin Clients

Pids == 1 .. MaxForks
ASSUME ListenLocationAssumption == ListenLocation \in Nat \ Pids

Endpoints == {0} \cup Lobbies

VARIABLES servers,  \* servers[j]: the pid of lobby j's server, 0 for none
          child,    \* the local of main that every waiting thread gets a pointer to
          forked,   \* the pids up to this one are in use
          proc,     \* proc[p]: the state of child server p
          lobbyOf,  \* lobbyOf[p]: its lobby
          founder,  \* founder[p]: the client it was forked for
          waiter,   \* waiter[p]: the thread waitForChild that fork p created
          target,   \* target[p]: the pid that thread waits for
          made,     \* the endpoints whose FIFO exists
          knocks,   \* knocks[e]: the names written to endpoint e and not read
          phase,    \* phase[c]: where client c is
          lobby,    \* lobby[c]: the lobby it asked for
          host      \* host[c]: the child server that accepted it

procVars == <<child, forked, proc, lobbyOf, founder>>
waitVars == <<waiter, target>>
clientVars == <<phase, lobby, host>>
vars == <<servers, procVars, waitVars, made, knocks, clientVars>>

ProcStates == {"unborn", "starting", "listening", "exited", "reaped"}
Phases == {"outside", "asking", "served", "redirected", "knocking", "joined", "gone",
           "lost", "crashed"}

\* servers[MAX_LOBBY] is the next variable, listenLocation.  A lobby's FIFO may
\* exist from an earlier run: no child server removes it.
Init == /\ servers = [j \in Lobbies |-> IF j = LastLobby THEN ListenLocation ELSE 0]
        /\ child = 0
        /\ forked = 0
        /\ proc = [p \in Pids |-> "unborn"]
        /\ lobbyOf = [p \in Pids |-> 0]
        /\ founder = [p \in Pids |-> NoClient]
        /\ waiter = [p \in Pids |-> "none"]
        /\ target = [p \in Pids |-> 0]
        /\ \E old \in SUBSET Lobbies : made = {0} \cup old
        /\ knocks = [e \in Endpoints |-> <<>>]
        /\ phase = [c \in Clients |-> "outside"]
        /\ lobby = [c \in Clients |-> 0]
        /\ host = [c \in Clients |-> 0]

Named(e) == { knocks[e][n] : n \in DOMAIN knocks[e] }

\* acceptConnection on endpoint e: the first name gets to phase p, whoever else
\* has knocked since the last read is forgotten.
Accept(e, p) == /\ knocks[e] # <<>>
                /\ knocks' = [knocks EXCEPT ![e] = <<>>]
                /\ phase' = [c \in Clients |-> IF c = Head(knocks[e]) THEN p
                                               ELSE IF c \in Named(e) THEN "lost"
                                               ELSE phase[c]]
-----------------------------------------------------------------------------
\* A client connects to the super server and sends the number of a lobby.
Ask(c, j) == /\ phase[c] = "outside"
             /\ phase' = [phase EXCEPT ![c] = "asking"]
             /\ lobby' = [lobby EXCEPT ![c] = j]
             /\ knocks' = [knocks EXCEPT ![0] = Append(@, c)]
             /\ UNCHANGED <<servers, procVars, waitVars, made, host>>

\* The loop of main, for a lobby that has a server.
Redirect == /\ Accept(0, "redirected")
            /\ servers[lobby[Head(knocks[0])]] # 0
            /\ UNCHANGED <<servers, procVars, waitVars, made, lobby, host>>

\* The loop of main, for a lobby that has none: fork, remember the pid, start
\* the thread that waits, with a pointer to the local that holds the pid.
Fork == /\ Accept(0, "served")
        /\ servers[lobby[Head(knocks[0])]] = 0
        /\ forked < MaxForks
        /\ LET p == forked + 1
               j == lobby[Head(knocks[0])]
           IN  /\ forked' = p
               /\ child' = p
               /\ proc' = [proc EXCEPT ![p] = "starting"]
               /\ lobbyOf' = [lobbyOf EXCEPT ![p] = j]
               /\ founder' = [founder EXCEPT ![p] = Head(knocks[0])]
               /\ servers' = [servers EXCEPT ![j] = p]
               /\ waiter' = [waiter EXCEPT ![p] = "created"]
        /\ UNCHANGED <<target, made, lobby, host>>

\* initServer of the child: the endpoint exists; then the founder is answered.
Listen(p) == /\ proc[p] = "starting"
             /\ proc' = [proc EXCEPT ![p] = "listening"]
             /\ made' = made \cup {lobbyOf[p]}
             /\ phase' = [phase EXCEPT ![founder[p]] = "redirected"]
             /\ UNCHANGED <<servers, child, forked, lobbyOf, founder, waitVars, knocks, lobby, host>>

\* connectToPeer for the lobby's endpoint.  Without the file it returns NULL,
\* which the client dereferences.
Knock(c) == /\ phase[c] = "redirected"
            /\ IF lobby[c] \in made
               THEN /\ phase' = [phase EXCEPT ![c] = "knocking"]
                    /\ knocks' = [knocks EXCEPT ![lobby[c]] = Append(@, c)]
               ELSE /\ phase' = [phase EXCEPT ![c] = "crashed"]
                    /\ UNCHANGED knocks
            /\ UNCHANGED <<servers, procVars, waitVars, made, lobby, host>>

Guests(p) == { c \in Clients : phase[c] = "joined" /\ host[c] = p }

\* The accept thread of the child, while a slot is free.
Join(p) == /\ proc[p] = "listening"
           /\ Cardinality(Guests(p)) < MaxPlayers
           /\ Accept(lobbyOf[p], "joined")
           /\ host' = [host EXCEPT ![Head(knocks[lobbyOf[p]])] = p]
           /\ UNCHANGED <<servers, procVars, waitVars, made, lobby>>

\* Mutant of Exit: the child removes its FIFO.
ExitUnlinks(p) == /\ GamesEnd
                  /\ proc[p] = "listening"
                  /\ Cardinality(Guests(p)) > 1
                  /\ proc' = [proc EXCEPT ![p] = "exited"]
                  /\ made' = made \ {lobbyOf[p]}
                  /\ phase' = [c \in Clients |-> IF c \in Guests(p) THEN "gone" ELSE phase[c]]
                  /\ UNCHANGED <<servers, child, forked, lobbyOf, founder, waitVars, knocks, lobby, host>>

\* A game of at least two players is over; the process exits.
Exit(p) == /\ GamesEnd
           /\ proc[p] = "listening"
           /\ Cardinality(Guests(p)) > 1
           /\ proc' = [proc EXCEPT ![p] = "exited"]
           /\ phase' = [c \in Clients |-> IF c \in Guests(p) THEN "gone" ELSE phase[c]]
           /\ UNCHANGED <<servers, child, forked, lobbyOf, founder, waitVars, made, knocks, lobby, host>>
-----------------------------------------------------------------------------
\* waitForChild reads the pid it was given a pointer to ...
ReadTarget(p) == /\ waiter[p] = "created"
                 /\ waiter' = [waiter EXCEPT ![p] = "waiting"]
                 /\ target' = [target EXCEPT ![p] = child]
                 /\ UNCHANGED <<servers, procVars, made, knocks, clientVars>>

\* Mutant of Cleared: the loop stops one entry early.
ClearedShort(s) == [j \in Lobbies |-> IF servers[j] = s /\ j < LastLobby - 1 THEN 0 ELSE servers[j]]

\* The loop that looks the pid up in servers, up to its last entry.
Cleared(s) == [j \in Lobbies |-> IF servers[j] = s /\ j < LastLobby THEN 0 ELSE servers[j]]

\* Mutant of WaitReturns: waitpid does not block.
WaitReturnsEarly(p) ==
    /\ waiter[p] = "waiting"
    /\ waiter' = [waiter EXCEPT ![p] = "done"]
    /\ servers' = Cleared(target[p])
    /\ UNCHANGED <<procVars, target, made, knocks, clientVars>>

\* ... and returns from waitpid when that process is dead, or was its child no
\* longer.
WaitReturns(p) ==
    /\ waiter[p] = "waiting"
    /\ proc[target[p]] \in {"exited", "reaped"}
    /\ proc' = [proc EXCEPT ![target[p]] = "reaped"]
    /\ waiter' = [waiter EXCEPT ![p] = "done"]
    /\ servers' = Cleared(target[p])
    /\ UNCHANGED <<child, forked, lobbyOf, founder, target, made, knocks, clientVars>>

SuperStep == \/ Redirect \/ Fork
             \/ \E p \in Pids : ReadTarget(p) \/ WaitReturns(p)
ChildStep(p) == Listen(p) \/ Join(p) \/ Exit(p)

Next == \/ SuperStep
        \/ \E p \in Pids : ChildStep(p)
        \/ \E c \in Clients : Knock(c) \/ \E j \in Lobbies : Ask(c, j)

Spec == Init /\ [][Next]_vars

\* Every process and thread runs when it can, and games end; only the players
\* come as they like.
FairSpec == /\ Spec
            /\ WF_vars(Redirect \/ Fork)
            /\ \A p \in Pids : /\ WF_vars(ReadTarget(p)) /\ WF_vars(WaitReturns(p))
                               /\ WF_vars(ChildStep(p))
            /\ \A c \in Clients : WF_vars(Knock(c))
-----------------------------------------------------------------------------
TypeOK == /\ servers \in [Lobbies -> Pids \cup {0, ListenLocation}]
          /\ forked \in 0 .. MaxForks
          /\ child = forked
          /\ proc \in [Pids -> ProcStates]
          /\ lobbyOf \in [Pids -> Lobbies \cup {0}]
          /\ founder \in [Pids -> Clients \cup {NoClient}]
          /\ waiter \in [Pids -> {"none", "created", "waiting", "done"}]
          /\ target \in [Pids -> Pids \cup {0}]
          /\ made \subseteq Endpoints
          /\ knocks \in [Endpoints -> Seq(Clients)]
          /\ phase \in [Clients -> Phases]
          /\ lobby \in [Clients -> Lobbies \cup {0}]
          /\ host \in [Clients -> Pids \cup {0}]

Live(p) == proc[p] \in {"starting", "listening"}

\* No lobby ever has two servers: although a thread may wait for another child
\* than its own, and two threads for the same one, an entry of servers is not
\* cleared while the process it names is alive.
OneServerPerLobby ==
    \A p, q \in Pids : Live(p) /\ Live(q) /\ lobbyOf[p] = lobbyOf[q] => p = q

\* A lobby below the last whose server has exited can be opened again, unless
\* the server's own thread read the pid of a later child.
LobbyReopens ==
    \A p \in Pids : proc[p] = "exited" ~>
        target[p] > p \/ \A j \in Lobbies : j < LastLobby => servers[j] # p

\* A client only dies for want of an endpoint between the fork of its lobby's
\* server and the server's mkfifo; however lobbies close and open again, an
\* entry of servers that leads somewhere leads to a FIFO that exists.
CrashOnlyWhileStarting ==
    [][ \A c \in Clients : phase[c] # "crashed" /\ phase'[c] = "crashed" =>
            \/ servers[lobby[c]] \notin Pids
            \/ \E p \in Pids : lobbyOf[p] = lobby[c] /\ proc[p] = "starting" ]_vars

\* The entry that a thread leaves behind when it is done is that of a child
\* whose thread a later fork has overtaken; every other lobby below the last
\* can be opened again.
OnlyOvertakenStay ==
    \A j \in Lobbies : LET p == servers[j] IN
        j < LastLobby /\ p \in Pids /\ waiter[p] = "done" => target[p] > p
=============================================================================
