----------------------------- MODULE GameRound ------------------------------
(***************************************************************************)
(* A game in a child server, from sendGameStart to the exit of the process *)
(* (childServer.c:37-130, game.c).  Three threads share the table of       *)
(* clients and the board without a lock:                                   *)
(*   - main draws the board and moves the snakes (initGame),               *)
(*   - the mover resolves what clients send (listenToMovement),            *)
(*   - the accept thread, which never stops, seats new clients.            *)
(* A step of main is a line that reads or writes what another thread       *)
(* writes or reads; the mover's steps are the two assignments of           *)
(* updateMovementDirection and the two halves of disconnect.               *)
(*                                                                         *)
(* alive becomes FALSE when the process dies or does something whose       *)
(* outcome the memory layout leaves open; the model does not go on then.   *)
(***************************************************************************)
EXTENDS GameBoard, FiniteSets

CONSTANTS Lineups,   \* the sets of slots whose players may start a game
          MaxTurns,  \* bound: direction changes of all players together
          Leavers,   \* the slots whose client may quit during the game
          MaxJoins   \* bound: clients that connect during the game

ASSUME LineupsAssumption ==
    \A l \in Lineups : l \subseteq Slots /\ \E j, k \in l : j # k
ASSUME BoundsAssumption == MaxTurns \in Nat /\ MaxJoins \in Nat

VARIABLES clients,  \* clients[k]: the state of the client in slot k, or "none"
          starters, \* history: the slots whose client was drawn into the game
          tails,    \* the bytes of bB and gB that hold TAIL_CHAR
          pos,      \* pPos: the heads
          dir,      \* pDir: the directions
          pDef,     \* -1: no snake, 0: it moves, anything else: it stands still
          wild,     \* the snakes whose pDir pointer has been overwritten
          at, i,    \* where main is, and the index of its loop
          verdict,  \* main's local: whether client i has won
          result,   \* history: what the client in slot k was told at the end
          mover,    \* what the mover is in the middle of
          turns, joins,  \* counters for the bounds
          alive

boardVars == <<tails, pos, dir, pDef, wild>>
mainVars == <<at, i, verdict, result>>
vars == <<clients, starters, boardVars, mainVars, mover, turns, joins, alive>>

ClientStates == {"LOGGING", "WAITING", "PLAYING", "LOOSE"}
Places == {"start", "load", "sleep", "check", "mark", "stepX", "stepY", "send", "judge",
           "award", "tell", "done"}
Idle == [op |-> "idle"]

Seated == { k \in Slots : clients[k] # "none" }
Losers == { k \in Seated : clients[k] = "LOOSE" }

\* The slot whose client disconnect has freed and not yet cleared.
Freed(k) == mover.op = "leave" /\ mover.k = k

Init == /\ \E l \in Lineups : /\ clients = [k \in Slots |-> IF k \in l THEN "PLAYING" ELSE "none"]
                              /\ starters = l
        /\ tails = {}
        /\ pos = [k \in Slots |-> Pt(0, 0)]
        /\ dir = [k \in Slots |-> Pt(0, 0)]
        /\ pDef = [k \in Slots |-> -1]
        /\ wild = {}
        /\ at = "start"
        /\ i = 0
        /\ verdict = FALSE
        /\ result = [k \in Slots |-> "none"]
        /\ mover = Idle
        /\ turns = 0
        /\ joins = 0
        /\ alive = TRUE

Main(place) == alive /\ at = place
Goto(place) == at' = place /\ i' = 0 /\ UNCHANGED verdict
GoOn(place) == at' = place /\ UNCHANGED <<i, verdict>>

\* The next iteration of main's loop over the slots, or what follows the loop.
Loop(place, after) == /\ IF i < 3 THEN at' = place /\ i' = i + 1 ELSE at' = after /\ i' = 0
                      /\ UNCHANGED verdict

-----------------------------------------------------------------------------
\* pthread_create of the mover, which runs from here on, then initBoard.
InitBoard == /\ Main("start")
             /\ Goto("load")
             /\ UNCHANGED <<clients, starters, boardVars, result, mover, turns, joins, alive>>

\* loadSnakeNumber for a slot that is taken.
LoadSnake == /\ Main("load")
             /\ IF i \in Seated
                THEN /\ tails' = tails \cup StartTail(i)
                     /\ pos' = [pos EXCEPT ![i] = StartHead(i)]
                     /\ dir' = [dir EXCEPT ![i] = StartDir(i)]
                     /\ pDef' = [pDef EXCEPT ![i] = 0]
                ELSE UNCHANGED <<tails, pos, dir, pDef>>
             /\ Loop("load", "sleep")
             /\ UNCHANGED <<clients, starters, wild, result, mover, turns, joins, alive>>

\* nanosleep returns: the next round of updateBoard.
Tick == /\ Main("sleep")
        /\ Goto("check")
        /\ UNCHANGED <<clients, starters, boardVars, result, mover, turns, joins, alive>>

Ahead(k) == Plus(pos[k], dir[k])

\* What bB holds one step ahead.  Before the struct lies the stack.
Blocked(p) == IF bB(p) < 0 THEN BOOLEAN ELSE {bB(p) \in tails}

\* Mutant of Lose: the snake is not stopped.
LoseMoving ==
    /\ clients[i] # "none" /\ ~Freed(i)
    /\ clients' = [clients EXCEPT ![i] = "LOOSE"]
    /\ Loop("check", "send")
    /\ UNCHANGED <<pDef, alive>>

\* Mutant of Lose: playerLost is given the number of the player, not the slot.
LoseNumber ==
    IF clients[i + 1] # "none" /\ ~Freed(i + 1)
    THEN /\ clients' = [clients EXCEPT ![i + 1] = "LOOSE"]
         /\ pDef' = [pDef EXCEPT ![i] = 1]
         /\ Loop("check", "send")
         /\ UNCHANGED alive
    ELSE alive' = FALSE /\ UNCHANGED <<clients, pDef, at, i, verdict>>

\* playerLost writes to the client, whoever is in the slot by now; nobody, if
\* the player left.
Lose ==
    IF clients[i] # "none" /\ ~Freed(i)
    THEN /\ clients' = [clients EXCEPT ![i] = "LOOSE"]
         /\ pDef' = [pDef EXCEPT ![i] = 1]
         /\ Loop("check", "send")
         /\ UNCHANGED alive
    ELSE alive' = FALSE /\ UNCHANGED <<clients, pDef, at, i, verdict>>

\* Mutant of Crashes: the edge is not looked at.
CrashesInside(k, blocked) == blocked

\* The condition of updateBoard: the head would enter a tail, or is outside.
Crashes(k, blocked) == blocked \/ outOfBoard(pos[k])

Check == /\ Main("check")
         /\ \/ /\ pDef[i] # 0
               /\ Loop("check", "send")
               /\ UNCHANGED <<clients, pDef, alive>>
            \/ /\ pDef[i] = 0 /\ i \in wild
               /\ alive' = FALSE
               /\ UNCHANGED <<clients, pDef, at, i, verdict>>
            \/ /\ pDef[i] = 0 /\ i \notin wild
               /\ \E blocked \in Blocked(Ahead(i)) :
                     IF Crashes(i, blocked) THEN Lose
                     ELSE GoOn("mark") /\ UNCHANGED <<clients, pDef, alive>>
         /\ UNCHANGED <<starters, tails, pos, dir, wild, result, mover, turns, joins>>

\* TAIL_CHAR into bB and the number of the player into gB, one step ahead.
Mark == /\ Main("mark")
        /\ LET b == bB(Ahead(i))
               g == gB(Ahead(i))
           IN  IF i \in wild \/ b < 0
               THEN alive' = FALSE /\ UNCHANGED <<tails, pDef, wild, at, i, verdict>>
               ELSE /\ tails' = (tails \cup {b}) \ {g}
                    /\ pDef' = [k \in Slots |-> IF g = pDefByte(k) THEN i + 1 ELSE pDef[k]]
                    /\ wild' = wild \cup { k \in Slots : g \in pDirBytes(k) }
                    /\ GoOn("stepX")
                    /\ UNCHANGED alive
        /\ UNCHANGED <<clients, starters, pos, dir, result, mover, turns, joins>>

\* pPos moves, one coordinate after the other, by what pDir holds then.
StepX == /\ Main("stepX")
         /\ IF i \in wild THEN alive' = FALSE /\ UNCHANGED <<pos, at, i, verdict>>
            ELSE pos' = [pos EXCEPT ![i].x = @ + dir[i].x] /\ GoOn("stepY") /\ UNCHANGED alive
         /\ UNCHANGED <<clients, starters, tails, dir, pDef, wild, result, mover, turns, joins>>

StepY == /\ Main("stepY")
         /\ IF i \in wild THEN alive' = FALSE /\ UNCHANGED <<pos, at, i, verdict>>
            ELSE /\ pos' = [pos EXCEPT ![i].y = @ + dir[i].y]
                 /\ Loop("check", "send")
                 /\ UNCHANGED alive
         /\ UNCHANGED <<clients, starters, tails, dir, pDef, wild, result, mover, turns, joins>>

\* sendBoard writes to every client; one that is being freed may be there.
SendBoard == /\ Main("send")
             /\ Goto("judge")
             /\ alive' \in IF \E k \in Slots : Freed(k) THEN BOOLEAN ELSE {TRUE}
             /\ UNCHANGED <<clients, starters, boardVars, result, mover, turns, joins>>

\* Mutant of isgameOver: everybody who is not out yet counts as one.
isgameOverEarly(lost) == Cardinality(lost) >= Cardinality(Seated) - 2

\* Mutant of isgameOver: the round goes on until nobody is left in it.
isgameOverAll(lost) == Cardinality(lost) >= Cardinality(Seated)

isgameOver(lost) == Cardinality(lost) >= Cardinality(Seated) - 1

\* A loser that is being freed may read as something else than LOOSE.
Judge == /\ Main("judge")
         /\ \E lost \in {Losers, { k \in Losers : ~Freed(k) }} :
               Goto(IF isgameOver(lost) THEN "award" ELSE "sleep")
         /\ UNCHANGED <<clients, starters, boardVars, result, mover, turns, joins, alive>>

\* Mutant of Award: only those who are still in the game get an answer.
AwardPlaying == /\ Main("award")
                /\ IF clients[i] \in {"none", "LOOSE"}
                   THEN Loop("award", "done") /\ UNCHANGED alive
                   ELSE /\ verdict' = TRUE
                        /\ at' = "tell"
                        /\ UNCHANGED i
                        /\ alive' \in IF Freed(i) \/ clients[i] = "LOGGING" THEN BOOLEAN ELSE {TRUE}
                /\ UNCHANGED <<clients, starters, boardVars, result, mover, turns, joins>>

\* The last loop of initGame: client i is looked at and its score is sent to
\* the database, under a name that a client who has not logged in lacks ...
Award == /\ Main("award")
         /\ IF clients[i] = "none"
            THEN Loop("award", "done") /\ UNCHANGED alive
            ELSE /\ verdict' \in IF Freed(i) THEN BOOLEAN ELSE {clients[i] # "LOOSE"}
                 /\ at' = "tell"
                 /\ UNCHANGED i
                 /\ alive' \in IF Freed(i) \/ clients[i] = "LOGGING" THEN BOOLEAN ELSE {TRUE}
         /\ UNCHANGED <<clients, starters, boardVars, result, mover, turns, joins>>

\* ... and when the database has answered, the client is told.
Tell == /\ Main("tell")
        /\ IF clients[i] = "none"
           THEN alive' = FALSE /\ UNCHANGED <<at, i, verdict, result>>
           ELSE /\ result' = [result EXCEPT ![i] = IF verdict THEN "won" ELSE "lost"]
                /\ Loop("award", "done")
                /\ alive' \in IF Freed(i) THEN BOOLEAN ELSE {TRUE}
        /\ UNCHANGED <<clients, starters, boardVars, mover, turns, joins>>
-----------------------------------------------------------------------------
Running == alive /\ at # "done"

\* updateMovementDirection writes x ...  Before the snake is loaded gameBoard
\* is NULL or the pointer is not set.
Steer(k, d) == /\ Running
               /\ mover = Idle
               /\ k \in starters /\ clients[k] \in {"PLAYING", "LOOSE"}
               /\ turns < MaxTurns
               /\ turns' = turns + 1
               /\ IF at = "start" \/ pDef[k] = -1 \/ k \in wild
                  THEN alive' = FALSE /\ UNCHANGED <<dir, mover>>
                  ELSE /\ dir' = [dir EXCEPT ![k].x = d.x]
                       /\ mover' = [op |-> "turn", k |-> k, to |-> d, from |-> dir[k]]
                       /\ UNCHANGED alive
               /\ UNCHANGED <<clients, starters, tails, pos, pDef, wild, mainVars, joins>>

\* ... and then y.
SteerY == /\ Running
          /\ mover.op = "turn"
          /\ IF mover.k \in wild THEN alive' = FALSE /\ UNCHANGED dir
             ELSE dir' = [dir EXCEPT ![mover.k].y = mover.to.y] /\ UNCHANGED alive
          /\ mover' = Idle
          /\ UNCHANGED <<clients, starters, tails, pos, pDef, wild, mainVars, turns, joins>>

\* disconnect frees the client, whose name may never have been set ...
Leave(k) == /\ Running
            /\ mover = Idle
            /\ k \in Leavers \cap Seated
            /\ mover' = [op |-> "leave", k |-> k]
            /\ alive' \in IF clients[k] = "LOGGING" THEN BOOLEAN ELSE {TRUE}
            /\ UNCHANGED <<clients, starters, boardVars, mainVars, turns, joins>>

\* ... and clears the slot.
LeaveSlot == /\ Running
             /\ mover.op = "leave"
             /\ clients' = [clients EXCEPT ![mover.k] = "none"]
             /\ starters' = starters \ {mover.k}
             /\ result' = [result EXCEPT ![mover.k] = "none"]
             /\ mover' = Idle
             /\ UNCHANGED <<boardVars, at, i, verdict, turns, joins, alive>>

\* A client that came late logs in; the dialogue is modelled in ChildServer.
LogIn(k) == /\ Running
            /\ mover = Idle
            /\ clients[k] = "LOGGING"
            /\ clients' = [clients EXCEPT ![k] = "WAITING"]
            /\ UNCHANGED <<starters, boardVars, mainVars, mover, turns, joins, alive>>

\* The accept thread seats a client in an empty slot.
Join(k) == /\ Running
           /\ joins < MaxJoins
           /\ joins' = joins + 1
           /\ clients[k] = "none"
           /\ clients' = [clients EXCEPT ![k] = "LOGGING"]
           /\ UNCHANGED <<starters, boardVars, mainVars, mover, turns, alive>>

MainStep == \/ InitBoard \/ LoadSnake \/ Tick \/ Check \/ Mark \/ StepX \/ StepY
            \/ SendBoard \/ Judge \/ Award \/ Tell

Next == \/ MainStep
        \/ SteerY
        \/ LeaveSlot
        \/ \E k \in Slots : \/ \E d \in Arrows : Steer(k, d)
                            \/ Leave(k) \/ LogIn(k) \/ Join(k)

Spec == Init /\ [][Next]_vars

\* The threads run; players turn, quit and connect as they like.
FairSpec == Spec /\ WF_vars(MainStep) /\ WF_vars(SteerY) /\ WF_vars(LeaveSlot)
-----------------------------------------------------------------------------
TypeOK == /\ clients \in [Slots -> ClientStates \cup {"none"}]
          /\ starters \subseteq Slots
          /\ tails \subseteq Nat
          /\ pos \in [Slots -> Point]
          /\ dir \in [Slots -> [x : -1 .. 1, y : -1 .. 1]]
          /\ pDef \in [Slots -> -1 .. 4]
          /\ wild \subseteq Slots
          /\ at \in Places
          /\ i \in Slots
          /\ verdict \in BOOLEAN
          /\ result \in [Slots -> {"none", "won", "lost"}]
          /\ mover \in {Idle} \cup [op : {"turn"}, k : Slots, to : Arrows, from : Point]
                                \cup [op : {"leave"}, k : Slots]
          /\ turns \in 0 .. MaxTurns
          /\ joins \in 0 .. MaxJoins
          /\ alive \in BOOLEAN

\* updateBoard looks at the edge only after it has stepped over it, and at a
\* direction that changes meanwhile; still no head gets further out than one
\* step in each coordinate, which bounds what its marks can overwrite.
OneStepOut == \A k \in Slots : pos[k].x \in -1 .. Side /\ pos[k].y \in -1 .. Side

\* When nobody joins during the game, at most one client is told that it won,
\* although players leave between isgameOver and the loop that tells them.  A
\* client that is being freed does not count: what is read of it is arbitrary.
Won == { k \in Slots : result[k] = "won" /\ ~Freed(k) }
AtMostOneWinner == joins = 0 => \A j, k \in Won : j = k

\* A snake that has lost never moves again, whatever its player still sends and
\* whatever a snake that leaves the board writes into pDef.
LosersStop == [][ \A k \in Slots : clients[k] = "LOOSE" => pos'[k] = pos[k] ]_vars

\* At the end every player who is still connected has been told, and told what
\* the last round of the game made of its snake.
ResultsTold ==
    alive /\ at = "done" => \A k \in starters :
        Freed(k) \/ result[k] = IF clients[k] = "LOOSE" THEN "lost" ELSE "won"

\* The players whose snake is stopped by what a mark beyond the edge wrote into its
\* pDef, and who have not lost.
Frozen == { k \in starters : clients[k] = "PLAYING" /\ pDef[k] \notin {0, -1} }

\* Every game comes to an end, as a snake that keeps moving meets a tail or the
\* edge, whoever turns or leaves: the players are told the result.  Or a step over
\* the edge has killed the process, or stopped a snake for ever, or two clients
\* that came during the game count as players.
GameEnds == at = "sleep" ~> at = "done" \/ ~alive \/ Frozen # {} \/ joins > 1

\* The snakes whose player has left.
Orphans == { k \in Slots \ starters : pDef[k] # -1 }

\* No check guards an index of the board, and yet a game that nobody leaves or
\* joins, once its board is loaded, is only killed by what lies beyond the edge: by
\* a mark before the struct, or by a direction pointer that a mark has overwritten.
\* Inside the board no interleaving of turns, marks and messages reaches memory
\* that is not the cell meant, nor does main write to a client that is not there.
KilledAtTheEdge ==
    ~alive => \/ at \in {"start", "load"} \/ joins > 0 \/ mover.op = "leave" \/ Orphans # {}
              \/ wild # {} \/ bB(Ahead(i)) < 0
=============================================================================
