-------------------------- MODULE GameRoundProofs ---------------------------
(***************************************************************************)
(* For a board of any side, any lineup and any number of direction changes *)
(* and of clients that come and go: how far over the edge a head gets,     *)
(* that a snake that has lost stays where it is, what the players are told *)
(* at the end, and what can kill the process.                              *)
(***************************************************************************)
EXTENDS GameRound, FiniteSetTheorems, TLAPS

\* The head that main is about to move is on the board until it is moved, and
\* off it by one column at most between the two coordinates.
MovingInv == /\ at \in {"mark", "stepX"} => ~outOfBoard(pos[i])
             /\ at = "stepY" => pos[i].x \in -1 .. Side /\ pos[i].y \in 0 .. Side - 1

\* A snake that has lost has been stopped, by main itself, outside the four
\* lines that move a snake; nobody has lost while the snakes are loaded.
StoppedInv == \A k \in Slots : clients[k] = "LOOSE" =>
    /\ pDef[k] # 0
    /\ at \notin {"start", "load"}
    /\ at \in {"mark", "stepX", "stepY"} => i # k

IInv == TypeOK /\ OneStepOut /\ MovingInv /\ StoppedInv
-----------------------------------------------------------------------------
\* The cells of the board, and those next to its lower edge, are in the struct.
LEMMA CellIsNat == \A y \in Nat : \A x \in Nat : bB(Pt(x, y)) \in Nat
<1> SUFFICES ASSUME NEW x \in Nat, NEW y \in Nat
             PROVE  y * Side + x \in Nat
  BY DEF bB, Pt
<1>1. Side \in Nat
  BY SideAssumption
<1>2. y * Side \in Nat
  BY <1>1
<1>3. QED
  BY <1>2

\* Every snake starts on the board, head and tail.
LEMMA StartOnBoard ==
    ASSUME NEW k \in Slots
    PROVE  /\ StartHead(k) \in Point /\ ~outOfBoard(StartHead(k))
           /\ StartDir(k) \in [x : -1 .. 1, y : -1 .. 1]
           /\ StartTail(k) \subseteq Nat
<1> USE SideAssumption
<1>1. k = 0 \/ k = 1 \/ k = 2 \/ k = 3
  BY DEF Slots
<1>2. Side \div 2 \in Nat /\ Side \div 2 > 2 - 1 /\ Side \div 2 < Side
  OBVIOUS
<1>3. StartHead(k) \in Point /\ ~outOfBoard(StartHead(k))
  BY <1>1, <1>2 DEF StartHead, Point, Pt, outOfBoard
<1>4. StartDir(k) \in [x : -1 .. 1, y : -1 .. 1]
  BY <1>1 DEF StartDir, Pt
<1>5. ASSUME NEW n \in 0 .. 3
      PROVE  bB(Pt(StartHead(k).x - n * StartDir(k).x, StartHead(k).y - n * StartDir(k).y)) \in Nat
  <2>1. StartHead(k).x - n * StartDir(k).x \in Nat
    <3>1. CASE k = 0
      BY <3>1 DEF StartHead, StartDir, Pt
    <3>2. CASE k = 1
      BY <3>2 DEF StartHead, StartDir, Pt
    <3>3. CASE k = 2
      BY <3>3, <1>2 DEF StartHead, StartDir, Pt
    <3>4. CASE k = 3
      BY <3>4, <1>2 DEF StartHead, StartDir, Pt
    <3>5. QED
      BY <1>1, <3>1, <3>2, <3>3, <3>4
  <2>2. StartHead(k).y - n * StartDir(k).y \in Nat
    <3>1. CASE k = 0
      BY <3>1, <1>2 DEF StartHead, StartDir, Pt
    <3>2. CASE k = 1
      BY <3>2, <1>2 DEF StartHead, StartDir, Pt
    <3>3. CASE k = 2
      BY <3>3 DEF StartHead, StartDir, Pt
    <3>4. CASE k = 3
      BY <3>4 DEF StartHead, StartDir, Pt
    <3>5. QED
      BY <1>1, <3>1, <3>2, <3>3, <3>4
  <2>3. QED
    BY <2>1, <2>2, CellIsNat
<1>6. QED
  BY <1>3, <1>4, <1>5 DEF StartTail

LEMMA InitIInv == Init => IInv
<1> SUFFICES ASSUME Init
             PROVE  IInv
  OBVIOUS
<1> USE SideAssumption, LineupsAssumption, BoundsAssumption
<1>1. clients \in [Slots -> {"PLAYING", "none"}] /\ starters \subseteq Slots
  BY DEF Init
<1>2. i \in Slots
  BY DEF Init, Slots
<1>3. /\ pos \in [Slots -> Point]
      /\ dir \in [Slots -> [x : -1 .. 1, y : -1 .. 1]]
      /\ pDef \in [Slots -> -1 .. 4]
      /\ result \in [Slots -> {"none", "won", "lost"}]
  BY DEF Init, Point, Pt
<1>4. TypeOK
  <2>1. clients \in [Slots -> ClientStates \cup {"none"}]
    BY <1>1 DEF ClientStates
  <2>2. mover \in {Idle}
    BY DEF Init
  <2>3. at \in Places /\ tails \subseteq Nat /\ wild \subseteq Slots
    BY DEF Init, Places
  <2>4. verdict \in BOOLEAN /\ alive \in BOOLEAN
    BY DEF Init
  <2>5. turns \in 0 .. MaxTurns /\ joins \in 0 .. MaxJoins
    BY DEF Init
  <2>6. QED
    BY <1>1, <1>2, <1>3, <2>1, <2>2, <2>3, <2>4, <2>5 DEF TypeOK
<1>5. OneStepOut /\ MovingInv /\ StoppedInv
  BY <1>1 DEF Init, OneStepOut, MovingInv, StoppedInv, Pt
<1>6. QED
  BY <1>4, <1>5 DEF IInv
-----------------------------------------------------------------------------
\* The index of main's loops stays in the table of clients.
LEMMA LoopFacts ==
    ASSUME i \in Slots, NEW place, NEW after, Loop(place, after)
    PROVE  i' \in Slots /\ at' \in {place, after} /\ verdict' = verdict
BY DEF Loop, Slots

\* One step ahead of a head on the board lies at most one row or column outside.
LEMMA AheadFacts ==
    ASSUME IInv, NEW k \in Slots
    PROVE  /\ pos[k] \in Point /\ pos[k].x \in Int /\ pos[k].y \in Int
           /\ dir[k].x \in -1 .. 1 /\ dir[k].y \in -1 .. 1
           /\ bB(Ahead(k)) \in Int
<1>1. pos[k] \in Point /\ dir[k] \in [x : -1 .. 1, y : -1 .. 1]
  BY DEF IInv, TypeOK
<1>2. pos[k].x \in Int /\ pos[k].y \in Int /\ dir[k].x \in -1 .. 1 /\ dir[k].y \in -1 .. 1
  BY <1>1 DEF Point
<1>3. pos[k].x + dir[k].x \in Int /\ pos[k].y + dir[k].y \in Int
  BY <1>2
<1>4. (pos[k].y + dir[k].y) * Side \in Int
  BY <1>3, SideAssumption
<1>5. bB(Ahead(k)) \in Int
  BY <1>3, <1>4 DEF bB, Ahead, Plus, Pt
<1>6. QED
  BY <1>1, <1>2, <1>5

\* Main's steps before the snakes move.
LEMMA StartStep ==
    ASSUME IInv, InitBoard \/ LoadSnake \/ Tick
    PROVE  IInv'
<1>1. CASE InitBoard \/ Tick
  <2>1. /\ at' \in {"load", "check"} /\ i' = 0 /\ verdict' = verdict
        /\ at \in {"start", "sleep"} /\ (at' = "load" => at = "start")
        /\ UNCHANGED <<clients, starters, tails, pos, dir, pDef, wild, result, mover, turns, joins, alive>>
    BY <1>1 DEF InitBoard, Tick, Main, Goto, boardVars
  <2>2. TypeOK'
    BY <2>1 DEF IInv, TypeOK, Places, Slots
  <2>3. OneStepOut' /\ MovingInv' /\ StoppedInv'
    BY <2>1 DEF IInv, OneStepOut, MovingInv, StoppedInv
  <2>4. QED
    BY <2>2, <2>3 DEF IInv
<1>2. CASE LoadSnake
  <2>1. /\ at = "load" /\ i \in Slots /\ i' \in Slots /\ at' \in {"load", "sleep"}
        /\ verdict' = verdict
        /\ UNCHANGED <<clients, starters, wild, result, mover, turns, joins, alive>>
    BY <1>2, LoopFacts DEF LoadSnake, Main, IInv, TypeOK
  <2>2. CASE i \in Seated
    <3>1. /\ tails' = tails \cup StartTail(i)
          /\ pos' = [pos EXCEPT ![i] = StartHead(i)]
          /\ dir' = [dir EXCEPT ![i] = StartDir(i)]
          /\ pDef' = [pDef EXCEPT ![i] = 0]
      BY <1>2, <2>2 DEF LoadSnake
    <3>2. /\ StartHead(i) \in Point /\ ~outOfBoard(StartHead(i))
          /\ StartDir(i) \in [x : -1 .. 1, y : -1 .. 1]
          /\ StartTail(i) \subseteq Nat
      BY <2>1, StartOnBoard
    <3>3. TypeOK'
      <4>1. /\ tails' \subseteq Nat
            /\ pos' \in [Slots -> Point]
            /\ dir' \in [Slots -> [x : -1 .. 1, y : -1 .. 1]]
            /\ pDef' \in [Slots -> -1 .. 4]
        <5>1. /\ tails \subseteq Nat
              /\ pos \in [Slots -> Point]
              /\ dir \in [Slots -> [x : -1 .. 1, y : -1 .. 1]]
              /\ pDef \in [Slots -> -1 .. 4]
          BY DEF IInv, TypeOK
        <5>2. tails' \subseteq Nat /\ pos' \in [Slots -> Point]
          BY <3>1, <3>2, <5>1
        <5>3. dir' \in [Slots -> [x : -1 .. 1, y : -1 .. 1]]
          BY <3>1, <3>2, <5>1
        <5>4. pDef' \in [Slots -> -1 .. 4]
          <6>1. ASSUME NEW k \in Slots
                PROVE  pDef'[k] = IF k = i THEN 0 ELSE pDef[k]
            BY <3>1, <5>1
          <6>2. 0 \in -1 .. 4
            OBVIOUS
          <6>3. QED
            BY <3>1, <5>1, <6>1, <6>2
        <5>5. QED
          BY <5>2, <5>3, <5>4
      <4>2. QED
        BY <2>1, <4>1 DEF IInv, TypeOK, Places
    <3>4. OneStepOut'
      BY <2>1, <3>1, <3>2, SideAssumption DEF IInv, TypeOK, OneStepOut, outOfBoard, Point
    <3>5. MovingInv' /\ StoppedInv'
      BY <2>1, <3>1 DEF IInv, MovingInv, StoppedInv
    <3>6. QED
      BY <3>3, <3>4, <3>5 DEF IInv
  <2>3. CASE i \notin Seated
    <3>1. UNCHANGED <<tails, pos, dir, pDef>>
      BY <1>2, <2>3 DEF LoadSnake
    <3>2. TypeOK'
      BY <2>1, <3>1 DEF IInv, TypeOK, Places
    <3>3. OneStepOut' /\ MovingInv' /\ StoppedInv'
      BY <2>1, <3>1 DEF IInv, OneStepOut, MovingInv, StoppedInv
    <3>4. QED
      BY <3>2, <3>3 DEF IInv
  <2>4. QED
    BY <2>2, <2>3
<1>3. QED
  BY <1>1, <1>2

\* The test of updateBoard, and playerLost when it is positive.
LEMMA CheckStep ==
    ASSUME IInv, Check
    PROVE  IInv'
<1>1. /\ at = "check" /\ i \in Slots
      /\ UNCHANGED <<starters, tails, pos, dir, wild, result, mover, turns, joins>>
  BY DEF Check, Main, IInv, TypeOK
<1>2. CASE /\ UNCHANGED <<clients, pDef, verdict>> /\ i' \in Slots
           /\ at' \in {"check", "send"} /\ alive' \in BOOLEAN
  <2>1. TypeOK'
    BY <1>1, <1>2 DEF IInv, TypeOK, Places
  <2>2. OneStepOut' /\ MovingInv' /\ StoppedInv'
    BY <1>1, <1>2 DEF IInv, OneStepOut, MovingInv, StoppedInv
  <2>3. QED
    BY <2>1, <2>2 DEF IInv
<1>3. CASE /\ pDef[i] = 0 /\ ~outOfBoard(pos[i])
           /\ at' = "mark" /\ UNCHANGED <<clients, pDef, i, verdict, alive>>
  <2>1. TypeOK'
    BY <1>1, <1>3 DEF IInv, TypeOK, Places
  <2>2. OneStepOut' /\ StoppedInv'
    BY <1>1, <1>3 DEF IInv, OneStepOut, StoppedInv
  <2>3. MovingInv'
    BY <1>1, <1>3 DEF MovingInv, outOfBoard
  <2>4. QED
    BY <2>1, <2>2, <2>3 DEF IInv
<1>4. CASE Lose
  <2>1. CASE clients[i] # "none" /\ ~Freed(i)
    <3>1. /\ clients' = [clients EXCEPT ![i] = "LOOSE"]
          /\ pDef' = [pDef EXCEPT ![i] = 1]
          /\ i' \in Slots /\ at' \in {"check", "send"} /\ UNCHANGED <<verdict, alive>>
      BY <1>1, <1>4, <2>1, LoopFacts DEF Lose
    <3>2. TypeOK'
      BY <1>1, <3>1 DEF IInv, TypeOK, Places, ClientStates
    <3>3. OneStepOut' /\ MovingInv' /\ StoppedInv'
      BY <1>1, <3>1 DEF IInv, TypeOK, OneStepOut, MovingInv, StoppedInv
    <3>4. QED
      BY <3>2, <3>3 DEF IInv
  <2>2. CASE ~(clients[i] # "none" /\ ~Freed(i))
    <3>1. UNCHANGED <<clients, pDef, verdict, i, at>> /\ alive' = FALSE
      BY <1>4, <2>2 DEF Lose
    <3>2. QED
      BY <1>1, <1>2, <3>1
  <2>3. QED
    BY <2>1, <2>2
<1>5. QED
  <2>1. CASE pDef[i] # 0 /\ Loop("check", "send") /\ UNCHANGED <<clients, pDef, alive>>
    <3>1. i' \in Slots /\ at' \in {"check", "send"} /\ verdict' = verdict
      BY <1>1, <2>1, LoopFacts
    <3>2. alive' \in BOOLEAN
      BY <2>1 DEF IInv, TypeOK
    <3>3. QED
      BY <1>2, <2>1, <3>1, <3>2
  <2>2. CASE alive' = FALSE /\ UNCHANGED <<clients, pDef, at, i, verdict>>
    BY <1>1, <1>2, <2>2
  <2>3. ASSUME pDef[i] = 0,
               NEW blocked \in Blocked(Ahead(i)),
               IF Crashes(i, blocked) THEN Lose
               ELSE GoOn("mark") /\ UNCHANGED <<clients, pDef, alive>>
        PROVE  IInv'
    <3>1. CASE Crashes(i, blocked)
      BY <1>4, <2>3, <3>1
    <3>2. CASE ~Crashes(i, blocked)
      <4>1. ~outOfBoard(pos[i])
        BY <3>2 DEF Crashes
      <4>2. QED
        BY <1>3, <2>3, <3>2, <4>1 DEF GoOn
    <3>3. QED
      BY <3>1, <3>2
  <2>4. QED
    BY <2>1, <2>2, <2>3 DEF Check

\* The marks: what lies one step ahead of a head on the board.
LEMMA MarkStep ==
    ASSUME IInv, Mark
    PROVE  IInv'
<1>1. /\ at = "mark" /\ i \in Slots
      /\ UNCHANGED <<clients, starters, pos, dir, result, mover, turns, joins>>
  BY DEF Mark, Main, IInv, TypeOK
<1>2. CASE alive' = FALSE /\ UNCHANGED <<tails, pDef, wild, at, i, verdict>>
  <2>1. TypeOK'
    BY <1>1, <1>2 DEF IInv, TypeOK
  <2>2. OneStepOut' /\ MovingInv' /\ StoppedInv'
    BY <1>1, <1>2 DEF IInv, OneStepOut, MovingInv, StoppedInv
  <2>3. QED
    BY <2>1, <2>2 DEF IInv
<1>3. ASSUME NEW b \in Nat, NEW g,
             /\ tails' = (tails \cup {b}) \ {g}
             /\ pDef' = [k \in Slots |-> IF g = pDefByte(k) THEN i + 1 ELSE pDef[k]]
             /\ wild' = wild \cup { k \in Slots : g \in pDirBytes(k) }
             /\ at' = "stepX" /\ UNCHANGED <<i, verdict, alive>>
      PROVE  IInv'
  <2>1. \A k \in Slots : /\ pDef'[k] \in -1 .. 4
                         /\ pDef[k] # 0 => pDef'[k] # 0
    <3>1. i + 1 \in 1 .. 4
      BY <1>1 DEF Slots
    <3>2. pDef \in [Slots -> -1 .. 4]
      BY DEF IInv, TypeOK
    <3>3. QED
      BY <1>3, <3>1, <3>2
  <2>2. pDef' \in [Slots -> -1 .. 4]
    BY <1>3, <2>1
  <2>3. TypeOK'
    BY <1>1, <1>3, <2>2 DEF IInv, TypeOK, Places
  <2>4. OneStepOut' /\ MovingInv'
    BY <1>1, <1>3 DEF IInv, OneStepOut, MovingInv, outOfBoard
  <2>5. StoppedInv'
    BY <1>1, <1>3, <2>1 DEF IInv, StoppedInv
  <2>6. QED
    BY <2>3, <2>4, <2>5 DEF IInv
<1>4. CASE i \in wild \/ bB(Ahead(i)) < 0
  BY <1>2, <1>4 DEF Mark
<1>5. CASE ~(i \in wild \/ bB(Ahead(i)) < 0)
  <2>1. bB(Ahead(i)) \in Nat
    BY <1>1, <1>5, AheadFacts
  <2>2. QED
    BY <1>3, <1>5, <2>1 DEF Mark, GoOn
<1>6. QED
  BY <1>4, <1>5

\* The head moves, one coordinate after the other.
LEMMA MoveStep ==
    ASSUME IInv, StepX \/ StepY
    PROVE  IInv'
<1>1. /\ at \in {"stepX", "stepY"} /\ i \in Slots
      /\ UNCHANGED <<clients, starters, tails, dir, pDef, wild, result, mover, turns, joins>>
  BY DEF StepX, StepY, Main, IInv, TypeOK
<1>2. /\ pos \in [Slots -> Point]
      /\ pos[i].x \in Int /\ pos[i].y \in Int /\ dir[i].x \in -1 .. 1 /\ dir[i].y \in -1 .. 1
  BY <1>1, AheadFacts DEF IInv, TypeOK
<1>3. CASE i \in wild
  <2>1. alive' = FALSE /\ UNCHANGED <<pos, at, i, verdict>>
    BY <1>3 DEF StepX, StepY
  <2>2. TypeOK'
    BY <1>1, <2>1 DEF IInv, TypeOK
  <2>3. OneStepOut' /\ MovingInv' /\ StoppedInv'
    BY <1>1, <2>1 DEF IInv, OneStepOut, MovingInv, StoppedInv
  <2>4. QED
    BY <2>2, <2>3 DEF IInv
<1>4. CASE i \notin wild /\ StepX
  <2>1. /\ at = "stepX" /\ at' = "stepY" /\ UNCHANGED <<i, verdict, alive>>
        /\ pos' = [pos EXCEPT ![i].x = @ + dir[i].x]
    BY <1>4 DEF StepX, Main, GoOn
  <2>2. /\ pos'[i] = [pos[i] EXCEPT !.x = pos[i].x + dir[i].x]
        /\ \A k \in Slots \ {i} : pos'[k] = pos[k]
    BY <1>1, <1>2, <2>1
  <2>3. pos'[i] \in Point /\ pos'[i].x = pos[i].x + dir[i].x /\ pos'[i].y = pos[i].y
    BY <1>1, <1>2, <2>2 DEF Point
  <2>4. pos' \in [Slots -> Point]
    BY <1>2, <2>1, <2>2, <2>3
  <2>5. pos[i].x \in 0 .. Side - 1 /\ pos[i].y \in 0 .. Side - 1
    BY <1>2, <2>1, SideAssumption DEF IInv, MovingInv, outOfBoard
  <2>6. pos'[i].x \in -1 .. Side /\ pos'[i].y \in 0 .. Side - 1
    BY <1>2, <2>3, <2>5, SideAssumption
  <2>7. TypeOK'
    BY <1>1, <2>1, <2>4 DEF IInv, TypeOK, Places
  <2>8. OneStepOut'
    <3>1. 0 .. Side - 1 \subseteq -1 .. Side
      BY SideAssumption
    <3>2. QED
      BY <2>2, <2>6, <3>1 DEF IInv, OneStepOut
  <2>9. MovingInv' /\ StoppedInv'
    BY <1>1, <2>1, <2>6 DEF IInv, MovingInv, StoppedInv
  <2>10. QED
    BY <2>7, <2>8, <2>9 DEF IInv
<1>5. CASE i \notin wild /\ StepY
  <2>1. /\ at = "stepY" /\ at' \in {"check", "send"} /\ i' \in Slots /\ UNCHANGED <<verdict, alive>>
        /\ pos' = [pos EXCEPT ![i].y = @ + dir[i].y]
    BY <1>1, <1>5, LoopFacts DEF StepY, Main
  <2>2. /\ pos'[i] = [pos[i] EXCEPT !.y = pos[i].y + dir[i].y]
        /\ \A k \in Slots \ {i} : pos'[k] = pos[k]
    BY <1>1, <1>2, <2>1
  <2>3. pos'[i] \in Point /\ pos'[i].y = pos[i].y + dir[i].y /\ pos'[i].x = pos[i].x
    BY <1>1, <1>2, <2>2 DEF Point
  <2>4. pos' \in [Slots -> Point]
    BY <1>2, <2>1, <2>2, <2>3
  <2>5. pos[i].x \in -1 .. Side /\ pos[i].y \in 0 .. Side - 1
    BY <2>1 DEF IInv, MovingInv
  <2>6. pos'[i].x \in -1 .. Side /\ pos'[i].y \in -1 .. Side
    BY <1>2, <2>3, <2>5, SideAssumption
  <2>7. TypeOK'
    BY <1>1, <2>1, <2>4 DEF IInv, TypeOK, Places
  <2>8. OneStepOut'
    BY <2>2, <2>6 DEF IInv, OneStepOut
  <2>9. MovingInv' /\ StoppedInv'
    BY <1>1, <2>1 DEF IInv, MovingInv, StoppedInv
  <2>10. QED
    BY <2>7, <2>8, <2>9 DEF IInv
<1>6. QED
  BY <1>3, <1>4, <1>5

\* Main's steps after the snakes have moved.
LEMMA EndStep ==
    ASSUME IInv, SendBoard \/ Judge \/ Award \/ Tell
    PROVE  IInv'
<1>1. UNCHANGED <<clients, starters, tails, pos, dir, pDef, wild, mover, turns, joins>>
  BY DEF SendBoard, Judge, Award, Tell, boardVars
<1>2. /\ at \in {"send", "judge", "award", "tell"}
      /\ at' \in {"judge", "award", "sleep", "tell", "done"}
      /\ i' \in Slots /\ verdict' \in BOOLEAN /\ alive' \in BOOLEAN
      /\ result' \in [Slots -> {"none", "won", "lost"}]
  <2>1. i \in Slots /\ verdict \in BOOLEAN /\ alive \in BOOLEAN /\ 0 \in Slots
        /\ result \in [Slots -> {"none", "won", "lost"}]
    BY DEF IInv, TypeOK, Slots
  <2>2. CASE SendBoard \/ Judge
    BY <2>1, <2>2 DEF SendBoard, Judge, Main, Goto
  <2>3. CASE Award
    BY <2>1, <2>3, LoopFacts DEF Award, Main
  <2>4. CASE Tell
    BY <2>1, <2>4, LoopFacts DEF Tell, Main
  <2>5. QED
    BY <2>2, <2>3, <2>4
<1>3. TypeOK'
  BY <1>1, <1>2 DEF IInv, TypeOK, Places
<1>4. OneStepOut' /\ MovingInv' /\ StoppedInv'
  BY <1>1, <1>2 DEF IInv, OneStepOut, MovingInv, StoppedInv
<1>5. QED
  BY <1>3, <1>4 DEF IInv

\* The mover and the accept thread change neither a head nor pDef.
LEMMA OtherStep ==
    ASSUME IInv,
           \/ SteerY \/ LeaveSlot
           \/ \E k \in Slots : \/ \E d \in Arrows : Steer(k, d)
                               \/ Leave(k) \/ LogIn(k) \/ Join(k)
    PROVE  IInv'
<1>1. UNCHANGED <<tails, pos, pDef, wild, at, i, verdict>>
  BY DEF SteerY, LeaveSlot, Steer, Leave, LogIn, Join, boardVars, mainVars
<1>2. \A k \in Slots : clients'[k] = "LOOSE" => clients[k] = "LOOSE"
  BY DEF SteerY, LeaveSlot, Steer, Leave, LogIn, Join, IInv, TypeOK
<1>3. OneStepOut' /\ MovingInv' /\ StoppedInv'
  BY <1>1, <1>2 DEF IInv, OneStepOut, MovingInv, StoppedInv
<1>4. Arrows \subseteq [x : -1 .. 1, y : -1 .. 1]
  BY DEF Arrows, Pt
<1>5. CASE SteerY
  <2>1. mover.op = "turn" => mover.k \in Slots /\ mover.to \in Arrows
    BY DEF IInv, TypeOK, Idle
  <2>2. dir' \in [Slots -> [x : -1 .. 1, y : -1 .. 1]]
    BY <1>4, <1>5, <2>1 DEF SteerY, IInv, TypeOK
  <2>3. TypeOK'
    BY <1>1, <1>5, <2>2 DEF SteerY, IInv, TypeOK, mainVars
  <2>4. QED
    BY <1>3, <2>3 DEF IInv
<1>6. CASE LeaveSlot
  <2>1. TypeOK'
    BY <1>1, <1>6 DEF LeaveSlot, IInv, TypeOK, boardVars
  <2>2. QED
    BY <1>3, <2>1 DEF IInv
<1>7. ASSUME NEW k \in Slots, NEW d \in Arrows, Steer(k, d)
      PROVE  IInv'
  <2>1. dir[k] \in Point
    BY DEF IInv, TypeOK, Point
  <2>2. dir' \in [Slots -> [x : -1 .. 1, y : -1 .. 1]]
    BY <1>4, <1>7, SMTT(30) DEF Steer, IInv, TypeOK
  <2>3. \/ mover' = mover
        \/ mover' \in [op : {"turn"}, k : Slots, to : Arrows, from : Point]
    <3>1. [op |-> "turn", k |-> k, to |-> d, from |-> dir[k]]
          \in [op : {"turn"}, k : Slots, to : Arrows, from : Point]
      BY <2>1
    <3>2. QED
      BY <1>7, <3>1 DEF Steer
  <2>4. turns' \in 0 .. MaxTurns /\ alive' \in BOOLEAN
    <3>1. turns \in 0 .. MaxTurns /\ alive \in BOOLEAN
      BY DEF IInv, TypeOK
    <3>2. turns < MaxTurns /\ turns' = turns + 1 /\ (alive' = FALSE \/ alive' = alive)
      BY <1>7 DEF Steer
    <3>3. turns' \in 0 .. MaxTurns
      BY <3>1, <3>2, BoundsAssumption
    <3>4. QED
      BY <3>1, <3>2, <3>3
  <2>5. UNCHANGED <<clients, starters, result, joins>>
    BY <1>7 DEF Steer, mainVars
  <2>6. TypeOK'
    BY <1>1, <2>2, <2>3, <2>4, <2>5 DEF IInv, TypeOK
  <2>7. QED
    BY <1>3, <2>6 DEF IInv
<1>8. ASSUME NEW k \in Slots, Leave(k)
      PROVE  IInv'
  <2>1. mover' \in [op : {"leave"}, k : Slots] /\ alive' \in BOOLEAN
    BY <1>8 DEF Leave
  <2>2. UNCHANGED <<clients, starters, dir, result, turns, joins>>
    BY <1>8 DEF Leave, boardVars, mainVars
  <2>3. TypeOK'
    BY <1>1, <2>1, <2>2 DEF IInv, TypeOK
  <2>4. QED
    BY <1>3, <2>3 DEF IInv
<1>9. ASSUME NEW k \in Slots, LogIn(k) \/ Join(k)
      PROVE  IInv'
  <2>1. clients' \in [Slots -> ClientStates \cup {"none"}]
    BY <1>9 DEF LogIn, Join, IInv, TypeOK, ClientStates
  <2>2. joins' \in 0 .. MaxJoins
    BY <1>9, BoundsAssumption DEF LogIn, Join, IInv, TypeOK
  <2>3. UNCHANGED <<starters, dir, result, mover, turns, alive>>
    BY <1>9 DEF LogIn, Join, boardVars, mainVars
  <2>4. TypeOK'
    BY <1>1, <2>1, <2>2, <2>3 DEF IInv, TypeOK
  <2>5. QED
    BY <1>3, <2>4 DEF IInv
<1>10. QED
  BY <1>5, <1>6, <1>7, <1>8, <1>9

LEMMA StepIInv == IInv /\ [Next]_vars => IInv'
<1> SUFFICES ASSUME IInv, [Next]_vars
             PROVE  IInv'
  OBVIOUS
<1>1. CASE UNCHANGED vars
  BY <1>1 DEF vars, boardVars, mainVars, IInv, TypeOK, OneStepOut, MovingInv, StoppedInv
<1>2. QED
  BY <1>1, StartStep, CheckStep, MarkStep, MoveStep, EndStep, OtherStep DEF Next, MainStep
-----------------------------------------------------------------------------
\* What the three threads share keeps its type: a direction never gets a
\* component other than -1, 0 and 1, although it is written in two steps
\* (game.c:105-108), and the index of a loop never leaves the table.
THEOREM TypeCorrect == Spec => []TypeOK
<1>1. IInv => TypeOK
  BY DEF IInv
<1>2. QED
  BY <1>1, InitIInv, StepIInv, PTL DEF Spec

\* A head is at most one row and one column outside the board, although
\* updateBoard looks at the edge only after it has stepped (game.c:92-100).
THEOREM NeverFarOut == Spec => []OneStepOut
<1>1. IInv => OneStepOut
  BY DEF IInv
<1>2. QED
  BY <1>1, InitIInv, StepIInv, PTL DEF Spec

\* A snake that has lost does not move (game.c:90-95), although its player's
\* messages still change its direction and pDef can be overwritten.
THEOREM LosersStay == Spec => LosersStop
<1>1. IInv /\ [Next]_vars => \A k \in Slots : clients[k] = "LOOSE" => pos'[k] = pos[k]
  <2> SUFFICES ASSUME IInv, [Next]_vars, NEW k \in Slots, clients[k] = "LOOSE"
               PROVE  pos'[k] = pos[k]
    OBVIOUS
  <2>1. /\ at \notin {"start", "load"}
        /\ at \in {"mark", "stepX", "stepY"} => i # k
        /\ pos \in [Slots -> Point]
    BY DEF IInv, TypeOK, StoppedInv
  <2>2. CASE MainStep
    <3>1. CASE StepX \/ StepY
      <4>1. at \in {"stepX", "stepY"}
        BY <3>1 DEF StepX, StepY, Main
      <4>2. QED
        BY <2>1, <3>1, <4>1 DEF StepX, StepY
    <3>2. CASE InitBoard \/ LoadSnake
      BY <2>1, <3>2 DEF InitBoard, LoadSnake, Main
    <3>3. CASE Tick \/ Check \/ Mark \/ SendBoard \/ Judge \/ Award \/ Tell
      BY <3>3 DEF Tick, Check, Mark, SendBoard, Judge, Award, Tell, boardVars
    <3>4. QED
      BY <2>2, <3>1, <3>2, <3>3 DEF MainStep
  <2>3. CASE \/ SteerY \/ LeaveSlot
             \/ \E j \in Slots : \/ \E d \in Arrows : Steer(j, d)
                                 \/ Leave(j) \/ LogIn(j) \/ Join(j)
    BY <2>3 DEF SteerY, LeaveSlot, Steer, Leave, LogIn, Join, boardVars
  <2>4. CASE UNCHANGED vars
    BY <2>4 DEF vars, boardVars
  <2>5. QED
    BY <2>2, <2>3, <2>4 DEF Next
<1>2. IInv /\ [Next]_vars
      => [\A k \in Slots : clients[k] = "LOOSE" => pos'[k] = pos[k]]_vars
  BY <1>1
<1>3. QED
  BY <1>2, InitIInv, StepIInv, PTL DEF Spec, LosersStop
-----------------------------------------------------------------------------
\* The result.

\* A player who has not left plays or has lost.
PlayersInv == \A k \in starters : clients[k] \in {"PLAYING", "LOOSE"}

\* What main has made out about a player still holds when it tells the player.
VerdictInv == at = "tell" /\ i \in starters /\ ~Freed(i) => verdict = (clients[i] # "LOOSE")

\* The loop has told everybody it has passed.
Passed(k) == (at \in {"award", "tell"} /\ k < i) \/ at = "done"
Told(k) == result[k] = IF clients[k] = "LOOSE" THEN "lost" ELSE "won"
ToldInv == \A k \in starters : Passed(k) => Freed(k) \/ Told(k)

\* As long as nobody has joined, only players are in the table; when isgameOver
\* has said yes, at most one of them has not lost, and nobody else has won.
Final == at \in {"award", "tell", "done"}
LastInv == joins = 0 => /\ Seated \subseteq starters
                        /\ Final => \A j, k \in Seated \ Losers : j = k
                        /\ \A k \in Won : Final /\ k \in Seated \ Losers

EndInv == PlayersInv /\ VerdictInv /\ ToldInv /\ LastInv

LEMMA InitEndInv == Init => EndInv
BY LineupsAssumption DEF Init, EndInv, PlayersInv, VerdictInv, ToldInv, Passed, LastInv, Final,
   Seated, Losers, Won

\* isgameOver counts: if all but one of a finite set are in a part of it, no two
\* of the set are outside the part.
LEMMA AllButOne ==
    ASSUME NEW T, IsFiniteSet(T), NEW L \in SUBSET T, Cardinality(L) >= Cardinality(T) - 1,
           NEW j \in T \ L, NEW k \in T \ L
    PROVE  j = k
<1> SUFFICES ASSUME j # k
             PROVE  FALSE
  OBVIOUS
<1>1. /\ IsFiniteSet(T \ {j}) /\ Cardinality(T \ {j}) = Cardinality(T) - 1
  BY FS_RemoveElement
<1>2. /\ IsFiniteSet((T \ {j}) \ {k})
      /\ Cardinality((T \ {j}) \ {k}) = Cardinality(T \ {j}) - 1
  BY <1>1, FS_RemoveElement
<1>3. L \subseteq (T \ {j}) \ {k}
  OBVIOUS
<1>4. Cardinality(L) <= Cardinality((T \ {j}) \ {k}) /\ Cardinality(L) \in Nat
  BY <1>2, <1>3, FS_Subset, FS_CardinalityType
<1>5. QED
  BY <1>1, <1>2, <1>4, FS_CardinalityType

LEMMA SeatedFinite == IsFiniteSet(Seated)
<1>1. 0 \in Int /\ 3 \in Int
  OBVIOUS
<1>2. IsFiniteSet(Slots)
  BY <1>1, FS_Interval, Zenon DEF Slots
<1>3. QED
  BY <1>2, FS_Subset DEF Seated

\* Main's steps up to the end of a round.
LEMMA RoundEndStep ==
    ASSUME IInv, EndInv,
           \/ InitBoard \/ LoadSnake \/ Tick \/ Check \/ Mark \/ StepX \/ StepY \/ SendBoard
    PROVE  EndInv'
<1>1. /\ ~Final /\ ~Final' /\ at' # "tell"
      /\ UNCHANGED <<starters, result, mover, joins>>
  <2>1. CASE InitBoard \/ Tick \/ SendBoard
    BY <2>1 DEF InitBoard, Tick, SendBoard, Main, Goto, Final
  <2>2. CASE LoadSnake \/ Check
    BY <2>2 DEF LoadSnake, Check, Lose, Loop, GoOn, Main, Final
  <2>3. CASE Mark \/ StepX \/ StepY
    BY <2>3 DEF Mark, StepX, StepY, Loop, GoOn, Main, Final
  <2>4. QED
    BY <2>1, <2>2, <2>3
<1>2. \/ UNCHANGED clients
      \/ i \in Slots /\ clients[i] # "none" /\ clients' = [clients EXCEPT ![i] = "LOOSE"]
  BY DEF InitBoard, LoadSnake, Tick, Check, Lose, Mark, StepX, StepY, SendBoard, IInv, TypeOK
<1>3. PlayersInv'
  BY <1>1, <1>2 DEF EndInv, PlayersInv, IInv, TypeOK
<1>4. VerdictInv' /\ ToldInv'
  BY <1>1 DEF VerdictInv, ToldInv, Passed, Final
<1>5. LastInv'
  BY <1>1, <1>2 DEF EndInv, LastInv, Won, Freed, Seated, Final, IInv, TypeOK
<1>6. QED
  BY <1>3, <1>4, <1>5 DEF EndInv

\* isgameOver.
LEMMA JudgeEndStep ==
    ASSUME IInv, EndInv, Judge
    PROVE  EndInv'
<1>1. /\ at = "judge" /\ i' = 0 /\ at' \in {"award", "sleep"}
      /\ UNCHANGED <<clients, starters, result, mover, joins>>
  BY DEF Judge, Main, Goto
<1>2. PlayersInv'
  BY <1>1 DEF EndInv, PlayersInv
<1>3. VerdictInv' /\ ToldInv'
  BY <1>1 DEF VerdictInv, ToldInv, Passed, IInv, TypeOK, Slots
<1>4. ASSUME joins' = 0
      PROVE  /\ Seated' \subseteq starters'
             /\ \A k \in Won' : Final' /\ k \in Seated' \ Losers'
  BY <1>1, <1>4 DEF EndInv, LastInv, Won, Freed, Seated, Losers, Final
<1>5. ASSUME at' = "award", NEW j \in Seated \ Losers, NEW k \in Seated \ Losers
      PROVE  j = k
  <2>1. PICK lost \in {Losers, { l \in Losers : ~Freed(l) }} : isgameOver(lost)
    BY <1>5 DEF Judge, Goto
  <2>2. lost \subseteq Losers /\ Losers \subseteq Seated
    BY DEF Losers
  <2>3. Cardinality(lost) >= Cardinality(Seated) - 1
    BY <2>1 DEF isgameOver
  <2>4. QED
    BY <2>2, <2>3, AllButOne, SeatedFinite
<1>6. Final' => \A j, k \in Seated' \ Losers' : j = k
  BY <1>1, <1>5 DEF Final, Seated, Losers
<1>7. LastInv'
  BY <1>4, <1>6 DEF LastInv
<1>8. QED
  BY <1>2, <1>3, <1>7 DEF EndInv

\* The loop that tells the players.
LEMMA TellEndStep ==
    ASSUME IInv, EndInv, Award \/ Tell
    PROVE  EndInv'
<1>1. /\ Final /\ Final' /\ i \in Slots /\ UNCHANGED <<clients, starters, mover, joins>>
  BY DEF Award, Tell, Main, Loop, Final, IInv, TypeOK
<1>2. PlayersInv'
  BY <1>1 DEF EndInv, PlayersInv
<1>3. CASE Award
  <2>1. at = "award" /\ result' = result
    BY <1>3 DEF Award, Main
  <2>2. CASE clients[i] = "none"
    <3>1. /\ i \notin starters /\ at' # "tell"
          /\ \A k \in Slots : Passed(k)' => Passed(k) \/ k = i
      BY <1>1, <1>3, <2>1, <2>2 DEF Award, Loop, Passed, EndInv, PlayersInv, Slots
    <3>2. VerdictInv' /\ ToldInv'
      BY <1>1, <2>1, <3>1 DEF EndInv, VerdictInv, ToldInv, Freed, Told, IInv, TypeOK
    <3>3. LastInv'
      BY <1>1, <2>1 DEF EndInv, LastInv, Won, Freed, Seated, Losers
    <3>4. QED
      BY <1>2, <3>2, <3>3 DEF EndInv
  <2>3. CASE clients[i] # "none"
    <3>1. /\ at' = "tell" /\ i' = i /\ (~Freed(i) => verdict' = (clients[i] # "LOOSE"))
      BY <1>3, <2>3 DEF Award
    <3>2. VerdictInv' /\ ToldInv'
      BY <1>1, <2>1, <3>1 DEF EndInv, VerdictInv, ToldInv, Passed, Freed, Told
    <3>3. LastInv'
      BY <1>1, <2>1 DEF EndInv, LastInv, Won, Freed, Seated, Losers
    <3>4. QED
      BY <1>2, <3>2, <3>3 DEF EndInv
  <2>4. QED
    BY <2>2, <2>3
<1>4. CASE Tell /\ clients[i] = "none"
  BY <1>1, <1>2, <1>4 DEF Tell, EndInv, VerdictInv, ToldInv, LastInv, Passed, Freed, Told, Won,
     Seated, Losers
<1>5. CASE Tell /\ clients[i] # "none"
  <2>1. /\ at = "tell" /\ at' # "tell"
        /\ result' = [result EXCEPT ![i] = IF verdict THEN "won" ELSE "lost"]
        /\ \A k \in Slots : Passed(k)' => Passed(k) \/ k = i
    BY <1>1, <1>5 DEF Tell, Main, Loop, Passed, Slots
  <2>2. /\ \A k \in Slots \ {i} : result'[k] = result[k]
        /\ result'[i] = IF verdict THEN "won" ELSE "lost"
    BY <1>1, <2>1 DEF IInv, TypeOK
  <2>3. i \in starters /\ ~Freed(i) => verdict = (clients[i] # "LOOSE")
    BY <2>1 DEF EndInv, VerdictInv
  <2>4. VerdictInv'
    BY <2>1 DEF VerdictInv
  <2>5. ToldInv'
    BY <1>1, <2>1, <2>2, <2>3 DEF EndInv, ToldInv, Freed, Told, IInv, TypeOK
  <2>6. ASSUME joins = 0, NEW k \in Won'
        PROVE  k \in Seated \ Losers
    <3>1. k \in Slots /\ result'[k] = "won" /\ ~Freed(k)
      BY <1>1 DEF Won, Freed
    <3>2. CASE k # i
      BY <2>2, <2>6, <3>1, <3>2 DEF EndInv, LastInv, Won
    <3>3. CASE k = i
      <4>1. i \in Seated /\ i \in starters
        BY <1>1, <1>5, <2>6 DEF Seated, EndInv, LastInv
      <4>2. verdict
        BY <2>2, <3>1, <3>3
      <4>3. clients[i] # "LOOSE"
        BY <2>3, <3>1, <3>3, <4>1, <4>2
      <4>4. QED
        BY <3>3, <4>1, <4>3 DEF Losers
    <3>4. QED
      BY <3>2, <3>3
  <2>7. LastInv'
    BY <1>1, <2>6 DEF EndInv, LastInv, Seated, Losers
  <2>8. QED
    BY <1>2, <2>4, <2>5, <2>7 DEF EndInv
<1>6. QED
  BY <1>3, <1>4, <1>5
\* Players turn and quit, clients come.
LEMMA OtherEndStep ==
    ASSUME IInv, EndInv,
           \/ SteerY \/ LeaveSlot
           \/ \E k \in Slots : \/ \E d \in Arrows : Steer(k, d)
                               \/ Leave(k) \/ LogIn(k) \/ Join(k)
    PROVE  EndInv'
<1>1. UNCHANGED <<at, i, verdict>>
  BY DEF SteerY, LeaveSlot, Steer, Leave, LogIn, Join, mainVars
<1>2. CASE SteerY \/ \E k \in Slots : \E d \in Arrows : Steer(k, d)
  <2>1. /\ UNCHANGED <<clients, starters, result, joins>>
        /\ mover.op # "leave" /\ mover'.op # "leave"
    BY <1>2 DEF SteerY, Steer, Idle, mainVars, IInv, TypeOK
  <2>2. QED
    BY <1>1, <2>1 DEF EndInv, PlayersInv, VerdictInv, ToldInv, Passed, Told, LastInv, Final, Won,
       Freed, Seated, Losers
<1>3. CASE LeaveSlot
  <2>1. /\ mover.op = "leave" /\ mover.k \in Slots /\ mover' = Idle /\ joins' = joins
        /\ clients' = [clients EXCEPT ![mover.k] = "none"]
        /\ starters' = starters \ {mover.k}
        /\ result' = [result EXCEPT ![mover.k] = "none"]
    BY <1>3 DEF LeaveSlot, Idle, IInv, TypeOK
  <2>2. /\ clients'[mover.k] = "none" /\ result'[mover.k] = "none"
        /\ \A k \in Slots \ {mover.k} : clients'[k] = clients[k] /\ result'[k] = result[k]
    BY <2>1 DEF IInv, TypeOK
  <2>3. \A k \in Slots : ~Freed(k)' /\ (k # mover.k => ~Freed(k))
    BY <2>1 DEF Freed, Idle
  <2>4. PlayersInv' /\ VerdictInv' /\ ToldInv'
    BY <1>1, <2>1, <2>2, <2>3 DEF EndInv, PlayersInv, VerdictInv, ToldInv, Passed, Told, IInv, TypeOK
  <2>5. Seated' = Seated \ {mover.k} /\ Losers' = Losers \ {mover.k} /\ Won' \subseteq Won \ {mover.k}
    BY <2>2, <2>3 DEF Seated, Losers, Won
  <2>6. LastInv'
    BY <1>1, <2>1, <2>5 DEF EndInv, LastInv, Final
  <2>7. QED
    BY <2>4, <2>6 DEF EndInv
<1>4. ASSUME NEW l \in Slots, Leave(l)
      PROVE  EndInv'
  <2>1. UNCHANGED <<clients, starters, result, joins>> /\ \A k \in Slots : Freed(k) => Freed(k)'
    BY <1>4 DEF Leave, Freed, Idle, mainVars
  <2>2. Seated' = Seated /\ Losers' = Losers /\ Won' \subseteq Won
    BY <2>1 DEF Seated, Losers, Won
  <2>3. QED
    BY <1>1, <2>1, <2>2 DEF EndInv, PlayersInv, VerdictInv, ToldInv, Passed, Told, LastInv, Final,
       IInv, TypeOK
<1>5. ASSUME NEW l \in Slots, LogIn(l)
      PROVE  EndInv'
  <2>1. /\ UNCHANGED <<starters, result, mover, joins>>
        /\ clients[l] = "LOGGING" /\ clients' = [clients EXCEPT ![l] = "WAITING"]
    BY <1>5 DEF LogIn, mainVars
  <2>2. l \notin starters
    BY <2>1 DEF EndInv, PlayersInv
  <2>3. Seated' = Seated /\ Losers' = Losers /\ Won' = Won
    BY <2>1 DEF Seated, Losers, Won, Freed, IInv, TypeOK
  <2>4. QED
    BY <1>1, <2>1, <2>2, <2>3 DEF EndInv, PlayersInv, VerdictInv, ToldInv, Passed, Told, LastInv,
       Final, Freed, IInv, TypeOK
<1>6. ASSUME NEW l \in Slots, Join(l)
      PROVE  EndInv'
  <2>1. /\ UNCHANGED <<starters, result, mover>> /\ joins' # 0
        /\ clients[l] = "none" /\ clients' = [clients EXCEPT ![l] = "LOGGING"]
    BY <1>6, BoundsAssumption DEF Join, mainVars, IInv, TypeOK
  <2>2. l \notin starters
    BY <2>1 DEF EndInv, PlayersInv
  <2>3. QED
    BY <1>1, <2>1, <2>2 DEF EndInv, PlayersInv, VerdictInv, ToldInv, Passed, Told, LastInv,
       Freed, IInv, TypeOK
<1>7. QED
  BY <1>2, <1>3, <1>4, <1>5, <1>6

LEMMA StepEndInv == IInv /\ EndInv /\ [Next]_vars => EndInv'
<1> SUFFICES ASSUME IInv, EndInv, [Next]_vars
             PROVE  EndInv'
  OBVIOUS
<1>1. CASE UNCHANGED vars
  BY <1>1 DEF vars, mainVars, EndInv, PlayersInv, VerdictInv, ToldInv, Passed, Told, LastInv, Final,
     Won, Freed, Seated, Losers
<1>2. QED
  BY <1>1, RoundEndStep, JudgeEndStep, TellEndStep, OtherEndStep DEF Next, MainStep

\* Whoever joins, leaves or turns while main judges the round and tells the players
\* one by one (childServer.c:62-86), every player who stays is told, and told
\* what became of its snake.
THEOREM EveryPlayerTold == Spec => []ResultsTold
<1>1. EndInv => ResultsTold
  BY DEF EndInv, ToldInv, Passed, Told, ResultsTold
<1>2. QED
  BY <1>1, InitIInv, StepIInv, InitEndInv, StepEndInv, PTL DEF Spec

\* If nobody joins, isgameOver's count (childServer.c:90-102) leaves one winner at most,
\* although players leave between the count and the loop that tells them.
THEOREM OneWinner == Spec => []AtMostOneWinner
<1>1. EndInv => AtMostOneWinner
  BY DEF EndInv, LastInv, Won, AtMostOneWinner
<1>2. QED
  BY <1>1, InitIInv, StepIInv, InitEndInv, StepEndInv, PTL DEF Spec
-----------------------------------------------------------------------------
\* What can kill the process.

\* As long as nobody has joined, every player has a snake once the board is loaded,
\* and the one who is being told is there, or its snake is an orphan.
SnakesInv == joins = 0 => /\ \A k \in starters : \/ at \notin {"start", "load"}
                                                 \/ at = "load" /\ k < i
                                                 => pDef[k] # -1
                          /\ at = "tell" => clients[i] # "none" \/ Orphans # {}

KillInv == SnakesInv /\ KilledAtTheEdge

LEMMA InitKillInv == Init => KillInv
BY DEF Init, KillInv, SnakesInv, KilledAtTheEdge

\* What a mark within the columns of the board, or next to it, can reach: the
\* pointers only from the row below the board.
LEMMA MarkAddress ==
    ASSUME NEW p \in Point, p.x <= Side, p.y < Side, NEW k \in Slots
    PROVE  gB(p) \notin pDirBytes(k)
<1>1. Side \in Nat /\ Side > 5 /\ p.x \in Int /\ p.y \in Int /\ Cells \in Nat /\ k \in 0 .. 3
  <2>1. Side * Side \in Nat
    BY SideAssumption
  <2>2. QED
    BY <2>1, SideAssumption DEF Point, Cells, Slots
<1>2. p.y * Side <= (Side - 1) * Side
  BY <1>1
<1>3. (Side - 1) * Side = Cells - Side
  BY <1>1 DEF Cells
<1>4. p.y * Side \in Int
  BY <1>1
<1>5. gB(p) \in Int /\ gB(p) <= 2 * Cells
  BY <1>1, <1>2, <1>3, <1>4 DEF gB, bB
<1>6. \A b \in pDirBytes(k) : b \in Int /\ b > 2 * Cells
  BY <1>1 DEF pDirBytes
<1>7. gB(p) \in pDirBytes(k) => gB(p) > 2 * Cells
  BY <1>6
<1>8. QED
  BY <1>1, <1>5, <1>7

\* Mark kills the process only through a pointer that is lost or before the struct,
\* and loses a pointer only below the board.
LEMMA MarkFacts ==
    ASSUME IInv, Mark
    PROVE  /\ alive' = FALSE => i \in wild' \/ bB(Ahead(i))' < 0
           /\ wild' # wild => pos[i].y = Side - 1 /\ Ahead(i).y = Side
<1>1. /\ at = "mark" /\ i \in Slots /\ ~outOfBoard(pos[i])
      /\ pos[i].x \in Int /\ pos[i].y \in Int /\ dir[i].x \in -1 .. 1 /\ dir[i].y \in -1 .. 1
  BY AheadFacts DEF Mark, Main, IInv, TypeOK, MovingInv
<1>2. alive
  BY DEF Mark, Main
<1>3. CASE i \in wild \/ bB(Ahead(i)) < 0
  BY <1>3 DEF Mark, Ahead
<1>4. CASE ~(i \in wild \/ bB(Ahead(i)) < 0)
  <2>1. alive' = alive /\ wild' = wild \cup { k \in Slots : gB(Ahead(i)) \in pDirBytes(k) }
    BY <1>4 DEF Mark
  <2>2. CASE wild' = wild
    BY <1>2, <2>1, <2>2
  <2>3. CASE wild' # wild
    <3>1. PICK k \in Slots : gB(Ahead(i)) \in pDirBytes(k)
      BY <2>1, <2>3
    <3>2. /\ Ahead(i) \in Point /\ Ahead(i).x = pos[i].x + dir[i].x
          /\ Ahead(i).y = pos[i].y + dir[i].y
      BY <1>1 DEF Ahead, Plus, Pt, Point
    <3>3. pos[i].x < Side /\ pos[i].y < Side
      BY <1>1, SideAssumption DEF outOfBoard
    <3>4. Ahead(i).x <= Side /\ Ahead(i).y <= Side
      BY <1>1, <3>2, <3>3, SideAssumption
    <3>5. ~(Ahead(i).y < Side)
      BY <3>1, <3>2, <3>4, MarkAddress
    <3>6. pos[i].y = Side - 1 /\ Ahead(i).y = Side
      BY <1>1, <3>2, <3>3, <3>4, <3>5, SideAssumption
    <3>7. QED
      BY <1>2, <2>1, <3>6
  <2>4. QED
    BY <2>2, <2>3
<1>5. QED
  BY <1>3, <1>4
\* Main's steps up to the move of a snake.
LEMMA RoundKillStep ==
    ASSUME IInv, EndInv, KillInv, InitBoard \/ LoadSnake \/ Tick \/ Check \/ Mark
    PROVE  KillInv'
<1>1. /\ i \in Slots /\ at' # "tell" /\ alive
      /\ UNCHANGED <<starters, joins, mover>>
  BY DEF InitBoard, LoadSnake, Tick, Check, Lose, Mark, Loop, Goto, GoOn, Main, IInv, TypeOK
<1>2. CASE InitBoard \/ Tick
  <2>1. UNCHANGED <<pDef, alive>> /\ (at' = "load" => i' = 0) /\ (at = "start" => at' = "load")
        /\ (at # "start" => at = "sleep")
    BY <1>2 DEF InitBoard, Tick, Goto, Main, boardVars
  <2>2. SnakesInv'
    BY <1>1, <2>1 DEF KillInv, SnakesInv, IInv, TypeOK, Slots
  <2>3. QED
    BY <1>1, <2>1, <2>2 DEF KillInv, KilledAtTheEdge
<1>3. CASE LoadSnake
  <2>1. /\ at = "load" /\ alive' = alive
        /\ \A k \in Slots : at' # "load" \/ k < i' => k < i \/ k = i
    BY <1>1, <1>3 DEF LoadSnake, Loop, Main, Slots
  <2>2. i \in starters => pDef'[i] = 0
    BY <1>1, <1>3 DEF LoadSnake, Seated, EndInv, PlayersInv, IInv, TypeOK
  <2>3. \A k \in Slots \ {i} : pDef'[k] = pDef[k]
    BY <1>3 DEF LoadSnake, IInv, TypeOK
  <2>4. SnakesInv'
    BY <1>1, <2>1, <2>2, <2>3 DEF KillInv, SnakesInv, IInv, TypeOK
  <2>5. QED
    BY <1>1, <2>1, <2>4 DEF KillInv, KilledAtTheEdge
<1>4. CASE Check
  <2>1. /\ at = "check" /\ at' \notin {"start", "load"} /\ wild' = wild
        /\ \A k \in Slots : pDef[k] # -1 => pDef'[k] # -1
    <3>1. at = "check" /\ wild' = wild /\ at' \in {"check", "send", "mark"}
      BY <1>4 DEF Check, Lose, Loop, GoOn, Main
    <3>2. pDef' = pDef \/ pDef' = [pDef EXCEPT ![i] = 1]
      BY <1>4 DEF Check, Lose
    <3>3. pDef \in [Slots -> -1 .. 4]
      BY DEF IInv, TypeOK
    <3>4. QED
      BY <3>1, <3>2, <3>3
  <2>2. SnakesInv'
    BY <1>1, <2>1 DEF KillInv, SnakesInv, IInv, TypeOK
  <2>3. alive' = FALSE => \/ i \in wild
                          \/ pDef[i] = 0 /\ pDef'[i] = 0 /\ (clients[i] = "none" \/ Freed(i))
    BY <1>1, <1>4 DEF Check, Lose, GoOn
  <2>4. clients[i] = "none" => i \notin starters
    BY DEF EndInv, PlayersInv
  <2>5. KilledAtTheEdge'
    BY <1>1, <2>1, <2>3, <2>4 DEF KilledAtTheEdge, Orphans, Freed, IInv, TypeOK
  <2>6. QED
    BY <2>2, <2>5 DEF KillInv
<1>5. CASE Mark
  <2>1. /\ at = "mark" /\ at' \notin {"start", "load"}
        /\ \A k \in Slots : pDef[k] # -1 => pDef'[k] # -1
    <3>1. i + 1 # -1
      BY <1>1 DEF Slots
    <3>2. QED
      BY <1>5, <3>1 DEF Mark, GoOn, Main
  <2>2. SnakesInv'
    BY <1>1, <2>1 DEF KillInv, SnakesInv, IInv, TypeOK
  <2>3. alive' = FALSE => i \in wild' \/ bB(Ahead(i))' < 0
    BY <1>5, MarkFacts
  <2>4. KilledAtTheEdge'
    <3>1. alive' \in BOOLEAN
      BY <1>5 DEF Mark, IInv, TypeOK
    <3>2. QED
      BY <2>3, <3>1 DEF KilledAtTheEdge
  <2>5. QED
    BY <2>2, <2>4 DEF KillInv
<1>6. QED
  BY <1>2, <1>3, <1>4, <1>5

\* Main's steps from the move of a snake on.
LEMMA EndKillStep ==
    ASSUME IInv, EndInv, KillInv, StepX \/ StepY \/ SendBoard \/ Judge \/ Award \/ Tell
    PROVE  KillInv'
<1>1. /\ at \notin {"start", "load"} /\ at' \notin {"start", "load"} /\ alive /\ i \in Slots
      /\ UNCHANGED <<clients, starters, joins, mover, pDef, wild>>
  BY DEF StepX, StepY, SendBoard, Judge, Award, Tell, Loop, Goto, GoOn, Main, boardVars, IInv, TypeOK
<1>2. at' = "tell" => clients[i'] # "none" \/ (at = "tell" /\ i' = i)
  BY DEF StepX, StepY, SendBoard, Judge, Award, Tell, Loop, Goto, GoOn, Main
<1>3. SnakesInv'
  BY <1>1, <1>2 DEF KillInv, SnakesInv, Orphans
<1>4. alive' = FALSE => \/ i \in wild
                        \/ \E k \in Slots : Freed(k)
                        \/ clients[i] = "LOGGING"
                        \/ at = "tell" /\ clients[i] = "none"
  BY <1>1 DEF StepX, StepY, SendBoard, Judge, Award, Tell, GoOn, Main
<1>5. joins = 0 => clients[i] # "LOGGING"
  BY <1>1 DEF EndInv, LastInv, PlayersInv, Seated
<1>6. KilledAtTheEdge'
  <2>1. joins \in Nat
    BY BoundsAssumption DEF IInv, TypeOK
  <2>2. (\E k \in Slots : Freed(k)) => mover.op = "leave"
    BY DEF Freed
  <2>3. joins = 0 /\ at = "tell" /\ clients[i] = "none" => Orphans # {}
    BY DEF KillInv, SnakesInv
  <2>4. Orphans' = Orphans
    BY <1>1 DEF Orphans
  <2>5. QED
    BY <1>1, <1>4, <1>5, <2>1, <2>2, <2>3, <2>4 DEF KilledAtTheEdge
<1>7. QED
  BY <1>3, <1>6 DEF KillInv

\* Players turn and quit, clients come.
LEMMA OtherKillStep ==
    ASSUME IInv, EndInv, KillInv,
           \/ SteerY \/ LeaveSlot
           \/ \E k \in Slots : \/ \E d \in Arrows : Steer(k, d)
                               \/ Leave(k) \/ LogIn(k) \/ Join(k)
    PROVE  KillInv'
<1>1. /\ UNCHANGED <<at, i, pDef, wild>> /\ alive /\ i \in Slots
      /\ starters' \subseteq starters
      /\ joins \in Nat /\ joins' \in Nat /\ (joins' = 0 => joins = 0)
  <2>1. /\ UNCHANGED <<at, i, pDef, wild>> /\ alive /\ starters' \subseteq starters
        /\ joins' = joins \/ joins' = joins + 1
    BY DEF SteerY, LeaveSlot, Steer, Leave, LogIn, Join, Running, boardVars, mainVars
  <2>2. i \in Slots /\ joins \in Nat
    BY BoundsAssumption DEF IInv, TypeOK
  <2>3. QED
    BY <2>1, <2>2
<1>2. Orphans \subseteq Orphans'
  BY <1>1 DEF Orphans
<1>3. ASSUME joins' = 0, at' = "tell"
      PROVE  clients'[i] # "none" \/ Orphans' # {}
  <2>1. clients[i] # "none" \/ Orphans # {}
    BY <1>1, <1>3 DEF KillInv, SnakesInv
  <2>2. CASE LeaveSlot /\ mover.k = i /\ clients[i] # "none"
    <3>1. i \in starters
      BY <1>1, <1>3, <2>2 DEF EndInv, LastInv, Seated
    <3>2. pDef[i] # -1
      BY <1>1, <1>3, <3>1 DEF KillInv, SnakesInv
    <3>3. i \in Orphans'
      BY <1>1, <2>2, <3>2 DEF Orphans, LeaveSlot
    <3>4. QED
      BY <3>3
  <2>3. CASE ~(LeaveSlot /\ mover.k = i) /\ clients[i] # "none"
    <3>1. clients'[i] # "none"
      BY <1>1, <2>3 DEF SteerY, LeaveSlot, Steer, Leave, LogIn, Join, IInv, TypeOK
    <3>2. QED
      BY <3>1
  <2>4. QED
    BY <1>2, <2>1, <2>2, <2>3
<1>4. SnakesInv'
  BY <1>1, <1>3 DEF KillInv, SnakesInv
<1>5. alive' \in BOOLEAN
  BY DEF SteerY, LeaveSlot, Steer, Leave, LogIn, Join, boardVars, mainVars, IInv, TypeOK
<1>6. ASSUME alive' = FALSE, joins' = 0
      PROVE  at \in {"start", "load"} \/ mover'.op = "leave" \/ wild # {}
  <2>1. CASE SteerY
    BY <1>1, <1>6, <2>1 DEF SteerY
  <2>2. ASSUME NEW k \in Slots, NEW d \in Arrows, Steer(k, d)
        PROVE  at \in {"start", "load"} \/ wild # {}
    <3>1. k \in starters /\ (at = "start" \/ pDef[k] = -1 \/ k \in wild)
      BY <1>1, <1>6, <2>2 DEF Steer
    <3>2. pDef[k] = -1 => at \in {"start", "load"}
      BY <1>1, <1>6, <3>1 DEF KillInv, SnakesInv
    <3>3. QED
      BY <3>1, <3>2
  <2>3. CASE \E k \in Slots : Leave(k)
    BY <2>3 DEF Leave
  <2>4. CASE LeaveSlot \/ \E k \in Slots : LogIn(k) \/ Join(k)
    BY <1>1, <1>6, <2>4 DEF LeaveSlot, LogIn, Join
  <2>5. QED
    BY <2>1, <2>2, <2>3, <2>4
<1>7. ~alive' => alive' = FALSE
  BY <1>5
<1>8. joins' = 0 \/ joins' > 0
  BY <1>1
<1>9. KilledAtTheEdge'
  BY <1>1, <1>6, <1>7, <1>8 DEF KilledAtTheEdge
<1>10. QED
  BY <1>4, <1>9 DEF KillInv

LEMMA StepKillInv == IInv /\ EndInv /\ KillInv /\ [Next]_vars => KillInv'
<1> SUFFICES ASSUME IInv, EndInv, KillInv, [Next]_vars
             PROVE  KillInv'
  OBVIOUS
<1>1. CASE UNCHANGED vars
  BY <1>1 DEF vars, boardVars, mainVars, KillInv, SnakesInv, KilledAtTheEdge, Orphans, Ahead
<1>2. QED
  BY <1>1, RoundKillStep, EndKillStep, OtherKillStep DEF Next, MainStep

\* Nothing guards an index of the board or a pointer of updateBoard (game.c:87-104),
\* but until a snake leaves the board there is nothing to guard.
THEOREM OnlyTheEdgeKills == Spec => []KilledAtTheEdge
<1>1. KillInv => KilledAtTheEdge
  BY DEF KillInv
<1>2. QED
  BY <1>1, InitIInv, StepIInv, InitEndInv, StepEndInv, InitKillInv, StepKillInv, PTL DEF Spec

\* A mark overwrites a pointer of pDir only when its snake has reached the bottom row
\* and goes on: no cell of the board, and no cell next to its other three edges, is
\* where a pointer lies (game.h, GameBoard).
PointersKept == [][ wild' # wild => pos[i].y = Side - 1 /\ Ahead(i).y = Side ]_vars

THEOREM PointersLostBelow == Spec => PointersKept
<1>1. IInv /\ [Next]_vars => [wild' # wild => pos[i].y = Side - 1 /\ Ahead(i).y = Side]_vars
  <2> SUFFICES ASSUME IInv, [Next]_vars, wild' # wild
               PROVE  pos[i].y = Side - 1 /\ Ahead(i).y = Side
    OBVIOUS
  <2>1. Mark
    BY DEF Next, MainStep, InitBoard, LoadSnake, Tick, Check, StepX, StepY, SendBoard, Judge, Award,
       Tell, SteerY, LeaveSlot, Steer, Leave, LogIn, Join, vars, boardVars
  <2>2. QED
    BY <2>1, MarkFacts
<1>2. QED
  BY <1>1, InitIInv, StepIInv, PTL DEF Spec, PointersKept
=============================================================================
