----------------------------- MODULE GameBoard ------------------------------
(***************************************************************************)
(* The board of a game (game.c, game.h) as the memory it is.  The struct   *)
(* GameBoard holds bB, the cells a snake may not enter, gB, the cells that *)
(* are shown, numPl, pDef and the pointers pDir, one after the other, and  *)
(* nothing checks an index: one step over the edge of the board is an      *)
(* address in another row, another field, or before the struct.            *)
(*                                                                         *)
(* Byte 0 is bB[0][0].  Of a cell of bB and gB the model keeps whether it  *)
(* holds TAIL_CHAR.                                                        *)
(***************************************************************************)
EXTENDS Integers

CONSTANT Side  \* BOARD_WIDTH and BOARD_HEIGHT

ASSUME SideAssumption == Side \in Nat /\ Side > 5

Slots == 0 .. 3  \* MAX_PLAYERS is 4

Cells == Side * Side

Point == [x : Int, y : Int]
Pt(x, y) == [x |-> x, y |-> y]
Plus(p, d) == Pt(p.x + d.x, p.y + d.y)
Arrows == {Pt(0, 1), Pt(0, -1), Pt(-1, 0), Pt(1, 0)}

\* The bytes of bB[p.y][p.x] and gB[p.y][p.x].
bB(p) == p.y * Side + p.x
gB(p) == Cells + bB(p)

\* The last two bytes of the layout that a step over the edge can reach: pDef,
\* right after numPl, and the pointers of pDir, 8 bytes each and aligned.
pDefByte(k) == 2 * Cells + 1 + k
pDirBytes(k) == LET first == 8 * ((2 * Cells + 5 + 7) \div 8) + 8 * k
                IN  first .. first + 7

outOfBoard(p) == p.x < 0 \/ p.x >= Side \/ p.y < 0 \/ p.y >= Side

\* loadSnakeNumber: where the head of snake k + 1 starts and where it goes.
StartHead(k) == CASE k = 0 -> Pt(Side - 5, Side \div 2)
                  [] k = 1 -> Pt(5, Side \div 2)
                  [] k = 2 -> Pt(Side \div 2, 5)
                  [] k = 3 -> Pt(Side \div 2, Side - 5)
StartDir(k) == CASE k = 0 -> Pt(-1, 0)
                 [] k = 1 -> Pt(1, 0)
                 [] k = 2 -> Pt(0, 1)
                 [] k = 3 -> Pt(0, -1)

\* loadSnake: the head and the three cells behind it become TAIL_CHAR.
StartTail(k) ==
    { bB(Pt(StartHead(k).x - n * StartDir(k).x, StartHead(k).y - n * StartDir(k).y)) : n \in 0 .. 3 }
=============================================================================
