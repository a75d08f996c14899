----------------------------- MODULE MCGameLink ------------------------------
(***************************************************************************)
(* Two clients and a short game for TLC.                                   *)
(***************************************************************************)
EXTENDS GameLink

CONSTANTS na, nb, nc  \* letters

LinkConns == { Down(k) : k \in Slots } \cup { Up(k) : k \in Slots }
LinkReaders == { Client(k) : k \in Slots } \cup {Server}
LinkReaderOf == [c \in LinkConns |-> IF c[1] = "up" THEN Server ELSE Client(c[2])]
LinkSize == [m \in LinkMessages |-> Len(Data[m]) + 1]

\* The first score is longer than the second, and the first name too: the
\* second is read over the first.
AnnouncedPlayers ==
    << [name |-> <<na, nb>>, num |-> 0, score |-> 390, ready |-> 1],
       [name |-> <<nc>>, num |-> 1, score |-> 59, ready |-> 1] >>

SecondTurns == [k \in Slots |-> k]

\* Boards of 20 rows and columns, 408 bytes as a message.
Drawn(t) == [rows |-> 20, columns |-> 20,
             board |-> [row \in 0 .. 19 |-> [column \in 0 .. 19 |->
                           IF row = column THEN t ELSE IF column < t THEN 2 ELSE 0]]]
TwoBoards == << Drawn(1), Drawn(2) >>
=============================================================================
