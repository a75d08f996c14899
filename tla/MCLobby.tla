------------------------------ MODULE MCLobby -------------------------------
(***************************************************************************)
(* Small lobbies for TLC.                                                  *)
(***************************************************************************)
EXTENDS Lobby, TLC

CONSTANTS c1, c2, c3, u1, u2, u3, p1, p2

\* Every client has a player of its own.
OwnNames == c1 :> u1 @@ c2 :> u2 @@ c3 :> u3
OwnNames2 == c1 :> u1 @@ c2 :> u2

TwoInputs == [c \in Conns |-> 2]
FirstTakesBack == c1 :> 3 @@ c2 :> 2
ThirdIdle == c1 :> 2 @@ c2 :> 2 @@ c3 :> 0

\* The three clients are interchangeable, each together with its player's name.
\* Only runs without a liveness property use this.
Players3 ==
    { [x \in {c1, c2, c3, u1, u2, u3} |->
          IF x \in {c1, c2, c3} THEN perm[x] ELSE OwnNames[perm[CHOOSE c \in {c1, c2, c3} : OwnNames[c] = x]]]
      : perm \in Permutations({c1, c2, c3}) }
=============================================================================
