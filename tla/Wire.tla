-------------------------------- MODULE Wire --------------------------------
(***************************************************************************)
(* What a child server and its clients share: the slots of the lobby, the  *)
(* texts that players type, and the messages that cross a connection.  A   *)
(* message is the struct that marshalling.c turns into one 0-terminated    *)
(* string; its layout is not modelled.  The score of a PLAYER is display   *)
(* only and left out; BOARD and POINT belong to the game, not the lobby.   *)
(***************************************************************************)
EXTENDS Integers, Sequences

CONSTANTS MaxPlayers,  \* MAX_PLAYERS
          Conns,       \* the client processes; each connects once
          Names,       \* the names of accounts
          Passwords,   \* the passwords that players type
          Null,        \* an empty slot
          Unset        \* a name field that malloc returned and nobody wrote

Texts == Names \cup Passwords

ASSUME MaxPlayersAssumption == MaxPlayers \in Nat \ {0}
ASSUME NullAssumption ==
    /\ Null \notin Conns
    /\ Null \notin [con : Conns, name : Texts \cup {Unset},
                    state : {"LOGGING", "WAITING", "READY_PLAY", "PLAYING"},
                    expecting : {"USER", "NEWPASSWORD", "PASSWORD", "READY_TO_PLAY", "MOVEMENT"}]
    /\ Null \notin [name : Texts \cup {Unset}, ready : BOOLEAN]
ASSUME UnsetAssumption == Unset \notin Texts

Slots == 0 .. MaxPlayers - 1

\* marshString, marshBoolean and marshPlayer; closeConn sends the empty string.
StringMsg(s) == [type |-> "STRING", text |-> s]
BooleanMsg(b) == [type |-> "BOOLEAN", flag |-> b]
PlayerMsg(num, name, ready) ==
    [type |-> "PLAYER", num |-> num, name |-> name, ready |-> ready]
Bye == [type |-> "BYE"]

ClientMessages == {StringMsg(s) : s \in Texts} \cup {BooleanMsg(b) : b \in BOOLEAN} \cup {Bye}

ServerMessages ==
    {StringMsg(k) : k \in Slots} \cup {BooleanMsg(b) : b \in BOOLEAN}
        \cup { PlayerMsg(k, n, r) : k \in Slots, n \in Texts \cup {Unset}, r \in BOOLEAN }
=============================================================================
