\* Two clients, of which the second may quit at any moment; a server that has
\* started the game, or whose players are idle, stops.
CONSTANTS
    c1 = c1
    c2 = c2
    c3 = c3
    u1 = u1
    u2 = u2
    u3 = u3
    p1 = p1
    p2 = p2
    MaxPlayers = 2
    Conns = {c1, c2}
    Names = {u1, u2}
    Passwords = {p1, p2}
    Null = Null
    Unset = Unset
    NoAccount = NoAccount
    StaleFdBits = FALSE
    UserOf <- OwnNames2
    MaxBurst = 1
    MaxInputs <- FirstTakesBack
    Leavers = {c2}
CHECK_DEADLOCK FALSE
SPECIFICATION FairSpec
 
PROPERTIES KeepsTable  ReadyLobbyStarts  LeaverRemoved
