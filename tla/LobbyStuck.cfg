\* Two players who get ready and a third client that only connects, logs in
\* or quits.  Everybody stops when nobody types.
CONSTANTS
    c1 = c1
    c2 = c2
    c3 = c3
    u1 = u1
    u2 = u2
    u3 = u3
    p1 = p1
    p2 = p2
    MaxPlayers = 3
    Conns = {c1, c2, c3}
    Names = {u1, u2, u3}
    Passwords = {p1}
    Null = Null
    Unset = Unset
    NoAccount = NoAccount
    StaleFdBits = TRUE
    UserOf <- OwnNames
    MaxBurst = 1
    MaxInputs <- ThirdIdle
    Leavers = {c3}
CHECK_DEADLOCK FALSE
SPECIFICATION Spec
INVARIANTS ReadyLobbyHasStarted
