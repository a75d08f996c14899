\* Three interchangeable clients that stay; everybody stops when nobody types.
CONSTANTS
    c1 = c1
    c2 = c2
    c3 = c3
    u1 = u1
    u2 = u2
    u3 = u3
    p1 = p1
    p2 = p2
    MaxPlayers = 3
    Conns = {c1, c2, c3}
    Names = {u1, u2, u3}
    Passwords = {p1}
    Null = Null
    Unset = Unset
    NoAccount = NoAccount
    StaleFdBits = FALSE
    UserOf <- OwnNames
    MaxBurst = 1
    MaxInputs <- TwoInputs
    Leavers = {}
CHECK_DEADLOCK FALSE
SPECIFICATION Spec
SYMMETRY Players3
INVARIANTS LobbyShowsOthers ClientStartsWithServer
PROPERTIES OnlyNewcomersDragged
