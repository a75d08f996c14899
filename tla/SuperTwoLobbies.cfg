\* Two lobbies, four clients, three of them enough to close one.
CONSTANTS
    Clients = {a, b, c, d}
    NoClient = NoClient
    Lobbies = {1, 2}
    LastLobby = 3
    ListenLocation = 0
    MaxForks = 3
    MaxPlayers = 2
    GamesEnd = TRUE
SPECIFICATION FairSpec
INVARIANTS OneServerPerLobby OnlyOvertakenStay
PROPERTIES CrashOnlyWhileStarting LobbyReopens
\* When no client is left, or none that is not stuck, all wait for ever.
CHECK_DEADLOCK FALSE
