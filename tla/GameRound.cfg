\* Two or three players; the first may leave, one client may come, and somebody
\* turns once, each at any moment.
CONSTANTS
    Side = 20
    Lineups = {{0, 2}, {0, 1, 2}}
    MaxTurns = 1
    Leavers = {0}
    MaxJoins = 1
SPECIFICATION FairSpec
INVARIANTS OneStepOut AtMostOneWinner ResultsTold 
PROPERTIES LosersStop 
\* The process exits when the game is over.
CHECK_DEADLOCK FALSE
