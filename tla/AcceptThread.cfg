\* Three slots and five connections: the table fills, connections wait while it
\* is full, and slots below and above the scan's index are cleared under it.
CONSTANTS
    MaxPlayers = 3
    Conns = {c1, c2, c3, c4, c5}
    Null = Null
SPECIFICATION FairSpec
INVARIANTS TypeOK SeatIsFree
PROPERTIES ImplementsTable 
\* The thread may wait for ever in accept once every connection has left.
CHECK_DEADLOCK FALSE
