\* Sizes for a short game: a read does not hold its two boards, and a pipe does
\* not hold them behind what the lobby sent.  The second player turns once, may
\* quit, and may win.
CONSTANTS
    na = na
    nb = nb
    nc = nc
    Sep = Sep
    Nobody = Nobody
    Letters = {na, nb, nc}
    Slots = {0, 1}
    Conns <- LinkConns
    Readers <- LinkReaders
    ReaderOf <- LinkReaderOf
    Messages <- LinkMessages
    Size <- LinkSize
    BufferSize = 700
    PipeSize = 830
    ShortReads = {400}
    Announced <- AnnouncedPlayers
    Boards <- TwoBoards
    MaxPoints <- SecondTurns
    Winners = {1, Nobody}
    Quitters = {1}
SPECIFICATION FairLinkSpec
INVARIANTS WholeUnlessBehind EndsWithServer  RequestIsOwn 
PROPERTIES AllAreTold
\* Everybody exits at the end, or waits for a client that has stopped.
CHECK_DEADLOCK FALSE
