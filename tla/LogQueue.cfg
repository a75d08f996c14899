\* Two processes; a queue of three lines, so that a line may be between an older
\* and a more urgent one, which is full after the third; the log server dies twice.
CONSTANTS
    Processes = {p1, p2}
    Capacity = 3
    MaxLines = 4
    MaxCrashes = 2
SPECIFICATION FairSpec
INVARIANTS PrintedOnceInOrder
PROPERTIES ErrorsArePrinted
\* A log server waits for lines, or to be started.
CHECK_DEADLOCK FALSE
