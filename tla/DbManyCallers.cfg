CONSTANTS
    Users = {u1}
    Passwords = {p1}
    Scores = {0}
    NoAccount = NoAccount
    NoArg = NoArg
    Callers = {c1, c2}
    Mortals = {c2}
    Db = Db
    Nobody = Nobody
    NoCall = NoCall
SPECIFICATION FairSpec
INVARIANTS OnlyWholeRequestsServed ServedAtMostOnce
PROPERTIES SlotIsFreed DeadLockStays
CHECK_DEADLOCK FALSE
