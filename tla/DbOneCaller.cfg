CONSTANTS
    Users = {u1, u2}
    Passwords = {p1, p2}
    Scores = {0, 7}
    NoAccount = NoAccount
    NoArg = NoArg
    Callers = {c1}
    Mortals = {}
    Db = Db
    Nobody = Nobody
    NoCall = NoCall
SPECIFICATION FairSpec
PROPERTIES EveryCallReturns ImplementsService
