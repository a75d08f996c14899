CONSTANTS
    Users = {u1, u2}
    Passwords = {p1}
    Scores = {0, 7}
    NoAccount = NoAccount
    NoArg = NoArg
    Callers = {c1, c2}
    Mortals = {}
    Db = Db
    Nobody = Nobody
    NoCall = NoCall
SPECIFICATION Spec
INVARIANTS OwnAnswer
