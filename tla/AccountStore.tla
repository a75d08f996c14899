---------------------------- MODULE AccountStore ----------------------------
(***************************************************************************)
(* The player table of players.db and what each function of db.c reads     *)
(* from it, writes to it and leaves in the shared answer (db.c:66-161).    *)
(* SQL itself is external: a name is a primary key, so a row exists or not.*)
(***************************************************************************)
EXTENDS Integers

CONSTANTS Users,      \* account names
          Passwords,  \* passwords
          Scores,     \* scores, natural numbers
          NoAccount,  \* the absence of a row
          NoArg       \* the second argument of a request that has none

ASSUME ScoresAssumption == Scores \subseteq Nat /\ 0 \in Scores
ASSUME NoAccountAssumption == NoAccount \notin [pass : Passwords, score : Scores]

Accounts == [pass : Passwords, score : Scores]
Stores == [Users -> Accounts \cup {NoAccount}]

Requests ==
    [type : {"ISUSER", "GETHIGHSCORE"}, user : Users, arg : {NoArg}]
        \cup [type : {"ISPASSWORD", "CREATEUSER"}, user : Users, arg : Passwords]
        \cup [type : {"SETHIGHSCORE"}, user : Users, arg : Scores]

\* The bytes at RETURNPOS as the two ways a caller reads them: the first byte
\* (zero or not) and the decimal number that atoi finds.
Byte(b) == [byte |-> b, text |-> 0]
Text(n) == [byte |-> IF n = 0 THEN 0 ELSE 1, text |-> n]
Returns == [byte : {0, 1}, text : Scores]

\* SELECT Count(*) ... WHERE name = user
isUser(store, user) == IF store[user] = NoAccount THEN 0 ELSE 1

isPassword(store, user, pass) ==
    IF store[user] # NoAccount /\ store[user].pass = pass THEN 1 ELSE 0

\* A missing row has column value 0.
getHighscore(store, user) ==
    IF store[user] = NoAccount THEN 0 ELSE store[user].score

\* INSERT fails on an existing name and then returns 1.
createUser(store, user) == IF store[user] = NoAccount THEN 0 ELSE 1

\* What the branch of the switch in manageDataBase may leave at RETURNPOS.
\* setHighscore falls off its end without a return statement: any byte.
ReturnOf(store, r) ==
    CASE r.type = "ISUSER"       -> {Byte(isUser(store, r.user))}
      [] r.type = "ISPASSWORD"   -> {Byte(isPassword(store, r.user, r.arg))}
      [] r.type = "GETHIGHSCORE" -> {Text(getHighscore(store, r.user))}
      [] r.type = "CREATEUSER"   -> {Byte(createUser(store, r.user))}
      [] r.type = "SETHIGHSCORE" -> {Byte(0), Byte(1)}

\* What it does to the table.  The UPDATE of setHighscore is prepared and
\* finalized but never stepped (db.c:149), so it changes nothing.
StoreAfter(store, r) ==
    IF r.type = "CREATEUSER" /\ store[r.user] = NoAccount
    THEN [store EXCEPT ![r.user] = [pass |-> r.arg, score |-> 0]]
    ELSE store

\* How the caller of a request of this type reads RETURNPOS (dbManager.c:20,
\* 33, 45, 58, 71); no caller looks at what setHighscoreDB returns.
Reading(type, ret) ==
    CASE type = "GETHIGHSCORE" -> ret.text
      [] type = "SETHIGHSCORE" -> 0
      [] OTHER -> ret.byte
=============================================================================
