---------------------------- MODULE LobbyProofs -----------------------------
(***************************************************************************)
(* What is proved of the lobby and its clients, for every number of slots, *)
(* clients, names and passwords: types, who is drawn into a game, who a    *)
(* client is logged in as, when a client starts to play, what the screens  *)
(* show, and who is taken out of the table.                                *)
(*                                                                         *)
(*   IInv       what holds however the players behave                      *)
(*   OwnInv     ... while none sends with a message of it unread: names    *)
(*   TalkInv    ... until a slot is cleared: the dialogue of each client   *)
(*              with the server, queue by queue                            *)
(*   ScreenInv  ... while every player has a name of its own: what is on   *)
(*              its way to a screen, and what is on it                     *)
(*   LoneInv    of two clients, after one was removed: whose a goodbye is  *)
(*                                                                         *)
(* Each of the first four is preserved given those above it.  Most lemmas  *)
(* restate one action in terms of the values it gives (...Facts), or carry *)
(* an invariant over it (...IInv, ...OwnInv, ...Talk, ...Screen).          *)
(***************************************************************************)
EXTENDS Lobby, SequenceTheorems, TLAPS

Conn(k) == clients[k].con
Seat(k) == clients[k] # Null

\* The request that the reading thread resolves is that of a client in the table.
CurInv == at # "select" => Seat(cur)

\* What a client is asked for next goes with the state it is in.
StateInv == \A k \in Slots : Seat(k) =>
    /\ (clients[k].state \in {"WAITING", "READY_PLAY"} <=> clients[k].expecting = "READY_TO_PLAY")
    /\ (clients[k].state = "PLAYING" <=> clients[k].expecting = "MOVEMENT")

\* When all are ready, only clients that connect meanwhile are not.
StartInv == at = "start" => \A k \in Slots : Seat(k) =>
    \/ clients[k].state = "READY_PLAY"
    \/ clients[k].state = "LOGGING" /\ clients[k].expecting = "USER"

\* A connection is in one place: outside, waiting, or in one slot.
SeatsInv == /\ \A k \in Slots : Seat(k) => Conn(k) \notin pending /\ phase[Conn(k)] # "outside"
            /\ \A j, k \in Slots : Seat(j) /\ Seat(k) /\ Conn(j) = Conn(k) => j = k
            /\ \A c \in pending : phase[c] # "outside"

IInv == TypeOK /\ CurInv /\ StateInv /\ StartInv /\ SeatsInv
-----------------------------------------------------------------------------
\* Both processes use the Wire of this module.
LEMMA SameWire ==
    /\ S!Slots = Slots /\ S!Texts = Texts
    /\ S!ClientMessages = ClientMessages /\ S!ServerMessages = ServerMessages /\ S!Bye = Bye
    /\ P!Slots = Slots /\ P!Texts = Texts /\ P!Bye = Bye
    /\ \A s : S!StringMsg(s) = StringMsg(s) /\ P!StringMsg(s) = StringMsg(s)
    /\ \A b : S!BooleanMsg(b) = BooleanMsg(b) /\ P!BooleanMsg(b) = BooleanMsg(b)
    /\ \A k, n, r : S!PlayerMsg(k, n, r) = PlayerMsg(k, n, r)
<1>1. S!Slots = Slots /\ P!Slots = Slots /\ S!Texts = Texts /\ P!Texts = Texts
  BY DEF S!Slots, P!Slots, S!Texts, P!Texts, Slots, Texts
<1>2. S!Bye = Bye /\ P!Bye = Bye
  BY DEF S!Bye, P!Bye, Bye
<1>3. /\ \A s : S!StringMsg(s) = StringMsg(s) /\ P!StringMsg(s) = StringMsg(s)
      /\ \A b : S!BooleanMsg(b) = BooleanMsg(b) /\ P!BooleanMsg(b) = BooleanMsg(b)
      /\ \A k, n, r : S!PlayerMsg(k, n, r) = PlayerMsg(k, n, r)
  BY DEF S!StringMsg, P!StringMsg, StringMsg, S!BooleanMsg, P!BooleanMsg, BooleanMsg, S!PlayerMsg,
     PlayerMsg
<1>4. S!ClientMessages = ClientMessages /\ S!ServerMessages = ServerMessages
  BY <1>1, <1>2, <1>3 DEF S!ClientMessages, ClientMessages, S!ServerMessages, ServerMessages
<1>5. QED
  BY <1>1, <1>2, <1>3, <1>4

LEMMA ClientMessageFacts ==
    ASSUME NEW m \in ClientMessages
    PROVE  /\ m.type \in {"STRING", "BOOLEAN", "BYE"}
           /\ m.type = "STRING" => m.text \in Texts /\ m = StringMsg(m.text)
           /\ m.type = "BOOLEAN" => m.flag \in BOOLEAN /\ m = BooleanMsg(m.flag)
           /\ m.type = "BYE" <=> m = Bye
BY DEF ClientMessages, StringMsg, BooleanMsg, Bye

LEMMA ServerMessageFacts ==
    ASSUME NEW m \in ServerMessages
    PROVE  /\ m.type \in {"STRING", "BOOLEAN", "PLAYER"}
           /\ m.type = "STRING" => m.text \in Slots
           /\ m.type = "BOOLEAN" => m.flag \in BOOLEAN /\ m = BooleanMsg(m.flag)
           /\ m.type = "PLAYER" => /\ m.num \in Slots /\ m.name \in Texts \cup {Unset} /\ m.ready \in BOOLEAN
                                   /\ m = PlayerMsg(m.num, m.name, m.ready)
BY DEF ServerMessages, StringMsg, BooleanMsg, PlayerMsg

LEMMA MessageTypes ==
    /\ \A s \in Texts : StringMsg(s) \in ClientMessages
    /\ \A b \in BOOLEAN : BooleanMsg(b) \in ClientMessages /\ BooleanMsg(b) \in ServerMessages
    /\ Bye \in ClientMessages
    /\ \A k \in Slots : StringMsg(k) \in ServerMessages
    /\ \A k \in Slots, n \in Texts \cup {Unset}, r \in BOOLEAN : PlayerMsg(k, n, r) \in ServerMessages
BY DEF ClientMessages, ServerMessages

LEMMA InitIInv == Init => IInv
<1> SUFFICES ASSUME Init
             PROVE  IInv
  OBVIOUS
<1> USE SameWire DEF Init, S!Init, P!Init
<1>1. 0 \in Slots /\ 0 \in 0 .. MaxPlayers
  BY MaxPlayersAssumption DEF Slots
<1>2. accounts \in [Texts -> Texts \cup {NoAccount}]
  BY DEF Texts
<1>3. <<>> \in Seq(ClientMessages) /\ <<>> \in Seq(ServerMessages)
  OBVIOUS
<1>4. S!TypeOK
  BY <1>1, <1>2, <1>3 DEF S!TypeOK
<1>5. P!TypeOK
  BY DEF P!TypeOK, P!Phases
<1>6. QED
  BY <1>4, <1>5 DEF IInv, TypeOK, CurInv, StateInv, StartInv, SeatsInv, Seat
-----------------------------------------------------------------------------
\* What the steps do, in terms of this module.

ClientSet == [con : Conns, name : Texts \cup {Unset},
              state : {"LOGGING", "WAITING", "READY_PLAY", "PLAYING"},
              expecting : {"USER", "NEWPASSWORD", "PASSWORD", "READY_TO_PLAY", "MOVEMENT"}]

LEMMA ServerTypes ==
    ASSUME IInv
    PROVE  /\ clients \in [Slots -> ClientSet \cup {Null}]
           /\ accounts \in [Texts -> Texts \cup {NoAccount}]
           /\ readBuffer \in Seq(ClientMessages)
           /\ at \in {"select", "read", "announce", "start"}
           /\ cur \in Slots
           /\ next \in 0 .. MaxPlayers
           /\ startGame \in BOOLEAN /\ freed \in BOOLEAN /\ alive \in BOOLEAN
           /\ pending \subseteq Conns
           /\ inbox \in [Conns -> Seq(ClientMessages)]
           /\ outbox \in [Conns -> Seq(ServerMessages)]
<1>1. S!Client = ClientSet
  BY SameWire DEF S!Client, ClientSet, S!States, S!Expectations
<1>2. QED
  BY <1>1, SameWire DEF IInv, TypeOK, S!TypeOK

LEMMA ClientTypes ==
    ASSUME IInv
    PROVE  /\ phase \in [Conns -> P!Phases]
           /\ players \in [Conns -> [Slots -> [name : Texts \cup {Unset}, ready : BOOLEAN] \cup {Null}]]
           /\ ready \in [Conns -> BOOLEAN]
           /\ inputs \in [Conns -> Nat]
BY SameWire DEF IInv, TypeOK, P!TypeOK, P!Entry

LEMMA SeatFacts ==
    ASSUME IInv, NEW k \in Slots, Seat(k)
    PROVE  clients[k] \in ClientSet /\ Conn(k) \in Conns
BY ServerTypes DEF Seat, Conn, ClientSet

\* A client in the table is not the absence of one.
LEMMA NotNull == \A cl \in ClientSet : cl # Null
BY NullAssumption DEF ClientSet

\* What readData hands out, and what it keeps.
Took == /\ alive /\ at = "read" /\ cur \in Slots /\ Seat(cur) /\ Conn(cur) \in Conns
        /\ S!Request \in ClientMessages
        /\ readBuffer' \in Seq(ClientMessages)
        /\ inbox' \in [Conns -> Seq(ClientMessages)]
        /\ pending' = pending
        /\ \/ /\ readBuffer # <<>> /\ S!Request = readBuffer[1]
              /\ readBuffer' = Tail(readBuffer) /\ inbox' = inbox
           \/ /\ readBuffer = <<>> /\ inbox[Conn(cur)] # <<>>
              /\ S!Request = inbox[Conn(cur)][1]
              /\ readBuffer' = Tail(inbox[Conn(cur)])
              /\ inbox' = [inbox EXCEPT ![Conn(cur)] = <<>>]

LEMMA ReadFacts ==
    ASSUME IInv, S!ReadData
    PROVE  Took
<1>1. /\ alive /\ at = "read" /\ cur \in Slots /\ Seat(cur) /\ pending' = pending
      /\ readBuffer \in Seq(ClientMessages) /\ inbox \in [Conns -> Seq(ClientMessages)]
  BY ServerTypes DEF S!ReadData, IInv, CurInv
<1>2. Conn(cur) \in Conns
  BY <1>1, SeatFacts
<1>3. ASSUME NEW s \in Seq(ClientMessages), s # <<>>
      PROVE  Head(s) = s[1] /\ Head(s) \in ClientMessages /\ Tail(s) \in Seq(ClientMessages)
  BY <1>3
<1>4. <<>> \in Seq(ClientMessages)
  OBVIOUS
<1>5. CASE readBuffer # <<>>
  BY <1>1, <1>2, <1>3, <1>5 DEF S!ReadData, S!Queue, S!Request, Took
<1>6. CASE readBuffer = <<>>
  <2>1. inbox[Conn(cur)] # <<>> /\ inbox[Conn(cur)] \in Seq(ClientMessages)
    BY <1>1, <1>2, <1>6 DEF S!ReadData, S!Queue, Conn
  <2>2. /\ S!Request = Head(inbox[Conn(cur)])
        /\ readBuffer' = Tail(inbox[Conn(cur)])
        /\ inbox' = [inbox EXCEPT ![Conn(cur)] = <<>>]
    BY <1>6 DEF S!ReadData, S!Queue, S!Request, Conn
  <2>3. inbox' \in [Conns -> Seq(ClientMessages)]
    BY <1>1, <1>4, <2>2
  <2>4. QED
    BY <1>1, <1>2, <1>3, <1>6, <2>1, <2>2, <2>3 DEF Took
<1>7. QED
  BY <1>5, <1>6

\* The client in slot k becomes cl; each connection gets what is appended for it.
Becomes(k, cl) == /\ clients' \in [Slots -> ClientSet \cup {Null}]
                  /\ \A j \in Slots : clients'[j] = IF j = k THEN cl ELSE clients[j]
Sends(cons, m) == /\ outbox' \in [Conns -> Seq(ServerMessages)]
                  /\ \A c \in Conns : outbox'[c] = IF c \in cons THEN Append(outbox[c], m) ELSE outbox[c]
Answers(me, a, told, b) ==
    /\ outbox' \in [Conns -> Seq(ServerMessages)]
    /\ \A c \in Conns : outbox'[c] = IF c = me THEN Append(outbox[c], a)
                                     ELSE IF c \in told THEN Append(outbox[c], b) ELSE outbox[c]

LEMMA SendsFacts ==
    ASSUME IInv, NEW cons, NEW m \in ServerMessages, outbox' = S!SendTo(cons, m)
    PROVE  Sends(cons, m)
BY ServerTypes DEF S!SendTo, Sends

LEMMA BecomesFacts ==
    ASSUME IInv, NEW k \in Slots, NEW cl \in ClientSet \cup {Null}, clients' = [clients EXCEPT ![k] = cl]
    PROVE  Becomes(k, cl)
BY ServerTypes DEF Becomes

\* The connections whose client is in the lobby or the game.
Lobbyists == { Conn(k) : k \in { j \in Slots : Seat(j) /\ clients[j].state # "LOGGING" } }

\* What is said about the client cl in slot k.
About(k, cl) == PlayerMsg(k, cl.name, cl.state = "READY_PLAY")

LEMMA AboutType ==
    ASSUME NEW k \in Slots, NEW cl \in ClientSet
    PROVE  About(k, cl) \in ServerMessages
<1>1. cl.name \in Texts \cup {Unset} /\ (cl.state = "READY_PLAY") \in BOOLEAN
  BY DEF ClientSet
<1>2. QED
  BY <1>1, MessageTypes DEF About

\* A new value of the client in slot cur, which keeps its connection.
Renewed(name, state, expecting) ==
    [con |-> clients[cur].con, name |-> name, state |-> state, expecting |-> expecting]

LEMMA AnswersFacts ==
    ASSUME IInv, cur \in Slots, Seat(cur), NEW a \in ServerMessages, NEW cl \in ClientSet,
           cl.con = Conn(cur),
           outbox' = S!AnswerAndNotify(a, cl)
    PROVE  Answers(Conn(cur), a, Lobbyists, About(cur, cl))
<1> DEFINE told == S!InLobby([clients EXCEPT ![cur] = cl]) \ {cl.con}
<1>1. outbox' = [c \in Conns |-> IF c = cl.con THEN Append(outbox[c], a)
                                 ELSE IF c \in told THEN Append(outbox[c], About(cur, cl))
                                 ELSE outbox[c]]
  BY SameWire DEF S!AnswerAndNotify, S!Announcement, About
<1>2. ASSUME NEW c \in Conns, c # cl.con
      PROVE  c \in told <=> c \in Lobbyists
  <2>1. clients \in [Slots -> ClientSet \cup {Null}] /\ cl # Null
    BY ServerTypes, NotNull
  <2>2. S!InLobby([clients EXCEPT ![cur] = cl]) =
            { [clients EXCEPT ![cur] = cl][k].con : k \in
                { j \in Slots : /\ [clients EXCEPT ![cur] = cl][j] # Null
                                /\ [clients EXCEPT ![cur] = cl][j].state # "LOGGING" } }
    BY SameWire DEF S!InLobby
  <2>3. \A j \in Slots : [clients EXCEPT ![cur] = cl][j] = IF j = cur THEN cl ELSE clients[j]
    BY <2>1
  <2>4. QED
    BY <1>2, <2>1, <2>2, <2>3 DEF Lobbyists, Seat, Conn
<1>3. About(cur, cl) \in ServerMessages
  BY AboutType
<1>4. outbox \in [Conns -> Seq(ServerMessages)]
  BY ServerTypes
<1>5. \A c \in Conns : outbox'[c] = IF c = Conn(cur) THEN Append(outbox[c], a)
                                    ELSE IF c \in Lobbyists THEN Append(outbox[c], About(cur, cl))
                                    ELSE outbox[c]
  <2> HIDE DEF told
  <2>1. QED
    BY <1>1, <1>2
<1>6. outbox' \in [Conns -> Seq(ServerMessages)]
  <2>1. ASSUME NEW c \in Conns
        PROVE  outbox'[c] \in Seq(ServerMessages)
    <3>1. \A m \in ServerMessages : Append(outbox[c], m) \in Seq(ServerMessages)
      BY <1>4
    <3>2. QED
      BY <1>3, <1>4, <1>5, <3>1
  <2>2. \E f : outbox' = [c \in Conns |-> f[c]]
    <3> HIDE DEF told
    <3> DEFINE g == [c \in Conns |-> IF c = cl.con THEN Append(outbox[c], a)
                                     ELSE IF c \in told THEN Append(outbox[c], About(cur, cl))
                                     ELSE outbox[c]]
    <3>1. g = [c \in Conns |-> g[c]]
      OBVIOUS
    <3>2. QED
      BY <1>1, <3>1
  <2>3. QED
    BY <2>1, <2>2
<1>7. QED
  BY <1>5, <1>6 DEF Answers

ServerStill == UNCHANGED <<accounts, startGame, freed, alive>>

LEMMA UserFacts ==
    ASSUME IInv, S!ResolveUser
    PROVE  /\ Took /\ S!Request # Bye /\ clients[cur].expecting = "USER" /\ ServerStill
           /\ at' = "select" /\ cur' = 0 /\ next' = 0
           /\ \/ S!Request.type # "STRING" /\ UNCHANGED <<clients, outbox>>
              \/ /\ S!Request.type = "STRING" /\ S!Request.text \in Texts
                 /\ Becomes(cur, Renewed(S!Request.text, clients[cur].state,
                                 IF accounts[S!Request.text] # NoAccount THEN "PASSWORD" ELSE "NEWPASSWORD"))
                 /\ Sends({Conn(cur)}, BooleanMsg(accounts[S!Request.text] # NoAccount))
<1>1. /\ Took /\ S!Request # Bye /\ clients[cur].expecting = "USER" /\ ServerStill
      /\ at' = "select" /\ cur' = 0 /\ next' = 0
  BY ReadFacts, SameWire DEF S!ResolveUser, S!Asked, S!Farewell, S!Resolved, S!Me, ServerStill
<1>2. CASE S!Request.type # "STRING"
  BY <1>1, <1>2 DEF S!ResolveUser
<1>3. CASE S!Request.type = "STRING"
  <2> DEFINE known == accounts[S!Request.text] # NoAccount
             cl == Renewed(S!Request.text, clients[cur].state, IF known THEN "PASSWORD" ELSE "NEWPASSWORD")
  <2>1. S!Request.text \in Texts
    BY <1>1, <1>3, ClientMessageFacts DEF Took
  <2>2. clients[cur] \in ClientSet /\ cur \in Slots /\ Conn(cur) \in Conns
    BY <1>1, SeatFacts DEF Took
  <2>3. cl \in ClientSet
    BY <2>1, <2>2 DEF ClientSet, Renewed, Conn
  <2>4. clients' = [clients EXCEPT ![cur].name = S!Request.text,
                                   ![cur].expecting = IF known THEN "PASSWORD" ELSE "NEWPASSWORD"]
    BY <1>3 DEF S!ResolveUser
  <2>5. clients'[cur] = cl
    <3>1. clients'[cur] = [clients[cur] EXCEPT
              !.name = S!Request.text, !.expecting = IF known THEN "PASSWORD" ELSE "NEWPASSWORD"]
      BY <2>2, <2>4, ServerTypes
    <3>2. QED
      BY <2>2, <3>1 DEF ClientSet, Renewed
  <2>6. Becomes(cur, cl)
    <3> HIDE DEF cl
    <3>1. \A j \in Slots \ {cur} : clients'[j] = clients[j]
      BY <2>2, <2>4, ServerTypes
    <3>2. clients' \in [Slots -> ClientSet \cup {Null}]
      BY <2>2, <2>3, <2>4, <2>5, <3>1, ServerTypes
    <3>3. QED
      BY <2>5, <3>1, <3>2 DEF Becomes
  <2>7. Sends({Conn(cur)}, BooleanMsg(known))
    <3>1. BooleanMsg(known) \in ServerMessages
      BY MessageTypes
    <3>2. outbox' = S!SendTo({Conn(cur)}, BooleanMsg(known))
      BY <1>3, SameWire DEF S!ResolveUser, S!Me, Conn
    <3>3. QED
      BY <3>1, <3>2, SendsFacts
  <2>8. QED
    BY <1>1, <1>3, <2>1, <2>6, <2>7
<1>4. QED
  BY <1>2, <1>3

LEMMA PasswordFacts ==
    ASSUME IInv, S!ResolvePassword
    PROVE  /\ Took /\ S!Request # Bye /\ clients[cur].expecting = "PASSWORD" /\ ServerStill /\ next' = 0
           /\ \/ /\ at' = "select" /\ cur' = 0 /\ UNCHANGED clients
                 /\ Sends({Conn(cur)}, BooleanMsg(FALSE))
              \/ /\ at' = "announce" /\ cur' = cur
                 /\ S!Request.type = "STRING"
                 /\ accounts[clients[cur].name] = S!Request.text
                 /\ Becomes(cur, Renewed(clients[cur].name, "WAITING", "READY_TO_PLAY"))
                 /\ Answers(Conn(cur), BooleanMsg(TRUE), Lobbyists,
                            PlayerMsg(cur, clients[cur].name, FALSE))
<1>1. /\ Took /\ S!Request # Bye /\ clients[cur].expecting = "PASSWORD" /\ ServerStill
  BY ReadFacts, SameWire DEF S!ResolvePassword, S!Asked, S!Farewell, S!Me, ServerStill
<1>2. clients[cur] \in ClientSet /\ cur \in Slots /\ Conn(cur) \in Conns
  BY <1>1, SeatFacts DEF Took
<1> DEFINE right == S!Request.type = "STRING" /\ accounts[clients[cur].name] = S!Request.text
           cl == Renewed(clients[cur].name, "WAITING", "READY_TO_PLAY")
<1>3. CASE ~right
  <2>1. at' = "select" /\ cur' = 0 /\ next' = 0 /\ UNCHANGED clients
       /\ outbox' = S!SendTo({Conn(cur)}, BooleanMsg(FALSE))
    BY <1>3, SameWire DEF S!ResolvePassword, S!Me, S!Resolved, Conn
  <2>2. Sends({Conn(cur)}, BooleanMsg(FALSE))
    BY <2>1, MessageTypes, SendsFacts
  <2>3. QED
    BY <1>1, <2>1, <2>2
<1>4. CASE right
  <2>1. cl \in ClientSet /\ cl.con = Conn(cur)
    BY <1>2 DEF ClientSet, Renewed, Conn
  <2>2. S!LoggedIn = cl
    <3>1. S!LoggedIn = [clients[cur] EXCEPT !.expecting = "READY_TO_PLAY", !.state = "WAITING"]
      BY DEF S!LoggedIn, S!Me
    <3>2. QED
      BY <1>2, <3>1 DEF ClientSet, Renewed
  <2>3. /\ at' = "announce" /\ cur' = cur /\ next' = 0
        /\ clients' = [clients EXCEPT ![cur] = cl]
        /\ outbox' = S!AnswerAndNotify(BooleanMsg(TRUE), cl)
    BY <1>4, <2>2, SameWire DEF S!ResolvePassword, S!GoOn, S!Me
  <2>4. Becomes(cur, cl)
    <3> HIDE DEF cl
    <3>1. QED
      BY <1>2, <2>1, <2>3, BecomesFacts
  <2>5. Answers(Conn(cur), BooleanMsg(TRUE), Lobbyists, About(cur, cl))
    <3> HIDE DEF cl
    <3>1. BooleanMsg(TRUE) \in ServerMessages
      BY MessageTypes
    <3>2. QED
      BY <1>1, <2>1, <2>3, <3>1, AnswersFacts DEF Took
  <2>6. About(cur, cl) = PlayerMsg(cur, clients[cur].name, FALSE)
    BY DEF About, Renewed
  <2>7. QED
    BY <1>1, <1>4, <2>3, <2>4, <2>5, <2>6
<1>5. QED
  BY <1>3, <1>4

LEMMA NewPasswordFacts ==
    ASSUME IInv, S!ResolveNewPassword
    PROVE  /\ Took /\ S!Request # Bye /\ clients[cur].expecting = "NEWPASSWORD" /\ next' = 0
           /\ UNCHANGED <<startGame, freed, alive>>
           /\ \/ /\ at' = "select" /\ cur' = 0 /\ UNCHANGED <<accounts, clients, outbox>>
                 /\ S!Request.type # "STRING"
              \/ /\ at' = "announce" /\ cur' = cur
                 /\ accounts[clients[cur].name] # NoAccount
                 /\ UNCHANGED <<accounts, clients>>
                 /\ Answers(Conn(cur), BooleanMsg(FALSE), Lobbyists, About(cur, clients[cur]))
              \/ /\ at' = "announce" /\ cur' = cur
                 /\ S!Request.type = "STRING" /\ S!Request.text \in Texts
                 /\ accounts[clients[cur].name] = NoAccount
                 /\ accounts' = [accounts EXCEPT ![clients[cur].name] = S!Request.text]
                 /\ Becomes(cur, Renewed(clients[cur].name, "WAITING", "READY_TO_PLAY"))
                 /\ Answers(Conn(cur), BooleanMsg(TRUE), Lobbyists,
                            PlayerMsg(cur, clients[cur].name, FALSE))
<1>1. /\ Took /\ S!Request # Bye /\ clients[cur].expecting = "NEWPASSWORD"
      /\ UNCHANGED <<startGame, freed, alive>>
  BY ReadFacts, SameWire DEF S!ResolveNewPassword, S!Asked, S!Farewell, S!Me
<1>2. clients[cur] \in ClientSet /\ cur \in Slots /\ Conn(cur) \in Conns
  BY <1>1, SeatFacts DEF Took
<1>3. CASE S!Request.type # "STRING"
  BY <1>1, <1>3 DEF S!ResolveNewPassword, S!Resolved
<1>4. CASE S!Request.type = "STRING" /\ accounts[clients[cur].name] # NoAccount
  <2>1. /\ at' = "announce" /\ cur' = cur /\ next' = 0 /\ accounts' = accounts
        /\ clients' = [clients EXCEPT ![cur] = clients[cur]]
        /\ outbox' = S!AnswerAndNotify(BooleanMsg(FALSE), clients[cur])
    BY <1>4, SameWire DEF S!ResolveNewPassword, S!GoOn, S!Me
  <2>2. clients' = clients
    BY <1>2, <2>1, ServerTypes
  <2>3. Answers(Conn(cur), BooleanMsg(FALSE), Lobbyists, About(cur, clients[cur]))
    BY <1>1, <1>2, <2>1, MessageTypes, AnswersFacts DEF Took, Conn
  <2>4. QED
    BY <1>1, <1>4, <2>1, <2>2, <2>3
<1>5. CASE S!Request.type = "STRING" /\ accounts[clients[cur].name] = NoAccount
  <2> DEFINE cl == Renewed(clients[cur].name, "WAITING", "READY_TO_PLAY")
  <2>1. cl \in ClientSet /\ cl.con = Conn(cur)
    BY <1>2 DEF ClientSet, Renewed, Conn
  <2>2. S!LoggedIn = cl
    <3>1. S!LoggedIn = [clients[cur] EXCEPT !.expecting = "READY_TO_PLAY", !.state = "WAITING"]
      BY DEF S!LoggedIn, S!Me
    <3>2. QED
      BY <1>2, <3>1 DEF ClientSet, Renewed
  <2>3. /\ at' = "announce" /\ cur' = cur /\ next' = 0
        /\ accounts' = [accounts EXCEPT ![clients[cur].name] = S!Request.text]
        /\ clients' = [clients EXCEPT ![cur] = cl]
        /\ outbox' = S!AnswerAndNotify(BooleanMsg(TRUE), cl)
    BY <1>5, <2>2, SameWire DEF S!ResolveNewPassword, S!GoOn, S!Me
  <2>4. Becomes(cur, cl)
    <3> HIDE DEF cl
    <3>1. QED
      BY <1>2, <2>1, <2>3, BecomesFacts
  <2>5. Answers(Conn(cur), BooleanMsg(TRUE), Lobbyists, About(cur, cl))
    <3> HIDE DEF cl
    <3>1. BooleanMsg(TRUE) \in ServerMessages
      BY MessageTypes
    <3>2. QED
      BY <1>1, <2>1, <2>3, <3>1, AnswersFacts DEF Took
  <2>6. About(cur, cl) = PlayerMsg(cur, clients[cur].name, FALSE)
    BY DEF About, Renewed
  <2>7. S!Request.text \in Texts
    BY <1>1, <1>5, ClientMessageFacts DEF Took
  <2>8. QED
    BY <1>1, <1>5, <2>3, <2>4, <2>5, <2>6, <2>7
<1>6. QED
  BY <1>3, <1>4, <1>5

\* The connections of the clients in the table.
Members == { Conn(k) : k \in { j \in Slots : Seat(j) } }

\* Nothing changes that belongs to the request under way.
Idle == UNCHANGED <<accounts, readBuffer, startGame, freed, inbox>>
-----------------------------------------------------------------------------
Newcomer(c) == [con |-> c, name |-> Unset, state |-> "LOGGING", expecting |-> "USER"]

LEMMA AcceptFacts ==
    ASSUME IInv, NEW c \in Conns, NEW k \in Slots, S!AcceptClient(c, k)
    PROVE  /\ alive /\ c \in pending /\ ~Seat(k) /\ pending' = pending \ {c}
           /\ Newcomer(c) \in ClientSet
           /\ Becomes(k, Newcomer(c))
           /\ Idle /\ UNCHANGED <<at, cur, next, alive, outbox>>
<1>1. Newcomer(c) \in ClientSet
  BY DEF Newcomer, ClientSet
<1>2. clients' = [clients EXCEPT ![k] = Newcomer(c)]
  BY DEF S!AcceptClient, Newcomer
<1>3. Becomes(k, Newcomer(c))
  BY <1>1, <1>2, BecomesFacts
<1>4. QED
  BY <1>1, <1>3 DEF S!AcceptClient, Seat, Idle

LEMMA ListenFacts ==
    ASSUME IInv, NEW k \in Slots, S!ListenToClients(k)
    PROVE  /\ alive /\ at = "select" /\ Seat(k) /\ at' = "read" /\ cur' = k
           /\ Idle /\ UNCHANGED <<clients, next, alive, pending, outbox>>
BY DEF S!ListenToClients, S!Seated, Seat, Idle

LEMMA NotifyFacts ==
    ASSUME IInv, S!NotifyExistingPlayers
    PROVE  /\ alive /\ at = "announce" /\ next \in Slots /\ next' = next + 1
           /\ cur \in Slots /\ Seat(cur) /\ Conn(cur) \in Conns
           /\ Idle /\ UNCHANGED <<clients, at, cur, pending>>
           /\ \/ ~Seat(next) /\ UNCHANGED <<alive, outbox>>
              \/ Seat(next) /\ Sends({Conn(cur)}, About(next, clients[next])) /\ UNCHANGED alive
              \/ Seat(next) /\ clients[next].name = Unset /\ alive' = FALSE /\ UNCHANGED outbox
<1>1. /\ alive /\ at = "announce" /\ next \in Slots /\ next' = next + 1
      /\ Idle /\ UNCHANGED <<clients, at, cur, pending>>
  BY SameWire DEF S!NotifyExistingPlayers, Idle
<1>2. cur \in Slots /\ Seat(cur) /\ Conn(cur) \in Conns
  BY <1>1, ServerTypes, SeatFacts DEF IInv, CurInv
<1>3. CASE Seat(next) /\ clients[next].name = Unset /\ alive' = FALSE /\ UNCHANGED outbox
  BY <1>1, <1>2, <1>3
<1>4. CASE ~Seat(next) /\ UNCHANGED <<alive, outbox>>
  BY <1>1, <1>2, <1>4
<1>5. CASE Seat(next) /\ UNCHANGED alive /\ outbox' = S!SendTo({Conn(cur)}, About(next, clients[next]))
  <2>1. About(next, clients[next]) \in ServerMessages
    BY <1>1, <1>5, SeatFacts, AboutType
  <2>2. QED
    BY <1>1, <1>2, <1>5, <2>1, SendsFacts
<1>6. QED
  <2>1. S!SendTo({S!Me.con}, S!Announcement(next, clients[next]))
            = S!SendTo({Conn(cur)}, About(next, clients[next]))
    BY SameWire DEF S!Me, S!Announcement, Conn, About
  <2>2. QED
    BY <1>3, <1>4, <1>5, <2>1 DEF S!NotifyExistingPlayers, Seat

LEMMA NotifyDoneFacts ==
    ASSUME IInv, S!NotifyDone
    PROVE  /\ alive /\ at = "announce" /\ next = MaxPlayers /\ at' = "select" /\ cur' = 0 /\ next' = 0
           /\ Idle /\ UNCHANGED <<clients, alive, pending, outbox>>
BY DEF S!NotifyDone, S!Resolved, Idle

LEMMA ReadyFacts ==
    ASSUME IInv, S!ResolveReady
    PROVE  /\ Took /\ S!Request # Bye /\ clients[cur].expecting = "READY_TO_PLAY" /\ next' = 0
           /\ UNCHANGED <<accounts, freed, alive>>
           /\ \/ /\ S!Request.type # "BOOLEAN"
                 /\ at' = "select" /\ cur' = 0 /\ UNCHANGED <<clients, outbox, startGame>>
              \/ /\ S!Request.type = "BOOLEAN" /\ S!Request.flag \in BOOLEAN
                 /\ Becomes(cur, Renewed(clients[cur].name, S!Word(S!Request.flag), "READY_TO_PLAY"))
                 /\ Sends(Lobbyists \ {Conn(cur)},
                          PlayerMsg(cur, clients[cur].name, S!Request.flag))
                 /\ \/ at' = "select" /\ cur' = 0 /\ UNCHANGED startGame
                    \/ /\ at' = "start" /\ cur' = cur /\ startGame' = TRUE
                       /\ \A k \in Slots : clients'[k] # Null => clients'[k].state = "READY_PLAY"
<1> DEFINE cl == Renewed(clients[cur].name, S!Word(S!Request.flag), "READY_TO_PLAY")
           cs == [clients EXCEPT ![cur] = cl]
           start == S!Request.flag /\ S!AllReady(cs)
<1>1. /\ Took /\ S!Request # Bye /\ clients[cur].expecting = "READY_TO_PLAY"
      /\ UNCHANGED <<accounts, freed, alive>>
  BY ReadFacts, SameWire DEF S!ResolveReady, S!Asked, S!Farewell, S!Me
<1>2. clients[cur] \in ClientSet /\ cur \in Slots /\ Conn(cur) \in Conns
  BY <1>1, SeatFacts DEF Took
<1>3. CASE S!Request.type # "BOOLEAN"
  <2>1. next' = 0 /\ at' = "select" /\ cur' = 0 /\ UNCHANGED <<clients, outbox, startGame>>
    BY <1>3 DEF S!ResolveReady, S!Resolved
  <2>2. QED
    BY <1>1, <1>3, <2>1
<1>4. CASE S!Request.type = "BOOLEAN"
  <2>1. S!Request.flag \in BOOLEAN
    BY <1>1, <1>4, ClientMessageFacts DEF Took
  <2>2. [S!Me EXCEPT !.state = S!Word(S!Request.flag)] = cl
    <3>1. [S!Me EXCEPT !.state = S!Word(S!Request.flag)]
            = [clients[cur] EXCEPT !.state = S!Word(S!Request.flag)]
      BY DEF S!Me
    <3>2. QED
      BY <1>1, <1>2, <3>1 DEF ClientSet, Renewed
  <2>3. cl \in ClientSet /\ cl.con = Conn(cur) /\ cl.name = clients[cur].name
    BY <1>2 DEF ClientSet, Renewed, Conn, S!Word
  <2>4. cl.state = "READY_PLAY" <=> S!Request.flag
    BY DEF Renewed, S!Word
  <2>5. /\ clients' = cs
        /\ outbox' = S!SendTo(S!InLobby(cs) \ {S!Me.con}, S!Announcement(cur, cl))
        /\ startGame' = S!StartFlag(start)
        /\ IF start THEN S!GoOn("start") ELSE S!Resolved
    BY <1>4, <2>2 DEF S!ResolveReady
  <2> HIDE DEF cl
  <2>6. Becomes(cur, cl)
    BY <1>2, <2>3, <2>5, BecomesFacts
  <2>7. \A j \in Slots : cs[j] = IF j = cur THEN cl ELSE clients[j]
    BY ServerTypes
  <2>8. S!InLobby(cs) \ {S!Me.con} = Lobbyists \ {Conn(cur)}
    <3>1. S!InLobby(cs) = { cs[k].con : k \in { j \in Slots : cs[j] # Null /\ cs[j].state # "LOGGING" } }
      BY SameWire DEF S!InLobby
    <3>2. \A k \in Slots \ {cur} : cs[k] = clients[k]
      BY <2>7
    <3>3. cs[cur].con = Conn(cur) /\ S!Me.con = Conn(cur)
      BY <1>2, <2>3, <2>7 DEF S!Me, Conn
    <3> HIDE DEF cs
    <3>4. QED
      BY <3>1, <3>2, <3>3 DEF Lobbyists, Seat, Conn
  <2>9. S!Announcement(cur, cl) = PlayerMsg(cur, clients[cur].name, S!Request.flag)
    BY <2>1, <2>3, <2>4, SameWire DEF S!Announcement
  <2>10. PlayerMsg(cur, clients[cur].name, S!Request.flag) \in ServerMessages
    BY <1>2, <2>1, MessageTypes DEF ClientSet
  <2>11. Sends(Lobbyists \ {Conn(cur)}, PlayerMsg(cur, clients[cur].name, S!Request.flag))
    BY <2>5, <2>8, <2>9, <2>10, SendsFacts
  <2>12. CASE start
    <3>1. at' = "start" /\ cur' = cur /\ next' = 0 /\ startGame' = TRUE
      BY <2>5, <2>12, ServerTypes DEF S!GoOn, S!StartFlag
    <3>2. \A k \in Slots : cs[k] # Null => cs[k].state = "READY_PLAY"
      BY <2>12, SameWire DEF S!AllReady
    <3>3. QED
      BY <1>1, <1>4, <2>1, <2>5, <2>6, <2>11, <3>1, <3>2 DEF cl
  <2>13. CASE ~start
    <3>1. at' = "select" /\ cur' = 0 /\ next' = 0
      BY <2>5, <2>13 DEF S!Resolved
    <3>2. UNCHANGED startGame
      <4>1. startGame' = (startGame \/ start)
        BY <2>5 DEF S!StartFlag
      <4>2. QED
        BY <2>13, <4>1, ServerTypes
    <3>3. QED
      BY <1>1, <1>4, <2>1, <2>6, <2>11, <3>1, <3>2 DEF cl
  <2>14. QED
    BY <2>12, <2>13
<1>5. QED
  BY <1>3, <1>4

Playing(k) == [con |-> Conn(k), name |-> clients[k].name, state |-> "PLAYING", expecting |-> "MOVEMENT"]

LEMMA GameStartFacts ==
    ASSUME IInv, S!SendGameStart
    PROVE  /\ alive /\ at = "start" /\ at' = "select" /\ cur' = 0 /\ next' = 0
           /\ Idle /\ UNCHANGED <<alive, pending>>
           /\ clients' \in [Slots -> ClientSet \cup {Null}]
           /\ \A k \in Slots : clients'[k] = IF Seat(k) THEN Playing(k) ELSE Null
           /\ Sends(Members, BooleanMsg(TRUE))
<1>1. /\ alive /\ at = "start" /\ at' = "select" /\ cur' = 0 /\ next' = 0
      /\ Idle /\ UNCHANGED <<alive, pending>>
  BY DEF S!SendGameStart, S!Resolved, Idle
<1>2. ASSUME NEW k \in Slots, Seat(k)
      PROVE  [clients[k] EXCEPT !.state = "PLAYING", !.expecting = "MOVEMENT"] = Playing(k)
             /\ Playing(k) \in ClientSet
  <2>1. clients[k] \in ClientSet
    BY <1>2, SeatFacts
  <2>2. DEFINE e == [clients[k] EXCEPT !.state = "PLAYING", !.expecting = "MOVEMENT"]
  <2>3. e = [clients[k] EXCEPT !.state = "PLAYING", !.expecting = "MOVEMENT"]
    OBVIOUS
  <2> HIDE DEF e
  <2>4. e = Playing(k)
    BY <2>1, <2>3 DEF ClientSet, Playing, Conn
  <2>5. QED
    BY <2>1, <2>3, <2>4 DEF ClientSet, Playing, Conn
<1>3. clients' = [k \in Slots |-> IF clients[k] = Null THEN Null
                                 ELSE [clients[k] EXCEPT !.state = "PLAYING", !.expecting = "MOVEMENT"]]
  BY SameWire DEF S!SendGameStart
<1>4. clients' = [k \in Slots |-> IF Seat(k) THEN Playing(k) ELSE Null]
  BY <1>2, <1>3 DEF Seat
<1>5. S!Connected(clients) = Members
  BY SameWire DEF S!Connected, Members, Seat, Conn
<1>6. Sends(Members, BooleanMsg(TRUE))
  BY <1>5, SameWire, MessageTypes, SendsFacts DEF S!SendGameStart
<1>7. QED
  BY <1>1, <1>2, <1>4, <1>6

LEMMA MovementFacts ==
    ASSUME IInv, S!ResolveMovement
    PROVE  /\ Took /\ S!Request # Bye /\ clients[cur].expecting = "MOVEMENT"
           /\ at' = "select" /\ cur' = 0 /\ next' = 0
           /\ ServerStill /\ UNCHANGED <<clients, outbox>>
BY ReadFacts, SameWire DEF S!ResolveMovement, S!Asked, S!Farewell, S!Me, S!Resolved, ServerStill

LEMMA DisconnectFacts ==
    ASSUME IInv, S!Disconnect
    PROVE  /\ Took /\ S!Request = Bye
           /\ at' = "select" /\ cur' = 0 /\ next' = 0
           /\ Becomes(cur, Null) /\ Sends(Members \ {Conn(cur)}, StringMsg(cur))
           /\ alive' \in BOOLEAN /\ freed' = TRUE /\ UNCHANGED <<accounts, startGame>>
<1>1. /\ Took /\ S!Request = Bye /\ at' = "select" /\ cur' = 0 /\ next' = 0
      /\ freed' = TRUE /\ UNCHANGED <<accounts, startGame>>
  BY ReadFacts, SameWire DEF S!Disconnect, S!Farewell, S!Resolved
<1>2. alive' \in BOOLEAN
  BY DEF S!Disconnect
<1>3. Becomes(cur, Null)
  BY <1>1, BecomesFacts DEF S!Disconnect, Took
<1>4. S!Connected(clients) = Members
  BY SameWire DEF S!Connected, Members, Seat, Conn
<1>5. Sends(Members \ {Conn(cur)}, StringMsg(cur))
  <2>1. StringMsg(cur) \in ServerMessages
    BY <1>1, MessageTypes DEF Took
  <2>2. outbox' = S!SendTo(Members \ {Conn(cur)}, StringMsg(cur))
    BY <1>4, SameWire DEF S!Disconnect, S!Me, Conn
  <2>3. QED
    BY <2>1, <2>2, SendsFacts
<1>6. QED
  BY <1>1, <1>2, <1>3, <1>5
-----------------------------------------------------------------------------
\* The steps of the client c.

Goes(c, p) == /\ phase' \in [Conns -> P!Phases]
              /\ \A d \in Conns : phase'[d] = IF d = c THEN p ELSE phase[d]
Sent(c, m) == /\ inbox' \in [Conns -> Seq(ClientMessages)]
              /\ \A d \in Conns : inbox'[d] = IF d = c THEN Append(inbox[c], m) ELSE inbox[d]
Got(c) == /\ outbox[c] # <<>> /\ outbox[c][1] \in ServerMessages
          /\ outbox' \in [Conns -> Seq(ServerMessages)]
          /\ \A d \in Conns : outbox'[d] = IF d = c THEN Tail(outbox[c]) ELSE outbox[d]

Entries == [name : Texts \cup {Unset}, ready : BOOLEAN]

\* The screen of c becomes s.
Screen(c, s) == /\ players' \in [Conns -> [Slots -> Entries \cup {Null}]]
                /\ \A d \in Conns : players'[d] = IF d = c THEN s ELSE players[d]

\* What a client step that shows nothing new leaves alone.
Settled == UNCHANGED <<players, ready, inputs, pending>>

LEMMA GoesFacts ==
    ASSUME IInv, NEW c \in Conns, NEW p \in P!Phases, P!Goto(c, p)
    PROVE  Goes(c, p)
BY ClientTypes DEF P!Goto, Goes

LEMMA SentFacts ==
    ASSUME IInv, NEW c \in Conns, NEW m \in ClientMessages, P!Send(c, m)
    PROVE  Sent(c, m)
<1>1. inbox \in [Conns -> Seq(ClientMessages)]
  BY ServerTypes
<1>2. inbox' = [inbox EXCEPT ![c] = Append(inbox[c], m)]
  BY DEF P!Send
<1>3. Append(inbox[c], m) \in Seq(ClientMessages)
  BY <1>1
<1>4. QED
  BY <1>1, <1>2, <1>3 DEF Sent

LEMMA GotFacts ==
    ASSUME IInv, NEW c \in Conns, P!Receive(c)
    PROVE  Got(c) /\ P!Incoming(c) = outbox[c][1]
<1>1. outbox \in [Conns -> Seq(ServerMessages)] /\ outbox[c] # <<>>
  BY ServerTypes DEF P!Receive
<1>2. outbox' = [outbox EXCEPT ![c] = Tail(outbox[c])]
  BY DEF P!Receive
<1>3. /\ Tail(outbox[c]) \in Seq(ServerMessages) /\ outbox[c][1] \in ServerMessages
      /\ Head(outbox[c]) = outbox[c][1]
  BY <1>1
<1>4. QED
  BY <1>1, <1>2, <1>3 DEF Got, P!Incoming

LEMMA ScreenFacts ==
    ASSUME IInv, NEW c \in Conns, NEW k \in Slots, NEW e \in Entries \cup {Null},
           players' = [players EXCEPT ![c][k] = e]
    PROVE  Screen(c, [players[c] EXCEPT ![k] = e])
<1>1. players \in [Conns -> [Slots -> Entries \cup {Null}]]
  BY ClientTypes DEF Entries
<1>2. players' = [players EXCEPT ![c] = [players[c] EXCEPT ![k] = e]]
  BY <1>1
<1>3. [players[c] EXCEPT ![k] = e] \in [Slots -> Entries \cup {Null}]
  BY <1>1
<1> DEFINE s == [players[c] EXCEPT ![k] = e]
<1> HIDE DEF s
<1>4. QED
  BY <1>1, <1>2, <1>3 DEF Screen, s

\* The entry e with another mark.
Marked(e, r) == [name |-> e.name, ready |-> r]

LEMMA MarkedFacts ==
    ASSUME IInv, NEW c \in Conns, NEW n, NEW k \in P!FirstShown(c, n), NEW r \in BOOLEAN,
           players' = [players EXCEPT ![c][k].ready = r]
    PROVE  /\ k \in Slots /\ players[c][k] # Null /\ players[c][k].name = n
           /\ \A j \in Slots : players[c][j] # Null /\ players[c][j].name = n => k <= j
           /\ Marked(players[c][k], r) \in Entries
           /\ Screen(c, [players[c] EXCEPT ![k] = Marked(players[c][k], r)])
<1>1. /\ k \in Slots /\ players[c][k] # Null /\ players[c][k].name = n
      /\ \A j \in Slots : players[c][j] # Null /\ players[c][j].name = n => k <= j
  BY SameWire DEF P!FirstShown, P!Shown
<1>2. players \in [Conns -> [Slots -> Entries \cup {Null}]]
  BY ClientTypes DEF Entries
<1>3. players[c][k] \in Entries
  BY <1>1, <1>2
<1> DEFINE e == [players[c][k] EXCEPT !.ready = r]
<1>4. e = Marked(players[c][k], r) /\ e \in Entries
  BY <1>3 DEF Entries, Marked
<1>5. players' = [players EXCEPT ![c][k] = e]
  BY <1>1, <1>2
<1>6. QED
  <2> HIDE DEF e
  <2>1. QED
    BY <1>1, <1>4, <1>5, ScreenFacts

LEMMA ConnectFacts ==
    ASSUME IInv, NEW c \in Conns, P!Connect(c)
    PROVE  /\ phase[c] = "outside" /\ Goes(c, "naming") /\ pending' = pending \cup {c}
           /\ UNCHANGED <<players, ready, inputs, inbox, outbox>>
BY GoesFacts DEF P!Connect, P!Phases

LEMMA SendNameFacts ==
    ASSUME IInv, NEW c \in Conns, P!SendName(c)
    PROVE  /\ phase[c] = "naming" /\ Goes(c, "asked")
           /\ UserOf[c] \in Texts /\ Sent(c, StringMsg(UserOf[c]))
           /\ Settled /\ UNCHANGED outbox
<1>1. UserOf[c] \in Texts /\ StringMsg(UserOf[c]) \in ClientMessages
  BY UserOfAssumption, MessageTypes DEF Texts
<1>2. Sent(c, StringMsg(UserOf[c]))
  BY <1>1, SameWire, SentFacts DEF P!SendName
<1>3. Goes(c, "asked")
  BY GoesFacts DEF P!SendName, P!Phases
<1>4. QED
  BY <1>1, <1>2, <1>3 DEF P!SendName, Settled

LEMMA ReadNameAnswerFacts ==
    ASSUME IInv, NEW c \in Conns, P!ReadNameAnswer(c)
    PROVE  phase[c] = "asked" /\ Goes(c, "typing") /\ Got(c) /\ Settled /\ UNCHANGED inbox
BY GoesFacts, GotFacts DEF P!ReadNameAnswer, P!Phases, Settled

LEMMA SendPasswordFacts ==
    ASSUME IInv, NEW c \in Conns, NEW p \in Passwords, P!SendPassword(c, p)
    PROVE  /\ phase[c] = "typing" /\ Len(inbox[c]) < MaxBurst /\ Goes(c, "checked")
           /\ p \in Texts /\ Sent(c, StringMsg(p))
           /\ inputs' \in [Conns -> Nat] /\ UNCHANGED <<players, ready, pending, outbox>>
<1>1. p \in Texts /\ StringMsg(p) \in ClientMessages
  BY MessageTypes DEF Texts
<1>2. Sent(c, StringMsg(p))
  BY <1>1, SameWire, SentFacts DEF P!SendPassword
<1>3. Goes(c, "checked")
  BY GoesFacts DEF P!SendPassword, P!Phases
<1>4. inputs' \in [Conns -> Nat]
  BY ClientTypes DEF P!SendPassword, P!MayType
<1>5. QED
  BY <1>1, <1>2, <1>3, <1>4 DEF P!SendPassword, P!MayType, P!MaySend

LEMMA ReadPasswordAnswerFacts ==
    ASSUME IInv, NEW c \in Conns, P!ReadPasswordAnswer(c)
    PROVE  /\ phase[c] = "checked" /\ Got(c) /\ Settled /\ UNCHANGED inbox
           /\ Goes(c, IF outbox[c][1] = BooleanMsg(TRUE) THEN "lobby" ELSE "typing")
BY GoesFacts, GotFacts, SameWire DEF P!ReadPasswordAnswer, P!Phases, Settled

LEMMA ReadPlayerFacts ==
    ASSUME IInv, NEW c \in Conns, P!ReadPlayer(c)
    PROVE  LET m == outbox[c][1] IN
           /\ phase[c] = "lobby" /\ Got(c) /\ m.type = "PLAYER"
           /\ m.num \in Slots /\ m.name \in Texts \cup {Unset} /\ m.ready \in BOOLEAN
           /\ \/ /\ \A j \in Slots : players[c][j] # Null => players[c][j].name # m.name
                 /\ Screen(c, [players[c] EXCEPT ![m.num] = [name |-> m.name, ready |-> m.ready]])
              \/ \E k \in Slots :
                    /\ players[c][k] # Null /\ players[c][k].name = m.name
                    /\ \A j \in Slots : players[c][j] # Null /\ players[c][j].name = m.name => k <= j
                    /\ Screen(c, [players[c] EXCEPT ![k] = [name |-> m.name, ready |-> m.ready]])
           /\ UNCHANGED <<phase, ready, inputs, pending, inbox>>
<1> DEFINE m == outbox[c][1]
<1>1. /\ phase[c] = "lobby" /\ Got(c) /\ P!Incoming(c) = m /\ m.type = "PLAYER"
      /\ UNCHANGED <<phase, ready, inputs, pending, inbox>>
  BY GotFacts DEF P!ReadPlayer
<1>2. m.num \in Slots /\ m.name \in Texts \cup {Unset} /\ m.ready \in BOOLEAN
  BY <1>1, ServerMessageFacts DEF Got
<1> DEFINE e == [name |-> m.name, ready |-> m.ready]
<1>3. e \in Entries
  BY <1>2 DEF Entries
<1>4. CASE /\ P!Shown(c, m.name) = {}
           /\ players' = [players EXCEPT ![c][m.num] = e]
  <2> HIDE DEF e
  <2>1. Screen(c, [players[c] EXCEPT ![m.num] = e])
    BY <1>2, <1>3, <1>4, ScreenFacts
  <2>2. \A j \in Slots : players[c][j] # Null => players[c][j].name # m.name
    BY <1>4, SameWire DEF P!Shown
  <2>3. QED
    BY <1>1, <1>2, <2>1, <2>2 DEF e
<1>5. ASSUME NEW k \in P!FirstShown(c, m.name), players' = [players EXCEPT ![c][k].ready = m.ready]
      PROVE  /\ k \in Slots /\ players[c][k] # Null /\ players[c][k].name = m.name
             /\ \A j \in Slots : players[c][j] # Null /\ players[c][j].name = m.name => k <= j
             /\ Screen(c, [players[c] EXCEPT ![k] = e])
  <2>1. Marked(players[c][k], m.ready) = e
    BY <1>5, SameWire DEF P!FirstShown, P!Shown, Marked
  <2> DEFINE n == m.name
             r == m.ready
  <2>2. k \in P!FirstShown(c, n) /\ r \in BOOLEAN /\ players' = [players EXCEPT ![c][k].ready = r]
        /\ Marked(players[c][k], r) = e
    BY <1>2, <1>5, <2>1
  <2> HIDE DEF e, n, r
  <2>3. /\ k \in Slots /\ players[c][k] # Null /\ players[c][k].name = n
        /\ \A j \in Slots : players[c][j] # Null /\ players[c][j].name = n => k <= j
        /\ Screen(c, [players[c] EXCEPT ![k] = e])
    BY <2>2, MarkedFacts, ZenonT(60)
  <2>4. QED
    BY <2>3 DEF n
<1>6. QED
  BY <1>1, <1>2, <1>4, <1>5 DEF P!ReadPlayer

LEMMA ReadPlayerLeftFacts ==
    ASSUME IInv, NEW c \in Conns, P!ReadPlayerLeft(c)
    PROVE  /\ phase[c] = "lobby" /\ Got(c) /\ outbox[c][1].type = "STRING"
           /\ players' \in [Conns -> [Slots -> Entries \cup {Null}]]
           /\ Goes(c, "crashed") \/ UNCHANGED phase
           /\ UNCHANGED <<ready, inputs, pending, inbox>>
<1>1. /\ phase[c] = "lobby" /\ Got(c) /\ outbox[c][1].type = "STRING"
      /\ UNCHANGED <<ready, inputs, pending, inbox>>
  BY GotFacts DEF P!ReadPlayerLeft
<1>2. players \in [Conns -> [Slots -> Entries \cup {Null}]]
  BY ClientTypes DEF Entries
<1>3. outbox[c][1].text \in Slots
  BY <1>1, ServerMessageFacts DEF Got
<1>4. \/ P!Goto(c, "crashed") /\ UNCHANGED players
      \/ \E k \in Slots : players' = [players EXCEPT ![c][k] = Null] /\ UNCHANGED phase
  BY <1>1, <1>3, SameWire, GotFacts DEF P!ReadPlayerLeft
<1>5. ASSUME NEW k \in Slots, players' = [players EXCEPT ![c][k] = Null]
      PROVE  players' \in [Conns -> [Slots -> Entries \cup {Null}]]
  BY <1>5, ScreenFacts DEF Screen
<1>6. QED
  BY <1>1, <1>2, <1>4, <1>5, GoesFacts DEF P!Phases

LEMMA ReadGameStartFacts ==
    ASSUME IInv, NEW c \in Conns, P!ReadGameStart(c)
    PROVE  /\ phase[c] = "lobby" /\ Got(c) /\ outbox[c][1].type = "BOOLEAN"
           /\ Goes(c, "playing") /\ Settled /\ UNCHANGED inbox
BY GoesFacts, GotFacts DEF P!ReadGameStart, P!Phases, Settled

LEMMA PressKeyFacts ==
    ASSUME IInv, NEW c \in Conns, P!PressKey(c)
    PROVE  /\ phase[c] = "lobby" /\ Len(inbox[c]) < MaxBurst
           /\ \E b \in BOOLEAN : Sent(c, BooleanMsg(b))
           /\ \/ UNCHANGED players
              \/ \E k \in Slots, r \in BOOLEAN :
                    /\ players[c][k] # Null /\ players[c][k].name = UserOf[c]
                    /\ Screen(c, [players[c] EXCEPT ![k] = Marked(players[c][k], r)])
           /\ ready' \in [Conns -> BOOLEAN] /\ inputs' \in [Conns -> Nat]
           /\ UNCHANGED <<phase, pending, outbox>>
<1>1. /\ phase[c] = "lobby" /\ Len(inbox[c]) < MaxBurst /\ UNCHANGED <<phase, pending, outbox>>
  BY DEF P!PressKey, P!MayType, P!MaySend
<1>2. ready' \in [Conns -> BOOLEAN] /\ inputs' \in [Conns -> Nat] /\ (~ready[c]) \in BOOLEAN
  <2>1. ready' = [ready EXCEPT ![c] = ~ready[c]]
    BY DEF P!PressKey
  <2>2. inputs' = [inputs EXCEPT ![c] = inputs[c] + 1]
    BY DEF P!PressKey, P!MayType
  <2>3. (~ready[c]) \in BOOLEAN
    OBVIOUS
  <2>4. QED
    BY <2>1, <2>2, <2>3, ClientTypes
<1>3. \E b \in BOOLEAN : Sent(c, BooleanMsg(b))
  <2> DEFINE b == ~ready[c]
  <2>1. P!Send(c, BooleanMsg(b))
    BY SameWire DEF P!PressKey
  <2> HIDE DEF b
  <2>2. b \in BOOLEAN
    BY <1>2 DEF b
  <2>3. QED
    BY <2>1, <2>2, MessageTypes, SentFacts
<1>4. ASSUME NEW k \in P!FirstShown(c, UserOf[c]), players' = [players EXCEPT ![c][k].ready = ~ready[c]]
      PROVE  \E j \in Slots, r \in BOOLEAN :
                    /\ players[c][j] # Null /\ players[c][j].name = UserOf[c]
                    /\ Screen(c, [players[c] EXCEPT ![j] = Marked(players[c][j], r)])
  <2> DEFINE b == ~ready[c]
  <2>1. b \in BOOLEAN /\ players' = [players EXCEPT ![c][k].ready = b]
    BY <1>2, <1>4
  <2> HIDE DEF b
  <2>2. QED
    BY <2>1, MarkedFacts
<1>5. QED
  BY <1>1, <1>2, <1>3, <1>4 DEF P!PressKey

LEMMA ReadInGameFacts ==
    ASSUME IInv, NEW c \in Conns, P!ReadInGame(c)
    PROVE  /\ phase[c] = "playing" /\ Got(c) /\ Settled
           /\ \/ outbox[c][1].type = "BOOLEAN" /\ Goes(c, "gone") /\ Sent(c, Bye)
              \/ outbox[c][1].type # "BOOLEAN" /\ UNCHANGED <<phase, inbox>>
BY GotFacts, GoesFacts, SentFacts, MessageTypes, SameWire DEF P!ReadInGame, P!Phases, Settled

LEMMA QuitFacts ==
    ASSUME IInv, NEW c \in Conns, P!Quit(c)
    PROVE  /\ c \in Leavers /\ phase[c] \notin {"outside", "gone", "crashed"}
           /\ Len(inbox[c]) < MaxBurst /\ Goes(c, "gone") /\ Sent(c, Bye)
           /\ Settled /\ UNCHANGED outbox
BY GoesFacts, SentFacts, MessageTypes, SameWire DEF P!Quit, P!MaySend, P!Phases, Settled
-----------------------------------------------------------------------------
\* Every step keeps IInv, for every value of the constants.

LEMMA ServerTypeNext ==
    ASSUME /\ clients' \in [Slots -> ClientSet \cup {Null}]
           /\ accounts' \in [Texts -> Texts \cup {NoAccount}]
           /\ readBuffer' \in Seq(ClientMessages)
           /\ at' \in {"select", "read", "announce", "start"}
           /\ cur' \in Slots
           /\ next' \in 0 .. MaxPlayers
           /\ startGame' \in BOOLEAN /\ freed' \in BOOLEAN /\ alive' \in BOOLEAN
           /\ pending' \subseteq Conns
           /\ inbox' \in [Conns -> Seq(ClientMessages)]
           /\ outbox' \in [Conns -> Seq(ServerMessages)]
    PROVE  S!TypeOK'
<1>1. S!Client = ClientSet
  BY SameWire DEF S!Client, ClientSet, S!States, S!Expectations
<1>2. QED
  BY <1>1, SameWire DEF S!TypeOK

LEMMA ClientTypeNext ==
    ASSUME /\ phase' \in [Conns -> P!Phases]
           /\ players' \in [Conns -> [Slots -> Entries \cup {Null}]]
           /\ ready' \in [Conns -> BOOLEAN]
           /\ inputs' \in [Conns -> Nat]
    PROVE  P!TypeOK'
BY SameWire DEF P!TypeOK, P!Entry, Entries

LEMMA ClientTypeKept ==
    ASSUME IInv, UNCHANGED clientVars
    PROVE  P!TypeOK' /\ UNCHANGED <<phase, players, ready, inputs>>
BY ClientTypes, ClientTypeNext DEF clientVars, Entries

LEMMA ServerTypeKept ==
    ASSUME IInv, UNCHANGED serverVars,
           pending' \subseteq Conns,
           inbox' \in [Conns -> Seq(ClientMessages)],
           outbox' \in [Conns -> Seq(ServerMessages)]
    PROVE  /\ S!TypeOK' /\ CurInv' /\ StateInv' /\ StartInv'
           /\ UNCHANGED <<clients, accounts, readBuffer, at, cur, next, startGame, freed, alive>>
<1>1. UNCHANGED <<clients, accounts, readBuffer, at, cur, next, startGame, freed, alive>>
  BY DEF serverVars
<1>2. S!TypeOK'
  BY <1>1, ServerTypes, ServerTypeNext
<1>3. QED
  BY <1>1, <1>2 DEF IInv, CurInv, StateInv, StartInv, Seat

\* The table only loses clients, or its clients keep their connections.
LEMMA SeatsNext ==
    ASSUME IInv, UNCHANGED <<phase, pending>>,
           \A k \in Slots : clients'[k] # Null => Seat(k) /\ clients'[k].con = Conn(k)
    PROVE  SeatsInv'
BY DEF IInv, SeatsInv, Seat, Conn

LEMMA FirstSlot == 0 \in Slots /\ 0 \in 0 .. MaxPlayers /\ \A k \in Slots : k + 1 \in 0 .. MaxPlayers
BY MaxPlayersAssumption DEF Slots

LEMMA AcceptIInv ==
    ASSUME IInv, NEW c \in Conns, NEW k \in Slots, S!AcceptClient(c, k), UNCHANGED clientVars
    PROVE  IInv'
<1>1. /\ c \in pending /\ ~Seat(k) /\ pending' = pending \ {c}
      /\ Becomes(k, Newcomer(c)) /\ Newcomer(c) \in ClientSet /\ Newcomer(c) # Null
      /\ Idle /\ UNCHANGED <<at, cur, next, alive, outbox>>
  BY AcceptFacts, NotNull
<1>2. \A j \in Slots \ {k} : clients'[j] = clients[j]
  BY <1>1 DEF Becomes
<1>3. clients'[k] = Newcomer(c)
  BY <1>1 DEF Becomes
<1>4. S!TypeOK'
  BY <1>1, ServerTypes, ServerTypeNext DEF Becomes, Idle
<1>5. CurInv'
  BY <1>1, <1>2, <1>3, ServerTypes DEF IInv, CurInv, Seat
<1>6. StateInv'
  <2>1. ASSUME NEW j \in Slots, clients'[j] # Null
        PROVE  /\ (clients'[j].state \in {"WAITING", "READY_PLAY"} <=> clients'[j].expecting = "READY_TO_PLAY")
               /\ (clients'[j].state = "PLAYING" <=> clients'[j].expecting = "MOVEMENT")
    <3>1. CASE j = k
      BY <1>3, <3>1 DEF Newcomer
    <3>2. CASE j # k
      BY <1>2, <2>1, <3>2 DEF IInv, StateInv, Seat
    <3>3. QED
      BY <3>1, <3>2
  <2>2. QED
    BY <2>1 DEF StateInv, Seat
<1>7. StartInv'
  <2>1. ASSUME NEW j \in Slots, clients'[j] # Null, at = "start"
        PROVE  \/ clients'[j].state = "READY_PLAY"
               \/ clients'[j].state = "LOGGING" /\ clients'[j].expecting = "USER"
    <3>1. CASE j = k
      BY <1>3, <3>1 DEF Newcomer
    <3>2. CASE j # k
      BY <1>2, <2>1, <3>2 DEF IInv, StartInv, Seat
    <3>3. QED
      BY <3>1, <3>2
  <2>2. QED
    BY <1>1, <2>1 DEF StartInv, Seat
<1>8. SeatsInv'
  <2>1. UNCHANGED phase /\ phase[c] # "outside"
    BY <1>1, ClientTypeKept DEF IInv, SeatsInv
  <2>2. ASSUME NEW j \in Slots, clients'[j] # Null
        PROVE  /\ clients'[j].con \notin pending' /\ phase'[clients'[j].con] # "outside"
               /\ j # k => clients'[j].con # c
    <3>1. CASE j = k
      BY <1>1, <1>3, <2>1, <3>1 DEF Newcomer
    <3>2. CASE j # k
      BY <1>1, <1>2, <2>1, <2>2, <3>2 DEF IInv, SeatsInv, Seat, Conn
    <3>3. QED
      BY <3>1, <3>2
  <2>3. ASSUME NEW i \in Slots, NEW j \in Slots, clients'[i] # Null, clients'[j] # Null,
               clients'[i].con = clients'[j].con
        PROVE  i = j
    <3>1. clients'[k].con = c
      BY <1>3 DEF Newcomer
    <3>2. CASE i = k \/ j = k
      BY <2>2, <2>3, <3>1, <3>2
    <3>3. CASE i # k /\ j # k
      BY <1>2, <2>3, <3>3 DEF IInv, SeatsInv, Seat, Conn
    <3>4. QED
      BY <3>2, <3>3
  <2>4. \A d \in pending' : phase'[d] # "outside"
    BY <1>1, <2>1 DEF IInv, SeatsInv
  <2>5. QED
    BY <2>2, <2>3, <2>4 DEF SeatsInv, Seat, Conn
<1>9. QED
  BY <1>4, <1>5, <1>6, <1>7, <1>8, ClientTypeKept DEF IInv, TypeOK

\* A handler that gives the client it serves the value cl, or takes it out.
LEMMA HandlerIInv ==
    ASSUME IInv, Took, NEW cl \in ClientSet \cup {Null}, Becomes(cur, cl),
           cl # Null => /\ cl.con = Conn(cur)
                        /\ (cl.state \in {"WAITING", "READY_PLAY"} <=> cl.expecting = "READY_TO_PLAY")
                        /\ (cl.state = "PLAYING" <=> cl.expecting = "MOVEMENT"),
           \/ at' = "select" /\ cur' = 0
           \/ at' = "announce" /\ cur' = cur /\ cl # Null
           \/ /\ at' = "start" /\ cur' = cur /\ cl # Null
              /\ \A k \in Slots : clients'[k] # Null => clients'[k].state = "READY_PLAY",
           next' = 0,
           accounts' \in [Texts -> Texts \cup {NoAccount}],
           startGame' \in BOOLEAN, freed' \in BOOLEAN, alive' \in BOOLEAN,
           outbox' \in [Conns -> Seq(ServerMessages)],
           UNCHANGED clientVars
    PROVE  IInv'
<1>1. /\ at' \in {"select", "announce", "start"} /\ cur' \in Slots /\ next' \in 0 .. MaxPlayers
      /\ pending' \subseteq Conns
  BY FirstSlot, ServerTypes DEF Took
<1>2. S!TypeOK'
  BY <1>1, ServerTypeNext DEF Took, Becomes
<1>3. clients'[cur] = cl /\ \A j \in Slots \ {cur} : clients'[j] = clients[j]
  BY DEF Becomes, Took
<1>4. CurInv'
  BY <1>3 DEF CurInv, Seat
<1>5. StateInv'
  <2>1. ASSUME NEW j \in Slots, clients'[j] # Null
        PROVE  /\ (clients'[j].state \in {"WAITING", "READY_PLAY"} <=> clients'[j].expecting = "READY_TO_PLAY")
               /\ (clients'[j].state = "PLAYING" <=> clients'[j].expecting = "MOVEMENT")
    <3>1. CASE j = cur
      BY <1>3, <2>1, <3>1
    <3>2. CASE j # cur
      BY <1>3, <2>1, <3>2 DEF IInv, StateInv, Seat
    <3>3. QED
      BY <3>1, <3>2
  <2>2. QED
    BY <2>1 DEF StateInv, Seat
<1>6. StartInv'
  BY DEF StartInv, Seat
<1>7. SeatsInv'
  <2>1. UNCHANGED <<phase, pending>>
    BY ClientTypeKept DEF Took
  <2>2. ASSUME NEW k \in Slots, clients'[k] # Null
        PROVE  Seat(k) /\ clients'[k].con = Conn(k)
    BY <1>3, <2>2 DEF Seat, Conn, Took
  <2>3. QED
    BY <2>1, <2>2, SeatsNext
<1>8. QED
  BY <1>2, <1>4, <1>5, <1>6, <1>7, ClientTypeKept DEF IInv, TypeOK

\* A value that a client in the table may be given.
Renewal(cl) == /\ cl \in ClientSet \cup {Null} /\ cl # Null /\ cl.con = Conn(cur)
               /\ (cl.state \in {"WAITING", "READY_PLAY"} <=> cl.expecting = "READY_TO_PLAY")
               /\ (cl.state = "PLAYING" <=> cl.expecting = "MOVEMENT")

LEMMA RenewedFacts ==
    ASSUME Took, NEW n \in Texts \cup {Unset}, NEW s, NEW e,
           \/ s = "LOGGING" /\ e \in {"PASSWORD", "NEWPASSWORD"}
           \/ s \in {"WAITING", "READY_PLAY"} /\ e = "READY_TO_PLAY"
    PROVE  Renewal(Renewed(n, s, e))
<1>1. Renewed(n, s, e) \in ClientSet
  BY DEF Renewed, ClientSet, Took, Conn
<1>2. QED
  BY <1>1, NotNull DEF Renewal, Renewed, Conn

LEMMA HandlersIInv ==
    ASSUME IInv, UNCHANGED clientVars,
           \/ S!ResolveUser \/ S!ResolvePassword \/ S!ResolveNewPassword
           \/ S!ResolveReady \/ S!ResolveMovement \/ S!Disconnect
    PROVE  IInv'
<1>1. /\ accounts \in [Texts -> Texts \cup {NoAccount}]
      /\ startGame \in BOOLEAN /\ freed \in BOOLEAN /\ alive \in BOOLEAN
      /\ outbox \in [Conns -> Seq(ServerMessages)] /\ clients \in [Slots -> ClientSet \cup {Null}]
  BY ServerTypes
<1>2. ASSUME Took, UNCHANGED clients
      PROVE  /\ clients[cur] \in ClientSet \cup {Null} /\ clients[cur].con = Conn(cur)
             /\ Becomes(cur, clients[cur]) /\ clients[cur] # Null
             /\ (clients[cur].state \in {"WAITING", "READY_PLAY"} <=> clients[cur].expecting = "READY_TO_PLAY")
             /\ (clients[cur].state = "PLAYING" <=> clients[cur].expecting = "MOVEMENT")
  BY <1>1, <1>2 DEF Took, Becomes, Seat, Conn, IInv, StateInv
<1>3. CASE S!ResolveUser
  <2> DEFINE e == IF accounts[S!Request.text] # NoAccount THEN "PASSWORD" ELSE "NEWPASSWORD"
  <2>1. /\ Took /\ ServerStill /\ at' = "select" /\ cur' = 0 /\ next' = 0
        /\ clients[cur].expecting = "USER"
    BY <1>3, UserFacts
  <2>2. CASE UNCHANGED <<clients, outbox>>
    BY <1>1, <1>2, <2>1, <2>2, HandlerIInv DEF ServerStill
  <2>3. CASE /\ S!Request.text \in Texts
             /\ Becomes(cur, Renewed(S!Request.text, clients[cur].state, e))
             /\ Sends({Conn(cur)}, BooleanMsg(accounts[S!Request.text] # NoAccount))
    <3>1. clients[cur].state = "LOGGING"
      BY <2>1, SeatFacts DEF Took, IInv, StateInv, ClientSet
    <3>2. e \in {"PASSWORD", "NEWPASSWORD"}
      OBVIOUS
    <3> HIDE DEF e
    <3>3. Renewal(Renewed(S!Request.text, clients[cur].state, e))
      BY <2>1, <2>3, <3>1, <3>2, RenewedFacts
    <3>4. QED
      BY <1>1, <2>1, <2>3, <3>3, HandlerIInv DEF ServerStill, Sends, Renewal
  <2>4. QED
    BY <1>3, <2>2, <2>3, UserFacts
<1>4. CASE S!ResolvePassword
  <2>1. Took /\ ServerStill /\ next' = 0 /\ clients[cur].name \in Texts \cup {Unset}
    BY <1>4, PasswordFacts, SeatFacts DEF Took, ClientSet
  <2>2. CASE at' = "select" /\ cur' = 0 /\ UNCHANGED clients /\ Sends({Conn(cur)}, BooleanMsg(FALSE))
    BY <1>1, <1>2, <2>1, <2>2, HandlerIInv DEF ServerStill, Sends
  <2>3. CASE /\ at' = "announce" /\ cur' = cur
             /\ Becomes(cur, Renewed(clients[cur].name, "WAITING", "READY_TO_PLAY"))
             /\ Answers(Conn(cur), BooleanMsg(TRUE), Lobbyists, PlayerMsg(cur, clients[cur].name, FALSE))
    <3>1. Renewal(Renewed(clients[cur].name, "WAITING", "READY_TO_PLAY"))
      BY <2>1, RenewedFacts
    <3>2. QED
      BY <1>1, <2>1, <2>3, <3>1, HandlerIInv DEF ServerStill, Answers, Renewal
  <2>4. QED
    BY <1>4, <2>2, <2>3, PasswordFacts
<1>5. CASE S!ResolveNewPassword
  <2>1. /\ Took /\ next' = 0 /\ UNCHANGED <<startGame, freed, alive>>
        /\ clients[cur].name \in Texts \cup {Unset}
    BY <1>5, NewPasswordFacts, SeatFacts DEF Took, ClientSet
  <2>2. CASE at' = "select" /\ cur' = 0 /\ UNCHANGED <<accounts, clients, outbox>>
    BY <1>1, <1>2, <2>1, <2>2, HandlerIInv
  <2>3. CASE /\ at' = "announce" /\ cur' = cur /\ UNCHANGED <<accounts, clients>>
             /\ Answers(Conn(cur), BooleanMsg(FALSE), Lobbyists, About(cur, clients[cur]))
    BY <1>1, <1>2, <2>1, <2>3, HandlerIInv DEF Answers
  <2>4. CASE /\ at' = "announce" /\ cur' = cur /\ S!Request.text \in Texts
             /\ accounts' = [accounts EXCEPT ![clients[cur].name] = S!Request.text]
             /\ Becomes(cur, Renewed(clients[cur].name, "WAITING", "READY_TO_PLAY"))
             /\ Answers(Conn(cur), BooleanMsg(TRUE), Lobbyists, PlayerMsg(cur, clients[cur].name, FALSE))
    <3>1. Renewal(Renewed(clients[cur].name, "WAITING", "READY_TO_PLAY"))
      BY <2>1, RenewedFacts
    <3>2. accounts' \in [Texts -> Texts \cup {NoAccount}]
      BY <1>1, <2>4
    <3>3. QED
      BY <1>1, <2>1, <2>4, <3>1, <3>2, HandlerIInv DEF Answers, Renewal
  <2>5. QED
    BY <1>5, <2>2, <2>3, <2>4, NewPasswordFacts
<1>6. CASE S!ResolveReady
  <2>1. /\ Took /\ next' = 0 /\ UNCHANGED <<accounts, freed, alive>>
        /\ clients[cur].name \in Texts \cup {Unset}
    BY <1>6, ReadyFacts, SeatFacts DEF Took, ClientSet
  <2>2. CASE at' = "select" /\ cur' = 0 /\ UNCHANGED <<clients, outbox, startGame>>
    BY <1>1, <1>2, <2>1, <2>2, HandlerIInv
  <2>3. CASE /\ Becomes(cur, Renewed(clients[cur].name, S!Word(S!Request.flag), "READY_TO_PLAY"))
             /\ Sends(Lobbyists \ {Conn(cur)}, PlayerMsg(cur, clients[cur].name, S!Request.flag))
             /\ \/ at' = "select" /\ cur' = 0 /\ UNCHANGED startGame
                \/ /\ at' = "start" /\ cur' = cur /\ startGame' = TRUE
                   /\ \A k \in Slots : clients'[k] # Null => clients'[k].state = "READY_PLAY"
    <3>1. S!Word(S!Request.flag) \in {"WAITING", "READY_PLAY"}
      BY DEF S!Word
    <3>2. Renewal(Renewed(clients[cur].name, S!Word(S!Request.flag), "READY_TO_PLAY"))
      BY <2>1, <3>1, RenewedFacts
    <3>3. startGame' \in BOOLEAN
      BY <1>1, <2>3
    <3>4. QED
      BY <1>1, <2>1, <2>3, <3>2, <3>3, HandlerIInv DEF Sends, Renewal
  <2>4. QED
    BY <1>6, <2>2, <2>3, ReadyFacts
<1>7. CASE S!ResolveMovement
  BY <1>1, <1>2, <1>7, MovementFacts, HandlerIInv DEF ServerStill
<1>8. CASE S!Disconnect
  <2>1. /\ Took /\ at' = "select" /\ cur' = 0 /\ next' = 0 /\ Becomes(cur, Null)
        /\ outbox' \in [Conns -> Seq(ServerMessages)]
        /\ alive' \in BOOLEAN /\ freed' \in BOOLEAN /\ UNCHANGED <<accounts, startGame>>
    BY <1>8, DisconnectFacts DEF Sends
  <2> DEFINE cl == Null
  <2>2. cl \in ClientSet \cup {Null} /\ Becomes(cur, cl) /\ cl = Null
    BY <2>1
  <2> HIDE DEF cl
  <2>3. QED
    BY <1>1, <2>1, <2>2, HandlerIInv
<1>9. QED
  BY <1>3, <1>4, <1>5, <1>6, <1>7, <1>8

LEMMA ServerIInv ==
    ASSUME IInv, S!Next, UNCHANGED clientVars
    PROVE  IInv'
<1>1. ASSUME NEW k \in Slots, S!ListenToClients(k)
      PROVE  IInv'
  <2>1. /\ Seat(k) /\ at' = "read" /\ cur' = k /\ Idle /\ UNCHANGED <<clients, next, alive, pending, outbox>>
    BY <1>1, ListenFacts
  <2>2. S!TypeOK'
    BY <2>1, ServerTypes, ServerTypeNext DEF Idle
  <2>3. CurInv' /\ StateInv' /\ StartInv'
    BY <2>1 DEF IInv, CurInv, StateInv, StartInv, Seat
  <2>4. SeatsInv'
    BY <2>1, ClientTypeKept DEF IInv, SeatsInv, Seat, Conn
  <2>5. QED
    BY <2>2, <2>3, <2>4, ClientTypeKept DEF IInv, TypeOK
<1>2. CASE S!NotifyExistingPlayers
  <2>1. /\ at = "announce" /\ next \in Slots /\ next' = next + 1
        /\ Idle /\ UNCHANGED <<clients, at, cur, pending>>
    BY <1>2, NotifyFacts
  <2>2. alive' \in BOOLEAN /\ outbox' \in [Conns -> Seq(ServerMessages)]
    <3>1. alive \in BOOLEAN /\ outbox \in [Conns -> Seq(ServerMessages)]
      BY ServerTypes
    <3>2. CASE UNCHANGED <<alive, outbox>>
      BY <3>1, <3>2
    <3>3. CASE Sends({Conn(cur)}, About(next, clients[next])) /\ UNCHANGED alive
      BY <3>1, <3>3 DEF Sends
    <3>4. CASE alive' = FALSE /\ UNCHANGED outbox
      BY <3>1, <3>4
    <3>5. QED
      BY <1>2, <3>2, <3>3, <3>4, NotifyFacts
  <2>3. S!TypeOK'
    BY <2>1, <2>2, FirstSlot, ServerTypes, ServerTypeNext DEF Idle
  <2>4. CurInv' /\ StateInv' /\ StartInv'
    BY <2>1 DEF IInv, CurInv, StateInv, StartInv, Seat
  <2>5. SeatsInv'
    BY <2>1, ClientTypeKept DEF IInv, SeatsInv, Seat, Conn
  <2>6. QED
    BY <2>3, <2>4, <2>5, ClientTypeKept DEF IInv, TypeOK
<1>3. CASE S!NotifyDone
  <2>1. at' = "select" /\ cur' = 0 /\ next' = 0 /\ Idle /\ UNCHANGED <<clients, alive, pending, outbox>>
    BY <1>3, NotifyDoneFacts
  <2>2. S!TypeOK'
    BY <2>1, FirstSlot, ServerTypes, ServerTypeNext DEF Idle
  <2>3. CurInv' /\ StateInv' /\ StartInv'
    BY <2>1 DEF IInv, CurInv, StateInv, StartInv, Seat
  <2>4. SeatsInv'
    BY <2>1, ClientTypeKept DEF IInv, SeatsInv, Seat, Conn
  <2>5. QED
    BY <2>2, <2>3, <2>4, ClientTypeKept DEF IInv, TypeOK
<1>4. CASE S!SendGameStart
  <2>1. /\ at' = "select" /\ cur' = 0 /\ next' = 0 /\ Idle /\ UNCHANGED <<alive, pending>>
        /\ clients' \in [Slots -> ClientSet \cup {Null}]
        /\ \A k \in Slots : clients'[k] = IF Seat(k) THEN Playing(k) ELSE Null
        /\ outbox' \in [Conns -> Seq(ServerMessages)]
    BY <1>4, GameStartFacts DEF Sends
  <2>2. S!TypeOK'
    BY <2>1, FirstSlot, ServerTypes, ServerTypeNext DEF Idle
  <2>3. CurInv' /\ StartInv'
    BY <2>1 DEF CurInv, StartInv
  <2>4. \A k \in Slots : clients'[k] # Null => Seat(k) /\ clients'[k] = Playing(k)
    BY <2>1
  <2>5. StateInv'
    <3>1. \A k \in Slots : clients'[k] # Null => clients'[k].state = "PLAYING"
             /\ clients'[k].expecting = "MOVEMENT"
      <4>1. \A k \in Slots : Playing(k).state = "PLAYING" /\ Playing(k).expecting = "MOVEMENT"
        BY DEF Playing
      <4>2. QED
        BY <2>4, <4>1
    <3>2. QED
      BY <3>1 DEF StateInv, Seat
  <2>6. SeatsInv'
    BY <2>1, <2>4, ClientTypeKept, SeatsNext DEF Playing
  <2>7. QED
    BY <2>2, <2>3, <2>5, <2>6, ClientTypeKept DEF IInv, TypeOK
<1>5. QED
  BY <1>1, <1>2, <1>3, <1>4, HandlersIInv, AcceptIInv, SameWire DEF S!Next, S!Reader, S!Accepter

\* A client's step moves it to the phase p, and it does not come from outside
\* unless it connects.
LEMMA ClientIInv ==
    ASSUME IInv, NEW c \in Conns, P!Program(c) \/ P!Player(c), UNCHANGED serverVars
    PROVE  IInv'
<1>1. /\ phase \in [Conns -> P!Phases] /\ players \in [Conns -> [Slots -> Entries \cup {Null}]]
      /\ ready \in [Conns -> BOOLEAN] /\ inputs \in [Conns -> Nat]
      /\ pending \subseteq Conns
      /\ inbox \in [Conns -> Seq(ClientMessages)] /\ outbox \in [Conns -> Seq(ServerMessages)]
  BY ClientTypes, ServerTypes DEF Entries
<1>2. UNCHANGED clients
  BY DEF serverVars
<1>3. ASSUME UNCHANGED pending, phase' \in [Conns -> P!Phases],
             \A d \in Conns : phase[d] # "outside" => phase'[d] # "outside",
             players' \in [Conns -> [Slots -> Entries \cup {Null}]],
             ready' \in [Conns -> BOOLEAN], inputs' \in [Conns -> Nat],
             inbox' \in [Conns -> Seq(ClientMessages)], outbox' \in [Conns -> Seq(ServerMessages)]
      PROVE  IInv'
  <2>1. SeatsInv'
    <3>1. \A k \in Slots : Seat(k) => Conn(k) \in Conns
      BY SeatFacts
    <3>2. QED
      BY <1>1, <1>2, <1>3, <3>1 DEF IInv, SeatsInv, Seat, Conn
  <2>2. QED
    BY <1>1, <1>3, <2>1, ServerTypeKept, ClientTypeNext DEF IInv, TypeOK
<1>4. CASE P!Connect(c)
  <2>1. /\ phase[c] = "outside" /\ Goes(c, "naming") /\ pending' = pending \cup {c}
        /\ UNCHANGED <<players, ready, inputs, inbox, outbox>>
    BY <1>4, ConnectFacts
  <2>2. SeatsInv'
    <3>1. \A k \in Slots : Seat(k) => Conn(k) \in Conns /\ Conn(k) # c
      BY <2>1, SeatFacts DEF IInv, SeatsInv
    <3>2. QED
      BY <1>1, <1>2, <2>1, <3>1 DEF IInv, SeatsInv, Seat, Conn, Goes
  <2>3. QED
    BY <1>1, <2>1, <2>2, ServerTypeKept, ClientTypeNext DEF IInv, TypeOK, Goes
<1>5. ASSUME NEW p, Goes(c, p), p # "outside"
      PROVE  /\ phase' \in [Conns -> P!Phases]
             /\ \A d \in Conns : phase[d] # "outside" => phase'[d] # "outside"
  BY <1>5 DEF Goes
<1>6. CASE P!SendName(c)
  BY <1>1, <1>3, <1>5, <1>6, SendNameFacts DEF Settled, Sent
<1>7. CASE P!ReadNameAnswer(c)
  BY <1>1, <1>3, <1>5, <1>7, ReadNameAnswerFacts DEF Settled, Got
<1>8. ASSUME NEW p \in Passwords, P!SendPassword(c, p)
      PROVE  IInv'
  BY <1>1, <1>3, <1>5, <1>8, SendPasswordFacts DEF Sent
<1>9. CASE P!ReadPasswordAnswer(c)
  BY <1>1, <1>3, <1>5, <1>9, ReadPasswordAnswerFacts DEF Settled, Got
<1>10. CASE P!ReadPlayer(c)
  <2>1. /\ UNCHANGED <<phase, ready, inputs, pending, inbox>> /\ Got(c)
        /\ players' \in [Conns -> [Slots -> Entries \cup {Null}]]
    BY <1>10, ReadPlayerFacts DEF Screen
  <2>2. QED
    BY <1>1, <1>3, <2>1 DEF Got
<1>11. CASE P!ReadPlayerLeft(c)
  <2>1. /\ UNCHANGED <<ready, inputs, pending, inbox>> /\ Got(c)
        /\ players' \in [Conns -> [Slots -> Entries \cup {Null}]]
        /\ Goes(c, "crashed") \/ UNCHANGED phase
    BY <1>11, ReadPlayerLeftFacts
  <2>2. QED
    BY <1>1, <1>3, <1>5, <2>1 DEF Got
<1>12. CASE P!ReadGameStart(c)
  BY <1>1, <1>3, <1>5, <1>12, ReadGameStartFacts DEF Settled, Got
<1>13. CASE P!PressKey(c)
  <2>1. /\ UNCHANGED <<phase, pending, outbox>>
        /\ ready' \in [Conns -> BOOLEAN] /\ inputs' \in [Conns -> Nat]
        /\ inbox' \in [Conns -> Seq(ClientMessages)]
        /\ players' \in [Conns -> [Slots -> Entries \cup {Null}]]
    BY <1>1, <1>13, PressKeyFacts DEF Sent, Screen
  <2>2. QED
    BY <1>1, <1>3, <2>1
<1>14. CASE P!ReadInGame(c)
  <2>1. /\ Settled /\ Got(c) /\ inbox' \in [Conns -> Seq(ClientMessages)]
        /\ Goes(c, "gone") \/ UNCHANGED phase
    BY <1>1, <1>14, ReadInGameFacts DEF Sent
  <2>2. QED
    BY <1>1, <1>3, <1>5, <2>1 DEF Got, Settled
<1>15. CASE P!Quit(c)
  BY <1>1, <1>3, <1>5, <1>15, QuitFacts DEF Settled, Sent
<1>16. QED
  BY <1>4, <1>6, <1>7, <1>8, <1>9, <1>10, <1>11, <1>12, <1>13, <1>14, <1>15 DEF P!Program, P!Player

LEMMA StepIInv == IInv /\ [Next]_vars => IInv'
<1> SUFFICES ASSUME IInv, [Next]_vars
             PROVE  IInv'
  OBVIOUS
<1>1. CASE ServerStep
  BY <1>1, ServerIInv DEF ServerStep
<1>2. CASE ClientStep
  BY <1>2, ClientIInv DEF ClientStep, P!Next
<1>3. CASE UNCHANGED vars
  <2>1. UNCHANGED <<clientVars, serverVars, pending, inbox, outbox>>
    BY <1>3 DEF vars
  <2>2. UNCHANGED <<clients, phase, pending>>
    BY <2>1 DEF clientVars, serverVars
  <2>3. SeatsInv'
    BY <2>2 DEF IInv, SeatsInv, Seat, Conn
  <2>4. QED
    BY <2>1, <2>3, ServerTypes, ServerTypeKept, ClientTypeKept DEF IInv, TypeOK
<1>4. QED
  BY <1>1, <1>2, <1>3 DEF Next

\* Every variable keeps its type, however the handlers, the accept thread and
\* the clients interleave: in particular the reading thread never serves an
\* empty slot, and its loop index stays within the table.
THEOREM TypesKept == Spec => []TypeOK
<1>1. IInv => TypeOK
  BY DEF IInv
<1>2. QED
  BY <1>1, InitIInv, StepIInv, PTL DEF Spec

\* Whoever is drawn into the game was ready or has only just connected
\* (childServer.c: checkGameStart, then sendGameStart).
THEOREM NobodyElseDragged == Spec => OnlyNewcomersDragged
<1> DEFINE Dragged == \A k \in Slots :
               clients[k] # Null /\ clients'[k] # Null
                   /\ clients[k].state # "PLAYING" /\ clients'[k].state = "PLAYING"
               => \/ clients[k].state = "READY_PLAY"
                  \/ clients[k].state = "LOGGING" /\ clients[k].expecting = "USER"
<1>1. ASSUME IInv, [Next]_vars
      PROVE  [Dragged]_vars
  <2> SUFFICES ASSUME NEW k \in Slots, clients[k] # Null, clients'[k] # Null,
                      clients[k].state # "PLAYING", clients'[k].state = "PLAYING"
               PROVE  at = "start"
    BY <1>1 DEF IInv, StartInv, Seat
  <2> SUFFICES ASSUME at # "start"
               PROVE  FALSE
    OBVIOUS
  <2>1. CASE UNCHANGED clients
    BY <2>1
  <2>2. ASSUME NEW j \in Slots, NEW cl, Becomes(j, cl), cl # Null => cl.state # "PLAYING"
        PROVE  FALSE
    BY <2>2 DEF Becomes
  <2>3. CASE ServerStep
    <3>1. ASSUME NEW c \in Conns, NEW j \in Slots, S!AcceptClient(c, j)
          PROVE  FALSE
      BY <1>1, <2>2, <3>1, AcceptFacts DEF Newcomer
    <3>2. ASSUME NEW j \in Slots, S!ListenToClients(j)
          PROVE  FALSE
      BY <1>1, <2>1, <3>2, ListenFacts
    <3>3. CASE S!ResolveUser
      <4>1. Took /\ clients[cur].expecting = "USER" /\ clients[cur].state # "PLAYING"
        BY <1>1, <3>3, UserFacts DEF IInv, StateInv, Took
      <4>2. QED
        BY <1>1, <2>1, <2>2, <3>3, <4>1, UserFacts DEF Renewed, Took
    <3>4. CASE S!ResolvePassword
      BY <1>1, <2>1, <2>2, <3>4, PasswordFacts DEF Renewed, Took
    <3>5. CASE S!ResolveNewPassword
      BY <1>1, <2>1, <2>2, <3>5, NewPasswordFacts DEF Renewed, Took
    <3>6. CASE S!NotifyExistingPlayers
      BY <1>1, <2>1, <3>6, NotifyFacts
    <3>7. CASE S!NotifyDone
      BY <1>1, <2>1, <3>7, NotifyDoneFacts
    <3>8. CASE S!ResolveReady
      BY <1>1, <2>1, <2>2, <3>8, ReadyFacts DEF Renewed, Took, S!Word
    <3>9. CASE S!SendGameStart
      BY <1>1, <3>9, GameStartFacts
    <3>10. CASE S!ResolveMovement
      BY <1>1, <2>1, <3>10, MovementFacts
    <3>11. CASE S!Disconnect
      BY <1>1, <2>2, <3>11, DisconnectFacts DEF Took
    <3>12. QED
      BY <2>3, <3>1, <3>2, <3>3, <3>4, <3>5, <3>6, <3>7, <3>8, <3>9, <3>10, <3>11, SameWire
      DEF ServerStep, S!Next, S!Reader, S!Accepter
  <2>4. CASE ClientStep
    BY <2>1, <2>4 DEF ClientStep, serverVars
  <2>5. CASE UNCHANGED vars
    BY <2>1, <2>5 DEF vars, serverVars
  <2>6. QED
    BY <1>1, <2>3, <2>4, <2>5 DEF Next
<1>2. Spec => [][Dragged]_vars
  BY <1>1, InitIInv, StepIInv, PTL DEF Spec
<1>3. QED
  BY <1>2 DEF OnlyNewcomersDragged
-----------------------------------------------------------------------------
(* The table of connections is the one of SlotTable.                       *)

\* Once a slot has been cleared, its connection is gone.
FreedInv == freed => TableGone # {}

\* The same connections in the same slots.
SameSeats == \A k \in Slots : /\ Seat(k) <=> clients'[k] # Null
                              /\ Seat(k) => clients'[k].con = Conn(k)

LEMMA SameTable ==
    /\ Table!Slots = Slots
    /\ \A k \in Slots : TableClients[k] = IF Seat(k) THEN Conn(k) ELSE Null
    /\ \A k \in Slots : TableClients'[k] = IF clients'[k] # Null THEN clients'[k].con ELSE Null
BY DEF Table!Slots, Slots, TableClients, Seat, Conn

\* A step that moves no connection.
LEMMA NothingMoves ==
    ASSUME IInv, SameSeats, UNCHANGED <<pending, freed>>,
           \A c \in Conns : phase[c] = "outside" <=> phase'[c] = "outside"
    PROVE  UNCHANGED Table!tableVars /\ (FreedInv => FreedInv')
<1>1. TableClients' = TableClients
  BY DEF SameSeats, TableClients, Seat, Conn
<1>2. TableGone' = TableGone
  BY <1>1 DEF TableGone
<1>3. UNCHANGED Table!tableVars
  BY <1>1, <1>2 DEF Table!tableVars
<1>4. FreedInv => FreedInv'
  BY <1>2 DEF FreedInv
<1> QED BY <1>3, <1>4

\* A client that a handler renews keeps its connection.
LEMMA RenewedSeat ==
    ASSUME Took, NEW cl, Renewal(cl), Becomes(cur, cl)
    PROVE  SameSeats
BY DEF SameSeats, Seat, Conn, Took, Renewal, Becomes

\* The only handler that takes a client out of the table is disconnect.
LEMMA HandlersKeepSeats ==
    ASSUME IInv, S!Reader, ~S!Disconnect
    PROVE  SameSeats /\ UNCHANGED <<pending, freed>>
<1>1. ASSUME UNCHANGED clients PROVE SameSeats
  BY <1>1 DEF SameSeats, Seat, Conn
<1>2. ASSUME NEW k \in Slots, S!ListenToClients(k)
      PROVE  SameSeats /\ UNCHANGED <<pending, freed>>
  BY <1>1, <1>2, ListenFacts DEF Idle
<1>3. CASE S!NotifyExistingPlayers
  BY <1>1, <1>3, NotifyFacts DEF Idle
<1>4. CASE S!NotifyDone
  BY <1>1, <1>4, NotifyDoneFacts DEF Idle
<1>5. CASE S!SendGameStart
  <2>1. /\ Idle /\ UNCHANGED <<alive, pending>>
        /\ \A k \in Slots : clients'[k] = IF Seat(k) THEN Playing(k) ELSE Null
    BY <1>5, GameStartFacts
  <2>2. \A k \in Slots : Seat(k) => Playing(k) \in ClientSet /\ Playing(k).con = Conn(k)
    BY SeatFacts DEF Playing, ClientSet, Conn
  <2>3. SameSeats
    BY <2>1, <2>2, NotNull DEF SameSeats
  <2> QED BY <2>1, <2>3 DEF Idle
<1>6. CASE S!ResolveUser
  <2> DEFINE e == IF accounts[S!Request.text] # NoAccount THEN "PASSWORD" ELSE "NEWPASSWORD"
  <2>1. Took /\ ServerStill /\ clients[cur].expecting = "USER" /\ Seat(cur) /\ cur \in Slots
    BY <1>6, UserFacts DEF Took
  <2>2. clients[cur].state = "LOGGING"
    BY <2>1, SeatFacts DEF IInv, StateInv, ClientSet
  <2>3. CASE S!Request.text \in Texts /\ Becomes(cur, Renewed(S!Request.text, clients[cur].state, e))
    <3>1. e \in {"PASSWORD", "NEWPASSWORD"}
      OBVIOUS
    <3> HIDE DEF e
    <3>2. Renewal(Renewed(S!Request.text, clients[cur].state, e))
      BY <2>1, <2>2, <2>3, <3>1, RenewedFacts
    <3> QED BY <2>1, <2>3, <3>2, RenewedSeat DEF ServerStill, Took
  <2> QED BY <1>1, <1>6, <2>1, <2>3, UserFacts DEF ServerStill, Took
<1>7. ASSUME Took, NEW s \in {"WAITING", "READY_PLAY"},
             Becomes(cur, Renewed(clients[cur].name, s, "READY_TO_PLAY"))
      PROVE  SameSeats
  <2>1. clients[cur].name \in Texts \cup {Unset}
    BY <1>7, SeatFacts DEF Took, ClientSet
  <2>2. Renewal(Renewed(clients[cur].name, s, "READY_TO_PLAY"))
    BY <1>7, <2>1, RenewedFacts
  <2> QED BY <1>7, <2>2, RenewedSeat
<1>8. CASE S!ResolvePassword
  BY <1>1, <1>7, <1>8, PasswordFacts DEF ServerStill, Took
<1>9. CASE S!ResolveNewPassword
  BY <1>1, <1>7, <1>9, NewPasswordFacts DEF Took
<1>10. CASE S!ResolveReady
  <2>1. S!Word(S!Request.flag) \in {"WAITING", "READY_PLAY"}
    BY DEF S!Word
  <2> QED BY <1>1, <1>7, <1>10, <2>1, ReadyFacts DEF Took
<1>11. CASE S!ResolveMovement
  BY <1>1, <1>11, MovementFacts DEF ServerStill, Took
<1> QED BY <1>2, <1>3, <1>4, <1>5, <1>6, <1>8, <1>9, <1>10, <1>11, SameWire DEF S!Reader

\* listenNewClients takes an empty slot, the first one if none was ever cleared.
LEMMA AcceptSeats ==
    ASSUME IInv, FreedInv, UNCHANGED clientVars,
           NEW c \in Conns, NEW k \in Slots, S!AcceptClient(c, k)
    PROVE  Table!Seat(c, k) /\ FreedInv'
<1>1. /\ c \in pending /\ ~Seat(k) /\ pending' = pending \ {c} /\ freed' = freed
      /\ Becomes(k, Newcomer(c)) /\ Newcomer(c) # Null /\ Newcomer(c).con = c
      /\ phase' = phase
  BY AcceptFacts, NotNull, ClientTypeKept DEF Idle, Newcomer
<1>2. \A j \in Slots : TableClients'[j] = IF j = k THEN c ELSE TableClients[j]
  BY <1>1, SameTable DEF Becomes, Seat, Conn
<1>3. TableClients' = [TableClients EXCEPT ![k] = c]
  BY <1>2 DEF TableClients
<1>4. TableClients[k] = Null
  BY <1>1, SameTable
<1>5. TableGone' = TableGone
  <2>1. ASSUME NEW d \in Conns
        PROVE  (d \notin pending' /\ phase'[d] # "outside" /\ \A j \in Slots : TableClients'[j] # d)
                   <=> (d \notin pending /\ phase[d] # "outside" /\ \A j \in Slots : TableClients[j] # d)
    BY <1>1, <1>2, <1>4, NullAssumption
  <2> QED BY <2>1 DEF TableGone
<1>6. TableGone = {} => \A j \in Slots : j < k => TableClients[j] # Null
  <2>1. ~freed => \A j \in Slots : j < k => Seat(j)
    BY SameWire DEF S!AcceptClient, Seat
  <2>2. \A j \in Slots : Seat(j) => Conn(j) # Null
    BY SeatFacts, NullAssumption
  <2> QED BY <2>1, <2>2, SameTable DEF FreedInv
<1> QED BY <1>1, <1>3, <1>4, <1>5, <1>6, SameTable DEF Table!Seat, FreedInv

\* disconnect clears the slot of one connection, which does not come back.
LEMMA DisconnectLeaves ==
    ASSUME IInv, UNCHANGED clientVars, S!Disconnect
    PROVE  Table!Leave(cur) /\ FreedInv'
<1> DEFINE c == Conn(cur)
<1>1. /\ cur \in Slots /\ Seat(cur) /\ c \in Conns /\ pending' = pending
      /\ Becomes(cur, Null) /\ phase' = phase
  BY DisconnectFacts, ClientTypeKept DEF Took
<1>2. \A j \in Slots : TableClients'[j] = IF j = cur THEN Null ELSE TableClients[j]
  BY <1>1, SameTable DEF Becomes, Seat, Conn
<1>3. TableClients' = [TableClients EXCEPT ![cur] = Null]
  BY <1>2 DEF TableClients
<1>4. TableClients[cur] = c /\ c # Null /\ c \notin pending /\ phase[c] # "outside"
  BY <1>1, SameTable, NullAssumption DEF IInv, SeatsInv
<1>5. \A j \in Slots : TableClients[j] = c => j = cur
  BY <1>1, <1>4, SameTable DEF IInv, SeatsInv
<1> HIDE DEF c
<1>6. TableGone' = TableGone \cup {c}
  <2>1. ASSUME NEW d \in Conns
        PROVE  (d \notin pending' /\ phase'[d] # "outside" /\ \A j \in Slots : TableClients'[j] # d)
                   <=> \/ d = c
                       \/ d \notin pending /\ phase[d] # "outside" /\ \A j \in Slots : TableClients[j] # d
    <3>1. CASE d = c
      BY <1>1, <1>2, <1>4, <1>5, <3>1
    <3>2. CASE d # c
      <4>1. d # Null
        BY NullAssumption
      <4>2. \A j \in Slots : TableClients'[j] = d <=> TableClients[j] = d
        BY <1>2, <1>4, <3>2, <4>1
      <4> QED BY <1>1, <3>2, <4>2
    <3> QED BY <3>1, <3>2
  <2> QED BY <1>1, <2>1 DEF TableGone
<1> QED BY <1>1, <1>3, <1>4, <1>6, SameTable DEF Table!Leave, FreedInv

\* A client that connects was outside.
LEMMA ConnectArrives ==
    ASSUME IInv, FreedInv, UNCHANGED serverVars, NEW c \in Conns, P!Connect(c)
    PROVE  Table!Arrive(c) /\ FreedInv'
<1>1. /\ phase[c] = "outside" /\ phase'[c] # "outside" /\ pending' = pending \cup {c}
      /\ \A d \in Conns \ {c} : phase'[d] = phase[d]
      /\ UNCHANGED <<clients, freed>>
  BY ConnectFacts DEF Goes, serverVars
<1>2. TableClients' = TableClients
  BY <1>1 DEF TableClients
<1>3. c \notin pending /\ \A k \in Slots : Seat(k) => Conn(k) # c
  BY <1>1 DEF IInv, SeatsInv
<1>4. c \notin Table!Seated
  BY <1>3, SameTable DEF Table!Seated
<1>5. c \notin TableGone
  BY <1>1 DEF TableGone
<1>6. TableGone' = TableGone
  BY <1>1, <1>2 DEF TableGone
<1> QED BY <1>1, <1>2, <1>3, <1>4, <1>5, <1>6 DEF Table!Arrive, FreedInv

\* Every other step of a client leaves it where it is: outside, or not.
LEMMA OthersStay ==
    ASSUME IInv, UNCHANGED serverVars, NEW c \in Conns, P!Program(c) \/ P!Player(c), ~P!Connect(c)
    PROVE  UNCHANGED Table!tableVars /\ (FreedInv => FreedInv')
<1>1. SameSeats /\ UNCHANGED freed
  BY DEF SameSeats, Seat, Conn, serverVars
<1>2. ASSUME NEW p, Goes(c, p), p # "outside", phase[c] # "outside"
      PROVE  \A d \in Conns : phase[d] = "outside" <=> phase'[d] = "outside"
  BY <1>2 DEF Goes
<1>3. pending' = pending /\ \A d \in Conns : phase[d] = "outside" <=> phase'[d] = "outside"
  <2>1. CASE P!SendName(c)
    BY <1>2, <2>1, SendNameFacts DEF Settled
  <2>2. CASE P!ReadNameAnswer(c)
    BY <1>2, <2>2, ReadNameAnswerFacts DEF Settled
  <2>3. ASSUME NEW p \in Passwords, P!SendPassword(c, p)
        PROVE  pending' = pending /\ \A d \in Conns : phase[d] = "outside" <=> phase'[d] = "outside"
    BY <1>2, <2>3, SendPasswordFacts
  <2>4. CASE P!ReadPasswordAnswer(c)
    BY <1>2, <2>4, ReadPasswordAnswerFacts DEF Settled
  <2>5. CASE P!ReadPlayer(c)
    BY <2>5, ReadPlayerFacts
  <2>6. CASE P!ReadPlayerLeft(c)
    BY <1>2, <2>6, ReadPlayerLeftFacts DEF P!ReadPlayerLeft
  <2>7. CASE P!ReadGameStart(c)
    BY <1>2, <2>7, ReadGameStartFacts DEF Settled
  <2>8. CASE P!PressKey(c)
    BY <2>8, PressKeyFacts
  <2>9. CASE P!ReadInGame(c)
    BY <1>2, <2>9, ReadInGameFacts DEF Settled
  <2>10. CASE P!Quit(c)
    BY <1>2, <2>10, QuitFacts DEF Settled
  <2> QED BY <2>1, <2>2, <2>3, <2>4, <2>5, <2>6, <2>7, <2>8, <2>9, <2>10 DEF P!Program, P!Player
<1> QED BY <1>1, <1>3, NothingMoves

LEMMA StepTable ==
    ASSUME IInv, FreedInv, [Next]_vars
    PROVE  [Table!Next]_(Table!tableVars) /\ FreedInv'
<1>1. CASE ServerStep
  <2>1. UNCHANGED clientVars /\ phase' = phase
    BY <1>1, ClientTypeKept DEF ServerStep
  <2>2. ASSUME NEW c \in Conns, NEW k \in Slots, S!AcceptClient(c, k)
        PROVE  [Table!Next]_(Table!tableVars) /\ FreedInv'
    BY <2>1, <2>2, AcceptSeats, SameTable DEF Table!Next
  <2>3. CASE S!Disconnect
    <3>1. cur \in Slots
      BY <2>3, DisconnectFacts DEF Took
    <3> QED BY <2>1, <2>3, <3>1, DisconnectLeaves, SameTable DEF Table!Next
  <2>4. CASE S!Reader /\ ~S!Disconnect
    BY <2>1, <2>4, HandlersKeepSeats, NothingMoves
  <2> QED BY <1>1, <2>2, <2>3, <2>4, SameWire DEF ServerStep, S!Next, S!Accepter
<1>2. CASE ClientStep
  <2>1. PICK c \in Conns : P!Program(c) \/ P!Player(c)
    BY <1>2 DEF ClientStep, P!Next
  <2>2. UNCHANGED serverVars
    BY <1>2 DEF ClientStep
  <2>3. CASE P!Connect(c)
    BY <2>2, <2>3, ConnectArrives DEF Table!Next
  <2>4. CASE ~P!Connect(c)
    BY <2>1, <2>2, <2>4, OthersStay
  <2> QED BY <2>3, <2>4
<1>3. CASE UNCHANGED vars
  <2>1. SameSeats /\ UNCHANGED <<pending, freed, phase>>
    BY <1>3 DEF vars, serverVars, clientVars, SameSeats, Seat, Conn
  <2> QED BY <2>1, NothingMoves
<1> QED BY <1>1, <1>2, <1>3 DEF Next

\* Whatever the clients send and whenever they leave, the server and its clients
\* keep the promise of SlotTable, which the accept thread is proved to keep by
\* itself: no handler moves a connection, takes its slot for another one or loses
\* one that waits, even where a goodbye is taken for that of another slot.
THEOREM LobbyKeepsTable == Spec => KeepsTable
<1>1. Init => Table!Init /\ FreedInv
  <2> SUFFICES ASSUME Init PROVE Table!Init /\ FreedInv
    OBVIOUS
  <2>1. /\ \A k \in Slots : clients[k] = Null
        /\ pending = {} /\ freed = FALSE /\ \A c \in Conns : phase[c] = "outside"
    BY SameWire DEF Init, S!Init, P!Init
  <2> QED BY <2>1, SameTable DEF Table!Init, TableClients, TableGone, FreedInv
<1>2. IInv /\ FreedInv /\ [Next]_vars => [Table!Next]_(Table!tableVars) /\ FreedInv'
  BY StepTable
<1> QED BY <1>1, <1>2, InitIInv, StepIInv, PTL DEF Spec, KeepsTable, Table!Spec
-----------------------------------------------------------------------------
\* Who a player of the lobby is, when no client sends while the server has a
\* message of it to read (MaxBurst = 1).

\* The server does not know the name of the client c yet.
Fresh(c) == c \in pending \/ \E k \in Slots : Seat(k) /\ Conn(k) = c /\ clients[k].expecting = "USER"

\* The name is on its way, or the player left before typing it.
NameAhead(c) == \/ phase[c] = "naming"
                \/ /\ phase[c] \in {"asked", "typing"}
                   /\ inbox[c] # <<>> /\ inbox[c][1] = StringMsg(UserOf[c])
                \/ phase[c] = "gone" /\ inbox[c] # <<>> /\ inbox[c][1] = Bye

\* What readData keeps for later is a goodbye, whoever it is from.
ByesBehind == /\ \A j \in 1 .. Len(readBuffer) : readBuffer[j] = Bye
              /\ \A c \in Conns : \A j \in 2 .. Len(inbox[c]) : inbox[c][j] = Bye

NameInv == \A c \in Conns : /\ phase[c] \in {"outside", "naming"} => inbox[c] = <<>>
                            /\ Fresh(c) => NameAhead(c)

\* A client the server knows goes by the name its player typed, and one that is
\* asked for the password of an account, or logged in, has that account.
Owner(cl) == /\ cl.expecting \in {"PASSWORD", "NEWPASSWORD", "READY_TO_PLAY"} => cl.name = UserOf[cl.con]
             /\ cl.expecting \in {"PASSWORD", "READY_TO_PLAY"} => accounts[cl.name] # NoAccount

AccountInv == \A k \in Slots : Seat(k) => Owner(clients[k])

OwnInv == IInv /\ ByesBehind /\ NameInv /\ AccountInv

\* Sequences.
LEMMA AppendFacts ==
    ASSUME NEW T, NEW s \in Seq(T), NEW m \in T
    PROVE  /\ Append(s, m) \in Seq(T) /\ Append(s, m) # <<>>
           /\ Len(s) \in Nat /\ Len(Append(s, m)) = Len(s) + 1
           /\ \A j \in 1 .. Len(s) : Append(s, m)[j] = s[j]
           /\ Append(s, m)[Len(s) + 1] = m
BY AppendProperties, LenProperties

LEMMA EmptyFacts ==
    ASSUME NEW T, NEW s \in Seq(T)
    PROVE  /\ Len(s) \in Nat /\ (s = <<>> <=> Len(s) = 0)
           /\ s # <<>> => Len(s) >= 1 /\ 1 \in 1 .. Len(s) /\ s[1] \in T
           /\ \A j \in 1 .. Len(s) : s[j] \in T
BY EmptySeq, LenProperties, ElementOfSeq

LEMMA TailFacts ==
    ASSUME NEW T, NEW s \in Seq(T), s # <<>>
    PROVE  /\ Tail(s) \in Seq(T) /\ Len(Tail(s)) \in Nat /\ Len(Tail(s)) = Len(s) - 1
           /\ \A j \in 1 .. Len(Tail(s)) : j + 1 \in 2 .. Len(s) /\ Tail(s)[j] = s[j + 1]
<1>1. Tail(s) \in Seq(T) /\ Len(Tail(s)) = Len(s) - 1 /\ \A j \in 1 .. Len(Tail(s)) : Tail(s)[j] = s[j + 1]
  BY HeadTailProperties
<1>2. Len(Tail(s)) \in Nat /\ Len(s) \in Nat
  BY <1>1, LenProperties
<1>3. QED
  BY <1>1, <1>2

\* With one message at a time, a sender finds its inbox empty.
LEMMA OneAtATime ==
    ASSUME MaxBurst = 1, IInv, NEW c \in Conns, Len(inbox[c]) < MaxBurst, NEW m \in ClientMessages, Sent(c, m)
    PROVE  inbox[c] = <<>> /\ inbox'[c] # <<>> /\ Len(inbox'[c]) = 1 /\ inbox'[c][1] = m
<1>1. inbox[c] \in Seq(ClientMessages)
  BY ServerTypes
<1>2. Len(inbox[c]) = 0 /\ inbox[c] = <<>>
  BY <1>1, EmptyFacts
<1>3. inbox'[c] = Append(inbox[c], m)
  BY DEF Sent
<1>4. QED
  BY <1>1, <1>2, <1>3, AppendFacts

\* What readBuffer is not, a request that is not a goodbye is: the first
\* message of the connection it is served for.
LEMMA TookByes ==
    ASSUME OwnInv, Took
    PROVE  /\ \A j \in 1 .. Len(readBuffer') : readBuffer'[j] = Bye
           /\ \A c \in Conns : c # Conn(cur) => inbox'[c] = inbox[c]
           /\ \A c \in Conns : \A j \in 2 .. Len(inbox'[c]) : inbox'[c][j] = Bye
           /\ \A c \in Conns : inbox[c] = <<>> => inbox'[c] = <<>>
           /\ S!Request # Bye => /\ readBuffer = <<>> /\ inbox[Conn(cur)] # <<>>
                                 /\ S!Request = inbox[Conn(cur)][1]
                                 /\ inbox'[Conn(cur)] = <<>>
<1> USE DEF OwnInv
<1>1. readBuffer \in Seq(ClientMessages) /\ inbox \in [Conns -> Seq(ClientMessages)]
  BY ServerTypes
<1>2. Conn(cur) \in Conns
  BY DEF Took
<1>3. CASE readBuffer # <<>> /\ S!Request = readBuffer[1] /\ readBuffer' = Tail(readBuffer) /\ inbox' = inbox
  <2>1. S!Request = Bye
    BY <1>1, <1>3, EmptyFacts DEF ByesBehind
  <2>2. \A j \in 1 .. Len(readBuffer') : readBuffer'[j] = Bye
    <3>1. \A j \in 1 .. Len(Tail(readBuffer)) : Tail(readBuffer)[j] = readBuffer[j + 1]
             /\ j + 1 \in 2 .. Len(readBuffer)
      BY <1>1, <1>3, TailFacts
    <3>2. Len(readBuffer) \in Nat
      BY <1>1, EmptyFacts
    <3>3. QED
      BY <1>3, <3>1, <3>2 DEF ByesBehind
  <2>3. QED
    BY <1>3, <2>1, <2>2 DEF ByesBehind
<1>4. CASE /\ readBuffer = <<>> /\ inbox[Conn(cur)] # <<>> /\ S!Request = inbox[Conn(cur)][1]
           /\ readBuffer' = Tail(inbox[Conn(cur)])
           /\ inbox' = [inbox EXCEPT ![Conn(cur)] = <<>>]
  <2> DEFINE s == inbox[Conn(cur)]
  <2>1. s \in Seq(ClientMessages) /\ s # <<>> /\ \A j \in 2 .. Len(s) : s[j] = Bye
    BY <1>1, <1>2, <1>4 DEF ByesBehind
  <2>2. readBuffer' = Tail(s)
    BY <1>4
  <2>3. \A c \in Conns : inbox'[c] = IF c = Conn(cur) THEN <<>> ELSE inbox[c]
    BY <1>1, <1>4
  <2> HIDE DEF s
  <2>4. \A j \in 1 .. Len(readBuffer') : readBuffer'[j] = Bye
    BY <2>1, <2>2, TailFacts
  <2>5. \A c \in Conns : \A j \in 2 .. Len(inbox'[c]) : inbox'[c][j] = Bye
    <3>1. Len(<<>>) = 0
      OBVIOUS
    <3>2. QED
      BY <2>3, <3>1 DEF ByesBehind
  <2>6. QED
    BY <1>2, <1>4, <2>3, <2>4, <2>5
<1>5. QED
  BY <1>3, <1>4 DEF Took

LEMMA InitOwnInv == Init => OwnInv
<1> SUFFICES ASSUME Init
             PROVE  OwnInv
  OBVIOUS
<1>1. IInv
  BY InitIInv
<1>2. /\ readBuffer = <<>> /\ \A c \in Conns : inbox[c] = <<>> /\ phase[c] = "outside"
      /\ pending = {} /\ \A k \in Slots : ~Seat(k)
  BY SameWire DEF Init, S!Init, P!Init, Seat
<1>3. ByesBehind
  <2>1. Len(<<>>) = 0
    OBVIOUS
  <2>2. QED
    BY <1>2, <2>1 DEF ByesBehind
<1>4. QED
  BY <1>1, <1>2, <1>3 DEF OwnInv, NameInv, AccountInv, Fresh

\* A step of the server that keeps who is waiting and what is on its way.
LEMMA StillOwnInv ==
    ASSUME OwnInv, IInv', UNCHANGED <<clients, accounts, readBuffer, pending, phase, inbox>>
    PROVE  OwnInv'
BY DEF OwnInv, ByesBehind, NameInv, AccountInv, Fresh, NameAhead, Owner, Seat, Conn

LEMMA HandlerOwnInv ==
    ASSUME OwnInv, IInv', Took, UNCHANGED phase, NEW cl, Becomes(cur, cl),
           cl # Null => /\ cl.con = Conn(cur) /\ cl.expecting # "USER"
                        /\ cl.expecting \in {"PASSWORD", "NEWPASSWORD", "READY_TO_PLAY"}
                                => cl.name = UserOf[cl.con]
                        /\ cl.expecting \in {"PASSWORD", "READY_TO_PLAY"}
                                => accounts'[cl.name] # NoAccount,
           \A t \in Texts : accounts[t] # NoAccount => accounts'[t] # NoAccount
    PROVE  OwnInv'
<1>1. clients'[cur] = cl /\ \A j \in Slots \ {cur} : clients'[j] = clients[j]
  BY DEF Becomes, Took
<1>2. ByesBehind'
  BY TookByes DEF ByesBehind
<1>3. ASSUME NEW c \in Conns, Fresh(c)'
      PROVE  Fresh(c) /\ c # Conn(cur)
  <2>1. CASE c \in pending
    BY <2>1, SameWire DEF Fresh, OwnInv, IInv, SeatsInv, Took
  <2>2. ASSUME NEW k \in Slots, clients'[k] # Null, clients'[k].con = c, clients'[k].expecting = "USER"
        PROVE  Fresh(c) /\ c # Conn(cur)
    <3>1. k # cur
      BY <1>1, <2>2
    <3>2. Seat(k) /\ Conn(k) = c /\ clients[k].expecting = "USER"
      BY <1>1, <2>2, <3>1 DEF Seat, Conn
    <3>3. QED
      BY <3>1, <3>2 DEF Fresh, OwnInv, IInv, SeatsInv, Took
  <2>3. pending' = pending
    BY DEF Took
  <2>4. QED
    BY <1>3, <2>1, <2>2, <2>3 DEF Fresh, Seat, Conn
<1>4. NameInv'
  <2>1. ASSUME NEW c \in Conns
        PROVE  (phase'[c] \in {"outside", "naming"} => inbox'[c] = <<>>) /\ (Fresh(c)' => NameAhead(c)')
    <3>1. phase'[c] \in {"outside", "naming"} => inbox'[c] = <<>>
      BY TookByes DEF OwnInv, NameInv
    <3>2. ASSUME Fresh(c)'
          PROVE  NameAhead(c)'
      BY <1>3, <3>2, TookByes DEF OwnInv, NameInv, NameAhead
    <3>3. QED
      BY <3>1, <3>2
  <2>2. QED
    BY <2>1 DEF NameInv
<1>5. AccountInv'
  <2>1. ASSUME NEW k \in Slots, clients'[k] # Null
        PROVE  /\ clients'[k].expecting \in {"PASSWORD", "NEWPASSWORD", "READY_TO_PLAY"}
                    => clients'[k].name = UserOf[clients'[k].con]
               /\ clients'[k].expecting \in {"PASSWORD", "READY_TO_PLAY"}
                    => accounts'[clients'[k].name] # NoAccount
    <3>1. CASE k = cur
      BY <1>1, <2>1, <3>1
    <3>2. CASE k # cur
      <4>1. Seat(k) /\ clients'[k] = clients[k] /\ Owner(clients[k])
        BY <1>1, <2>1, <3>2 DEF Seat, OwnInv, AccountInv
      <4>2. Conn(k) \in Conns
        BY <4>1, SeatFacts DEF OwnInv
      <4>3. UserOf[Conn(k)] \in Texts
        BY <4>2, UserOfAssumption DEF Texts
      <4>4. QED
        BY <4>1, <4>3 DEF Owner, Conn
    <3>3. QED
      BY <3>1, <3>2
  <2>2. QED
    BY <2>1 DEF AccountInv, Seat, Owner
<1>6. QED
  BY <1>2, <1>4, <1>5 DEF OwnInv

LEMMA ServerOwnInv ==
    ASSUME OwnInv, IInv', S!Next, UNCHANGED clientVars
    PROVE  OwnInv'
<1> USE DEF OwnInv
<1>1. UNCHANGED phase
  BY DEF clientVars
<1>2. ASSUME NEW c \in Conns, NEW k \in Slots, S!AcceptClient(c, k)
      PROVE  OwnInv'
  <2>1. /\ c \in pending /\ ~Seat(k) /\ pending' = pending \ {c} /\ Becomes(k, Newcomer(c)) /\ Idle
    BY <1>2, AcceptFacts
  <2>2. clients'[k] = Newcomer(c) /\ \A j \in Slots \ {k} : clients'[j] = clients[j]
    BY <2>1 DEF Becomes
  <2>3. \A d \in Conns : Fresh(d)' => Fresh(d)
    <3>1. ASSUME NEW d \in Conns, NEW j \in Slots, clients'[j] # Null, clients'[j].con = d,
                 clients'[j].expecting = "USER"
          PROVE  Fresh(d)
      <4>1. CASE j = k
        BY <2>1, <2>2, <3>1, <4>1 DEF Newcomer, Fresh
      <4>2. CASE j # k
        BY <2>2, <3>1, <4>2 DEF Fresh, Seat, Conn
      <4>3. QED
        BY <4>1, <4>2
    <3>2. QED
      BY <2>1, <3>1 DEF Fresh, Seat, Conn
  <2>4. ByesBehind' /\ NameInv'
    BY <1>1, <2>1, <2>3 DEF ByesBehind, NameInv, NameAhead, Idle
  <2>5. AccountInv'
    <3>1. Newcomer(c).expecting = "USER"
      BY DEF Newcomer
    <3>2. ASSUME NEW j \in Slots, clients'[j] # Null
          PROVE  Owner(clients[j])' \/ clients'[j].expecting = "USER"
      BY <2>1, <2>2, <3>1, <3>2 DEF AccountInv, Seat, Owner, Idle
    <3>3. QED
      BY <2>1, <2>2, <3>1 DEF AccountInv, Seat, Owner, Idle
  <2>6. QED
    BY <2>4, <2>5
<1>3. ASSUME NEW k \in Slots, S!ListenToClients(k)
      PROVE  OwnInv'
  BY <1>1, <1>3, ListenFacts, StillOwnInv DEF Idle
<1>4. CASE S!NotifyExistingPlayers
  BY <1>1, <1>4, NotifyFacts, StillOwnInv DEF Idle
<1>5. CASE S!NotifyDone
  BY <1>1, <1>5, NotifyDoneFacts, StillOwnInv DEF Idle
<1>6. CASE S!ResolveUser
  <2>1. /\ Took /\ S!Request # Bye /\ clients[cur].expecting = "USER" /\ accounts' = accounts
    BY <1>6, UserFacts DEF ServerStill
  <2>2. /\ Conn(cur) \in Conns /\ Fresh(Conn(cur))
    BY <2>1 DEF Took, Fresh
  <2>3. S!Request = StringMsg(UserOf[Conn(cur)])
    <3>1. inbox[Conn(cur)] # <<>> /\ S!Request = inbox[Conn(cur)][1]
      BY <2>1, TookByes
    <3>2. QED
      BY <2>1, <2>2, <3>1 DEF NameInv, NameAhead
  <2>4. S!Request.type = "STRING" /\ S!Request.text = UserOf[Conn(cur)]
    BY <2>3 DEF StringMsg
  <2> DEFINE e == IF accounts[S!Request.text] # NoAccount THEN "PASSWORD" ELSE "NEWPASSWORD"
             cl == Renewed(S!Request.text, clients[cur].state, e)
  <2>5. Becomes(cur, cl)
    BY <1>6, <2>4, UserFacts
  <2>6. /\ cl.con = Conn(cur) /\ cl.name = UserOf[Conn(cur)]
        /\ cl.expecting \in {"PASSWORD", "NEWPASSWORD"}
        /\ cl.expecting = "PASSWORD" => accounts[cl.name] # NoAccount
    BY <2>4 DEF Renewed, Conn
  <2> HIDE DEF cl
  <2>7. QED
    BY <1>1, <2>1, <2>5, <2>6, HandlerOwnInv
<1>7. ASSUME Took, UNCHANGED clients, clients[cur].expecting # "USER",
             \A t \in Texts : accounts[t] # NoAccount => accounts'[t] # NoAccount
      PROVE  OwnInv'
  <2>1. /\ Seat(cur) /\ Owner(clients[cur]) /\ clients[cur] \in ClientSet /\ Becomes(cur, clients[cur])
        /\ UserOf[clients[cur].con] \in Texts
    BY <1>7, SeatFacts, ServerTypes, UserOfAssumption DEF Took, AccountInv, Becomes, Texts, Conn
  <2>2. QED
    BY <1>1, <1>7, <2>1, HandlerOwnInv DEF Owner, Conn
<1>8. CASE S!ResolvePassword
  <2>1. /\ Took /\ clients[cur].expecting = "PASSWORD" /\ accounts' = accounts
        /\ \/ UNCHANGED clients
           \/ Becomes(cur, Renewed(clients[cur].name, "WAITING", "READY_TO_PLAY"))
    BY <1>8, PasswordFacts DEF ServerStill
  <2>2. CASE UNCHANGED clients
    BY <1>7, <2>1, <2>2
  <2> DEFINE cl == Renewed(clients[cur].name, "WAITING", "READY_TO_PLAY")
  <2>3. CASE Becomes(cur, cl)
    <3>1. /\ cl.con = Conn(cur) /\ cl.name = UserOf[Conn(cur)] /\ cl.expecting = "READY_TO_PLAY"
          /\ accounts[cl.name] # NoAccount
      BY <2>1 DEF Renewed, Conn, AccountInv, Owner, Took
    <3> HIDE DEF cl
    <3>2. QED
      BY <1>1, <2>1, <2>3, <3>1, HandlerOwnInv
  <2>4. QED
    BY <2>1, <2>2, <2>3
<1>9. CASE S!ResolveNewPassword
  <2> DEFINE cl == Renewed(clients[cur].name, "WAITING", "READY_TO_PLAY")
  <2>1. /\ Took /\ clients[cur].expecting = "NEWPASSWORD"
        /\ \/ UNCHANGED <<accounts, clients>>
           \/ /\ S!Request.text \in Texts
              /\ accounts' = [accounts EXCEPT ![clients[cur].name] = S!Request.text]
              /\ Becomes(cur, cl)
    BY <1>9, NewPasswordFacts
  <2>2. CASE UNCHANGED <<accounts, clients>>
    BY <1>7, <2>1, <2>2
  <2>3. CASE /\ S!Request.text \in Texts
             /\ accounts' = [accounts EXCEPT ![clients[cur].name] = S!Request.text]
             /\ Becomes(cur, cl)
    <3>1. /\ cl.con = Conn(cur) /\ cl.name = UserOf[Conn(cur)] /\ cl.expecting = "READY_TO_PLAY"
          /\ cl.name = clients[cur].name
      BY <2>1 DEF Renewed, Conn, AccountInv, Owner, Took
    <3>2. accounts \in [Texts -> Texts \cup {NoAccount}] /\ S!Request.text # NoAccount
      BY <2>3, ServerTypes, NoAccountAssumption
    <3>3. UserOf[Conn(cur)] \in Texts
      BY <2>1, UserOfAssumption DEF Took, Texts
    <3>4. /\ \A t \in Texts : accounts[t] # NoAccount => accounts'[t] # NoAccount
          /\ accounts'[cl.name] # NoAccount
      BY <2>3, <3>1, <3>2, <3>3
    <3> HIDE DEF cl
    <3>5. QED
      BY <1>1, <2>1, <2>3, <3>1, <3>4, HandlerOwnInv
  <2>4. QED
    BY <2>1, <2>2, <2>3
<1>10. CASE S!ResolveReady
  <2> DEFINE cl == Renewed(clients[cur].name, S!Word(S!Request.flag), "READY_TO_PLAY")
  <2>1. /\ Took /\ clients[cur].expecting = "READY_TO_PLAY" /\ accounts' = accounts
        /\ UNCHANGED clients \/ Becomes(cur, cl)
    BY <1>10, ReadyFacts
  <2>2. CASE UNCHANGED clients
    BY <1>7, <2>1, <2>2
  <2>3. CASE Becomes(cur, cl)
    <3>1. /\ cl.con = Conn(cur) /\ cl.name = UserOf[Conn(cur)] /\ cl.expecting = "READY_TO_PLAY"
          /\ accounts[cl.name] # NoAccount
      BY <2>1 DEF Renewed, Conn, AccountInv, Owner, Took
    <3> HIDE DEF cl
    <3>2. QED
      BY <1>1, <2>1, <2>3, <3>1, HandlerOwnInv
  <2>4. QED
    BY <2>1, <2>2, <2>3
<1>11. CASE S!SendGameStart
  <2>1. /\ Idle /\ UNCHANGED pending
        /\ \A k \in Slots : clients'[k] = IF Seat(k) THEN Playing(k) ELSE Null
    BY <1>11, GameStartFacts
  <2>2. \A k \in Slots : clients'[k] # Null => clients'[k].expecting = "MOVEMENT"
    <3>1. \A k \in Slots : Playing(k).expecting = "MOVEMENT"
      BY DEF Playing
    <3>2. QED
      BY <2>1, <3>1
  <2>3. \A d \in Conns : Fresh(d)' => Fresh(d)
    BY <2>1, <2>2 DEF Fresh, Seat
  <2>4. QED
    BY <1>1, <2>1, <2>2, <2>3 DEF ByesBehind, NameInv, NameAhead, AccountInv, Owner, Seat, Idle
<1>12. CASE S!ResolveMovement
  BY <1>7, <1>12, MovementFacts DEF ServerStill
<1>13. CASE S!Disconnect
  <2> DEFINE cl == Null
  <2>1. Took /\ accounts' = accounts /\ Becomes(cur, cl) /\ cl = Null
    BY <1>13, DisconnectFacts
  <2> HIDE DEF cl
  <2>2. QED
    BY <1>1, <2>1, HandlerOwnInv
<1>14. QED
  BY <1>2, <1>3, <1>4, <1>5, <1>6, <1>8, <1>9, <1>10, <1>11, <1>12, <1>13, SameWire
  DEF S!Next, S!Reader, S!Accepter

\* A step of the client c.
LEMMA OneClientOwnInv ==
    ASSUME OwnInv, IInv', UNCHANGED <<clients, accounts, readBuffer>>, NEW c \in Conns,
           \A d \in Conns \ {c} : phase'[d] = phase[d] /\ inbox'[d] = inbox[d],
           phase'[c] \in {"outside", "naming"} => inbox'[c] = <<>>,
           \A j \in 2 .. Len(inbox'[c]) : inbox'[c][j] = Bye,
           \/ pending' = pending /\ ~Fresh(c)
           \/ pending' = pending /\ NameAhead(c)'
           \/ pending' = pending \cup {c} /\ NameAhead(c)'
    PROVE  OwnInv'
<1>1. ByesBehind'
  BY DEF OwnInv, ByesBehind
<1>2. AccountInv'
  BY DEF OwnInv, AccountInv, Owner, Seat
<1>3. NameInv'
  <2>1. ASSUME NEW d \in Conns
        PROVE  /\ phase'[d] \in {"outside", "naming"} => inbox'[d] = <<>>
               /\ Fresh(d)' => NameAhead(d)'
    <3>1. CASE d = c
      BY <3>1 DEF Fresh, Seat, Conn
    <3>2. CASE d # c
      <4>1. phase'[d] = phase[d] /\ inbox'[d] = inbox[d]
        BY <3>2
      <4>2. Fresh(d)' => Fresh(d)
        BY <3>2 DEF Fresh, Seat, Conn
      <4>3. QED
        BY <4>1, <4>2 DEF OwnInv, NameInv, NameAhead
    <3>3. QED
      BY <3>1, <3>2
  <2>2. QED
    BY <2>1 DEF NameInv
<1>4. QED
  BY <1>1, <1>2, <1>3 DEF OwnInv

LEMMA ClientOwnInv ==
    ASSUME MaxBurst = 1, OwnInv, IInv', NEW c \in Conns, P!Program(c) \/ P!Player(c), UNCHANGED serverVars
    PROVE  OwnInv'
<1> USE DEF OwnInv
<1>1. /\ UNCHANGED <<clients, accounts, readBuffer>> /\ inbox \in [Conns -> Seq(ClientMessages)]
      /\ \A j \in 2 .. Len(inbox[c]) : inbox[c][j] = Bye
      /\ phase[c] \in {"outside", "naming"} => inbox[c] = <<>>
      /\ Fresh(c) => NameAhead(c)
  BY ServerTypes DEF serverVars, ByesBehind, NameInv
<1>2. Fresh(c) => phase[c] \in {"naming", "asked", "typing", "gone"}
  BY <1>1 DEF NameAhead
\* What goes to an empty inbox is its only message.
<1>3. ASSUME NEW m \in ClientMessages, Sent(c, m), inbox[c] = <<>>
      PROVE  /\ inbox'[c] # <<>> /\ inbox'[c][1] = m /\ \A j \in 2 .. Len(inbox'[c]) : inbox'[c][j] = Bye
             /\ \A d \in Conns \ {c} : inbox'[d] = inbox[d]
  <2>1. inbox'[c] = Append(<<>>, m) /\ <<>> \in Seq(ClientMessages)
    BY <1>3 DEF Sent
  <2>2. Len(<<>>) = 0
    OBVIOUS
  <2>3. inbox'[c] # <<>> /\ Len(inbox'[c]) = 1 /\ inbox'[c][1] = m
    BY <2>1, <2>2, AppendFacts
  <2>4. QED
    BY <1>3, <2>3 DEF Sent
<1>4. CASE P!Connect(c)
  BY <1>1, <1>4, ConnectFacts, OneClientOwnInv DEF Goes, NameAhead
<1>5. CASE P!SendName(c)
  <2>1. /\ phase[c] = "naming" /\ Goes(c, "asked") /\ StringMsg(UserOf[c]) \in ClientMessages
        /\ Sent(c, StringMsg(UserOf[c])) /\ UNCHANGED pending
    BY <1>5, SendNameFacts, MessageTypes DEF Settled
  <2>2. QED
    BY <1>1, <1>3, <2>1, OneClientOwnInv DEF Goes, NameAhead
<1>6. CASE P!ReadNameAnswer(c)
  BY <1>1, <1>6, ReadNameAnswerFacts, OneClientOwnInv DEF Goes, NameAhead, Settled
<1>7. ASSUME NEW p \in Passwords, P!SendPassword(c, p)
      PROVE  OwnInv'
  <2>1. /\ phase[c] = "typing" /\ Len(inbox[c]) < MaxBurst /\ Goes(c, "checked")
        /\ StringMsg(p) \in ClientMessages /\ Sent(c, StringMsg(p)) /\ UNCHANGED pending
    BY <1>7, SendPasswordFacts, MessageTypes
  <2>2. inbox[c] = <<>>
    BY <2>1, OneAtATime
  <2>3. ~Fresh(c)
    BY <1>1, <2>1, <2>2 DEF NameAhead
  <2>4. QED
    BY <1>1, <1>3, <2>1, <2>2, <2>3, OneClientOwnInv DEF Goes
<1>8. CASE P!ReadPasswordAnswer(c)
  <2>1. phase[c] = "checked" /\ UNCHANGED <<pending, inbox>>
    BY <1>8, ReadPasswordAnswerFacts DEF Settled
  <2>2. PICK p \in {"lobby", "typing"} : Goes(c, p)
    BY <1>8, ReadPasswordAnswerFacts
  <2>3. ~Fresh(c) /\ \A d \in Conns \ {c} : phase'[d] = phase[d] /\ inbox'[d] = inbox[d]
    BY <1>2, <2>1, <2>2 DEF Goes
  <2>4. QED
    BY <1>1, <2>1, <2>2, <2>3, OneClientOwnInv DEF Goes
<1>9. CASE P!ReadPlayer(c)
  BY <1>9, ReadPlayerFacts, <1>1, StillOwnInv
<1>10. CASE P!ReadPlayerLeft(c)
  BY <1>1, <1>2, <1>10, ReadPlayerLeftFacts, OneClientOwnInv, StillOwnInv, ZenonT(60) DEF Goes
<1>11. CASE P!ReadGameStart(c)
  BY <1>1, <1>2, <1>11, ReadGameStartFacts, OneClientOwnInv DEF Goes, Settled
<1>12. CASE P!PressKey(c)
  <2>1. phase[c] = "lobby" /\ Len(inbox[c]) < MaxBurst /\ UNCHANGED <<phase, pending>>
    BY <1>12, PressKeyFacts
  <2>2. PICK b \in BOOLEAN : Sent(c, BooleanMsg(b))
    BY <1>12, PressKeyFacts
  <2>3. inbox[c] = <<>> /\ BooleanMsg(b) \in ClientMessages
    BY <2>1, <2>2, OneAtATime, MessageTypes
  <2>4. ~Fresh(c)
    BY <1>2, <2>1
  <2>5. QED
    BY <1>1, <1>3, <2>1, <2>2, <2>3, <2>4, OneClientOwnInv
<1>13. CASE P!ReadInGame(c)
  <2>1. phase[c] = "playing" /\ UNCHANGED pending /\ ~Fresh(c)
    BY <1>2, <1>13, ReadInGameFacts DEF Settled
  <2>2. CASE UNCHANGED <<phase, inbox>>
    BY <1>1, <2>1, <2>2, StillOwnInv
  <2>3. CASE Goes(c, "gone") /\ Sent(c, Bye)
    <3>1. \A j \in 2 .. Len(inbox'[c]) : inbox'[c][j] = Bye
      <4>1. inbox'[c] = Append(inbox[c], Bye) /\ Bye \in ClientMessages /\ inbox[c] \in Seq(ClientMessages)
        BY <1>1, <2>3, MessageTypes DEF Sent
      <4>2. /\ Len(inbox[c]) \in Nat /\ Len(inbox'[c]) = Len(inbox[c]) + 1
            /\ \A j \in 1 .. Len(inbox[c]) : inbox'[c][j] = inbox[c][j]
            /\ inbox'[c][Len(inbox[c]) + 1] = Bye
        BY <4>1, AppendFacts
      <4>3. QED
        BY <1>1, <4>2
    <3>2. QED
      BY <1>1, <2>1, <2>3, <3>1, OneClientOwnInv DEF Goes, Sent
  <2>4. QED
    BY <1>13, <2>2, <2>3, ReadInGameFacts
<1>14. CASE P!Quit(c)
  <2>1. Len(inbox[c]) < MaxBurst /\ Goes(c, "gone") /\ Sent(c, Bye) /\ UNCHANGED pending
    BY <1>14, QuitFacts DEF Settled
  <2>2. inbox[c] = <<>> /\ Bye \in ClientMessages
    BY <2>1, OneAtATime, MessageTypes
  <2>3. QED
    BY <1>1, <1>3, <2>1, <2>2, OneClientOwnInv DEF Goes, NameAhead
<1>15. QED
  BY <1>4, <1>5, <1>6, <1>7, <1>8, <1>9, <1>10, <1>11, <1>12, <1>13, <1>14 DEF P!Program, P!Player

LEMMA StepOwnInv ==
    ASSUME MaxBurst = 1, OwnInv, [Next]_vars
    PROVE  OwnInv'
<1>1. IInv'
  BY StepIInv DEF OwnInv
<1>2. CASE ServerStep
  BY <1>1, <1>2, ServerOwnInv DEF ServerStep
<1>3. CASE ClientStep
  BY <1>1, <1>3, ClientOwnInv DEF ClientStep, P!Next
<1>4. CASE UNCHANGED vars
  BY <1>1, <1>4, StillOwnInv DEF vars, serverVars, clientVars
<1>5. QED
  BY <1>2, <1>3, <1>4 DEF Next

\* No interleaving of logins, registrations and departures logs a client in as
\* somebody else (validateUser, validatePassword, createUserDB), as long as no
\* client sends a message while another of its messages is unread.
THEOREM OwnersOnly ==
    ASSUME MaxBurst = 1
    PROVE  Spec => []LoggedInIsOwner
<1>1. OwnInv => LoggedInIsOwner
  <2> SUFFICES ASSUME OwnInv, NEW k \in LoggedIn
               PROVE  accounts[clients[k].name] # NoAccount /\ clients[k].name = UserOf[clients[k].con]
    BY DEF LoggedInIsOwner
  <2>1. k \in Slots /\ Seat(k) /\ clients[k].expecting = "READY_TO_PLAY"
    BY DEF LoggedIn, Seat, OwnInv, IInv, StateInv
  <2>2. QED
    BY <2>1 DEF OwnInv, AccountInv, Owner
<1>2. OwnInv /\ [Next]_vars => OwnInv'
  BY StepOwnInv
<1>3. QED
  BY <1>1, <1>2, InitOwnInv, PTL DEF Spec
-----------------------------------------------------------------------------
\* The dialogue of each client with the server, until a slot is cleared for the
\* first time.

Yes == BooleanMsg(TRUE)
No == BooleanMsg(FALSE)

OnlyPlayers(s) == \A j \in 1 .. Len(s) : s[j].type = "PLAYER"
AnswerThenPlayers(s) == /\ s # <<>> /\ s[1] = Yes
                        /\ \A j \in 2 .. Len(s) : s[j].type = "PLAYER"
NoTrue(s) == \A j \in 1 .. Len(s) : s[j] # Yes
OneStart(s) == \E p \in 1 .. Len(s) : /\ s[p].type = "BOOLEAN"
                                      /\ \A j \in 1 .. Len(s) \ {p} : s[j].type = "PLAYER"
Holds(s, type) == s = <<>> \/ (Len(s) = 1 /\ s[1].type = type)

\* ph is the phase of the client, in what it sent and out what it has not read.

\* It has not been asked for a password.
Naming(user, ph, in, out) ==
    /\ out = <<>>
    /\ \/ ph = "naming" /\ in = <<>>
       \/ ph = "asked" /\ Len(in) = 1 /\ in[1] = StringMsg(user)

\* It is asked for the password, or for a new one.
Asking(ph, in, out) ==
    \/ ph = "asked" /\ in = <<>> /\ Len(out) = 1
    \/ ph = "typing" /\ in = <<>> /\ out = <<>>
    \/ ph = "checked" /\ in # <<>> /\ Holds(in, "STRING") /\ out = <<>>

\* It chose a password for an account that another client has made meanwhile,
\* and is asked again, for ever.
Stuck(known, ph, in, out) == /\ known /\ ph \in {"typing", "checked"}
                             /\ Holds(in, "STRING") /\ NoTrue(out)

\* It is in the lobby, or has yet to read that it is.
Entered(state, ph, in, out) ==
    \/ ph = "checked" /\ in = <<>> /\ AnswerThenPlayers(out) /\ state = "WAITING"
    \/ ph = "lobby" /\ Holds(in, "BOOLEAN") /\ OnlyPlayers(out)

\* It plays or has yet to read that it does, or it was drawn into the game
\* while it logged in, took the start for an answer, and waits for ever.
Drawn(ph, in, out) ==
    \/ ph = "lobby" /\ Holds(in, "BOOLEAN") /\ OneStart(out)
    \/ ph = "playing" /\ Holds(in, "BOOLEAN") /\ OnlyPlayers(out)
    \/ ph = "naming" /\ in = <<>> /\ AnswerThenPlayers(out)
    \/ ph = "asked" /\ Holds(in, "STRING") /\ AnswerThenPlayers(out)
    \/ ph \in {"typing", "checked"} /\ Holds(in, "STRING") /\ OnlyPlayers(out)

Talk(cl, known, ph, in, out) ==
    /\ cl.expecting = "USER" => Naming(UserOf[cl.con], ph, in, out)
    /\ cl.expecting = "PASSWORD" =>
          \/ Asking(ph, in, out)
          \/ ph = "checked" /\ in = <<>> /\ Len(out) = 1 /\ out[1] = No
    /\ cl.expecting = "NEWPASSWORD" => Asking(ph, in, out) \/ Stuck(known, ph, in, out)
    /\ cl.expecting = "READY_TO_PLAY" => Entered(cl.state, ph, in, out)
    /\ cl.expecting = "MOVEMENT" => Drawn(ph, in, out)

\* The player has left, and the server has read all but the goodbye.
Left(ph, in) == ph = "gone" /\ (in = <<>> \/ (Len(in) = 1 /\ in[1] = Bye))

NamingOrLeft(user, ph, in, out) == Left(ph, in) \/ Naming(user, ph, in, out)
TalkOrLeft(cl, known, ph, in, out) == Left(ph, in) \/ Talk(cl, known, ph, in, out)

Known(k) == accounts[clients[k].name] # NoAccount

TalkInv == /\ readBuffer = <<>>
           /\ \A k \in Slots : Seat(k) =>
                 TalkOrLeft(clients[k], Known(k), phase[Conn(k)], inbox[Conn(k)], outbox[Conn(k)])
           /\ \A c \in pending : NamingOrLeft(UserOf[c], phase[c], inbox[c], outbox[c])
           /\ \A c \in Conns : \/ c \in pending \/ \E k \in Slots : Seat(k) /\ Conn(k) = c
                               \/ phase[c] = "outside" /\ inbox[c] = <<>> /\ outbox[c] = <<>>
           /\ at = "announce" =>
                 \/ Left(phase[Conn(cur)], inbox[Conn(cur)])
                 \/ clients[cur].expecting = "READY_TO_PLAY"
                 \/ /\ clients[cur].expecting = "NEWPASSWORD"
                    /\ Stuck(Known(cur), phase[Conn(cur)], inbox[Conn(cur)], outbox[Conn(cur)])
           /\ at = "start" => startGame
           /\ \A k \in Slots : Seat(k) /\ clients[k].expecting = "MOVEMENT" => startGame

LEMMA YesNo ==
    /\ Yes \in ServerMessages /\ No \in ServerMessages /\ Yes # No
    /\ Yes.type = "BOOLEAN" /\ No.type = "BOOLEAN"
<1>1. Yes \in ServerMessages /\ No \in ServerMessages
  BY MessageTypes DEF Yes, No
<1>2. Yes.type = "BOOLEAN" /\ No.type = "BOOLEAN" /\ Yes.flag = TRUE /\ No.flag = FALSE
  BY DEF Yes, No, BooleanMsg
<1>3. Yes # No
  BY <1>2
<1>4. QED
  BY <1>1, <1>2, <1>3

\* What the queue to a client is, after another PLAYER, after the start and
\* after its first message is read.
LEMMA PlayersAppended ==
    ASSUME NEW s \in Seq(ServerMessages), NEW m \in ServerMessages, m.type = "PLAYER"
    PROVE  /\ OnlyPlayers(s) => OnlyPlayers(Append(s, m))
           /\ AnswerThenPlayers(s) => AnswerThenPlayers(Append(s, m))
           /\ NoTrue(s) => NoTrue(Append(s, m))
           /\ OneStart(s) => OneStart(Append(s, m))
<1>1. /\ Len(s) \in Nat /\ Len(Append(s, m)) = Len(s) + 1 /\ Append(s, m) # <<>>
      /\ \A j \in 1 .. Len(s) : Append(s, m)[j] = s[j]
      /\ Append(s, m)[Len(s) + 1] = m
  BY AppendFacts
<1>2. \A j \in 1 .. Len(Append(s, m)) : j \in 1 .. Len(s) \/ j = Len(s) + 1
  BY <1>1
<1>3. m # Yes
  BY YesNo
<1>4. s # <<>> => Append(s, m)[1] = s[1] /\ 1 \in 1 .. Len(s)
  BY <1>1, EmptyFacts
<1>5. OnlyPlayers(s) => OnlyPlayers(Append(s, m))
  BY <1>1, <1>2 DEF OnlyPlayers
<1>6. NoTrue(s) => NoTrue(Append(s, m))
  BY <1>1, <1>2, <1>3 DEF NoTrue
<1>7. ASSUME AnswerThenPlayers(s)
      PROVE  AnswerThenPlayers(Append(s, m))
  <2>1. ASSUME NEW j \in 2 .. Len(Append(s, m))
        PROVE  Append(s, m)[j].type = "PLAYER"
    <3>1. j \in 2 .. Len(s) \/ j = Len(s) + 1
      BY <1>1
    <3>2. QED
      BY <1>1, <1>7, <3>1 DEF AnswerThenPlayers
  <2>2. QED
    BY <1>1, <1>4, <1>7, <2>1 DEF AnswerThenPlayers
<1>8. ASSUME OneStart(s)
      PROVE  OneStart(Append(s, m))
  <2>1. PICK p \in 1 .. Len(s) : /\ s[p].type = "BOOLEAN"
                                 /\ \A j \in 1 .. Len(s) \ {p} : s[j].type = "PLAYER"
    BY <1>8 DEF OneStart
  <2>2. p \in 1 .. Len(Append(s, m)) /\ Append(s, m)[p].type = "BOOLEAN"
    BY <1>1, <2>1
  <2>3. \A j \in 1 .. Len(Append(s, m)) \ {p} : Append(s, m)[j].type = "PLAYER"
    BY <1>1, <1>2, <2>1
  <2>4. QED
    BY <2>2, <2>3 DEF OneStart
<1>9. QED
  BY <1>5, <1>6, <1>7, <1>8

LEMMA StartAppended ==
    ASSUME NEW s \in Seq(ServerMessages)
    PROVE  /\ OnlyPlayers(s) => OneStart(Append(s, Yes))
           /\ s = <<>> => AnswerThenPlayers(Append(s, Yes))
           /\ NoTrue(s) => NoTrue(Append(s, No))
<1>1. Yes \in ServerMessages /\ No \in ServerMessages
  BY YesNo
<1>2. Yes.type = "BOOLEAN" /\ Yes # No
  BY YesNo
<1>3. ASSUME NEW m \in ServerMessages
      PROVE  /\ Len(s) \in Nat /\ Len(Append(s, m)) = Len(s) + 1 /\ Append(s, m) # <<>>
             /\ \A j \in 1 .. Len(s) : Append(s, m)[j] = s[j]
             /\ Append(s, m)[Len(s) + 1] = m
             /\ \A j \in 1 .. Len(Append(s, m)) : j \in 1 .. Len(s) \/ j = Len(s) + 1
             /\ s = <<>> => Len(s) = 0
  BY AppendFacts, EmptyFacts
<1>4. ASSUME OnlyPlayers(s)
      PROVE  OneStart(Append(s, Yes))
  <2> DEFINE t == Append(s, Yes)
  <2>1. Len(s) + 1 \in 1 .. Len(t) /\ t[Len(s) + 1].type = "BOOLEAN"
    BY <1>1, <1>2, <1>3
  <2>2. \A j \in 1 .. Len(t) \ {Len(s) + 1} : t[j].type = "PLAYER"
    BY <1>1, <1>3, <1>4 DEF OnlyPlayers
  <2>3. QED
    BY <2>1, <2>2 DEF OneStart
<1>5. ASSUME s = <<>>
      PROVE  AnswerThenPlayers(Append(s, Yes))
  BY <1>1, <1>3, <1>5 DEF AnswerThenPlayers
<1>6. ASSUME NoTrue(s)
      PROVE  NoTrue(Append(s, No))
  BY <1>1, <1>2, <1>3, <1>6 DEF NoTrue
<1>7. QED
  BY <1>4, <1>5, <1>6

LEMMA FirstRead ==
    ASSUME NEW s \in Seq(ServerMessages), s # <<>>
    PROVE  /\ OnlyPlayers(s) => s[1].type = "PLAYER" /\ OnlyPlayers(Tail(s))
           /\ AnswerThenPlayers(s) => s[1] = Yes /\ OnlyPlayers(Tail(s))
           /\ NoTrue(s) => s[1] # Yes /\ NoTrue(Tail(s))
           /\ OneStart(s) => \/ s[1].type = "PLAYER" /\ OneStart(Tail(s))
                             \/ s[1].type = "BOOLEAN" /\ OnlyPlayers(Tail(s))
           /\ Len(s) = 1 => Tail(s) = <<>>
<1>1. /\ Len(s) \in Nat /\ 1 \in 1 .. Len(s)
      /\ Len(Tail(s)) = Len(s) - 1 /\ Len(Tail(s)) \in Nat
      /\ \A j \in 1 .. Len(Tail(s)) : j + 1 \in 2 .. Len(s) /\ Tail(s)[j] = s[j + 1]
  BY TailFacts, EmptyFacts
<1>2. OnlyPlayers(s) => s[1].type = "PLAYER" /\ OnlyPlayers(Tail(s))
  BY <1>1 DEF OnlyPlayers
<1>3. AnswerThenPlayers(s) => s[1] = Yes /\ OnlyPlayers(Tail(s))
  BY <1>1 DEF AnswerThenPlayers, OnlyPlayers
<1>4. NoTrue(s) => s[1] # Yes /\ NoTrue(Tail(s))
  BY <1>1 DEF NoTrue
<1>5. ASSUME OneStart(s)
      PROVE  \/ s[1].type = "PLAYER" /\ OneStart(Tail(s))
             \/ s[1].type = "BOOLEAN" /\ OnlyPlayers(Tail(s))
  <2>1. PICK p \in 1 .. Len(s) : /\ s[p].type = "BOOLEAN"
                                 /\ \A j \in 1 .. Len(s) \ {p} : s[j].type = "PLAYER"
    BY <1>5 DEF OneStart
  <2>2. CASE p = 1
    BY <1>1, <2>1, <2>2 DEF OnlyPlayers
  <2>3. CASE p # 1
    <3>1. s[1].type = "PLAYER"
      BY <1>1, <2>1, <2>3
    <3>2. p - 1 \in 1 .. Len(Tail(s)) /\ Tail(s)[p - 1].type = "BOOLEAN"
      BY <1>1, <2>1, <2>3
    <3>3. \A j \in 1 .. Len(Tail(s)) \ {p - 1} : Tail(s)[j].type = "PLAYER"
      BY <1>1, <2>1
    <3>4. QED
      BY <3>1, <3>2, <3>3 DEF OneStart
  <2>4. QED
    BY <2>2, <2>3
<1>6. Len(s) = 1 => Tail(s) = <<>>
  BY <1>1, TailFacts, EmptyFacts
<1>7. QED
  BY <1>2, <1>3, <1>4, <1>5, <1>6

\* A message for an empty queue is alone in it.
LEMMA Alone ==
    ASSUME NEW T, NEW s \in Seq(T), s = <<>>, NEW m \in T
    PROVE  Len(Append(s, m)) = 1 /\ Append(s, m)[1] = m /\ Append(s, m) # <<>>
BY AppendFacts, EmptyFacts

\* The dialogue of a client does not end by what is told to it about others.
LEMMA TalkTold ==
    ASSUME NEW cl, cl.expecting \in {"READY_TO_PLAY", "MOVEMENT"}, NEW known, NEW other, NEW ph, NEW in,
           NEW out \in Seq(ServerMessages), NEW m \in ServerMessages, m.type = "PLAYER",
           Talk(cl, known, ph, in, out)
    PROVE  Talk(cl, other, ph, in, Append(out, m))
BY PlayersAppended DEF Talk, Entered, Drawn

\* Nor by an account that is added.
LEMMA TalkKnown ==
    ASSUME NEW cl, NEW known, NEW other, known => other, NEW ph, NEW in, NEW out,
           Talk(cl, known, ph, in, out)
    PROVE  Talk(cl, other, ph, in, out)
BY DEF Talk, Stuck

\* What the server finds when it reads.
LEMMA TalkInbox ==
    ASSUME NEW cl \in ClientSet, NEW known, NEW ph, NEW in \in Seq(ClientMessages), in # <<>>,
           NEW out, Talk(cl, known, ph, in, out)
    PROVE  /\ Len(in) = 1
           /\ cl.expecting \in {"USER", "PASSWORD", "NEWPASSWORD"} => in[1].type = "STRING"
           /\ cl.expecting = "READY_TO_PLAY" => in[1].type = "BOOLEAN"
           /\ in[1].type \in {"STRING", "BOOLEAN"}
           /\ cl.expecting = "USER" => ph = "asked" /\ out = <<>>
           /\ cl.expecting = "PASSWORD" => ph = "checked" /\ out = <<>>
           /\ cl.expecting = "NEWPASSWORD" => (ph = "checked" /\ out = <<>>) \/ Stuck(known, ph, in, out)
           /\ cl.expecting = "READY_TO_PLAY" => ph = "lobby" /\ OnlyPlayers(out)
           /\ cl.expecting = "MOVEMENT" => Drawn(ph, in, out)
<1>1. cl.expecting \in {"USER", "NEWPASSWORD", "PASSWORD", "READY_TO_PLAY", "MOVEMENT"}
  BY DEF ClientSet
<1>2. \A t : StringMsg(t).type = "STRING"
  BY DEF StringMsg
<1>3. QED
  BY <1>1, <1>2 DEF Talk, Naming, Asking, Stuck, Entered, Drawn, Holds

\* Whoever is told about a player is in the table, and knows the server.
LEMMA LobbyistFacts ==
    ASSUME IInv, NEW c \in Lobbyists
    PROVE  /\ c \notin pending /\ \E k \in Slots : Seat(k) /\ Conn(k) = c
           /\ \A k \in Slots : Seat(k) /\ Conn(k) = c => clients[k].expecting \in {"READY_TO_PLAY", "MOVEMENT"}
<1>1. PICK j \in Slots : Seat(j) /\ clients[j].state # "LOGGING" /\ c = Conn(j)
  BY DEF Lobbyists
<1>2. clients[j] \in ClientSet
  BY <1>1, SeatFacts
<1>3. clients[j].expecting \in {"READY_TO_PLAY", "MOVEMENT"}
  BY <1>1, <1>2 DEF IInv, StateInv, ClientSet
<1>4. QED
  BY <1>1, <1>3 DEF IInv, SeatsInv

\* The client of slot cur is answered, others are told about a player.
Told(m) == /\ m \in ServerMessages /\ m.type = "PLAYER"
           /\ outbox' \in [Conns -> Seq(ServerMessages)]
           /\ \A c \in Conns \ {Conn(cur)} : \/ outbox'[c] = outbox[c]
                                             \/ c \in Lobbyists /\ outbox'[c] = Append(outbox[c], m)

\* The dialogue of the client in slot k after the step.
TalkNext(k) == TalkOrLeft(clients'[k], accounts'[clients'[k].name] # NoAccount, phase'[clients'[k].con],
                          inbox'[clients'[k].con], outbox'[clients'[k].con])

MyTalk == Talk(clients[cur], Known(cur), phase[Conn(cur)], inbox[Conn(cur)], outbox[Conn(cur)])

LEMMA TookTalk ==
    ASSUME IInv, TalkInv, Took
    PROVE  /\ S!Request = inbox[Conn(cur)][1] /\ readBuffer' = <<>>
           /\ \A c \in Conns : inbox'[c] = IF c = Conn(cur) THEN <<>> ELSE inbox[c]
           /\ inbox[Conn(cur)] \in Seq(ClientMessages) /\ inbox[Conn(cur)] # <<>>
           /\ clients[cur] \in ClientSet
           /\ IF S!Request = Bye THEN phase[Conn(cur)] = "gone" ELSE MyTalk
<1>1. /\ inbox \in [Conns -> Seq(ClientMessages)] /\ Conn(cur) \in Conns /\ cur \in Slots /\ Seat(cur)
      /\ readBuffer = <<>>
  BY ServerTypes DEF Took, TalkInv
<1>2. /\ inbox[Conn(cur)] # <<>> /\ S!Request = inbox[Conn(cur)][1]
      /\ readBuffer' = Tail(inbox[Conn(cur)])
      /\ inbox' = [inbox EXCEPT ![Conn(cur)] = <<>>]
  BY <1>1 DEF Took
<1>3. clients[cur] \in ClientSet /\ (Left(phase[Conn(cur)], inbox[Conn(cur)]) \/ MyTalk)
  BY <1>1, SeatFacts DEF TalkInv, TalkOrLeft, MyTalk
<1>4. ASSUME MyTalk
      PROVE  Len(inbox[Conn(cur)]) = 1 /\ S!Request # Bye
  <2>1. Len(inbox[Conn(cur)]) = 1 /\ inbox[Conn(cur)][1].type \in {"STRING", "BOOLEAN"}
    BY <1>1, <1>2, <1>3, <1>4, TalkInbox DEF MyTalk
  <2>2. QED
    BY <1>2, <2>1 DEF Bye
<1>5. /\ Len(inbox[Conn(cur)]) = 1
      /\ IF S!Request = Bye THEN phase[Conn(cur)] = "gone" ELSE MyTalk
  BY <1>2, <1>3, <1>4 DEF Left
<1>6. readBuffer' = <<>>
  <2> DEFINE s == inbox[Conn(cur)]
  <2>1. s \in Seq(ClientMessages) /\ s # <<>> /\ Len(s) = 1 /\ readBuffer' = Tail(s)
    BY <1>1, <1>2, <1>5
  <2> HIDE DEF s
  <2>2. Len(Tail(s)) = 0 /\ Tail(s) \in Seq(ClientMessages)
    BY <2>1, TailFacts
  <2>3. QED
    BY <2>1, <2>2, EmptyFacts
<1>7. QED
  BY <1>1, <1>2, <1>3, <1>5, <1>6

\* The dialogue of the others, while the server serves the client in slot cur.
LEMMA OthersTalk ==
    ASSUME IInv, TalkInv, cur \in Slots, Seat(cur), UNCHANGED <<phase, pending>>,
           \A k \in Slots \ {cur} : clients'[k] = clients[k],
           clients'[cur] # Null, clients'[cur].con = Conn(cur),
           \A c \in Conns \ {Conn(cur)} : inbox'[c] = inbox[c],
           \A t \in Texts \cup {Unset} : accounts[t] # NoAccount => accounts'[t] # NoAccount,
           NEW m, Told(m)
    PROVE  /\ \A k \in Slots \ {cur} : clients'[k] # Null => TalkNext(k)
           /\ \A c \in pending' : NamingOrLeft(UserOf[c], phase'[c], inbox'[c], outbox'[c])
           /\ \A c \in Conns : \/ c \in pending' \/ \E k \in Slots : clients'[k] # Null /\ clients'[k].con = c
                               \/ phase'[c] = "outside" /\ inbox'[c] = <<>> /\ outbox'[c] = <<>>
<1>1. /\ outbox \in [Conns -> Seq(ServerMessages)] /\ pending \subseteq Conns
      /\ m \in ServerMessages /\ m.type = "PLAYER"
  BY ServerTypes DEF Told
<1>2. ASSUME NEW k \in Slots \ {cur}, clients'[k] # Null
      PROVE  TalkNext(k)
  <2>1. /\ Seat(k) /\ clients'[k] = clients[k] /\ Conn(k) = clients'[k].con /\ Conn(k) \in Conns
        /\ clients[k] \in ClientSet
    BY <1>2, SeatFacts DEF Seat, Conn
  <2>2. Conn(k) # Conn(cur)
    BY <2>1 DEF IInv, SeatsInv
  <2>3. phase'[Conn(k)] = phase[Conn(k)] /\ inbox'[Conn(k)] = inbox[Conn(k)]
    BY <2>1, <2>2
  <2>4. Known(k) => Known(k)'
    BY <2>1 DEF Known, ClientSet
  <2>5. TalkOrLeft(clients[k], Known(k), phase[Conn(k)], inbox[Conn(k)], outbox[Conn(k)])
    BY <2>1 DEF TalkInv
  <2> DEFINE cl == clients[k]
             kn == Known(k)
             kp == Known(k)'
             ph == phase[Conn(k)]
             in == inbox[Conn(k)]
             out == outbox[Conn(k)]
  <2>6. TalkOrLeft(cl, kn, ph, in, out) /\ (kn => kp) /\ out \in Seq(ServerMessages)
    BY <1>1, <2>1, <2>4, <2>5
  <2>7. outbox'[Conn(k)] = out \/ (cl.expecting \in {"READY_TO_PLAY", "MOVEMENT"}
                                        /\ outbox'[Conn(k)] = Append(out, m))
    BY <2>1, <2>2, LobbyistFacts DEF Told
  <2> HIDE DEF cl, kn, kp, ph, in, out
  <2>8. TalkOrLeft(cl, kp, ph, in, out)
    BY <2>6, TalkKnown DEF TalkOrLeft
  <2>9. cl.expecting \in {"READY_TO_PLAY", "MOVEMENT"} => TalkOrLeft(cl, kp, ph, in, Append(out, m))
    BY <1>1, <2>6, TalkTold DEF TalkOrLeft
  <2>10. TalkOrLeft(cl, kp, ph, in, outbox'[Conn(k)])
    BY <2>7, <2>8, <2>9
  <2>11. QED
    BY <2>1, <2>3, <2>10 DEF cl, kp, ph, in, TalkNext, Known
<1>3. ASSUME NEW c \in Conns, c \in pending \/ ~ \E k \in Slots : Seat(k) /\ Conn(k) = c
      PROVE  c # Conn(cur) /\ inbox'[c] = inbox[c] /\ outbox'[c] = outbox[c]
  <2>1. c # Conn(cur)
    BY <1>3 DEF IInv, SeatsInv
  <2>2. c \notin Lobbyists
    BY <1>3, LobbyistFacts
  <2>3. QED
    BY <2>1, <2>2 DEF Told
<1>4. \A c \in pending' : NamingOrLeft(UserOf[c], phase'[c], inbox'[c], outbox'[c])
  BY <1>1, <1>3 DEF TalkInv
<1>5. ASSUME NEW c \in Conns
      PROVE  \/ c \in pending' \/ \E k \in Slots : clients'[k] # Null /\ clients'[k].con = c
             \/ phase'[c] = "outside" /\ inbox'[c] = <<>> /\ outbox'[c] = <<>>
  <2>1. CASE c \in pending
    BY <2>1
  <2>2. ASSUME NEW k \in Slots, Seat(k), Conn(k) = c
        PROVE  clients'[k] # Null /\ clients'[k].con = c
    BY <2>2 DEF Seat, Conn
  <2>3. CASE /\ phase[c] = "outside" /\ inbox[c] = <<>> /\ outbox[c] = <<>>
             /\ ~ \E k \in Slots : Seat(k) /\ Conn(k) = c
    BY <1>3, <2>3
  <2>4. QED
    BY <2>1, <2>2, <2>3 DEF TalkInv
<1>6. QED
  BY <1>2, <1>4, <1>5

\* A handler that takes a request and gives its client the value cl.
LEMMA HandlerTalk ==
    ASSUME IInv, TalkInv, Took, UNCHANGED phase, NEW cl, cl # Null, cl.con = Conn(cur), Becomes(cur, cl),
           \A t \in Texts \cup {Unset} : accounts[t] # NoAccount => accounts'[t] # NoAccount,
           NEW m, Told(m),
           Talk(cl, accounts'[cl.name] # NoAccount, phase[Conn(cur)], <<>>, outbox'[Conn(cur)]),
           \/ at' = "select"
           \/ at' = "announce" /\ cur' = cur /\ cl.expecting = "READY_TO_PLAY"
           \/ /\ at' = "announce" /\ cur' = cur /\ cl.expecting = "NEWPASSWORD"
              /\ Stuck(accounts'[cl.name] # NoAccount, phase[Conn(cur)], <<>>, outbox'[Conn(cur)])
           \/ at' = "start" /\ startGame',
           startGame => startGame', cl.expecting = "MOVEMENT" => startGame
    PROVE  TalkInv'
<1>1. /\ cur \in Slots /\ Seat(cur) /\ clients'[cur] = cl
      /\ \A k \in Slots \ {cur} : clients'[k] = clients[k]
      /\ UNCHANGED <<phase, pending>> /\ Conn(cur) \in Conns
  BY DEF Took, Becomes
<1>2. /\ readBuffer' = <<>> /\ inbox'[Conn(cur)] = <<>>
      /\ \A c \in Conns \ {Conn(cur)} : inbox'[c] = inbox[c]
  BY <1>1, TookTalk
<1>3. /\ \A k \in Slots \ {cur} : clients'[k] # Null => TalkNext(k)
      /\ \A c \in pending' : NamingOrLeft(UserOf[c], phase'[c], inbox'[c], outbox'[c])
      /\ \A c \in Conns : \/ c \in pending' \/ \E k \in Slots : clients'[k] # Null /\ clients'[k].con = c
                          \/ phase'[c] = "outside" /\ inbox'[c] = <<>> /\ outbox'[c] = <<>>
  BY <1>1, <1>2, OthersTalk
<1>4. TalkNext(cur)
  BY <1>1, <1>2 DEF TalkNext, TalkOrLeft
<1>5. \A k \in Slots : clients'[k] # Null => TalkNext(k)
  BY <1>3, <1>4
<1>6. at' = "announce" =>
          \/ clients'[cur'].expecting = "READY_TO_PLAY"
          \/ /\ clients'[cur'].expecting = "NEWPASSWORD"
             /\ Stuck(accounts'[clients'[cur'].name] # NoAccount, phase'[clients'[cur'].con],
                    inbox'[clients'[cur'].con], outbox'[clients'[cur'].con])
  <2>1. cur' = cur => /\ phase'[clients'[cur'].con] = phase[Conn(cur)] /\ inbox'[clients'[cur'].con] = <<>>
                      /\ outbox'[clients'[cur'].con] = outbox'[Conn(cur)] /\ clients'[cur'] = cl
    BY <1>1, <1>2
  <2>2. QED
    BY <2>1
<1>7. at' = "start" => startGame'
  OBVIOUS
<1>8. \A k \in Slots : clients'[k] # Null /\ clients'[k].expecting = "MOVEMENT" => startGame'
  BY <1>1 DEF TalkInv, Seat
<1>9. QED
  BY <1>2, <1>3, <1>5, <1>6, <1>7, <1>8 DEF TalkInv, Seat, Conn, Known, TalkNext

\* The table, the queues and the phases stay, and no other request is resolved.
LEMMA StillTalk ==
    ASSUME TalkInv, UNCHANGED <<clients, accounts, readBuffer, startGame, pending, phase, inbox, outbox>>,
           at' \in {"select", "read"} \/ UNCHANGED <<at, cur>>
    PROVE  TalkInv'
<1>1. \A k \in Slots : Seat(k) => /\ Known(k)' = Known(k) /\ Seat(k)' = Seat(k) /\ Conn(k)' = Conn(k)
  BY DEF Known, Seat, Conn
<1>2. /\ readBuffer' = <<>>
      /\ \A k \in Slots : Seat(k)' =>
            TalkOrLeft(clients'[k], Known(k)', phase'[Conn(k)'], inbox'[Conn(k)'], outbox'[Conn(k)'])
      /\ \A c \in pending' : NamingOrLeft(UserOf[c], phase'[c], inbox'[c], outbox'[c])
  BY DEF TalkInv, Known, Seat, Conn
<1>3. \A c \in Conns : \/ c \in pending' \/ \E k \in Slots : Seat(k)' /\ Conn(k)' = c
                       \/ phase'[c] = "outside" /\ inbox'[c] = <<>> /\ outbox'[c] = <<>>
  BY DEF TalkInv, Seat, Conn
<1>4. (at = "announce" /\ UNCHANGED <<at, cur>>) =>
           \/ Left(phase'[Conn(cur)'], inbox'[Conn(cur)'])
           \/ clients'[cur'].expecting = "READY_TO_PLAY"
           \/ /\ clients'[cur'].expecting = "NEWPASSWORD"
              /\ Stuck(Known(cur)', phase'[Conn(cur)'], inbox'[Conn(cur)'], outbox'[Conn(cur)'])
  BY DEF TalkInv, Known, Conn
<1>5. QED
  BY <1>2, <1>3, <1>4 DEF TalkInv, Seat

LEMMA AnnouncementFacts ==
    ASSUME NEW k \in Slots, NEW n \in Texts \cup {Unset}, NEW b \in BOOLEAN
    PROVE  PlayerMsg(k, n, b) \in ServerMessages /\ PlayerMsg(k, n, b).type = "PLAYER"
BY MessageTypes DEF PlayerMsg

LEMMA AboutFacts ==
    ASSUME NEW k \in Slots, NEW cl \in ClientSet
    PROVE  About(k, cl) \in ServerMessages /\ About(k, cl).type = "PLAYER"
<1>1. (cl.state = "READY_PLAY") \in BOOLEAN /\ cl.name \in Texts \cup {Unset}
  BY DEF ClientSet
<1>2. QED
  BY <1>1, AnnouncementFacts DEF About

LEMMA AnsweredTold ==
    ASSUME NEW a, NEW m \in ServerMessages, m.type = "PLAYER", Answers(Conn(cur), a, Lobbyists, m)
    PROVE  Told(m)
BY DEF Answers, Told

\* Only the client in slot cur is answered, or nobody.
LEMMA NobodyTold ==
    ASSUME IInv, Took, NEW a, Sends({Conn(cur)}, a) \/ UNCHANGED outbox
    PROVE  Told(About(cur, clients[cur]))
<1>1. About(cur, clients[cur]) \in ServerMessages /\ About(cur, clients[cur]).type = "PLAYER"
  BY SeatFacts, AboutFacts DEF Took
<1>2. QED
  BY <1>1, ServerTypes DEF Sends, Told

LEMMA AcceptTalk ==
    ASSUME IInv, TalkInv, NEW c \in Conns, NEW k \in Slots, S!AcceptClient(c, k), UNCHANGED phase
    PROVE  TalkInv'
<1>1. /\ c \in pending /\ ~Seat(k) /\ pending' = pending \ {c} /\ Becomes(k, Newcomer(c))
      /\ Newcomer(c) # Null /\ Idle /\ UNCHANGED <<at, cur, next, alive, outbox, phase>>
  BY AcceptFacts, NotNull
<1>2. clients'[k] = Newcomer(c) /\ \A j \in Slots \ {k} : clients'[j] = clients[j]
  BY <1>1 DEF Becomes
<1>3. UNCHANGED <<accounts, readBuffer, startGame, inbox, outbox, phase>>
  BY <1>1 DEF Idle
<1>4. ASSUME NEW j \in Slots, clients'[j] # Null
      PROVE  TalkNext(j)
  <2>1. CASE j = k
    <3>1. NamingOrLeft(UserOf[c], phase[c], inbox[c], outbox[c])
      BY <1>1 DEF TalkInv
    <3>2. Newcomer(c).con = c /\ Newcomer(c).expecting = "USER"
      BY DEF Newcomer
    <3>3. QED
      BY <1>2, <1>3, <2>1, <3>1, <3>2 DEF TalkNext, TalkOrLeft, NamingOrLeft, Talk
  <2>2. CASE j # k
    BY <1>2, <1>3, <1>4, <2>2 DEF TalkInv, TalkNext, Seat, Conn, Known
  <2>3. QED
    BY <2>1, <2>2
<1>5. \A d \in pending' : NamingOrLeft(UserOf[d], phase'[d], inbox'[d], outbox'[d])
  BY <1>1, <1>3 DEF TalkInv
<1>6. ASSUME NEW d \in Conns
      PROVE  \/ d \in pending' \/ \E j \in Slots : clients'[j] # Null /\ clients'[j].con = d
             \/ phase'[d] = "outside" /\ inbox'[d] = <<>> /\ outbox'[d] = <<>>
  <2>1. CASE d = c
    BY <1>1, <1>2, <2>1 DEF Newcomer
  <2>2. CASE d # c
    <3>1. \A j \in Slots : Seat(j) => j # k /\ clients'[j] = clients[j]
      BY <1>1, <1>2
    <3>2. QED
      BY <1>1, <1>3, <2>2, <3>1 DEF TalkInv, Seat, Conn
  <2>3. QED
    BY <2>1, <2>2
<1>7. at = "announce" =>
           \/ Left(phase[clients'[cur].con], inbox[clients'[cur].con])
           \/ clients'[cur].expecting = "READY_TO_PLAY"
           \/ /\ clients'[cur].expecting = "NEWPASSWORD"
              /\ Stuck(accounts[clients'[cur].name] # NoAccount, phase[clients'[cur].con],
                       inbox[clients'[cur].con], outbox[clients'[cur].con])
  <2>1. at = "announce" => clients'[cur] = clients[cur]
    BY <1>1, <1>2, ServerTypes DEF IInv, CurInv
  <2>2. QED
    BY <2>1 DEF TalkInv, Known, Conn
<1>8. \A j \in Slots : clients'[j] # Null /\ clients'[j].expecting = "MOVEMENT" => startGame
  <2>1. Newcomer(c).expecting = "USER"
    BY DEF Newcomer
  <2>2. QED
    BY <1>2, <2>1 DEF TalkInv, Seat
<1>9. QED
  BY <1>1, <1>3, <1>4, <1>5, <1>6, <1>7, <1>8 DEF TalkInv, Seat, Conn, Known, TalkNext

LEMMA NotifyTalk ==
    ASSUME IInv, TalkInv, S!NotifyExistingPlayers, UNCHANGED phase
    PROVE  TalkInv'
<1>1. /\ at = "announce" /\ next \in Slots /\ cur \in Slots /\ Seat(cur) /\ Conn(cur) \in Conns
      /\ Idle /\ UNCHANGED <<clients, at, cur, pending>>
  BY NotifyFacts
<1>2. CASE UNCHANGED outbox
  BY <1>1, <1>2, StillTalk DEF Idle
<1>3. CASE Seat(next) /\ Sends({Conn(cur)}, About(next, clients[next]))
  <2> DEFINE m == About(next, clients[next])
  <2>1. m \in ServerMessages /\ m.type = "PLAYER"
    BY <1>1, <1>3, SeatFacts, AboutFacts
  <2>2. /\ outbox' \in [Conns -> Seq(ServerMessages)]
        /\ \A c \in Conns : outbox'[c] = IF c = Conn(cur) THEN Append(outbox[c], m) ELSE outbox[c]
    BY <1>3 DEF Sends
  <2> HIDE DEF m
  <2>3. Told(m)
    BY <2>1, <2>2 DEF Told
  <2>4. UNCHANGED <<accounts, readBuffer, startGame, inbox, clients, at, cur, pending, phase>>
    BY <1>1 DEF Idle
  <2>5. /\ \A k \in Slots \ {cur} : clients'[k] # Null => TalkNext(k)
        /\ \A c \in pending' : NamingOrLeft(UserOf[c], phase'[c], inbox'[c], outbox'[c])
        /\ \A c \in Conns : \/ c \in pending' \/ \E k \in Slots : clients'[k] # Null /\ clients'[k].con = c
                            \/ phase'[c] = "outside" /\ inbox'[c] = <<>> /\ outbox'[c] = <<>>
    BY <1>1, <2>3, <2>4, OthersTalk DEF Seat, Conn
  <2> DEFINE out == outbox[Conn(cur)]
  <2>6. out \in Seq(ServerMessages) /\ outbox'[Conn(cur)] = Append(out, m)
    BY <1>1, <2>2, ServerTypes
  <2>7. TalkOrLeft(clients[cur], Known(cur), phase[Conn(cur)], inbox[Conn(cur)], out)
    BY <1>1 DEF TalkInv
  <2>8. /\ TalkOrLeft(clients[cur], Known(cur), phase[Conn(cur)], inbox[Conn(cur)], Append(out, m))
        /\ \/ Left(phase[Conn(cur)], inbox[Conn(cur)])
           \/ clients[cur].expecting = "READY_TO_PLAY"
           \/ /\ clients[cur].expecting = "NEWPASSWORD"
              /\ Stuck(Known(cur), phase[Conn(cur)], inbox[Conn(cur)], Append(out, m))
    <3>1. CASE clients[cur].expecting = "READY_TO_PLAY"
      <4> DEFINE kn == Known(cur)
                 cl == clients[cur]
      <4>1. cl.expecting = "READY_TO_PLAY" /\ TalkOrLeft(cl, kn, phase[Conn(cur)], inbox[Conn(cur)], out)
        BY <2>7, <3>1
      <4> HIDE DEF kn, cl, out
      <4>2. TalkOrLeft(cl, kn, phase[Conn(cur)], inbox[Conn(cur)], Append(out, m))
        BY <2>1, <2>6, <4>1, TalkTold DEF TalkOrLeft
      <4>3. QED
        BY <3>1, <4>2 DEF kn, cl
    <3>2. CASE /\ clients[cur].expecting = "NEWPASSWORD"
               /\ Stuck(Known(cur), phase[Conn(cur)], inbox[Conn(cur)], out)
      <4> HIDE DEF out
      <4>1. Stuck(Known(cur), phase[Conn(cur)], inbox[Conn(cur)], Append(out, m))
        BY <2>1, <2>6, <3>2, PlayersAppended DEF Stuck
      <4>2. QED
        BY <3>2, <4>1 DEF Talk, TalkOrLeft
    <3>3. CASE Left(phase[Conn(cur)], inbox[Conn(cur)])
      BY <3>3 DEF TalkOrLeft
    <3>4. QED
      BY <1>1, <3>1, <3>2, <3>3 DEF TalkInv
  <2>9. TalkNext(cur)
    BY <2>4, <2>6, <2>8 DEF TalkNext, Known, Conn
  <2>10. \A k \in Slots : clients'[k] # Null => TalkNext(k)
    BY <2>5, <2>9
  <2> HIDE DEF out
  <2>11. \/ Left(phase'[clients'[cur'].con], inbox'[clients'[cur'].con])
         \/ clients'[cur'].expecting = "READY_TO_PLAY"
         \/ /\ clients'[cur'].expecting = "NEWPASSWORD"
            /\ Stuck(accounts'[clients'[cur'].name] # NoAccount, phase'[clients'[cur'].con],
                     inbox'[clients'[cur'].con], outbox'[clients'[cur'].con])
    BY <2>4, <2>6, <2>8 DEF Known, Conn
  <2>12. \A k \in Slots : clients'[k] # Null /\ clients'[k].expecting = "MOVEMENT" => startGame'
    BY <2>4 DEF TalkInv, Seat
  <2>13. readBuffer' = <<>> /\ at' # "start"
    BY <1>1, <2>4 DEF TalkInv
  <2>14. QED
    BY <2>5, <2>10, <2>11, <2>12, <2>13 DEF TalkInv, Seat, Conn, Known, TalkNext
<1>4. QED
  BY <1>2, <1>3, NotifyFacts

LEMMA GameStartTalk ==
    ASSUME IInv, TalkInv, S!SendGameStart, UNCHANGED phase
    PROVE  TalkInv'
<1>1. /\ at = "start" /\ at' = "select" /\ Idle /\ UNCHANGED pending
      /\ \A k \in Slots : clients'[k] = IF Seat(k) THEN Playing(k) ELSE Null
      /\ outbox' \in [Conns -> Seq(ServerMessages)]
      /\ \A c \in Conns : outbox'[c] = IF c \in Members THEN Append(outbox[c], Yes) ELSE outbox[c]
  BY GameStartFacts DEF Sends, Yes
<1>2. UNCHANGED <<accounts, readBuffer, startGame, inbox, phase, pending>>
  BY <1>1 DEF Idle
<1>3. ASSUME NEW k \in Slots, clients'[k] # Null
      PROVE  TalkNext(k) /\ Seat(k) /\ clients'[k].con = Conn(k)
  <2>1. Seat(k) /\ clients'[k] = Playing(k)
    BY <1>1, <1>3
  <2>2. /\ Playing(k).con = Conn(k) /\ Playing(k).expecting = "MOVEMENT"
    BY DEF Playing
  <2>3. Conn(k) \in Conns /\ clients[k] \in ClientSet /\ Conn(k) \in Members
    BY <2>1, SeatFacts DEF Members
  <2> DEFINE c == Conn(k)
  <2>4. outbox'[c] = Append(outbox[c], Yes) /\ outbox[c] \in Seq(ServerMessages)
    BY <1>1, <2>3, ServerTypes
  <2>5. TalkOrLeft(clients[k], Known(k), phase[c], inbox[c], outbox[c])
    BY <2>1 DEF TalkInv
  <2>6. Left(phase[c], inbox[c]) \/ Drawn(phase[c], inbox[c], outbox'[c])
    <3> SUFFICES ASSUME ~Left(phase[c], inbox[c]), Talk(clients[k], Known(k), phase[c], inbox[c], outbox[c])
                 PROVE  Drawn(phase[c], inbox[c], outbox'[c])
      BY <2>5 DEF TalkOrLeft
    <3>1. CASE clients[k].state = "READY_PLAY"
      <4>1. clients[k].expecting = "READY_TO_PLAY"
        BY <2>1, <3>1 DEF IInv, StateInv
      <4>2. phase[c] = "lobby" /\ Holds(inbox[c], "BOOLEAN") /\ OnlyPlayers(outbox[c])
        BY <3>1, <4>1 DEF Talk, Entered
      <4> HIDE DEF c
      <4>3. OneStart(outbox'[c])
        BY <2>4, <4>2, StartAppended DEF Yes
      <4>4. QED
        BY <4>2, <4>3 DEF Drawn
    <3>2. CASE clients[k].expecting = "USER"
      <4>1. Naming(UserOf[clients[k].con], phase[c], inbox[c], outbox[c])
        BY <3>2 DEF Talk
      <4> HIDE DEF c
      <4>2. AnswerThenPlayers(outbox'[c])
        BY <2>4, <4>1, StartAppended DEF Yes, Naming
      <4>3. \A t : StringMsg(t).type = "STRING"
        BY DEF StringMsg
      <4>4. QED
        BY <4>1, <4>2, <4>3 DEF Naming, Drawn, Holds
    <3>3. QED
      BY <1>1, <2>1, <3>1, <3>2 DEF IInv, StartInv
  <2> HIDE DEF c
  <2>7. TalkOrLeft(Playing(k), accounts'[clients'[k].name] # NoAccount, phase[c], inbox[c], outbox'[c])
    BY <2>2, <2>6 DEF TalkOrLeft, Talk
  <2>8. QED
    BY <1>2, <2>1, <2>2, <2>7 DEF TalkNext, c
<1>4. ASSUME NEW c \in Conns, c \notin Members
      PROVE  outbox'[c] = outbox[c] /\ ~ \E k \in Slots : Seat(k) /\ Conn(k) = c
  BY <1>1, <1>4 DEF Members
<1>5. \A c \in pending' : NamingOrLeft(UserOf[c], phase'[c], inbox'[c], outbox'[c])
  <2>1. \A c \in pending : c \in Conns /\ c \notin Members
    BY ServerTypes DEF Members, IInv, SeatsInv
  <2>2. QED
    BY <1>2, <1>4, <2>1 DEF TalkInv
<1>6. ASSUME NEW c \in Conns
      PROVE  \/ c \in pending' \/ \E k \in Slots : clients'[k] # Null /\ clients'[k].con = c
             \/ phase'[c] = "outside" /\ inbox'[c] = <<>> /\ outbox'[c] = <<>>
  <2>1. ASSUME NEW k \in Slots, Seat(k), Conn(k) = c
        PROVE  clients'[k] # Null /\ clients'[k].con = c
    <3>1. clients'[k] = Playing(k) /\ Playing(k).con = c
      BY <1>1, <2>1 DEF Playing
    <3>2. clients'[k] # Null
      <4>1. clients[k] \in ClientSet
        BY <2>1, SeatFacts
      <4>2. Playing(k) \in ClientSet
        BY <4>1 DEF ClientSet, Playing, Conn
      <4>3. QED
        BY <3>1, <4>2, NotNull
    <3>3. QED
      BY <3>1, <3>2
  <2>2. CASE c \in Members
    BY <2>1, <2>2 DEF Members
  <2>3. CASE c \notin Members
    BY <1>2, <1>4, <2>3 DEF TalkInv
  <2>4. QED
    BY <2>2, <2>3
<1>7. startGame'
  BY <1>1, <1>2 DEF TalkInv
<1>8. QED
  BY <1>1, <1>2, <1>3, <1>5, <1>6, <1>7 DEF TalkInv, Seat, Conn, Known, TalkNext

LEMMA HoldsNothing == \A type : Holds(<<>>, type)
<1>1. \A s, type : s = <<>> => Holds(s, type)
  BY DEF Holds
<1>2. QED
  BY <1>1

\* What a handler that takes a request starts from.
LEMMA HandlerFacts ==
    ASSUME IInv, TalkInv, Took, S!Request # Bye
    PROVE  /\ cur \in Slots /\ Seat(cur) /\ Conn(cur) \in Conns /\ clients[cur] \in ClientSet
           /\ clients[cur] # Null /\ clients[cur].con = Conn(cur)
           /\ clients[cur].name \in Texts \cup {Unset}
           /\ UNCHANGED clients => Becomes(cur, clients[cur])
           /\ outbox[Conn(cur)] \in Seq(ServerMessages)
           /\ S!Request \in ClientMessages
           /\ clients[cur].expecting = "MOVEMENT" =>
                  Talk(clients[cur], Known(cur), phase[Conn(cur)], <<>>, outbox[Conn(cur)])
<1>1. /\ cur \in Slots /\ Seat(cur) /\ Conn(cur) \in Conns /\ clients[cur] \in ClientSet /\ MyTalk
      /\ inbox[Conn(cur)] \in Seq(ClientMessages) /\ inbox[Conn(cur)] # <<>> /\ S!Request \in ClientMessages
      /\ outbox[Conn(cur)] \in Seq(ServerMessages)
  BY TookTalk, ServerTypes DEF Took
<1>2. UNCHANGED clients => Becomes(cur, clients[cur])
  BY <1>1, ServerTypes DEF Becomes
<1>3. clients[cur].expecting = "MOVEMENT" => Talk(clients[cur], Known(cur),
               phase[Conn(cur)], <<>>, outbox[Conn(cur)])
  <2>1. clients[cur].expecting = "MOVEMENT" => Drawn(phase[Conn(cur)], inbox[Conn(cur)], outbox[Conn(cur)])
    BY <1>1 DEF MyTalk, Talk
  <2>2. clients[cur].expecting = "MOVEMENT" => Drawn(phase[Conn(cur)], <<>>, outbox[Conn(cur)])
    BY <2>1, HoldsNothing DEF Drawn
  <2>3. QED
    BY <2>2 DEF Talk
<1>4. QED
  BY <1>1, <1>2, <1>3 DEF Seat, Conn, ClientSet

LEMMA UserTalk ==
    ASSUME IInv, TalkInv, UNCHANGED phase, S!ResolveUser
    PROVE  TalkInv'
<1> DEFINE known == accounts[S!Request.text] # NoAccount
           e == IF known THEN "PASSWORD" ELSE "NEWPASSWORD"
           cl == Renewed(S!Request.text, clients[cur].state, e)
           a == BooleanMsg(known)
<1>1. /\ Took /\ S!Request # Bye /\ clients[cur].expecting = "USER" /\ at' = "select" /\ UNCHANGED <<accounts, startGame>>
  BY UserFacts DEF ServerStill
<1>2. /\ inbox[Conn(cur)] \in Seq(ClientMessages) /\ inbox[Conn(cur)] # <<>>
      /\ S!Request = inbox[Conn(cur)][1] /\ clients[cur] \in ClientSet
      /\ Talk(clients[cur], Known(cur), phase[Conn(cur)], inbox[Conn(cur)], outbox[Conn(cur)])
  BY <1>1, TookTalk DEF MyTalk
<1>3. S!Request.type = "STRING" /\ phase[Conn(cur)] = "asked" /\ outbox[Conn(cur)] = <<>>
  BY <1>1, <1>2, TalkInbox
<1>4. S!Request.text \in Texts /\ Becomes(cur, cl) /\ Sends({Conn(cur)}, a)
  BY <1>3, UserFacts
<1>5. a \in ServerMessages /\ e \in {"PASSWORD", "NEWPASSWORD"}
  BY MessageTypes
<1>6. Told(About(cur, clients[cur]))
  <2> HIDE DEF a
  <2>1. QED
    BY <1>1, <1>4, NobodyTold
<1>7. clients[cur].state = "LOGGING"
  BY <1>1, <1>2 DEF IInv, StateInv, ClientSet, Took
<1>8. cl # Null
  <2> HIDE DEF e
  <2>1. QED
    BY <1>1, <1>4, <1>5, <1>7, RenewedFacts DEF Renewal
<1>9. cl.con = Conn(cur) /\ cl.expecting = e
  BY DEF Renewed, Conn
<1>10. Len(outbox'[Conn(cur)]) = 1
  <2> HIDE DEF a
  <2>1. outbox'[Conn(cur)] = Append(outbox[Conn(cur)], a) /\ outbox[Conn(cur)] \in Seq(ServerMessages)
    BY <1>1, <1>4, HandlerFacts DEF Sends
  <2>2. QED
    BY <1>3, <1>5, <2>1, Alone
<1> HIDE DEF e, a, cl, known
<1>11. Asking(phase[Conn(cur)], <<>>, outbox'[Conn(cur)])
  BY <1>3, <1>10 DEF Asking
<1>12. Talk(cl, accounts'[cl.name] # NoAccount, phase[Conn(cur)], <<>>, outbox'[Conn(cur)])
  BY <1>5, <1>9, <1>11 DEF Talk
<1>13. QED
  BY <1>1, <1>4, <1>5, <1>6, <1>8, <1>9, <1>12, HandlerTalk

\* The client has logged in: it is answered, the others are told.
LEMMA EnteredTalk ==
    ASSUME IInv, TalkInv, UNCHANGED <<phase, startGame>>, Took, S!Request # Bye,
           phase[Conn(cur)] = "checked", outbox[Conn(cur)] = <<>>,
           at' = "announce", cur' = cur,
           \A t \in Texts \cup {Unset} : accounts[t] # NoAccount => accounts'[t] # NoAccount,
           Becomes(cur, Renewed(clients[cur].name, "WAITING", "READY_TO_PLAY")),
           Answers(Conn(cur), BooleanMsg(TRUE), Lobbyists, PlayerMsg(cur, clients[cur].name, FALSE))
    PROVE  TalkInv'
<1> DEFINE cl == Renewed(clients[cur].name, "WAITING", "READY_TO_PLAY")
           m == PlayerMsg(cur, clients[cur].name, FALSE)
<1>1. cur \in Slots /\ Conn(cur) \in Conns /\ clients[cur].name \in Texts \cup {Unset}
  BY HandlerFacts
<1>2. m \in ServerMessages /\ m.type = "PLAYER"
  BY <1>1, AnnouncementFacts
<1>3. cl # Null
  BY <1>1, RenewedFacts DEF Renewal
<1>4. cl.con = Conn(cur) /\ cl.expecting = "READY_TO_PLAY" /\ cl.state = "WAITING"
  BY DEF Renewed, Conn
<1>5. Answers(Conn(cur), Yes, Lobbyists, m)
  BY DEF Yes
<1> HIDE DEF m, cl
<1>6. Told(m)
  BY <1>2, <1>5, AnsweredTold
<1>7. AnswerThenPlayers(outbox'[Conn(cur)])
  <2>1. outbox'[Conn(cur)] = Append(outbox[Conn(cur)], Yes) /\ outbox[Conn(cur)] \in Seq(ServerMessages)
    BY <1>1, <1>5, ServerTypes DEF Answers
  <2>2. QED
    BY <2>1, StartAppended DEF Yes
<1>8. Talk(cl, accounts'[cl.name] # NoAccount, phase[Conn(cur)], <<>>, outbox'[Conn(cur)])
  BY <1>4, <1>7 DEF Talk, Entered
<1>9. QED
  BY <1>3, <1>4, <1>6, <1>8, HandlerTalk DEF cl

LEMMA PasswordTalk ==
    ASSUME IInv, TalkInv, UNCHANGED phase, S!ResolvePassword
    PROVE  TalkInv'
<1>1. /\ Took /\ S!Request # Bye /\ clients[cur].expecting = "PASSWORD" /\ UNCHANGED <<accounts, startGame>>
  BY PasswordFacts DEF ServerStill
<1>2. /\ inbox[Conn(cur)] \in Seq(ClientMessages) /\ inbox[Conn(cur)] # <<>>
      /\ S!Request = inbox[Conn(cur)][1] /\ clients[cur] \in ClientSet
      /\ Talk(clients[cur], Known(cur), phase[Conn(cur)], inbox[Conn(cur)], outbox[Conn(cur)])
  BY <1>1, TookTalk DEF MyTalk
<1>3. phase[Conn(cur)] = "checked" /\ outbox[Conn(cur)] = <<>>
  BY <1>1, <1>2, TalkInbox
<1>4. CASE at' = "select" /\ UNCHANGED clients /\ Sends({Conn(cur)}, BooleanMsg(FALSE))
  <2>1. Sends({Conn(cur)}, No)
    BY <1>4 DEF No
  <2>2. Told(About(cur, clients[cur]))
    BY <1>1, <2>1, NobodyTold
  <2>3. /\ clients[cur] # Null /\ clients[cur].con = Conn(cur) /\ Becomes(cur, clients[cur])
        /\ outbox[Conn(cur)] \in Seq(ServerMessages) /\ Conn(cur) \in Conns
    BY <1>1, <1>4, HandlerFacts
  <2>4. Len(outbox'[Conn(cur)]) = 1 /\ outbox'[Conn(cur)][1] = No
    <3>1. outbox'[Conn(cur)] = Append(outbox[Conn(cur)], No)
      BY <2>1, <2>3 DEF Sends
    <3>2. QED
      BY <1>3, <2>3, <3>1, YesNo, Alone
  <2>5. Talk(clients[cur], accounts'[clients[cur].name] # NoAccount, phase[Conn(cur)], <<>>, outbox'[Conn(cur)])
    BY <1>1, <1>3, <2>4 DEF Talk, No
  <2>6. QED
    BY <1>1, <1>4, <2>2, <2>3, <2>5, HandlerTalk
<1>5. CASE /\ at' = "announce" /\ cur' = cur
           /\ Becomes(cur, Renewed(clients[cur].name, "WAITING", "READY_TO_PLAY"))
           /\ Answers(Conn(cur), BooleanMsg(TRUE), Lobbyists, PlayerMsg(cur, clients[cur].name, FALSE))
  BY <1>1, <1>3, <1>5, EnteredTalk
<1>6. QED
  BY <1>4, <1>5, PasswordFacts

LEMMA NewPasswordTalk ==
    ASSUME IInv, TalkInv, UNCHANGED phase, S!ResolveNewPassword
    PROVE  TalkInv'
<1>1. /\ Took /\ S!Request # Bye /\ clients[cur].expecting = "NEWPASSWORD" /\ UNCHANGED startGame
  BY NewPasswordFacts
<1>2. /\ inbox[Conn(cur)] \in Seq(ClientMessages) /\ inbox[Conn(cur)] # <<>>
      /\ S!Request = inbox[Conn(cur)][1] /\ clients[cur] \in ClientSet
      /\ Talk(clients[cur], Known(cur), phase[Conn(cur)], inbox[Conn(cur)], outbox[Conn(cur)])
  BY <1>1, TookTalk DEF MyTalk
<1>3. /\ S!Request.type = "STRING"
      /\ \/ phase[Conn(cur)] = "checked" /\ outbox[Conn(cur)] = <<>>
         \/ Stuck(Known(cur), phase[Conn(cur)], inbox[Conn(cur)], outbox[Conn(cur)])
  BY <1>1, <1>2, TalkInbox
<1>4. CASE /\ at' = "announce" /\ cur' = cur /\ accounts[clients[cur].name] # NoAccount
           /\ UNCHANGED <<accounts, clients>>
           /\ Answers(Conn(cur), BooleanMsg(FALSE), Lobbyists, About(cur, clients[cur]))
  <2>1. /\ clients[cur] # Null /\ clients[cur].con = Conn(cur) /\ Becomes(cur, clients[cur])
        /\ outbox[Conn(cur)] \in Seq(ServerMessages) /\ Conn(cur) \in Conns /\ cur \in Slots
    BY <1>1, <1>4, HandlerFacts
  <2>2. About(cur, clients[cur]) \in ServerMessages /\ About(cur, clients[cur]).type = "PLAYER"
    BY <1>2, <2>1, AboutFacts
  <2>3. Told(About(cur, clients[cur]))
    BY <1>4, <2>2, AnsweredTold
  <2>4. phase[Conn(cur)] \in {"typing", "checked"} /\ NoTrue(outbox[Conn(cur)])
    <3>1. outbox[Conn(cur)] = <<>> => NoTrue(outbox[Conn(cur)])
      BY <2>1, EmptyFacts DEF NoTrue
    <3>2. QED
      BY <1>3, <3>1 DEF Stuck
  <2>5. NoTrue(outbox'[Conn(cur)])
    <3>1. outbox'[Conn(cur)] = Append(outbox[Conn(cur)], No)
      BY <1>4, <2>1 DEF Answers, No
    <3>2. QED
      BY <2>1, <2>4, <3>1, StartAppended DEF No
  <2>6. Stuck(accounts'[clients[cur].name] # NoAccount, phase[Conn(cur)], <<>>, outbox'[Conn(cur)])
    BY <1>4, <2>4, <2>5, HoldsNothing DEF Stuck
  <2>7. Talk(clients[cur], accounts'[clients[cur].name] # NoAccount, phase[Conn(cur)], <<>>, outbox'[Conn(cur)])
    BY <1>1, <2>6 DEF Talk
  <2>8. QED
    BY <1>1, <1>4, <2>1, <2>3, <2>6, <2>7, HandlerTalk
<1>5. CASE /\ at' = "announce" /\ cur' = cur /\ S!Request.text \in Texts
           /\ accounts[clients[cur].name] = NoAccount
           /\ accounts' = [accounts EXCEPT ![clients[cur].name] = S!Request.text]
           /\ Becomes(cur, Renewed(clients[cur].name, "WAITING", "READY_TO_PLAY"))
           /\ Answers(Conn(cur), BooleanMsg(TRUE), Lobbyists, PlayerMsg(cur, clients[cur].name, FALSE))
  <2>1. phase[Conn(cur)] = "checked" /\ outbox[Conn(cur)] = <<>>
    BY <1>3, <1>5 DEF Stuck, Known
  <2>2. S!Request.text # NoAccount
    BY <1>5, NoAccountAssumption
  <2>3. \A t \in Texts \cup {Unset} : accounts[t] # NoAccount => accounts'[t] # NoAccount
    BY <1>5, <2>2, ServerTypes
  <2>4. QED
    BY <1>1, <1>5, <2>1, <2>3, EnteredTalk
<1>6. QED
  BY <1>3, <1>4, <1>5, NewPasswordFacts

LEMMA ReadyTalk ==
    ASSUME IInv, TalkInv, UNCHANGED phase, S!ResolveReady
    PROVE  TalkInv'
<1> DEFINE cl == Renewed(clients[cur].name, S!Word(S!Request.flag), "READY_TO_PLAY")
           m == PlayerMsg(cur, clients[cur].name, S!Request.flag)
<1>1. /\ Took /\ S!Request # Bye /\ clients[cur].expecting = "READY_TO_PLAY" /\ UNCHANGED accounts
  BY ReadyFacts
<1>2. /\ inbox[Conn(cur)] \in Seq(ClientMessages) /\ inbox[Conn(cur)] # <<>>
      /\ S!Request = inbox[Conn(cur)][1] /\ clients[cur] \in ClientSet
      /\ Talk(clients[cur], Known(cur), phase[Conn(cur)], inbox[Conn(cur)], outbox[Conn(cur)])
  BY <1>1, TookTalk DEF MyTalk
<1>3. S!Request.type = "BOOLEAN" /\ phase[Conn(cur)] = "lobby" /\ OnlyPlayers(outbox[Conn(cur)])
  BY <1>1, <1>2, TalkInbox
<1>4. /\ S!Request.flag \in BOOLEAN /\ Becomes(cur, cl) /\ Sends(Lobbyists \ {Conn(cur)}, m)
      /\ \/ at' = "select" /\ UNCHANGED startGame
         \/ at' = "start" /\ startGame' = TRUE
  BY <1>3, ReadyFacts
<1>5. m \in ServerMessages /\ m.type = "PLAYER" /\ Conn(cur) \in Conns
  BY <1>1, <1>4, HandlerFacts, AnnouncementFacts
<1>6. cl # Null
  BY <1>1, HandlerFacts, RenewedFacts DEF Renewal, S!Word
<1>7. cl.con = Conn(cur) /\ cl.expecting = "READY_TO_PLAY"
  BY DEF Renewed, Conn
<1> HIDE DEF m, cl
<1>8. Told(m) /\ outbox'[Conn(cur)] = outbox[Conn(cur)]
  BY <1>4, <1>5 DEF Told, Sends
<1>9. Talk(cl, accounts'[cl.name] # NoAccount, phase[Conn(cur)], <<>>, outbox'[Conn(cur)])
  BY <1>3, <1>7, <1>8, HoldsNothing DEF Talk, Entered
<1>10. QED
  BY <1>1, <1>4, <1>6, <1>7, <1>8, <1>9, HandlerTalk

LEMMA MovementTalk ==
    ASSUME IInv, TalkInv, UNCHANGED phase, S!ResolveMovement
    PROVE  TalkInv'
<1>1. /\ Took /\ S!Request # Bye /\ clients[cur].expecting = "MOVEMENT" /\ at' = "select"
      /\ UNCHANGED <<clients, outbox, accounts, startGame>>
  BY MovementFacts DEF ServerStill
<1>2. /\ clients[cur] # Null /\ clients[cur].con = Conn(cur) /\ Becomes(cur, clients[cur])
      /\ Talk(clients[cur], Known(cur), phase[Conn(cur)], <<>>, outbox[Conn(cur)])
      /\ cur \in Slots /\ Seat(cur)
  BY <1>1, HandlerFacts
<1>3. Told(About(cur, clients[cur]))
  BY <1>1, NobodyTold
<1>4. startGame
  BY <1>1, <1>2 DEF TalkInv
<1>5. Talk(clients[cur], accounts'[clients[cur].name] # NoAccount, phase[Conn(cur)], <<>>, outbox'[Conn(cur)])
  BY <1>1, <1>2 DEF Known
<1>6. QED
  BY <1>1, <1>2, <1>3, <1>4, <1>5, HandlerTalk

LEMMA ServerTalk ==
    ASSUME IInv, TalkInv, S!Next, UNCHANGED clientVars
    PROVE  S!Disconnect \/ TalkInv'
<1>1. UNCHANGED phase
  BY DEF clientVars
<1>2. ASSUME NEW k \in Slots, S!ListenToClients(k)
      PROVE  TalkInv'
  BY <1>1, <1>2, ListenFacts, StillTalk DEF Idle
<1>3. CASE S!NotifyDone
  BY <1>1, <1>3, NotifyDoneFacts, StillTalk DEF Idle
<1>4. QED
  BY <1>1, <1>2, <1>3, AcceptTalk, NotifyTalk, GameStartTalk, UserTalk, PasswordTalk, NewPasswordTalk,
     ReadyTalk, MovementTalk, SameWire
  DEF S!Next, S!Reader, S!Accepter
-----------------------------------------------------------------------------
\* The dialogue after a step of the client.

LEMMA NameSaid ==
    ASSUME NEW user, NEW ph, NEW in, NEW out, ph = "naming", Naming(user, ph, in, out),
           NEW s, Len(s) = 1, s[1] = StringMsg(user)
    PROVE  Naming(user, "asked", s, out)
BY DEF Naming

LEMMA TalkSend ==
    ASSUME NEW cl \in ClientSet, NEW known, NEW ph, NEW in, in = <<>>, NEW out, Talk(cl, known, ph, in, out),
           NEW s, s # <<>>, Len(s) = 1
    PROVE  /\ ph = "naming" /\ s[1] = StringMsg(UserOf[cl.con]) => Talk(cl, known, "asked", s, out)
           /\ ph = "typing" /\ s[1].type = "STRING" => Talk(cl, known, "checked", s, out)
           /\ ph = "lobby" /\ s[1].type = "BOOLEAN" => Talk(cl, known, ph, s, out)
<1>1. \A t : StringMsg(t).type = "STRING"
  BY DEF StringMsg
<1>2. \A t : Holds(s, t) <=> s[1].type = t
  BY DEF Holds
<1>3. ASSUME ph = "naming", s[1] = StringMsg(UserOf[cl.con])
      PROVE  Talk(cl, known, "asked", s, out)
  BY <1>1, <1>2, <1>3 DEF Talk, Naming, Asking, Stuck, Entered, Drawn
<1>4. ASSUME ph = "typing", s[1].type = "STRING"
      PROVE  Talk(cl, known, "checked", s, out)
  BY <1>2, <1>4 DEF Talk, Naming, Asking, Stuck, Entered, Drawn
<1>5. ASSUME ph = "lobby", s[1].type = "BOOLEAN"
      PROVE  Talk(cl, known, ph, s, out)
  BY <1>2, <1>5 DEF Talk, Naming, Asking, Stuck, Entered, Drawn
<1>6. QED
  BY <1>3, <1>4, <1>5

LEMMA TalkRead ==
    ASSUME NEW cl \in ClientSet, NEW known, NEW ph, NEW in, NEW out \in Seq(ServerMessages), out # <<>>,
           Talk(cl, known, ph, in, out)
    PROVE  /\ ph = "asked" => Talk(cl, known, "typing", in, Tail(out))
           /\ ph = "checked" /\ out[1] = Yes => Talk(cl, known, "lobby", in, Tail(out))
           /\ ph = "checked" /\ out[1] # Yes => Talk(cl, known, "typing", in, Tail(out))
           /\ ph = "lobby" /\ out[1].type = "PLAYER" => Talk(cl, known, ph, in, Tail(out))
           /\ ph = "lobby" => out[1].type \in {"PLAYER", "BOOLEAN"}
           /\ ph = "lobby" /\ out[1].type = "BOOLEAN" => Talk(cl, known, "playing", in, Tail(out))
           /\ ph = "playing" => out[1].type = "PLAYER" /\ Talk(cl, known, ph, in, Tail(out))
<1> DEFINE t == Tail(out)
           m == out[1]
<1>1. /\ OnlyPlayers(out) => m.type = "PLAYER" /\ OnlyPlayers(t)
      /\ AnswerThenPlayers(out) => m = Yes /\ OnlyPlayers(t)
      /\ NoTrue(out) => m # Yes /\ NoTrue(t)
      /\ OneStart(out) => \/ m.type = "PLAYER" /\ OneStart(t)
                          \/ m.type = "BOOLEAN" /\ OnlyPlayers(t)
      /\ Len(out) = 1 => t = <<>>
      /\ Yes.type = "BOOLEAN" /\ No # Yes
  BY FirstRead, YesNo
<1>2. \A x : Holds(<<>>, x)
  BY HoldsNothing
<1> HIDE DEF t, m
<1>3. m = out[1]
  BY DEF m
<1>4. ASSUME ph = "asked"
      PROVE  Talk(cl, known, "typing", in, t)
  BY <1>1, <1>2, <1>4 DEF Talk, Naming, Asking, Stuck, Entered, Drawn
<1>5. ASSUME ph = "checked", m = Yes
      PROVE  Talk(cl, known, "lobby", in, t)
  BY <1>1, <1>2, <1>3, <1>5 DEF Talk, Naming, Asking, Stuck, Entered, Drawn
<1>6. ASSUME ph = "checked", m # Yes
      PROVE  Talk(cl, known, "typing", in, t)
  BY <1>1, <1>2, <1>3, <1>6 DEF Talk, Naming, Asking, Stuck, Entered, Drawn
<1>7. ASSUME ph = "lobby"
      PROVE  /\ m.type \in {"PLAYER", "BOOLEAN"}
             /\ m.type = "PLAYER" => Talk(cl, known, ph, in, t)
             /\ m.type = "BOOLEAN" => Talk(cl, known, "playing", in, t)
  <2>1. cl.expecting \in {"USER", "NEWPASSWORD", "PASSWORD", "READY_TO_PLAY", "MOVEMENT"}
    BY DEF ClientSet
  <2>2. \/ cl.expecting = "READY_TO_PLAY" /\ OnlyPlayers(out) /\ Holds(in, "BOOLEAN")
        \/ cl.expecting = "MOVEMENT" /\ OneStart(out) /\ Holds(in, "BOOLEAN")
    BY <1>7, <2>1 DEF Talk, Naming, Asking, Stuck, Entered, Drawn
  <2>3. QED
    BY <1>1, <1>7, <2>2 DEF Talk, Entered, Drawn
<1>8. ASSUME ph = "playing"
      PROVE  m.type = "PLAYER" /\ Talk(cl, known, ph, in, t)
  <2>1. cl.expecting \in {"USER", "NEWPASSWORD", "PASSWORD", "READY_TO_PLAY", "MOVEMENT"}
    BY DEF ClientSet
  <2>2. cl.expecting = "MOVEMENT" /\ OnlyPlayers(out) /\ Holds(in, "BOOLEAN")
    BY <1>8, <2>1 DEF Talk, Naming, Asking, Stuck, Entered, Drawn
  <2>3. QED
    BY <1>1, <1>8, <2>2 DEF Talk, Drawn
<1>9. QED
  BY <1>3, <1>4, <1>5, <1>6, <1>7, <1>8 DEF t

\* A step of the client c, which is in the table.
LEMMA OneClientTalk ==
    ASSUME IInv, TalkInv, UNCHANGED <<clients, accounts, readBuffer, startGame, at, cur, pending>>,
           NEW c \in Conns,
           \A d \in Conns \ {c} : phase'[d] = phase[d] /\ inbox'[d] = inbox[d] /\ outbox'[d] = outbox[d],
           c \in pending => NamingOrLeft(UserOf[c], phase'[c], inbox'[c], outbox'[c]),
           c \in pending \/ phase[c] # "outside",
           \A k \in Slots : Seat(k) /\ Conn(k) = c =>
               TalkOrLeft(clients[k], Known(k), phase'[c], inbox'[c], outbox'[c]),
           \/ Left(phase'[c], inbox'[c])
           \/ /\ ~Left(phase[c], inbox[c])
              /\ \A known : Stuck(known, phase[c], inbox[c], outbox[c])
                    => Stuck(known, phase'[c], inbox'[c], outbox'[c])
    PROVE  TalkInv'
<1>1. ASSUME NEW k \in Slots, clients'[k] # Null
      PROVE  TalkNext(k)
  <2>1. Seat(k) /\ clients'[k] = clients[k] /\ clients'[k].con = Conn(k) /\ Conn(k) \in Conns
    BY <1>1, SeatFacts DEF Seat, Conn
  <2>2. TalkOrLeft(clients[k], Known(k), phase[Conn(k)], inbox[Conn(k)], outbox[Conn(k)])
    BY <2>1 DEF TalkInv
  <2>3. (accounts'[clients'[k].name] # NoAccount) = Known(k)
    BY DEF Known
  <2>4. TalkOrLeft(clients[k], Known(k), phase'[Conn(k)], inbox'[Conn(k)], outbox'[Conn(k)])
    <3>1. CASE Conn(k) = c
      BY <2>1, <3>1
    <3>2. CASE Conn(k) # c
      <4>1. /\ phase'[Conn(k)] = phase[Conn(k)] /\ inbox'[Conn(k)] = inbox[Conn(k)]
            /\ outbox'[Conn(k)] = outbox[Conn(k)]
        BY <2>1, <3>2
      <4>2. QED
        BY <2>2, <4>1
    <3>3. QED
      BY <3>1, <3>2
  <2>5. QED
    BY <2>1, <2>3, <2>4 DEF TalkNext
<1>2. \A d \in pending' : NamingOrLeft(UserOf[d], phase'[d], inbox'[d], outbox'[d])
  BY ServerTypes DEF TalkInv
<1>3. \A d \in Conns : \/ d \in pending' \/ \E k \in Slots : clients'[k] # Null /\ clients'[k].con = d
                       \/ phase'[d] = "outside" /\ inbox'[d] = <<>> /\ outbox'[d] = <<>>
  BY DEF TalkInv, Seat, Conn
<1>4. at = "announce" =>
         \/ Left(phase'[Conn(cur)], inbox'[Conn(cur)])
         \/ clients[cur].expecting = "READY_TO_PLAY"
         \/ /\ clients[cur].expecting = "NEWPASSWORD"
            /\ Stuck(Known(cur), phase'[Conn(cur)], inbox'[Conn(cur)], outbox'[Conn(cur)])
  <2>1. at = "announce" => Conn(cur) \in Conns
    BY SeatFacts, ServerTypes DEF IInv, CurInv
  <2>2. CASE Conn(cur) = c
    BY <2>2 DEF TalkInv
  <2>3. CASE Conn(cur) # c
    BY <2>1, <2>3 DEF TalkInv
  <2>4. QED
    BY <2>2, <2>3
<1>5. /\ readBuffer' = <<>> /\ (at' = "start" => startGame')
      /\ \A k \in Slots : clients'[k] # Null /\ clients'[k].expecting = "MOVEMENT" => startGame'
  BY DEF TalkInv, Seat
<1>6. at' = "announce" =>
         \/ Left(phase'[clients'[cur'].con], inbox'[clients'[cur'].con])
         \/ clients'[cur'].expecting = "READY_TO_PLAY"
         \/ /\ clients'[cur'].expecting = "NEWPASSWORD"
            /\ Stuck(accounts'[clients'[cur'].name] # NoAccount, phase'[clients'[cur'].con],
                     inbox'[clients'[cur'].con], outbox'[clients'[cur'].con])
  BY <1>4 DEF Known, Conn
<1>7. QED
  BY <1>1, <1>2, <1>3, <1>5, <1>6 DEF TalkInv, Seat, Conn, Known, TalkNext

\* The client c reads a message and goes to the phase p.
LEMMA ReadTalk ==
    ASSUME IInv, TalkInv, UNCHANGED <<clients, accounts, readBuffer, startGame, at, cur, pending, inbox>>,
           NEW c \in Conns, Got(c), phase[c] \notin {"outside", "naming", "gone"},
           NEW p, phase'[c] = p, \A d \in Conns \ {c} : phase'[d] = phase[d],
           \A k \in Slots : Seat(k) /\ Conn(k) = c =>
               Talk(clients[k], Known(k), p, inbox[c], Tail(outbox[c])),
           phase[c] = "typing" => p = "typing",
           phase[c] = "checked" => p = "typing" \/ outbox[c][1] = Yes
    PROVE  TalkInv'
<1>1. /\ outbox[c] # <<>> /\ outbox[c] \in Seq(ServerMessages) /\ outbox'[c] = Tail(outbox[c])
      /\ \A d \in Conns \ {c} : outbox'[d] = outbox[d] /\ inbox'[d] = inbox[d]
      /\ inbox'[c] = inbox[c]
  BY ServerTypes DEF Got
<1>2. c \notin pending
  BY <1>1 DEF TalkInv, NamingOrLeft, Naming, Left
<1>3. ASSUME NEW known, Stuck(known, phase[c], inbox[c], outbox[c])
      PROVE  Stuck(known, p, inbox[c], Tail(outbox[c]))
  <2>1. outbox[c][1] # Yes /\ NoTrue(Tail(outbox[c]))
    BY <1>1, <1>3, FirstRead DEF Stuck
  <2>2. QED
    BY <1>3, <2>1 DEF Stuck
<1>4. ~Left(phase[c], inbox[c])
  BY DEF Left
<1>5. \A k \in Slots : Seat(k) /\ Conn(k) = c =>
         TalkOrLeft(clients[k], Known(k), p, inbox[c], Tail(outbox[c]))
  BY DEF TalkOrLeft
<1>6. QED
  BY <1>1, <1>2, <1>3, <1>4, <1>5, OneClientTalk

\* The client c sends the message m and goes to the phase p.
LEMMA SendTalk ==
    ASSUME IInv, TalkInv, UNCHANGED <<clients, accounts, readBuffer, startGame, at, cur, pending, outbox>>,
           NEW c \in Conns, NEW m \in ClientMessages, Sent(c, m), inbox[c] = <<>>, NEW p,
           phase'[c] = p, \A d \in Conns \ {c} : phase'[d] = phase[d],
           \/ phase[c] = "naming" /\ m = StringMsg(UserOf[c]) /\ p = "asked"
           \/ phase[c] = "typing" /\ m.type = "STRING" /\ p = "checked"
           \/ phase[c] = "lobby" /\ m.type = "BOOLEAN" /\ p = "lobby"
    PROVE  TalkInv'
<1> DEFINE s == Append(inbox[c], m)
<1>1. Len(s) = 1 /\ s[1] = m /\ s # <<>>
  BY ServerTypes, Alone
<1>2. /\ inbox'[c] = s
      /\ \A d \in Conns \ {c} : inbox'[d] = inbox[d] /\ outbox'[d] = outbox[d]
      /\ outbox'[c] = outbox[c]
  BY DEF Sent
<1> HIDE DEF s
<1>7. ~Left(phase[c], inbox[c])
  BY DEF Left
<1>3. c \in pending => Naming(UserOf[c], p, s, outbox[c])
  <2>1. c \in pending => Naming(UserOf[c], phase[c], inbox[c], outbox[c])
    BY <1>7 DEF TalkInv, NamingOrLeft
  <2>2. QED
    BY <1>1, <2>1, NameSaid DEF Naming
<1>4. ASSUME NEW k \in Slots, Seat(k), Conn(k) = c
      PROVE  Talk(clients[k], Known(k), p, s, outbox[c])
  <2> DEFINE cl == clients[k]
             kn == Known(k)
             out == outbox[c]
             in == inbox[c]
             ph == phase[c]
  <2>1. cl \in ClientSet /\ cl.con = c /\ Talk(cl, kn, ph, in, out) /\ in = <<>>
    BY <1>4, <1>7, SeatFacts DEF TalkInv, TalkOrLeft, Conn
  <2> HIDE DEF cl, kn, out, in, ph
  <2>2. /\ ph = "naming" /\ s[1] = StringMsg(UserOf[cl.con]) => Talk(cl, kn, "asked", s, out)
        /\ ph = "typing" /\ s[1].type = "STRING" => Talk(cl, kn, "checked", s, out)
        /\ ph = "lobby" /\ s[1].type = "BOOLEAN" => Talk(cl, kn, ph, s, out)
    BY <1>1, <2>1, TalkSend
  <2>3. Talk(cl, kn, p, s, out)
    BY <1>1, <2>1, <2>2 DEF ph
  <2>4. QED
    BY <2>3 DEF cl, kn, out
<1>5. ASSUME NEW known, Stuck(known, phase[c], inbox[c], outbox[c])
      PROVE  Stuck(known, p, s, outbox[c])
  BY <1>1, <1>5 DEF Stuck, Holds
<1>6. /\ c \in pending => NamingOrLeft(UserOf[c], p, s, outbox[c])
      /\ \A k \in Slots : Seat(k) /\ Conn(k) = c => TalkOrLeft(clients[k], Known(k), p, s, outbox[c])
  BY <1>3, <1>4 DEF NamingOrLeft, TalkOrLeft
<1>8. c \in pending \/ phase[c] # "outside"
  OBVIOUS
<1>9. QED
  BY <1>2, <1>5, <1>6, <1>7, <1>8, OneClientTalk

\* The client c says goodbye and exits.
LEMMA QuitTalk ==
    ASSUME MaxBurst = 1, IInv, TalkInv, UNCHANGED serverVars, NEW c \in Conns, P!Quit(c)
    PROVE  TalkInv'
<1>1. UNCHANGED <<clients, accounts, readBuffer, startGame, at, cur>>
  BY DEF serverVars
<1>2. /\ phase[c] # "outside" /\ Len(inbox[c]) < MaxBurst /\ Goes(c, "gone") /\ Sent(c, Bye)
      /\ Bye \in ClientMessages /\ UNCHANGED <<pending, outbox>>
  BY QuitFacts, MessageTypes DEF Settled
<1>3. Len(inbox'[c]) = 1 /\ inbox'[c][1] = Bye
  <2>1. inbox[c] = <<>>
    BY <1>2, OneAtATime
  <2>2. QED
    BY <1>2, <2>1, ServerTypes, Alone DEF Sent
<1>4. Left(phase'[c], inbox'[c])
  BY <1>2, <1>3 DEF Left, Goes
<1>5. \A d \in Conns \ {c} : phase'[d] = phase[d] /\ inbox'[d] = inbox[d] /\ outbox'[d] = outbox[d]
  BY <1>2 DEF Goes, Sent
<1>6. QED
  BY <1>1, <1>2, <1>4, <1>5, OneClientTalk DEF NamingOrLeft, TalkOrLeft

LEMMA ConnectTalk ==
    ASSUME IInv, TalkInv, UNCHANGED serverVars, NEW c \in Conns, P!Connect(c)
    PROVE  TalkInv'
<1>1. /\ phase[c] = "outside" /\ Goes(c, "naming") /\ pending' = pending \cup {c}
      /\ UNCHANGED <<inbox, outbox, clients, accounts, readBuffer, startGame, at, cur>>
  BY ConnectFacts DEF serverVars
<1>2. \A k \in Slots : Seat(k) => Conn(k) \in Conns /\ Conn(k) # c
  BY <1>1, SeatFacts DEF IInv, SeatsInv
<1>3. c \notin pending
  BY <1>1 DEF IInv, SeatsInv
<1>4. NamingOrLeft(UserOf[c], "naming", inbox[c], outbox[c])
  BY <1>1, <1>2, <1>3 DEF TalkInv, Naming, NamingOrLeft
<1>5. \A k \in Slots : clients'[k] # Null => TalkNext(k)
  BY <1>1, <1>2 DEF TalkInv, TalkNext, Seat, Conn, Known, Goes
<1>6. \A d \in pending' : NamingOrLeft(UserOf[d], phase'[d], inbox'[d], outbox'[d])
  BY <1>1, <1>3, <1>4, ServerTypes DEF TalkInv, Goes
<1>7. \A d \in Conns : \/ d \in pending' \/ \E k \in Slots : clients'[k] # Null /\ clients'[k].con = d
                       \/ phase'[d] = "outside" /\ inbox'[d] = <<>> /\ outbox'[d] = <<>>
  BY <1>1 DEF TalkInv, Seat, Conn, Goes
<1>8. at = "announce" =>
         \/ Left(phase'[Conn(cur)], inbox'[Conn(cur)])
         \/ clients[cur].expecting = "READY_TO_PLAY"
         \/ /\ clients[cur].expecting = "NEWPASSWORD"
            /\ Stuck(Known(cur), phase'[Conn(cur)], inbox'[Conn(cur)], outbox'[Conn(cur)])
  <2>1. at = "announce" => Conn(cur) \in Conns /\ Conn(cur) # c
    BY <1>2, ServerTypes DEF IInv, CurInv
  <2>2. QED
    BY <1>1, <2>1 DEF TalkInv, Goes
<1>9. QED
  BY <1>1, <1>5, <1>6, <1>7, <1>8 DEF TalkInv, Seat, Conn, Known, TalkNext

LEMMA ClientTalk ==
    ASSUME MaxBurst = 1, IInv, TalkInv, UNCHANGED serverVars,
           NEW c \in Conns, P!Program(c) \/ P!Player(c)
    PROVE  TalkInv'
<1>1. UNCHANGED <<clients, accounts, readBuffer, startGame, at, cur>>
  BY DEF serverVars
<1> DEFINE ph == phase[c]
           in == inbox[c]
           out == outbox[c]
<1>2. ASSUME NEW p, Goes(c, p)
      PROVE  phase'[c] = p /\ \A d \in Conns \ {c} : phase'[d] = phase[d]
  BY <1>2 DEF Goes
<1>3. ASSUME NEW k \in Slots, Seat(k), Conn(k) = c, ph # "gone"
      PROVE  /\ Talk(clients[k], Known(k), ph, in, out)
             /\ out # <<>> =>
                  /\ ph = "asked" => Talk(clients[k], Known(k), "typing", in, Tail(out))
                  /\ ph = "checked" /\ out[1] = Yes => Talk(clients[k], Known(k), "lobby", in, Tail(out))
                  /\ ph = "checked" /\ out[1] # Yes => Talk(clients[k], Known(k), "typing", in, Tail(out))
                  /\ ph = "lobby" /\ out[1].type = "PLAYER" => Talk(clients[k], Known(k), ph, in, Tail(out))
                  /\ ph = "lobby" => out[1].type \in {"PLAYER", "BOOLEAN"}
                  /\ ph = "lobby" /\ out[1].type = "BOOLEAN"
                        => Talk(clients[k], Known(k), "playing", in, Tail(out))
                  /\ ph = "playing" => out[1].type = "PLAYER" /\ Talk(clients[k], Known(k), ph, in, Tail(out))
  <2> DEFINE cl == clients[k]
             kn == Known(k)
  <2>1. cl \in ClientSet /\ Talk(cl, kn, ph, in, out) /\ out \in Seq(ServerMessages)
    BY <1>3, SeatFacts, ServerTypes DEF TalkInv, TalkOrLeft, Left
  <2> HIDE DEF cl, kn, ph, in, out
  <2>2. QED
    BY <2>1, TalkRead DEF cl, kn
\* A client in the lobby or the game is in the table.
<1>4. ph \in {"lobby", "playing"} => \E k \in Slots : Seat(k) /\ Conn(k) = c
  BY DEF TalkInv, NamingOrLeft, Naming, Left
<1>5. CASE P!SendName(c)
  <2>1. /\ ph = "naming" /\ Goes(c, "asked") /\ StringMsg(UserOf[c]) \in ClientMessages
        /\ Sent(c, StringMsg(UserOf[c])) /\ UNCHANGED <<pending, outbox>>
    BY <1>5, SendNameFacts, MessageTypes DEF Settled
  <2>2. in = <<>>
    <3>1. CASE c \in pending
      BY <2>1, <3>1 DEF TalkInv, NamingOrLeft, Naming, Left
    <3>2. ASSUME NEW k \in Slots, Seat(k), Conn(k) = c
          PROVE  in = <<>>
      <4>1. Talk(clients[k], Known(k), ph, in, out) /\ clients[k] \in ClientSet
        BY <1>3, <2>1, <3>2, SeatFacts
      <4>2. clients[k].expecting \in {"USER", "NEWPASSWORD", "PASSWORD", "READY_TO_PLAY", "MOVEMENT"}
        BY <4>1 DEF ClientSet
      <4> HIDE DEF ph, in, out
      <4>3. QED
        BY <2>1, <4>1, <4>2 DEF Talk, Naming, Asking, Stuck, Entered, Drawn
    <3>3. QED
      BY <2>1, <3>1, <3>2 DEF TalkInv
  <2>3. QED
    BY <1>1, <1>2, <2>1, <2>2, SendTalk
<1>6. ASSUME NEW p \in Passwords, P!SendPassword(c, p)
      PROVE  TalkInv'
  <2>1. /\ ph = "typing" /\ Len(in) < MaxBurst /\ Goes(c, "checked") /\ StringMsg(p) \in ClientMessages
        /\ Sent(c, StringMsg(p)) /\ UNCHANGED <<pending, outbox>> /\ StringMsg(p).type = "STRING"
    BY <1>6, SendPasswordFacts, MessageTypes DEF StringMsg
  <2>2. in = <<>>
    BY <2>1, OneAtATime
  <2>3. QED
    BY <1>1, <1>2, <2>1, <2>2, SendTalk
<1>7. CASE P!PressKey(c)
  <2>1. ph = "lobby" /\ Len(in) < MaxBurst /\ UNCHANGED <<phase, pending, outbox>>
    BY <1>7, PressKeyFacts
  <2>2. PICK b \in BOOLEAN : Sent(c, BooleanMsg(b))
    BY <1>7, PressKeyFacts
  <2>3. BooleanMsg(b) \in ClientMessages /\ BooleanMsg(b).type = "BOOLEAN"
    BY MessageTypes DEF BooleanMsg
  <2>4. in = <<>>
    BY <2>1, <2>2, <2>3, OneAtATime
  <2>5. QED
    BY <1>1, <2>1, <2>2, <2>3, <2>4, SendTalk
<1>8. CASE P!ReadNameAnswer(c)
  <2>1. ph = "asked" /\ Goes(c, "typing") /\ Got(c) /\ UNCHANGED <<pending, inbox>> /\ out # <<>>
    BY <1>8, ReadNameAnswerFacts DEF Settled, Got
  <2>2. QED
    BY <1>1, <1>2, <1>3, <2>1, ReadTalk
<1>9. CASE P!ReadPasswordAnswer(c)
  <2>1. /\ ph = "checked" /\ Got(c) /\ UNCHANGED <<pending, inbox>> /\ out # <<>>
        /\ Goes(c, IF out[1] = Yes THEN "lobby" ELSE "typing")
    BY <1>9, ReadPasswordAnswerFacts DEF Settled, Got, Yes
  <2>2. CASE out[1] = Yes
    <3>1. Goes(c, "lobby")
      BY <2>1, <2>2
    <3>2. QED
      BY <1>1, <1>2, <1>3, <2>1, <2>2, <3>1, ReadTalk
  <2>3. CASE out[1] # Yes
    <3>1. Goes(c, "typing")
      BY <2>1, <2>3
    <3>2. QED
      BY <1>1, <1>2, <1>3, <2>1, <2>3, <3>1, ReadTalk
  <2>4. QED
    BY <2>2, <2>3
<1>10. CASE P!ReadPlayer(c)
  <2>1. ph = "lobby" /\ Got(c) /\ out[1].type = "PLAYER" /\ UNCHANGED <<phase, pending, inbox>> /\ out # <<>>
    BY <1>10, ReadPlayerFacts DEF Got
  <2>2. QED
    BY <1>1, <1>3, <2>1, ReadTalk
<1>11. ~P!ReadPlayerLeft(c)
  <2> SUFFICES ASSUME P!ReadPlayerLeft(c)
               PROVE  FALSE
    OBVIOUS
  <2>1. ph = "lobby" /\ out[1].type = "STRING" /\ out # <<>>
    BY ReadPlayerLeftFacts DEF Got
  <2>2. QED
    BY <1>3, <1>4, <2>1
<1>12. CASE P!ReadGameStart(c)
  <2>1. /\ ph = "lobby" /\ Got(c) /\ out[1].type = "BOOLEAN" /\ Goes(c, "playing")
        /\ UNCHANGED <<pending, inbox>> /\ out # <<>>
    BY <1>12, ReadGameStartFacts DEF Settled, Got
  <2>2. QED
    BY <1>1, <1>2, <1>3, <2>1, ReadTalk
<1>13. CASE P!ReadInGame(c)
  <2>1. ph = "playing" /\ Got(c) /\ out # <<>> /\ UNCHANGED pending
    BY <1>13, ReadInGameFacts DEF Settled, Got
  <2>2. out[1].type # "BOOLEAN"
    BY <1>3, <1>4, <2>1
  <2>3. UNCHANGED <<phase, inbox>>
    BY <1>13, <2>2, ReadInGameFacts
  <2>4. QED
    BY <1>1, <1>3, <2>1, <2>3, ReadTalk
<1>14. QED
  BY <1>5, <1>6, <1>7, <1>8, <1>9, <1>10, <1>11, <1>12, <1>13, ConnectTalk, QuitTalk DEF P!Program, P!Player

LEMMA InitTalk == Init => TalkInv
<1> SUFFICES ASSUME Init
             PROVE  TalkInv
  OBVIOUS
<1>1. /\ readBuffer = <<>> /\ at = "select" /\ pending = {} /\ \A k \in Slots : ~Seat(k)
      /\ \A c \in Conns : phase[c] = "outside" /\ inbox[c] = <<>> /\ outbox[c] = <<>>
  BY SameWire DEF Init, S!Init, P!Init, Seat
<1>2. QED
  BY <1>1 DEF TalkInv

\* The dialogues go on as they are meant to until the server clears a slot.
LEMMA StepTalk ==
    ASSUME MaxBurst = 1, IInv, TalkInv, [Next]_vars
    PROVE  TalkInv' \/ (S!Disconnect /\ UNCHANGED clientVars)
<1>1. CASE ServerStep
  BY <1>1, ServerTalk DEF ServerStep
<1>2. CASE ClientStep
  BY <1>2, ClientTalk DEF ClientStep, P!Next
<1>3. CASE UNCHANGED vars
  BY <1>3, StillTalk DEF vars, serverVars, clientVars
<1>4. QED
  BY <1>1, <1>2, <1>3 DEF Next

\* freed tells that a slot has been cleared, and is never taken back.
LEMMA FreedStays ==
    ASSUME [Next]_vars
    PROVE  /\ freed => freed'
           /\ S!Disconnect => freed'
<1>1. S!Disconnect => freed'
  BY DEF S!Disconnect
<1>2. S!Next => freed' \/ UNCHANGED freed
  BY DEF S!Next, S!Reader, S!Accepter, S!ListenToClients, S!ResolveUser, S!ResolvePassword,
     S!ResolveNewPassword, S!NotifyExistingPlayers, S!NotifyDone, S!ResolveReady, S!SendGameStart,
     S!ResolveMovement, S!Disconnect, S!AcceptClient
<1>3. QED
  BY <1>1, <1>2 DEF Next, ServerStep, ClientStep, vars, serverVars

\* Only a player who leaves is gone, while the game's BOOLEANs reach nobody but
\* the lobby.
LEMMA StepStays ==
    ASSUME IInv, TalkInv, [Next]_vars, NEW c \in Conns, phase'[c] = "gone"
    PROVE  phase[c] = "gone" \/ c \in Leavers
<1>1. CASE UNCHANGED phase
  BY <1>1
<1>2. ASSUME NEW d \in Conns, P!Program(d) \/ P!Player(d)
      PROVE  phase[c] = "gone" \/ c \in Leavers
  <2>1. ASSUME NEW p, Goes(d, p), p # "gone"
        PROVE  phase[c] = "gone"
    BY <2>1 DEF Goes
  <2>2. P!Quit(d) => phase[c] = "gone" \/ c \in Leavers
    BY QuitFacts DEF Goes
  <2>3. CASE P!ReadInGame(d)
    <3>1. /\ phase[d] = "playing" /\ outbox[d] # <<>> /\ outbox[d] \in Seq(ServerMessages)
          /\ outbox[d][1].type # "BOOLEAN" => UNCHANGED phase
      BY <2>3, ReadInGameFacts, ServerTypes DEF Got
    <3>2. PICK k \in Slots : Seat(k) /\ Conn(k) = d
      BY <3>1 DEF TalkInv, NamingOrLeft, Naming, Left
    <3>3. clients[k] \in ClientSet /\ Talk(clients[k], Known(k), phase[d], inbox[d], outbox[d])
      BY <3>1, <3>2, SeatFacts DEF TalkInv, TalkOrLeft, Left
    <3>4. outbox[d][1].type = "PLAYER"
      <4> DEFINE cl == clients[k]
                 kn == Known(k)
                 ph == phase[d]
                 in == inbox[d]
                 out == outbox[d]
      <4>1. cl \in ClientSet /\ Talk(cl, kn, ph, in, out) /\ out \in Seq(ServerMessages) /\ out # <<>>
            /\ ph = "playing"
        BY <3>1, <3>3
      <4> HIDE DEF cl, kn, ph, in, out
      <4>2. out[1].type = "PLAYER"
        BY <4>1, TalkRead
      <4>3. QED
        BY <4>2 DEF out
    <3>5. QED
      BY <1>1, <3>1, <3>4
  <2>4. P!Connect(d) => phase[c] = "gone"
    BY <2>1, ConnectFacts
  <2>5. P!SendName(d) => phase[c] = "gone"
    BY <2>1, SendNameFacts
  <2>6. P!ReadNameAnswer(d) => phase[c] = "gone"
    BY <2>1, ReadNameAnswerFacts
  <2>7. (\E p \in Passwords : P!SendPassword(d, p)) => phase[c] = "gone"
    BY <2>1, SendPasswordFacts
  <2>8. P!ReadPasswordAnswer(d) => phase[c] = "gone"
    <3>1. P!ReadPasswordAnswer(d) => Goes(d, "lobby") \/ Goes(d, "typing")
      BY ReadPasswordAnswerFacts
    <3>2. QED
      BY <2>1, <3>1
  <2>9. P!ReadPlayer(d) \/ P!PressKey(d) => UNCHANGED phase
    BY ReadPlayerFacts, PressKeyFacts
  <2>10. P!ReadPlayerLeft(d) => phase[c] = "gone"
    <3>1. P!ReadPlayerLeft(d) => Goes(d, "crashed") \/ UNCHANGED phase
      BY ReadPlayerLeftFacts
    <3>2. QED
      BY <1>1, <2>1, <3>1
  <2>11. P!ReadGameStart(d) => phase[c] = "gone"
    BY <2>1, ReadGameStartFacts
  <2>12. QED
    BY <1>1, <1>2, <2>2, <2>3, <2>4, <2>5, <2>6, <2>7, <2>8, <2>9, <2>10, <2>11 DEF P!Program, P!Player
<1>3. QED
  BY <1>1, <1>2 DEF Next, ServerStep, ClientStep, P!Next, vars, clientVars

\* No BOOLEAN that was meant for something else has started the game of a client.
LEMMA StartedTalk == IInv /\ TalkInv => ClientStartsWithServer
<1> SUFFICES ASSUME IInv, TalkInv, NEW c \in Conns, phase[c] = "playing"
             PROVE  startGame
  BY DEF ClientStartsWithServer
<1>1. PICK k \in Slots : Seat(k) /\ Conn(k) = c
  BY DEF TalkInv, NamingOrLeft, Naming, Left
<1>2. Talk(clients[k], Known(k), phase[c], inbox[c], outbox[c]) /\ clients[k] \in ClientSet
  BY <1>1, SeatFacts DEF TalkInv, TalkOrLeft, Left
<1>3. clients[k].expecting \in {"USER", "NEWPASSWORD", "PASSWORD", "READY_TO_PLAY", "MOVEMENT"}
  BY <1>2 DEF ClientSet
<1>4. clients[k].expecting = "MOVEMENT"
  BY <1>2, <1>3 DEF Talk, Naming, Asking, Stuck, Entered
<1>5. QED
  BY <1>1, <1>4 DEF TalkInv

\* No message that was meant for something else starts the game of a client,
\* until the server clears a slot for the first time, while no client sends with
\* a message of it unread (client.c:prepareLobby takes any BOOLEAN for the start).
THEOREM StartsUntilRemoval ==
    ASSUME MaxBurst = 1
    PROVE  Spec => [](freed \/ ClientStartsWithServer)
<1> DEFINE I == IInv /\ (freed \/ TalkInv)
<1>1. Init => I
  BY InitIInv, InitTalk
<1>2. I /\ [Next]_vars => I'
  BY StepIInv, StepTalk, FreedStays
<1>3. I => freed \/ ClientStartsWithServer
  BY StartedTalk
<1>4. QED
  BY <1>1, <1>2, <1>3, PTL DEF Spec

\* No slot is cleared and no client gone.
StayInv == ~freed /\ \A c \in Conns : phase[c] # "gone"

LEMMA StepStayInv ==
    ASSUME Leavers = {}, IInv, TalkInv, StayInv, [Next]_vars
    PROVE  ~S!Disconnect /\ StayInv'
<1>1. \A c \in Conns : phase'[c] # "gone"
  BY StepStays DEF StayInv
<1>2. ~S!Disconnect
  <2> SUFFICES ASSUME S!Disconnect
               PROVE  FALSE
    OBVIOUS
  <2>1. Took /\ S!Request = Bye
    BY DisconnectFacts
  <2>2. QED
    BY <2>1, TookTalk DEF StayInv, Took
<1>3. ~freed'
  BY <1>2 DEF StayInv, Next, ServerStep, ClientStep, vars, serverVars, S!Next, S!Reader, S!Accepter,
     S!ListenToClients, S!ResolveUser, S!ResolvePassword, S!ResolveNewPassword, S!NotifyExistingPlayers,
     S!NotifyDone, S!ResolveReady, S!SendGameStart, S!ResolveMovement, S!AcceptClient
<1>4. QED
  BY <1>1, <1>2, <1>3 DEF StayInv

LEMMA InitStayInv == Init => StayInv
BY DEF Init, S!Init, P!Init, StayInv

\* ... and never, while nobody leaves.
THEOREM StartsTogether ==
    ASSUME MaxBurst = 1, Leavers = {}
    PROVE  Spec => []ClientStartsWithServer
<1> DEFINE I == IInv /\ TalkInv /\ StayInv
<1>1. Init => I
  BY InitIInv, InitTalk, InitStayInv
<1>2. I /\ [Next]_vars => I'
  BY StepIInv, StepTalk, StepStayInv
<1>3. I => ClientStartsWithServer
  BY StartedTalk
<1>4. QED
  BY <1>1, <1>2, <1>3, PTL DEF Spec
-----------------------------------------------------------------------------
\* What the screens show, when every player has a name of its own as well.

\* The name of the client in slot k, written or not.
NamesOf(k) == {Unset, UserOf[Conn(k)]}

NamesInv == \A k \in Slots : Seat(k) => clients[k].name \in NamesOf(k)

\* What is said about a slot, or shown in it, is about its client.
MsgInv == \A c \in Conns : \A j \in 1 .. Len(outbox[c]) :
    outbox[c][j].type = "PLAYER" =>
        Seat(outbox[c][j].num) /\ outbox[c][j].name \in NamesOf(outbox[c][j].num)
EntryInv == \A c \in Conns, k \in Slots :
    players[c][k] # Null => Seat(k) /\ players[c][k].name \in NamesOf(k)

\* The message x is about the slot k.
On(x, k) == x.type = "PLAYER" /\ x.num = k

\* The last word about the slot of the announcement m, on its way or on the screen.
Shows(out, screen, m) ==
    \/ \E p \in 1 .. Len(out) : out[p] = m /\ \A q \in p + 1 .. Len(out) : ~On(out[q], m.num)
    \/ /\ \A q \in 1 .. Len(out) : ~On(out[q], m.num)
       /\ screen[m.num] = [name |-> m.name, ready |-> m.ready]

\* The clients that follow what happens in the lobby.
Tracked(c) == \/ phase[c] = "lobby"
              \/ \E k \in Slots : Seat(k) /\ Conn(k) = c /\ clients[k].expecting = "READY_TO_PLAY"

UpToDate(c, k) == \/ at = "announce" /\ Conn(cur) = c /\ next <= k
                  \/ Shows(outbox[c], players[c], About(k, clients[k]))

ShowInv == \A c \in Conns, k \in LoggedIn : Tracked(c) /\ Conn(k) # c => UpToDate(c, k)

ScreenInv == NamesInv /\ MsgInv /\ EntryInv /\ ShowInv

\* After one more message.
LEMMA ShowsMore ==
    ASSUME NEW out \in Seq(ServerMessages), NEW x \in ServerMessages, NEW screen, NEW m
    PROVE  /\ Shows(out, screen, m) /\ ~On(x, m.num) => Shows(Append(out, x), screen, m)
           /\ x = m => Shows(Append(out, x), screen, m)
<1> DEFINE t == Append(out, x)
<1>1. /\ Len(out) \in Nat /\ Len(t) = Len(out) + 1
      /\ \A j \in 1 .. Len(out) : t[j] = out[j]
      /\ t[Len(out) + 1] = x
  BY AppendFacts
<1> HIDE DEF t
<1>2. ASSUME Shows(out, screen, m), ~On(x, m.num)
      PROVE  Shows(t, screen, m)
  <2>1. ASSUME NEW p \in 1 .. Len(out), out[p] = m, \A q \in p + 1 .. Len(out) : ~On(out[q], m.num)
        PROVE  Shows(t, screen, m)
    <3>1. p \in 1 .. Len(t) /\ t[p] = m
      BY <1>1, <2>1
    <3>2. ASSUME NEW q \in p + 1 .. Len(t)
          PROVE  ~On(t[q], m.num)
      <4>1. q \in p + 1 .. Len(out) \/ q = Len(out) + 1
        BY <1>1
      <4>2. q \in p + 1 .. Len(out) => q \in 1 .. Len(out)
        BY <1>1
      <4>3. QED
        BY <1>1, <1>2, <2>1, <4>1, <4>2
    <3>3. QED
      BY <3>1, <3>2 DEF Shows
  <2>2. ASSUME \A q \in 1 .. Len(out) : ~On(out[q], m.num)
        PROVE  \A q \in 1 .. Len(t) : ~On(t[q], m.num)
    <3>1. ASSUME NEW q \in 1 .. Len(t)
          PROVE  ~On(t[q], m.num)
      <4>1. q \in 1 .. Len(out) \/ q = Len(out) + 1
        BY <1>1
      <4>2. QED
        BY <1>1, <1>2, <2>2, <4>1
    <3>2. QED
      BY <3>1
  <2>3. QED
    BY <1>2, <2>1, <2>2 DEF Shows
<1>3. ASSUME x = m
      PROVE  Shows(t, screen, m)
  <2>1. /\ Len(out) + 1 \in 1 .. Len(t) /\ t[Len(out) + 1] = m
        /\ \A q \in (Len(out) + 1) + 1 .. Len(t) : FALSE
    BY <1>1, <1>3
  <2>2. QED
    BY <2>1 DEF Shows
<1>4. QED
  BY <1>2, <1>3 DEF t

\* After the first message is read.
LEMMA ShowsRest ==
    ASSUME NEW out \in Seq(ServerMessages), out # <<>>, NEW screen, NEW new, NEW m, Shows(out, screen, m),
           ~On(out[1], m.num) /\ screen[m.num] = [name |-> m.name, ready |-> m.ready]
               => new[m.num] = screen[m.num],
           out[1] = m => new[m.num] = [name |-> m.name, ready |-> m.ready],
           On(m, m.num)
    PROVE  Shows(Tail(out), new, m)
<1> DEFINE t == Tail(out)
<1>1. /\ Len(out) \in Nat /\ 1 \in 1 .. Len(out) /\ Len(t) = Len(out) - 1 /\ Len(t) \in Nat
      /\ \A j \in 1 .. Len(t) : j + 1 \in 2 .. Len(out) /\ t[j] = out[j + 1]
  BY TailFacts, EmptyFacts
<1> HIDE DEF t
<1>2. ASSUME NEW p \in 1 .. Len(out), out[p] = m, \A q \in p + 1 .. Len(out) : ~On(out[q], m.num)
      PROVE  Shows(t, new, m)
  <2>1. CASE p = 1
    <3>1. \A q \in 1 .. Len(t) : ~On(t[q], m.num)
      BY <1>1, <1>2, <2>1
    <3>2. QED
      BY <1>2, <2>1, <3>1 DEF Shows
  <2>2. CASE p # 1
    <3>1. p - 1 \in 1 .. Len(t) /\ t[p - 1] = m
      BY <1>1, <1>2, <2>2
    <3>2. \A q \in (p - 1) + 1 .. Len(t) : ~On(t[q], m.num)
      BY <1>1, <1>2, <2>2
    <3>3. QED
      BY <3>1, <3>2 DEF Shows
  <2>3. QED
    BY <2>1, <2>2
<1>3. ASSUME \A q \in 1 .. Len(out) : ~On(out[q], m.num),
             screen[m.num] = [name |-> m.name, ready |-> m.ready]
      PROVE  Shows(t, new, m)
  <2>1. \A q \in 1 .. Len(t) : ~On(t[q], m.num)
    BY <1>1, <1>3
  <2>2. new[m.num] = [name |-> m.name, ready |-> m.ready]
    BY <1>1, <1>3
  <2>3. QED
    BY <2>1, <2>2 DEF Shows
<1>4. QED
  BY <1>2, <1>3 DEF Shows, t

LEMMA AboutOn ==
    ASSUME NEW k \in Slots, NEW cl
    PROVE  /\ About(k, cl).num = k /\ About(k, cl).name = cl.name
           /\ About(k, cl).ready = (cl.state = "READY_PLAY")
           /\ About(k, cl).type = "PLAYER" /\ On(About(k, cl), k)
           /\ \A j : On(About(k, cl), j) <=> j = k
BY DEF About, PlayerMsg, On

\* Whoever follows the lobby is told about the others.
LEMMA TrackedFacts ==
    ASSUME IInv, TalkInv, NEW c \in Conns, Tracked(c)
    PROVE  c \in Lobbyists
<1>1. ASSUME NEW k \in Slots, Seat(k), Conn(k) = c, clients[k].expecting \in {"READY_TO_PLAY", "MOVEMENT"}
      PROVE  c \in Lobbyists
  <2>1. clients[k].state # "LOGGING"
    BY <1>1 DEF IInv, StateInv
  <2>2. QED
    BY <1>1, <2>1 DEF Lobbyists
<1>2. CASE phase[c] = "lobby"
  <2>1. PICK k \in Slots : Seat(k) /\ Conn(k) = c
    BY <1>2 DEF TalkInv, NamingOrLeft, Naming, Left
  <2>2. Talk(clients[k], Known(k), phase[c], inbox[c], outbox[c]) /\ clients[k] \in ClientSet
    BY <1>2, <2>1, SeatFacts DEF TalkInv, TalkOrLeft, Left
  <2>3. clients[k].expecting \in {"USER", "NEWPASSWORD", "PASSWORD", "READY_TO_PLAY", "MOVEMENT"}
    BY <2>2 DEF ClientSet
  <2>4. clients[k].expecting \in {"READY_TO_PLAY", "MOVEMENT"}
    BY <1>2, <2>2, <2>3 DEF Talk, Naming, Asking, Stuck
  <2>5. QED
    BY <1>1, <2>1, <2>4
<1>3. QED
  BY <1>1, <1>2 DEF Tracked

\* A table that only grows keeps the names.
Grows == \A k \in Slots : Seat(k) => clients'[k] # Null /\ clients'[k].con = Conn(k)

LEMMA MsgNext ==
    ASSUME IInv, MsgInv, Grows,
           \A c \in Conns : \/ outbox'[c] = outbox[c]
                            \/ \E x \in ServerMessages :
                                  /\ outbox'[c] = Append(outbox[c], x)
                                  /\ x.type = "PLAYER" => /\ clients'[x.num] # Null
                                                          /\ x.name \in {Unset, UserOf[clients'[x.num].con]}
    PROVE  MsgInv'
<1>1. ASSUME NEW c \in Conns, NEW j \in 1 .. Len(outbox'[c]), outbox'[c][j].type = "PLAYER"
      PROVE  /\ clients'[outbox'[c][j].num] # Null
             /\ outbox'[c][j].name \in {Unset, UserOf[clients'[outbox'[c][j].num].con]}
  <2>1. outbox[c] \in Seq(ServerMessages)
    BY ServerTypes
  <2>2. ASSUME j \in 1 .. Len(outbox[c]), outbox'[c][j] = outbox[c][j]
        PROVE  /\ clients'[outbox'[c][j].num] # Null
               /\ outbox'[c][j].name \in {Unset, UserOf[clients'[outbox'[c][j].num].con]}
    <3>1. outbox[c][j] \in ServerMessages
      BY <2>1, <2>2, EmptyFacts
    <3>2. outbox[c][j].num \in Slots
      BY <1>1, <2>2, <3>1, ServerMessageFacts
    <3>3. QED
      BY <1>1, <2>2, <3>2 DEF MsgInv, Grows, NamesOf
  <2>3. ASSUME NEW x \in ServerMessages, outbox'[c] = Append(outbox[c], x),
               x.type = "PLAYER" => /\ clients'[x.num] # Null
                                    /\ x.name \in {Unset, UserOf[clients'[x.num].con]}
        PROVE  /\ clients'[outbox'[c][j].num] # Null
               /\ outbox'[c][j].name \in {Unset, UserOf[clients'[outbox'[c][j].num].con]}
    <3>1. \/ j \in 1 .. Len(outbox[c]) /\ outbox'[c][j] = outbox[c][j]
          \/ outbox'[c][j] = x
      BY <1>1, <2>1, <2>3, AppendFacts
    <3>2. QED
      BY <1>1, <2>2, <2>3, <3>1
  <2>4. QED
    BY <1>1, <2>2, <2>3
<1>2. QED
  BY <1>1 DEF MsgInv, Seat, NamesOf, Conn

LEMMA EntryNext ==
    ASSUME IInv, EntryInv, Grows, UNCHANGED players
    PROVE  EntryInv'
BY DEF EntryInv, Grows, NamesOf, Seat, Conn

\* Every player goes by a name of its own.
Distinct == \A c, d \in Conns : UserOf[c] = UserOf[d] => c = d

LEMMA LoggedInFacts ==
    ASSUME OwnInv, NEW k \in LoggedIn
    PROVE  /\ k \in Slots /\ Seat(k) /\ clients[k] \in ClientSet /\ Conn(k) \in Conns
           /\ clients[k].expecting = "READY_TO_PLAY" /\ clients[k].name = UserOf[Conn(k)]
           /\ clients[k].name \in Texts /\ clients[k].name # Unset
<1>1. k \in Slots /\ Seat(k) /\ clients[k].state \in {"WAITING", "READY_PLAY"}
  BY DEF LoggedIn, Seat
<1>2. clients[k] \in ClientSet /\ Conn(k) \in Conns
  BY <1>1, SeatFacts DEF OwnInv
<1>3. clients[k].expecting = "READY_TO_PLAY"
  BY <1>1 DEF OwnInv, IInv, StateInv
<1>4. clients[k].name = UserOf[Conn(k)]
  BY <1>1, <1>3 DEF OwnInv, AccountInv, Owner, Conn
<1>5. QED
  BY <1>1, <1>2, <1>3, <1>4, UserOfAssumption, UnsetAssumption DEF Texts

\* The parts of a step of the server that concern no particular client.
LEMMA ServerScreen ==
    ASSUME IInv, ScreenInv, UNCHANGED <<phase, players>>, Grows,
           \A k \in Slots : clients'[k] # Null => clients'[k].name \in {Unset, UserOf[clients'[k].con]},
           \A c \in Conns : \/ outbox'[c] = outbox[c]
                            \/ \E x \in ServerMessages :
                                  /\ outbox'[c] = Append(outbox[c], x)
                                  /\ x.type = "PLAYER" => /\ clients'[x.num] # Null
                                                          /\ x.name \in {Unset, UserOf[clients'[x.num].con]},
           \A c \in Conns, k \in Slots :
               /\ clients'[k] # Null /\ clients'[k].state \in {"WAITING", "READY_PLAY"} /\ clients'[k].con # c
               /\ \/ phase[c] = "lobby"
                  \/ \E j \in Slots : /\ clients'[j] # Null /\ clients'[j].con = c
                                      /\ clients'[j].expecting = "READY_TO_PLAY"
               => \/ at' = "announce" /\ clients'[cur'].con = c /\ next' <= k
                  \/ Shows(outbox'[c], players[c], About(k, clients'[k]))
    PROVE  ScreenInv'
<1>1. NamesInv'
  BY DEF NamesInv, Seat, NamesOf, Conn
<1>2. MsgInv'
  BY MsgNext DEF ScreenInv
<1>3. EntryInv'
  BY EntryNext DEF ScreenInv
<1>4. ShowInv'
  BY DEF ShowInv, LoggedIn, Tracked, UpToDate, Seat, Conn
<1>5. QED
  BY <1>1, <1>2, <1>3, <1>4 DEF ScreenInv

\* A handler that gives the client in slot cur the value cl.
LEMMA HandlerScreen ==
    ASSUME OwnInv, TalkInv, ScreenInv, Took, UNCHANGED <<phase, players>>,
           NEW cl, Becomes(cur, cl), cl # Null, cl.con = Conn(cur),
           cl.name \in {Unset, UserOf[Conn(cur)]},
           \/ outbox'[Conn(cur)] = outbox[Conn(cur)]
           \/ \E b \in BOOLEAN : outbox'[Conn(cur)] = Append(outbox[Conn(cur)], BooleanMsg(b)),
           \/ /\ \A c \in Conns \ {Conn(cur)} : outbox'[c] = outbox[c]
              /\ cl = clients[cur] \/ cl.state \notin {"WAITING", "READY_PLAY"}
           \/ \A c \in Conns \ {Conn(cur)} :
                  outbox'[c] = IF c \in Lobbyists THEN Append(outbox[c], About(cur, cl)) ELSE outbox[c],
           cl.expecting = "READY_TO_PLAY" => \/ clients[cur].expecting = "READY_TO_PLAY"
                                             \/ at' = "announce" /\ cur' = cur /\ next' = 0
    PROVE  ScreenInv'
<1> DEFINE me == Conn(cur)
<1>1. /\ IInv /\ cur \in Slots /\ Seat(cur) /\ me \in Conns /\ at = "read" /\ clients'[cur] = cl
      /\ \A k \in Slots \ {cur} : clients'[k] = clients[k]
  BY DEF OwnInv, Took, Becomes
<1>2. cl \in ClientSet /\ About(cur, cl) \in ServerMessages /\ clients[cur] \in ClientSet
  <2>1. cl \in ClientSet /\ clients[cur] \in ClientSet
    BY <1>1, SeatFacts DEF Becomes
  <2>2. QED
    BY <1>1, <2>1, AboutFacts
<1>3. outbox \in [Conns -> Seq(ServerMessages)]
  BY <1>1, ServerTypes
<1>4. Grows
  BY <1>1 DEF Grows, Seat, Conn
<1>5. \A k \in Slots : clients'[k] # Null => clients'[k].name \in {Unset, UserOf[clients'[k].con]}
  BY <1>1 DEF ScreenInv, NamesInv, NamesOf, Seat, Conn
<1>6. \A b \in BOOLEAN : /\ BooleanMsg(b) \in ServerMessages /\ BooleanMsg(b).type # "PLAYER"
                         /\ \A k : ~On(BooleanMsg(b), k)
  BY MessageTypes DEF BooleanMsg, On
<1>7. ASSUME NEW c \in Conns
      PROVE  \/ outbox'[c] = outbox[c]
             \/ \E x \in ServerMessages :
                   /\ outbox'[c] = Append(outbox[c], x)
                   /\ x.type = "PLAYER" => /\ clients'[x.num] # Null
                                           /\ x.name \in {Unset, UserOf[clients'[x.num].con]}
  <2>1. CASE c = me
    BY <1>6, <2>1
  <2>2. CASE c # me
    <3>1. outbox'[c] = outbox[c] \/ outbox'[c] = Append(outbox[c], About(cur, cl))
      BY <2>2
    <3>2. About(cur, cl).num = cur /\ About(cur, cl).name = cl.name
      BY <1>1, AboutOn
    <3>3. /\ clients'[About(cur, cl).num] # Null
          /\ About(cur, cl).name \in {Unset, UserOf[clients'[About(cur, cl).num].con]}
      BY <1>1, <3>2
    <3>4. QED
      BY <1>2, <3>1, <3>3
  <2>3. QED
    BY <2>1, <2>2
<1>8. ASSUME NEW c \in Conns, NEW k \in Slots,
             clients'[k] # Null, clients'[k].state \in {"WAITING", "READY_PLAY"}, clients'[k].con # c,
             \/ phase[c] = "lobby"
             \/ \E j \in Slots : /\ clients'[j] # Null /\ clients'[j].con = c
                                 /\ clients'[j].expecting = "READY_TO_PLAY"
      PROVE  \/ at' = "announce" /\ clients'[cur'].con = c /\ next' <= k
             \/ Shows(outbox'[c], players[c], About(k, clients'[k]))
  <2> DEFINE m == About(k, clients'[k])
  <2>1. \/ Tracked(c)
        \/ c = me /\ at' = "announce" /\ cur' = cur /\ next' = 0
    <3>1. ASSUME NEW j \in Slots, clients'[j] # Null, clients'[j].con = c,
                 clients'[j].expecting = "READY_TO_PLAY"
          PROVE  Tracked(c) \/ (c = me /\ at' = "announce" /\ cur' = cur /\ next' = 0)
      <4>1. CASE j = cur
        BY <1>1, <3>1, <4>1 DEF Tracked, Conn, Seat
      <4>2. CASE j # cur
        BY <1>1, <3>1, <4>2 DEF Tracked, Conn, Seat
      <4>3. QED
        BY <4>1, <4>2
    <3>2. QED
      BY <1>8, <3>1 DEF Tracked
  <2>2. CASE c = me /\ at' = "announce" /\ cur' = cur /\ next' = 0
    BY <1>1, <2>2 DEF Slots
  <2>3. ASSUME Tracked(c), k # cur
        PROVE  Shows(outbox'[c], players[c], m)
    <3>1. clients'[k] = clients[k] /\ k \in LoggedIn /\ Conn(k) # c
      BY <1>1, <1>8, <2>3 DEF LoggedIn, Conn
    <3>2. Shows(outbox[c], players[c], m)
      BY <1>1, <2>3, <3>1 DEF ScreenInv, ShowInv, UpToDate
    <3>3. m.num = k /\ ~On(About(cur, cl), k)
      BY <1>1, <2>3, AboutOn
    <3>4. outbox[c] \in Seq(ServerMessages)
      BY <1>3
    <3> HIDE DEF m
    <3>5. CASE c = me
      BY <1>6, <3>2, <3>3, <3>4, <3>5, ShowsMore
    <3>6. CASE c # me
      BY <1>2, <3>2, <3>3, <3>4, <3>6, ShowsMore
    <3>7. QED
      BY <3>5, <3>6
  <2>4. ASSUME Tracked(c), k = cur
        PROVE  Shows(outbox'[c], players[c], m)
    <3>1. c # me /\ m = About(cur, cl) /\ outbox[c] \in Seq(ServerMessages)
      BY <1>1, <1>3, <1>8, <2>4
    <3>2. c \in Lobbyists
      BY <1>1, <2>4, TrackedFacts
    <3>3. CASE outbox'[c] = Append(outbox[c], About(cur, cl))
      <4> HIDE DEF m
      <4>1. QED
        BY <1>2, <3>1, <3>3, ShowsMore
    <3>4. CASE outbox'[c] = outbox[c] /\ cl = clients[cur]
      <4>1. cur \in LoggedIn /\ Conn(cur) # c
        BY <1>1, <1>8, <2>4, <3>4 DEF LoggedIn, Conn
      <4>2. Shows(outbox[c], players[c], m)
        BY <1>1, <2>4, <3>1, <3>4, <4>1 DEF ScreenInv, ShowInv, UpToDate
      <4>3. QED
        BY <3>4, <4>2
    <3>5. cl.state \in {"WAITING", "READY_PLAY"}
      BY <1>1, <1>8, <2>4
    <3>6. QED
      BY <3>1, <3>2, <3>3, <3>4, <3>5
  <2>5. QED
    BY <2>1, <2>2, <2>3, <2>4
<1>9. QED
  BY <1>1, <1>4, <1>5, <1>7, <1>8, ServerScreen

\* The client of slot cur keeps what it was, and the others hear nothing new.
LEMMA SameScreen ==
    ASSUME OwnInv, TalkInv, ScreenInv, Took, S!Request # Bye, UNCHANGED <<phase, players, clients>>,
           UNCHANGED outbox \/ \E b \in BOOLEAN : Sends({Conn(cur)}, BooleanMsg(b))
    PROVE  ScreenInv'
<1>1. /\ Becomes(cur, clients[cur]) /\ clients[cur] # Null /\ clients[cur].con = Conn(cur)
      /\ cur \in Slots /\ Seat(cur) /\ Conn(cur) \in Conns
  BY HandlerFacts DEF OwnInv
<1>2. clients[cur].name \in {Unset, UserOf[Conn(cur)]}
  BY <1>1 DEF ScreenInv, NamesInv, NamesOf
<1>3. \/ outbox'[Conn(cur)] = outbox[Conn(cur)]
      \/ \E b \in BOOLEAN : outbox'[Conn(cur)] = Append(outbox[Conn(cur)], BooleanMsg(b))
  BY <1>1 DEF Sends
<1>4. \A c \in Conns \ {Conn(cur)} : outbox'[c] = outbox[c]
  BY DEF Sends
<1> DEFINE cl == clients[cur]
<1>5. cl = clients[cur] /\ Becomes(cur, cl) /\ cl # Null /\ cl.con = Conn(cur)
       /\ cl.name \in {Unset, UserOf[Conn(cur)]}
  BY <1>1, <1>2
<1> HIDE DEF cl
<1>6. QED
  BY <1>3, <1>4, <1>5, HandlerScreen

\* The client has logged in: it is answered, the others are told.
LEMMA EnteredScreen ==
    ASSUME OwnInv, TalkInv, ScreenInv, Took, S!Request # Bye, UNCHANGED <<phase, players>>,
           at' = "announce", cur' = cur, next' = 0,
           Becomes(cur, Renewed(clients[cur].name, "WAITING", "READY_TO_PLAY")),
           Answers(Conn(cur), BooleanMsg(TRUE), Lobbyists, PlayerMsg(cur, clients[cur].name, FALSE))
    PROVE  ScreenInv'
<1> DEFINE cl == Renewed(clients[cur].name, "WAITING", "READY_TO_PLAY")
<1>1. cur \in Slots /\ Seat(cur) /\ Conn(cur) \in Conns /\ clients[cur].name \in Texts \cup {Unset}
  BY HandlerFacts DEF OwnInv
<1>2. clients[cur].name \in {Unset, UserOf[Conn(cur)]}
  BY <1>1 DEF ScreenInv, NamesInv, NamesOf
<1>3. cl # Null
  BY <1>1, RenewedFacts DEF Renewal
<1>4. cl.con = Conn(cur) /\ cl.name = clients[cur].name /\ cl.state = "WAITING"
  BY DEF Renewed, Conn
<1>5. About(cur, cl) = PlayerMsg(cur, clients[cur].name, FALSE)
  BY <1>4 DEF About
<1> HIDE DEF cl
<1>6. outbox'[Conn(cur)] = Append(outbox[Conn(cur)], BooleanMsg(TRUE))
  BY <1>1 DEF Answers
<1>7. \A c \in Conns \ {Conn(cur)} :
          outbox'[c] = IF c \in Lobbyists THEN Append(outbox[c], About(cur, cl)) ELSE outbox[c]
  BY <1>5 DEF Answers
<1>8. QED
  BY <1>2, <1>3, <1>4, <1>6, <1>7, HandlerScreen DEF cl

LEMMA UserScreen ==
    ASSUME OwnInv, OwnInv', TalkInv, ScreenInv, S!ResolveUser, UNCHANGED <<phase, players>>
    PROVE  ScreenInv'
<1>1. IInv /\ Took /\ S!Request # Bye /\ clients[cur].expecting = "USER"
  BY UserFacts DEF OwnInv
<1>2. CASE S!Request.type # "STRING"
  BY <1>1, <1>2, UserFacts, SameScreen
<1>3. CASE S!Request.type = "STRING"
  <2> DEFINE known == accounts[S!Request.text] # NoAccount
             e == IF known THEN "PASSWORD" ELSE "NEWPASSWORD"
             cl == Renewed(S!Request.text, clients[cur].state, e)
  <2>1. /\ S!Request.text \in Texts /\ Becomes(cur, cl) /\ Sends({Conn(cur)}, BooleanMsg(known))
        /\ cur \in Slots /\ Seat(cur) /\ Conn(cur) \in Conns /\ clients[cur] \in ClientSet
    BY <1>1, <1>3, UserFacts, HandlerFacts
  <2>2. e \in {"PASSWORD", "NEWPASSWORD"} /\ known \in BOOLEAN
    OBVIOUS
  <2>3. cl.con = Conn(cur) /\ cl.expecting = e /\ cl.state = clients[cur].state
    BY DEF Renewed, Conn
  <2>4. clients[cur].state = "LOGGING"
    BY <1>1, <2>1 DEF IInv, StateInv, ClientSet
  <2> HIDE DEF e, known
  <2>5. cl # Null
    BY <1>1, <2>1, <2>2, <2>4, RenewedFacts DEF Renewal
  <2> HIDE DEF cl
  <2>6. clients'[cur] = cl
    BY <2>1 DEF Becomes
  <2>7. cl.name = UserOf[Conn(cur)]
    BY <2>1, <2>2, <2>3, <2>5, <2>6 DEF OwnInv, AccountInv, Seat, Owner
  <2>8. outbox'[Conn(cur)] = Append(outbox[Conn(cur)], BooleanMsg(known))
    BY <2>1 DEF Sends
  <2>9. \A c \in Conns \ {Conn(cur)} : outbox'[c] = outbox[c]
    BY <2>1 DEF Sends
  <2>10. QED
    BY <1>1, <2>1, <2>2, <2>3, <2>4, <2>5, <2>7, <2>8, <2>9, HandlerScreen
<1>4. QED
  BY <1>2, <1>3

LEMMA PasswordScreen ==
    ASSUME OwnInv, TalkInv, ScreenInv, S!ResolvePassword, UNCHANGED <<phase, players>>
    PROVE  ScreenInv'
<1>1. IInv /\ Took /\ S!Request # Bye /\ next' = 0
  BY PasswordFacts DEF OwnInv
<1>2. CASE UNCHANGED clients /\ Sends({Conn(cur)}, BooleanMsg(FALSE))
  BY <1>1, <1>2, SameScreen
<1>3. CASE /\ at' = "announce" /\ cur' = cur
           /\ Becomes(cur, Renewed(clients[cur].name, "WAITING", "READY_TO_PLAY"))
           /\ Answers(Conn(cur), BooleanMsg(TRUE), Lobbyists, PlayerMsg(cur, clients[cur].name, FALSE))
  BY <1>1, <1>3, EnteredScreen
<1>4. QED
  BY <1>1, <1>2, <1>3, PasswordFacts

LEMMA NewPasswordScreen ==
    ASSUME OwnInv, TalkInv, ScreenInv, S!ResolveNewPassword, UNCHANGED <<phase, players>>
    PROVE  ScreenInv'
<1>1. IInv /\ Took /\ S!Request # Bye /\ next' = 0 /\ clients[cur].expecting = "NEWPASSWORD"
  BY NewPasswordFacts DEF OwnInv
<1>2. CASE UNCHANGED <<clients, outbox>>
  BY <1>1, <1>2, SameScreen
<1>3. CASE UNCHANGED clients /\ Answers(Conn(cur), BooleanMsg(FALSE), Lobbyists, About(cur, clients[cur]))
  <2>1. /\ Becomes(cur, clients[cur]) /\ clients[cur] # Null /\ clients[cur].con = Conn(cur)
        /\ cur \in Slots /\ Seat(cur) /\ Conn(cur) \in Conns
    BY <1>1, <1>3, HandlerFacts
  <2>2. clients[cur].name \in {Unset, UserOf[Conn(cur)]}
    BY <2>1 DEF ScreenInv, NamesInv, NamesOf
  <2> DEFINE cl == clients[cur]
  <2>3. /\ Becomes(cur, cl) /\ cl # Null /\ cl.con = Conn(cur) /\ cl.name \in {Unset, UserOf[Conn(cur)]}
        /\ cl.expecting = "NEWPASSWORD"
        /\ outbox'[Conn(cur)] = Append(outbox[Conn(cur)], BooleanMsg(FALSE))
        /\ \A c \in Conns \ {Conn(cur)} :
               outbox'[c] = IF c \in Lobbyists THEN Append(outbox[c], About(cur, cl)) ELSE outbox[c]
    BY <1>1, <1>3, <2>1, <2>2 DEF Answers
  <2> HIDE DEF cl
  <2>4. QED
    BY <1>1, <2>3, HandlerScreen
<1>4. CASE /\ at' = "announce" /\ cur' = cur
           /\ Becomes(cur, Renewed(clients[cur].name, "WAITING", "READY_TO_PLAY"))
           /\ Answers(Conn(cur), BooleanMsg(TRUE), Lobbyists, PlayerMsg(cur, clients[cur].name, FALSE))
  BY <1>1, <1>4, EnteredScreen
<1>5. QED
  BY <1>1, <1>2, <1>3, <1>4, NewPasswordFacts

LEMMA ReadyScreen ==
    ASSUME OwnInv, TalkInv, ScreenInv, S!ResolveReady, UNCHANGED <<phase, players>>
    PROVE  ScreenInv'
<1>1. IInv /\ Took /\ S!Request # Bye /\ clients[cur].expecting = "READY_TO_PLAY"
  BY ReadyFacts DEF OwnInv
<1>2. CASE UNCHANGED <<clients, outbox>>
  BY <1>1, <1>2, SameScreen
<1>3. CASE /\ S!Request.flag \in BOOLEAN
           /\ Becomes(cur, Renewed(clients[cur].name, S!Word(S!Request.flag), "READY_TO_PLAY"))
           /\ Sends(Lobbyists \ {Conn(cur)}, PlayerMsg(cur, clients[cur].name, S!Request.flag))
  <2> DEFINE cl == Renewed(clients[cur].name, S!Word(S!Request.flag), "READY_TO_PLAY")
  <2>1. cur \in Slots /\ Seat(cur) /\ Conn(cur) \in Conns /\ clients[cur].name \in Texts \cup {Unset}
    BY <1>1, HandlerFacts
  <2>2. clients[cur].name \in {Unset, UserOf[Conn(cur)]}
    BY <2>1 DEF ScreenInv, NamesInv, NamesOf
  <2>3. cl # Null
    BY <1>1, <2>1, RenewedFacts DEF Renewal, S!Word
  <2>4. /\ cl.con = Conn(cur) /\ cl.name = clients[cur].name
        /\ (cl.state = "READY_PLAY") = S!Request.flag
    BY <1>3 DEF Renewed, Conn, S!Word
  <2>5. Becomes(cur, cl)
    BY <1>3
  <2> HIDE DEF cl
  <2>6. About(cur, cl) = PlayerMsg(cur, clients[cur].name, S!Request.flag)
    BY <2>4 DEF About
  <2>7. /\ outbox'[Conn(cur)] = outbox[Conn(cur)]
        /\ \A c \in Conns \ {Conn(cur)} :
               outbox'[c] = IF c \in Lobbyists THEN Append(outbox[c], About(cur, cl)) ELSE outbox[c]
    BY <1>3, <2>1, <2>6 DEF Sends
  <2>8. QED
    BY <1>1, <2>2, <2>3, <2>4, <2>5, <2>7, HandlerScreen
<1>4. QED
  BY <1>1, <1>2, <1>3, ReadyFacts

LEMMA MovementScreen ==
    ASSUME OwnInv, TalkInv, ScreenInv, S!ResolveMovement, UNCHANGED <<phase, players>>
    PROVE  ScreenInv'
<1>1. Took /\ S!Request # Bye /\ UNCHANGED <<clients, outbox>>
  BY MovementFacts DEF OwnInv
<1>2. QED
  BY <1>1, SameScreen

LEMMA AcceptScreen ==
    ASSUME OwnInv, ScreenInv, NEW c \in Conns, NEW k \in Slots, S!AcceptClient(c, k),
           UNCHANGED <<phase, players>>
    PROVE  ScreenInv'
<1>1. /\ IInv /\ ~Seat(k) /\ Becomes(k, Newcomer(c)) /\ UNCHANGED <<at, cur, next, outbox>>
  BY AcceptFacts DEF OwnInv
<1>2. /\ clients'[k] = Newcomer(c) /\ \A j \in Slots \ {k} : clients'[j] = clients[j]
      /\ \A j \in Slots : Seat(j) => j # k
  BY <1>1 DEF Becomes
<1>3. Newcomer(c).name = Unset /\ Newcomer(c).state = "LOGGING" /\ Newcomer(c).expecting = "USER"
  BY DEF Newcomer
<1>4. Grows
  BY <1>2 DEF Grows, Seat, Conn
<1>5. \A j \in Slots : clients'[j] # Null => clients'[j].name \in {Unset, UserOf[clients'[j].con]}
  BY <1>2, <1>3 DEF ScreenInv, NamesInv, NamesOf, Seat, Conn
<1>6. ASSUME NEW d \in Conns, NEW j \in Slots,
             clients'[j] # Null, clients'[j].state \in {"WAITING", "READY_PLAY"}, clients'[j].con # d,
             \/ phase[d] = "lobby"
             \/ \E i \in Slots : /\ clients'[i] # Null /\ clients'[i].con = d
                                 /\ clients'[i].expecting = "READY_TO_PLAY"
      PROVE  \/ at' = "announce" /\ clients'[cur'].con = d /\ next' <= j
             \/ Shows(outbox'[d], players[d], About(j, clients'[j]))
  <2>1. clients'[j] = clients[j] /\ j \in LoggedIn /\ Conn(j) # d
    BY <1>2, <1>3, <1>6 DEF LoggedIn, Conn
  <2>2. Tracked(d)
    BY <1>2, <1>3, <1>6 DEF Tracked, Seat, Conn
  <2>3. UpToDate(d, j)
    BY <2>1, <2>2 DEF ScreenInv, ShowInv
  <2>4. at = "announce" => clients'[cur] = clients[cur]
    BY <1>1, <1>2, ServerTypes DEF IInv, CurInv
  <2>5. QED
    BY <1>1, <2>1, <2>3, <2>4 DEF UpToDate, Conn
<1>7. QED
  BY <1>1, <1>4, <1>5, <1>6, ServerScreen

\* The table and the queues stay, and no announcements are left out.
LEMMA StillScreen ==
    ASSUME IInv, ScreenInv, UNCHANGED <<phase, players, clients, outbox>>,
           \/ UNCHANGED <<at, cur, next>>
           \/ at # "announce"
           \/ next = MaxPlayers
    PROVE  ScreenInv'
<1>1. Grows
  BY DEF Grows, Seat, Conn
<1>2. \A j \in Slots : clients'[j] # Null => clients'[j].name \in {Unset, UserOf[clients'[j].con]}
  BY DEF ScreenInv, NamesInv, NamesOf, Seat, Conn
<1>3. ASSUME NEW d \in Conns, NEW j \in Slots,
             clients'[j] # Null, clients'[j].state \in {"WAITING", "READY_PLAY"}, clients'[j].con # d,
             \/ phase[d] = "lobby"
             \/ \E i \in Slots : /\ clients'[i] # Null /\ clients'[i].con = d
                                 /\ clients'[i].expecting = "READY_TO_PLAY"
      PROVE  \/ at' = "announce" /\ clients'[cur'].con = d /\ next' <= j
             \/ Shows(outbox'[d], players[d], About(j, clients'[j]))
  <2>1. j \in LoggedIn /\ Conn(j) # d /\ Tracked(d)
    BY <1>3 DEF LoggedIn, Conn, Tracked, Seat
  <2>2. UpToDate(d, j)
    BY <2>1 DEF ScreenInv, ShowInv
  <2>3. j < MaxPlayers
    BY MaxPlayersAssumption DEF Slots
  <2>4. next = MaxPlayers => ~(next <= j)
    BY <2>3, MaxPlayersAssumption DEF Slots
  <2>5. QED
    BY <2>2, <2>4 DEF UpToDate, Conn
<1>4. QED
  BY <1>1, <1>2, <1>3, ServerScreen

LEMMA NotifyScreen ==
    ASSUME OwnInv, ScreenInv, S!NotifyExistingPlayers, UNCHANGED <<phase, players>>
    PROVE  ScreenInv'
<1>1. /\ IInv /\ at = "announce" /\ next \in Slots /\ next' = next + 1
      /\ cur \in Slots /\ Seat(cur) /\ Conn(cur) \in Conns /\ UNCHANGED <<clients, at, cur>>
      /\ \/ ~Seat(next) /\ UNCHANGED outbox
         \/ Seat(next) /\ Sends({Conn(cur)}, About(next, clients[next]))
         \/ Seat(next) /\ clients[next].name = Unset /\ UNCHANGED outbox
  BY NotifyFacts DEF OwnInv
<1> DEFINE m == About(next, clients[next])
<1>2. m.num = next /\ m.name = clients[next].name /\ \A j \in Slots : On(m, j) <=> j = next
  <2>1. m.num = next /\ m.name = clients[next].name
    BY DEF About, PlayerMsg
  <2>2. \A j \in Slots : On(m, j) <=> j = next
    BY <1>1, AboutOn
  <2>3. QED
    BY <2>1, <2>2
<1>3. Seat(next) => m \in ServerMessages /\ m.name \in {Unset, UserOf[clients[next].con]}
  <2>1. Seat(next) => m \in ServerMessages
    BY <1>1, SeatFacts, AboutFacts
  <2>2. Seat(next) => clients[next].name \in {Unset, UserOf[clients[next].con]}
    BY <1>1 DEF ScreenInv, NamesInv, NamesOf, Conn
  <2>3. QED
    BY <1>2, <2>1, <2>2
<1> HIDE DEF m
<1>4. Grows
  BY <1>1 DEF Grows, Seat, Conn
<1>5. \A j \in Slots : clients'[j] # Null => clients'[j].name \in {Unset, UserOf[clients'[j].con]}
  BY <1>1 DEF ScreenInv, NamesInv, NamesOf, Seat, Conn
<1>6. \A d \in Conns : outbox'[d] = outbox[d] \/ (Seat(next) /\ outbox'[d] = Append(outbox[d], m))
  BY <1>1 DEF Sends, m
<1>7. \A d \in Conns : \/ outbox'[d] = outbox[d]
                       \/ \E x \in ServerMessages :
                             /\ outbox'[d] = Append(outbox[d], x)
                             /\ x.type = "PLAYER" => /\ clients'[x.num] # Null
                                                     /\ x.name \in {Unset, UserOf[clients'[x.num].con]}
  BY <1>1, <1>2, <1>3, <1>6 DEF Seat
<1>8. ASSUME NEW d \in Conns, NEW j \in Slots,
             clients'[j] # Null, clients'[j].state \in {"WAITING", "READY_PLAY"}, clients'[j].con # d,
             \/ phase[d] = "lobby"
             \/ \E i \in Slots : /\ clients'[i] # Null /\ clients'[i].con = d
                                 /\ clients'[i].expecting = "READY_TO_PLAY"
      PROVE  \/ at' = "announce" /\ clients'[cur'].con = d /\ next' <= j
             \/ Shows(outbox'[d], players[d], About(j, clients'[j]))
  <2>1. j \in LoggedIn /\ Conn(j) # d /\ Tracked(d)
    BY <1>1, <1>8 DEF LoggedIn, Conn, Tracked, Seat
  <2>2. UpToDate(d, j)
    BY <2>1 DEF ScreenInv, ShowInv
  <2>3. clients[j].name # Unset /\ Seat(j)
    BY <2>1, LoggedInFacts
  <2> DEFINE a == About(j, clients[j])
  <2>4. a.num = j /\ outbox[d] \in Seq(ServerMessages)
    BY <1>1, AboutOn, ServerTypes
  <2>5. ASSUME Shows(outbox[d], players[d], a)
        PROVE  Shows(outbox'[d], players[d], a)
    <3>1. CASE outbox'[d] = outbox[d]
      BY <2>5, <3>1
    <3>2. CASE Seat(next) /\ outbox'[d] = Append(outbox[d], m)
      <4>1. j # next => ~On(m, a.num)
        BY <1>2, <2>4
      <4>2. j = next => m = a
        BY DEF m
      <4> HIDE DEF a
      <4>3. QED
        BY <1>3, <2>4, <2>5, <3>2, <4>1, <4>2, ShowsMore
    <3>3. QED
      BY <1>6, <3>1, <3>2
  <2>6. ASSUME Conn(cur) = d, next <= j
        PROVE  next' <= j \/ Shows(outbox'[d], players[d], a)
    <3>1. CASE next = j
      <4>1. outbox'[d] = Append(outbox[d], m) /\ m = a /\ m \in ServerMessages
        BY <1>1, <1>3, <2>3, <2>6, <3>1 DEF Sends, m
      <4> HIDE DEF a
      <4>2. QED
        BY <2>4, <4>1, ShowsMore
    <3>2. CASE next # j
      BY <1>1, <2>6, <3>2 DEF Slots
    <3>3. QED
      BY <3>1, <3>2
  <2>7. QED
    BY <1>1, <2>2, <2>5, <2>6 DEF UpToDate, Conn
<1>9. QED
  BY <1>1, <1>4, <1>5, <1>7, <1>8, ServerScreen

LEMMA GameStartScreen ==
    ASSUME OwnInv, ScreenInv, S!SendGameStart, UNCHANGED <<phase, players>>
    PROVE  ScreenInv'
<1>1. /\ IInv /\ \A k \in Slots : clients'[k] = IF Seat(k) THEN Playing(k) ELSE Null
      /\ Sends(Members, BooleanMsg(TRUE)) /\ clients' \in [Slots -> ClientSet \cup {Null}]
  BY GameStartFacts DEF OwnInv
<1>2. \A k \in Slots : Playing(k).con = Conn(k) /\ Playing(k).name = clients[k].name
             /\ Playing(k).state = "PLAYING"
  BY DEF Playing
<1>3. \A k \in Slots : Seat(k) => Playing(k) # Null
  <2>1. ASSUME NEW k \in Slots, Seat(k)
        PROVE  Playing(k) \in ClientSet
    <3>1. clients[k] \in ClientSet
      BY <1>1, <2>1, SeatFacts
    <3>2. QED
      BY <3>1 DEF ClientSet, Playing, Conn
  <2>2. QED
    BY <2>1, NotNull
<1>4. Grows
  BY <1>1, <1>2, <1>3 DEF Grows
<1>5. \A j \in Slots : clients'[j] # Null => /\ clients'[j].name \in {Unset, UserOf[clients'[j].con]}
                                             /\ clients'[j].state = "PLAYING"
  BY <1>1, <1>2 DEF ScreenInv, NamesInv, NamesOf
<1>6. BooleanMsg(TRUE) \in ServerMessages /\ BooleanMsg(TRUE).type # "PLAYER"
  BY MessageTypes DEF BooleanMsg
<1>7. \A d \in Conns : \/ outbox'[d] = outbox[d]
                       \/ \E x \in ServerMessages :
                             /\ outbox'[d] = Append(outbox[d], x)
                             /\ x.type = "PLAYER" => /\ clients'[x.num] # Null
                                                     /\ x.name \in {Unset, UserOf[clients'[x.num].con]}
  BY <1>1, <1>6 DEF Sends
<1>8. \A j \in Slots : clients'[j] # Null => clients'[j].state \notin {"WAITING", "READY_PLAY"}
  BY <1>5
<1>9. QED
  BY <1>1, <1>4, <1>5, <1>7, <1>8, ServerScreen

LEMMA ServerStepScreen ==
    ASSUME OwnInv, OwnInv', TalkInv, ScreenInv, S!Next, UNCHANGED clientVars
    PROVE  S!Disconnect \/ ScreenInv'
<1>1. IInv /\ UNCHANGED <<phase, players>>
  BY DEF OwnInv, clientVars
<1>2. ASSUME NEW k \in Slots, S!ListenToClients(k)
      PROVE  ScreenInv'
  BY <1>1, <1>2, ListenFacts, StillScreen
<1>3. CASE S!NotifyDone
  BY <1>1, <1>3, NotifyDoneFacts, StillScreen
<1>4. QED
  BY <1>1, <1>2, <1>3, AcceptScreen, NotifyScreen, GameStartScreen, UserScreen, PasswordScreen,
     NewPasswordScreen, ReadyScreen, MovementScreen, SameWire
  DEF S!Next, S!Reader, S!Accepter

\* The client c reads its first message, or what it shows changes.
LEMMA OneClientScreen ==
    ASSUME OwnInv, ScreenInv, UNCHANGED serverVars, NEW c \in Conns,
           \A d \in Conns \ {c} : /\ phase'[d] = phase[d] \/ phase'[d] # "lobby"
                                  /\ outbox'[d] = outbox[d] /\ players'[d] = players[d],
           outbox'[c] = outbox[c] \/ (outbox[c] # <<>> /\ outbox'[c] = Tail(outbox[c])),
           \A k \in Slots : players'[c][k] # Null =>
               \/ players[c][k] # Null /\ players'[c][k].name = players[c][k].name
               \/ Seat(k) /\ players'[c][k].name \in NamesOf(k),
           \A k \in LoggedIn : Tracked(c)' /\ Conn(k) # c /\ UpToDate(c, k) =>
               \/ at = "announce" /\ Conn(cur) = c /\ next <= k
               \/ Shows(outbox'[c], players'[c], About(k, clients[k])),
           Tracked(c)' => Tracked(c)
    PROVE  ScreenInv'
<1>1. IInv /\ UNCHANGED <<clients, at, cur, next>> /\ outbox \in [Conns -> Seq(ServerMessages)]
  BY ServerTypes DEF OwnInv, serverVars
<1>2. NamesInv'
  BY <1>1 DEF ScreenInv, NamesInv, NamesOf, Seat, Conn
<1>3. \A d \in Conns : \A j \in 1 .. Len(outbox'[d]) : \E i \in 1 .. Len(outbox[d]) :
             outbox'[d][j] = outbox[d][i]
  <2>1. ASSUME NEW d \in Conns, outbox'[d] = outbox[d], NEW j \in 1 .. Len(outbox'[d])
        PROVE  \E i \in 1 .. Len(outbox[d]) : outbox'[d][j] = outbox[d][i]
    BY <2>1
  <2>2. ASSUME outbox[c] # <<>>, outbox'[c] = Tail(outbox[c]), NEW j \in 1 .. Len(outbox'[c])
        PROVE  \E i \in 1 .. Len(outbox[c]) : outbox'[c][j] = outbox[c][i]
    <3>1. j + 1 \in 2 .. Len(outbox[c]) /\ outbox'[c][j] = outbox[c][j + 1]
      BY <1>1, <2>2, TailFacts
    <3>2. j + 1 \in 1 .. Len(outbox[c])
      BY <1>1, <3>1, EmptyFacts
    <3>3. QED
      BY <3>1, <3>2
  <2>3. QED
    BY <2>1, <2>2
<1>4. MsgInv'
  <2>1. \A d \in Conns : \A j \in 1 .. Len(outbox'[d]) :
            outbox'[d][j].type = "PLAYER" =>
                Seat(outbox'[d][j].num) /\ outbox'[d][j].name \in NamesOf(outbox'[d][j].num)
    BY <1>3 DEF ScreenInv, MsgInv
  <2>2. QED
    BY <1>1, <2>1 DEF MsgInv, Seat, NamesOf, Conn
<1>5. EntryInv'
  <2>1. \A d \in Conns, k \in Slots : players'[d][k] # Null => Seat(k) /\ players'[d][k].name \in NamesOf(k)
    BY DEF ScreenInv, EntryInv
  <2>2. QED
    BY <1>1, <2>1 DEF EntryInv, Seat, NamesOf, Conn
<1>6. ASSUME NEW d \in Conns, NEW k \in LoggedIn, Tracked(d)', Conn(k) # d
      PROVE  \/ at = "announce" /\ Conn(cur) = d /\ next <= k
             \/ Shows(outbox'[d], players'[d], About(k, clients[k]))
  <2>1. CASE d = c
    <3>1. UpToDate(c, k)
      BY <1>6, <2>1 DEF ScreenInv, ShowInv
    <3>2. QED
      BY <1>6, <2>1, <3>1
  <2>2. CASE d # c
    <3>1. Tracked(d)
      BY <1>1, <1>6, <2>2 DEF Tracked, Seat, Conn
    <3>2. UpToDate(d, k)
      BY <1>6, <3>1 DEF ScreenInv, ShowInv
    <3>3. QED
      BY <2>2, <3>2 DEF UpToDate
  <2>3. QED
    BY <2>1, <2>2
<1>7. ShowInv'
  BY <1>1, <1>6 DEF ShowInv, LoggedIn, UpToDate, Conn
<1>8. QED
  BY <1>2, <1>4, <1>5, <1>7 DEF ScreenInv

\* The queue and the screen of c stay.
LEMMA StillClientScreen ==
    ASSUME OwnInv, ScreenInv, UNCHANGED serverVars, NEW c \in Conns, UNCHANGED <<outbox, players>>,
           \A d \in Conns \ {c} : phase'[d] = phase[d], phase'[c] = "lobby" => phase[c] = "lobby"
    PROVE  ScreenInv'
<1>1. Tracked(c)' => Tracked(c)
  BY DEF Tracked, Seat, Conn, serverVars
<1>2. QED
  BY <1>1, OneClientScreen DEF UpToDate

\* The client c reads a message and shows what it showed.
LEMMA ReadScreen ==
    ASSUME OwnInv, ScreenInv, UNCHANGED serverVars, NEW c \in Conns, Got(c), UNCHANGED players,
           \A d \in Conns \ {c} : phase'[d] = phase[d],
           Tracked(c)' => Tracked(c) /\ outbox[c][1].type # "PLAYER"
    PROVE  ScreenInv'
<1>1. /\ outbox[c] \in Seq(ServerMessages) /\ outbox[c] # <<>> /\ outbox'[c] = Tail(outbox[c])
      /\ \A d \in Conns \ {c} : outbox'[d] = outbox[d]
  BY ServerTypes DEF OwnInv, Got
<1>2. ASSUME NEW k \in LoggedIn, Tracked(c)', Shows(outbox[c], players[c], About(k, clients[k]))
      PROVE  Shows(outbox'[c], players'[c], About(k, clients[k]))
  <2> DEFINE m == About(k, clients[k])
             new == players[c]
  <2>1. On(m, m.num) /\ m.type = "PLAYER"
    BY DEF About, PlayerMsg, On
  <2>2. ~On(outbox[c][1], m.num) /\ outbox[c][1] # m
    BY <1>2, <2>1 DEF On
  <2> HIDE DEF m, new
  <2>3. Shows(outbox[c], new, m)
    BY <1>2 DEF m, new
  <2>4. Shows(Tail(outbox[c]), new, m)
    BY <1>1, <2>1, <2>2, <2>3, ShowsRest
  <2>5. QED
    BY <1>1, <2>4 DEF m, new
<1>3. QED
  BY <1>1, <1>2, OneClientScreen DEF UpToDate

\* A client the server waits for to be ready is in the lobby, or about to be.
LEMMA SeatedTalk ==
    ASSUME IInv, TalkInv, NEW k \in Slots, Seat(k), clients[k].expecting = "READY_TO_PLAY",
           phase[Conn(k)] # "gone"
    PROVE  Entered(clients[k].state, phase[Conn(k)], inbox[Conn(k)], outbox[Conn(k)])
BY DEF TalkInv, TalkOrLeft, Talk, Left

\* The only names that a screen shows twice are the unwritten ones.
LEMMA NameSlot ==
    ASSUME Distinct, IInv, NEW j \in Slots, NEW c \in Conns, Seat(j), UserOf[c] \in NamesOf(j)
    PROVE  Conn(j) = c
<1>1. Conn(j) \in Conns /\ UserOf[c] # Unset
  BY SeatFacts, UserOfAssumption, UnsetAssumption DEF Texts
<1>2. QED
  BY <1>1 DEF NamesOf, Distinct

LEMMA PressKeyScreen ==
    ASSUME Distinct, OwnInv, ScreenInv, UNCHANGED serverVars, NEW c \in Conns, P!PressKey(c)
    PROVE  ScreenInv'
<1>1. IInv /\ UNCHANGED <<phase, outbox>>
  BY PressKeyFacts DEF OwnInv
<1>2. CASE UNCHANGED players
  BY <1>1, <1>2, StillClientScreen
<1>3. ASSUME NEW j \in Slots, NEW r \in BOOLEAN, players[c][j] # Null, players[c][j].name = UserOf[c],
             Screen(c, [players[c] EXCEPT ![j] = Marked(players[c][j], r)])
      PROVE  ScreenInv'
  <2>1. Seat(j) /\ UserOf[c] \in NamesOf(j)
    BY <1>3 DEF ScreenInv, EntryInv
  <2>2. Conn(j) = c
    BY <1>1, <2>1, NameSlot
  <2>3. players[c] \in [Slots -> Entries \cup {Null}]
    BY <1>1, ClientTypes DEF Entries
  <2>4. /\ \A k \in Slots \ {j} : players'[c][k] = players[c][k]
        /\ players'[c][j] = Marked(players[c][j], r)
        /\ \A d \in Conns \ {c} : players'[d] = players[d]
    BY <1>3, <2>3 DEF Screen
  <2>5. Marked(players[c][j], r).name = UserOf[c]
    BY <1>3 DEF Marked
  <2>6. \A k \in Slots : players'[c][k] # Null =>
            \/ players[c][k] # Null /\ players'[c][k].name = players[c][k].name
            \/ Seat(k) /\ players'[c][k].name \in NamesOf(k)
    BY <2>1, <2>4, <2>5
  <2>7. ASSUME NEW k \in LoggedIn, Conn(k) # c, Shows(outbox[c], players[c], About(k, clients[k]))
        PROVE  Shows(outbox'[c], players'[c], About(k, clients[k]))
    <3>1. k \in Slots \ {j}
      BY <2>2, <2>7 DEF LoggedIn
    <3>2. players'[c][k] = players[c][k] /\ About(k, clients[k]).num = k /\ outbox'[c] = outbox[c]
      BY <1>1, <2>4, <3>1 DEF About, PlayerMsg
    <3>3. QED
      BY <2>7, <3>2 DEF Shows
  <2>8. Tracked(c)' => Tracked(c)
    BY <1>1 DEF Tracked, Seat, Conn, serverVars
  <2>9. QED
    BY <1>1, <2>4, <2>6, <2>7, <2>8, OneClientScreen DEF UpToDate
<1>4. QED
  BY <1>2, <1>3, PressKeyFacts DEF OwnInv

LEMMA ReadPlayerScreen ==
    ASSUME Distinct, OwnInv, ScreenInv, UNCHANGED serverVars, NEW c \in Conns, P!ReadPlayer(c)
    PROVE  ScreenInv'
<1> DEFINE x == outbox[c][1]
           e == [name |-> x.name, ready |-> x.ready]
<1>1. /\ IInv /\ UNCHANGED phase /\ Got(c) /\ x.type = "PLAYER" /\ x.num \in Slots
      /\ \/ /\ \A j \in Slots : players[c][j] # Null => players[c][j].name # x.name
            /\ Screen(c, [players[c] EXCEPT ![x.num] = e])
         \/ \E j \in Slots : /\ players[c][j] # Null /\ players[c][j].name = x.name
                             /\ Screen(c, [players[c] EXCEPT ![j] = e])
  BY ReadPlayerFacts DEF OwnInv
<1>2. /\ outbox[c] \in Seq(ServerMessages) /\ outbox[c] # <<>> /\ outbox'[c] = Tail(outbox[c])
      /\ \A d \in Conns \ {c} : outbox'[d] = outbox[d]
      /\ players[c] \in [Slots -> Entries \cup {Null}]
      /\ x \in ServerMessages
  BY <1>1, ServerTypes, ClientTypes DEF Got, Entries
<1>3. Seat(x.num) /\ x.name \in NamesOf(x.num)
  BY <1>1, <1>2, EmptyFacts DEF ScreenInv, MsgInv
\* The slot whose entry changes.
<1>4. PICK w \in Slots : /\ players'[c][w] = e
                         /\ \A k \in Slots \ {w} : players'[c][k] = players[c][k]
                         /\ \/ w = x.num /\ \A j \in Slots : players[c][j] # Null => players[c][j].name # x.name
                            \/ players[c][w] # Null /\ players[c][w].name = x.name
  <2> HIDE DEF e, x
  <2>1. CASE /\ \A j \in Slots : players[c][j] # Null => players[c][j].name # x.name
             /\ Screen(c, [players[c] EXCEPT ![x.num] = e])
    BY <1>1, <1>2, <2>1 DEF Screen
  <2>2. ASSUME NEW j \in Slots, players[c][j] # Null, players[c][j].name = x.name,
               Screen(c, [players[c] EXCEPT ![j] = e])
        PROVE  \E w \in Slots : /\ players'[c][w] = e
                                /\ \A k \in Slots \ {w} : players'[c][k] = players[c][k]
                                /\ players[c][w] # Null /\ players[c][w].name = x.name
    BY <1>2, <2>2 DEF Screen
  <2>3. QED
    BY <1>1, <2>1, <2>2
<1>5. \A d \in Conns \ {c} : players'[d] = players[d]
  BY <1>1 DEF Screen
<1>6. e.name = x.name
  OBVIOUS
<1>7. \A k \in Slots : players'[c][k] # Null =>
          \/ players[c][k] # Null /\ players'[c][k].name = players[c][k].name
          \/ Seat(k) /\ players'[c][k].name \in NamesOf(k)
  <2> HIDE DEF e, x
  <2>1. QED
    BY <1>3, <1>4, <1>6
<1>8. ASSUME NEW k \in LoggedIn, Shows(outbox[c], players[c], About(k, clients[k]))
      PROVE  Shows(outbox'[c], players'[c], About(k, clients[k]))
  <2> DEFINE m == About(k, clients[k])
             old == players[c]
             new == players'[c]
  <2>1. /\ k \in Slots /\ Seat(k) /\ Conn(k) \in Conns /\ clients[k].name = UserOf[Conn(k)]
        /\ clients[k].name # Unset
    BY LoggedInFacts
  <2>2. /\ On(m, m.num) /\ m.num = k /\ m.name = clients[k].name
    BY DEF About, PlayerMsg, On
\* Whoever goes by this name is in slot k.
  <2>3. \A j \in Slots : Seat(j) /\ m.name \in NamesOf(j) => j = k
    BY <1>1, <2>1, <2>2, NameSlot DEF IInv, SeatsInv
  <2>4. \A j \in Slots : old[j] # Null /\ old[j].name = m.name => j = k
    BY <2>3 DEF ScreenInv, EntryInv
  <2>5. Shows(outbox[c], old, m)
    BY <1>8
  <2>6. ASSUME ~On(x, m.num), old[m.num] = [name |-> m.name, ready |-> m.ready]
        PROVE  new[m.num] = old[m.num]
    <3>1. x.num # k
      BY <1>1, <2>2, <2>6 DEF On
    <3>2. x.name # m.name
      BY <1>1, <1>3, <2>3, <3>1
    <3>3. old[k].name = m.name
      <4> HIDE DEF old, m
      <4>1. QED
        BY <2>2, <2>6
    <3>4. w # k
      BY <1>4, <3>1, <3>2, <3>3
    <3>5. QED
      BY <1>4, <2>1, <2>2, <3>4
  <2>7. ASSUME x = m
        PROVE  new[m.num] = [name |-> m.name, ready |-> m.ready]
    <3>1. w = k
      BY <1>4, <2>2, <2>4, <2>7
    <3>2. QED
      BY <1>4, <2>2, <2>7, <3>1
  <2>8. outbox[c][1] = x
    OBVIOUS
  <2> HIDE DEF m, old, new, x, e
  <2>9. Shows(Tail(outbox[c]), new, m)
    BY <1>2, <2>2, <2>5, <2>6, <2>7, <2>8, ShowsRest
  <2>10. QED
    BY <1>2, <2>9 DEF m, new
<1>9. Tracked(c)' => Tracked(c)
  BY <1>1 DEF Tracked, Seat, Conn, serverVars
<1> HIDE DEF x, e
<1>10. QED
  BY <1>1, <1>2, <1>5, <1>7, <1>8, <1>9, OneClientScreen DEF UpToDate

\* The login dialogue tells nothing about others.
LEMMA AnswerScreen ==
    ASSUME OwnInv, TalkInv, ScreenInv, UNCHANGED serverVars, NEW c \in Conns, P!ReadPasswordAnswer(c)
    PROVE  ScreenInv'
<1> DEFINE out == outbox[c]
<1>1. /\ IInv /\ phase[c] = "checked" /\ Got(c) /\ UNCHANGED players
      /\ Goes(c, IF out[1] = Yes THEN "lobby" ELSE "typing")
      /\ out # <<>> /\ out \in Seq(ServerMessages)
  BY ReadPasswordAnswerFacts, ServerTypes DEF OwnInv, Settled, Yes, Got
<1>2. phase'[c] = "lobby" => out[1] = Yes
  BY <1>1 DEF Goes
<1>3. \A d \in Conns \ {c} : phase'[d] = phase[d]
  BY <1>1 DEF Goes
<1>4. PICK k \in Slots : Seat(k) /\ Conn(k) = c
  BY <1>1 DEF TalkInv, NamingOrLeft, Naming, Left
<1>5. Talk(clients[k], Known(k), phase[c], inbox[c], out) /\ clients[k] \in ClientSet
  BY <1>1, <1>4, SeatFacts DEF TalkInv, TalkOrLeft, Left
<1>6. clients[k].expecting \in {"USER", "NEWPASSWORD", "PASSWORD", "READY_TO_PLAY", "MOVEMENT"}
  BY <1>5 DEF ClientSet
<1> HIDE DEF out
<1>7. ASSUME out[1] = Yes
      PROVE  clients[k].expecting = "READY_TO_PLAY"
  <2>1. ~OnlyPlayers(out) /\ ~NoTrue(out) /\ out[1] # No /\ Yes.type = "BOOLEAN"
    BY <1>1, <1>7, YesNo, FirstRead
  <2>2. clients[k].expecting # "PASSWORD" /\ clients[k].expecting # "USER"
    BY <1>1, <1>5, <2>1 DEF Talk, Naming, Asking
  <2>3. clients[k].expecting # "NEWPASSWORD"
    BY <1>1, <1>5, <2>1 DEF Talk, Asking, Stuck
  <2>4. clients[k].expecting # "MOVEMENT"
    BY <1>1, <1>5, <2>1 DEF Talk, Drawn
  <2>5. QED
    BY <1>6, <2>2, <2>3, <2>4
<1>8. ASSUME NEW j \in Slots, Seat(j), Conn(j) = c, clients[j].expecting = "READY_TO_PLAY"
      PROVE  out[1] = Yes
  <2>1. Entered(clients[j].state, phase[c], inbox[c], out)
    BY <1>1, <1>8, SeatedTalk DEF out
  <2>2. QED
    BY <1>1, <2>1 DEF Entered, AnswerThenPlayers
<1>9. ASSUME Tracked(c)'
      PROVE  Tracked(c) /\ out[1] = Yes
  <2>1. CASE phase'[c] = "lobby"
    BY <1>2, <1>4, <1>7, <2>1 DEF Tracked
  <2>2. ASSUME NEW j \in Slots, Seat(j), Conn(j) = c, clients[j].expecting = "READY_TO_PLAY"
        PROVE  Tracked(c) /\ out[1] = Yes
    BY <1>8, <2>2 DEF Tracked
  <2>3. QED
    BY <1>9, <2>1, <2>2 DEF Tracked, Seat, Conn, serverVars
<1>10. Tracked(c)' => Tracked(c) /\ outbox[c][1].type # "PLAYER"
  BY <1>9, YesNo DEF out
<1>11. QED
  BY <1>1, <1>3, <1>10, ReadScreen

\* The client c reads what ends its time in the lobby, or was never in it.
LEMMA UntrackedScreen ==
    ASSUME OwnInv, TalkInv, ScreenInv, UNCHANGED serverVars, NEW c \in Conns, Got(c), UNCHANGED players,
           \A d \in Conns \ {c} : phase'[d] = phase[d], phase'[c] # "lobby",
           \/ phase[c] \notin {"checked", "lobby", "gone"}
           \/ phase[c] = "lobby" /\ outbox[c][1].type # "PLAYER"
    PROVE  ScreenInv'
<1>1. IInv /\ outbox[c] # <<>> /\ outbox[c] \in Seq(ServerMessages)
  BY ServerTypes DEF OwnInv, Got
<1>2. ASSUME NEW j \in Slots, Seat(j), Conn(j) = c, clients[j].expecting = "READY_TO_PLAY"
      PROVE  FALSE
  <2>1. Entered(clients[j].state, phase[c], inbox[c], outbox[c])
    BY <1>1, <1>2, SeatedTalk
  <2> DEFINE out == outbox[c]
  <2>2. OnlyPlayers(out) => out[1].type = "PLAYER"
    BY <1>1, FirstRead
  <2>3. QED
    BY <2>1, <2>2 DEF Entered
<1>3. ~Tracked(c)'
  BY <1>2 DEF Tracked, Seat, Conn, serverVars
<1>4. QED
  BY <1>3, ReadScreen

LEMMA ClientStepScreen ==
    ASSUME Distinct, OwnInv, TalkInv, ScreenInv, UNCHANGED serverVars,
           NEW c \in Conns, P!Program(c) \/ P!Player(c)
    PROVE  ScreenInv'
<1>1. IInv
  BY DEF OwnInv
<1>2. ASSUME NEW p, Goes(c, p)
      PROVE  phase'[c] = p /\ \A d \in Conns \ {c} : phase'[d] = phase[d]
  BY <1>2 DEF Goes
<1>3. CASE P!Connect(c)
  BY <1>1, <1>2, <1>3, ConnectFacts, StillClientScreen
<1>4. CASE P!SendName(c)
  BY <1>1, <1>2, <1>4, SendNameFacts, StillClientScreen DEF Settled
<1>5. ASSUME NEW p \in Passwords, P!SendPassword(c, p)
      PROVE  ScreenInv'
  BY <1>1, <1>2, <1>5, SendPasswordFacts, StillClientScreen
<1>6. CASE P!ReadNameAnswer(c)
  BY <1>1, <1>2, <1>6, ReadNameAnswerFacts, UntrackedScreen DEF Settled
<1>7. CASE P!ReadGameStart(c)
  BY <1>1, <1>2, <1>7, ReadGameStartFacts, UntrackedScreen DEF Settled
<1>8. CASE P!ReadInGame(c)
  BY <1>1, <1>2, <1>8, ReadInGameFacts, UntrackedScreen DEF Settled
<1>9. ~P!ReadPlayerLeft(c)
  <2> SUFFICES ASSUME P!ReadPlayerLeft(c)
               PROVE  FALSE
    OBVIOUS
  <2>1. phase[c] = "lobby" /\ outbox[c][1].type = "STRING" /\ outbox[c] # <<>>
    BY <1>1, ReadPlayerLeftFacts DEF Got
  <2>2. PICK k \in Slots : Seat(k) /\ Conn(k) = c
    BY <2>1 DEF TalkInv, NamingOrLeft, Naming, Left
  <2> DEFINE cl == clients[k]
             kn == Known(k)
             ph == phase[c]
             in == inbox[c]
             out == outbox[c]
  <2>3. /\ cl \in ClientSet /\ Talk(cl, kn, ph, in, out) /\ out \in Seq(ServerMessages)
        /\ ph = "lobby" /\ out[1].type = "STRING" /\ out # <<>>
    BY <1>1, <2>1, <2>2, SeatFacts, ServerTypes DEF TalkInv, TalkOrLeft, Left
  <2> HIDE DEF cl, kn, ph, in, out
  <2>4. QED
    BY <2>3, TalkRead
<1>10. CASE P!Quit(c)
  BY <1>1, <1>2, <1>10, QuitFacts, StillClientScreen DEF Settled
<1>11. QED
  BY <1>3, <1>4, <1>5, <1>6, <1>7, <1>8, <1>9, <1>10, PressKeyScreen, ReadPlayerScreen, AnswerScreen
  DEF P!Program, P!Player

LEMMA InitScreen == Init => ScreenInv
<1> SUFFICES ASSUME Init
             PROVE  ScreenInv
  OBVIOUS
<1>1. /\ \A k \in Slots : ~Seat(k)
      /\ \A c \in Conns : outbox[c] = <<>> /\ \A k \in Slots : players[c][k] = Null
  BY SameWire DEF Init, S!Init, P!Init, Seat
<1>2. \A c \in Conns : Len(outbox[c]) = 0
  BY <1>1
<1>3. QED
  BY <1>1, <1>2 DEF ScreenInv, NamesInv, MsgInv, EntryInv, ShowInv, LoggedIn, Seat

LEMMA StepScreen ==
    ASSUME MaxBurst = 1, Distinct, OwnInv, TalkInv, ScreenInv, [Next]_vars
    PROVE  ScreenInv' \/ (S!Disconnect /\ UNCHANGED clientVars)
<1>1. OwnInv'
  BY StepOwnInv
<1>2. CASE ServerStep
  BY <1>1, <1>2, ServerStepScreen DEF ServerStep
<1>3. CASE ClientStep
  BY <1>3, ClientStepScreen DEF ClientStep, P!Next
<1>4. CASE UNCHANGED vars
  BY <1>4, StillScreen DEF OwnInv, vars, serverVars, clientVars
<1>5. QED
  BY <1>2, <1>3, <1>4 DEF Next

\* What a quiet lobby shows.
LEMMA QuietScreen == OwnInv /\ ScreenInv => LobbyShowsOthers
<1> SUFFICES ASSUME OwnInv, ScreenInv, Quiet, NEW c \in Conns, NEW k \in LoggedIn,
                    phase[c] = "lobby", clients[k].con # c
             PROVE  players[c][k] = [name |-> clients[k].name, ready |-> clients[k].state = "READY_PLAY"]
  BY DEF LobbyShowsOthers
<1>1. at = "select" /\ outbox[c] = <<>>
  BY DEF Quiet, Running
<1>2. Shows(outbox[c], players[c], About(k, clients[k]))
  BY <1>1 DEF ScreenInv, ShowInv, Tracked, UpToDate, Conn
<1>3. Len(outbox[c]) = 0
  BY <1>1
<1>4. players[c][About(k, clients[k]).num] =
          [name |-> About(k, clients[k]).name, ready |-> About(k, clients[k]).ready]
  BY <1>2, <1>3 DEF Shows
<1>5. /\ About(k, clients[k]).num = k /\ About(k, clients[k]).name = clients[k].name
      /\ About(k, clients[k]).ready = (clients[k].state = "READY_PLAY")
  BY DEF About, PlayerMsg
<1>6. QED
  BY <1>4, <1>5

\* In whatever order players log in, are announced, press keys and quit, every
\* screen ends up showing the others as they are (notifyNewPlayer,
\* notifyExistingPlayers, prepareLobby), until the server clears a slot for the
\* first time, while no client sends with a message of it unread and no two
\* players type the same name.
THEOREM ScreensUntilRemoval ==
    ASSUME MaxBurst = 1, \A c, d \in Conns : UserOf[c] = UserOf[d] => c = d
    PROVE  Spec => [](freed \/ LobbyShowsOthers)
<1> DEFINE I == OwnInv /\ (freed \/ (TalkInv /\ ScreenInv))
<1>1. Distinct
  BY DEF Distinct
<1>2. Init => I
  BY InitOwnInv, InitTalk, InitScreen
<1>3. I /\ [Next]_vars => I'
  BY <1>1, StepOwnInv, StepTalk, StepScreen, FreedStays DEF OwnInv
<1>4. I => freed \/ LobbyShowsOthers
  BY QuietScreen
<1>5. QED
  BY <1>2, <1>3, <1>4, PTL DEF Spec

\* ... and always, while nobody leaves.
THEOREM ScreensAgree ==
    ASSUME MaxBurst = 1, Leavers = {}, \A c, d \in Conns : UserOf[c] = UserOf[d] => c = d
    PROVE  Spec => []LobbyShowsOthers
<1> DEFINE I == OwnInv /\ TalkInv /\ StayInv /\ ScreenInv
<1>1. Distinct
  BY DEF Distinct
<1>2. Init => I
  BY InitOwnInv, InitTalk, InitStayInv, InitScreen
<1>3. I /\ [Next]_vars => I'
  BY <1>1, StepOwnInv, StepTalk, StepStayInv, StepScreen DEF OwnInv
<1>4. I => LobbyShowsOthers
  BY QuietScreen
<1>5. QED
  BY <1>2, <1>3, <1>4, PTL DEF Spec
-----------------------------------------------------------------------------
\* Who the server takes out of the table.

\* How a step changes the table and the connections that wait.
LEMMA NextSeats ==
    ASSUME IInv, [Next]_vars
    PROVE  \/ S!Disconnect /\ UNCHANGED clientVars
           \/ /\ UNCHANGED freed
              /\ \A k \in Slots : Seat(k) => clients'[k] # Null
              /\ \A k \in Slots : clients'[k] # Null => \/ Seat(k) /\ clients'[k].con = Conn(k)
                                                        \/ clients'[k].con \in pending
              /\ \A c \in pending' : c \in pending \/ phase[c] = "outside"
<1> DEFINE Goal == /\ UNCHANGED freed
                   /\ \A k \in Slots : Seat(k) => clients'[k] # Null
                   /\ \A k \in Slots : clients'[k] # Null => \/ Seat(k) /\ clients'[k].con = Conn(k)
                                                             \/ clients'[k].con \in pending
                   /\ \A c \in pending' : c \in pending \/ phase[c] = "outside"
<1>1. ASSUME SameSeats, UNCHANGED <<pending, freed>>
      PROVE  Goal
  BY <1>1 DEF SameSeats
<1>2. ASSUME NEW c \in Conns, NEW k \in Slots, S!AcceptClient(c, k)
      PROVE  Goal
  <2>1. /\ c \in pending /\ ~Seat(k) /\ pending' = pending \ {c} /\ freed' = freed
        /\ Becomes(k, Newcomer(c)) /\ Newcomer(c) # Null /\ Newcomer(c).con = c
    BY <1>2, AcceptFacts, NotNull DEF Idle, Newcomer
  <2>2. QED
    BY <2>1 DEF Becomes, Seat, Conn
<1>3. ASSUME ServerStep, ~S!Disconnect
      PROVE  Goal
  <2>1. S!Reader => Goal
    BY <1>1, <1>3, HandlersKeepSeats
  <2>2. QED
    BY <1>2, <1>3, <2>1, SameWire DEF ServerStep, S!Next, S!Accepter
<1>4. ASSUME ClientStep
      PROVE  Goal
  <2>1. PICK c \in Conns : P!Program(c) \/ P!Player(c)
    BY <1>4 DEF ClientStep, P!Next
  <2>2. SameSeats /\ UNCHANGED freed /\ UNCHANGED serverVars
    BY <1>4 DEF ClientStep, SameSeats, Seat, Conn, serverVars
  <2>3. CASE P!Connect(c)
    BY <2>2, <2>3, ConnectFacts DEF SameSeats
  <2>4. CASE ~P!Connect(c)
    <3>1. UNCHANGED pending
      BY <2>1, <2>4 DEF P!Program, P!Player, P!SendName, P!PressKey, P!Quit, P!SendPassword,
         P!ReadNameAnswer, P!ReadPasswordAnswer, P!ReadPlayer, P!ReadPlayerLeft, P!ReadGameStart,
         P!ReadInGame
    <3>2. QED
      BY <1>1, <2>2, <3>1
  <2>5. QED
    BY <2>3, <2>4
<1>5. CASE UNCHANGED vars
  BY <1>1, <1>5 DEF vars, serverVars, SameSeats, Seat, Conn
<1>6. QED
  BY <1>3, <1>4, <1>5 DEF Next, ServerStep

\* The first client that the server takes out of the lobby has quit, however many
\* come and go and however their messages cross (readData, disconnect).
THEOREM FirstRemovedHasLeft ==
    ASSUME MaxBurst = 1
    PROVE  Spec => [][ ~freed => \A k \in Slots : clients[k] # Null /\ clients'[k] = Null
                                     => phase[clients[k].con] = "gone" ]_vars
<1> DEFINE I == IInv /\ (freed \/ TalkInv)
           First == ~freed => \A k \in Slots : clients[k] # Null /\ clients'[k] = Null
                                  => phase[clients[k].con] = "gone"
<1>1. Init => I
  BY InitIInv, InitTalk
<1>2. I /\ [Next]_vars => I'
  BY StepIInv, StepTalk, FreedStays
<1>3. I /\ [Next]_vars => First
  <2> SUFFICES ASSUME I, [Next]_vars, ~freed, NEW k \in Slots, Seat(k), clients'[k] = Null
               PROVE  phase[Conn(k)] = "gone"
    BY DEF Seat, Conn
  <2>1. S!Disconnect
    BY NextSeats
  <2>2. Took /\ S!Request = Bye /\ Becomes(cur, Null)
    BY <2>1, DisconnectFacts
  <2>3. phase[Conn(cur)] = "gone"
    BY <2>2, TookTalk
  <2>4. k = cur
    BY <2>2 DEF Becomes, Seat
  <2>5. QED
    BY <2>3, <2>4
<1>4. QED
  BY <1>1, <1>2, <1>3, PTL DEF Spec

\* A goodbye in a queue.
HasBye(s) == \E j \in 1 .. Len(s) : s[j] = Bye

\* A goodbye is of a client that is gone.
ByeInv == \A c \in Conns : HasBye(inbox[c]) => phase[c] = "gone"

\* The client c was removed for good.
Out(c) == /\ phase[c] = "gone" /\ c \notin pending
          /\ \A k \in Slots : Seat(k) => Conn(k) # c

\* When a slot was cleared its client is out, and a goodbye that is kept for
\* whichever connection is read next finds no one who stays.
LoneInv == freed => /\ \E g \in Conns : Out(g)
                    /\ HasBye(readBuffer) => \A c \in Conns : phase[c] = "gone"

LEMMA ByeFacts ==
    ASSUME NEW s \in Seq(ClientMessages), NEW m \in ClientMessages
    PROVE  /\ ~HasBye(<<>>)
           /\ HasBye(Append(s, m)) => HasBye(s) \/ m = Bye
           /\ s # <<>> /\ HasBye(Tail(s)) => HasBye(s)
           /\ s # <<>> /\ s[1] = Bye => HasBye(s)
<1>1. ~HasBye(<<>>)
  BY DEF HasBye
<1>2. HasBye(Append(s, m)) => HasBye(s) \/ m = Bye
  <2> DEFINE t == Append(s, m)
  <2>1. /\ Len(s) \in Nat /\ Len(t) = Len(s) + 1 /\ \A j \in 1 .. Len(s) : t[j] = s[j]
        /\ t[Len(s) + 1] = m
    BY AppendFacts
  <2> HIDE DEF t
  <2>2. HasBye(t) => HasBye(s) \/ m = Bye
    BY <2>1 DEF HasBye
  <2>3. QED
    BY <2>2 DEF t
<1>3. s # <<>> /\ HasBye(Tail(s)) => HasBye(s)
  <2> SUFFICES ASSUME s # <<>>, HasBye(Tail(s))
               PROVE  HasBye(s)
    OBVIOUS
  <2>1. PICK j \in 1 .. Len(Tail(s)) : Tail(s)[j] = Bye
    BY DEF HasBye
  <2>2. Len(s) \in Nat /\ j + 1 \in 2 .. Len(s) /\ s[j + 1] = Bye
    BY <2>1, TailFacts, EmptyFacts
  <2>3. j + 1 \in 1 .. Len(s)
    BY <2>2
  <2>4. QED
    BY <2>2, <2>3 DEF HasBye
<1>4. s # <<>> /\ s[1] = Bye => HasBye(s)
  BY EmptyFacts DEF HasBye
<1>5. QED
  BY <1>1, <1>2, <1>3, <1>4

\* Who is gone stays gone: no step is taken by a process that has ended.
LEMMA StillGone ==
    ASSUME IInv, [Next]_vars, NEW c \in Conns, phase[c] = "gone"
    PROVE  phase'[c] = "gone"
<1>1. CASE UNCHANGED phase
  BY <1>1
<1>2. ASSUME NEW d \in Conns, P!Program(d) \/ P!Player(d)
      PROVE  phase'[c] = "gone"
  <2>1. phase[d] # "gone"
    BY <1>2 DEF P!Program, P!Player, P!Connect, P!SendName, P!PressKey, P!Quit, P!SendPassword,
       P!ReadNameAnswer, P!ReadPasswordAnswer, P!ReadPlayer, P!ReadPlayerLeft, P!ReadGameStart,
       P!ReadInGame
  <2>2. UNCHANGED phase \/ \E p : phase' = [phase EXCEPT ![d] = p]
    BY <1>2 DEF P!Program, P!Player, P!Connect, P!SendName, P!PressKey, P!Quit, P!SendPassword,
       P!ReadNameAnswer, P!ReadPasswordAnswer, P!ReadPlayer, P!ReadPlayerLeft, P!ReadGameStart,
       P!ReadInGame, P!Goto
  <2>3. QED
    BY <2>1, <2>2, ClientTypes
<1>3. QED
  BY <1>1, <1>2 DEF Next, ServerStep, ClientStep, P!Next, vars, clientVars

\* Who is out stays out.
LEMMA StillOut ==
    ASSUME IInv, [Next]_vars, NEW c \in Conns, Out(c)
    PROVE  Out(c)'
<1>1. phase'[c] = "gone"
  BY StillGone DEF Out
<1>2. CASE S!Disconnect
  <2>1. Took /\ Becomes(cur, Null)
    BY <1>2, DisconnectFacts
  <2>2. QED
    BY <1>1, <2>1 DEF Out, Took, Becomes, Seat, Conn
<1>3. CASE ~S!Disconnect
  <2>1. /\ \A k \in Slots : clients'[k] # Null => \/ Seat(k) /\ clients'[k].con = Conn(k)
                                                  \/ clients'[k].con \in pending
        /\ \A d \in pending' : d \in pending \/ phase[d] = "outside"
    BY <1>3, NextSeats
  <2>2. QED
    BY <1>1, <2>1 DEF Out, Seat, Conn
<1>4. QED
  BY <1>2, <1>3

\* A step reads for the client of slot cur, or takes nothing from a queue.
LEMMA NextTook ==
    ASSUME IInv, [Next]_vars
    PROVE  \/ Took /\ UNCHANGED clientVars
           \/ ~S!Disconnect /\ UNCHANGED <<readBuffer, inbox>>
           \/ ~S!Disconnect /\ ClientStep
<1>1. ASSUME NEW k \in Slots, S!ListenToClients(k)
      PROVE  UNCHANGED <<readBuffer, inbox>>
  BY <1>1, ListenFacts DEF Idle
<1>2. ASSUME NEW c \in Conns, NEW k \in Slots, S!AcceptClient(c, k)
      PROVE  UNCHANGED <<readBuffer, inbox>>
  BY <1>2, AcceptFacts DEF Idle
<1>3. S!NotifyExistingPlayers \/ S!NotifyDone \/ S!SendGameStart => UNCHANGED <<readBuffer, inbox>>
  BY NotifyFacts, NotifyDoneFacts, GameStartFacts DEF Idle
<1>4. (S!ResolveUser \/ S!ResolvePassword \/ S!ResolveNewPassword \/ S!ResolveReady
            \/ S!ResolveMovement \/ S!Disconnect) => Took
  BY UserFacts, PasswordFacts, NewPasswordFacts, ReadyFacts, MovementFacts, DisconnectFacts
<1>5. ServerStep => Took \/ (~S!Disconnect /\ UNCHANGED <<readBuffer, inbox>>)
  <2>1. S!Disconnect => Took
    BY <1>4
  <2>2. ServerStep => Took \/ UNCHANGED <<readBuffer, inbox>>
    BY <1>1, <1>2, <1>3, <1>4, SameWire DEF ServerStep, S!Next, S!Reader, S!Accepter
  <2>3. QED
    BY <2>1, <2>2
<1>6. ClientStep \/ UNCHANGED vars => UNCHANGED freed /\ UNCHANGED <<readBuffer, clients>>
  BY DEF ClientStep, serverVars, vars
<1>7. S!Disconnect => ~(UNCHANGED clients)
  <2> SUFFICES ASSUME S!Disconnect
               PROVE  ~(UNCHANGED clients)
    OBVIOUS
  <2>1. Took /\ Becomes(cur, Null)
    BY DisconnectFacts
  <2>2. QED
    BY <2>1 DEF Took, Becomes, Seat
<1>8. UNCHANGED vars => UNCHANGED <<readBuffer, inbox>>
  BY DEF vars, serverVars
<1>9. QED
  BY <1>5, <1>6, <1>7, <1>8 DEF Next, ServerStep

LEMMA StepByeInv ==
    ASSUME IInv, ByeInv, [Next]_vars
    PROVE  ByeInv'
<1>1. inbox \in [Conns -> Seq(ClientMessages)] /\ Bye \in ClientMessages
  BY ServerTypes, MessageTypes
<1>2. ASSUME \A c \in Conns : HasBye(inbox'[c]) => HasBye(inbox[c]) \/ phase'[c] = "gone"
      PROVE  ByeInv'
  BY <1>2, StillGone DEF ByeInv, HasBye
<1>3. CASE UNCHANGED inbox
  BY <1>2, <1>3
<1>4. CASE Took
  <2>1. \A c \in Conns : inbox'[c] = inbox[c] \/ inbox'[c] = <<>>
    BY <1>1, <1>4 DEF Took
  <2>2. QED
    BY <1>1, <1>2, <2>1, ByeFacts
<1>5. ASSUME NEW c \in Conns, NEW m \in ClientMessages, Sent(c, m), m # Bye \/ phase'[c] = "gone"
      PROVE  ByeInv'
  <2>1. \A d \in Conns : d # c => inbox'[d] = inbox[d]
    BY <1>5 DEF Sent
  <2>2. inbox'[c] = Append(inbox[c], m) /\ inbox[c] \in Seq(ClientMessages)
    BY <1>1, <1>5 DEF Sent
  <2>3. HasBye(inbox'[c]) => HasBye(inbox[c]) \/ phase'[c] = "gone"
    BY <1>5, <2>2, ByeFacts
  <2>4. QED
    BY <1>2, <2>1, <2>3
<1>6. ASSUME NEW c \in Conns, P!Program(c) \/ P!Player(c)
      PROVE  ByeInv'
  <2>1. CASE P!SendName(c)
    <3>1. StringMsg(UserOf[c]) \in ClientMessages /\ Sent(c, StringMsg(UserOf[c]))
      BY <2>1, SendNameFacts, MessageTypes
    <3>2. StringMsg(UserOf[c]) # Bye
      BY DEF StringMsg, Bye
    <3>3. QED
      BY <1>5, <3>1, <3>2
  <2>2. ASSUME NEW p \in Passwords, P!SendPassword(c, p)
        PROVE  ByeInv'
    <3>1. StringMsg(p) \in ClientMessages /\ Sent(c, StringMsg(p))
      BY <2>2, SendPasswordFacts, MessageTypes
    <3>2. StringMsg(p) # Bye
      BY DEF StringMsg, Bye
    <3>3. QED
      BY <1>5, <3>1, <3>2
  <2>3. CASE P!PressKey(c)
    <3>1. PICK b \in BOOLEAN : Sent(c, BooleanMsg(b))
      BY <2>3, PressKeyFacts
    <3>2. BooleanMsg(b) \in ClientMessages /\ BooleanMsg(b) # Bye
      BY MessageTypes DEF BooleanMsg, Bye
    <3>3. QED
      BY <1>5, <3>1, <3>2
  <2>4. CASE P!Quit(c)
    <3>1. Goes(c, "gone") /\ Sent(c, Bye)
      BY <2>4, QuitFacts
    <3>2. QED
      BY <1>1, <1>5, <3>1 DEF Goes
  <2>5. CASE P!ReadInGame(c)
    <3>1. UNCHANGED inbox \/ (Goes(c, "gone") /\ Sent(c, Bye))
      BY <2>5, ReadInGameFacts
    <3>2. QED
      BY <1>1, <1>3, <1>5, <3>1 DEF Goes
  <2>6. P!Connect(c) \/ P!ReadNameAnswer(c) \/ P!ReadPasswordAnswer(c) \/ P!ReadPlayer(c)
            \/ P!ReadPlayerLeft(c) \/ P!ReadGameStart(c) => UNCHANGED inbox
    BY DEF P!Connect, P!ReadNameAnswer, P!ReadPasswordAnswer, P!ReadPlayer, P!ReadPlayerLeft,
       P!ReadGameStart
  <2>7. QED
    BY <1>3, <1>6, <2>1, <2>2, <2>3, <2>4, <2>5, <2>6 DEF P!Program, P!Player
<1>7. QED
  BY <1>3, <1>4, <1>6, NextTook DEF ClientStep, P!Next

\* At most two clients use the lobby.
Pair == \A a, b, c \in Conns : a = b \/ b = c \/ a = c

\* The first time.
LEMMA FirstRemoval ==
    ASSUME IInv, TalkInv, S!Disconnect, UNCHANGED clientVars
    PROVE  phase[Conn(cur)] = "gone" /\ LoneInv'
<1>1. /\ Took /\ S!Request = Bye /\ Becomes(cur, Null) /\ pending' = pending
      /\ cur \in Slots /\ Conn(cur) \in Conns
  BY DisconnectFacts DEF Took
<1>2. phase[Conn(cur)] = "gone" /\ readBuffer' = <<>> /\ phase' = phase
  BY <1>1, TookTalk DEF clientVars
<1>3. PICK g \in Conns : g = Conn(cur)
  BY <1>1
<1>4. Out(g)'
  BY <1>1, <1>2, <1>3 DEF Out, IInv, SeatsInv, Becomes, Took, Seat, Conn
<1>5. LoneInv'
  BY <1>2, <1>4 DEF LoneInv, HasBye
<1>6. QED
  BY <1>2, <1>5

\* Later, with two clients of whom one is out: what is read is of the other.
LEMMA LoneRead ==
    ASSUME Pair, IInv, ByeInv, LoneInv, freed, Took
    PROVE  /\ S!Request = Bye => phase[Conn(cur)] = "gone"
           /\ HasBye(readBuffer') => \A c \in Conns : phase[c] = "gone"
<1>1. PICK g \in Conns : Out(g)
  BY DEF LoneInv
<1>2. cur \in Slots /\ Seat(cur) /\ Conn(cur) \in Conns /\ Conn(cur) # g
  BY <1>1 DEF Took, Out
<1>3. \A c \in Conns : c = g \/ c = Conn(cur)
  BY <1>1, <1>2 DEF Pair
<1>4. phase[Conn(cur)] = "gone" => \A c \in Conns : phase[c] = "gone"
  BY <1>1, <1>3 DEF Out
<1>5. /\ readBuffer \in Seq(ClientMessages) /\ inbox[Conn(cur)] \in Seq(ClientMessages)
      /\ Bye \in ClientMessages
  BY <1>2, ServerTypes, MessageTypes
<1>6. PICK q \in Seq(ClientMessages) : /\ q # <<>> /\ S!Request = q[1] /\ readBuffer' = Tail(q)
                                       /\ q = readBuffer \/ q = inbox[Conn(cur)]
  BY <1>5 DEF Took
<1>7. HasBye(q) => \A c \in Conns : phase[c] = "gone"
  <2>1. CASE q = readBuffer
    BY <2>1 DEF LoneInv
  <2>2. CASE q = inbox[Conn(cur)]
    BY <1>2, <1>4, <2>2 DEF ByeInv
  <2>3. QED
    BY <1>6, <2>1, <2>2
<1>8. (S!Request = Bye => HasBye(q)) /\ (HasBye(readBuffer') => HasBye(q))
  BY <1>5, <1>6, ByeFacts
<1>9. QED
  BY <1>2, <1>7, <1>8

LEMMA StepLoneInv ==
    ASSUME MaxBurst = 1, Pair, IInv, ByeInv, freed \/ TalkInv, LoneInv, [Next]_vars
    PROVE  /\ LoneInv'
           /\ \A k \in Slots : Seat(k) /\ clients'[k] = Null => phase[Conn(k)] = "gone"
<1>1. \/ S!Disconnect /\ UNCHANGED clientVars
      \/ UNCHANGED freed /\ \A k \in Slots : Seat(k) => clients'[k] # Null
  BY NextSeats
\* The client of slot cur is the only one that is taken out.
<1>2. S!Disconnect => \A k \in Slots : Seat(k) /\ clients'[k] = Null => k = cur
  BY DisconnectFacts DEF Becomes, Seat
<1>3. CASE ~freed
  <2>1. CASE S!Disconnect /\ UNCHANGED clientVars
    BY <1>2, <1>3, <2>1, FirstRemoval
  <2>2. CASE UNCHANGED freed /\ \A k \in Slots : Seat(k) => clients'[k] # Null
    BY <1>3, <2>2 DEF LoneInv
  <2>3. QED
    BY <1>1, <2>1, <2>2
<1>4. CASE freed
  <2>1. PICK g \in Conns : Out(g)
    BY <1>4 DEF LoneInv
  <2>2. Out(g)'
    BY <2>1, StillOut
  <2>3. HasBye(readBuffer') => \A c \in Conns : phase[c] = "gone"
    <3>1. CASE Took
      BY <1>4, <3>1, LoneRead
    <3>2. CASE UNCHANGED readBuffer
      BY <1>4, <3>2 DEF LoneInv
    <3>3. QED
      BY <3>1, <3>2, NextTook DEF ClientStep, serverVars
  <2>4. HasBye(readBuffer)' => \A c \in Conns : phase'[c] = "gone"
    BY <2>3, StillGone DEF HasBye
  <2>5. LoneInv'
    BY <2>1, <2>2, <2>4 DEF LoneInv
  <2>6. ASSUME NEW k \in Slots, Seat(k), clients'[k] = Null
        PROVE  phase[Conn(k)] = "gone"
    <3>1. S!Disconnect /\ k = cur
      BY <1>1, <1>2, <2>6
    <3>2. Took /\ S!Request = Bye
      BY <3>1, DisconnectFacts
    <3>3. QED
      BY <1>4, <3>1, <3>2, LoneRead
  <2>7. QED
    BY <2>5, <2>6
<1>5. QED
  BY <1>3, <1>4

\* With two clients the server never takes one out of the lobby that has not quit
\* (readData, disconnect).  With a third one it may: a client can take the notice
\* of a departure for an answer, its goodbye then gets behind another message, and
\* readData hands it to whichever slot is read next.
THEOREM RemovedHasLeft ==
    ASSUME MaxBurst = 1, \A a, b, c \in Conns : a = b \/ b = c \/ a = c
    PROVE  Spec => OnlyLeaversRemoved
<1> DEFINE I == IInv /\ ByeInv /\ (freed \/ TalkInv) /\ LoneInv
           Gone == \A k \in Slots : clients[k] # Null /\ clients'[k] = Null => phase[clients[k].con] = "gone"
<1>1. Pair
  BY DEF Pair
<1>2. Init => I
  <2> SUFFICES ASSUME Init
               PROVE  ByeInv /\ LoneInv
    BY InitIInv, InitTalk
  <2>1. ~freed /\ \A c \in Conns : inbox[c] = <<>>
    BY DEF Init, S!Init, P!Init
  <2>2. QED
    BY <2>1 DEF ByeInv, LoneInv, HasBye
<1>3. I /\ [Next]_vars => I' /\ Gone
  <2> SUFFICES ASSUME I, [Next]_vars
               PROVE  I' /\ Gone
    OBVIOUS
  <2>1. LoneInv' /\ Gone
    BY <1>1, StepLoneInv DEF Seat, Conn
  <2>2. freed' \/ TalkInv'
    BY StepTalk, FreedStays
  <2>3. QED
    BY <2>1, <2>2, StepIInv, StepByeInv
<1>4. Spec => [][Gone]_vars
  BY <1>2, <1>3, PTL DEF Spec
<1>5. QED
  BY <1>4 DEF OnlyLeaversRemoved
=============================================================================
