------------------------- MODULE SuperServerProofs --------------------------
(***************************************************************************)
(* For any number of clients, lobbies and child servers: no lobby ever has *)
(* two live servers, although the threads that wait for child servers may  *)
(* wait for the wrong one; which entries stay when a thread is done; and   *)
(* when a client finds no endpoint.                                        *)
(***************************************************************************)
EXTENDS SuperServer, TLAPS

\* The pids up to forked belong to child servers, with a lobby and a founder
\* that has asked for it.
ForkedInv == \A p \in Pids :
    /\ p <= forked <=> proc[p] # "unborn"
    /\ p <= forked => lobbyOf[p] \in Lobbies
    /\ p <= forked => founder[p] \in Clients /\ phase[founder[p]] # "outside"

\* A client that is on its way has named a lobby, and only such clients knock.
AskedInv == /\ \A c \in Clients : phase[c] # "outside" => lobby[c] \in Lobbies
            /\ \A e \in Endpoints : \A n \in 1 .. Len(knocks[e]) :
                   phase[knocks[e][n]] # "outside"

\* A thread waits for one of the pids in use.
WaiterInv == \A p \in Pids : /\ waiter[p] # "none" => p <= forked
                             /\ waiter[p] = "waiting" => target[p] \in Pids

\* The entry of a lobby names the live server it has.
EntryInv == \A p \in Pids : Live(p) => servers[lobbyOf[p]] = p

IInv == TypeOK /\ ForkedInv /\ AskedInv /\ WaiterInv /\ EntryInv
-----------------------------------------------------------------------------
\* What one read of an endpoint does: the first name is a client's, and nobody
\* is sent back outside by it.
LEMMA AcceptFacts ==
    ASSUME IInv, NEW e \in Endpoints, NEW p \in Phases \ {"outside"}, Accept(e, p)
    PROVE  /\ Head(knocks[e]) \in Clients
           /\ lobby[Head(knocks[e])] \in Lobbies
           /\ phase[Head(knocks[e])] # "outside"
           /\ phase' \in [Clients -> Phases]
           /\ \A c \in Clients : phase'[c] = "outside" <=> phase[c] = "outside"
           /\ knocks' \in [Endpoints -> Seq(Clients)]
           /\ \A d \in Endpoints : knocks'[d] = IF d = e THEN <<>> ELSE knocks[d]
<1>1. /\ knocks \in [Endpoints -> Seq(Clients)]
      /\ phase \in [Clients -> Phases]
      /\ \A c \in Clients : phase[c] # "outside" => lobby[c] \in Lobbies
      /\ \A d \in Endpoints : \A n \in 1 .. Len(knocks[d]) : phase[knocks[d][n]] # "outside"
  BY DEF IInv, TypeOK, AskedInv
<1>2. knocks[e] \in Seq(Clients) /\ knocks[e] # <<>>
  BY <1>1 DEF Accept
<1>3. /\ Len(knocks[e]) \in Nat /\ 1 \in 1 .. Len(knocks[e])
      /\ Head(knocks[e]) = knocks[e][1]
      /\ Head(knocks[e]) \in Clients
  BY <1>2
<1>4. phase[Head(knocks[e])] # "outside" /\ lobby[Head(knocks[e])] \in Lobbies
  BY <1>1, <1>3
<1>5. \A c \in Named(e) : phase[c] # "outside"
  <2>1. DOMAIN knocks[e] = 1 .. Len(knocks[e])
    BY <1>2
  <2>2. QED
    BY <1>1, <2>1 DEF Named
<1>6. /\ phase' = [c \in Clients |-> IF c = Head(knocks[e]) THEN p
                                     ELSE IF c \in Named(e) THEN "lost"
                                     ELSE phase[c]]
      /\ knocks' = [knocks EXCEPT ![e] = <<>>]
  BY DEF Accept
<1>7. phase' \in [Clients -> Phases]
  BY <1>1, <1>6 DEF Phases
<1>8. \A c \in Clients : phase'[c] = "outside" <=> phase[c] = "outside"
  BY <1>4, <1>5, <1>6
<1>9. knocks' \in [Endpoints -> Seq(Clients)]
  BY <1>1, <1>6
<1>10. \A d \in Endpoints : knocks'[d] = IF d = e THEN <<>> ELSE knocks[d]
  BY <1>1, <1>6
<1>11. QED
  BY <1>3, <1>4, <1>7, <1>8, <1>9, <1>10

LEMMA InitIInv == Init => IInv
<1> SUFFICES ASSUME Init
             PROVE  IInv
  OBVIOUS
<1> USE LobbiesAssumption, BoundsAssumption, ListenLocationAssumption
        DEF Init, Pids, Endpoints
<1>1. \A e \in Endpoints : knocks[e] = <<>>
  OBVIOUS
<1>2. TypeOK
  BY DEF TypeOK, ProcStates, Phases
<1>3. ForkedInv /\ WaiterInv /\ EntryInv
  BY DEF ForkedInv, WaiterInv, EntryInv, Live
<1>4. AskedInv
  BY <1>1 DEF AskedInv
<1>5. QED
  BY <1>2, <1>3, <1>4 DEF IInv

\* AskedInv depends on three variables only, and survives every read.
LEMMA AskedAfterAccept ==
    ASSUME IInv, NEW e \in Endpoints, NEW p \in Phases \ {"outside"}, Accept(e, p),
           UNCHANGED lobby
    PROVE  AskedInv'
<1>1. \A c \in Clients : phase'[c] # "outside" => lobby'[c] \in Lobbies
  BY AcceptFacts DEF IInv, AskedInv
<1>2. ASSUME NEW d \in Endpoints, NEW n \in 1 .. Len(knocks'[d])
      PROVE  phase'[knocks'[d][n]] # "outside"
  <2>1. CASE d = e
    <3>1. knocks'[d] = <<>>
      BY <2>1, AcceptFacts
    <3>2. QED
      BY <1>2, <3>1
  <2>2. CASE d # e
    <3>1. knocks'[d] = knocks[d]
      BY <2>2, AcceptFacts
    <3>2. knocks[d] \in Seq(Clients)
      BY DEF IInv, TypeOK
    <3>3. knocks[d][n] \in Clients /\ phase[knocks[d][n]] # "outside"
      BY <1>2, <3>1, <3>2 DEF IInv, AskedInv
    <3>4. QED
      BY <3>1, <3>3, AcceptFacts
  <2>3. QED
    BY <2>1, <2>2
<1>3. QED
  BY <1>1, <1>2 DEF AskedInv

LEMMA StepIInv == IInv /\ [Next]_vars => IInv'
<1> SUFFICES ASSUME IInv, [Next]_vars
             PROVE  IInv'
  OBVIOUS
<1> USE LobbiesAssumption, BoundsAssumption, ListenLocationAssumption, NoClientAssumption
<1>1. ASSUME NEW c \in Clients, NEW j \in Lobbies, Ask(c, j)
      PROVE  IInv'
  <2>1. 0 \in Endpoints
    BY DEF Endpoints
  <2>2. TypeOK'
    BY <1>1, <2>1 DEF IInv, TypeOK, Ask, procVars, waitVars, Phases
  <2>3. ForkedInv' /\ WaiterInv' /\ EntryInv'
    BY <1>1 DEF IInv, TypeOK, ForkedInv, WaiterInv, EntryInv, Live, Ask, procVars, waitVars
  <2>4. AskedInv'
    <3>1. \A d \in Clients : phase'[d] # "outside" => lobby'[d] \in Lobbies
      BY <1>1 DEF IInv, TypeOK, AskedInv, Ask
    <3>2. ASSUME NEW e \in Endpoints, NEW n \in 1 .. Len(knocks'[e])
          PROVE  phase'[knocks'[e][n]] # "outside"
      <4>1. /\ knocks[e] \in Seq(Clients)
            /\ knocks'[e] = IF e = 0 THEN Append(knocks[e], c) ELSE knocks[e]
        BY <1>1 DEF IInv, TypeOK, Ask
      <4>2. \/ n \in 1 .. Len(knocks[e]) /\ knocks'[e][n] = knocks[e][n]
            \/ knocks'[e][n] = c
        BY <3>2, <4>1
      <4>3. n \in 1 .. Len(knocks[e]) => knocks[e][n] \in Clients /\ phase[knocks[e][n]] # "outside"
        BY <4>1 DEF IInv, AskedInv
      <4>4. QED
        BY <1>1, <4>2, <4>3 DEF IInv, TypeOK, Ask
    <3>3. QED
      BY <3>1, <3>2 DEF AskedInv
  <2>5. QED
    BY <2>2, <2>3, <2>4 DEF IInv
<1>2. CASE Redirect
  <2>1. 0 \in Endpoints /\ "redirected" \in Phases \ {"outside"}
    BY DEF Endpoints, Phases
  <2>2. Accept(0, "redirected")
    BY <1>2 DEF Redirect
  <2>3. /\ phase' \in [Clients -> Phases]
        /\ \A c \in Clients : phase'[c] = "outside" <=> phase[c] = "outside"
        /\ knocks' \in [Endpoints -> Seq(Clients)]
    BY <2>1, <2>2, AcceptFacts
  <2>4. AskedInv'
    BY <1>2, <2>1, <2>2, AskedAfterAccept DEF Redirect
  <2>5. TypeOK' /\ ForkedInv' /\ WaiterInv' /\ EntryInv'
    BY <1>2, <2>3 DEF Redirect, IInv, TypeOK, ForkedInv, WaiterInv, EntryInv, Live,
                      procVars, waitVars
  <2>6. QED
    BY <2>4, <2>5 DEF IInv
<1>3. CASE Fork
  <2> DEFINE c == Head(knocks[0])
             j == lobby[c]
             p == forked + 1
  <2>1. 0 \in Endpoints /\ "served" \in Phases \ {"outside"}
    BY DEF Endpoints, Phases
  <2>2. Accept(0, "served")
    BY <1>3 DEF Fork
  <2>3. /\ c \in Clients /\ j \in Lobbies /\ phase[c] # "outside"
        /\ phase' \in [Clients -> Phases]
        /\ \A d \in Clients : phase'[d] = "outside" <=> phase[d] = "outside"
        /\ knocks' \in [Endpoints -> Seq(Clients)]
    BY <2>1, <2>2, AcceptFacts
  <2>4. AskedInv'
    BY <1>3, <2>1, <2>2, AskedAfterAccept DEF Fork
  <2>5. p \in Pids /\ p # 0 /\ p > forked /\ servers[j] = 0
    BY <1>3 DEF Fork, IInv, TypeOK, Pids
  <2>6. /\ forked' = p
        /\ child' = p
        /\ proc' = [proc EXCEPT ![p] = "starting"]
        /\ lobbyOf' = [lobbyOf EXCEPT ![p] = j]
        /\ founder' = [founder EXCEPT ![p] = c]
        /\ servers' = [servers EXCEPT ![j] = p]
        /\ waiter' = [waiter EXCEPT ![p] = "created"]
        /\ UNCHANGED <<target, made, lobby, host>>
    BY <1>3 DEF Fork
  <2> HIDE DEF c, j, p
  <2>7. TypeOK'
    BY <2>3, <2>5, <2>6 DEF IInv, TypeOK, ProcStates, p, Pids
  <2>8. ForkedInv'
    BY <2>3, <2>5, <2>6 DEF IInv, TypeOK, ForkedInv, p, Pids
  <2>9. WaiterInv'
    BY <2>5, <2>6 DEF IInv, TypeOK, WaiterInv, p, Pids
  <2>10. EntryInv'
    <3>1. ASSUME NEW q \in Pids, Live(q)'
          PROVE  servers'[lobbyOf'[q]] = q
      <4>1. CASE q = p
        BY <2>3, <2>5, <2>6, <4>1 DEF IInv, TypeOK
      <4>2. CASE q # p
        <5>1. Live(q) /\ lobbyOf'[q] = lobbyOf[q]
          BY <2>6, <3>1, <4>2 DEF Live, IInv, TypeOK
        <5>2. servers[lobbyOf[q]] = q /\ q # 0
          BY <5>1 DEF IInv, EntryInv, Pids
        <5>3. lobbyOf[q] # j
          BY <2>5, <5>2
        <5>4. QED
          BY <2>6, <5>1, <5>2, <5>3 DEF IInv, TypeOK
      <4>3. QED
        BY <4>1, <4>2
    <3>2. QED
      BY <3>1 DEF EntryInv
  <2>11. QED
    BY <2>4, <2>7, <2>8, <2>9, <2>10 DEF IInv
<1>4. ASSUME NEW p \in Pids, Listen(p)
      PROVE  IInv'
  <2>1. /\ p <= forked
        /\ founder[p] \in Clients /\ phase[founder[p]] # "outside"
        /\ lobbyOf[p] \in Lobbies
    BY <1>4 DEF Listen, IInv, ForkedInv
  <2>2. /\ proc' = [proc EXCEPT ![p] = "listening"]
        /\ proc[p] = "starting"
        /\ made' = made \cup {lobbyOf[p]}
        /\ phase' = [phase EXCEPT ![founder[p]] = "redirected"]
        /\ UNCHANGED <<servers, child, forked, lobbyOf, founder, waiter, target, knocks,
                       lobby, host>>
    BY <1>4 DEF Listen, waitVars
  <2>3. TypeOK'
    BY <2>1, <2>2 DEF IInv, TypeOK, ProcStates, Phases, Endpoints
  <2>4. \A c \in Clients : phase'[c] = "outside" <=> phase[c] = "outside"
    BY <2>1, <2>2 DEF IInv, TypeOK
  <2>5. ForkedInv' /\ WaiterInv' /\ EntryInv'
    BY <2>2, <2>4 DEF IInv, TypeOK, ForkedInv, WaiterInv, EntryInv, Live
  <2>6. \A e \in Endpoints : \A n \in 1 .. Len(knocks[e]) : knocks[e][n] \in Clients
    BY DEF IInv, TypeOK
  <2>7. AskedInv'
    BY <2>2, <2>4, <2>6, ZenonT(60) DEF IInv, TypeOK, AskedInv
  <2>8. QED
    BY <2>3, <2>5, <2>7 DEF IInv
<1>5. ASSUME NEW c \in Clients, Knock(c)
      PROVE  IInv'
  <2>1. phase[c] = "redirected" /\ lobby[c] \in Lobbies
    BY <1>5 DEF Knock, IInv, AskedInv
  <2>2. lobby[c] \in Endpoints
    BY <2>1 DEF Endpoints
  <2>3. UNCHANGED <<servers, child, forked, proc, lobbyOf, founder, waiter, target, made,
                    lobby, host>>
    BY <1>5 DEF Knock, procVars, waitVars
  <2>4. CASE lobby[c] \in made
    <3>1. /\ phase' = [phase EXCEPT ![c] = "knocking"]
          /\ knocks' = [knocks EXCEPT ![lobby[c]] = Append(@, c)]
      BY <1>5, <2>4 DEF Knock
    <3>2. TypeOK'
      BY <2>2, <2>3, <3>1 DEF IInv, TypeOK, Phases
    <3>3. \A d \in Clients : phase'[d] = "outside" <=> phase[d] = "outside"
      BY <2>1, <3>1 DEF IInv, TypeOK
    <3>4. ForkedInv' /\ WaiterInv' /\ EntryInv'
      BY <2>3, <3>3 DEF IInv, ForkedInv, WaiterInv, EntryInv, Live
    <3>5. ASSUME NEW e \in Endpoints, NEW n \in 1 .. Len(knocks'[e])
          PROVE  phase'[knocks'[e][n]] # "outside"
      <4>1. /\ knocks[e] \in Seq(Clients)
            /\ knocks'[e] = IF e = lobby[c] THEN Append(knocks[e], c) ELSE knocks[e]
        BY <3>1 DEF IInv, TypeOK
      <4>2. \/ n \in 1 .. Len(knocks[e]) /\ knocks'[e][n] = knocks[e][n]
            \/ knocks'[e][n] = c
        BY <3>5, <4>1
      <4>3. n \in 1 .. Len(knocks[e]) => knocks[e][n] \in Clients /\ phase[knocks[e][n]] # "outside"
        BY <4>1 DEF IInv, AskedInv
      <4>4. QED
        BY <2>1, <3>3, <4>2, <4>3
    <3>6. AskedInv'
      BY <2>3, <3>3, <3>5 DEF IInv, AskedInv
    <3>7. QED
      BY <3>2, <3>4, <3>6 DEF IInv
  <2>5. CASE lobby[c] \notin made
    <3>1. phase' = [phase EXCEPT ![c] = "crashed"] /\ knocks' = knocks
      BY <1>5, <2>5 DEF Knock
    <3>2. TypeOK'
      BY <2>3, <3>1 DEF IInv, TypeOK, Phases
    <3>3. \A d \in Clients : phase'[d] = "outside" <=> phase[d] = "outside"
      BY <2>1, <3>1 DEF IInv, TypeOK
    <3>4. ForkedInv' /\ WaiterInv' /\ EntryInv'
      BY <2>3, <3>3 DEF IInv, ForkedInv, WaiterInv, EntryInv, Live
    <3>5. \A e \in Endpoints : \A n \in 1 .. Len(knocks[e]) : knocks[e][n] \in Clients
      BY DEF IInv, TypeOK
    <3>6. AskedInv'
      BY <2>3, <3>1, <3>3, <3>5 DEF IInv, AskedInv
    <3>7. QED
      BY <3>2, <3>4, <3>6 DEF IInv
  <2>6. QED
    BY <2>4, <2>5
<1>6. ASSUME NEW p \in Pids, Join(p)
      PROVE  IInv'
  <2>1. lobbyOf[p] \in Endpoints /\ "joined" \in Phases \ {"outside"}
    BY <1>6 DEF Join, IInv, ForkedInv, Endpoints, Phases
  <2>2. Accept(lobbyOf[p], "joined") /\ UNCHANGED lobby
    BY <1>6 DEF Join
  <2>3. /\ phase' \in [Clients -> Phases]
        /\ \A c \in Clients : phase'[c] = "outside" <=> phase[c] = "outside"
        /\ knocks' \in [Endpoints -> Seq(Clients)]
    BY <2>1, <2>2, AcceptFacts
  <2>4. AskedInv'
    BY <2>1, <2>2, AskedAfterAccept
  <2>5. host' \in [Clients -> Pids \cup {0}]
    BY <1>6 DEF Join, IInv, TypeOK
  <2>6. TypeOK' /\ ForkedInv' /\ WaiterInv' /\ EntryInv'
    BY <1>6, <2>3, <2>5 DEF Join, IInv, TypeOK, ForkedInv, WaiterInv, EntryInv, Live,
                            procVars, waitVars
  <2>7. QED
    BY <2>4, <2>6 DEF IInv
<1>7. ASSUME NEW p \in Pids, Exit(p)
      PROVE  IInv'
  <2>1. /\ proc[p] = "listening"
        /\ proc' = [proc EXCEPT ![p] = "exited"]
        /\ phase' = [c \in Clients |-> IF c \in Guests(p) THEN "gone" ELSE phase[c]]
        /\ UNCHANGED <<servers, child, forked, lobbyOf, founder, waiter, target, made, knocks,
                       lobby, host>>
    BY <1>7 DEF Exit, waitVars
  <2>2. TypeOK'
    BY <2>1 DEF IInv, TypeOK, ProcStates, Phases
  <2>3. \A c \in Clients : phase'[c] = "outside" <=> phase[c] = "outside"
    BY <2>1 DEF Guests
  <2>4. ForkedInv' /\ WaiterInv' /\ EntryInv'
    BY <2>1, <2>3 DEF IInv, TypeOK, ForkedInv, WaiterInv, EntryInv, Live
  <2>5. \A e \in Endpoints : \A n \in 1 .. Len(knocks[e]) : knocks[e][n] \in Clients
    BY DEF IInv, TypeOK
  <2>6. AskedInv'
    BY <2>1, <2>3, <2>5 DEF IInv, AskedInv
  <2>7. QED
    BY <2>2, <2>4, <2>6 DEF IInv
<1>8. ASSUME NEW p \in Pids, ReadTarget(p)
      PROVE  IInv'
  <2>1. p <= forked /\ child \in Pids
    BY <1>8 DEF ReadTarget, IInv, TypeOK, WaiterInv, Pids
  <2>2. /\ waiter' = [waiter EXCEPT ![p] = "waiting"]
        /\ target' = [target EXCEPT ![p] = child]
        /\ UNCHANGED <<servers, child, forked, proc, lobbyOf, founder, made, knocks, phase,
                       lobby, host>>
    BY <1>8 DEF ReadTarget, procVars, clientVars
  <2>3. TypeOK' /\ WaiterInv'
    BY <2>1, <2>2 DEF IInv, TypeOK, WaiterInv
  <2>4. ForkedInv' /\ AskedInv' /\ EntryInv'
    BY <2>2 DEF IInv, ForkedInv, AskedInv, EntryInv, Live
  <2>5. QED
    BY <2>3, <2>4 DEF IInv
<1>9. ASSUME NEW p \in Pids, WaitReturns(p)
      PROVE  IInv'
  <2>1. /\ waiter[p] = "waiting"
        /\ target[p] \in Pids
        /\ proc[target[p]] \in {"exited", "reaped"}
        /\ proc' = [proc EXCEPT ![target[p]] = "reaped"]
        /\ waiter' = [waiter EXCEPT ![p] = "done"]
        /\ servers' = Cleared(target[p])
        /\ UNCHANGED <<child, forked, lobbyOf, founder, target, made, knocks, phase, lobby,
                       host>>
    BY <1>9 DEF WaitReturns, clientVars, IInv, WaiterInv
  <2>2. TypeOK'
    BY <2>1 DEF IInv, TypeOK, ProcStates, Cleared
  <2>3. ForkedInv' /\ WaiterInv' /\ AskedInv'
    BY <2>1 DEF IInv, TypeOK, ForkedInv, WaiterInv, AskedInv
  <2>4. EntryInv'
    <3>1. ASSUME NEW q \in Pids, Live(q)'
          PROVE  servers'[lobbyOf'[q]] = q
      <4>1. Live(q) /\ q # target[p]
        BY <2>1, <3>1 DEF Live, IInv, TypeOK
      <4>2. servers[lobbyOf[q]] = q /\ lobbyOf[q] \in Lobbies
        BY <4>1 DEF IInv, EntryInv, ForkedInv, Live
      <4>3. QED
        BY <2>1, <4>1, <4>2 DEF Cleared
    <3>2. QED
      BY <3>1 DEF EntryInv
  <2>5. QED
    BY <2>2, <2>3, <2>4 DEF IInv
<1>10. CASE UNCHANGED vars
  BY <1>10 DEF vars, procVars, waitVars, clientVars, IInv, TypeOK, ForkedInv, AskedInv,
               WaiterInv, EntryInv, Live
<1>11. QED
  BY <1>1, <1>2, <1>3, <1>4, <1>5, <1>6, <1>7, <1>8, <1>9, <1>10
     DEF Next, SuperStep, ChildStep
-----------------------------------------------------------------------------
\* The super server's table, the endpoints and the clients keep their types;
\* in particular the local that the waiting threads read is always the last
\* pid forked (superServer.c:67 and 83).
THEOREM TypeCorrect == Spec => []TypeOK
<1>1. IInv => TypeOK
  BY DEF IInv
<1>2. QED
  BY <1>1, InitIInv, StepIInv, PTL DEF Spec

\* No lobby has two live servers, whatever threads wait for which child
\* (superServer.c:60-84 and 94-107).
THEOREM OneServer == Spec => []OneServerPerLobby
<1>1. IInv => OneServerPerLobby
  BY DEF IInv, EntryInv, OneServerPerLobby
<1>2. QED
  BY <1>1, InitIInv, StepIInv, PTL DEF Spec
-----------------------------------------------------------------------------
\* An entry with a pid names a child of that lobby, whose endpoint exists once
\* the child has started.
NamedInv == \A j \in Lobbies : servers[j] \in Pids =>
    /\ servers[j] <= forked
    /\ lobbyOf[servers[j]] = j
    /\ proc[servers[j]] # "starting" => j \in made

\* A thread waits for its own child or for a later one; when it is done and has
\* waited for its own, no entry below the last names that child again.
OvertakenInv == \A p \in Pids :
    /\ waiter[p] \in {"waiting", "done"} => target[p] >= p
    /\ waiter[p] = "done" /\ target[p] = p =>
          \A j \in Lobbies : j < LastLobby => servers[j] # p

LEMMA InitEntries == Init => NamedInv /\ OvertakenInv
BY ListenLocationAssumption, BoundsAssumption DEF Init, NamedInv, OvertakenInv, Pids

LEMMA StepEntries ==
    IInv /\ NamedInv /\ OvertakenInv /\ [Next]_vars => NamedInv' /\ OvertakenInv'
<1> SUFFICES ASSUME IInv, NamedInv, OvertakenInv, [Next]_vars
             PROVE  NamedInv' /\ OvertakenInv'
  OBVIOUS
<1>1. ASSUME UNCHANGED <<servers, forked, proc, lobbyOf, waiter, target, made>>
      PROVE  NamedInv' /\ OvertakenInv'
  BY <1>1 DEF NamedInv, OvertakenInv
<1>2. ASSUME NEW c \in Clients, NEW j \in Lobbies, Ask(c, j)
      PROVE  NamedInv' /\ OvertakenInv'
  BY <1>1, <1>2 DEF Ask, procVars, waitVars
<1>3. CASE Redirect
  BY <1>1, <1>3 DEF Redirect, procVars, waitVars
<1>4. ASSUME NEW c \in Clients, Knock(c)
      PROVE  NamedInv' /\ OvertakenInv'
  BY <1>1, <1>4 DEF Knock, procVars, waitVars
<1>5. ASSUME NEW p \in Pids, Join(p)
      PROVE  NamedInv' /\ OvertakenInv'
  BY <1>1, <1>5 DEF Join, procVars, waitVars
<1>6. CASE Fork
  <2> DEFINE k == lobby[Head(knocks[0])]
             p == forked + 1
  <2>1. 0 \in Endpoints /\ "served" \in Phases \ {"outside"} /\ Accept(0, "served")
    BY <1>6 DEF Endpoints, Phases, Fork
  <2>2. k \in Lobbies
    BY <2>1, AcceptFacts
  <2>3. p \in Pids /\ p > forked /\ forked \in Nat
    BY <1>6, BoundsAssumption DEF Fork, IInv, TypeOK, Pids
  <2>4. /\ forked' = p
        /\ proc' = [proc EXCEPT ![p] = "starting"]
        /\ lobbyOf' = [lobbyOf EXCEPT ![p] = k]
        /\ servers' = [servers EXCEPT ![k] = p]
        /\ waiter' = [waiter EXCEPT ![p] = "created"]
        /\ UNCHANGED <<target, made>>
    BY <1>6 DEF Fork
  <2> HIDE DEF k, p
  <2>5. NamedInv'
    BY <2>2, <2>3, <2>4 DEF NamedInv, IInv, TypeOK, Pids, p
  <2>6. \A q \in Pids : waiter'[q] \in {"waiting", "done"} => waiter'[q] = waiter[q] /\ q # p
    BY <2>3, <2>4 DEF IInv, TypeOK
  <2>7. OvertakenInv'
    BY <2>2, <2>4, <2>6 DEF OvertakenInv, IInv, TypeOK
  <2>8. QED
    BY <2>5, <2>7
<1>7. ASSUME NEW p \in Pids, Listen(p)
      PROVE  NamedInv' /\ OvertakenInv'
  BY <1>7 DEF Listen, waitVars, NamedInv, OvertakenInv, IInv, TypeOK
<1>8. ASSUME NEW p \in Pids, Exit(p)
      PROVE  NamedInv' /\ OvertakenInv'
  BY <1>8 DEF Exit, waitVars, NamedInv, OvertakenInv, IInv, TypeOK
<1>9. ASSUME NEW p \in Pids, ReadTarget(p)
      PROVE  NamedInv' /\ OvertakenInv'
  <2>1. child = forked /\ p <= forked
    BY <1>9 DEF ReadTarget, IInv, TypeOK, WaiterInv
  <2>2. /\ waiter' = [waiter EXCEPT ![p] = "waiting"]
        /\ target' = [target EXCEPT ![p] = child]
        /\ UNCHANGED <<servers, forked, proc, lobbyOf, made>>
    BY <1>9 DEF ReadTarget, procVars
  <2>3. NamedInv'
    BY <2>2 DEF NamedInv
  <2>4. OvertakenInv'
    BY <2>1, <2>2 DEF OvertakenInv, IInv, TypeOK, Pids
  <2>5. QED
    BY <2>3, <2>4
<1>10. ASSUME NEW p \in Pids, WaitReturns(p)
       PROVE  NamedInv' /\ OvertakenInv'
  <2>1. /\ waiter[p] = "waiting"
        /\ target[p] \in Pids
        /\ proc[target[p]] # "starting"
        /\ proc' = [proc EXCEPT ![target[p]] = "reaped"]
        /\ waiter' = [waiter EXCEPT ![p] = "done"]
        /\ UNCHANGED <<forked, lobbyOf, target, made>>
    BY <1>10 DEF WaitReturns, IInv, WaiterInv
  <2>2. \A j \in Lobbies :
           /\ servers'[j] \in Pids => servers'[j] = servers[j]
           /\ j < LastLobby => servers'[j] # target[p]
    <3>1. servers' = [j \in Lobbies |->
                         IF servers[j] = target[p] /\ j < LastLobby THEN 0 ELSE servers[j]]
      BY <1>10 DEF WaitReturns, Cleared
    <3>2. 0 \notin Pids
      BY DEF Pids
    <3>3. QED
      BY <2>1, <3>1, <3>2
  <2>3. NamedInv'
    BY <2>1, <2>2 DEF NamedInv, IInv, TypeOK
  <2>4. OvertakenInv'
    BY <2>1, <2>2 DEF OvertakenInv, IInv, TypeOK
  <2>5. QED
    BY <2>3, <2>4
<1>11. CASE UNCHANGED vars
  BY <1>1, <1>11 DEF vars, procVars, waitVars
<1>12. QED
  BY <1>2, <1>3, <1>4, <1>5, <1>6, <1>7, <1>8, <1>9, <1>10, <1>11 DEF Next, SuperStep, ChildStep

\* A thread that is done leaves the entry of its own child behind only if a
\* later fork changed the local under it (superServer.c:83 and 94-107).
THEOREM OvertakenOnly == Spec => []OnlyOvertakenStay
<1>1. IInv /\ OvertakenInv => OnlyOvertakenStay
  BY DEF IInv, TypeOK, OvertakenInv, OnlyOvertakenStay, Pids
<1>2. QED
  BY <1>1, InitIInv, StepIInv, InitEntries, StepEntries, PTL DEF Spec

\* A client that follows an entry with a pid finds the endpoint, unless the
\* child that the entry names has not made it yet (superServer.c:60-77).
THEOREM CrashesWhileStarting == Spec => CrashOnlyWhileStarting
<1>1. ASSUME IInv, NamedInv, [Next]_vars,
             NEW c \in Clients, phase[c] # "crashed", phase'[c] = "crashed",
             servers[lobby[c]] \in Pids
      PROVE  \E p \in Pids : lobbyOf[p] = lobby[c] /\ proc[p] = "starting"
  <2>1. Knock(c) /\ lobby[c] \notin made
    <3>1. ASSUME NEW p \in {"redirected", "served", "joined"}, NEW e, Accept(e, p)
          PROVE  FALSE
      BY <1>1, <3>1 DEF Accept
    <3>2. ~(\E d \in Clients, j \in Lobbies : Ask(d, j))
      BY <1>1 DEF Ask, IInv, TypeOK
    <3>3. \A d \in Clients : Knock(d) => d = c /\ lobby[c] \notin made
      BY <1>1 DEF Knock, IInv, TypeOK
    <3>4. ASSUME NEW p \in Pids
          PROVE  ~Listen(p) /\ ~Join(p) /\ ~Exit(p) /\ ~ReadTarget(p) /\ ~WaitReturns(p)
      BY <1>1, <3>1 DEF Listen, Join, Exit, ReadTarget, WaitReturns, IInv, TypeOK, clientVars
    <3>5. ~Redirect /\ ~Fork
      BY <3>1 DEF Redirect, Fork
    <3>6. phase' # phase
      BY <1>1
    <3>7. QED
      BY <1>1, <3>2, <3>3, <3>4, <3>5, <3>6 DEF Next, SuperStep, ChildStep, vars, clientVars
  <2>2. lobby[c] \in Lobbies
    BY <1>1, <2>1 DEF Knock, IInv, AskedInv
  <2>3. QED
    BY <1>1, <2>1, <2>2 DEF NamedInv
<1>2. ASSUME IInv, NamedInv, [Next]_vars
      PROVE  [ \A c \in Clients : phase[c] # "crashed" /\ phase'[c] = "crashed" =>
                   \/ servers[lobby[c]] \notin Pids
                   \/ \E p \in Pids : lobbyOf[p] = lobby[c] /\ proc[p] = "starting" ]_vars
  BY <1>1, <1>2
<1>3. QED
  BY <1>2, InitIInv, StepIInv, InitEntries, StepEntries, PTL DEF Spec, CrashOnlyWhileStarting
=============================================================================
