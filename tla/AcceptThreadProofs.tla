------------------------- MODULE AcceptThreadProofs -------------------------
(***************************************************************************)
(* Theorems about AcceptThread, for every table size and every set of      *)
(* connections.  IInv is inductive; ScanInv is the part of it that carries *)
(* what the scan has seen from one iteration to the next.                  *)
(***************************************************************************)
EXTENDS AcceptThread, TLAPS

LEMMA InitIInv == Init => IInv
BY MaxPlayersAssumption DEF Init, IInv, TypeOK, SeatIsFree, ScanInv, PassedInv, Slots

LEMMA StepIInv == IInv /\ [Next]_vars => IInv'
<1> SUFFICES ASSUME IInv, [Next]_vars
             PROVE  IInv'
  OBVIOUS
<1> USE MaxPlayersAssumption, NullAssumption
    DEF IInv, TypeOK, SeatIsFree, ScanInv, PassedInv, Slots
<1>1. ASSUME NEW c \in Conns, AcceptClient(c)
      PROVE  IInv'
  <2>1. nextEmpty \in Slots
    BY <1>1 DEF AcceptClient
  <2>2. TypeOK'
    BY <1>1, <2>1 DEF AcceptClient
  <2>3. QED
    BY <1>1, <2>1, <2>2 DEF AcceptClient
<1>2. CASE ScanSlot
  <2>1. i \in Slots /\ i' = i + 1 /\ at' = "scan" /\ clients' = clients
    BY <1>2 DEF ScanSlot
  <2>2. CASE clients[i] # Null
    BY <1>2, <2>1, <2>2 DEF ScanSlot
  <2>3. CASE clients[i] = Null
    BY <1>2, <2>1, <2>3 DEF ScanSlot
  <2>4. QED
    BY <2>2, <2>3
<1>3. CASE ScanDone
  BY <1>3 DEF ScanDone
<1>4. ASSUME NEW c \in Conns, Connect(c)
      PROVE  IInv'
  BY <1>4 DEF Connect, Table!Arrive
<1>5. ASSUME NEW k \in Slots, Disconnect(k)
      PROVE  IInv'
  <2>1. /\ clients' = [clients EXCEPT ![k] = Null]
        /\ gone' = gone \cup {clients[k]}
        /\ clients[k] \in Conns
        /\ UNCHANGED <<pending, at, i, nPlayers, nextEmpty>>
    BY <1>5 DEF Disconnect, Table!Leave
  <2>2. TypeOK'
    BY <2>1
  <2>3. QED
    BY <2>1, <2>2
<1>6. CASE UNCHANGED vars
  BY <1>6 DEF vars
<1>7. QED
  BY <1>1, <1>2, <1>3, <1>4, <1>5, <1>6 DEF Next, Accepting

\* The variables of the accept thread keep their types: nextEmpty, which only
\* the scan bounds (childServer.c:319-328), never leaves 0 .. MaxPlayers.
THEOREM TypeCorrect == Spec => []TypeOK
<1>1. IInv => TypeOK
  BY DEF IInv
<1>2. QED
  BY <1>1, InitIInv, StepIInv, PTL DEF Spec

\* The slot that childServer.c:316 overwrites is always an empty one.
THEOREM SeatAlwaysFree == Spec => []SeatIsFree
<1>1. IInv => SeatIsFree
  BY DEF IInv
<1>2. QED
  BY <1>1, InitIInv, StepIInv, PTL DEF Spec

LEMMA StepRefines == IInv /\ [Next]_vars => [Table!Next]_<<clients, pending, gone>>
<1> SUFFICES ASSUME IInv, [Next]_vars
             PROVE  [Table!Next]_<<clients, pending, gone>>
  OBVIOUS
<1>1. ASSUME NEW c \in Conns, AcceptClient(c)
      PROVE  Table!Next
  <2>1. nextEmpty \in Table!Slots /\ Table!Seat(c, nextEmpty)
    BY <1>1 DEF AcceptClient, IInv, SeatIsFree, PassedInv, Table!Seat, Table!Slots, Slots
  <2>2. QED
    BY <2>1 DEF Table!Next
<1>2. CASE ScanSlot \/ ScanDone
  BY <1>2 DEF ScanSlot, ScanDone
<1>3. ASSUME NEW c \in Conns, Connect(c)
      PROVE  Table!Next
  BY <1>3 DEF Connect, Table!Next
<1>4. ASSUME NEW k \in Slots, Disconnect(k)
      PROVE  Table!Next
  BY <1>4 DEF Disconnect, Table!Next, Slots, Table!Slots
<1>5. CASE UNCHANGED vars
  BY <1>5 DEF vars
<1>6. QED
  BY <1>1, <1>2, <1>3, <1>4, <1>5 DEF Next, Accepting

\* The thread implements SlotTable: no interleaving of its scan with
\* disconnect loses a connection or throws a seated one out.
THEOREM AcceptThreadImplementsTable == Spec => ImplementsTable
<1>1. Init => Table!Init
  BY DEF Init, Table!Init, Slots, Table!Slots
<1>2. QED
  BY <1>1, InitIInv, StepIInv, StepRefines, PTL
     DEF Spec, ImplementsTable, Table!Spec, Table!tableVars
=============================================================================
