---------------------------- MODULE AcceptThread ----------------------------
(***************************************************************************)
(* The thread listenNewClients of a child server (childServer.c:303-331)   *)
(* and what the thread that reads requests does to the table it scans: a   *)
(* call of disconnect may clear any slot between two iterations of the     *)
(* scan.  Neither thread takes a lock.  One step is one iteration.         *)
(*                                                                         *)
(* The order in which the kernel queues connections is not modelled.       *)
(***************************************************************************)
EXTENDS Integers

CONSTANTS MaxPlayers,  \* MAX_PLAYERS, the number of slots
          Conns,       \* the connections that may ever reach this server
          Null         \* the content of an empty slot

ASSUME MaxPlayersAssumption == MaxPlayers \in Nat \ {0}
ASSUME NullAssumption == Null \notin Conns

VARIABLES clients,    \* clients[k]: the connection in slot k, or Null
          pending,    \* connections the kernel holds until acceptConnection
          gone,       \* connections that have been disconnected
          at,         \* "accept": blocked in acceptConnection; "scan": in the loop
          i,          \* the loop's index
          nPlayers,   \* the clients the scan has counted so far
          nextEmpty   \* the slot the next connection will be stored in

vars == <<clients, pending, gone, at, i, nPlayers, nextEmpty>>

Slots == 0 .. MaxPlayers - 1

Table == INSTANCE SlotTable

\* initServer empties the table; the thread starts with both counters at 0, so
\* its first test of nPlayers < MAX_PLAYERS sends it to acceptConnection.
Init == /\ clients = [k \in Slots |-> Null]
        /\ pending = {}
        /\ gone = {}
        /\ at = "accept"
        /\ i = 0
        /\ nPlayers = 0
        /\ nextEmpty = 0

\* A client connects to this server's endpoint.
Connect(c) == /\ Table!Arrive(c)
              /\ UNCHANGED <<at, i, nPlayers, nextEmpty>>

\* acceptConnection returns; the new client is stored without looking at what
\* the slot holds, and the count starts again.
AcceptClient(c) == /\ at = "accept"
                   /\ c \in pending
                   /\ pending' = pending \ {c}
                   /\ clients' = [clients EXCEPT ![nextEmpty] = c]
                   /\ at' = "scan"
                   /\ i' = 0
                   /\ nPlayers' = 0
                   /\ UNCHANGED <<gone, nextEmpty>>

\* Mutant of ScanSlot: a lower empty slot does not pull nextEmpty back.
ScanSlotForward == /\ at = "scan"
                   /\ i < MaxPlayers
                   /\ i' = i + 1
                   /\ IF clients[i] # Null
                      THEN /\ nPlayers' = nPlayers + 1
                           /\ nextEmpty' = IF nextEmpty = i THEN nextEmpty + 1 ELSE nextEmpty
                      ELSE UNCHANGED <<nPlayers, nextEmpty>>
                   /\ UNCHANGED <<clients, pending, gone, at>>

\* Mutant of ScanSlot: nextEmpty does not step over the slot just filled.
ScanSlotStuck == /\ at = "scan"
                 /\ i < MaxPlayers
                 /\ i' = i + 1
                 /\ IF clients[i] # Null
                    THEN nPlayers' = nPlayers + 1 /\ UNCHANGED nextEmpty
                    ELSE /\ nPlayers' = nPlayers
                         /\ nextEmpty' = IF nextEmpty > i THEN i ELSE nextEmpty
                 /\ UNCHANGED <<clients, pending, gone, at>>

\* One iteration of the scan.
ScanSlot == /\ at = "scan"
            /\ i < MaxPlayers
            /\ i' = i + 1
            /\ IF clients[i] # Null
               THEN /\ nPlayers' = nPlayers + 1
                    /\ nextEmpty' = IF nextEmpty = i THEN nextEmpty + 1 ELSE nextEmpty
               ELSE /\ nPlayers' = nPlayers
                    /\ nextEmpty' = IF nextEmpty > i THEN i ELSE nextEmpty
            /\ UNCHANGED <<clients, pending, gone, at>>

\* Mutant of ScanDone: a rescan goes on counting where the last one stopped.
ScanDoneNoReset == /\ at = "scan"
                   /\ i = MaxPlayers
                   /\ IF nPlayers < MaxPlayers
                      THEN at' = "accept" /\ UNCHANGED i
                      ELSE i' = 0 /\ UNCHANGED at
                   /\ UNCHANGED <<clients, pending, gone, nPlayers, nextEmpty>>

\* Mutant of ScanDone: the thread gives up when the table is full.
ScanDoneGiveUp == /\ at = "scan"
                  /\ i = MaxPlayers
                  /\ nPlayers < MaxPlayers
                  /\ at' = "accept"
                  /\ UNCHANGED <<clients, pending, gone, i, nPlayers, nextEmpty>>

\* The scan is over: accept again if it counted a free slot, else rescan.
ScanDone == /\ at = "scan"
            /\ i = MaxPlayers
            /\ IF nPlayers < MaxPlayers
               THEN at' = "accept" /\ UNCHANGED <<i, nPlayers>>
               ELSE i' = 0 /\ nPlayers' = 0 /\ UNCHANGED at
            /\ UNCHANGED <<clients, pending, gone, nextEmpty>>

\* The other thread's disconnect(k), of which the scan sees only the last line.
Disconnect(k) == /\ Table!Leave(k)
                 /\ UNCHANGED <<at, i, nPlayers, nextEmpty>>

Accepting == \/ \E c \in Conns : AcceptClient(c)
             \/ ScanSlot
             \/ ScanDone

Next == \/ Accepting
        \/ \E c \in Conns : Connect(c)
        \/ \E k \in Slots : Disconnect(k)

Spec == Init /\ [][Next]_vars

\* The thread is scheduled by the kernel and never blocks for good except in
\* accept; players connect and leave as they like.
FairSpec == Spec /\ WF_vars(Accepting)
-----------------------------------------------------------------------------
\* Every variable has its type; nextEmpty may stand one past the last slot.
TypeOK == /\ clients \in [Slots -> Conns \cup {Null}]
          /\ pending \subseteq Conns
          /\ gone \subseteq Conns
          /\ at \in {"accept", "scan"}
          /\ i \in 0 .. MaxPlayers
          /\ nPlayers \in 0 .. MaxPlayers
          /\ nextEmpty \in 0 .. MaxPlayers

\* When the thread waits for a connection, the slot it is going to store it in
\* (childServer.c:316) exists and is empty, although the scan that chose the
\* slot ran while disconnect was clearing others.
SeatIsFree == at = "accept" => nextEmpty \in Slots /\ clients[nextEmpty] = Null

\* The server implements the promise of SlotTable: a connection waits, holds
\* one slot, leaves; no step of the scan throws a waiting or seated one out.
ImplementsTable == Table!Spec

\* A connection that waits while a slot is free does not wait for ever: the
\* thread, which spins over a full table and may stand in accept with a choice
\* made earlier, fills the free slots or empties the queue.
FreeSeatIsFilled ==
    pending # {} /\ Table!FreeSlots # {} ~> pending = {} \/ Table!FreeSlots = {}
-----------------------------------------------------------------------------
\* What the scan knows half way: an index below i that it still points at is
\* an empty slot, and it points below i as soon as it has seen an empty one.
ScanInv == at = "scan" =>
    /\ nPlayers <= i
    /\ nextEmpty < i => clients[nextEmpty] = Null
    /\ nPlayers < i => nextEmpty < i

\* nextEmpty has passed only slots that were taken.
PassedInv == gone = {} => \A j \in Slots : j < nextEmpty => clients[j] # Null

IInv == TypeOK /\ SeatIsFree /\ ScanInv /\ PassedInv
=============================================================================
