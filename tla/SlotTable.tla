----------------------------- MODULE SlotTable -----------------------------
(***************************************************************************)
(* What a child server promises about its table of connected clients,     *)
(* whatever its threads do: a connection that reached the listening        *)
(* endpoint waits, then holds exactly one slot, then is gone.  It is never *)
(* dropped while it waits and never pushed out of its slot by another one. *)
(* The code that implements the promise is modelled in AcceptThread.       *)
(***************************************************************************)
EXTENDS Integers

CONSTANTS MaxPlayers,  \* MAX_PLAYERS, the number of slots
          Conns,       \* the connections that may ever reach this server
          Null         \* the content of an empty slot

VARIABLES clients,  \* clients[k]: the connection in slot k, or Null
          pending,  \* connections accepted by the kernel, not yet by the program
          gone      \* connections whose slot was cleared again

tableVars == <<clients, pending, gone>>

Slots == 0 .. MaxPlayers - 1
Seated == { clients[k] : k \in Slots } \ {Null}
FreeSlots == { k \in Slots : clients[k] = Null }

Init == /\ clients = [k \in Slots |-> Null]
        /\ pending = {}
        /\ gone = {}

\* A new connection reaches the listening endpoint.
Arrive(c) == /\ c \in Conns \ (pending \cup Seated \cup gone)
             /\ pending' = pending \cup {c}
             /\ UNCHANGED <<clients, gone>>

\* A waiting connection gets an empty slot: the first one as long as nobody
\* has left, later on some slot that was empty when the server looked.
Seat(c, k) == /\ c \in pending
              /\ clients[k] = Null
              /\ gone = {} => \A j \in Slots : j < k => clients[j] # Null
              /\ clients' = [clients EXCEPT ![k] = c]
              /\ pending' = pending \ {c}
              /\ UNCHANGED gone

\* The connection in slot k disconnects and its slot is cleared.
Leave(k) == /\ clients[k] # Null
            /\ clients' = [clients EXCEPT ![k] = Null]
            /\ gone' = gone \cup {clients[k]}
            /\ UNCHANGED pending

Next == \/ \E c \in Conns : Arrive(c)
        \/ \E c \in Conns, k \in Slots : Seat(c, k)
        \/ \E k \in Slots : Leave(k)

Spec == Init /\ [][Next]_tableVars
=============================================================================
