----------------------------- MODULE DbService ------------------------------
(***************************************************************************)
(* What the functions of dbManager.c promise their callers: a call is      *)
(* executed once, on the table as it is at one moment between the call and *)
(* the return, and returns the answer of that execution.                   *)
(***************************************************************************)
EXTENDS AccountStore

CONSTANTS Callers, NoCall

VARIABLES store,    \* the player table
          stage,    \* stage[c]: "idle", "asked" or "executed"
          request,  \* the request of the call c makes or last made
          outcome,  \* what its execution answered
          answer    \* what the last call returned

serviceVars == <<store, stage, request, outcome, answer>>

Init == /\ store \in Stores
        /\ stage = [c \in Callers |-> "idle"]
        /\ request = [c \in Callers |-> NoCall]
        /\ outcome = [c \in Callers |-> 0]
        /\ answer = [c \in Callers |-> 0]

Ask(c, r) == /\ stage[c] = "idle"
             /\ stage' = [stage EXCEPT ![c] = "asked"]
             /\ request' = [request EXCEPT ![c] = r]
             /\ UNCHANGED <<store, outcome, answer>>

Execute(c) == /\ stage[c] = "asked"
              /\ stage' = [stage EXCEPT ![c] = "executed"]
              /\ \E ret \in ReturnOf(store, request[c]) :
                    outcome' = [outcome EXCEPT ![c] = Reading(request[c].type, ret)]
              /\ store' = StoreAfter(store, request[c])
              /\ UNCHANGED <<request, answer>>

Return(c) == /\ stage[c] = "executed"
             /\ stage' = [stage EXCEPT ![c] = "idle"]
             /\ answer' = [answer EXCEPT ![c] = outcome[c]]
             /\ UNCHANGED <<store, request, outcome>>

Next == \E c \in Callers : \/ \E r \in Requests : Ask(c, r)
                           \/ Execute(c)
                           \/ Return(c)

Spec == Init /\ [][Next]_serviceVars
=============================================================================
