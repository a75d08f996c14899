----------------------------- MODULE DbChannel ------------------------------
(***************************************************************************)
(* The shared-memory channel between the child servers and the database    *)
(* process: one request slot, one mutex and two condition variables, all   *)
(* in an anonymous shared mapping (superServer.c:21-34).  dbManager.c is   *)
(* the callers' side, manageDataBase in db.c the other.  A caller is a     *)
(* thread of any child server.                                             *)
(*                                                                         *)
(* pthread_cond_wait releases the mutex and sleeps in one step, may return *)
(* spuriously, and takes the mutex again before it returns.                *)
(* pthread_cond_signal wakes one sleeper, if there is one.                 *)
(*                                                                         *)
(* A child server may die anywhere in its call.  The mutex is shared by    *)
(* processes but not robust: a mutex whose owner has died stays locked.  A *)
(* sleeper that has died is still counted, and may swallow a signal.       *)
(***************************************************************************)
EXTENDS AccountStore

CONSTANTS Callers,  \* the threads that call dbManager.c
          Mortals,  \* those whose process may die inside a call
          Db,       \* the database process, as an owner of the mutex
          Nobody,   \* the owner of a free mutex
          NoCall    \* the request of a caller that has made none

ASSUME OwnersAssumption == Db \notin Callers /\ Nobody \notin Callers /\ Db # Nobody
ASSUME MortalsAssumption == Mortals \subseteq Callers
ASSUME NoCallAssumption == NoCall \notin Requests

VARIABLES store,    \* the player table
          shm,      \* the request slot: type, user, arg and ret
          mutex,    \* who holds the mutex
          pc,       \* pc[c]: where the caller is
          call,     \* call[c]: the request of its current or last call
          answer,   \* answer[c]: what its last call returned
          dbpc,     \* where the database process is
          writer,   \* history: the caller whose request is in the slot
          served,   \* history: how often the current call has been executed
          outcome   \* history: what its execution answered

vars == <<store, shm, mutex, pc, call, answer, dbpc, writer, served, outcome>>

Holding == {"locked", "typed", "written", "testing"}
Dead == {"dead", "deadAsleep"}
CallerPlaces == {"idle", "waiting", "woken"} \cup Holding \cup Dead
DbPlaces == {"locking", "testing", "waiting", "serving", "signalling"}
Types == {"READY", "ISUSER", "ISPASSWORD", "GETHIGHSCORE", "SETHIGHSCORE", "CREATEUSER"}

\* The request that stands in the slot.
Slot == [type |-> shm.type, user |-> shm.user, arg |-> shm.arg]

\* main zeroes the mapping (TYPEPOS 0 is READY) and forks the database process.
Init == /\ store \in Stores
        /\ shm \in [type : {"READY"}, user : Users, arg : {NoArg}, ret : {Byte(0)}]
        /\ mutex = Nobody
        /\ pc = [c \in Callers |-> "idle"]
        /\ call = [c \in Callers |-> NoCall]
        /\ answer = [c \in Callers |-> 0]
        /\ dbpc = "locking"
        /\ writer = Nobody
        /\ served = [c \in Callers |-> 0]
        /\ outcome = [c \in Callers |-> 0]
-----------------------------------------------------------------------------
(* The callers' side: the five functions of dbManager.c differ only in the *)
(* type and the arguments they write and in how they read the answer.      *)

\* Mutant of Lock: pthread_mutex_lock is forgotten.
LockSkipped(c, r) == /\ pc[c] = "idle"
                     /\ pc' = [pc EXCEPT ![c] = "locked"]
                     /\ call' = [call EXCEPT ![c] = r]
                     /\ served' = [served EXCEPT ![c] = 0]
                     /\ UNCHANGED <<store, shm, mutex, answer, dbpc, writer, outcome>>

\* pthread_mutex_lock on entry.
Lock(c, r) == /\ pc[c] = "idle"
              /\ mutex = Nobody
              /\ mutex' = c
              /\ pc' = [pc EXCEPT ![c] = "locked"]
              /\ call' = [call EXCEPT ![c] = r]
              /\ served' = [served EXCEPT ![c] = 0]
              /\ UNCHANGED <<store, shm, answer, dbpc, writer, outcome>>

\* shmPointer[TYPEPOS] = ...
WriteType(c) == /\ pc[c] = "locked"
                /\ pc' = [pc EXCEPT ![c] = "typed"]
                /\ shm' = [shm EXCEPT !.type = call[c].type]
                /\ UNCHANGED <<store, mutex, call, answer, dbpc, writer, served, outcome>>

\* The memcpy or sprintf of the arguments.  A request with one argument leaves
\* the second as it was; the model forgets it, since no such request reads it.
WriteArguments(c) == /\ pc[c] = "typed"
                     /\ pc' = [pc EXCEPT ![c] = "written"]
                     /\ shm' = [shm EXCEPT !.user = call[c].user, !.arg = call[c].arg]
                     /\ writer' = c
                     /\ UNCHANGED <<store, mutex, call, answer, dbpc, served, outcome>>

\* Mutant of SignalDb: the signal goes to the wrong condition variable.
SignalDbLost(c) == /\ pc[c] = "written"
                   /\ pc' = [pc EXCEPT ![c] = "testing"]
                   /\ UNCHANGED <<store, shm, mutex, call, answer, dbpc, writer, served, outcome>>

\* pthread_cond_signal(cond): the database process, if it sleeps, must relock.
SignalDb(c) == /\ pc[c] = "written"
               /\ pc' = [pc EXCEPT ![c] = "testing"]
               /\ dbpc' = IF dbpc = "waiting" THEN "locking" ELSE dbpc
               /\ UNCHANGED <<store, shm, mutex, call, answer, writer, served, outcome>>

\* while(shmPointer[TYPEPOS] != READY) pthread_cond_wait(ready, mutex)
Wait(c) == /\ pc[c] = "testing"
           /\ shm.type # "READY"
           /\ pc' = [pc EXCEPT ![c] = "waiting"]
           /\ mutex' = Nobody
           /\ UNCHANGED <<store, shm, call, answer, dbpc, writer, served, outcome>>

\* A spurious return of pthread_cond_wait; a signal has the same effect.
WakeUp(c) == /\ pc[c] = "waiting"
             /\ pc' = [pc EXCEPT ![c] = "woken"]
             /\ UNCHANGED <<store, shm, mutex, call, answer, dbpc, writer, served, outcome>>

\* pthread_cond_wait takes the mutex again.
Relock(c) == /\ pc[c] = "woken"
             /\ mutex = Nobody
             /\ mutex' = c
             /\ pc' = [pc EXCEPT ![c] = "testing"]
             /\ UNCHANGED <<store, shm, call, answer, dbpc, writer, served, outcome>>

\* The slot is READY: read the answer, unlock, return.
Return(c) == /\ pc[c] = "testing"
             /\ shm.type = "READY"
             /\ pc' = [pc EXCEPT ![c] = "idle"]
             /\ answer' = [answer EXCEPT ![c] = Reading(call[c].type, shm.ret)]
             /\ mutex' = Nobody
             /\ UNCHANGED <<store, shm, call, dbpc, writer, served, outcome>>

\* Mutant of Die: the mutex is released when its owner dies.
DieUnlocks(c) == /\ c \in Mortals
                 /\ pc[c] \notin Dead \cup {"idle"}
                 /\ pc' = [pc EXCEPT ![c] = IF @ = "waiting" THEN "deadAsleep" ELSE "dead"]
                 /\ mutex' = IF mutex = c THEN Nobody ELSE mutex
                 /\ UNCHANGED <<store, shm, call, answer, dbpc, writer, served, outcome>>

\* The process of the caller dies: what it wrote stays, and so does its lock.
Die(c) == /\ c \in Mortals
          /\ pc[c] \notin Dead \cup {"idle"}
          /\ pc' = [pc EXCEPT ![c] = IF @ = "waiting" THEN "deadAsleep" ELSE "dead"]
          /\ UNCHANGED <<store, shm, mutex, call, answer, dbpc, writer, served, outcome>>
-----------------------------------------------------------------------------
(* The database process: the loop of manageDataBase.                       *)

\* Mutant of DbLock: the slot is looked at without the lock.
DbLockSkipped == /\ dbpc = "locking"
                 /\ dbpc' = "testing"
                 /\ UNCHANGED <<store, shm, mutex, pc, call, answer, writer, served, outcome>>

\* pthread_mutex_lock at the top of the loop, or inside pthread_cond_wait.
DbLock == /\ dbpc = "locking"
          /\ mutex = Nobody
          /\ mutex' = Db
          /\ dbpc' = "testing"
          /\ UNCHANGED <<store, shm, pc, call, answer, writer, served, outcome>>

\* while(shmPointer[TYPEPOS] == READY) pthread_cond_wait(cond, mutex)
DbTest == /\ dbpc = "testing"
          /\ IF shm.type = "READY"
             THEN dbpc' = "waiting" /\ mutex' = Nobody
             ELSE dbpc' = "serving" /\ UNCHANGED mutex
          /\ UNCHANGED <<store, shm, pc, call, answer, writer, served, outcome>>

\* A spurious return of pthread_cond_wait.
DbWakeUp == /\ dbpc = "waiting"
            /\ dbpc' = "locking"
            /\ UNCHANGED <<store, shm, mutex, pc, call, answer, writer, served, outcome>>

\* Mutant of DbServe: the slot is not marked READY again.
DbServeAgain == /\ dbpc = "serving"
                /\ dbpc' = "signalling"
                /\ \E ret \in ReturnOf(store, Slot) :
                      /\ shm' = [shm EXCEPT !.ret = ret]
                      /\ outcome' = [outcome EXCEPT ![writer] = Reading(shm.type, ret)]
                /\ store' = StoreAfter(store, Slot)
                /\ served' = [served EXCEPT ![writer] = @ + 1]
                /\ UNCHANGED <<mutex, pc, call, answer, writer>>

\* The switch: execute the request in the slot, answer, mark the slot READY.
DbServe == /\ dbpc = "serving"
           /\ dbpc' = "signalling"
           /\ \E ret \in ReturnOf(store, Slot) :
                 /\ shm' = [shm EXCEPT !.type = "READY", !.ret = ret]
                 /\ outcome' = [outcome EXCEPT ![writer] = Reading(shm.type, ret)]
           /\ store' = StoreAfter(store, Slot)
           /\ served' = [served EXCEPT ![writer] = @ + 1]
           /\ UNCHANGED <<mutex, pc, call, answer, writer>>

Sleepers == { c \in Callers : pc[c] \in {"waiting", "deadAsleep"} }

\* pc once the signal has gone to the sleeper c.
Woken(c) == [pc EXCEPT ![c] = IF @ = "waiting" THEN "woken" ELSE "dead"]

\* Mutant of DbSignal: the signal goes to the wrong condition variable.
DbSignalLost == /\ dbpc = "signalling"
                /\ dbpc' = "locking"
                /\ mutex' = Nobody
                /\ UNCHANGED <<store, shm, pc, call, answer, writer, served, outcome>>

\* pthread_cond_signal(ready) wakes one of the sleeping callers; unlock.
DbSignal == /\ dbpc = "signalling"
            /\ dbpc' = "locking"
            /\ mutex' = Nobody
            /\ \/ Sleepers = {} /\ UNCHANGED pc
               \/ \E c \in Sleepers : pc' = Woken(c)
            /\ UNCHANGED <<store, shm, call, answer, writer, served, outcome>>
-----------------------------------------------------------------------------
CallerStep(c) == \/ WriteType(c) \/ WriteArguments(c) \/ SignalDb(c)
                 \/ Wait(c) \/ Relock(c) \/ Return(c)

DbStep == DbLock \/ DbTest \/ DbServe \/ DbSignal

Next == \/ DbStep
        \/ DbWakeUp
        \/ \E c \in Callers : \/ CallerStep(c)
                              \/ WakeUp(c)
                              \/ Die(c)
                              \/ \E r \in Requests : Lock(c, r)

Spec == Init /\ [][Next]_vars

\* The kernel runs every thread that can run, and hands a mutex that is free
\* again and again to each thread that asks for it.  Nothing makes a thread
\* call or die, and nothing makes a wait return spuriously.
FairSpec == /\ Spec
            /\ SF_vars(DbStep)
            /\ \A c \in Callers : SF_vars(CallerStep(c))
-----------------------------------------------------------------------------
TypeOK == /\ store \in Stores
          /\ shm \in [type : Types, user : Users,
                      arg : Passwords \cup Scores \cup {NoArg}, ret : Returns]
          /\ mutex \in Callers \cup {Db, Nobody}
          /\ pc \in [Callers -> CallerPlaces]
          /\ call \in [Callers -> Requests \cup {NoCall}]
          /\ answer \in [Callers -> Scores \cup {0, 1}]
          /\ dbpc \in DbPlaces
          /\ writer \in Callers \cup {Nobody}
          /\ served \in [Callers -> Nat]
          /\ outcome \in [Callers -> Scores \cup {0, 1}]

\* The database executes only complete requests, and only while the caller
\* that wrote the one in the slot is still inside its call, waiting or dead:
\* however many child servers write the single slot, and wherever they die,
\* type and arguments never come from two calls, from a call that has
\* returned, or from one that died before all of it was written.
OnlyWholeRequestsServed ==
    dbpc = "serving" => /\ writer \in Callers
                        /\ pc[writer] \in {"waiting", "woken"} \cup Dead
                        /\ Slot = call[writer]

\* A caller died between its lock and its unlock.
DiedHolding == mutex \in Callers /\ pc[mutex] \in Dead

\* A slot that is taken becomes free again, whoever sleeps, wakes up or dies,
\* unless somebody died with the mutex, which nobody gets any more then.
SlotIsFreed == shm.type # "READY" ~> (shm.type = "READY" \/ DiedHolding)

\* From then on no lobby's call returns and nothing is executed.
DeadLockStays == [][DiedHolding => UNCHANGED <<store, shm, mutex, answer>>]_vars

\* No request is executed twice, although a waiting caller wakes up and sleeps
\* again any number of times and the database finds the slot as it left it.
ServedAtMostOnce == \A c \in Callers : served[c] <= 1

\* A call that has returned was executed, and returned that execution's answer.
OwnAnswer == \A c \in Callers :
    pc[c] = "idle" /\ call[c] # NoCall => served[c] = 1 /\ answer[c] = outcome[c]

\* Every call returns.
EveryCallReturns == \A c \in Callers : pc[c] # "idle" ~> pc[c] = "idle"

\* How far the channel has brought c's call, seen from the caller.
Stage(c) == IF pc[c] = "idle" THEN "idle"
            ELSE IF served[c] = 0 THEN "asked" ELSE "executed"

Service == INSTANCE DbService WITH stage <- [c \in Callers |-> Stage(c)],
                                   request <- call

\* With a single caller the channel implements the promise of DbService: each
\* call takes effect once, at one moment inside it, and returns that answer.
ImplementsService == Service!Spec
-----------------------------------------------------------------------------
\* The mutex is held by the thread that stands between a lock and an unlock, or
\* by one that died there.
MutexInv == /\ \A c \in Callers :
                  /\ pc[c] \in Holding => mutex = c
                  /\ mutex = c => pc[c] \in Holding \cup {"dead"}
            /\ mutex = Db <=> dbpc \in {"testing", "serving", "signalling"}

\* A slot that is not READY holds the type of a request being written, or a
\* whole request whose caller is inside its call and has not been served.
SlotInv == /\ dbpc = "serving" => shm.type # "READY"
           /\ \A c \in Callers :
                 /\ pc[c] # "idle" => call[c] \in Requests
                 /\ pc[c] \in {"locked", "typed", "written"} => served[c] = 0
                 /\ pc[c] = "typed" => shm.type = call[c].type
           /\ \/ shm.type = "READY"
              \/ mutex \in Callers /\ pc[mutex] \in {"typed", "dead"}
              \/ /\ writer \in Callers
                 /\ pc[writer] \in {"written", "testing", "waiting", "woken"} \cup Dead
                 /\ Slot = call[writer]
                 /\ served[writer] = 0

IInv == TypeOK /\ MutexInv /\ SlotInv /\ ServedAtMostOnce

\* With a single caller the slot is not READY exactly from the moment the
\* caller writes the type until the database answers, and nothing overwrites
\* the answer before the caller has read it.
SingleInv == \A c \in Callers :
    /\ pc[c] \in {"idle", "locked"} => shm.type = "READY"
    /\ pc[c] \in {"typed", "written"} => shm.type # "READY"
    /\ pc[c] \in {"testing", "waiting", "woken"} =>
          shm.type = "READY" <=> served[c] = 1
    /\ pc[c] \notin {"idle", "locked", "typed"} \cup Dead =>
          /\ writer = c
          /\ served[c] = 1 => outcome[c] = Reading(call[c].type, shm.ret)
=============================================================================
