-------------------------- MODULE DbChannelProofs ---------------------------
(***************************************************************************)
(* Theorems about DbChannel, for every set of accounts and of callers.     *)
(* The safety of the single slot rests on MutexInv (who may touch it) and  *)
(* SlotInv (what may stand in it).  The refinement of DbService is proved  *)
(* for a single caller: the model checker refutes it for two.              *)
(***************************************************************************)
EXTENDS DbChannel, TLAPS

\* A request of a known type has the arguments that type reads.
LEMMA RequestFields ==
    ASSUME NEW r \in Requests
    PROVE  /\ r.type \in Types \ {"READY"}
           /\ r.user \in Users
           /\ r.arg \in Passwords \cup Scores \cup {NoArg}
           /\ r.type = "CREATEUSER" => r.arg \in Passwords
BY DEF Requests, Types

\* The switch of manageDataBase answers every request with a byte or a score.
LEMMA ReturnType ==
    ASSUME NEW s \in Stores, NEW r \in Requests, NEW ret \in ReturnOf(s, r)
    PROVE  ret \in Returns
<1> USE ScoresAssumption DEF Byte, Text, Returns
<1>1. r.type \in Types \ {"READY"} /\ r.user \in Users
  BY RequestFields
<1>2. s[r.user] \in Accounts \cup {NoAccount}
  BY <1>1 DEF Stores
<1>3. CASE r.type = "ISUSER"
  BY <1>3 DEF ReturnOf, isUser
<1>4. CASE r.type = "ISPASSWORD"
  BY <1>4 DEF ReturnOf, isPassword
<1>5. CASE r.type = "GETHIGHSCORE"
  <2>1. getHighscore(s, r.user) \in Scores
    BY <1>2 DEF getHighscore, Accounts
  <2>2. QED
    BY <1>5, <2>1 DEF ReturnOf
<1>6. CASE r.type = "CREATEUSER"
  BY <1>6 DEF ReturnOf, createUser
<1>7. CASE r.type = "SETHIGHSCORE"
  BY <1>7 DEF ReturnOf
<1>8. QED
  BY <1>1, <1>3, <1>4, <1>5, <1>6, <1>7 DEF Types

LEMMA ReadingType ==
    ASSUME NEW ret \in Returns, NEW t
    PROVE  Reading(t, ret) \in Scores \cup {0, 1}
BY DEF Reading, Returns

LEMMA StoreAfterType ==
    ASSUME NEW s \in Stores, NEW r \in Requests
    PROVE  StoreAfter(s, r) \in Stores
<1>1. CASE r.type = "CREATEUSER" /\ s[r.user] = NoAccount
  <2>1. [pass |-> r.arg, score |-> 0] \in Accounts
    BY <1>1, RequestFields, ScoresAssumption DEF Accounts
  <2>2. QED
    BY <1>1, <2>1, RequestFields DEF StoreAfter, Stores
<1>2. CASE ~(r.type = "CREATEUSER" /\ s[r.user] = NoAccount)
  BY <1>2 DEF StoreAfter
<1>3. QED
  BY <1>1, <1>2
-----------------------------------------------------------------------------
LEMMA InitIInv == Init => IInv
BY OwnersAssumption, ScoresAssumption
   DEF Init, IInv, TypeOK, MutexInv, SlotInv, ServedAtMostOnce, Types, Byte, Returns,
       CallerPlaces, DbPlaces, Holding, Dead

\* While the database executes, the slot holds the request of a caller that
\* waits for it.
LEMMA ServedRequest ==
    ASSUME IInv, dbpc = "serving"
    PROVE  /\ writer \in Callers
           /\ pc[writer] \in {"waiting", "woken"} \cup Dead
           /\ Slot = call[writer]
           /\ Slot \in Requests
           /\ served[writer] = 0
           /\ mutex = Db
<1>1. mutex = Db /\ mutex \notin Callers
  BY OwnersAssumption DEF IInv, MutexInv
<1>2. /\ writer \in Callers
      /\ pc[writer] \in {"written", "testing", "waiting", "woken"} \cup Dead
      /\ Slot = call[writer]
      /\ served[writer] = 0
  BY <1>1 DEF IInv, SlotInv
<1>3. pc[writer] \notin {"written", "testing"}
  BY <1>1, <1>2 DEF IInv, MutexInv, Holding
<1>4. call[writer] \in Requests
  BY <1>2 DEF IInv, SlotInv, Dead
<1>5. QED
  BY <1>1, <1>2, <1>3, <1>4

LEMMA CallerStepIInv ==
    ASSUME IInv, NEW c \in Callers,
           \/ CallerStep(c)
           \/ WakeUp(c)
           \/ Die(c)
           \/ \E r \in Requests : Lock(c, r)
    PROVE  IInv'
<1> USE OwnersAssumption
    DEF IInv, TypeOK, MutexInv, SlotInv, ServedAtMostOnce, CallerPlaces, DbPlaces,
        Holding, Dead, Slot
<1>1. ASSUME NEW r \in Requests, Lock(c, r)
      PROVE  IInv'
  BY <1>1 DEF Lock
<1>2. CASE WriteType(c)
  <2>1. call[c] \in Requests /\ call[c].type \in Types \ {"READY"}
    BY <1>2, RequestFields DEF WriteType
  <2>2. mutex = c
    BY <1>2 DEF WriteType
  <2>3. QED
    BY <1>2, <2>1, <2>2 DEF WriteType
<1>3. CASE WriteArguments(c)
  <2>1. /\ call[c] \in Requests
        /\ call[c].user \in Users
        /\ call[c].arg \in Passwords \cup Scores \cup {NoArg}
    BY <1>3, RequestFields DEF WriteArguments
  <2>2. call[c] = [type |-> call[c].type, user |-> call[c].user, arg |-> call[c].arg]
    BY <2>1 DEF Requests
  <2>3. mutex = c /\ shm.type = call[c].type
    BY <1>3 DEF WriteArguments
  <2>4. TypeOK' /\ MutexInv' /\ ServedAtMostOnce'
    BY <1>3, <2>1 DEF WriteArguments
  <2>5. Slot' = call[c]
    BY <1>3, <2>2, <2>3 DEF WriteArguments
  <2>6. SlotInv'
    BY <1>3, <2>1, <2>3, <2>5 DEF WriteArguments
  <2>7. QED
    BY <2>4, <2>6
<1>4. CASE SignalDb(c)
  BY <1>4 DEF SignalDb
<1>5. CASE Wait(c)
  BY <1>5 DEF Wait
<1>6. CASE WakeUp(c)
  BY <1>6 DEF WakeUp
<1>7. CASE Relock(c)
  BY <1>7 DEF Relock
<1>8. CASE Return(c)
  <2>1. Reading(call[c].type, shm.ret) \in Scores \cup {0, 1}
    BY ReadingType
  <2>2. QED
    BY <1>8, <2>1 DEF Return
<1>9. CASE Die(c)
  BY <1>9 DEF Die
<1>10. QED
  BY <1>1, <1>2, <1>3, <1>4, <1>5, <1>6, <1>7, <1>8, <1>9 DEF CallerStep

LEMMA DbStepIInv ==
    ASSUME IInv, DbStep \/ DbWakeUp
    PROVE  IInv'
<1>1. CASE DbServe
  <2> USE OwnersAssumption
  <2>0. dbpc = "serving"
    BY <1>1 DEF DbServe
  <2>1. /\ writer \in Callers
        /\ pc[writer] \in {"waiting", "woken"} \cup Dead
        /\ Slot \in Requests
        /\ served[writer] = 0
        /\ mutex = Db
    BY <2>0, ServedRequest
  <2>2. PICK ret \in ReturnOf(store, Slot) :
            /\ shm' = [shm EXCEPT !.type = "READY", !.ret = ret]
            /\ outcome' = [outcome EXCEPT ![writer] = Reading(shm.type, ret)]
    BY <1>1 DEF DbServe
  <2>3. ret \in Returns
    BY <2>1, <2>2, ReturnType DEF IInv, TypeOK
  <2>4. Reading(shm.type, ret) \in Scores \cup {0, 1}
    BY <2>3, ReadingType
  <2>5. StoreAfter(store, Slot) \in Stores
    BY <2>1, StoreAfterType DEF IInv, TypeOK
  <2>6. TypeOK'
    <3>1. shm' \in [type : Types, user : Users,
                    arg : Passwords \cup Scores \cup {NoArg}, ret : Returns]
      BY <2>2, <2>3 DEF IInv, TypeOK, Types
    <3>2. outcome' \in [Callers -> Scores \cup {0, 1}]
      BY <2>2, <2>4 DEF IInv, TypeOK
    <3>3. served' \in [Callers -> Nat]
      BY <1>1, <2>1 DEF DbServe, IInv, TypeOK
    <3>4. /\ store' \in Stores
          /\ dbpc' \in DbPlaces
          /\ UNCHANGED <<mutex, pc, call, answer, writer>>
      BY <1>1, <2>5 DEF DbServe, DbPlaces
    <3>5. QED
      BY <3>1, <3>2, <3>3, <3>4 DEF IInv, TypeOK
  <2>7. MutexInv'
    BY <1>1, <2>1 DEF DbServe, IInv, MutexInv
  <2>8. SlotInv'
    BY <1>1, <2>1, <2>2 DEF DbServe, IInv, TypeOK, SlotInv, MutexInv, Holding
  <2>9. ServedAtMostOnce'
    BY <1>1, <2>1 DEF DbServe, IInv, TypeOK, ServedAtMostOnce
  <2>10. QED
    BY <2>6, <2>7, <2>8, <2>9 DEF IInv
<1> USE OwnersAssumption
    DEF IInv, TypeOK, MutexInv, SlotInv, ServedAtMostOnce, CallerPlaces, DbPlaces,
        Holding, Dead, Slot
<1>2. CASE DbLock
  BY <1>2 DEF DbLock
<1>3. CASE DbTest
  BY <1>3 DEF DbTest
<1>4. CASE DbSignal
  <2>1. CASE UNCHANGED pc
    BY <1>4, <2>1 DEF DbSignal
  <2>2. ASSUME NEW c \in Sleepers, pc' = Woken(c)
        PROVE  IInv'
    BY <1>4, <2>2 DEF DbSignal, Sleepers, Woken
  <2>3. QED
    BY <1>4, <2>1, <2>2 DEF DbSignal
<1>5. CASE DbWakeUp
  BY <1>5 DEF DbWakeUp
<1>6. QED
  BY <1>1, <1>2, <1>3, <1>4, <1>5 DEF DbStep

LEMMA StepIInv == IInv /\ [Next]_vars => IInv'
<1>1. IInv /\ UNCHANGED vars => IInv'
  BY DEF vars, IInv, TypeOK, MutexInv, SlotInv, ServedAtMostOnce, Slot, Holding, Dead
<1>2. QED
  BY <1>1, CallerStepIInv, DbStepIInv DEF Next

\* Every variable of the channel keeps its type.
THEOREM TypeCorrect == Spec => []TypeOK
<1>1. IInv => TypeOK
  BY DEF IInv
<1>2. QED
  BY <1>1, InitIInv, StepIInv, PTL DEF Spec

\* For any number of callers: manageDataBase (db.c:32-52) executes only whole
\* requests whose caller is still inside dbManager.c, waiting.
THEOREM WholeRequests == Spec => []OnlyWholeRequestsServed
<1>1. IInv => OnlyWholeRequestsServed
  BY ServedRequest DEF OnlyWholeRequestsServed
<1>2. QED
  BY <1>1, InitIInv, StepIInv, PTL DEF Spec

\* For any number of callers: no call is executed twice, however often the
\* two sides wake up.
THEOREM AtMostOnce == Spec => []ServedAtMostOnce
<1>1. IInv => ServedAtMostOnce
  BY DEF IInv
<1>2. QED
  BY <1>1, InitIInv, StepIInv, PTL DEF Spec

LEMMA DeadLockStep == IInv /\ DiedHolding /\ [Next]_vars => UNCHANGED <<store, shm, mutex, answer>>
<1> SUFFICES ASSUME IInv, DiedHolding, [Next]_vars
             PROVE  UNCHANGED <<store, shm, mutex, answer>>
  OBVIOUS
<1>1. /\ mutex \in Callers /\ mutex # Nobody /\ mutex # Db
      /\ \A c \in Callers : pc[c] \notin Holding
      /\ dbpc \notin {"testing", "serving", "signalling"}
  <2>1. mutex \in Callers /\ pc[mutex] \in Dead
    BY DEF DiedHolding
  <2>2. \A c \in Callers : pc[c] \in Holding => c = mutex
    BY DEF IInv, MutexInv
  <2>3. QED
    BY <2>1, <2>2, OwnersAssumption DEF IInv, MutexInv, Holding, Dead
<1>2. CASE DbStep \/ DbWakeUp
  BY <1>1, <1>2 DEF DbStep, DbLock, DbTest, DbServe, DbSignal, DbWakeUp
<1>3. ASSUME NEW c \in Callers, CallerStep(c) \/ WakeUp(c) \/ Die(c)
      PROVE  UNCHANGED <<store, shm, mutex, answer>>
  BY <1>1, <1>3 DEF CallerStep, WriteType, WriteArguments, SignalDb, Wait, Relock, Return,
                    WakeUp, Die, Holding
<1>4. ASSUME NEW c \in Callers, NEW r \in Requests, Lock(c, r)
      PROVE  UNCHANGED <<store, shm, mutex, answer>>
  BY <1>1, <1>4 DEF Lock
<1>5. CASE UNCHANGED vars
  BY <1>5 DEF vars
<1>6. QED
  BY <1>2, <1>3, <1>4, <1>5 DEF Next

\* For any number of callers: once one has died between its lock and its unlock
\* (dbManager.c:12-21), nothing is executed and no call returns in any lobby.
THEOREM DeadLockForGood == Spec => DeadLockStays
<1>1. IInv /\ [Next]_vars => [DiedHolding => UNCHANGED <<store, shm, mutex, answer>>]_vars
  BY DeadLockStep
<1>2. QED
  BY <1>1, InitIInv, StepIInv, PTL DEF Spec, DeadLockStays
-----------------------------------------------------------------------------
(* A single caller.                                                        *)

SingleCaller == \A c, d \in Callers : c = d

LEMMA StepSingleInv ==
    ASSUME SingleCaller, IInv, SingleInv, [Next]_vars
    PROVE  SingleInv'
<1>1. ASSUME NEW c \in Callers, NEW r \in Requests, Lock(c, r)
      PROVE  SingleInv'
  BY <1>1 DEF Lock, SingleInv, SingleCaller, IInv, TypeOK
<1>2. ASSUME NEW c \in Callers, WriteType(c)
      PROVE  SingleInv'
  <2>1. call[c].type # "READY" /\ served[c] = 0
    BY <1>2, RequestFields DEF WriteType, IInv, SlotInv
  <2>2. QED
    BY <1>2, <2>1 DEF WriteType, SingleInv, SingleCaller, IInv, TypeOK
<1>3. ASSUME NEW c \in Callers, WriteArguments(c)
      PROVE  SingleInv'
  <2>1. served[c] = 0
    BY <1>3 DEF WriteArguments, IInv, SlotInv
  <2>2. QED
    BY <1>3, <2>1 DEF WriteArguments, SingleInv, SingleCaller, IInv, TypeOK
<1>4. ASSUME NEW c \in Callers, SignalDb(c)
      PROVE  SingleInv'
  <2>1. served[c] = 0
    BY <1>4 DEF SignalDb, IInv, SlotInv
  <2>2. QED
    BY <1>4, <2>1 DEF SignalDb, Dead, SingleInv, SingleCaller, IInv, TypeOK
<1>5. ASSUME NEW c \in Callers, Wait(c) \/ WakeUp(c) \/ Relock(c) \/ Return(c)
      PROVE  SingleInv'
  BY <1>5 DEF Wait, WakeUp, Relock, Return, Dead, SingleInv, SingleCaller, IInv, TypeOK
<1>6. CASE DbServe
  <2>0. dbpc = "serving"
    BY <1>6 DEF DbServe
  <2>1. /\ writer \in Callers
        /\ pc[writer] \in {"waiting", "woken"} \cup Dead
        /\ Slot = call[writer]
        /\ served[writer] = 0
    BY <2>0, ServedRequest
  <2>2. PICK ret \in ReturnOf(store, Slot) :
            /\ shm' = [shm EXCEPT !.type = "READY", !.ret = ret]
            /\ outcome' = [outcome EXCEPT ![writer] = Reading(shm.type, ret)]
    BY <1>6 DEF DbServe
  <2>3. shm'.type = "READY" /\ shm'.ret = ret
    BY <2>2 DEF IInv, TypeOK
  <2>4. shm.type = call[writer].type
    BY <2>1 DEF Slot
  <2>5. outcome'[writer] = Reading(call'[writer].type, shm'.ret)
    BY <1>6, <2>1, <2>2, <2>3, <2>4 DEF DbServe, IInv, TypeOK
  <2>6. served'[writer] = 1 /\ pc' = pc /\ writer' = writer
    BY <1>6, <2>1 DEF DbServe, IInv, TypeOK
  <2>7. QED
    BY <2>1, <2>3, <2>5, <2>6 DEF SingleInv, SingleCaller, Dead
<1>7. CASE DbLock \/ DbTest \/ DbWakeUp
  BY <1>7 DEF DbLock, DbTest, DbWakeUp, SingleInv
<1>8. CASE DbSignal
  <2>1. CASE UNCHANGED pc
    BY <1>8, <2>1 DEF DbSignal, SingleInv
  <2>2. ASSUME NEW c \in Sleepers, pc' = Woken(c)
        PROVE  SingleInv'
    BY <1>8, <2>2 DEF DbSignal, Sleepers, Woken, Dead, SingleInv, IInv, TypeOK
  <2>3. QED
    BY <1>8, <2>1, <2>2 DEF DbSignal
<1>9. CASE UNCHANGED vars
  BY <1>9 DEF vars, SingleInv
<1>10. ASSUME NEW c \in Callers, Die(c)
       PROVE  SingleInv'
  BY <1>10 DEF Die, Dead, SingleInv, SingleCaller, IInv, TypeOK
<1>11. QED
  BY <1>1, <1>2, <1>3, <1>4, <1>5, <1>6, <1>7, <1>8, <1>9, <1>10
     DEF Next, CallerStep, DbStep

\* The instance speaks of the same requests, answers and table.
LEMMA SameStore ==
    /\ Service!Stores = Stores
    /\ Service!Requests = Requests
    /\ \A s, r : Service!ReturnOf(s, r) = ReturnOf(s, r)
    /\ \A s, r : Service!StoreAfter(s, r) = StoreAfter(s, r)
    /\ \A t, ret : Service!Reading(t, ret) = Reading(t, ret)
<1>1. \A b : Service!Byte(b) = Byte(b) /\ Service!Text(b) = Text(b)
  BY DEF Service!Byte, Byte, Service!Text, Text
<1>2. \A s, r : Service!ReturnOf(s, r) = ReturnOf(s, r)
  BY <1>1, Zenon
     DEF Service!ReturnOf, ReturnOf, Service!isUser, isUser, Service!isPassword, isPassword,
         Service!getHighscore, getHighscore, Service!createUser, createUser
<1>3. Service!Stores = Stores /\ Service!Requests = Requests
  BY DEF Service!Stores, Stores, Service!Accounts, Accounts, Service!Requests, Requests
<1>4. \A s, r : Service!StoreAfter(s, r) = StoreAfter(s, r)
  BY DEF Service!StoreAfter, StoreAfter
<1>5. \A t, ret : Service!Reading(t, ret) = Reading(t, ret)
  BY DEF Service!Reading, Reading
<1>6. QED
  BY <1>2, <1>3, <1>4, <1>5

LEMMA StepRefines ==
    ASSUME SingleCaller, IInv, SingleInv, [Next]_vars
    PROVE  [Service!Next]_<<store, [c \in Callers |-> Stage(c)], call, outcome, answer>>
<1> DEFINE stage == [c \in Callers |-> Stage(c)]
<1>1. ASSUME NEW c \in Callers, NEW r \in Requests, Lock(c, r)
      PROVE  Service!Next
  <2>1. Service!Ask(c, r)
    BY <1>1 DEF Lock, Service!Ask, Stage, IInv, TypeOK
  <2>2. QED
    BY <2>1, SameStore DEF Service!Next
<1>2. ASSUME NEW c \in Callers,
             WriteType(c) \/ WriteArguments(c) \/ SignalDb(c) \/ Wait(c)
                \/ WakeUp(c) \/ Relock(c) \/ Die(c)
      PROVE  UNCHANGED <<store, stage, call, outcome, answer>>
  BY <1>2 DEF WriteType, WriteArguments, SignalDb, Wait, WakeUp, Relock, Die, Dead, Stage,
              IInv, TypeOK
<1>3. ASSUME NEW c \in Callers, Return(c)
      PROVE  Service!Next
  <2>1. served[c] = 1 /\ outcome[c] = Reading(call[c].type, shm.ret)
    BY <1>3 DEF Return, SingleInv, Dead
  <2>2. stage[c] = "executed" /\ stage' = [stage EXCEPT ![c] = "idle"]
    <3>1. stage[c] = "executed" /\ Stage(c)' = "idle"
      BY <1>3, <2>1 DEF Return, Stage, IInv, TypeOK
    <3>2. \A d \in Callers : d # c => Stage(d)' = Stage(d)
      BY <1>3 DEF Return, Stage, IInv, TypeOK
    <3>3. QED
      BY <3>1, <3>2
  <2>3. Service!Return(c)
    BY <1>3, <2>1, <2>2 DEF Return, Service!Return
  <2>4. QED
    BY <2>3 DEF Service!Next
<1>4. CASE DbServe
  <2>0. dbpc = "serving"
    BY <1>4 DEF DbServe
  <2>1. /\ writer \in Callers
        /\ pc[writer] \in {"waiting", "woken"} \cup Dead
        /\ Slot = call[writer]
        /\ served[writer] = 0
    BY <2>0, ServedRequest
  <2>2. shm.type = call[writer].type
    BY <2>1 DEF Slot
  <2>3. PICK ret \in Service!ReturnOf(store, call[writer]) :
            outcome' = [outcome EXCEPT ![writer] = Service!Reading(call[writer].type, ret)]
    <3>1. PICK ret \in ReturnOf(store, Slot) :
              outcome' = [outcome EXCEPT ![writer] = Reading(shm.type, ret)]
      BY <1>4 DEF DbServe
    <3>2. QED
      BY <3>1, <2>1, <2>2, SameStore
  <2>4. store' = Service!StoreAfter(store, call[writer])
    BY <1>4, <2>1, SameStore DEF DbServe
  <2>5. stage[writer] = "asked" /\ stage' = [stage EXCEPT ![writer] = "executed"]
    <3>1. served' = [served EXCEPT ![writer] = 1] /\ pc' = pc /\ writer' = writer
      BY <1>4, <2>1 DEF DbServe
    <3>2. stage[writer] = "asked" /\ Stage(writer)' = "executed"
      BY <3>1, <2>1 DEF Stage, Dead, IInv, TypeOK
    <3>3. \A d \in Callers : d # writer => Stage(d)' = Stage(d)
      BY <3>1 DEF Stage, IInv, TypeOK
    <3>4. QED
      BY <3>1, <3>2, <3>3
  <2>6. Service!Execute(writer)
    BY <1>4, <2>3, <2>4, <2>5 DEF DbServe, Service!Execute
  <2>7. QED
    BY <2>1, <2>6 DEF Service!Next
<1>5. CASE DbLock \/ DbTest \/ DbWakeUp
  BY <1>5 DEF DbLock, DbTest, DbWakeUp, Stage
<1>6. CASE DbSignal
  <2>1. CASE UNCHANGED pc
    BY <1>6, <2>1 DEF DbSignal, Stage
  <2>2. ASSUME NEW c \in Sleepers, pc' = Woken(c)
        PROVE  UNCHANGED <<store, stage, call, outcome, answer>>
    BY <1>6, <2>2 DEF DbSignal, Sleepers, Woken, Stage, IInv, TypeOK
  <2>3. QED
    BY <1>6, <2>1, <2>2 DEF DbSignal
<1>7. CASE UNCHANGED vars
  BY <1>7 DEF vars, Stage
<1>8. QED
  BY <1>1, <1>2, <1>3, <1>4, <1>5, <1>6, <1>7 DEF Next, CallerStep, DbStep

\* With one caller at a time the channel is the service it was built to be: the
\* answer dbManager.c:20-71 reads is the answer to the caller's own request.
THEOREM SingleCallerService ==
    ASSUME SingleCaller
    PROVE  Spec => ImplementsService
<1>1. Init => SingleInv
  BY DEF Init, SingleInv
<1>2. IInv /\ SingleInv /\ [Next]_vars => SingleInv'
  BY StepSingleInv
<1>3. Init => Service!Init
  BY SameStore DEF Init, Service!Init, Stage
<1>4. IInv /\ SingleInv /\ [Next]_vars => [Service!Next]_(Service!serviceVars)
  BY StepRefines DEF Service!serviceVars
<1>5. QED
  BY <1>1, <1>2, <1>3, <1>4, InitIInv, StepIInv, PTL
     DEF Spec, ImplementsService, Service!Spec

\* No step of a single caller or of the database ends a call with the answer of
\* another one.
LEMMA StepOwnAnswer ==
    ASSUME SingleCaller, IInv, SingleInv, OwnAnswer, [Next]_vars
    PROVE  OwnAnswer'
<1>1. ASSUME NEW c \in Callers, Return(c)
      PROVE  OwnAnswer'
  <2>1. served[c] = 1 /\ outcome[c] = Reading(call[c].type, shm.ret)
    BY <1>1 DEF Return, SingleInv, Dead
  <2>2. QED
    BY <1>1, <2>1 DEF Return, OwnAnswer, SingleCaller, IInv, TypeOK
<1>2. ASSUME NEW c \in Callers, NEW r \in Requests, Lock(c, r)
      PROVE  OwnAnswer'
  BY <1>2 DEF Lock, OwnAnswer, SingleCaller, IInv, TypeOK
<1>3. ASSUME NEW c \in Callers,
             WriteType(c) \/ WriteArguments(c) \/ SignalDb(c) \/ Wait(c) \/ WakeUp(c) \/ Relock(c) \/ Die(c)
      PROVE  OwnAnswer'
  BY <1>3 DEF WriteType, WriteArguments, SignalDb, Wait, WakeUp, Relock, Die, OwnAnswer, SingleCaller,
              IInv, TypeOK
\* The database answers a caller that is inside its call.
<1>4. CASE DbServe
  <2>1. writer \in Callers /\ pc[writer] # "idle"
    BY <1>4, ServedRequest DEF DbServe, Dead
  <2>2. UNCHANGED <<pc, call, answer>>
    BY <1>4 DEF DbServe
  <2>3. \A c \in Callers : c = writer
    BY <2>1 DEF SingleCaller
  <2>4. QED
    BY <2>1, <2>2, <2>3 DEF OwnAnswer
<1>5. CASE DbSignal
  <2>1. \A c \in Callers : pc'[c] = "idle" => pc[c] = "idle"
    BY <1>5 DEF DbSignal, Woken, Sleepers, IInv, TypeOK
  <2>2. QED
    BY <1>5, <2>1 DEF DbSignal, OwnAnswer
<1>6. CASE DbLock \/ DbTest \/ DbWakeUp \/ UNCHANGED vars
  BY <1>6 DEF DbLock, DbTest, DbWakeUp, vars, OwnAnswer
<1>7. QED
  BY <1>1, <1>2, <1>3, <1>4, <1>5, <1>6 DEF Next, CallerStep, DbStep

\* With one caller at a time a call that has returned was executed, once, and
\* what dbManager.c:20-71 reads from the slot is what it was answered; with two
\* the other's answer may stand there.
THEOREM SingleCallerOwnAnswer ==
    ASSUME SingleCaller
    PROVE  Spec => []OwnAnswer
<1>1. Init => SingleInv /\ OwnAnswer
  BY DEF Init, SingleInv, OwnAnswer
<1>2. IInv /\ SingleInv /\ OwnAnswer /\ [Next]_vars => SingleInv' /\ OwnAnswer'
  BY StepSingleInv, StepOwnAnswer
<1>3. QED
  BY <1>1, <1>2, InitIInv, StepIInv, PTL DEF Spec
=============================================================================
