--------------------------- MODULE LogQueueProofs ---------------------------
(***************************************************************************)
(* For any processes, capacity, numbers of lines and of crashes: every     *)
(* line is in one place, and lines are printed in order.                   *)
(*                                                                         *)
(* A line is moved, never copied: the places are disjoint, because no line *)
(* has a number that the queue has not given out yet.                      *)
(***************************************************************************)
EXTENDS LogQueue, FiniteSetTheorems, TLAPS

Apart == /\ queue \cap held = {} /\ queue \cap printed = {} /\ queue \cap lost = {}
         /\ held \cap printed = {} /\ held \cap lost = {} /\ printed \cap lost = {}

Finite == /\ IsFiniteSet(queue) /\ IsFiniteSet(held)
          /\ IsFiniteSet(printed) /\ IsFiniteSet(lost)

\* The server holds one line at most, and none while it waits for one.
HoldsOne == /\ Cardinality(held) <= 1
            /\ server # "printing" => held = {}

Numbered == \A line \in queue \cup held \cup printed \cup lost : line.no <= lines

IInv == TypeOK /\ Finite /\ Apart /\ HoldsOne /\ Numbered /\ PrintedOnceInOrder

\* What the steps say about numbers of lines.
Sizes == Cardinality(queue) \in Nat /\ Cardinality(held) \in Nat
         /\ Cardinality(printed) \in Nat /\ Cardinality(lost) \in Nat
-----------------------------------------------------------------------------
LEMMA SizesAreNumbers == Finite => Sizes
  BY FS_CardinalityType DEF Finite, Sizes

LEMMA Joined ==
    ASSUME NEW S, NEW T, IsFiniteSet(S), IsFiniteSet(T), S \cap T = {}
    PROVE  IsFiniteSet(S \cup T) /\ Cardinality(S \cup T) = Cardinality(S) + Cardinality(T)
<1>1. Cardinality(S) \in Nat /\ Cardinality(T) \in Nat /\ Cardinality(S \cap T) = 0
  BY FS_CardinalityType, FS_EmptySet
<1>2. /\ IsFiniteSet(S \cup T)
      /\ Cardinality(S \cup T) = Cardinality(S) + Cardinality(T) - Cardinality(S \cap T)
  BY FS_Union
<1> QED BY <1>1, <1>2

LEMMA InitStep == Init => IInv
<1> SUFFICES ASSUME Init PROVE IInv
  OBVIOUS
<1>1. IsFiniteSet({}) /\ Cardinality({}) = 0
  BY FS_EmptySet
<1>2. TypeOK
  <2>1. 0 \in 0 .. MaxLines /\ 0 \in 0 .. MaxCrashes
    BY LogAssumption
  <2>2. connected \in [Processes -> {"new", "yes", "no"}]
    BY DEF Init
  <2> QED BY <2>1, <2>2 DEF Init, TypeOK
<1>3. Finite /\ Apart /\ Numbered
  BY <1>1 DEF Init, Finite, Apart, Numbered
<1>4. HoldsOne /\ PrintedOnceInOrder
  BY <1>1 DEF Init, HoldsOne, PrintedOnceInOrder
<1> QED BY <1>2, <1>3, <1>4 DEF IInv

\* A new line is the newest, and in no other place.
LEMMA SendStep ==
    ASSUME IInv, NEW p \in Processes, NEW level \in {INFO, WARNING, ERROR}, sendLog(p, level)
    PROVE  IInv'
<1>1. CASE UNCHANGED <<lines, queue>>
  BY <1>1 DEF sendLog, IInv, TypeOK, Finite, Apart, HoldsOne, Numbered, PrintedOnceInOrder
<1>2. CASE connected[p] = "yes" /\ Cardinality(queue) < Capacity
  <2> DEFINE line == [from |-> p, no |-> lines + 1, level |-> level]
  <2>1. /\ lines < MaxLines /\ lines' = lines + 1 /\ queue' = queue \cup {line}
        /\ UNCHANGED <<exists, connected, server, held, printed, lost, crashes>>
    BY <1>2 DEF sendLog
  <2>2. lines \in Nat /\ lines + 1 \in 1 .. MaxLines
    BY <2>1, LogAssumption DEF IInv, TypeOK
  <2>3. line \in Line /\ line.no = lines + 1
    BY <2>2 DEF Line
  <2> HIDE DEF line
  <2>4. line \notin queue \cup held \cup printed \cup lost
    BY <2>2, <2>3 DEF IInv, Numbered
  <2>5. Sizes
    BY SizesAreNumbers DEF IInv
  <2>6. IsFiniteSet(queue') /\ Cardinality(queue') = Cardinality(queue) + 1
    BY <2>1, <2>4, FS_AddElement DEF IInv, Finite
  <2>7. TypeOK'
    BY <2>1, <2>2, <2>3 DEF IInv, TypeOK
  <2>8. Finite' /\ Apart' /\ HoldsOne'
    BY <2>1, <2>4, <2>6 DEF IInv, Finite, Apart, HoldsOne
  <2>9. \A x \in queue \cup held \cup printed \cup lost : x.no \in Nat /\ x.no <= lines
    BY DEF IInv, TypeOK, Line, Numbered
  <2>10. Numbered'
    BY <2>1, <2>2, <2>3, <2>9 DEF Numbered
  <2>11. PrintedOnceInOrder'
    <3>1. (Cardinality(queue) + Cardinality(held) + Cardinality(printed) + Cardinality(lost) = lines)'
      BY <2>1, <2>2, <2>5, <2>6 DEF IInv, PrintedOnceInOrder, Sizes
    <3>2. \A done \in printed \cup held \cup lost, waits \in queue' :
              waits.no < done.no => waits.level < done.level
      <4> SUFFICES ASSUME NEW done \in printed \cup held \cup lost, NEW waits \in queue',
                          waits.no < done.no
                   PROVE  waits.level < done.level
        OBVIOUS
      <4>1. waits # line
        BY <2>2, <2>3, <2>9
      <4> QED BY <2>1, <4>1 DEF IInv, PrintedOnceInOrder
    <3> QED BY <2>1, <3>1, <3>2 DEF IInv, PrintedOnceInOrder
  <2> QED BY <2>7, <2>8, <2>10, <2>11 DEF IInv
<1> QED BY <1>1, <1>2 DEF sendLog

\* The line that is taken is the oldest of the most urgent ones.
LEMMA ReceiveStep ==
    ASSUME IInv, Receive
    PROVE  IInv'
<1>1. PICK line \in queue :
          /\ \A other \in queue \ {line} : \/ other.level < line.level
                                           \/ other.level = line.level /\ line.no < other.no
          /\ held' = {line} /\ queue' = queue \ {line}
          /\ server = "receiving" /\ server' = "printing"
          /\ UNCHANGED <<exists, connected, lines, printed, lost, crashes>>
  BY DEF Receive
<1>2. held = {}
  BY <1>1 DEF IInv, HoldsOne
<1>3. Sizes
  BY SizesAreNumbers DEF IInv
<1>4. /\ IsFiniteSet(queue') /\ Cardinality(queue') = Cardinality(queue) - 1
      /\ IsFiniteSet(held') /\ Cardinality(held') = 1 /\ Cardinality(held) = 0
  BY <1>1, <1>2, FS_RemoveElement, FS_Singleton, FS_EmptySet DEF IInv, Finite
<1>5. TypeOK'
  BY <1>1 DEF IInv, TypeOK
<1>6. Finite' /\ Apart' /\ HoldsOne' /\ Numbered'
  BY <1>1, <1>4 DEF IInv, Finite, Apart, HoldsOne, Numbered
<1>7. PrintedOnceInOrder'
  <2>1. (Cardinality(queue) + Cardinality(held) + Cardinality(printed) + Cardinality(lost) = lines)'
    BY <1>1, <1>3, <1>4 DEF IInv, PrintedOnceInOrder, Sizes
  <2>2. \A x \in queue : x.no \in Nat /\ x.level \in Nat
    BY DEF IInv, TypeOK, Line, INFO, WARNING, ERROR
  <2>3. \A waits \in queue' : waits.no < line.no => waits.level < line.level
    BY <1>1, <2>2
  <2> QED BY <1>1, <2>1, <2>3 DEF IInv, PrintedOnceInOrder
<1> QED BY <1>5, <1>6, <1>7 DEF IInv

\* A line that is printed or lost leaves the server.
LEMMA MoveStep ==
    ASSUME IInv, PrintLine \/ Crash
    PROVE  IInv'
<1>1. Sizes /\ Cardinality({}) = 0 /\ IsFiniteSet({})
  BY SizesAreNumbers, FS_EmptySet DEF IInv
<1>2. CASE PrintLine
  <2>1. IsFiniteSet(printed') /\ Cardinality(printed') = Cardinality(printed) + Cardinality(held)
    <3>1. printed \cap held = {} /\ IsFiniteSet(printed) /\ IsFiniteSet(held)
      BY DEF IInv, Apart, Finite
    <3> QED BY <1>2, <3>1, Joined DEF PrintLine
  <2>2. TypeOK'
    BY <1>2 DEF PrintLine, IInv, TypeOK
  <2>3. Finite' /\ Apart' /\ HoldsOne' /\ Numbered'
    BY <1>1, <1>2, <2>1 DEF PrintLine, IInv, Finite, Apart, HoldsOne, Numbered
  <2>4. PrintedOnceInOrder'
    BY <1>1, <1>2, <2>1 DEF PrintLine, IInv, PrintedOnceInOrder, Sizes, TypeOK
  <2> QED BY <2>2, <2>3, <2>4 DEF IInv
<1>3. CASE Crash
  <2>1. IsFiniteSet(lost') /\ Cardinality(lost') = Cardinality(lost) + Cardinality(held)
    <3>1. lost \cap held = {} /\ IsFiniteSet(lost) /\ IsFiniteSet(held)
      BY DEF IInv, Apart, Finite
    <3> QED BY <1>3, <3>1, Joined DEF Crash
  <2>2. TypeOK'
    BY <1>3, LogAssumption DEF Crash, IInv, TypeOK
  <2>3. Finite' /\ Apart' /\ HoldsOne' /\ Numbered'
    BY <1>1, <1>3, <2>1 DEF Crash, IInv, Finite, Apart, HoldsOne, Numbered
  <2>4. (Cardinality(lost) <= crashes)'
    BY <1>1, <1>3, <2>1 DEF Crash, IInv, HoldsOne, PrintedOnceInOrder, Sizes, TypeOK
  <2>5. PrintedOnceInOrder'
    BY <1>1, <1>3, <2>1, <2>4 DEF Crash, IInv, PrintedOnceInOrder, Sizes, TypeOK
  <2> QED BY <2>2, <2>3, <2>5 DEF IInv
<1> QED BY <1>2, <1>3

LEMMA NextStep == IInv /\ [Next]_vars => IInv'
<1> SUFFICES ASSUME IInv, [Next]_vars PROVE IInv'
  OBVIOUS
<1>1. ASSUME NEW p \in Processes, connectLogServer(p) PROVE IInv'
  BY <1>1 DEF connectLogServer, IInv, TypeOK, Finite, Apart, HoldsOne, Numbered, PrintedOnceInOrder
<1>2. ASSUME NEW p \in Processes, NEW level \in {INFO, WARNING, ERROR}, sendLog(p, level) PROVE IInv'
  BY <1>2, SendStep
<1>3. CASE Start
  BY <1>3 DEF Start, IInv, TypeOK, Finite, Apart, HoldsOne, Numbered, PrintedOnceInOrder
<1>4. CASE Receive
  BY <1>4, ReceiveStep
<1>5. CASE PrintLine \/ Crash
  BY <1>5, MoveStep
<1>6. CASE UNCHANGED vars
  BY <1>6 DEF vars, IInv, TypeOK, Finite, Apart, HoldsOne, Numbered, PrintedOnceInOrder
<1> QED BY <1>1, <1>2, <1>3, <1>4, <1>5, <1>6 DEF Next

\* For any number of processes, lines and crashes, every line that the queue took
\* is in one place, lost at most one for each crash, and printed in order.
THEOREM OnceInOrder == Spec => []PrintedOnceInOrder
<1>1. IInv => PrintedOnceInOrder
  BY DEF IInv
<1> QED BY <1>1, InitStep, NextStep, PTL DEF Spec
=============================================================================
