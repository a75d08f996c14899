------------------------------ MODULE LogQueue ------------------------------
(***************************************************************************)
(* The log: child servers that write lines to a POSIX message queue and    *)
(* never wait for it (log.c), and the log server that prints them          *)
(* (mqserver.c), which may die and be started again.  The queue outlives   *)
(* it: nobody unlinks it, and what it holds is printed by the next one.    *)
(***************************************************************************)
EXTENDS Integers, FiniteSets

CONSTANTS Processes,  \* the child servers
          Capacity,   \* MAX_MESSAGES
          MaxLines,   \* bound: lines that the queue takes
          MaxCrashes  \* bound: deaths of the log server

ASSUME LogAssumption == Capacity \in Nat /\ MaxLines \in Nat /\ MaxCrashes \in Nat

INFO == 1
WARNING == 2
ERROR == 3

VARIABLES exists,     \* whether the queue has been created
          connected,  \* connected[p]: "new" before connectLogServer, then its result
          queue,      \* the lines in the queue
          server,     \* the log server: "down", "receiving" or "printing"
          held,       \* the line in in_buffer, as a set
          lines,      \* history: the number of lines that the queue took
          printed,    \* history: the lines on the log server's terminal
          lost,       \* history: the lines that died with a log server
          crashes

vars == <<exists, connected, queue, server, held, lines, printed, lost, crashes>>

\* no: the lines that the queue took before, and this one.
Line == [from : Processes, no : 1 .. MaxLines, level : {INFO, WARNING, ERROR}]

Init == /\ exists = FALSE
        /\ connected = [p \in Processes |-> "new"]
        /\ queue = {}
        /\ server = "down"
        /\ held = {}
        /\ lines = 0
        /\ printed = {}
        /\ lost = {}
        /\ crashes = 0
-----------------------------------------------------------------------------
\* initServer calls connectLogServer, once.  It finds a queue whose server has
\* died, too.
connectLogServer(p) ==
    /\ connected[p] = "new"
    /\ connected' = [connected EXCEPT ![p] = IF exists THEN "yes" ELSE "no"]
    /\ UNCHANGED <<exists, queue, server, held, lines, printed, lost, crashes>>

\* sendLog: a process that is not connected says nothing, and a full queue
\* refuses the line.
sendLog(p, level) ==
    /\ connected[p] # "new"
    /\ IF connected[p] = "yes" /\ Cardinality(queue) < Capacity
       THEN /\ lines < MaxLines
            /\ lines' = lines + 1
            /\ queue' = queue \cup {[from |-> p, no |-> lines', level |-> level]}
       ELSE UNCHANGED <<lines, queue>>
    /\ UNCHANGED <<exists, connected, server, held, printed, lost, crashes>>
-----------------------------------------------------------------------------
\* Mutant of Start: the log server begins with an empty queue.
StartEmpty == /\ server = "down"
              /\ server' = "receiving"
              /\ exists' = TRUE
              /\ queue' = {}
              /\ UNCHANGED <<connected, held, lines, printed, lost, crashes>>

\* mq_open creates the queue, or opens the one there is.
Start == /\ server = "down"
         /\ server' = "receiving"
         /\ exists' = TRUE
         /\ UNCHANGED <<connected, queue, held, lines, printed, lost, crashes>>

\* mq_receive takes the oldest of the lines with the highest priority.
Receive ==
    /\ server = "receiving"
    /\ \E line \in queue :
          /\ \A other \in queue \ {line} :
                \/ other.level < line.level
                \/ other.level = line.level /\ line.no < other.no
          /\ held' = {line}
          /\ queue' = queue \ {line}
    /\ server' = "printing"
    /\ UNCHANGED <<exists, connected, lines, printed, lost, crashes>>

\* Mutant of PrintLine: the switch does not know the highest priority.
PrintBelow == /\ server = "printing"
              /\ printed' = printed \cup { line \in held : line.level < ERROR }
              /\ held' = {}
              /\ server' = "receiving"
              /\ UNCHANGED <<exists, connected, queue, lines, lost, crashes>>

\* The switch knows all three priorities.
PrintLine == /\ server = "printing"
             /\ printed' = printed \cup held
             /\ held' = {}
             /\ server' = "receiving"
             /\ UNCHANGED <<exists, connected, queue, lines, lost, crashes>>

\* The log server is stopped, or exits because mq_receive fails.
Crash == /\ server # "down"
         /\ crashes < MaxCrashes
         /\ server' = "down"
         /\ lost' = lost \cup held
         /\ held' = {}
         /\ crashes' = crashes + 1
         /\ UNCHANGED <<exists, connected, queue, lines, printed>>

Next == \/ \E p \in Processes : \/ connectLogServer(p)
                                \/ \E level \in {INFO, WARNING, ERROR} : sendLog(p, level)
        \/ Start \/ Receive \/ PrintLine \/ Crash

Spec == Init /\ [][Next]_vars

\* A log server that runs goes on.  Nobody has to start one.
FairSpec == Spec /\ WF_vars(Receive) /\ WF_vars(PrintLine)
-----------------------------------------------------------------------------
TypeOK == /\ exists \in BOOLEAN
          /\ connected \in [Processes -> {"new", "yes", "no"}]
          /\ queue \subseteq Line /\ printed \subseteq Line /\ lost \subseteq Line
          /\ held \subseteq Line
          /\ server \in {"down", "receiving", "printing"}
          /\ lines \in 0 .. MaxLines /\ crashes \in 0 .. MaxCrashes

\* Every line that the queue took is in one place, in the queue, in the log
\* server, printed, or lost, of which each death of a log server costs one at
\* most; and no line is printed before an older one of its level, or of a higher
\* one (mqserver.c:21-57), whoever wrote them and however often the server died.
PrintedOnceInOrder ==
    /\ Cardinality(queue) + Cardinality(held) + Cardinality(printed) + Cardinality(lost) = lines
    /\ Cardinality(lost) <= crashes
    /\ \A done \in printed \cup held \cup lost, waits \in queue :
          waits.no < done.no => waits.level < done.level

\* An ERROR that the queue took is printed, or dies with the log server, if there
\* is one in the end.  (An INFO may wait for ever behind more urgent lines.)
ErrorsArePrinted ==
    <>[](server # "down") =>
        \A p \in Processes, no \in 1 .. MaxLines :
            LET line == [from |-> p, no |-> no, level |-> ERROR]
            IN  line \in queue ~> line \in printed \cup lost
=============================================================================
