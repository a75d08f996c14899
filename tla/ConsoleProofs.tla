--------------------------- MODULE ConsoleProofs ----------------------------
(***************************************************************************)
(* For any keyboard, any number of presses and of wrong passwords: the     *)
(* terminal is left as it was found, and a key answers the prompt it was   *)
(* pressed at, with the exceptions that the properties name.               *)
(*                                                                         *)
(* As long as no key comes too early, the terminal holds none when kbhit   *)
(* looks, so that changeMode never saves what it has set itself (IInv),    *)
(* and what waits belongs to the prompt of the moment (PromptInv).         *)
(***************************************************************************)
EXTENDS Console, SequenceTheorems, TLAPS

Key == [ch : Chars, at : Nat]

Types == /\ place \in {"name", "asked", "mode", "test", "get", "done", "checked",
                       "lobby", "playing", "handler"}
         /\ keys \in {"none", "save", "set", "test", "get", "handler"}
         /\ leaving \in {"no", "restore", "exit", "done"}
         /\ mode \in {"zero", "cooked", "raw"} /\ oldt \in {"zero", "cooked", "raw"}
         /\ prompt \in Nat /\ i \in Nat
         /\ early \in BOOLEAN /\ raced \in BOOLEAN
         /\ raced => leaving \in {"exit", "done"}

\* The thread of the keys begins after the login, which only its own thread leaves.
Threads == /\ keys # "none" => place \in {"lobby", "playing", "handler"}
           /\ place \notin {"lobby", "playing", "handler"} => leaving = "no"

Staying == leaving \in {"no", "restore"}

\* A name that has begun ends in the buffer.
LineRead == /\ i > 0 => stdio # <<>>
            /\ stdio # <<>> => stdio[Len(stdio)].ch = Enter

\* Where kbhit looks there is no key; the name is the last line there is.
KeptPace ==
    ~early /\ Staying =>
        /\ kernel \in Seq(Key) /\ stdio \in Seq(Key)
        /\ stdio # <<>> => kernel = <<>>
        /\ place \in {"asked", "mode", "test", "done", "checked"} => kernel = <<>>
        /\ keys \in {"save", "set", "test"} => kernel = <<>>
        /\ place = "name" =>
              LineRead /\ \A k \in DOMAIN kernel : kernel[k].ch = Enter => k = Len(kernel)

\* What changeMode has saved, and what it has set.
Settings ==
    ~early /\ ~raced =>
        /\ oldt \in {"zero", "cooked"}
        /\ Staying /\ place \in {"name", "asked", "mode", "checked"} => mode = "cooked"
        /\ Staying /\ place \in {"test", "get", "done"} => mode = "raw"
        /\ place \in {"test", "get", "done", "checked"} => oldt = "cooked"
        /\ Staying /\ keys \in {"save", "set"} => mode = "cooked" /\ oldt = "cooked"
        /\ Staying /\ keys \in {"test", "get"} => mode = "raw" /\ oldt = "cooked"
        /\ ~Staying => mode = oldt

IInv == Types /\ Threads /\ KeptPace /\ Settings

\* Keys that were pressed at the prompt of the moment, and a line of them.
Fresh(s) == \A k \in DOMAIN s : s[k].at = prompt
LineEnds(s) == \A k \in DOMAIN s : s[k].ch = Enter => k = Len(s)
OnlyEnter(s) == Len(s) = 1 /\ s[1].ch = Enter

\* The keys that wait are those of the prompt of the moment, but for the ENTER
\* behind the name, which a password that has not begun ignores.
OwnKeys ==
    ~early /\ ~cut =>
        /\ place = "get" => i < MaxWord
        /\ place \in {"name", "get"} => Fresh(kernel) /\ LineEnds(kernel)
        /\ place = "name" => Fresh(stdio) /\ LineEnds(stdio)
        /\ place = "asked" => stdio = <<>> \/ OnlyEnter(stdio)
        /\ place \in {"mode", "test", "get"} =>
              \/ i = 0 /\ OnlyEnter(stdio)
              \/ i >= MaxWord /\ stdio = <<>>
              \/ i < MaxWord /\ Fresh(stdio) /\ LineEnds(stdio)
        /\ place \in {"done", "checked"} => stdio = <<>>
        /\ place = "lobby" /\ leaving = "no" => Fresh(kernel) /\ Fresh(stdio)

\* In the lobby only the thread of the keys leaves, or main, for the handler.
LobbyLeft == place = "lobby" /\ leaving # "no" => keys = "handler"

PromptInv == {cut, stale} \subseteq BOOLEAN /\ KeysAnswerTheirPrompt /\ OwnKeys /\ LobbyLeft
-----------------------------------------------------------------------------
LEMMA Nothing ==
    ASSUME kernel = <<>>
    PROVE  Readable = 0 /\ ~kbhit
BY DEF Readable, Lines, kbhit

\* A read takes all the keys there are, if the last line is all there is.
LEMMA ReadsAll ==
    ASSUME Getchar, kernel \in Seq(Key), stdio \in Seq(Key),
           stdio # <<>> => kernel = <<>>,
           mode = "cooked" => \A k \in DOMAIN kernel : kernel[k].ch = Enter => k = Len(kernel)
    PROVE  /\ kernel' = <<>> /\ stdio' \in Seq(Key)
           /\ stdio # <<>> => stdio' = Tail(stdio)
           /\ stdio = <<>> => Readable = Len(kernel) /\ Readable > 0 /\ stdio' = SubSeq(kernel, 2, Len(kernel))
<1>1. CASE stdio # <<>>
  <2>1. stdio' = Tail(stdio) /\ kernel' = kernel
    BY <1>1 DEF Getchar
  <2> QED BY <1>1, <2>1, HeadTailProperties
<1>2. CASE stdio = <<>>
  <2>1. /\ Readable > 0 /\ stdio' = SubSeq(kernel, 2, Readable)
        /\ kernel' = SubSeq(kernel, Readable + 1, Len(kernel))
    BY <1>2 DEF Getchar
  <2>2. Len(kernel) \in Nat /\ DOMAIN kernel = 1 .. Len(kernel)
    BY LenProperties
  <2>3. Readable = Len(kernel)
    <3>1. CASE mode # "cooked"
      BY <3>1 DEF Readable
    <3>2. CASE mode = "cooked"
      <4>1. Lines # {}
        BY <2>1, <3>2 DEF Readable
      <4>2. Lines = {Len(kernel)}
        BY <3>2, <4>1 DEF Lines
      <4> QED BY <2>2, <3>2, <4>2 DEF Readable
    <3> QED BY <3>1, <3>2
  <2> QED BY <1>2, <2>1, <2>2, <2>3
<1> QED BY <1>1, <1>2
-----------------------------------------------------------------------------
LEMMA InitStep == Init => IInv
<1> SUFFICES ASSUME Init PROVE IInv
  OBVIOUS
<1>1. Types /\ Threads /\ Settings
  BY DEF Init, Types, Threads, Settings, Staying
<1>2. KeptPace
  BY EmptySeq DEF Init, KeptPace, LineRead, Staying
<1> QED BY <1>1, <1>2 DEF IInv

\* A press that somebody awaits is the only one there is, or ends the line that
\* is being typed.
LEMMA PressStep ==
    ASSUME IInv, NEW b \in Bursts, Press(b)
    PROVE  IInv'
<1>1. Types' /\ Threads' /\ Settings'
  BY DEF Press, IInv, Types, Threads, Settings, Staying
<1>2. KeptPace'
  <2> SUFFICES ASSUME ~early', Staying PROVE KeptPace'
    BY DEF KeptPace, Staying, Press
  <2>1. Awaited /\ ~early /\ KeptPace /\ Settings /\ Types /\ Threads
    BY DEF Press, IInv, Types
  <2>2. /\ kernel \in Seq(Key) /\ stdio \in Seq(Key) /\ stdio = <<>> /\ Readable = 0
        /\ place \in {"name", "get"} \/ keys = "get"
    BY <2>1 DEF KeptPace, Awaited
  <2>3. /\ stdio' = stdio /\ (place = "name" => LineRead') /\ place' = place /\ keys' = keys
        /\ place' \notin {"asked", "mode", "test", "done", "checked"}
        /\ keys' \notin {"save", "set", "test"}
    BY <2>1, <2>2 DEF Press, Threads, KeptPace, LineRead, Staying
  <2> DEFINE e == [k \in DOMAIN b |-> [ch |-> b[k], at |-> prompt]]
  <2>4. /\ b \in Seq(Chars) /\ DOMAIN b = 1 .. Len(b) /\ Len(b) \in Nat
        /\ \A k \in DOMAIN b : b[k] = Enter => k = Len(b)
    BY KeysAssumption, LenProperties
  <2>5. e \in Seq(Key) /\ Len(e) = Len(b)
    <3>1. \A k \in 1 .. Len(b) : e[k] \in Key
      BY <2>1, <2>4, ElementOfSeq DEF Types, Key
    <3> QED BY <2>4, <3>1
  <2>6. \A k \in 1 .. Len(e) : e[k].ch = Enter => k = Len(e)
    BY <2>4, <2>5
  <2> HIDE DEF e
  <2>7. Len(kernel) \in Nat /\ DOMAIN kernel = 1 .. Len(kernel)
    BY <2>2, LenProperties
  <2>8. CASE kernel' = kernel \o e
    <3>1. kernel' \in Seq(Key) /\ Len(kernel') = Len(kernel) + Len(e)
      BY <2>2, <2>5, <2>8, ConcatProperties
    <3>2. /\ \A k \in 1 .. Len(kernel) : kernel'[k] = kernel[k]
          /\ \A k \in 1 .. Len(kernel) + Len(e) : k > Len(kernel) => kernel'[k] = e[k - Len(kernel)]
      BY <2>2, <2>5, <2>7, <2>8, ConcatProperties
    <3>3. place = "name" => \A k \in DOMAIN kernel' : kernel'[k].ch = Enter => k = Len(kernel')
      <4> SUFFICES ASSUME place = "name", NEW k \in DOMAIN kernel', kernel'[k].ch = Enter
                   PROVE  k = Len(kernel')
        OBVIOUS
      <4>1. k \in 1 .. Len(kernel) + Len(e) /\ Len(e) \in Nat
        BY <2>4, <2>5, <3>1, LenProperties
      <4>2. \A j \in 1 .. Len(kernel) : kernel[j].ch # Enter
        <5>1. mode = "cooked"
          BY <2>1 DEF Settings, Types, Staying
        <5>2. Lines = {}
          <6> SUFFICES ASSUME Lines # {} PROVE FALSE
            OBVIOUS
          <6>1. PICK k0 \in Lines : TRUE
            OBVIOUS
          <6>2. Lines = {Len(kernel)} /\ Len(kernel) > 0
            BY <2>1, <2>7, <6>1 DEF Lines, KeptPace
          <6> QED BY <2>2, <2>7, <5>1, <6>2 DEF Readable
        <5> QED BY <2>7, <5>2 DEF Lines
      <4>3. k > Len(kernel)
        BY <2>7, <3>2, <4>1, <4>2
      <4>4. k - Len(kernel) \in 1 .. Len(e) /\ e[k - Len(kernel)].ch = Enter
        BY <2>7, <3>2, <4>1, <4>3
      <4> QED BY <2>6, <2>7, <3>1, <4>1, <4>4
    <3> QED BY <2>2, <2>3, <3>1, <3>3 DEF KeptPace
  <2>9. CASE kernel' = kernel
    BY <2>1, <2>2, <2>3, <2>9 DEF KeptPace
  <2>10. CASE Len(kernel) # 0 /\ kernel' = SubSeq(kernel, 1, Len(kernel) - 1)
    <3>1. kernel' \in Seq(Key) /\ Len(kernel') = Len(kernel) - 1
          /\ \A k \in 1 .. Len(kernel) - 1 : kernel'[k] = kernel[k]
      BY <2>2, <2>7, <2>10
    <3>2. place = "name" => \A k \in DOMAIN kernel' : kernel'[k].ch # Enter
      BY <2>1, <2>7, <3>1, LenProperties DEF KeptPace
    <3> QED BY <2>2, <2>3, <3>1, <3>2 DEF KeptPace
  <2> QED BY <2>8, <2>9, <2>10 DEF Press, e
<1> QED BY <1>1, <1>2 DEF IInv

\* The name is all that the terminal holds, and is read as a whole.
LEMMA NameStep ==
    ASSUME IInv, Running, GetName
    PROVE  IInv'
<1>1. Types' /\ Threads' /\ Settings'
  BY DEF GetName, IInv, Types, Threads, Settings, Staying
<1>2. KeptPace'
  <2> SUFFICES ASSUME ~early, Staying PROVE KeptPace'
    BY DEF KeptPace, Staying, GetName
  <2>1. /\ KeptPace /\ kernel \in Seq(Key) /\ stdio \in Seq(Key) /\ (stdio # <<>> => kernel = <<>>)
        /\ \A k \in DOMAIN kernel : kernel[k].ch = Enter => k = Len(kernel)
        /\ place = "name" /\ keys' = keys /\ keys = "none" /\ mode = "cooked" /\ LineRead
    BY DEF IInv, KeptPace, GetName, Threads, Settings, Types, Staying
  <2>2. CASE ~(i > 0 /\ (stdio # <<>> \/ kbhit) /\ NextKey.ch = Enter)
    <3>1. Getchar /\ i' = IF NextKey.ch = Enter THEN i ELSE i + 1
      BY <2>2 DEF GetName
    <3>2. /\ kernel' = <<>> /\ stdio' \in Seq(Key)
          /\ stdio # <<>> => stdio' = Tail(stdio)
          /\ stdio = <<>> => Readable = Len(kernel) /\ Readable > 0 /\ stdio' = SubSeq(kernel, 2, Len(kernel))
      BY <2>1, <3>1, ReadsAll
    <3>3. LineRead'
      <4>1. i \in Nat
        BY DEF IInv, Types
      <4>2. CASE stdio # <<>>
        <5>1. /\ Len(stdio) \in Nat \ {0} /\ NextKey = stdio[1] /\ Len(stdio') = Len(stdio) - 1
              /\ \A k \in 1 .. Len(stdio) - 1 : stdio'[k] = stdio[k + 1]
          BY <2>1, <3>2, <4>2, EmptySeq, HeadTailProperties, LenProperties DEF NextKey
        <5>2. stdio[Len(stdio)].ch = Enter
          BY <2>1, <4>2 DEF LineRead
        <5>3. CASE Len(stdio) = 1
          BY <2>2, <3>1, <3>2, <4>1, <4>2, <5>1, <5>2, <5>3, EmptySeq DEF LineRead
        <5>4. CASE Len(stdio) > 1
          <6>1. stdio' # <<>> /\ stdio'[Len(stdio')] = stdio[Len(stdio)]
            BY <5>1, <5>4, EmptySeq
          <6> QED BY <5>2, <6>1 DEF LineRead
        <5> QED BY <5>1, <5>3, <5>4
      <4>3. CASE stdio = <<>>
        <5>1. /\ Len(kernel) \in Nat \ {0} /\ NextKey = kernel[1] /\ Len(stdio') = Len(kernel) - 1
              /\ \A k \in 1 .. Len(kernel) - 1 : stdio'[k] = kernel[k + 1]
          BY <2>1, <3>2, <4>3, LenProperties DEF NextKey
        <5>2. kernel[Len(kernel)].ch = Enter
          <6>1. Lines # {}
            BY <2>1, <3>2, <4>3 DEF Readable
          <6> QED BY <2>1, <6>1 DEF Lines
        <5>3. i = 0
          BY <2>1, <4>1, <4>3 DEF LineRead
        <5>4. CASE Len(kernel) = 1
          BY <3>1, <3>2, <5>1, <5>2, <5>3, <5>4, EmptySeq DEF LineRead
        <5>5. CASE Len(kernel) > 1
          <6>1. stdio' # <<>> /\ stdio'[Len(stdio')] = kernel[Len(kernel)]
            BY <5>1, <5>5, EmptySeq
          <6> QED BY <5>2, <6>1 DEF LineRead
        <5> QED BY <5>1, <5>4, <5>5
      <4> QED BY <4>2, <4>3
    <3> QED BY <2>1, <3>2, <3>3, EmptySeq DEF KeptPace
  <2>3. CASE i > 0 /\ (stdio # <<>> \/ kbhit) /\ NextKey.ch = Enter
    <3>1. UNCHANGED <<kernel, stdio, i>> /\ place' = "asked" /\ stdio # <<>>
      BY <2>1, <2>3 DEF GetName, LineRead
    <3> QED BY <2>1, <3>1 DEF KeptPace
  <2> QED BY <2>2, <2>3
<1> QED BY <1>1, <1>2 DEF IInv

-----------------------------------------------------------------------------
\* The steps that take no key: kbhit finds none as long as main keeps pace.
LEMMA DialogueStep ==
    ASSUME IInv, Running, Answer \/ PassMode \/ PassTest \/ PassDone \/ Checked
    PROVE  IInv'
<1>1. CASE Answer
  <2>1. Types' /\ Threads' /\ Settings'
    BY <1>1 DEF Answer, ttyVars, ghosts, IInv, Types, Threads, Settings, Staying
  <2>2. KeptPace'
    BY <1>1 DEF Answer, ttyVars, ghosts, IInv, Threads, KeptPace, Staying
  <2> QED BY <2>1, <2>2 DEF IInv
<1>2. CASE PassMode
  <2>1. Types' /\ Threads' /\ Settings'
    BY <1>2 DEF PassMode, ghosts, IInv, Types, Threads, Settings, Staying
  <2>2. KeptPace'
    BY <1>2 DEF PassMode, ghosts, IInv, Threads, KeptPace, Staying
  <2> QED BY <2>1, <2>2 DEF IInv
<1>3. CASE PassTest
  <2>1. ~early => ~kbhit
    BY <1>3, Nothing DEF PassTest, IInv, Threads, KeptPace, Staying
  <2>2. place' \in {"done", "mode", "get"} /\ (~early => place' # "mode")
    BY <1>3, <2>1 DEF PassTest
  <2>3. Types' /\ Threads' /\ Settings'
    BY <1>3, <2>2 DEF PassTest, ttyVars, ghosts, IInv, Types, Threads, Settings, Staying
  <2>4. KeptPace'
    BY <1>3, <2>2 DEF PassTest, ttyVars, ghosts, IInv, Threads, KeptPace, Staying
  <2> QED BY <2>3, <2>4 DEF IInv
<1>4. CASE PassDone
  <2>1. Types' /\ Threads' /\ Settings'
    BY <1>4 DEF PassDone, ghosts, IInv, Types, Threads, Settings, Staying
  <2>2. KeptPace'
    BY <1>4 DEF PassDone, ghosts, IInv, Threads, KeptPace, Staying
  <2> QED BY <2>1, <2>2 DEF IInv
<1>5. CASE Checked
  <2>1. Types' /\ Threads' /\ Settings'
    BY <1>5 DEF Checked, ttyVars, ghosts, IInv, Types, Threads, Settings, Staying
  <2>2. KeptPace'
    BY <1>5 DEF Checked, ttyVars, ghosts, IInv, Threads, KeptPace, Staying
  <2> QED BY <2>1, <2>2 DEF IInv
<1> QED BY <1>1, <1>2, <1>3, <1>4, <1>5

\* A letter of a password: whatever a burst brought along is in the buffer.
LEMMA PasswordStep ==
    ASSUME IInv, Running, PassKey
    PROVE  IInv'
<1>1. Types' /\ Threads' /\ Settings'
  <2>1. AfterKey(NextKey.ch) \in Nat
    BY KeysAssumption DEF AfterKey, IInv, Types
  <2> QED BY <2>1 DEF PassKey, IInv, Types, Threads, Settings, Staying
<1>2. KeptPace'
  <2> SUFFICES ASSUME ~early, ~raced PROVE KeptPace'
    BY DEF KeptPace, Staying, PassKey, IInv, Types, Threads
  <2>1. /\ KeptPace /\ Staying /\ mode = "raw" /\ keys = "none" /\ Getchar
        /\ place' = "test" /\ keys' = keys
    BY DEF PassKey, IInv, Threads, Settings, Staying
  <2>2. kernel' = <<>> /\ stdio' \in Seq(Key)
    BY <2>1, ReadsAll DEF KeptPace
  <2> QED BY <2>1, <2>2, EmptySeq DEF KeptPace
<1> QED BY <1>1, <1>2 DEF IInv

\* The thread of the keys, beside which main waits or has ended.
LEMMA ThreadStep ==
    ASSUME IInv, Running, KeySave \/ KeySet \/ KeyTest \/ KeyGet
    PROVE  IInv'
<1>1. place \in {"lobby", "playing", "handler"}
  BY DEF KeySave, KeySet, KeyTest, KeyGet, IInv, Threads
<1>2. CASE KeySave
  <2>1. Types' /\ Threads' /\ Settings'
    BY <1>1, <1>2 DEF KeySave, ghosts, IInv, Types, Threads, Settings, Staying
  <2>2. KeptPace'
    BY <1>1, <1>2 DEF KeySave, ghosts, IInv, KeptPace, Staying
  <2> QED BY <2>1, <2>2 DEF IInv
<1>3. CASE KeySet
  <2>1. Types' /\ Threads' /\ Settings'
    BY <1>1, <1>3 DEF KeySet, IInv, Types, Threads, Settings, Staying, Running
  <2>2. KeptPace'
    BY <1>1, <1>3 DEF KeySet, IInv, KeptPace, Staying
  <2> QED BY <2>1, <2>2 DEF IInv
<1>4. CASE KeyTest
  <2>1. ~early /\ Staying => ~kbhit
    BY <1>4, Nothing DEF KeyTest, IInv, KeptPace
  <2>2. keys' \in {"save", "get"} /\ (~early /\ Staying => keys' = "get")
    BY <1>4, <2>1 DEF KeyTest
  <2>3. Types' /\ Threads' /\ Settings'
    BY <1>1, <1>4, <2>2 DEF KeyTest, ttyVars, ghosts, IInv, Types, Threads, Settings, Staying
  <2>4. KeptPace'
    BY <1>1, <1>4, <2>2 DEF KeyTest, ttyVars, ghosts, IInv, KeptPace, Staying
  <2> QED BY <2>3, <2>4 DEF IInv
<1>5. CASE KeyGet
  <2>1. /\ keys = "get" /\ keys' \in {"handler", "test"} /\ Getchar
        /\ leaving' \in {leaving, "restore"} /\ (leaving # "no" => leaving' = leaving)
        /\ UNCHANGED <<place, mode, oldt, i, prompt, early, raced>>
    BY <1>5 DEF KeyGet
  <2>2. Types' /\ Threads' /\ Settings'
    BY <1>1, <2>1 DEF IInv, Types, Threads, Settings, Staying
  <2>3. KeptPace'
    <3> SUFFICES ASSUME ~early, ~raced, Staying PROVE KeptPace'
      BY <2>1 DEF KeptPace, Staying, IInv, Types
    <3>1. KeptPace /\ mode = "raw"
      BY <2>1 DEF IInv, Settings
    <3>2. kernel' = <<>> /\ stdio' \in Seq(Key)
      BY <2>1, <3>1, ReadsAll DEF KeptPace
    <3> QED BY <1>1, <2>1, <3>2, EmptySeq DEF KeptPace
  <2> QED BY <2>2, <2>3 DEF IInv
<1> QED BY <1>2, <1>3, <1>4, <1>5

\* The end, which restores what changeMode saved.
LEMMA LeaveStep ==
    ASSUME IInv, Play \/ Interrupt \/ Restore \/ Exit \/ UNCHANGED vars
    PROVE  IInv'
<1>1. CASE Play
  <2>1. Types' /\ Threads' /\ Settings'
    BY <1>1 DEF Play, ttyVars, ghosts, IInv, Types, Threads, Settings, Staying
  <2>2. KeptPace'
    BY <1>1 DEF Play, ttyVars, ghosts, IInv, KeptPace, Staying
  <2> QED BY <2>1, <2>2 DEF IInv
<1>2. CASE Interrupt
  <2>1. Types' /\ Threads' /\ Settings'
    BY <1>2 DEF Interrupt, ttyVars, ghosts, IInv, Types, Threads, Settings, Staying
  <2>2. KeptPace'
    BY <1>2 DEF Interrupt, ttyVars, ghosts, IInv, KeptPace, LineRead, Staying
  <2> QED BY <2>1, <2>2 DEF IInv
<1>3. CASE Restore
  <2>1. Types' /\ Threads' /\ Settings'
    BY <1>3 DEF Restore, ghosts, IInv, Types, Threads, Settings, Staying
  <2>2. KeptPace'
    BY <1>3 DEF Restore, KeptPace, Staying
  <2> QED BY <2>1, <2>2 DEF IInv
<1>4. CASE Exit
  <2>1. Types' /\ Threads' /\ Settings'
    BY <1>4 DEF Exit, ttyVars, ghosts, IInv, Types, Threads, Settings, Staying
  <2>2. KeptPace'
    BY <1>4 DEF Exit, KeptPace, Staying
  <2> QED BY <2>1, <2>2 DEF IInv
<1>5. CASE UNCHANGED vars
  BY <1>5 DEF vars, ttyVars, ghosts, IInv, Types, Threads, KeptPace, LineRead, Settings, Staying,
              Key
<1> QED BY <1>1, <1>2, <1>3, <1>4, <1>5

LEMMA NextStep == IInv /\ [Next]_vars => IInv'
<1> SUFFICES ASSUME IInv, [Next]_vars PROVE IInv'
  OBVIOUS
<1>1. CASE Main
  BY <1>1, NameStep, DialogueStep, PasswordStep DEF Main
<1>2. CASE listenToPress
  BY <1>2, ThreadStep DEF listenToPress
<1>3. CASE connHandler \/ Play \/ Interrupt \/ UNCHANGED vars
  BY <1>3, LeaveStep DEF connHandler
<1>4. ASSUME NEW b \in Bursts, Press(b) PROVE IInv'
  BY <1>4, PressStep
<1> QED BY <1>1, <1>2, <1>3, <1>4 DEF Next

\* The terminal is left as it was found (client.c:298-303, 331-342), unless the
\* program is interrupted before it has looked at it, a key came while nobody
\* waited for one, or the thread set the terminal after connHandler.
THEOREM TerminalIsRestored == Spec => []TerminalRestored
<1>1. IInv => TerminalRestored
  BY DEF IInv, Types, Settings, Staying, TerminalRestored
<1> QED BY <1>1, InitStep, NextStep, PTL DEF Spec
-----------------------------------------------------------------------------
\* Where getchar takes its key from.
Source == IF stdio # <<>> THEN stdio ELSE kernel

\* getchar takes the first key of its source, and leaves the others in stdio.
LEMMA TakesFirst ==
    ASSUME Getchar, kernel \in Seq(Key), stdio \in Seq(Key), stdio # <<>> => kernel = <<>>,
           mode = "cooked" => LineEnds(kernel)
    PROVE  /\ Source \in Seq(Key) /\ Len(Source) \in Nat \ {0} /\ NextKey = Source[1]
           /\ kernel' = <<>> /\ stdio' \in Seq(Key) /\ Len(stdio') = Len(Source) - 1
           /\ \A k \in 1 .. Len(stdio') : stdio'[k] = Source[k + 1]
<1>1. /\ kernel' = <<>> /\ stdio' \in Seq(Key)
      /\ stdio # <<>> => stdio' = Tail(stdio)
      /\ stdio = <<>> => Len(kernel) > 0 /\ stdio' = SubSeq(kernel, 2, Len(kernel))
  BY ReadsAll DEF LineEnds
<1>2. CASE stdio # <<>>
  <2>1. Len(stdio) \in Nat \ {0} /\ NextKey = stdio[1] /\ Len(stdio') = Len(stdio) - 1
        /\ \A k \in 1 .. Len(stdio) - 1 : stdio'[k] = stdio[k + 1]
    BY <1>1, <1>2, EmptySeq, HeadTailProperties, LenProperties DEF NextKey
  <2> QED BY <1>1, <1>2, <2>1 DEF Source
<1>3. CASE stdio = <<>>
  <2>1. Len(kernel) \in Nat \ {0} /\ NextKey = kernel[1] /\ Len(stdio') = Len(kernel) - 1
        /\ \A k \in 1 .. Len(kernel) - 1 : stdio'[k] = kernel[k + 1]
    BY <1>1, <1>3, LenProperties DEF NextKey
  <2> QED BY <1>1, <1>3, <2>1 DEF Source
<1> QED BY <1>2, <1>3

\* What is left of a line of fresh keys is one, and nothing is left of its ENTER.
LEMMA RestOfLine ==
    ASSUME NEW s \in Seq(Key), NEW t \in Seq(Key), Len(s) \in Nat \ {0}, Len(t) = Len(s) - 1,
           \A k \in 1 .. Len(t) : t[k] = s[k + 1]
    PROVE  /\ Fresh(s) => Fresh(t) /\ s[1].at = prompt
           /\ LineEnds(s) => LineEnds(t) /\ (s[1].ch = Enter => t = <<>>)
<1>1. DOMAIN s = 1 .. Len(s) /\ DOMAIN t = 1 .. Len(t) /\ Len(t) \in Nat
  BY LenProperties
<1>2. Fresh(s) => Fresh(t) /\ s[1].at = prompt
  BY <1>1 DEF Fresh
<1>3. LineEnds(s) => LineEnds(t)
  BY <1>1 DEF LineEnds
<1>4. LineEnds(s) /\ s[1].ch = Enter => t = <<>>
  BY <1>1, EmptySeq DEF LineEnds
<1> QED BY <1>2, <1>3, <1>4

LEMMA NothingFresh == Fresh(<<>>) /\ LineEnds(<<>>)
BY DEF Fresh, LineEnds

LEMMA PromptInit == Init => PromptInv
BY NothingFresh DEF Init, PromptInv, KeysAnswerTheirPrompt, OwnKeys, LobbyLeft

\* A press comes to a terminal from which all that came before has been read, or
\* is part of the name.
LEMMA PromptPress ==
    ASSUME IInv, PromptInv, NEW b \in Bursts, Press(b)
    PROVE  PromptInv'
<1>1. LobbyLeft' /\ KeysAnswerTheirPrompt' /\ {cut', stale'} \subseteq BOOLEAN
  BY DEF Press, PromptInv, LobbyLeft, KeysAnswerTheirPrompt, IInv, Types
<1>2. OwnKeys'
  <2> SUFFICES ASSUME ~early', ~cut' PROVE OwnKeys'
    BY DEF OwnKeys
  <2>1. /\ Awaited /\ ~early /\ ~cut /\ Types /\ OwnKeys /\ Threads /\ Settings /\ KeptPace
        /\ UNCHANGED <<place, keys, leaving, stdio, mode, i, prompt>>
    BY DEF Press, IInv, PromptInv, Types
  <2>2. stdio = <<>> /\ Readable = 0 /\ (place \in {"name", "get"} \/ keys = "get")
    BY <2>1 DEF Awaited
  <2>3. CASE ~(place \in {"name", "get"} \/ (place = "lobby" /\ leaving = "no"))
    BY <2>1, <2>3 DEF OwnKeys, Fresh, LineEnds, OnlyEnter
  <2>4. CASE place \in {"name", "get"} \/ (place = "lobby" /\ leaving = "no")
    <3>1. leaving = "no" /\ ~raced /\ kernel \in Seq(Key) /\ Fresh(kernel)
          /\ (place = "get" => mode = "raw" /\ i < MaxWord)
      BY <2>1, <2>4 DEF Threads, Types, KeptPace, Staying, Settings, OwnKeys
    <3>2. Len(kernel) \in Nat /\ DOMAIN kernel = 1 .. Len(kernel)
      BY <3>1, LenProperties
    <3>3. place = "get" => kernel = <<>>
      BY <2>2, <3>1, <3>2, EmptySeq DEF Readable
    <3> DEFINE e == [k \in DOMAIN b |-> [ch |-> b[k], at |-> prompt]]
    <3>4. /\ b \in Seq(Chars) /\ DOMAIN b = 1 .. Len(b) /\ Len(b) \in Nat
          /\ \A k \in DOMAIN b : b[k] = Enter => k = Len(b)
      BY KeysAssumption, LenProperties
    <3>5. e \in Seq(Key) /\ Len(e) = Len(b)
      <4>1. \A k \in 1 .. Len(b) : e[k] \in Key
        BY <2>1, <3>4, ElementOfSeq, SMTT(30) DEF Types, Key
      <4> QED BY <3>4, <4>1
    <3>6. \A k \in 1 .. Len(e) : e[k].at = prompt /\ (e[k].ch = Enter => k = Len(e))
      BY <3>4, <3>5
    <3>7. kernel' \in {kernel \o e, kernel, SubSeq(kernel, 1, Len(kernel) - 1)}
      BY DEF Press
    <3>8. place = "get" => kernel' \in {e, kernel}
      <4> SUFFICES ASSUME place = "get" PROVE kernel' \in {e, kernel}
        OBVIOUS
      <4>1. kernel' = kernel \o e
        BY <3>1 DEF Press
      <4> QED BY <3>3, <3>5, <4>1, ConcatEmptySeq
    <3> HIDE DEF e
    <3>9. Fresh(kernel')
      <4>1. CASE kernel' = kernel \o e
        <5>1. Len(kernel \o e) = Len(kernel) + Len(e) /\ kernel \o e \in Seq(Key)
              /\ \A k \in 1 .. Len(kernel) + Len(e) :
                    (kernel \o e)[k] = IF k <= Len(kernel) THEN kernel[k] ELSE e[k - Len(kernel)]
          BY <3>1, <3>5, ConcatProperties, SMTT(30)
        <5>2. Len(e) \in Nat /\ DOMAIN (kernel \o e) = 1 .. Len(kernel) + Len(e)
          BY <3>4, <3>5, <5>1, LenProperties
        <5> QED BY <3>1, <3>2, <3>6, <4>1, <5>1, <5>2 DEF Fresh
      <4>2. CASE kernel' = kernel
        BY <3>1, <4>2
      <4>3. CASE kernel' = SubSeq(kernel, 1, Len(kernel) - 1)
        <5>1. kernel' \in Seq(Key) /\ \A k \in DOMAIN kernel' : k \in DOMAIN kernel /\ kernel'[k] = kernel[k]
          BY <3>1, <3>2, <4>3
        <5> QED BY <3>1, <5>1 DEF Fresh
      <4> QED BY <3>7, <4>1, <4>2, <4>3
    <3>10. place = "get" => LineEnds(kernel')
      <4>1. LineEnds(e)
        BY <3>4, <3>5, <3>6, LenProperties DEF LineEnds
      <4> QED BY <3>3, <3>8, <4>1, NothingFresh
    <3>11. place = "name" => LineEnds(kernel')
      <4>1. KeptPace'
        BY PressStep DEF IInv
      <4> QED BY <2>1, <3>1, <4>1 DEF KeptPace, Staying, LineEnds
    <3>12. Fresh(kernel)' /\ Fresh(stdio)' /\ LineEnds(stdio)'
      BY <2>1, <2>2, <3>9, NothingFresh DEF Fresh, LineEnds
    <3>13. place \in {"name", "get"} => LineEnds(kernel)'
      BY <3>10, <3>11 DEF LineEnds
    <3> QED BY <2>1, <2>2, <2>4, <3>1, <3>12, <3>13 DEF OwnKeys
  <2> QED BY <2>3, <2>4
<1> QED BY <1>1, <1>2 DEF PromptInv

\* The name ends before the ENTER of its line, or with the buffer used up.
LEMMA PromptName ==
    ASSUME IInv, PromptInv, Running, GetName
    PROVE  PromptInv'
<1>1. LobbyLeft' /\ KeysAnswerTheirPrompt' /\ {cut', stale'} \subseteq BOOLEAN
  BY DEF GetName, PromptInv, LobbyLeft, KeysAnswerTheirPrompt, IInv, Types
<1>2. OwnKeys'
  <2> SUFFICES ASSUME ~early', ~cut' PROVE OwnKeys'
    BY DEF OwnKeys
  <2>1. /\ place = "name" /\ UNCHANGED <<leaving, prompt>> /\ leaving = "no" /\ ~early /\ ~cut
        /\ place' \in {"name", "asked"}
    BY DEF GetName, IInv, Threads, PromptInv
  <2>2. /\ kernel \in Seq(Key) /\ stdio \in Seq(Key) /\ (stdio # <<>> => kernel = <<>>)
        /\ (i > 0 => stdio # <<>>)
    BY <2>1 DEF IInv, KeptPace, LineRead, Staying
  <2>3. Fresh(kernel) /\ LineEnds(kernel) /\ Fresh(stdio) /\ LineEnds(stdio)
    BY <2>1 DEF PromptInv, OwnKeys
  <2>4. CASE ~(i > 0 /\ (stdio # <<>> \/ kbhit) /\ NextKey.ch = Enter)
    <3>1. Getchar /\ (place' = "asked" => stdio' = <<>> \/ Head(stdio').ch = Enter)
          /\ (place' = "name" \/ place' = "asked")
      BY <2>1, <2>4 DEF GetName
    <3>2. /\ Source \in Seq(Key) /\ Len(Source) \in Nat \ {0} /\ kernel' = <<>>
          /\ stdio' \in Seq(Key) /\ Len(stdio') = Len(Source) - 1
          /\ \A k \in 1 .. Len(stdio') : stdio'[k] = Source[k + 1]
      BY <2>2, <2>3, <3>1, TakesFirst
    <3>3. Fresh(Source) /\ LineEnds(Source)
      BY <2>3 DEF Source
    <3>4. Fresh(stdio') /\ LineEnds(stdio')
      BY <3>2, <3>3, RestOfLine
    <3>5. stdio' # <<>> /\ Head(stdio').ch = Enter => Len(stdio') = 1 /\ stdio'[1].ch = Enter
      BY <3>2, <3>4, LenProperties, EmptySeq DEF LineEnds
    <3>6. Fresh(stdio)' /\ LineEnds(stdio)' /\ Fresh(kernel)' /\ LineEnds(kernel)'
      BY <2>1, <3>2, <3>4, NothingFresh DEF Fresh, LineEnds
    <3> QED BY <2>1, <3>1, <3>5, <3>6 DEF OwnKeys, OnlyEnter
  <2>5. CASE i > 0 /\ (stdio # <<>> \/ kbhit) /\ NextKey.ch = Enter
    <3>1. place' = "asked" /\ stdio' = stdio /\ stdio # <<>>
      BY <2>2, <2>5 DEF GetName
    <3>2. Len(stdio) = 1 /\ stdio[1].ch = Enter
      <4>1. stdio[1].ch = Enter /\ 1 \in DOMAIN stdio
        BY <2>2, <2>5, <3>1, LenProperties, EmptySeq DEF NextKey
      <4> QED BY <2>3, <4>1 DEF LineEnds
    <3> QED BY <2>1, <3>1, <3>2 DEF OwnKeys, OnlyEnter
  <2> QED BY <2>4, <2>5
<1> QED BY <1>1, <1>2 DEF PromptInv

\* The steps that take no key.  The prompt changes where none waits.
LEMMA PromptDialogue ==
    ASSUME IInv, PromptInv, Running, Answer \/ PassMode \/ PassTest \/ PassDone \/ Checked
    PROVE  PromptInv'
<1>1. /\ KeysAnswerTheirPrompt' /\ UNCHANGED <<early, cut, stdio, kernel, leaving>>
      /\ {cut', stale'} \subseteq BOOLEAN
  BY DEF PromptInv, KeysAnswerTheirPrompt, Answer, PassMode, PassTest, PassDone, Checked, ghosts, ttyVars
<1>2. LobbyLeft' /\ leaving = "no" /\ place \in {"asked", "mode", "test", "done", "checked"}
  BY DEF Answer, PassMode, PassTest, PassDone, Checked, IInv, Threads, LobbyLeft
<1>3. OwnKeys'
  <2> SUFFICES ASSUME ~early, ~cut PROVE OwnKeys'
    BY <1>1 DEF OwnKeys
  <2>1. kernel = <<>> /\ OwnKeys
    BY <1>2 DEF IInv, KeptPace, Staying, PromptInv
  <2>2. Fresh(kernel)' /\ LineEnds(kernel)' /\ (stdio = <<>> => Fresh(stdio)' /\ LineEnds(stdio)')
    BY <1>1, <2>1, NothingFresh DEF Fresh, LineEnds
  <2>3. MaxWord > 0 /\ ~kbhit
    BY <2>1, Nothing, KeysAssumption
  <2>4. CASE Answer
    BY <1>1, <2>1, <2>2, <2>3, <2>4 DEF Answer, OwnKeys, OnlyEnter
  <2>5. CASE PassMode
    BY <1>1, <2>1, <2>5 DEF PassMode, OwnKeys, OnlyEnter, Fresh, LineEnds
  <2>6. CASE PassTest
    <3>1. i \in Nat /\ MaxWord \in Nat /\ i' = i /\ prompt' = prompt /\ place = "test"
          /\ place' = IF i >= MaxWord THEN "done" ELSE "get"
      BY <2>3, <2>6, KeysAssumption DEF PassTest, IInv, Types
    <3>2. /\ Fresh(stdio)' = Fresh(stdio) /\ LineEnds(stdio)' = LineEnds(stdio)
          /\ OnlyEnter(stdio)' = OnlyEnter(stdio)
      BY <1>1, <3>1 DEF Fresh, LineEnds, OnlyEnter
    <3>3. Len(<<>>) = 0
      OBVIOUS
    <3>4. CASE i >= MaxWord
      BY <1>1, <2>1, <2>3, <3>1, <3>3, <3>4 DEF OwnKeys, OnlyEnter
    <3>5. CASE ~(i >= MaxWord)
      BY <1>1, <2>1, <2>2, <3>1, <3>2, <3>5 DEF OwnKeys
    <3> QED BY <3>4, <3>5
  <2>7. CASE PassDone
    BY <1>1, <2>1, <2>7 DEF PassDone, OwnKeys
  <2>8. CASE Checked
    BY <1>1, <2>1, <2>2, <2>3, <2>8 DEF Checked, OwnKeys, OnlyEnter
  <2> QED BY <2>4, <2>5, <2>6, <2>7, <2>8
<1> QED BY <1>1, <1>2, <1>3 DEF PromptInv

\* A letter of a password: one of this prompt, or an ENTER that is ignored.
LEMMA PromptKey ==
    ASSUME IInv, PromptInv, Running, PassKey
    PROVE  PromptInv'
<1>1. /\ LobbyLeft' /\ place = "get" /\ place' = "test" /\ leaving = "no" /\ ~raced
      /\ {cut, stale, cut', stale'} \subseteq BOOLEAN /\ early \in BOOLEAN
  BY DEF PassKey, IInv, Threads, Types, LobbyLeft, PromptInv
<1>2. CASE early \/ cut
  <2>1. early' \/ cut'
    BY <1>2 DEF PassKey
  <2> QED BY <1>1, <2>1 DEF PromptInv, OwnKeys, KeysAnswerTheirPrompt
<1>3. CASE ~early /\ ~cut
  <2>1. /\ kernel \in Seq(Key) /\ stdio \in Seq(Key) /\ (stdio # <<>> => kernel = <<>>)
        /\ mode = "raw" /\ i \in Nat /\ MaxWord \in Nat
    BY <1>1, <1>3, KeysAssumption DEF IInv, KeptPace, Settings, Types, Staying
  <2>2. /\ Source \in Seq(Key) /\ Len(Source) \in Nat \ {0} /\ NextKey = Source[1]
        /\ stdio' \in Seq(Key) /\ Len(stdio') = Len(Source) - 1
        /\ \A k \in 1 .. Len(stdio') : stdio'[k] = Source[k + 1]
    BY <2>1, TakesFirst DEF PassKey
  <2>3. /\ i' = AfterKey(NextKey.ch) /\ UNCHANGED <<leaving, prompt, early>>
        /\ ~cut' => i' # MaxWord \/ NextKey.ch = Enter
        /\ stale' => stale \/ (i' # i /\ NextKey.at # prompt)
    BY <1>1, <1>3 DEF PassKey
  <2>4. i < MaxWord /\ Fresh(kernel) /\ LineEnds(kernel) /\ ~stale
    BY <1>1, <1>3 DEF PromptInv, OwnKeys, KeysAnswerTheirPrompt
  <2>5. /\ i' \in Nat /\ i' <= MaxWord
        /\ i = 0 /\ NextKey.ch = Enter => i' = 0
    BY <2>1, <2>3, <2>4 DEF AfterKey
  <2>6. CASE i = 0 /\ OnlyEnter(stdio)
    <3>1. Len(<<>>) = 0
      OBVIOUS
    <3>7. stdio # <<>> /\ Source = stdio
      BY <2>6, <3>1 DEF Source, OnlyEnter
    <3>2. stdio' = <<>> /\ i' = i /\ i' < MaxWord
      BY <2>2, <2>4, <2>5, <2>6, <3>7, EmptySeq DEF OnlyEnter
    <3>3. ~stale' /\ Fresh(stdio)' /\ LineEnds(stdio)'
      BY <2>3, <2>4, <3>2, NothingFresh DEF Fresh, LineEnds
    <3> QED BY <1>1, <3>2, <3>3 DEF PromptInv, OwnKeys, KeysAnswerTheirPrompt
  <2>7. CASE Fresh(stdio) /\ LineEnds(stdio)
    <3>1. Fresh(Source) /\ LineEnds(Source)
      BY <2>4, <2>7 DEF Source
    <3>2. Fresh(stdio') /\ LineEnds(stdio') /\ NextKey.at = prompt /\ (NextKey.ch = Enter => stdio' = <<>>)
      BY <2>2, <3>1, RestOfLine
    <3>3. ~stale' /\ Fresh(stdio)' /\ LineEnds(stdio)'
      BY <2>3, <2>4, <3>2 DEF Fresh, LineEnds
    <3>4. ~cut' => i' < MaxWord \/ (i' >= MaxWord /\ stdio' = <<>>)
      BY <2>1, <2>3, <2>5, <3>2
    <3> QED BY <1>1, <3>3, <3>4 DEF PromptInv, OwnKeys, KeysAnswerTheirPrompt
  <2> QED BY <1>1, <1>3, <2>1, <2>4, <2>6, <2>7 DEF PromptInv, OwnKeys
<1> QED BY <1>2, <1>3

\* The thread of the keys: in the lobby every key was pressed there.
LEMMA PromptThread ==
    ASSUME IInv, PromptInv, Running, KeySave \/ KeySet \/ KeyTest \/ KeyGet
    PROVE  PromptInv'
<1>1. /\ place \in {"lobby", "playing", "handler"} /\ place' = place /\ keys # "handler"
      /\ {cut, stale, cut', stale'} \subseteq BOOLEAN
  BY DEF KeySave, KeySet, KeyTest, KeyGet, IInv, Threads, ttyVars, ghosts, PromptInv
<1>2. CASE KeySave \/ KeySet \/ KeyTest
  <2>1. UNCHANGED <<kernel, stdio, prompt, leaving, early, cut, stale>>
    BY <1>2 DEF KeySave, KeySet, KeyTest, ttyVars, ghosts
  <2>2. KeysAnswerTheirPrompt' /\ LobbyLeft'
    BY <1>1, <2>1 DEF PromptInv, KeysAnswerTheirPrompt, LobbyLeft
  <2>3. OwnKeys'
    BY <1>1, <2>1 DEF PromptInv, OwnKeys, Fresh
  <2> QED BY <1>1, <2>2, <2>3 DEF PromptInv
<1>3. CASE KeyGet
  <2>1. /\ Getchar /\ UNCHANGED <<prompt, early, cut>> /\ keys = "get"
        /\ leaving' = leaving \/ keys' = "handler"
        /\ place # "lobby" => stale' = stale
        /\ stale' => stale \/ NextKey.at # prompt
    BY <1>1, <1>3 DEF KeyGet
  <2>2. LobbyLeft'
    BY <1>1, <2>1 DEF PromptInv, LobbyLeft
  <2>3. CASE early \/ cut \/ place # "lobby"
    BY <1>1, <2>1, <2>2, <2>3 DEF PromptInv, KeysAnswerTheirPrompt, OwnKeys
  <2>4. CASE ~early /\ ~cut /\ place = "lobby"
    <3>1. leaving = "no" /\ ~raced /\ mode = "raw" /\ Fresh(kernel) /\ Fresh(stdio) /\ ~stale
      BY <1>1, <2>1, <2>4 DEF PromptInv, LobbyLeft, OwnKeys, KeysAnswerTheirPrompt, IInv, Types, Settings,
         Staying
    <3>2. kernel \in Seq(Key) /\ stdio \in Seq(Key) /\ (stdio # <<>> => kernel = <<>>)
      BY <2>4, <3>1 DEF IInv, KeptPace, Staying
    <3>3. /\ Source \in Seq(Key) /\ Len(Source) \in Nat \ {0} /\ NextKey = Source[1]
          /\ kernel' = <<>> /\ stdio' \in Seq(Key) /\ Len(stdio') = Len(Source) - 1
          /\ \A k \in 1 .. Len(stdio') : stdio'[k] = Source[k + 1]
      BY <2>1, <3>1, <3>2, TakesFirst
    <3>4. Fresh(Source)
      BY <3>1 DEF Source
    <3>5. Fresh(stdio') /\ NextKey.at = prompt
      BY <3>3, <3>4, RestOfLine
    <3>6. Fresh(stdio)' /\ Fresh(kernel)' /\ ~stale'
      BY <2>1, <3>1, <3>3, <3>5, NothingFresh DEF Fresh
    <3> QED BY <1>1, <2>2, <2>4, <3>6 DEF PromptInv, OwnKeys, KeysAnswerTheirPrompt
  <2> QED BY <2>3, <2>4
<1> QED BY <1>2, <1>3

\* The end touches no key.
LEMMA PromptLeave ==
    ASSUME IInv, PromptInv, Play \/ Interrupt \/ Restore \/ Exit \/ UNCHANGED vars
    PROVE  PromptInv'
<1>1. UNCHANGED <<kernel, stdio, prompt, i, early, cut, stale>>
  BY DEF Play, Interrupt, Restore, Exit, vars, ttyVars, ghosts
<1>2. place' = place \/ place' \in {"playing", "handler"}
  BY DEF Play, Interrupt, Restore, Exit, vars
<1>3. KeysAnswerTheirPrompt' /\ LobbyLeft' /\ {cut', stale'} \subseteq BOOLEAN
  BY <1>1 DEF PromptInv, KeysAnswerTheirPrompt, LobbyLeft, Play, Interrupt, Restore, Exit, vars
<1>4. OwnKeys'
  <2>1. place' = "lobby" /\ leaving' = "no" => leaving = "no"
    BY DEF Play, Interrupt, Restore, Exit, vars
  <2> QED BY <1>1, <1>2, <2>1 DEF PromptInv, OwnKeys, Fresh, LineEnds, OnlyEnter
<1> QED BY <1>3, <1>4 DEF PromptInv

LEMMA PromptStep == IInv /\ PromptInv /\ [Next]_vars => PromptInv'
<1> SUFFICES ASSUME IInv, PromptInv, [Next]_vars PROVE PromptInv'
  OBVIOUS
<1>1. CASE Main
  BY <1>1, PromptName, PromptDialogue, PromptKey DEF Main
<1>2. CASE listenToPress
  BY <1>2, PromptThread DEF listenToPress
<1>3. CASE connHandler \/ Play \/ Interrupt \/ UNCHANGED vars
  BY <1>3, PromptLeave DEF connHandler
<1>4. ASSUME NEW b \in Bursts, Press(b) PROVE PromptInv'
  BY <1>4, PromptPress
<1> QED BY <1>1, <1>2, <1>3, <1>4 DEF Next

\* A key is used by the prompt it was pressed at (client.c:181-191, 252-265),
\* unless the player typed ahead or typed as many letters as the buffer has.
THEOREM KeysAnswer == Spec => []KeysAnswerTheirPrompt
<1>1. PromptInv => KeysAnswerTheirPrompt
  BY DEF PromptInv
<1> QED BY <1>1, InitStep, NextStep, PromptInit, PromptStep, PTL DEF Spec
=============================================================================
