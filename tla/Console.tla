------------------------------ MODULE Console -------------------------------
(***************************************************************************)
(* The keyboard of a client (client.c): the name that scanf reads, the     *)
(* passwords that getPass reads key by key, and the thread listenToPress   *)
(* of the lobby and the game.                                              *)
(*                                                                         *)
(* Keys wait in the terminal until read takes them, all of them at once or *)
(* a line at a time, into the buffer of stdin; getchar goes on with that   *)
(* buffer.  The loops of getPass and listenToPress run WHILE NO key waits  *)
(* in the terminal: kbhit is there to tell whether the terminal has been   *)
(* emptied.  A key that arrives while nobody is in read ends the loop, and *)
(* the loop around it calls changeMode and kbhit for ever.                 *)
(***************************************************************************)
EXTENDS Integers, Sequences

CONSTANTS Bursts,    \* what one press of the player puts into the terminal
          Enter, Backspace, X,
          MaxWord,   \* MAX_WORD
          MaxPresses, \* bound: presses
          MaxWrong   \* bound: wrong passwords

\* A press is some characters, and a newline ends what the terminal sends at once.
Chars == UNION { { b[k] : k \in DOMAIN b } : b \in Bursts }
ASSUME KeysAssumption == /\ MaxWord \in Nat \ {0}
                         /\ \A b \in Bursts : /\ b \in Seq(Chars)
                                             /\ \A k \in DOMAIN b : b[k] = Enter => k = Len(b)

VARIABLES
    place,     \* where main is: the prompts, the loop of getPass, lobby, playing
    keys,      \* where the thread listenToPress is
    leaving,   \* how far connHandler is
    kernel,    \* the keys in the terminal, each with the prompt it was pressed at
    stdio,     \* the keys in the buffer of stdin
    mode,      \* the settings of the terminal
    oldt,      \* what changeMode restores; all zero at first
    i,         \* the letters of the word so far
    prompt,    \* 0 for the name, one more for each password and for the lobby
    ready,     \* the flag of listenToPress
    presses, wrong,
    early,     \* history: whether a key came while nobody waited for it
    cut,       \* history: whether a word was as long as its buffer
    stale,     \* history: whether a key was used by a later prompt than its own
    raced      \* history: whether listenToPress set the terminal after connHandler

ttyVars == <<kernel, stdio, mode, oldt>>
ghosts == <<early, cut, stale, raced>>
vars == <<place, keys, leaving, ttyVars, i, prompt, ready, presses, wrong, ghosts>>

Init == /\ place = "name"
        /\ keys = "none"
        /\ leaving = "no"
        /\ kernel = <<>>
        /\ stdio = <<>>
        /\ mode = "cooked"
        /\ oldt = "zero"
        /\ i = 0
        /\ prompt = 0
        /\ ready = FALSE
        /\ presses = 0
        /\ wrong = 0
        /\ early = FALSE /\ cut = FALSE /\ stale = FALSE /\ raced = FALSE

\* The process has not exited.
Running == leaving # "done"
-----------------------------------------------------------------------------
(* The terminal and stdin.                                                 *)

Lines == { k \in DOMAIN kernel : kernel[k].ch = Enter }

\* How many keys a read takes: a line, or everything.
Readable == IF mode # "cooked" THEN Len(kernel)
            ELSE IF Lines = {} THEN 0 ELSE CHOOSE k \in Lines : \A j \in Lines : k <= j

\* Somebody is in a read, and nothing that it will take has come before.
Awaited == /\ place \in {"name", "get"} \/ keys = "get"
           /\ stdio = <<>>
           /\ Readable = 0

\* A press.  The terminal itself edits the line as long as it is not read.
Press(b) ==
    /\ Running
    /\ presses < MaxPresses
    /\ presses' = presses + 1
    /\ kernel' = IF mode # "cooked" \/ b # <<Backspace>>
                 THEN kernel \o [k \in DOMAIN b |-> [ch |-> b[k], at |-> prompt]]
                 ELSE IF Len(kernel) \in {0} \cup Lines THEN kernel
                 ELSE SubSeq(kernel, 1, Len(kernel) - 1)
    /\ early' = (early \/ ~Awaited)
    /\ UNCHANGED <<place, keys, leaving, stdio, mode, oldt, i, prompt, ready, wrong, cut, stale, raced>>

NextKey == IF stdio # <<>> THEN Head(stdio) ELSE Head(kernel)

\* Mutant of Getchar: stdin without a buffer.
GetcharUnbuffered ==
    /\ stdio # <<>> \/ Readable > 0
    /\ UNCHANGED stdio
    /\ kernel' = Tail(kernel)

\* getchar: a read only when the buffer is used up.
Getchar ==
    \/ /\ stdio # <<>>
       /\ stdio' = Tail(stdio)
       /\ UNCHANGED kernel
    \/ /\ stdio = <<>>
       /\ Readable > 0
       /\ stdio' = SubSeq(kernel, 2, Readable)
       /\ kernel' = SubSeq(kernel, Readable + 1, Len(kernel))

kbhit == Readable > 0
-----------------------------------------------------------------------------
(* The dialogue of main.                                                   *)

\* scanf("%20s"): the ENTER behind the word stays in the buffer, and whatever
\* does not fit into it.
GetName ==
    /\ place = "name"
    /\ LET ended == i > 0 /\ (stdio # <<>> \/ kbhit) /\ NextKey.ch = Enter
       IN  \/ /\ ended
              /\ place' = "asked"
              /\ UNCHANGED <<kernel, stdio, i, cut>>
           \/ /\ ~ended
              /\ Getchar
              /\ i' = IF NextKey.ch = Enter THEN i ELSE i + 1
              /\ place' = IF i' = MaxWord THEN "asked" ELSE "name"
              /\ cut' = (cut \/ (i' = MaxWord /\ stdio' # <<>> /\ Head(stdio').ch # Enter))
    /\ UNCHANGED <<keys, leaving, mode, oldt, prompt, ready, presses, wrong, early, stale, raced>>

\* The server answers the name: the first password is asked for.
Answer ==
    /\ place = "asked"
    /\ place' = "mode"
    /\ i' = 0
    /\ prompt' = prompt + 1
    /\ UNCHANGED <<keys, leaving, ttyVars, ready, presses, wrong, ghosts>>

\* getPass, changeMode(1): what is set now is what will be restored.
PassMode ==
    /\ place = "mode"
    /\ oldt' = mode
    /\ mode' = "raw"
    /\ place' = "test"
    /\ UNCHANGED <<keys, leaving, kernel, stdio, i, prompt, ready, presses, wrong, ghosts>>

\* The conditions of both loops of getPass.
PassTest ==
    /\ place = "test"
    /\ place' = IF i >= MaxWord THEN "done" ELSE IF kbhit THEN "mode" ELSE "get"
    /\ UNCHANGED <<keys, leaving, ttyVars, i, prompt, ready, presses, wrong, ghosts>>

\* Mutant of AfterKey: an ENTER always ends the password.
AfterKeyEmpty(ch) == CASE ch = Backspace /\ i # 0 -> i - 1
                       [] ch = Enter -> MaxWord
                       [] OTHER -> i + 1

\* A key of a password: BACKSPACE and ENTER are letters or nothing at the start,
\* and an ENTER ends the loop by setting its counter.
AfterKey(ch) == CASE ch = Backspace /\ i # 0 -> i - 1
                  [] ch = Enter -> IF i # 0 THEN MaxWord ELSE 0
                  [] OTHER -> i + 1

PassKey ==
    /\ place = "get"
    /\ Getchar
    /\ i' = AfterKey(NextKey.ch)
    /\ place' = "test"
    /\ cut' = (cut \/ (i' = MaxWord /\ NextKey.ch # Enter))
    /\ stale' = (stale \/ (i' # i /\ NextKey.at # prompt))
    /\ UNCHANGED <<keys, leaving, mode, oldt, prompt, ready, presses, wrong, early, raced>>

\* Mutant of PassDone: the terminal is left as it is until the program ends.
PassDoneRaw ==
    /\ place = "done"
    /\ place' = "checked"
    /\ UNCHANGED <<keys, leaving, ttyVars, i, prompt, ready, presses, wrong, ghosts>>

\* changeMode(0), and the password is sent.
PassDone ==
    /\ place = "done"
    /\ mode' = oldt
    /\ place' = "checked"
    /\ UNCHANGED <<keys, leaving, kernel, stdio, oldt, i, prompt, ready, presses, wrong, ghosts>>

\* The server answers the password: it is asked for again, or prepareLobby starts
\* the thread.
Checked ==
    /\ place = "checked"
    /\ \/ wrong < MaxWrong /\ wrong' = wrong + 1 /\ place' = "mode" /\ UNCHANGED keys
       \/ place' = "lobby" /\ keys' = "save" /\ UNCHANGED wrong
    /\ i' = 0
    /\ prompt' = prompt + 1
    /\ UNCHANGED <<leaving, ttyVars, ready, presses, ghosts>>

\* The game starts, and it ends with connHandler.
Play ==
    /\ Running
    /\ \/ place = "lobby" /\ ready /\ place' = "playing" /\ UNCHANGED leaving
       \/ place = "playing" /\ leaving = "no" /\ place' = "handler" /\ leaving' = "restore"
    /\ UNCHANGED <<keys, ttyVars, i, prompt, ready, presses, wrong, ghosts>>
-----------------------------------------------------------------------------
(* The thread listenToPress.                                               *)

\* changeMode(1) in two calls ...
KeySave == /\ keys = "save"
           /\ oldt' = mode
           /\ keys' = "set"
           /\ UNCHANGED <<place, leaving, kernel, stdio, mode, i, prompt, ready, presses, wrong, ghosts>>

KeySet == /\ keys = "set"
          /\ mode' = "raw"
          /\ keys' = "test"
          /\ raced' = (raced \/ leaving = "exit")
          /\ UNCHANGED <<place, leaving, kernel, stdio, oldt, i, prompt, ready, presses, wrong, early, cut, stale>>

\* ... the inner loop, which a key in the terminal ends ...
KeyTest == /\ keys = "test"
           /\ keys' = IF kbhit THEN "save" ELSE "get"
           /\ UNCHANGED <<place, leaving, ttyVars, i, prompt, ready, presses, wrong, ghosts>>

\* ... and a key: ENTER and X in the lobby; in the game an arrow is sent, which
\* changes nothing here.
KeyGet ==
    /\ keys = "get"
    /\ Getchar
    /\ LET word == place = "lobby" /\ NextKey.ch = IF ready THEN X ELSE Enter
           quits == place = "lobby" /\ NextKey.ch = X /\ ~ready
       IN  /\ ready' = IF word THEN ~ready ELSE ready
           /\ keys' = IF quits THEN "handler" ELSE "test"
           /\ leaving' = IF quits /\ leaving = "no" THEN "restore" ELSE leaving
           /\ stale' = (stale \/ ((word \/ quits) /\ NextKey.at # prompt))
    /\ UNCHANGED <<place, mode, oldt, i, prompt, presses, wrong, early, cut, raced>>
-----------------------------------------------------------------------------
(* The end.                                                                *)

\* Ctrl-C: SIGINT runs connHandler in one of the threads.
Interrupt ==
    /\ leaving = "no"
    /\ leaving' = "restore"
    /\ \/ place' = "handler" /\ UNCHANGED keys
       \/ keys # "none" /\ keys' = "handler" /\ UNCHANGED place
    /\ UNCHANGED <<ttyVars, i, prompt, ready, presses, wrong, ghosts>>

\* changeMode(0) of connHandler ...
Restore == /\ leaving = "restore"
           /\ mode' = oldt
           /\ leaving' = "exit"
           /\ UNCHANGED <<place, keys, kernel, stdio, oldt, i, prompt, ready, presses, wrong, ghosts>>

\* ... and exit, until which the other thread runs.
Exit == /\ leaving = "exit"
        /\ leaving' = "done"
        /\ UNCHANGED <<place, keys, ttyVars, i, prompt, ready, presses, wrong, ghosts>>
-----------------------------------------------------------------------------
Main == Running /\ (GetName \/ Answer \/ PassMode \/ PassTest \/ PassKey \/ PassDone \/ Checked)
listenToPress == Running /\ (KeySave \/ KeySet \/ KeyTest \/ KeyGet)
connHandler == Restore \/ Exit

Next == \/ Main \/ listenToPress \/ connHandler
        \/ Play \/ Interrupt \/ \E b \in Bursts : Press(b)

Spec == Init /\ [][Next]_vars

\* Threads run and the server answers a login; the player does as he likes, and
\* the other players decide when the game starts and ends.
FairSpec == Spec /\ WF_vars(Main) /\ WF_vars(listenToPress) /\ WF_vars(connHandler)
-----------------------------------------------------------------------------
\* A key answers the prompt it was pressed at: what is left of a name or of a
\* password is taken for the next password or for the word of a player who is
\* ready (client.c:181-191, 252-265) only if the player typed ahead, or typed as
\* many letters as the buffer has.
KeysAnswerTheirPrompt == stale => early \/ cut

\* The terminal is left as it was found, unless the program is interrupted
\* before it has looked at it, or a key came too early and changeMode saved what
\* it had set itself, or the thread had still to begin (client.c:298-303, 331-342).
TerminalRestored ==
    leaving = "done" => mode = "cooked" \/ oldt = "zero" \/ early \/ raced

\* As long as no key comes while nobody waits for it, every key is read
\* (client.c:181-195, 251-291, 344-357), also those that a burst brought along.
KeysAreRead ==
    []~early => ((Readable > 0 \/ stdio # <<>>) ~> ((Readable = 0 /\ stdio = <<>>) \/ leaving # "no"))
=============================================================================
