\* Words of two letters, so that both a password that fits and one that fills its
\* buffer are typed; an arrow key is a burst of two characters.
CONSTANTS
    a = a
    arrow = arrow
    Enter = Enter
    Backspace = Backspace
    X = X
    Bursts <- TypedKeys
    MaxWord = 2
    MaxPresses = 7
    MaxWrong = 1
SPECIFICATION FairSpec
INVARIANTS KeysAnswerTheirPrompt TerminalRestored
PROPERTIES KeysAreRead
\* The client waits for a player who has pressed enough, or has exited.
CHECK_DEADLOCK FALSE
