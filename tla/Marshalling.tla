---------------------------- MODULE Marshalling -----------------------------
(***************************************************************************)
(* The structs of structs.h as the characters of a message, and back       *)
(* (marshalling.c).  A message is a sequence of characters, its terminator *)
(* left out: a digit is a number below ten, Sep is '#', any other          *)
(* character a model value.  The first one tells the type.                 *)
(*                                                                         *)
(* The readers copy a field into a local buffer and do not terminate it.   *)
(* What an earlier call left behind it in the buffer, unless the stack has *)
(* been used for something else meanwhile, is read as a part of it.        *)
(***************************************************************************)
EXTENDS SequencesExt, Integers

CONSTANT Sep  \* the separator of fields

ASSUME SepAssumption == Sep \notin 0 .. 9

\* sprintf("%d") of a number that is not negative; numPlaces is its length.
Digits[n \in Nat] == IF n < 10 THEN <<n>> ELSE Append(Digits[n \div 10], n % 10)

\* The number that digits stand for.
Value(s) ==
    LET value[k \in 0 .. Len(s)] == IF k = 0 THEN 0 ELSE 10 * value[k - 1] + s[k]
    IN  value[Len(s)]

\* strtol: the digits that a text begins with.
strtol(s) ==
    LET n == CHOOSE k \in 0 .. Len(s) :
                /\ \A j \in 1 .. k : s[j] \in 0 .. 9
                /\ k < Len(s) => s[k + 1] \notin 0 .. 9
    IN  Value(SubSeq(s, 1, n))

\* A text up to its first separator, and what follows that.
Until(s) == SubSeq(s, 1, SelectInSeq(s, LAMBDA ch : ch = Sep) - 1)
After(s) == SubSeq(s, SelectInSeq(s, LAMBDA ch : ch = Sep) + 1, Len(s))

\* What a buffer holds once field has been copied over its old content.
Over(field, old) == field \o SubSeq(old, Len(field) + 1, Len(old))

\* Mutant of marshPlayer: no separator between score and ready.
marshPlayerNoSep(p) ==
    p.name \o <<Sep>> \o Digits[p.num] \o <<Sep>> \o Digits[p.score] \o Digits[p.ready]

marshPlayer(p) ==
    p.name \o <<Sep>> \o Digits[p.num] \o <<Sep>> \o Digits[p.score] \o <<Sep>> \o Digits[p.ready]

\* The cells follow row by row, each as one digit.  A row is placed by the number
\* of rows, which is right for the square boards there are.
marshBoard(b) ==
    Digits[b.rows] \o <<Sep>> \o Digits[b.columns] \o <<Sep>>
        \o [n \in 1 .. b.rows * b.columns |-> b.board[(n - 1) \div b.rows][(n - 1) % b.rows]]

marshString(s) == Digits[Len(s)] \o <<Sep>> \o s

\* A coordinate is -1, 0 or 1 and sent as the number of its character, x + '0'.
marshPoint(p) == Digits[p.x + 48] \o <<Sep>> \o Digits[p.y + 48]

marshBoolean(value) == Digits[value]

\* The characters of a message.
marshalling(struct, type) ==
    CASE type = "PLAYER"  -> <<2>> \o marshPlayer(struct)
      [] type = "STRING"  -> <<3>> \o marshString(struct)
      [] type = "POINT"   -> <<1>> \o marshPoint(struct)
      [] type = "BOARD"   -> <<5>> \o marshBoard(struct)
      [] type = "BOOLEAN" -> <<4>> \o marshBoolean(struct)
-----------------------------------------------------------------------------
\* unmarshPlayer in three steps: the fields of the message, whose separators a
\* name with a separator of its own would move; the local buffers after they
\* have been copied; and what is read from the buffers.
PlayerFields(data) ==
    LET name == Tail(data)
        num == After(name)
        score == After(num)
    IN  [nombre |-> Until(name), num |-> Until(num), num2 |-> Until(score), num3 |-> After(score)]

PlayerBuffers(fields, old) == [f \in DOMAIN fields |-> Over(fields[f], old[f])]

Blank == [nombre |-> <<>>, num |-> <<>>, num2 |-> <<>>, num3 |-> <<>>]

unmarshPlayer(b) ==
    [name |-> b.nombre, num |-> strtol(b.num), score |-> strtol(b.num2), ready |-> strtol(b.num3)]

\* The size in front of the text is only used to allocate.
unmarshString(data) == After(data)

\* Both numbers of a POINT have two digits, so that no digit stays behind them.
unmarshPoint(data) ==
    [x |-> strtol(Until(Tail(data))) - 48, y |-> strtol(After(data)) - 48]

unmarshBoard(data) ==
    LET rows == strtol(Until(Tail(data)))
        columns == strtol(Until(After(data)))
        cells == After(After(data))
    IN  [rows |-> rows, columns |-> columns,
         board |-> [k \in 0 .. rows - 1 |-> [j \in 0 .. columns - 1 |-> cells[k * columns + j + 1]]]]

\* A single character, '0' or '1', whatever follows it.
unmarshBoolean(data) == data[2]

\* unmarshalling of a whole message, with the buffers of unmarshPlayer blank.
unmarshalling(data) ==
    CASE Head(data) = 2 -> unmarshPlayer(PlayerBuffers(PlayerFields(data), Blank))
      [] Head(data) = 3 -> unmarshString(data)
      [] Head(data) = 1 -> unmarshPoint(data)
      [] Head(data) = 5 -> unmarshBoard(data)
      [] Head(data) = 4 -> unmarshBoolean(data)
=============================================================================
