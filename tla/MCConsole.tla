----------------------------- MODULE MCConsole ------------------------------
(***************************************************************************)
(* A keyboard with one letter and one arrow for TLC.                       *)
(***************************************************************************)
EXTENDS Console

CONSTANTS a, arrow  \* a letter, and the last character of an arrow key

TypedKeys == {<<a>>, <<Enter>>, <<Backspace>>, <<X>>, <<a, arrow>>}
=============================================================================
