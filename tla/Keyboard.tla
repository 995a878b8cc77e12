------------------------------ MODULE Keyboard ------------------------------
(***************************************************************************)
(* The keys of client/interfaces/input_interface.cpp: the bytes that a     *)
(* terminal sends for a key, and ParseLetter, which makes a letter of the  *)
(* bytes.  The bytes of a key arrive together: within a key the timeout of *)
(* ReadKey (a tenth of a second) only strikes when there are no more.      *)
(***************************************************************************)
EXTENDS Integers, Sequences

Digits == {"0", "1", "2", "3", "4", "5", "6", "7", "8", "9"}

\* What xterm and its like send
KeyBytes(key) ==
  CASE key = "UP" -> <<"esc", "[", "A">>
    [] key = "RIGHT" -> <<"esc", "[", "C">>
    [] key = "DELETE" -> <<"esc", "[", "3", "~">>
    [] key = "PAGE_DOWN" -> <<"esc", "[", "6", "~">>
    [] key = "F1" -> <<"esc", "O", "P">>
    [] key = "SHIFT_UP" -> <<"esc", "[", "1", ";", "2", "A">>
    [] key = "ESCAPE" -> <<"esc">>
    [] OTHER -> <<key>>  \* a letter, a digit, "enter", "backspace" or "ctrl-q"

Arrow(byte) ==
  CASE byte = "A" -> "ARROW_UP"
    [] byte = "B" -> "ARROW_DOWN"
    [] byte = "C" -> "ARROW_RIGHT"
    [] byte = "D" -> "ARROW_LEFT"
    [] OTHER -> "esc"

Letter(letter, used) == [letter |-> letter, used |-> used]

\* ParseLetter after an escape
ParseSequence(bytes) ==
  CASE Len(bytes) < 3 -> Letter("esc", Len(bytes))
    [] Len(bytes) >= 3 /\ bytes[2] # "[" -> Letter("UNKNOWN_KEY", 3)
    [] Len(bytes) >= 3 /\ bytes[2] = "[" /\ bytes[3] \notin Digits -> Letter(Arrow(bytes[3]), 3)
    [] Len(bytes) = 3 /\ bytes[2] = "[" /\ bytes[3] \in Digits -> Letter("esc", 3)
    [] OTHER -> Letter(IF bytes[3] = "3" /\ bytes[4] = "~" THEN "DEL_KEY" ELSE "UNKNOWN_KEY", 4)

ParseLetterShort(bytes) ==  \* Fault: the tilde stays in the input
  CASE bytes[1] = "esc" /\ Len(bytes) > 3 /\ bytes[3] = "3" -> Letter("DEL_KEY", 3)
    [] bytes[1] = "esc" -> ParseSequence(bytes)
    [] bytes[1] = "ctrl-q" -> Letter("quit", 1)
    [] bytes[1] = "backspace" -> Letter("DEL_KEY", 1)
    [] bytes[1] = "enter" -> Letter("ENTER_KEY", 1)
    [] OTHER -> Letter(bytes[1], 1)

ParseLetterNoQuit(bytes) ==  \* Fault: Ctrl-q is a letter like others
  CASE bytes[1] = "esc" -> ParseSequence(bytes)
    [] bytes[1] = "backspace" -> Letter("DEL_KEY", 1)
    [] bytes[1] = "enter" -> Letter("ENTER_KEY", 1)
    [] OTHER -> Letter(bytes[1], 1)

\* The letter that the input begins with, and how many bytes it takes; "quit" is throw -1
ParseLetter(bytes) ==
  CASE bytes[1] = "ctrl-q" -> Letter("quit", 1)
    [] bytes[1] = "esc" -> ParseSequence(bytes)
    [] bytes[1] = "backspace" -> Letter("DEL_KEY", 1)
    [] bytes[1] = "enter" -> Letter("ENTER_KEY", 1)
    [] OTHER -> Letter(bytes[1], 1)
=============================================================================
