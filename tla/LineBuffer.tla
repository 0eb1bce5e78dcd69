----------------------------- MODULE LineBuffer -----------------------------
(***************************************************************************)
(* fu_getline: a line of the source is read, character by character, into  *)
(* a buffer the caller keeps from one call to the next. The buffer doubles *)
(* when the next character and the terminator would not fit. The           *)
(* characters of the file are the environment's choice, one at a time; the *)
(* end of the input is one too, and may be an input error as well.         *)
(***************************************************************************)
EXTENDS Integers, Sequences

CONSTANTS Characters,  \* what a file may hold, "NUL" and "newline" among them
          InitLen,     \* FU_GETLINE_INIT_LEN
          MaxLine,     \* bound on the characters of a line before its newline
          Faults       \* {"memory"}: an allocation may fail; {}: none does

ASSUME LineBufferAssumption ==
  /\ {"NUL", "newline"} \subseteq Characters
  /\ InitLen \in Nat \ {0, 1}
  /\ MaxLine \in Nat
  /\ Faults \subseteq {"memory"}

VARIABLES
  reading,  \* call: about to be called; chars: in its loop; line: a line was
            \* returned; over: -1 was returned
  line,     \* the characters of the line so far, without the terminator
  n,        \* *n: what the buffer is said to hold
  held      \* what *lineptr really holds: 0 for NULL

lineVars == <<reading, line, n, held>>

Multiplier == 2   \* FU_GETLINE_CAP_MULT

MemoryFails == "memory" \in Faults

LineInit == reading = "call" /\ line = << >> /\ n = 0 /\ held = 0

\* The first allocation sets *n before it knows whether it has succeeded.
Begin ==
  /\ reading = "call" /\ line' = << >>
  /\ IF held # 0 /\ n # 0
     THEN reading' = "chars" /\ UNCHANGED <<n, held>>
     ELSE /\ n' = InitLen
          /\ \/ held' = InitLen /\ reading' = "chars"
             \/ MemoryFails /\ held' = 0 /\ reading' = "over"

\* Seeded fault: the terminator is not counted.
NoRoomForChar == Len(line) >= n

\* The next character would leave no place for the terminator.
NoRoom == Len(line) + 1 >= n

\* fgetc has returned character ch; a line ends with its newline.
Store(ch) ==
  /\ reading = "chars" /\ (Len(line) < MaxLine \/ ch = "newline")
  /\ \/ /\ n' = IF NoRoom THEN n * Multiplier ELSE n
        /\ held' = IF NoRoom THEN n * Multiplier ELSE held
        /\ line' = Append(line, ch)
        /\ reading' = IF ch = "newline" THEN "line" ELSE "chars"
     \/ /\ NoRoom /\ MemoryFails
        /\ reading' = "over"
        /\ UNCHANGED <<line, n, held>>

\* fgetc has returned EOF: what was read before it is a line.
EndOfInput ==
  /\ reading = "chars"
  /\ reading' = IF line = << >> THEN "over" ELSE "line"
  /\ UNCHANGED <<line, n, held>>

fu_getline == Begin \/ (\E ch \in Characters : Store(ch)) \/ EndOfInput

-----------------------------------------------------------------------------

LineTypeOK ==
  /\ reading \in {"call", "chars", "line", "over"}
  /\ line \in Seq(Characters)
  /\ n \in Nat /\ held \in Nat

\* Whatever lines came before in the same buffer: the terminator of the line
\* goes into the memory that was allocated, and *n never promises more of it
\* than there is, not even after a reallocation has failed.
LineFitsBuffer ==
  /\ reading \in {"chars", "line"} => Len(line) < held /\ n = held
  /\ held # 0 => held >= n
=============================================================================
