-------------------------------- MODULE Paper --------------------------------
(***************************************************************************)
(* What a terminal promises: it writes like a typewriter on a roll of paper *)
(* that never ends.  Characters are struck at the carriage, on the last     *)
(* line only; lines above it are finished for good.                         *)
(***************************************************************************)
EXTENDS Integers

CONSTANTS Width, Glyphs, Blank

VARIABLES
    lines,          \* line number -> column -> what is struck there
    last,           \* the line being written
    column          \* where the carriage stands

Columns == 0..(Width - 1)
BlankLine == [x \in Columns |-> Blank]

Init ==
    /\ last = 0 /\ column = 0
    /\ lines = [i \in {0} |-> BlankLine]

\* The line `line' is finished as it stands, and the paper moves up by one.
Advance(line) ==
    /\ last' = last + 1
    /\ column' = 0
    /\ lines' = [i \in 0..(last + 1) |->
                    CASE i < last -> lines[i] [] i = last -> line [] OTHER -> BlankLine]

Struck(c) == [lines[last] EXCEPT ![column] = c]

\* A character in the last column moves the paper, as the end of a line does.
Strike(c) ==
    IF column = Width - 1
    THEN Advance(Struck(c))
    ELSE /\ lines' = [lines EXCEPT ![last] = Struck(c)]
         /\ column' = column + 1
         /\ UNCHANGED last

Feed == Advance(lines[last])

\* The carriage moves, and nothing is struck.
Move ==
    /\ column' \in Columns
    /\ UNCHANGED <<lines, last>>

Next == (\E c \in Glyphs : Strike(c)) \/ Feed \/ Move

Spec == Init /\ [][Next]_<<lines, last, column>>
=============================================================================
