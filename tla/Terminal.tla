------------------------------ MODULE Terminal ------------------------------
(***************************************************************************)
(* The terminal of the kernel (kernel/arch/i386/tty.c): the cells of the    *)
(* screen, a cursor, and what terminal_putchar does with each character.    *)
(* The lines that have left the screen at the top are kept as history; they *)
(* let the terminal be compared with the roll of paper of module Paper.     *)
(***************************************************************************)
EXTENDS Integers

CONSTANTS
    Width,          \* VGA_WIDTH (80)
    Height,         \* VGA_HEIGHT (25)
    TabStop,        \* distance of tabs (8)
    Glyphs,         \* characters that terminal_putchar shows
    Blank           \* the space

ASSUME TerminalAssumption ==
    /\ {Width, Height, TabStop} \subseteq Nat \ {0}
    /\ Blank \in Glyphs
    /\ {"BS", "HT", "CR", "LF"} \cap Glyphs = {}

VARIABLES
    screen,         \* terminal_buffer: row -> column -> character
    terminal_row,
    terminal_column,
    above,          \* history: the lines that were scrolled off
    gone            \* history: how many there are

terminal == <<screen, terminal_row, terminal_column, above, gone>>

Rows == 0..(Height - 1)
Columns == 0..(Width - 1)
BlankLine == [x \in Columns |-> Blank]

terminal_initialize ==
    /\ screen = [y \in Rows |-> BlankLine]
    /\ terminal_row = 0
    /\ terminal_column = 0
    /\ above = [i \in {} |-> BlankLine]
    /\ gone = 0

\* Mutant: a backspace at the left edge moves the cursor out of the screen.
BacksOut(c) ==
    CASE c \in Glyphs -> terminal_column + 1
      [] c = "BS" -> terminal_column - 1
      [] c = "HT" -> ((terminal_column + TabStop) \div TabStop) * TabStop
      [] c \in {"CR", "LF"} -> 0
      [] OTHER -> terminal_column

\* Where the cursor goes, before it is brought back to the screen.
ColumnAfter(c) ==
    CASE c \in Glyphs -> terminal_column + 1
      [] c = "BS" /\ terminal_column > 0 -> terminal_column - 1
      [] c = "HT" -> ((terminal_column + TabStop) \div TabStop) * TabStop
      [] c \in {"CR", "LF"} -> 0
      [] OTHER -> terminal_column

\* Mutant: the last row is left as it was.
KeepsLastRow(s) == [y \in Rows |-> IF y + 1 \in Rows THEN s[y + 1] ELSE s[y]]

\* Every row takes what stood in the one below it; the last becomes blank.
Scrolled(s) == [y \in Rows |-> IF y + 1 \in Rows THEN s[y + 1] ELSE BlankLine]

\* terminal_putchar(c).  The memcpy it starts to scroll with takes two cells for
\* addresses and leaves the screen alone.
terminal_putchar(c) ==
    LET drawn == IF c \in Glyphs
                 THEN [screen EXCEPT ![terminal_row][terminal_column] = c] ELSE screen
        wraps == ColumnAfter(c) >= Width
        row == IF c = "LF" \/ wraps THEN terminal_row + 1 ELSE terminal_row
        scrolls == row >= Height
    IN
    /\ terminal_column' = IF wraps THEN 0 ELSE ColumnAfter(c)
    /\ terminal_row' = IF scrolls THEN Height - 1 ELSE row
    /\ screen' = IF scrolls THEN Scrolled(drawn) ELSE drawn
    /\ above' = IF scrolls
                THEN [i \in 0..gone |-> IF i < gone THEN above[i] ELSE drawn[0]]
                ELSE above
    /\ gone' = IF scrolls THEN gone + 1 ELSE gone

----------------------------------------------------------------------------
(* Properties.                                                             *)

\* The cursor is on the screen, and every cell holds a character.
TerminalTypeOK ==
    /\ screen \in [Rows -> [Columns -> Glyphs]]
    /\ terminal_row \in Rows
    /\ terminal_column \in Columns
    /\ gone \in Nat
    /\ above \in [0..(gone - 1) -> [Columns -> Glyphs]]

\* Below the cursor nothing is written, so a new line starts blank.
BlankBelow == \A y \in Rows : y > terminal_row => screen[y] = BlankLine

\* The lines written so far, on the screen and above it.
Lines ==
    [i \in 0..(gone + terminal_row) |-> IF i < gone THEN above[i] ELSE screen[i - gone]]

Roll == INSTANCE Paper WITH lines <- Lines, last <- gone + terminal_row,
                            column <- terminal_column

\* The terminal is a window on a roll of paper: scrolling, wrapping and every
\* control character change no line but the one being written, and none is lost.
WritesOnPaper == Roll!Spec

=============================================================================
