---------------------------- MODULE ConsoleProofs ----------------------------
(***************************************************************************)
(* What is proved of the console: that it writes as on a roll of paper, that *)
(* what is printed is the message and stays inside the buffer, and that a    *)
(* numeral shows the number it was given; for every size of the screen, of   *)
(* the buffer and of a word, and for every set of messages that fit.         *)
(*                                                                         *)
(* Paper: rows below the cursor are blank (BlankBelow), so the row the       *)
(* cursor moves to is as fresh as the one a scroll brings up.  Hence a step   *)
(* that leaves the line appends one blank line to Lines, whether or not it   *)
(* scrolls (LeavesLine), and any other step changes the last line only       *)
(* (StaysOnLine); both are what the typewriter does.                        *)
(*                                                                         *)
(* Messages: while one is formatted, the buffer begins with the texts of the *)
(* directives done (Formatted) and those to do are the others (Remaining);   *)
(* once it is formatted a zero stands behind all of it (InPrint).  Where     *)
(* putchar then stops is the first zero, which is that one or an earlier one *)
(* of the message's own.                                                    *)
(*                                                                         *)
(* Numerals: the digits of a word have its value (TempRead), zeros before    *)
(* them do not change it (ValueZeros), and once the spaces are taken out of a *)
(* numeral there is a sign, a prefix, zeros and those digits (Compact),      *)
(* which AfterSign and AfterPrefix take apart again (PartsShown).            *)
(*                                                                         *)
(* What a recursive function computes is proved with the least element of a  *)
(* set of natural numbers (LeastNumber): RecursionDefines and StepsDefine     *)
(* give the function its equations, and an argument over its values takes    *)
(* the least one that fails.                                                *)
(***************************************************************************)
EXTENDS Console, SequenceTheorems, WellFoundedInduction, TLAPS

TInv == TerminalTypeOK /\ BlankBelow

\* The parts of terminal_putchar, by name.
Drawn(c) ==
    IF c \in Glyphs THEN [screen EXCEPT ![terminal_row][terminal_column] = c] ELSE screen
Wraps(c) == ColumnAfter(c) >= Width
Leaves(c) == c = "LF" \/ Wraps(c)
Scrolls(c) == Leaves(c) /\ terminal_row = Height - 1

LastLine == gone + terminal_row

\* Division rounds down to a multiple that is not negative: tabs move to the right.
LEMMA TabForward ==
    ASSUME NEW a \in Nat, NEW t \in Nat \ {0}
    PROVE  ((a + t) \div t) * t \in Nat
<1> DEFINE q == (a + t) \div t
<1>1. q \in Int
  OBVIOUS
<1>2. q >= 0
  OBVIOUS
<1>3. q * t >= 0
  BY <1>1, <1>2
<1> QED BY <1>1, <1>3

\* The cursor never moves left of the screen.
LEMMA ColumnNat ==
    ASSUME TInv, NEW c
    PROVE  ColumnAfter(c) \in Nat
<1>1. terminal_column \in Nat
  BY TerminalAssumption DEF TInv, TerminalTypeOK, Columns
<1>2. TabStop \in Nat \ {0}
  BY TerminalAssumption
<1>3. ((terminal_column + TabStop) \div TabStop) * TabStop \in Nat
  BY <1>1, <1>2, TabForward
<1> QED BY <1>1, <1>3 DEF ColumnAfter

\* terminal_putchar in terms of its parts: the cursor is never more than one row
\* below the screen, so a scroll leaves it where it was.
LEMMA PutcharParts ==
    ASSUME TInv, NEW c, terminal_putchar(c)
    PROVE  /\ terminal_column' = IF Wraps(c) THEN 0 ELSE ColumnAfter(c)
           /\ terminal_row' = IF Leaves(c) /\ ~Scrolls(c) THEN terminal_row + 1
                              ELSE terminal_row
           /\ screen' = IF Scrolls(c) THEN Scrolled(Drawn(c)) ELSE Drawn(c)
           /\ above' = IF Scrolls(c)
                       THEN [i \in 0..gone |-> IF i < gone THEN above[i] ELSE Drawn(c)[0]]
                       ELSE above
           /\ gone' = IF Scrolls(c) THEN gone + 1 ELSE gone
<1>1. Height \in Nat \ {0} /\ terminal_row \in 0..(Height - 1)
  BY TerminalAssumption DEF TInv, TerminalTypeOK, Rows
<1>2. (IF c = "LF" \/ Wraps(c) THEN terminal_row + 1 ELSE terminal_row) >= Height
        <=> Scrolls(c)
  BY <1>1 DEF Scrolls, Leaves
<1> QED BY <1>1, <1>2 DEF terminal_putchar, Drawn, Wraps, Leaves, Scrolls

\* What is drawn are lines of characters, and other rows stay as they were.
LEMMA DrawnType ==
    ASSUME TInv, NEW c
    PROVE  /\ Drawn(c) \in [Rows -> [Columns -> Glyphs]]
           /\ \A y \in Rows : y # terminal_row => Drawn(c)[y] = screen[y]
           /\ c \notin Glyphs => Drawn(c)[terminal_row] = screen[terminal_row]
           /\ c \in Glyphs => Drawn(c)[terminal_row] =
                                [screen[terminal_row] EXCEPT ![terminal_column] = c]
<1>1. screen \in [Rows -> [Columns -> Glyphs]] /\ terminal_row \in Rows
        /\ terminal_column \in Columns
  BY DEF TInv, TerminalTypeOK
<1>2. CASE c \in Glyphs
  BY <1>1, <1>2 DEF Drawn
<1>3. CASE c \notin Glyphs
  BY <1>1, <1>3 DEF Drawn
<1> QED BY <1>2, <1>3

\* A blank line is a line.
LEMMA BlankType == BlankLine \in [Columns -> Glyphs]
BY TerminalAssumption DEF BlankLine

\* The first state satisfies the invariant.
LEMMA InitTInv == terminal_initialize => TInv
<1> SUFFICES ASSUME terminal_initialize PROVE TInv
  OBVIOUS
<1>1. Height \in Nat \ {0} /\ Width \in Nat \ {0}
  BY TerminalAssumption
<1>2. 0 \in Rows /\ 0 \in Columns
  BY <1>1 DEF Rows, Columns
<1>3. screen \in [Rows -> [Columns -> Glyphs]]
  BY BlankType DEF terminal_initialize
<1>4. above \in [0..(gone - 1) -> [Columns -> Glyphs]]
  <2>1. 0..(gone - 1) = {} /\ gone = 0
    BY DEF terminal_initialize
  <2> QED BY <2>1 DEF terminal_initialize
<1>5. TerminalTypeOK
  BY <1>2, <1>3, <1>4 DEF TerminalTypeOK, terminal_initialize
<1>6. BlankBelow
  BY DEF BlankBelow, terminal_initialize
<1> QED BY <1>5, <1>6 DEF TInv

\* A character keeps the cursor on the screen and the rows below it blank.
LEMMA PutcharTInv ==
    ASSUME TInv, NEW c, terminal_putchar(c)
    PROVE  TInv'
<1> USE TerminalAssumption
<1>1. terminal_row \in Rows /\ terminal_column \in Columns /\ gone \in Nat
        /\ above \in [0..(gone - 1) -> [Columns -> Glyphs]]
        /\ Height \in Nat \ {0} /\ Width \in Nat \ {0}
  BY DEF TInv, TerminalTypeOK
<1>2. Drawn(c) \in [Rows -> [Columns -> Glyphs]]
  BY DrawnType
<1>3. terminal_column' \in Columns
  <2>1. terminal_column' = IF ColumnAfter(c) >= Width THEN 0 ELSE ColumnAfter(c)
    BY PutcharParts DEF Wraps
  <2> QED BY <2>1, <1>1, ColumnNat DEF Columns
<1>4. terminal_row' \in Rows
  <2>1. terminal_row' = IF Leaves(c) /\ ~Scrolls(c) THEN terminal_row + 1 ELSE terminal_row
    BY PutcharParts
  <2> QED BY <2>1, <1>1 DEF Scrolls, Rows
<1>5. CASE Scrolls(c)
  <2>1. screen' = Scrolled(Drawn(c)) /\ gone' = gone + 1 /\ terminal_row' = Height - 1
          /\ above' = [i \in 0..gone |-> IF i < gone THEN above[i] ELSE Drawn(c)[0]]
    BY <1>5, PutcharParts DEF Scrolls
  <2>2. screen' \in [Rows -> [Columns -> Glyphs]]
    BY <2>1, <1>2, BlankType DEF Scrolled
  <2>3. 0 \in Rows
    BY <1>1 DEF Rows
  <2>4. gone' \in Nat /\ 0..(gone' - 1) = 0..gone
    BY <2>1, <1>1
  <2>5. \A i \in 0..gone : i < gone => i \in 0..(gone - 1)
    BY <1>1
  <2>6. above' \in [0..(gone' - 1) -> [Columns -> Glyphs]]
    BY <2>1, <2>3, <2>4, <2>5, <1>1, <1>2
  <2>7. BlankBelow'
    BY <2>1, <1>1 DEF BlankBelow, Rows
  <2> QED BY <1>3, <1>4, <2>2, <2>4, <2>6, <2>7
        DEF TInv, TerminalTypeOK, Rows, Columns
<1>6. CASE ~Scrolls(c)
  <2>1. screen' = Drawn(c) /\ gone' = gone /\ above' = above
    BY <1>6, PutcharParts
  <2>2. terminal_row' >= terminal_row
    <3>1. terminal_row' = IF Leaves(c) THEN terminal_row + 1 ELSE terminal_row
      BY <1>6, PutcharParts
    <3> QED BY <3>1, <1>1 DEF Rows
  <2>3. BlankBelow'
    <3> SUFFICES ASSUME NEW y \in Rows, y > terminal_row'
                 PROVE  screen'[y] = BlankLine
      BY DEF BlankBelow, Rows, BlankLine, Columns
    <3>1. y > terminal_row /\ y # terminal_row
      BY <2>2, <1>1, <1>4 DEF Rows
    <3>2. Drawn(c)[y] = screen[y]
      BY <3>1, DrawnType
    <3> QED BY <3>1, <3>2, <2>1 DEF TInv, BlankBelow
  <2> QED BY <1>1, <1>2, <1>3, <1>4, <2>1, <2>3
        DEF TInv, TerminalTypeOK, Rows, Columns
<1> QED BY <1>5, <1>6

----------------------------------------------------------------------------
(* The refinement.                                                         *)

\* The paper begins as one blank line.
LEMMA InitRoll == terminal_initialize => Roll!Init
<1> SUFFICES ASSUME terminal_initialize PROVE Roll!Init
  OBVIOUS
<1>1. 0 \in Rows
  BY TerminalAssumption DEF Rows
<1>2. 0..(gone + terminal_row) = {0} /\ gone = 0 /\ screen[0] = BlankLine
  BY <1>1 DEF terminal_initialize
<1>3. Lines = [i \in {0} |-> BlankLine]
  BY <1>2 DEF Lines
<1> QED BY <1>2, <1>3 DEF Roll!Init, Roll!BlankLine, Roll!Columns, BlankLine, Columns,
                          terminal_initialize

\* While the cursor stays on its line, no line but that one changes.
LEMMA StaysOnLine ==
    ASSUME TInv, NEW c, terminal_putchar(c), ~Leaves(c)
    PROVE  /\ gone' + terminal_row' = LastLine
           /\ Lines' = [Lines EXCEPT ![LastLine] = Drawn(c)[terminal_row]]
<1>1. terminal_row \in Rows /\ gone \in Nat /\ Height \in Nat \ {0}
  BY TerminalAssumption DEF TInv, TerminalTypeOK
<1>2. /\ terminal_row' = terminal_row /\ gone' = gone /\ above' = above
      /\ screen' = Drawn(c)
  BY PutcharParts DEF Scrolls
<1>3. gone' + terminal_row' = LastLine /\ LastLine \in Nat
  BY <1>1, <1>2 DEF LastLine, Rows
<1>4. Lines' = [i \in 0..LastLine |-> IF i < gone THEN above[i] ELSE Drawn(c)[i - gone]]
  BY <1>2 DEF Lines, LastLine
<1>5. ASSUME NEW i \in 0..LastLine
      PROVE  (IF i < gone THEN above[i] ELSE Drawn(c)[i - gone]) =
             (IF i = LastLine THEN Drawn(c)[terminal_row] ELSE Lines[i])
  <2>1. CASE i = LastLine
    <3>1. ~(i < gone) /\ i - gone = terminal_row
      BY <2>1, <1>1 DEF LastLine, Rows
    <3> QED BY <2>1, <3>1
  <2>2. CASE i # LastLine /\ i < gone
    BY <2>2 DEF Lines, LastLine
  <2>3. CASE i # LastLine /\ ~(i < gone)
    <3>1. i - gone \in Rows /\ i - gone # terminal_row
      BY <2>3, <1>1 DEF LastLine, Rows
    <3> QED BY <2>3, <3>1, DrawnType DEF Lines, LastLine
  <2> QED BY <2>1, <2>2, <2>3
<1>6. [Lines EXCEPT ![LastLine] = Drawn(c)[terminal_row]] =
      [i \in 0..LastLine |-> IF i = LastLine THEN Drawn(c)[terminal_row] ELSE Lines[i]]
  BY DEF Lines, LastLine
<1> QED BY <1>3, <1>4, <1>5, <1>6

\* When the cursor leaves its line, the lines written so far stay as they are and
\* one blank line follows them, whether the screen scrolls or not.
LEMMA LeavesLine ==
    ASSUME TInv, NEW c, terminal_putchar(c), Leaves(c)
    PROVE  /\ gone' + terminal_row' = LastLine + 1
           /\ terminal_column' = 0
           /\ Lines' = [i \in 0..(LastLine + 1) |->
                           CASE i < LastLine -> Lines[i]
                             [] i = LastLine -> Drawn(c)[terminal_row]
                             [] OTHER -> BlankLine]
<1> DEFINE New == [i \in 0..(LastLine + 1) |->
                      CASE i < LastLine -> Lines[i]
                        [] i = LastLine -> Drawn(c)[terminal_row]
                        [] OTHER -> BlankLine]
<1>1. terminal_row \in Rows /\ gone \in Nat /\ Height \in Nat \ {0} /\ Width \in Nat \ {0}
  BY TerminalAssumption DEF TInv, TerminalTypeOK
<1>2. gone' + terminal_row' = LastLine + 1 /\ LastLine \in Nat
  BY <1>1, PutcharParts DEF LastLine, Scrolls, Rows
<1>0. \A y \in Rows : y # terminal_row => Drawn(c)[y] = screen[y]
  BY DrawnType
<1>3. terminal_column' = 0
  <2>1. CASE Wraps(c)
    BY <2>1, PutcharParts
  <2>2. CASE c = "LF"
    <3>1. ColumnAfter(c) = 0
      BY <2>2, TerminalAssumption DEF ColumnAfter
    <3> QED BY <3>1, PutcharParts
  <2> QED BY <2>1, <2>2 DEF Leaves
<1>4. CASE Scrolls(c)
  <2>1. /\ screen' = Scrolled(Drawn(c)) /\ gone' = gone + 1
        /\ terminal_row = Height - 1
        /\ above' = [i \in 0..gone |-> IF i < gone THEN above[i] ELSE Drawn(c)[0]]
    BY <1>4, PutcharParts DEF Scrolls
  <2>2. Lines' = [i \in 0..(LastLine + 1) |->
                     IF i < gone + 1 THEN above'[i] ELSE Scrolled(Drawn(c))[i - (gone + 1)]]
    BY <2>1, <1>2 DEF Lines
  <2>3. ASSUME NEW i \in 0..(LastLine + 1)
        PROVE  (IF i < gone + 1 THEN above'[i]
                ELSE Scrolled(Drawn(c))[i - (gone + 1)]) = New[i]
    <3>1. CASE i < gone
      <4>1. i < LastLine /\ above'[i] = above[i] /\ Lines[i] = above[i]
        BY <3>1, <2>1, <1>1 DEF Lines, LastLine, Rows
      <4> QED BY <3>1, <4>1, <1>1
    <3>2. CASE i = gone /\ i < LastLine
      <4>1. above'[i] = Drawn(c)[0] /\ 0 \in Rows /\ 0 # terminal_row
        BY <3>2, <2>1, <1>1 DEF LastLine, Rows
      <4>2. Lines[i] = screen[0]
        BY <3>2, <1>1 DEF Lines, LastLine, Rows
      <4> QED BY <3>2, <4>1, <4>2, <1>0, <1>1
    <3>3. CASE i = gone /\ i = LastLine
      <4>1. above'[i] = Drawn(c)[0] /\ terminal_row = 0
        BY <3>3, <2>1, <1>1 DEF LastLine, Rows
      <4> QED BY <3>3, <4>1, <1>1, <1>2
    <3>4. CASE i > gone /\ i < LastLine
      <4>1. i - (gone + 1) \in Rows /\ i - (gone + 1) + 1 = i - gone
              /\ i - gone \in Rows /\ i - gone # terminal_row
        BY <3>4, <2>1, <1>1 DEF LastLine, Rows
      <4>2. Scrolled(Drawn(c))[i - (gone + 1)] = Drawn(c)[i - gone]
        BY <4>1 DEF Scrolled
      <4>3. Lines[i] = screen[i - gone]
        BY <3>4, <1>1 DEF Lines, LastLine, Rows
      <4> QED BY <3>4, <4>1, <4>2, <4>3, <1>0, <1>1
    <3>5. CASE i > gone /\ i = LastLine
      <4>1. i - (gone + 1) \in Rows /\ i - (gone + 1) + 1 = terminal_row
        BY <3>5, <2>1, <1>1 DEF LastLine, Rows
      <4>2. Scrolled(Drawn(c))[i - (gone + 1)] = Drawn(c)[terminal_row]
        BY <4>1, <1>1 DEF Scrolled
      <4> QED BY <3>5, <4>2, <1>1, <1>2
    <3>6. CASE i = LastLine + 1
      <4>1. i - (gone + 1) = Height - 1 /\ Height - 1 \in Rows /\ ~(i < gone + 1)
              /\ Height - 1 + 1 \notin Rows
        BY <3>6, <2>1, <1>1 DEF LastLine, Rows
      <4>2. Scrolled(Drawn(c))[i - (gone + 1)] = BlankLine
        BY <4>1 DEF Scrolled
      <4> QED BY <3>6, <4>1, <4>2, <1>2
    <3> QED BY <3>1, <3>2, <3>3, <3>4, <3>5, <3>6, <1>1, <1>2 DEF LastLine, Rows
  <2> QED BY <2>2, <2>3, <1>2, <1>3
<1>5. CASE ~Scrolls(c)
  <2>1. /\ screen' = Drawn(c) /\ gone' = gone /\ above' = above
        /\ terminal_row' = terminal_row + 1 /\ terminal_row + 1 \in Rows
    BY <1>5, <1>1, PutcharParts DEF Scrolls, Rows
  <2>2. Lines' = [i \in 0..(LastLine + 1) |->
                     IF i < gone THEN above[i] ELSE Drawn(c)[i - gone]]
    BY <2>1, <1>2 DEF Lines
  <2>3. ASSUME NEW i \in 0..(LastLine + 1)
        PROVE  (IF i < gone THEN above[i] ELSE Drawn(c)[i - gone]) = New[i]
    <3>1. CASE i < gone
      <4>1. i < LastLine /\ Lines[i] = above[i]
        BY <3>1, <1>1 DEF Lines, LastLine, Rows
      <4> QED BY <3>1, <4>1
    <3>2. CASE i >= gone /\ i < LastLine
      <4>1. Lines[i] = screen[i - gone] /\ i - gone \in Rows /\ i - gone # terminal_row
        BY <3>2, <1>1 DEF Lines, LastLine, Rows
      <4> QED BY <3>2, <4>1, <1>0, <1>1
    <3>3. CASE i = LastLine
      BY <3>3, <1>1 DEF LastLine, Rows
    <3>4. CASE i = LastLine + 1
      <4>1. i - gone = terminal_row + 1 /\ ~(i < gone) /\ terminal_row + 1 > terminal_row
        BY <3>4, <1>1 DEF LastLine, Rows
      <4>2. Drawn(c)[i - gone] = BlankLine
        BY <4>1, <2>1, <1>0, <1>1 DEF TInv, BlankBelow, Rows
      <4> QED BY <3>4, <4>1, <4>2, <1>2
    <3> QED BY <3>1, <3>2, <3>3, <3>4, <1>1, <1>2 DEF LastLine, Rows
  <2> QED BY <2>2, <2>3, <1>2, <1>3
<1> QED BY <1>4, <1>5

\* Every character is a keystroke of the typewriter.
LEMMA PutcharRoll ==
    ASSUME TInv, NEW c, terminal_putchar(c)
    PROVE  Roll!Next
<1>1. terminal_row \in Rows /\ terminal_column \in Columns /\ gone \in Nat
        /\ Height \in Nat \ {0} /\ Width \in Nat \ {0}
  BY TerminalAssumption DEF TInv, TerminalTypeOK
<1>2. LastLine \in 0..LastLine /\ Lines[LastLine] = screen[terminal_row]
  BY <1>1 DEF Lines, LastLine, Rows
<1>3. Roll!BlankLine = BlankLine /\ Roll!Columns = Columns
  BY DEF Roll!BlankLine, Roll!Columns, BlankLine, Columns
<1>4. CASE c \in Glyphs
  <2>1. Drawn(c)[terminal_row] = Roll!Struck(c)
    BY <1>2, <1>4, DrawnType DEF Roll!Struck, LastLine
  <2>2. ColumnAfter(c) = terminal_column + 1 /\ c # "LF"
    BY <1>4, TerminalAssumption DEF ColumnAfter
  <2>3. Leaves(c) <=> terminal_column = Width - 1
    BY <2>2, <1>1 DEF Leaves, Wraps, Columns
  <2>4. CASE Leaves(c)
    <3>1. Roll!Advance(Roll!Struck(c))
      BY <2>1, <2>4, <1>3, LeavesLine DEF Roll!Advance, LastLine
    <3> QED BY <3>1, <2>3, <2>4, <1>4 DEF Roll!Next, Roll!Strike
  <2>5. CASE ~Leaves(c)
    <3>1. terminal_column' = terminal_column + 1
      BY <2>2, <2>5, PutcharParts DEF Leaves
    <3> QED BY <3>1, <2>1, <2>3, <2>5, <1>4, StaysOnLine
          DEF Roll!Next, Roll!Strike, LastLine
  <2> QED BY <2>4, <2>5
<1>5. CASE c \notin Glyphs
  <2>1. Drawn(c)[terminal_row] = Lines[LastLine]
    BY <1>2, <1>5, DrawnType
  <2>2. CASE Leaves(c)
    <3>1. Roll!Feed
      BY <2>1, <2>2, <1>3, LeavesLine DEF Roll!Feed, Roll!Advance, LastLine
    <3> QED BY <3>1 DEF Roll!Next
  <2>3. CASE ~Leaves(c)
    <3>1. [Lines EXCEPT ![LastLine] = Lines[LastLine]] = Lines
      BY DEF Lines
    <3>2. Lines' = Lines /\ gone' + terminal_row' = LastLine
      BY <2>1, <2>3, <3>1, StaysOnLine
    <3>3. terminal_column' \in Columns
      BY PutcharTInv DEF TInv, TerminalTypeOK, Columns
    <3> QED BY <3>2, <3>3, <1>3 DEF Roll!Next, Roll!Move, LastLine
  <2> QED BY <2>2, <2>3
<1> QED BY <1>4, <1>5

----------------------------------------------------------------------------
(* Theorems.                                                               *)

\* Of all the steps of printf only Putchar touches the terminal.
LEMMA ConsoleSteps ==
    [Next]_vars => UNCHANGED terminal \/ terminal_putchar(buf[j + 1])
BY DEF Next, vars, CallStep, Printf, PrintStep, Format, Fault, EndFormat, Putchar, Return,
       Quiet

\* Stuttering keeps the invariant, and the paper as it is.
LEMMA IdleTerminal ==
    UNCHANGED terminal =>
        (TInv => TInv') /\ UNCHANGED <<Lines, gone + terminal_row, terminal_column>>
BY DEF terminal, TInv, TerminalTypeOK, BlankBelow, Lines, Rows, Columns, BlankLine

\* The cursor never leaves the screen, whatever is printed: characters, tabs and
\* backspaces at either edge included; and the rows below it are blank.
THEOREM CursorOnScreen == Spec => [](TerminalTypeOK /\ BlankBelow)
<1>1. Init => TInv
  BY InitTInv DEF Init
<1>2. TInv /\ [Next]_vars => TInv'
  BY ConsoleSteps, IdleTerminal, PutcharTInv
<1> QED BY <1>1, <1>2, PTL DEF Spec, TInv

\* printf writes as on an endless roll of paper: no character changes a line that is
\* finished, and scrolling loses none.
THEOREM PrintsOnPaper == Spec => WritesOnPaper
<1>1. Init => Roll!Init
  BY InitRoll DEF Init
<1>2. TInv /\ [Next]_vars => [Roll!Next]_<<Lines, gone + terminal_row, terminal_column>>
  BY ConsoleSteps, IdleTerminal, PutcharRoll
<1>3. Spec => []TInv
  BY CursorOnScreen, PTL DEF TInv
<1> QED BY <1>1, <1>2, <1>3, PTL DEF Spec, WritesOnPaper, Roll!Spec

----------------------------------------------------------------------------
(* What one directive prints is a text.                                     *)

\* A set of natural numbers with an element has a least one.
LEMMA LeastNumber ==
    ASSUME NEW T, T \subseteq Nat, T # {}
    PROVE  \E n \in T : \A k \in T : n <= k
<1>1. PICK n \in T : \A k \in T : ~(<<k, n>> \in OpToRel(<, Nat))
  BY NatLessThanWellFounded, WFMin
<1>2. ASSUME NEW k \in T PROVE n <= k
  <2>1. k \in Nat /\ n \in Nat
    OBVIOUS
  <2>2. ~(<<k, n>> \in OpToRel(<, Nat))
    BY <1>1
  <2>3. ~(k < n)
    BY <2>1, <2>2 DEF OpToRel
  <2> QED BY <2>1, <2>3
<1> QED BY <1>2

\* f is defined on S by recursion: base on B, elsewhere G of its value at pred.
Recursive(f, S, B, base, G, pred) ==
    \A s \in S : f[s] = IF s \in B THEN base[s] ELSE G[s][f[pred[s]]]

\* pred lowers the rank of what is not in B.
Descends(pred, S, B, rank) == \A s \in S \ B : rank[pred[s]] < rank[s]

\* A value for every element of S is defined by recursion on the element that
\* pred leads to, as long as that lowers a bounded rank.
LEMMA RecursionDefines ==
    ASSUME NEW S, NEW V, NEW N \in Nat,
           NEW rank \in [S -> 0..N], NEW pred \in [S -> S],
           NEW B \in SUBSET S, NEW base \in [S -> V], NEW G \in [S -> [V -> V]],
           Descends(pred, S, B, rank)
    PROVE  \E f \in [S -> V] : Recursive(f, S, B, base, G, pred)
<1> USE DEF Descends
<1> DEFINE Solves(f, n) ==
              \A s \in S : rank[s] <= n =>
                  f[s] = IF s \in B THEN base[s] ELSE G[s][f[pred[s]]]
           Bad == {n \in Nat : ~\E f \in [S -> V] : Solves(f, n)}
<1>1. \E f \in [S -> V] : Solves(f, 0)
  <2>1. \A s \in S : rank[s] <= 0 => s \in B
    OBVIOUS
  <2> QED BY <2>1
<1>2. ASSUME NEW n \in Nat, NEW f \in [S -> V], Solves(f, n)
      PROVE  \E h \in [S -> V] : Solves(h, n + 1)
  <2> DEFINE h == [s \in S |-> IF rank[s] <= n THEN f[s]
                               ELSE IF s \in B THEN base[s] ELSE G[s][f[pred[s]]]]
  <2>1. h \in [S -> V]
    OBVIOUS
  <2>2. ASSUME NEW s \in S, rank[s] <= n + 1
        PROVE  h[s] = IF s \in B THEN base[s] ELSE G[s][h[pred[s]]]
    <3>1. CASE s \in B
      BY <3>1, <1>2
    <3>2. CASE s \notin B
      <4>1. rank[pred[s]] < rank[s] /\ rank[s] \in Nat /\ rank[pred[s]] \in Nat /\ pred[s] \in S
        BY <3>2
      <4>2. rank[pred[s]] <= n
        BY <4>1, <2>2
      <4>3. h[pred[s]] = f[pred[s]]
        BY <4>1, <4>2
      <4>4. h[s] = G[s][f[pred[s]]]
        BY <3>2, <1>2
      <4> QED BY <4>3, <4>4, <3>2
    <3> QED BY <3>1, <3>2
  <2>3. Solves(h, n + 1)
    BY <2>2
  <2> QED BY <2>1, <2>3
<1> HIDE DEF Solves
<1>3. Bad = {}
  <2> SUFFICES ASSUME Bad # {} PROVE FALSE
    OBVIOUS
  <2>1. PICK n \in Bad : \A k \in Bad : n <= k
    <3>1. Bad \subseteq Nat
      OBVIOUS
    <3> HIDE DEF Bad
    <3> QED BY <3>1, LeastNumber
  <2>2. n \in Nat /\ n # 0
    BY <1>1
  <2>3. n - 1 \in Nat /\ n - 1 \notin Bad /\ (n - 1) + 1 = n
    BY <2>1, <2>2
  <2>4. PICK f \in [S -> V] : Solves(f, n - 1)
    BY <2>3
  <2>5. \E h \in [S -> V] : Solves(h, n)
    BY <2>3, <2>4, <1>2
  <2> QED BY <2>5
<1>4. PICK f \in [S -> V] : Solves(f, N)
  BY <1>3
<1>5. \A s \in S : rank[s] <= N
  OBVIOUS
<1> QED BY <1>4, <1>5 DEF Solves, Recursive


----------------------------------------------------------------------------
(* What vsprintf writes is a text.                                         *)

Digits == {UPPERCASE_DIGITS[i] : i \in 1..16} \cup {LOWERCASE_DIGITS[i] : i \in 1..16}
Signs == Digits \cup {"-", "+", "x", "X", "%", Space}
Chars == Characters \cup Signs

\* n characters of padding.
LEMMA PadType ==
    ASSUME NEW V, NEW c \in V, NEW n \in Int
    PROVE  /\ Pad(c, n) \in Seq(V) /\ Len(Pad(c, n)) = Larger(n, 0)
           /\ \A i \in 1..Len(Pad(c, n)) : Pad(c, n)[i] = c
<1>1. Larger(n, 0) \in Nat
  BY DEF Larger
<1> QED BY <1>1 DEF Pad

LEMMA DigitType ==
    ASSUME NEW type, NEW i \in 1..16
    PROVE  DigitsOf(type)[i] \in Digits
BY DEF DigitsOf, Digits

\* The quotient by a base is a smaller number, and the remainder a digit.
LEMMA Quotient ==
    ASSUME NEW n \in Nat, NEW base \in 2..16
    PROVE  /\ n \div base \in Nat /\ (n \div base) <= n
           /\ n >= base => (n \div base) < n
           /\ n % base \in 0..(base - 1)
           /\ n = base * (n \div base) + (n % base)
<1>1. base \in Nat \ {0} /\ base > 1
  OBVIOUS
<1>2. n \div base \in Nat /\ n % base \in 0..(base - 1)
        /\ n = base * (n \div base) + (n % base)
  BY <1>1
<1>3. (n \div base) <= n
  BY <1>1
<1>4. n >= base => (n \div base) < n
  BY <1>1
<1> QED BY <1>2, <1>3, <1>4

\* The digits of all words.
TempOf(temp, base, type) ==
    temp = [n \in Words |->
              IF n < base THEN <<DigitsOf(type)[n + 1]>>
              ELSE Append(temp[n \div base], DigitsOf(type)[(n % base) + 1])]

LEMMA TempExists ==
    ASSUME NEW base \in 2..16, NEW type
    PROVE  \E temp \in [Words -> Seq(Digits)] : TempOf(temp, base, type)
<1> DEFINE V == Seq(Digits)
           N == 2 * HalfWord - 1
           rank == [n \in Words |-> n]
           pred == [n \in Words |-> n \div base]
           B == {n \in Words : n < base}
           first == [n \in Words |-> IF n < base THEN <<DigitsOf(type)[n + 1]>> ELSE <<>>]
           G == [n \in Words |-> [v \in V |-> Append(v, DigitsOf(type)[(n % base) + 1])]]
<1>1. N \in Nat /\ Words = 0..N
  BY WordAssumption DEF Words
<1>2. \A n \in Words : n \in Nat /\ n <= N
  BY <1>1
<1>3. \A n \in Words : n \div base \in Words
  <2> TAKE n \in Words
  <2>1. n \in Nat /\ n <= N
    BY <1>2
  <2>2. n \div base \in Nat /\ (n \div base) <= n
    BY <2>1, Quotient
  <2> HIDE DEF N
  <2> QED BY <1>1, <2>1, <2>2
<1>4. rank \in [Words -> 0..N] /\ pred \in [Words -> Words] /\ B \in SUBSET Words
  BY <1>1, <1>3
<1>5. first \in [Words -> V]
  <2>1. ASSUME NEW n \in Words, n < base PROVE <<DigitsOf(type)[n + 1]>> \in V
    <3>1. n + 1 \in 1..16
      BY <1>2, <2>1
    <3> QED BY <3>1, DigitType
  <2>2. <<>> \in V
    OBVIOUS
  <2> HIDE DEF V
  <2> QED BY <2>1, <2>2
<1>6. G \in [Words -> [V -> V]]
  <2>1. ASSUME NEW n \in Words, NEW v \in V
        PROVE  Append(v, DigitsOf(type)[(n % base) + 1]) \in V
    <3>1. n % base \in 0..(base - 1)
      BY <1>2, Quotient
    <3>2. (n % base) + 1 \in 1..16
      <4> DEFINE r == n % base
      <4>1. r \in 0..(base - 1) /\ base \in 2..16
        BY <3>1
      <4> HIDE DEF r
      <4>2. r + 1 \in 1..16
        BY <4>1
      <4> QED BY <4>2 DEF r
    <3> QED BY <3>2, DigitType
  <2> HIDE DEF V
  <2> QED BY <2>1
<1>7. Descends(pred, Words, B, rank)
  <2>1. ASSUME NEW n \in Words \ B PROVE rank[pred[n]] < rank[n]
    <3>1. n \in Nat /\ n >= base
      BY <1>2
    <3>2. (n \div base) < n
      BY <3>1, Quotient
    <3> QED BY <1>3, <3>2
  <2> QED BY <2>1 DEF Descends
<1>8. PICK temp \in [Words -> V] : Recursive(temp, Words, B, first, G, pred)
  <2> HIDE DEF V, N, rank, pred, B, first, G
  <2> QED BY <1>1, <1>4, <1>5, <1>6, <1>7, RecursionDefines
<1>9. \A n \in Words : temp[n] =
          IF n < base THEN <<DigitsOf(type)[n + 1]>>
          ELSE Append(temp[n \div base], DigitsOf(type)[(n % base) + 1])
  <2> TAKE n \in Words
  <2>1. CASE n < base
    BY <1>8, <2>1 DEF Recursive
  <2>2. CASE ~(n < base)
    <3>1. temp[n \div base] \in V
      BY <1>3
    <3>2. temp[n] = G[n][temp[n \div base]]
      BY <1>8, <2>2 DEF Recursive
    <3> HIDE DEF V
    <3> QED BY <2>2, <3>1, <3>2
  <2> QED BY <2>1, <2>2
<1>10. temp = [n \in Words |->
              IF n < base THEN <<DigitsOf(type)[n + 1]>>
              ELSE Append(temp[n \div base], DigitsOf(type)[(n % base) + 1])]
  <2> HIDE DEF V
  <2> QED BY <1>9
<1> QED BY <1>10 DEF TempOf

\* The digits of a word, whatever their number, are digits.
LEMMA TempTyped ==
    ASSUME NEW base \in 2..16, NEW type, NEW temp, TempOf(temp, base, type)
    PROVE  \A n \in Words : temp[n] \in Seq(Digits)
<1> DEFINE Bad == {n \in Words : temp[n] \notin Seq(Digits)}
<1> SUFFICES ASSUME Bad # {} PROVE FALSE
  OBVIOUS
<1>1. Words \subseteq Nat
  BY WordAssumption DEF Words
<1>2. PICK n \in Bad : \A k \in Bad : n <= k
  <2>1. Bad \subseteq Nat
    BY <1>1
  <2> HIDE DEF Bad
  <2> QED BY <2>1, LeastNumber
<1>3. n \in Words /\ n \in Nat /\ temp[n] \notin Seq(Digits)
  BY <1>1, <1>2
<1>4. temp[n] = IF n < base THEN <<DigitsOf(type)[n + 1]>>
                ELSE Append(temp[n \div base], DigitsOf(type)[(n % base) + 1])
  BY <1>3 DEF TempOf
<1>5. CASE n < base
  <2>1. n + 1 \in 1..16
    BY <1>3, <1>5
  <2>2. DigitsOf(type)[n + 1] \in Digits
    BY <2>1, DigitType
  <2> QED BY <1>3, <1>4, <1>5, <2>2
<1>6. CASE ~(n < base)
  <2>1. n \div base \in Nat /\ (n \div base) < n /\ n % base \in 0..(base - 1)
    BY <1>3, <1>6, Quotient
  <2>2. n \div base \in Words
    BY <1>3, <2>1, WordAssumption DEF Words
  <2>3. temp[n \div base] \in Seq(Digits)
    BY <1>2, <1>3, <2>1, <2>2
  <2>4. (n % base) + 1 \in 1..16
    <3> DEFINE r == n % base
    <3>1. r \in 0..(base - 1)
      BY <2>1
    <3> HIDE DEF r
    <3>2. r + 1 \in 1..16
      BY <3>1
    <3> QED BY <3>2 DEF r
  <2>5. DigitsOf(type)[(n % base) + 1] \in Digits
    BY <2>4, DigitType
  <2> QED BY <1>3, <1>4, <1>6, <2>3, <2>5, AppendProperties
<1> QED BY <1>3, <1>5, <1>6

LEMMA TempType ==
    ASSUME NEW base \in 2..16, NEW type, NEW num \in Words
    PROVE  Temp(num, base, type) \in Seq(Digits)
<1> DEFINE it == CHOOSE temp : TempOf(temp, base, type)
<1>1. \E temp : TempOf(temp, base, type)
  BY TempExists
<1>2. TempOf(it, base, type)
  BY <1>1
<1>3. Temp(num, base, type) = it[num]
  BY DEF Temp, TempOf
<1> HIDE DEF it
<1> QED BY <1>2, <1>3, TempTyped

\* The negative of a negative word is a word.
LEMMA MagnitudeType ==
    ASSUME NEW num \in Words, NEW type
    PROVE  Magnitude(num, type) \in Words
BY WordAssumption DEF Magnitude, Words, Negative

LEMMA SignType ==
    ASSUME NEW num, NEW base, NEW type
    PROVE  Sign(num, type) \in Seq(Chars) /\ Special(base, type) \in Seq(Chars)
<1>1. {"-", "+", Space, "0", "x", "X"} \subseteq Chars
  <2>1. "0" \in Digits
    <3>1. UPPERCASE_DIGITS[1] = "0" /\ 1 \in 1..16
      BY DEF UPPERCASE_DIGITS
    <3> QED BY <3>1 DEF Digits
  <2> QED BY <2>1 DEF Chars, Signs
<1>2. Sign(num, type) \in Seq(Chars)
  BY <1>1 DEF Sign
<1>3. Special(base, type) \in Seq(Chars)
  <2>1. CASE "special" \in type /\ base = 8
    BY <1>1, <2>1 DEF Special
  <2>2. CASE "special" \in type /\ base = 16
    BY <1>1, <2>2 DEF Special
  <2>3. CASE ~("special" \in type /\ base = 8) /\ ~("special" \in type /\ base = 16)
    BY <2>3 DEF Special
  <2> QED BY <2>1, <2>2, <2>3
<1> QED BY <1>2, <1>3

\* A numeral is a text.
LEMMA NumberType ==
    ASSUME NEW num \in Words, NEW base \in 2..16, NEW size \in Int, NEW precision \in Int,
           NEW flags
    PROVE  Number(num, base, size, precision, flags) \in Seq(Chars)
<1> DEFINE digits == Temp(Magnitude(num, flags), base, flags)
           room == Room(num, base, size, precision, flags)
           left == "left" \in flags
           zeros == "zeropad" \in flags /\ ~left
           a == Pad(Space, IF left \/ zeros THEN 0 ELSE room)
           b == Sign(num, flags)
           c == Special(base, flags)
           d == Pad("0", IF zeros THEN room ELSE 0)
           e == Pad(IF zeros THEN "0" ELSE Space, precision - Len(digits))
           f == Pad(Space, IF left THEN room ELSE 0)
<1>1. digits \in Seq(Digits) /\ Digits \subseteq Chars
  BY MagnitudeType, TempType DEF Chars, Signs
<1>2. digits \in Seq(Chars) /\ Len(digits) \in Nat
  <2> HIDE DEF digits
  <2> QED BY <1>1
<1>3. b \in Seq(Chars) /\ c \in Seq(Chars)
  BY SignType
<1>4. room \in Int
  <2>1. Len(b) \in Nat /\ Len(c) \in Nat
    BY <1>3
  <2>2. Larger(precision, Len(digits)) \in Int
    BY <1>2 DEF Larger
  <2>3. room = size - Len(b) - Len(c) - Larger(precision, Len(digits))
    BY DEF Room
  <2> HIDE DEF room, digits, b, c
  <2> QED BY <2>1, <2>2, <2>3
<1>5. Space \in Chars /\ "0" \in Chars
  <2>1. UPPERCASE_DIGITS[1] = "0" /\ 1 \in 1..16
    BY DEF UPPERCASE_DIGITS
  <2> QED BY <2>1 DEF Chars, Signs, Digits
<1>6. Number(num, base, size, precision, flags) = a \o b \o c \o d \o e \o digits \o f
  BY DEF Number
<1> HIDE DEF digits, room
<1>7. a \in Seq(Chars) /\ d \in Seq(Chars) /\ e \in Seq(Chars) /\ f \in Seq(Chars)
  <2>1. (IF left \/ zeros THEN 0 ELSE room) \in Int
    BY <1>4
  <2>2. (IF zeros THEN room ELSE 0) \in Int
    BY <1>4
  <2>3. precision - Len(digits) \in Int /\ (IF zeros THEN "0" ELSE Space) \in Chars
    BY <1>2, <1>5
  <2>4. (IF left THEN room ELSE 0) \in Int
    BY <1>4
  <2> HIDE DEF left, zeros
  <2> QED BY <1>5, <2>1, <2>2, <2>3, <2>4, PadType
<1> HIDE DEF a, b, c, d, e, f
<1> QED BY <1>2, <1>3, <1>6, <1>7

\* The conversions to numerals, and their bases.
LEMMA Bases ==
    /\ DOMAIN Base = {"o", "p", "x", "X", "d", "i", "u", "b"}
    /\ \A conv \in DOMAIN Base : Base[conv] \in 2..16
BY DEF Base

\* What a directive prints is a text.
LEMMA TextType ==
    ASSUME NEW d, WellTyped(d), ~Faults(d)
    PROVE  Text(d) \in Seq(Chars)
<1>0. Characters \subseteq Chars /\ {"%", Space} \subseteq Chars /\ d.width \in Int
        /\ d.precision \in Int
  BY DEF Chars, Signs, WellTyped
<1>1. CASE d.conv = "text"
  BY <1>0, <1>1, Bases DEF WellTyped, Text
<1>2. CASE d.conv = "c"
  <2>1. d.arg \in Chars
    BY <1>0, <1>2, Bases DEF WellTyped
  <2>2. Pad(Space, d.width - 1) \in Seq(Chars)
    <3>1. d.width - 1 \in Int
      BY <1>0
    <3> QED BY <1>0, <3>1, PadType
  <2>3. <<d.arg>> \in Seq(Chars)
    BY <2>1
  <2>4. Character(d) \in Seq(Chars)
    BY <2>2, <2>3 DEF Character
  <2> QED BY <1>2, <2>4, Bases DEF Text
<1>3. CASE d.conv = "s"
  <2> DEFINE len == IF d.precision \in 0..Len(d.arg) THEN d.precision ELSE Len(d.arg)
             text == SubSeq(d.arg, 1, len)
  <2>1. d.arg \in Seq(Characters)
    BY <1>3, Bases DEF WellTyped, Faults
  <2>2. len \in 0..Len(d.arg)
    BY <2>1
  <2>3. \A i \in 1..len : d.arg[i] \in Chars
    BY <1>0, <2>1, <2>2
  <2> HIDE DEF len
  <2>4. text \in Seq(Chars)
    BY <2>2, <2>3, SubSeqProperties
  <2>5. Pad(Space, d.width - len) \in Seq(Chars)
    <3>1. d.width - len \in Int
      BY <1>0, <2>2
    <3> QED BY <1>0, <3>1, PadType
  <2> HIDE DEF text
  <2>6. String(d) = IF "left" \in d.flags THEN text \o Pad(Space, d.width - len)
                    ELSE Pad(Space, d.width - len) \o text
    BY DEF String, text, len
  <2>7. String(d) \in Seq(Chars)
    BY <2>4, <2>5, <2>6
  <2> QED BY <1>3, <2>7, Bases DEF Text
<1>4. CASE d.conv \in DOMAIN Base
  <2>1. d.conv \notin {"text", "c", "s"}
    BY <1>4, Bases
  <2>2. d.arg \in Words
    BY <1>4, <2>1 DEF WellTyped
  <2>3. Base[d.conv] \in 2..16
    BY <1>4, Bases
  <2>4. WidthOf(d) \in Int
    BY <1>0 DEF WidthOf
  <2>5. Numeral(d) \in Seq(Chars)
    BY <1>0, <2>2, <2>3, <2>4, NumberType DEF Numeral
  <2> QED BY <1>4, <2>1, <2>5, Bases DEF Text
<1>5. CASE d.conv \notin {"text", "c", "s"} \cup DOMAIN Base
  <2>1. d.conv \in Chars
    BY <1>0, <1>5 DEF WellTyped
  <2>2. Text(d) = IF d.conv = "%" THEN <<"%">> ELSE <<"%", d.conv>>
    BY <1>5 DEF Text
  <2> QED BY <1>0, <2>1, <2>2
<1> QED BY <1>1, <1>2, <1>3, <1>4, <1>5

\* full is the function that FullTexts defines.
TextsOf(full, m) ==
    full = [i \in 0..Len(m) |-> IF i = 0 THEN <<>> ELSE full[i - 1] \o Text(m[i])]

\* The texts of a message can be put one after the other.
LEMMA TextsExist ==
    ASSUME NEW m, Len(m) \in Nat
    PROVE  \E full : TextsOf(full, m)
<1> DEFINE N == Len(m)
           Solves(f, n) == \A i \in 0..N : i <= n =>
                              f[i] = IF i = 0 THEN <<>> ELSE f[i - 1] \o Text(m[i])
           Bad == {n \in Nat : ~\E f : Solves(f, n)}
<1>1. \E f : Solves(f, 0)
  <2> DEFINE f == [i \in 0..N |-> <<>>]
  <2>1. Solves(f, 0)
    <3> SUFFICES ASSUME NEW i \in 0..N, i <= 0
                 PROVE  f[i] = IF i = 0 THEN <<>> ELSE f[i - 1] \o Text(m[i])
      OBVIOUS
    <3>1. i = 0 /\ f[i] = <<>>
      OBVIOUS
    <3> QED BY <3>1
  <2> QED BY <2>1
<1>2. ASSUME NEW n \in Nat, NEW f, Solves(f, n)
      PROVE  \E h : Solves(h, n + 1)
  <2> DEFINE h == [i \in 0..N |-> IF i <= n THEN f[i] ELSE f[i - 1] \o Text(m[i])]
  <2>1. ASSUME NEW i \in 0..N, i <= n + 1
        PROVE  h[i] = IF i = 0 THEN <<>> ELSE h[i - 1] \o Text(m[i])
    <3>1. CASE i <= n
      <4>1. h[i] = f[i] /\ (i # 0 => h[i - 1] = f[i - 1])
        BY <3>1
      <4>2. f[i] = IF i = 0 THEN <<>> ELSE f[i - 1] \o Text(m[i])
        BY <1>2, <3>1
      <4> HIDE DEF h
      <4> QED BY <4>1, <4>2
    <3>2. CASE i = n + 1
      <4>1. h[i] = f[i - 1] \o Text(m[i]) /\ h[i - 1] = f[i - 1] /\ i # 0
        BY <3>2
      <4> HIDE DEF h
      <4> QED BY <4>1
    <3> QED BY <2>1, <3>1, <3>2
  <2>2. Solves(h, n + 1)
    BY <2>1
  <2> HIDE DEF Solves, h
  <2> QED BY <2>2
<1> HIDE DEF Solves
<1>3. Bad = {}
  <2> SUFFICES ASSUME Bad # {} PROVE FALSE
    OBVIOUS
  <2>1. PICK n \in Bad : \A k \in Bad : n <= k
    <3>1. Bad \subseteq Nat
      OBVIOUS
    <3> HIDE DEF Bad
    <3> QED BY <3>1, LeastNumber
  <2>2. n \in Nat /\ n # 0
    BY <1>1
  <2>3. n - 1 \in Nat /\ n - 1 \notin Bad /\ (n - 1) + 1 = n
    BY <2>1, <2>2
  <2>4. PICK f : Solves(f, n - 1)
    BY <2>3
  <2>5. \E h : Solves(h, n)
    BY <2>3, <2>4, <1>2
  <2> QED BY <2>5
<1>4. PICK f : Solves(f, N)
  BY <1>3
<1> DEFINE full == [i \in 0..N |-> f[i]]
<1>5. TextsOf(full, m)
  <2>1. \A i \in 0..N : i <= N /\ (i # 0 => i - 1 \in 0..N)
    OBVIOUS
  <2>2. \A i \in 0..N : f[i] = IF i = 0 THEN <<>> ELSE f[i - 1] \o Text(m[i])
    BY <1>4, <2>1 DEF Solves
  <2>3. \A i \in 0..N : full[i] = f[i] /\ (i # 0 => full[i - 1] = f[i - 1])
    BY <2>1
  <2>4. full = [i \in 0..N |-> IF i = 0 THEN <<>> ELSE full[i - 1] \o Text(m[i])]
    BY <2>2, <2>3
  <2> HIDE DEF full
  <2> QED BY <2>4 DEF TextsOf
<1> QED BY <1>5

\* What FullTexts is: the texts of the directives, one after the other.
LEMMA TextsGrow ==
    ASSUME NEW m, Len(m) \in Nat
    PROVE  /\ FullTexts(m)[0] = <<>>
           /\ \A i \in 1..Len(m) : FullTexts(m)[i] = FullTexts(m)[i - 1] \o Text(m[i])
<1> DEFINE it == CHOOSE full : TextsOf(full, m)
<1>1. \E full : TextsOf(full, m)
  BY TextsExist
<1>2. TextsOf(it, m)
  BY <1>1
<1>3. FullTexts(m) = it
  BY DEF FullTexts, TextsOf
<1> HIDE DEF it
<1>4. 0 \in 0..Len(m) /\ \A i \in 1..Len(m) : i \in 0..Len(m) /\ i # 0
  OBVIOUS
<1> QED BY <1>2, <1>3, <1>4 DEF TextsOf

\* Up to a fault, what a message prints is a text that fits into the buffer.
LEMMA TextsType ==
    ASSUME NEW m, Printable(m), NEW k \in 0..Len(m), \A i \in 1..k : ~Faults(m[i])
    PROVE  FullTexts(m)[k] \in Seq(Chars) /\ Len(FullTexts(m)[k]) \in 0..(BufSize - 1)
<1> DEFINE Bad == {n \in 0..k : FullTexts(m)[n] \notin Seq(Chars)}
<1>1. Len(m) \in Nat /\ k \in Nat
  BY DEF Printable
<1>2. Bad = {}
  <2> SUFFICES ASSUME Bad # {} PROVE FALSE
    OBVIOUS
  <2>1. PICK n \in Bad : \A i \in Bad : n <= i
    <3>1. Bad \subseteq Nat
      BY <1>1
    <3> HIDE DEF Bad
    <3> QED BY <3>1, LeastNumber
  <2>2. n \in 0..k /\ FullTexts(m)[n] \notin Seq(Chars)
    OBVIOUS
  <2>3. n # 0
    <3>1. FullTexts(m)[0] \in Seq(Chars)
      BY <1>1, TextsGrow, EmptySeq
    <3> QED BY <2>2, <3>1
  <2>4. n \in 1..Len(m) /\ n \in 1..k /\ n - 1 \in 0..k /\ n - 1 < n
    BY <1>1, <2>2, <2>3
  <2>5. FullTexts(m)[n - 1] \in Seq(Chars)
    BY <2>1, <2>4
  <2>6. Text(m[n]) \in Seq(Chars)
    BY <2>4, TextType DEF Printable
  <2>7. FullTexts(m)[n] = FullTexts(m)[n - 1] \o Text(m[n])
    BY <1>1, <2>4, TextsGrow
  <2>8. FullTexts(m)[n] \in Seq(Chars)
    BY <2>5, <2>6, <2>7, ConcatProperties
  <2> QED BY <2>2, <2>8
<1>3. FullTexts(m)[k] \in Seq(Chars)
  <2>1. k \in 0..k
    BY <1>1
  <2> QED BY <1>2, <2>1
<1>4. Len(FullTexts(m)[k]) < BufSize
  BY DEF Printable, Fits
<1>5. Len(FullTexts(m)[k]) \in Nat
  BY <1>3, LenProperties
<1> QED BY <1>3, <1>4, <1>5, ConsoleAssumption

----------------------------------------------------------------------------
(* The message in the buffer.                                               *)

\* The buffer begins with the texts of the first k directives, and str is behind them.
Formatted(k) ==
    /\ k \in 0..Len(message)
    /\ \A i \in 1..k : ~Faults(message[i])
    /\ str = Len(FullTexts(message)[k])
    /\ \A i \in 1..str : buf[i] = FullTexts(message)[k][i]

\* The directives still to do are those from k + 1 on.
Remaining(k) ==
    /\ fmt \in Seq({message[i] : i \in 1..Len(message)})
    /\ Len(fmt) = Len(message) - k
    /\ \A i \in 1..Len(fmt) : fmt[i] = message[k + i]

\* While a message is formatted, it is so from its beginning up to where fmt goes on.
InFormat ==
    pc = "format" => Printable(message) /\ \E k \in 0..Len(message) : Formatted(k) /\ Remaining(k)

\* Once it is formatted, all of it is in the buffer, with a zero behind it.
InPrint ==
    pc = "print" => Printable(message) /\ Formatted(Len(message)) /\ buf[str + 1] = "NUL"

Shapes ==
    /\ DOMAIN buf = 1..BufSize
    /\ str \in 0..(BufSize - 1)
    /\ j \in 0..BufSize
    /\ pc \in {"idle", "format", "print", "halted"}
    /\ script \in DOMAIN Scripts \cup {"fault"}
    /\ step \in 0..Len(Messages)

CInv == TInv /\ Shapes /\ InFormat /\ InPrint

\* The length of what a string of the buffer holds: up to the first zero.
LEMMA Strnlen ==
    ASSUME NEW N \in Nat, NEW text, Len(text) = N, DOMAIN text = 1..N
    PROVE  /\ strnlen(text) \in 0..N
           /\ \A i \in 1..strnlen(text) : text[i] # "NUL"
           /\ strnlen(text) < N => text[strnlen(text) + 1] = "NUL"
<1> DEFINE Zeros == {i \in 1..N : text[i] = "NUL"}
<1>1. CASE Zeros = {}
  <2>1. strnlen(text) = N
    BY <1>1 DEF strnlen
  <2> QED BY <1>1, <2>1
<1>2. CASE Zeros # {}
  <2>1. PICK n \in Zeros : \A k \in Zeros : n <= k
    <3>1. Zeros \subseteq Nat
      OBVIOUS
    <3> HIDE DEF Zeros
    <3> QED BY <1>2, <3>1, LeastNumber
  <2> DEFINE First(i) == text[i] = "NUL" /\ \A k \in 1..(i - 1) : text[k] # "NUL"
             z == CHOOSE i \in DOMAIN text : First(i)
  <2>2. First(n) /\ n \in DOMAIN text
    <3>1. n \in 1..N /\ text[n] = "NUL"
      OBVIOUS
    <3>2. ASSUME NEW k \in 1..(n - 1) PROVE text[k] # "NUL"
      <4>1. k \in 1..N /\ ~(n <= k)
        BY <3>1
      <4> QED BY <2>1, <4>1
    <3> QED BY <3>1, <3>2
  <2>3. z \in DOMAIN text /\ First(z)
    <3> HIDE DEF First
    <3> QED BY <2>2
  <2>4. strnlen(text) = z - 1
    BY <2>2 DEF strnlen
  <2> HIDE DEF z
  <2>5. z \in 1..N
    BY <2>3
  <2>6. text[z] = "NUL" /\ \A k \in 1..(z - 1) : text[k] # "NUL"
    BY <2>3
  <2>7. z - 1 \in 0..N /\ (z - 1) + 1 = z
    BY <2>5
  <2> QED BY <2>4, <2>6, <2>7
<1> QED BY <1>1, <1>2

\* The length of what is printed is bounded by the buffer.
LEMMA BufferLength ==
    ASSUME Shapes
    PROVE  /\ strnlen(buf) \in 0..BufSize
           /\ \A i \in 1..strnlen(buf) : buf[i] # "NUL"
           /\ strnlen(buf) < BufSize => buf[strnlen(buf) + 1] = "NUL"
<1>1. BufSize \in Nat /\ DOMAIN buf = 1..BufSize
  BY ConsoleAssumption DEF Shapes
<1>2. Len(buf) = BufSize
  BY <1>1
<1> QED BY <1>1, <1>2, Strnlen

\* Every message of a script, and of the last words, is printable.
LEMMA MessagesPrintable ==
    ASSUME Shapes
    PROVE  /\ Len(Messages) \in Nat
           /\ \A i \in 1..Len(Messages) : \A m \in Messages[i] : Printable(m)
<1>1. CASE script = "fault"
  <2> DEFINE N == Len(LastWords)
  <2>1. N \in Nat /\ DOMAIN LastWords = 1..N
    BY MessagesAssumption
  <2>2. Messages = [i \in 1..N |-> {LastWords[i]}]
    BY <1>1, <2>1 DEF Messages
  <2>3. \A i \in 1..N : Printable(LastWords[i])
    BY <2>1, MessagesAssumption
  <2> HIDE DEF N
  <2>4. Len(Messages) = N
    BY <2>1, <2>2
  <2> QED BY <2>1, <2>2, <2>3, <2>4
<1>2. CASE script # "fault"
  <2>1. Messages = Scripts[script] /\ script \in DOMAIN Scripts
    BY <1>2 DEF Messages, Shapes
  <2> QED BY <2>1, MessagesAssumption
<1> QED BY <1>1, <1>2

LEMMA InitShapes == Init => Shapes /\ InFormat /\ InPrint
<1> SUFFICES ASSUME Init PROVE Shapes /\ InFormat /\ InPrint
  OBVIOUS
<1>1. BufSize \in Nat /\ 0 \in 0..(BufSize - 1) /\ 0 \in 0..BufSize
  BY ConsoleAssumption
<1>2. DOMAIN buf = 1..BufSize
  BY <1>1 DEF Init, Pad, Larger
<1>3. Messages = Scripts[script] /\ script \in DOMAIN Scripts
  BY DEF Init, Messages
<1>4. step \in 0..Len(Messages)
  BY <1>3, MessagesAssumption DEF Init
<1> QED BY <1>1, <1>2, <1>4 DEF Init, Shapes, InFormat, InPrint

\* A message begins with nothing formatted.
LEMMA PrintfFormat ==
    ASSUME CInv, CallStep
    PROVE  Shapes' /\ InFormat' /\ InPrint'
<1>1. PICK m \in Messages[step + 1] : Printf(m)
  BY DEF CallStep
<1>2. step < Len(Messages) /\ step \in Nat /\ Len(Messages) \in Nat /\ Messages' = Messages
  BY <1>1, MessagesPrintable DEF CInv, Shapes, Printf, Messages
<1>3. step + 1 \in 1..Len(Messages)
  BY <1>2
<1>4. Printable(m)
  BY <1>3, MessagesPrintable DEF CInv
<1>5. BufSize \in Nat /\ 0 \in 0..(BufSize - 1) /\ 0 \in 0..BufSize
  BY ConsoleAssumption
<1>6. Shapes'
  BY <1>1, <1>2, <1>5 DEF CInv, Shapes, Printf
<1>7. InFormat'
  <2>1. Len(m) \in Nat /\ m = [i \in 1..Len(m) |-> m[i]]
    BY <1>4 DEF Printable
  <2>2. m \in Seq({m[i] : i \in 1..Len(m)})
    BY <2>1
  <2>3. Formatted(0)'
    <3>1. FullTexts(m)[0] = <<>>
      BY <2>1, TextsGrow
    <3> QED BY <1>1, <2>1, <3>1 DEF Formatted, Printf
  <2>4. Remaining(0)'
    <3>1. \A i \in 1..Len(m) : m[i] = m[0 + i]
      BY <2>1
    <3> QED BY <1>1, <2>1, <2>2, <3>1 DEF Remaining, Printf
  <2>5. message' = m /\ 0 \in 0..Len(m)
    BY <1>1, <2>1 DEF Printf
  <2> QED BY <1>4, <2>3, <2>4, <2>5 DEF InFormat
<1>8. InPrint'
  BY <1>1 DEF InPrint, Printf
<1> QED BY <1>6, <1>7, <1>8


\* A directive appends its text.
LEMMA FormatAppends ==
    ASSUME CInv, Format
    PROVE  Shapes' /\ InFormat' /\ InPrint'
<1>1. Printable(message) /\ Len(message) \in Nat
  BY DEF CInv, InFormat, Format, Printable
<1>2. PICK k \in 0..Len(message) : Formatted(k) /\ Remaining(k)
  BY DEF CInv, InFormat, Format
<1> DEFINE D == {message[i] : i \in 1..Len(message)}
           d == message[k + 1]
           old == FullTexts(message)[k]
           new == FullTexts(message)[k + 1]
<1>3. /\ fmt # <<>> /\ fmt \in Seq(D) /\ Len(fmt) = Len(message) - k
      /\ \A i \in 1..Len(fmt) : fmt[i] = message[k + i]
  BY <1>2 DEF Remaining, Format
<1>4. /\ k + 1 \in 1..Len(message) /\ Head(fmt) = d
      /\ Tail(fmt) \in Seq(D) /\ Len(Tail(fmt)) = Len(message) - (k + 1)
      /\ \A i \in 1..Len(Tail(fmt)) : Tail(fmt)[i] = message[(k + 1) + i]
  <2> HIDE DEF D
  <2>1. Len(fmt) \in Nat \ {0} /\ Head(fmt) = fmt[1]
    BY <1>3
  <2>2. /\ Tail(fmt) \in Seq(D) /\ Len(Tail(fmt)) = Len(fmt) - 1
        /\ \A i \in 1..Len(Tail(fmt)) : Tail(fmt)[i] = fmt[i + 1]
    BY <1>3, HeadTailProperties
  <2>3. k + 1 \in 1..Len(message) /\ Head(fmt) = d
    BY <1>1, <1>3, <2>1
  <2>4. \A i \in 1..Len(Tail(fmt)) : Tail(fmt)[i] = message[(k + 1) + i]
    <3> TAKE i \in 1..Len(Tail(fmt))
    <3>1. i + 1 \in 1..Len(fmt) /\ k + (i + 1) = (k + 1) + i
      BY <2>1, <2>2
    <3> QED BY <1>3, <2>2, <3>1
  <2> QED BY <1>1, <1>3, <2>2, <2>3, <2>4
<1>5. ~Faults(d) /\ \A i \in 1..(k + 1) : ~Faults(message[i])
  <2>1. ~Faults(d)
    BY <1>4 DEF Format
  <2> QED BY <1>2, <2>1 DEF Formatted
<1>6. Text(d) \in Seq(Chars)
  BY <1>1, <1>4, <1>5, TextType DEF Printable
<1>7. old \in Seq(Chars) /\ new = old \o Text(d)
  <2>1. old \in Seq(Chars)
    BY <1>1, <1>2, TextsType DEF Formatted
  <2>2. k + 1 \in 1..Len(message) /\ (k + 1) - 1 = k
    BY <1>4
  <2> QED BY <1>1, <2>1, <2>2, TextsGrow
<1>8. Len(new) \in 0..(BufSize - 1)
  <2>1. k + 1 \in 0..Len(message)
    BY <1>4
  <2> QED BY <1>1, <1>5, <2>1, TextsType
<1> HIDE DEF d, old, new, D
<1>9. /\ Len(old) \in Nat /\ Len(Text(d)) \in Nat /\ str = Len(old)
      /\ Len(new) = Len(old) + Len(Text(d))
      /\ \A i \in 1..Len(new) : new[i] = IF i <= Len(old) THEN old[i] ELSE Text(d)[i - Len(old)]
  <2>1. str = Len(old)
    BY <1>2 DEF Formatted, old
  <2>2. Len(old) \in Nat /\ Len(Text(d)) \in Nat
    BY <1>6, <1>7, LenProperties
  <2> QED BY <1>6, <1>7, <2>1, <2>2, ConcatProperties
<1>10. /\ str' = Len(new) /\ buf' = Written(str, Text(d)) /\ fmt' = Tail(fmt)
       /\ UNCHANGED <<j, pc, script, step, message>>
  BY <1>4, <1>9 DEF Format
<1>11. DOMAIN buf = 1..BufSize /\ BufSize \in Nat
  BY ConsoleAssumption DEF CInv, Shapes
<1>12. DOMAIN buf' = 1..BufSize
  BY <1>10, <1>11 DEF Written
<1>13. \A i \in 1..Len(new) : buf'[i] = new[i]
  <2> TAKE i \in 1..Len(new)
  <2>1. i \in 1..BufSize
    BY <1>8, <1>11
  <2>2. buf'[i] = IF i > str /\ i <= str + Len(Text(d)) THEN Text(d)[i - str] ELSE buf[i]
    BY <1>10, <1>11, <2>1 DEF Written
  <2>3. CASE i > str
    BY <1>9, <2>2, <2>3
  <2>4. CASE ~(i > str)
    <3>1. buf[i] = old[i]
      BY <1>2, <1>9, <2>4 DEF Formatted, old
    <3> QED BY <1>9, <2>2, <2>4, <3>1
  <2> QED BY <2>3, <2>4
<1>14. Shapes'
  BY <1>8, <1>10, <1>12 DEF CInv, Shapes, Messages
<1>15. InFormat'
  <2>1. Formatted(k + 1)'
    <3>1. k + 1 \in 0..Len(message)
      BY <1>4
    <3> QED BY <1>5, <1>10, <1>13, <3>1 DEF Formatted, new
  <2>2. Remaining(k + 1)'
    BY <1>4, <1>10 DEF Remaining, D
  <2>3. message' = message /\ k + 1 \in 0..Len(message)
    BY <1>4, <1>10
  <2> QED BY <1>1, <2>1, <2>2, <2>3 DEF InFormat
<1>16. InPrint'
  BY <1>10 DEF InPrint, Format
<1> QED BY <1>14, <1>15, <1>16

\* At the end of the message a zero closes its text.
LEMMA EndFormatCloses ==
    ASSUME CInv, EndFormat
    PROVE  Shapes' /\ InFormat' /\ InPrint'
<1>1. Printable(message) /\ Len(message) \in Nat
  BY DEF CInv, InFormat, EndFormat, Printable
<1>2. Formatted(Len(message))
  <2>1. PICK k \in 0..Len(message) : Formatted(k) /\ Remaining(k)
    BY DEF CInv, InFormat, EndFormat
  <2>2. Len(fmt) = 0 /\ k = Len(message)
    BY <1>1, <2>1 DEF Remaining, EndFormat
  <2> QED BY <2>1, <2>2
<1>3. /\ buf' = Written(str, <<"NUL">>) /\ pc' = "print"
      /\ UNCHANGED <<str, fmt, j, script, step, message>>
  BY DEF EndFormat, Terminated
<1>4. DOMAIN buf = 1..BufSize /\ BufSize \in Nat /\ str \in 0..(BufSize - 1)
  BY ConsoleAssumption DEF CInv, Shapes
<1>5. /\ DOMAIN buf' = 1..BufSize
      /\ \A i \in 1..BufSize : buf'[i] = IF i = str + 1 THEN "NUL" ELSE buf[i]
  <2>1. DOMAIN buf' = 1..BufSize
    BY <1>3, <1>4 DEF Written
  <2>2. Len(<<"NUL">>) = 1 /\ <<"NUL">>[1] = "NUL"
    OBVIOUS
  <2>3. ASSUME NEW i \in 1..BufSize
        PROVE  buf'[i] = IF i = str + 1 THEN "NUL" ELSE buf[i]
    <3>1. buf'[i] = IF i > str /\ i <= str + 1 THEN <<"NUL">>[i - str] ELSE buf[i]
      BY <1>3, <1>4, <2>2 DEF Written
    <3>2. CASE i = str + 1
      <4>1. i - str = 1 /\ i > str /\ i <= str + 1
        BY <1>4, <3>2
      <4> QED BY <2>2, <3>1, <3>2, <4>1
    <3>3. CASE i # str + 1
      BY <1>4, <3>1, <3>3
    <3> QED BY <3>2, <3>3
  <2> QED BY <2>1, <2>3
<1>6. Shapes'
  BY <1>3, <1>4, <1>5 DEF CInv, Shapes, Messages
<1>7. InFormat'
  BY <1>3 DEF InFormat
<1>8. InPrint'
  <2>1. \A i \in 1..str : buf'[i] = FullTexts(message)[Len(message)][i]
    <3> TAKE i \in 1..str
    <3>1. i \in 1..BufSize /\ i # str + 1
      BY <1>4
    <3> QED BY <1>2, <1>5, <3>1 DEF Formatted
  <2>2. Formatted(Len(message))'
    BY <1>2, <1>3, <2>1 DEF Formatted
  <2>3. str + 1 \in 1..BufSize /\ buf'[str + 1] = "NUL"
    BY <1>4, <1>5
  <2> QED BY <1>1, <1>3, <2>2, <2>3 DEF InPrint
<1> QED BY <1>6, <1>7, <1>8

\* The other steps neither write to the buffer nor take up a directive.
LEMMA OtherSteps ==
    ASSUME CInv, Fault \/ Putchar \/ Return \/ UNCHANGED vars
    PROVE  Shapes' /\ InFormat' /\ InPrint'
<1>1. CASE Fault
  <2>1. script' = "fault" /\ step' = 0 /\ pc' = "idle" /\ UNCHANGED <<buf, str, j>>
    BY <1>1 DEF Fault
  <2>2. Messages' = [i \in DOMAIN LastWords |-> {LastWords[i]}]
    BY <2>1 DEF Messages
  <2>3. Len(Messages') \in Nat
    <3> DEFINE N == Len(LastWords)
    <3>1. N \in Nat /\ Messages' = [i \in 1..N |-> {LastWords[i]}]
      BY <2>2, MessagesAssumption
    <3> HIDE DEF N
    <3>2. Len(Messages') = N
      BY <3>1
    <3> QED BY <3>1, <3>2
  <2>4. Shapes'
    BY <2>1, <2>3 DEF CInv, Shapes
  <2> QED BY <2>1, <2>4 DEF InFormat, InPrint
<1>2. CASE Putchar
  <2>1. j' = j + 1 /\ j < strnlen(buf) /\ pc = "print"
          /\ UNCHANGED <<buf, str, fmt, pc, script, step, message>>
    BY <1>2 DEF Putchar
  <2>2. j' \in 0..BufSize
    BY <2>1, BufferLength, ConsoleAssumption DEF CInv, Shapes
  <2>3. Shapes'
    BY <2>1, <2>2 DEF CInv, Shapes, Messages
  <2> QED BY <2>1, <2>3 DEF CInv, InFormat, InPrint, Formatted
<1>3. CASE Return
  <2>1. pc' \in {"halted", "idle"} /\ UNCHANGED <<buf, str, fmt, j, script, step, message>>
    BY <1>3 DEF Return
  <2>2. Shapes'
    BY <2>1 DEF CInv, Shapes, Messages
  <2> QED BY <2>1, <2>2 DEF InFormat, InPrint
<1>4. CASE UNCHANGED vars
  <2>1. UNCHANGED <<buf, str, fmt, j, pc, script, step, message>>
    BY <1>4 DEF vars, printing
  <2>2. Shapes'
    BY <2>1 DEF CInv, Shapes, Messages
  <2>3. InFormat'
    <3> SUFFICES ASSUME pc' = "format" PROVE InFormat'
      BY DEF InFormat
    <3>1. PICK k \in 0..Len(message) : Formatted(k) /\ Remaining(k)
      BY <2>1 DEF CInv, InFormat
    <3>2. Formatted(k)' /\ Remaining(k)'
      BY <2>1, <3>1 DEF Formatted, Remaining
    <3>3. Printable(message)' /\ k \in 0..Len(message')
      BY <2>1 DEF CInv, InFormat
    <3> QED BY <3>2, <3>3 DEF InFormat
  <2> QED BY <2>1, <2>2, <2>3 DEF CInv, InPrint, Formatted
<1> QED BY <1>1, <1>2, <1>3, <1>4

LEMMA ConsoleInv == Spec => []CInv
<1>1. Init => CInv
  BY InitTInv, InitShapes DEF Init, CInv
<1>2. CInv /\ [Next]_vars => CInv'
  <2> SUFFICES ASSUME CInv, [Next]_vars PROVE CInv'
    OBVIOUS
  <2>1. TInv'
    BY ConsoleSteps, IdleTerminal, PutcharTInv DEF CInv
  <2>2. Shapes' /\ InFormat' /\ InPrint'
    <3>1. CASE CallStep
      BY <3>1, PrintfFormat
    <3>2. CASE Format
      BY <3>2, FormatAppends
    <3>3. CASE EndFormat
      BY <3>3, EndFormatCloses
    <3>4. CASE Fault \/ Putchar \/ Return \/ Quiet \/ UNCHANGED vars
      BY <3>4, OtherSteps DEF Quiet
    <3> QED BY <3>1, <3>2, <3>3, <3>4 DEF Next, PrintStep
  <2> QED BY <2>1, <2>2 DEF CInv
<1> QED BY <1>1, <1>2, PTL DEF Spec

\* The formatter stays inside its buffer and the cursor on the screen, as long as no
\* message is longer than the buffer.
THEOREM ConsoleTypes == Spec => []TypeOK
<1>1. CInv => TypeOK
  BY DEF CInv, TInv, Shapes, TypeOK
<1> QED BY <1>1, ConsoleInv, PTL

\* What printf puts on the terminal is the message it was given, from its beginning:
\* nothing of an earlier message, nor of one that a fault interrupted, is in it.
THEOREM PrintsItsMessage == Spec => []NoStaleText
<1>1. CInv => NoStaleText
  <2> SUFFICES ASSUME CInv, pc = "print"
               PROVE  LET text == FullText(message) IN
                      SubSeq(buf, 1, strnlen(buf)) = SubSeq(text, 1, strnlen(text))
    BY DEF NoStaleText
  <2> DEFINE text == FullText(message)
             n == strnlen(buf)
             t == strnlen(text)
  <2>1. /\ str = Len(text) /\ buf[str + 1] = "NUL" /\ text \in Seq(Chars)
        /\ \A i \in 1..str : buf[i] = text[i]
    <3>1. Printable(message) /\ Formatted(Len(message)) /\ Len(message) \in 0..Len(message)
      BY DEF CInv, InPrint, Formatted
    <3>2. FullTexts(message)[Len(message)] \in Seq(Chars)
      BY <3>1, TextsType DEF Formatted
    <3> QED BY <3>1, <3>2 DEF CInv, InPrint, Formatted, FullText
  <2>2. str \in Nat /\ str + 1 \in 1..BufSize /\ BufSize \in Nat
    BY ConsoleAssumption DEF CInv, Shapes
  <2>3. /\ n \in 0..BufSize
        /\ \A i \in 1..n : buf[i] # "NUL"
        /\ n < BufSize => buf[n + 1] = "NUL"
    BY BufferLength DEF CInv
  <2> HIDE DEF text
  <2>4. /\ t \in 0..str
        /\ \A i \in 1..t : text[i] # "NUL"
        /\ t < str => text[t + 1] = "NUL"
    <3>1. DOMAIN text = 1..str /\ Len(text) = str
      BY <2>1, LenProperties
    <3> QED BY <2>2, <3>1, Strnlen
  <2> HIDE DEF n, t
  <2>5. n <= str
    <3>1. ~(str + 1 \in 1..n)
      BY <2>1, <2>3
    <3> QED BY <2>2, <2>3, <3>1
  <2>6. n = t
    <3>1. ASSUME n < t PROVE FALSE
      <4>1. n + 1 \in 1..str /\ n + 1 \in 1..t /\ n < BufSize
        BY <2>2, <2>3, <2>4, <3>1
      <4> QED BY <2>1, <2>3, <2>4, <4>1
    <3>2. ASSUME t < n PROVE FALSE
      <4>1. t + 1 \in 1..str /\ t + 1 \in 1..n /\ t < str
        BY <2>2, <2>3, <2>4, <2>5, <3>2
      <4> QED BY <2>1, <2>3, <2>4, <4>1
    <3> QED BY <2>3, <2>4, <3>1, <3>2
  <2>7. \A i \in 1..n : buf[i] = text[i]
    BY <2>1, <2>2, <2>3, <2>5
  <2>8. SubSeq(buf, 1, n) = SubSeq(text, 1, n)
    BY <2>3, <2>7
  <2> QED BY <2>6, <2>8 DEF n, t, text
<1> QED BY <1>1, ConsoleInv, PTL

----------------------------------------------------------------------------
(* Digits and their values.                                                 *)

\* Induction on the numbers up to N.
LEMMA Upwards ==
    ASSUME NEW N \in Nat, NEW T, 0 \in T, \A i \in 1..N : i - 1 \in T => i \in T
    PROVE  \A i \in 0..N : i \in T
<1> DEFINE Bad == {i \in 0..N : i \notin T}
<1> SUFFICES ASSUME Bad # {} PROVE FALSE
  OBVIOUS
<1>1. PICK n \in Bad : \A i \in Bad : n <= i
  <2>1. Bad \subseteq Nat
    OBVIOUS
  <2> HIDE DEF Bad
  <2> QED BY <2>1, LeastNumber
<1>2. n \in 1..N /\ n - 1 \in 0..N /\ ~(n <= n - 1)
  OBVIOUS
<1>3. n - 1 \in T
  BY <1>1, <1>2
<1> QED BY <1>1, <1>2, <1>3

\* f starts with first and goes on with what G makes of the value before.
Steps(f, N, first, G) == f[0] = first /\ \A i \in 1..N : f[i] = G[i][f[i - 1]]

LEMMA StepsDefine ==
    ASSUME NEW N \in Nat, NEW V, NEW first \in V, NEW G \in [1..N -> [V -> V]]
    PROVE  \E f \in [0..N -> V] : Steps(f, N, first, G)
<1> DEFINE S == 0..N
           rank == [i \in S |-> i]
           pred == [i \in S |-> IF i = 0 THEN 0 ELSE i - 1]
           base == [i \in S |-> first]
           H == [i \in S |-> IF i = 0 THEN [v \in V |-> v] ELSE G[i]]
<1>1. /\ rank \in [S -> 0..N] /\ pred \in [S -> S] /\ base \in [S -> V]
      /\ {0} \in SUBSET S
  OBVIOUS
<1>2. H \in [S -> [V -> V]]
  <2>1. \A i \in S : i # 0 => i \in 1..N
    OBVIOUS
  <2> QED BY <2>1
<1>3. Descends(pred, S, {0}, rank)
  BY DEF Descends
<1>4. PICK f \in [S -> V] : Recursive(f, S, {0}, base, H, pred)
  <2> HIDE DEF S, rank, pred, base, H
  <2> QED BY <1>1, <1>2, <1>3, RecursionDefines
<1>5. f[0] = first
  BY <1>4 DEF Recursive
<1>6. ASSUME NEW i \in 1..N PROVE f[i] = G[i][f[i - 1]]
  <2>1. i \in S /\ i # 0 /\ pred[i] = i - 1 /\ H[i] = G[i]
    OBVIOUS
  <2> HIDE DEF S, pred, H
  <2> QED BY <1>4, <2>1 DEF Recursive
<1> QED BY <1>5, <1>6 DEF Steps

----------------------------------------------------------------------------
(* Digits and their values.                                                *)

LEMMA DigitsDiffer ==
    \A i, k \in 1..16 :
        /\ UPPERCASE_DIGITS[i] = UPPERCASE_DIGITS[k] => i = k
        /\ LOWERCASE_DIGITS[i] = LOWERCASE_DIGITS[k] => i = k
        /\ UPPERCASE_DIGITS[i] = LOWERCASE_DIGITS[k] => i = k
<1> TAKE i, k \in 1..16
<1>1. UPPERCASE_DIGITS[i] = UPPERCASE_DIGITS[k] => i = k
  BY DEF UPPERCASE_DIGITS
<1>2. LOWERCASE_DIGITS[i] = LOWERCASE_DIGITS[k] => i = k
  BY DEF LOWERCASE_DIGITS
<1>3. UPPERCASE_DIGITS[i] = LOWERCASE_DIGITS[k] => i = k
  BY DEF UPPERCASE_DIGITS, LOWERCASE_DIGITS
<1> QED BY <1>1, <1>2, <1>3

\* The value of the digit printed for i - 1 is i - 1.
LEMMA DigitRead ==
    ASSUME NEW type, NEW i \in 1..16
    PROVE  DigitValue(DigitsOf(type)[i]) = i - 1
<1> DEFINE x == DigitsOf(type)[i]
           Is(k) == x \in {UPPERCASE_DIGITS[k], LOWERCASE_DIGITS[k]}
<1>1. Is(i)
  BY DEF DigitsOf
<1>2. \A k \in 1..16 : Is(k) => k = i
  BY DigitsDiffer DEF DigitsOf
<1>3. (CHOOSE k \in 1..16 : Is(k)) = i
  <2> HIDE DEF Is
  <2> QED BY <1>1, <1>2
<1> QED BY <1>3 DEF DigitValue

LEMMA DigitValueType ==
    ASSUME NEW x \in Digits
    PROVE  DigitValue(x) \in Nat
<1>1. PICK i \in 1..16 : x \in {UPPERCASE_DIGITS[i], LOWERCASE_DIGITS[i]}
  BY DEF Digits
<1>2. PICK type : x = DigitsOf(type)[i]
  <2>1. DigitsOf({}) = UPPERCASE_DIGITS /\ DigitsOf({"small"}) = LOWERCASE_DIGITS
    BY DEF DigitsOf
  <2> QED BY <1>1, <2>1
<1>3. DigitValue(x) = i - 1
  BY <1>2, DigitRead
<1> QED BY <1>3

\* Zero is a digit, and no sign, prefix or space is one.
LEMMA DigitsOnly ==
    /\ "0" \in Digits /\ DigitValue("0") = 0
    /\ {"-", "+", "x", "X", Space} \cap Digits = {}
    /\ Space # "0" /\ Space \notin {"-", "+", "x", "X"}
<1> DEFINE All == {"0", "1", "2", "3", "4", "5", "6", "7", "8", "9",
                   "A", "B", "C", "D", "E", "F", "a", "b", "c", "d", "e", "f"}
<1>1. UPPERCASE_DIGITS[1] = "0" /\ 1 \in 1..16 /\ DigitsOf({}) = UPPERCASE_DIGITS
  BY DEF UPPERCASE_DIGITS, DigitsOf
<1>2. "0" \in Digits
  BY <1>1 DEF Digits
<1>3. DigitValue("0") = 0
  <2>1. DigitValue(DigitsOf({})[1]) = 1 - 1
    BY DigitRead
  <2> QED BY <1>1, <2>1
<1>4. Digits \subseteq All
  <2>1. \A i \in 1..16 : UPPERCASE_DIGITS[i] \in All
    BY DEF UPPERCASE_DIGITS
  <2>2. \A i \in 1..16 : LOWERCASE_DIGITS[i] \in All
    BY DEF LOWERCASE_DIGITS
  <2> QED BY <2>1, <2>2 DEF Digits
<1>5. "-" \notin All /\ "+" \notin All /\ "x" \notin All /\ "X" \notin All
  OBVIOUS
<1>6. Space \notin All
  BY Zenon DEF Space
<1>7. Space # "0" /\ Space # "-" /\ Space # "+" /\ Space # "x" /\ Space # "X"
  BY Zenon DEF Space
<1> HIDE DEF All
<1> QED BY <1>2, <1>3, <1>4, <1>5, <1>6, <1>7

----------------------------------------------------------------------------
(* The value of a sequence of digits.                                      *)

ValueOf(value, s, base) ==
    value = [i \in 0..Len(s) |->
                IF i = 0 THEN 0 ELSE value[i - 1] * base + DigitValue(s[i])]

\* The values of the beginnings of s.
Values(s, base) == CHOOSE value : ValueOf(value, s, base)

LEMMA ValuesGrow ==
    ASSUME NEW s \in Seq(Digits), NEW base \in Nat
    PROVE  /\ Values(s, base)[0] = 0
           /\ \A i \in 1..Len(s) :
                 Values(s, base)[i] = Values(s, base)[i - 1] * base + DigitValue(s[i])
           /\ Value(s, base) = Values(s, base)[Len(s)]
           /\ \A i \in 0..Len(s) : Values(s, base)[i] \in Nat
<1> DEFINE N == Len(s)
           G == [i \in 1..N |-> [v \in Nat |-> v * base + DigitValue(s[i])]]
           it == Values(s, base)
<1>1. N \in Nat /\ \A i \in 1..N : DigitValue(s[i]) \in Nat
  BY DigitValueType
<1>2. \E value : ValueOf(value, s, base)
  <2>1. G \in [1..N -> [Nat -> Nat]]
    BY <1>1
  <2>2. PICK f \in [0..N -> Nat] : Steps(f, N, 0, G)
    <3> HIDE DEF N, G
    <3> QED BY <1>1, <2>1, StepsDefine
  <2>3. \A i \in 1..N : f[i] = f[i - 1] * base + DigitValue(s[i])
    <3> TAKE i \in 1..N
    <3>1. i - 1 \in 0..N
      BY <1>1
    <3>2. f[i - 1] \in Nat
      BY <3>1
    <3>3. f[i] = G[i][f[i - 1]]
      BY <2>2 DEF Steps
    <3> QED BY <3>2, <3>3
  <2>4. f = [i \in 0..N |-> IF i = 0 THEN 0 ELSE f[i - 1] * base + DigitValue(s[i])]
    BY <1>1, <2>2, <2>3 DEF Steps
  <2> QED BY <2>4 DEF ValueOf
<1>3. ValueOf(it, s, base)
  BY <1>2 DEF Values
<1>4. Value(s, base) = it[N]
  BY DEF Value, Values, ValueOf
<1> HIDE DEF it
<1>5. it[0] = 0 /\ \A i \in 1..N : it[i] = it[i - 1] * base + DigitValue(s[i])
  BY <1>1, <1>3 DEF ValueOf
<1>6. \A i \in 0..N : it[i] \in Nat
  <2> DEFINE T == {i \in 0..N : it[i] \in Nat}
  <2>1. 0 \in T
    BY <1>1, <1>5
  <2>2. ASSUME NEW i \in 1..N, i - 1 \in T PROVE i \in T
    <3>1. i \in 0..N /\ i - 1 \in 0..N /\ it[i - 1] \in Nat
      BY <1>1, <2>2
    <3>2. DigitValue(s[i]) \in Nat
      BY <1>1
    <3>3. it[i] = it[i - 1] * base + DigitValue(s[i])
      BY <1>5
    <3> HIDE DEF it
    <3> QED BY <3>1, <3>2, <3>3
  <2>3. \A i \in 0..N : i \in T
    <3> HIDE DEF T, N
    <3> QED BY <1>1, <2>1, <2>2, Upwards
  <2> QED BY <2>3
<1> QED BY <1>4, <1>5, <1>6 DEF it

LEMMA ValueOfNone ==
    ASSUME NEW base \in Nat
    PROVE  Value(<<>>, base) = 0
<1>1. <<>> \in Seq(Digits) /\ Len(<<>>) = 0
  OBVIOUS
<1> QED BY <1>1, ValuesGrow

LEMMA ValueAppend ==
    ASSUME NEW s \in Seq(Digits), NEW x \in Digits, NEW base \in Nat
    PROVE  Value(Append(s, x), base) = Value(s, base) * base + DigitValue(x)
<1> DEFINE t == Append(s, x)
           N == Len(s)
           T == {i \in 0..N : Values(t, base)[i] = Values(s, base)[i]}
<1>1. /\ t \in Seq(Digits) /\ Len(t) = N + 1 /\ N \in Nat
      /\ \A i \in 1..N : t[i] = s[i]
      /\ t[N + 1] = x
  BY AppendProperties
<1> HIDE DEF t
<1>2. 0 \in T
  BY <1>1, ValuesGrow
<1>3. ASSUME NEW i \in 1..N, i - 1 \in T PROVE i \in T
  <2>1. i \in 1..Len(t) /\ i \in 1..Len(s) /\ t[i] = s[i]
    BY <1>1
  <2>2. Values(t, base)[i] = Values(t, base)[i - 1] * base + DigitValue(t[i])
    BY <1>1, <2>1, ValuesGrow
  <2>3. Values(s, base)[i] = Values(s, base)[i - 1] * base + DigitValue(s[i])
    BY <2>1, ValuesGrow
  <2> QED BY <1>3, <2>1, <2>2, <2>3
<1>4. \A i \in 0..N : i \in T
  <2> HIDE DEF T, N
  <2> QED BY <1>1, <1>2, <1>3, Upwards
<1>5. Values(t, base)[N] = Value(s, base)
  <2>1. N \in 0..N
    BY <1>1
  <2> QED BY <1>4, <2>1, ValuesGrow
<1>6. N + 1 \in 1..Len(t) /\ (N + 1) - 1 = N
  BY <1>1
<1>7. Values(t, base)[N + 1] = Values(t, base)[N] * base + DigitValue(x)
  BY <1>1, <1>6, ValuesGrow
<1> QED BY <1>1, <1>5, <1>7, ValuesGrow DEF t

\* Zeros before a number do not change its value.
LEMMA ValueZeros ==
    ASSUME NEW z \in Seq({"0"}), NEW s \in Seq(Digits), NEW base \in Nat
    PROVE  Value(z \o s, base) = Value(s, base)
<1> DEFINE t == z \o s
           Z == Len(z)
           N == Len(s)
           T == {i \in 0..Z : Values(t, base)[i] = 0}
           U == {i \in 0..N : Values(t, base)[Z + i] = Values(s, base)[i]}
<1>1. /\ Z \in Nat /\ N \in Nat
      /\ t \in Seq(Digits) /\ Len(t) = Z + N
      /\ \A i \in 1..Z : t[i] = "0"
      /\ \A i \in 1..N : t[Z + i] = s[i]
  <2>1. z \in Seq(Digits) /\ Z \in Nat /\ N \in Nat
    BY DigitsOnly
  <2>2. /\ t \in Seq(Digits) /\ Len(t) = Z + N
        /\ \A i \in 1..(Z + N) : t[i] = IF i <= Z THEN z[i] ELSE s[i - Z]
    BY <2>1, ConcatProperties
  <2>3. \A i \in 1..Z : z[i] = "0"
    BY ElementOfSeq
  <2> HIDE DEF t
  <2>4. \A i \in 1..Z : t[i] = "0"
    BY <2>1, <2>2, <2>3
  <2>5. ASSUME NEW i \in 1..N PROVE t[Z + i] = s[i]
    <3>1. Z + i \in 1..(Z + N) /\ ~(Z + i <= Z) /\ (Z + i) - Z = i
      BY <2>1
    <3> QED BY <2>2, <3>1
  <2> QED BY <2>1, <2>2, <2>4, <2>5
<1> HIDE DEF t, Z, N
<1>2. \A i \in 0..Z : i \in T
  <2>1. 0 \in T
    BY <1>1, ValuesGrow
  <2>2. ASSUME NEW i \in 1..Z, i - 1 \in T PROVE i \in T
    <3>1. i \in 1..Len(t)
      BY <1>1
    <3>2. Values(t, base)[i] = Values(t, base)[i - 1] * base + DigitValue(t[i])
      BY <1>1, <3>1, ValuesGrow
    <3> QED BY <1>1, <2>2, <3>2, DigitsOnly
  <2> HIDE DEF T
  <2> QED BY <1>1, <2>1, <2>2, Upwards
<1>3. Values(t, base)[Z] = 0
  BY <1>1, <1>2
<1>4. \A i \in 0..N : i \in U
  <2>1. 0 \in U
    <3>1. Z + 0 = Z /\ 0 \in 0..N
      BY <1>1
    <3> QED BY <1>3, <3>1, ValuesGrow
  <2>2. ASSUME NEW i \in 1..N, i - 1 \in U PROVE i \in U
    <3>1. Z + i \in 1..Len(t) /\ (Z + i) - 1 = Z + (i - 1) /\ t[Z + i] = s[i] /\ i \in 1..Len(s)
      BY <1>1 DEF N
    <3>2. Values(t, base)[Z + i] = Values(t, base)[(Z + i) - 1] * base + DigitValue(t[Z + i])
      BY <1>1, <3>1, ValuesGrow
    <3>3. Values(s, base)[i] = Values(s, base)[i - 1] * base + DigitValue(s[i])
      BY <3>1, ValuesGrow
    <3>4. Values(t, base)[Z + (i - 1)] = Values(s, base)[i - 1]
      BY <2>2
    <3> QED BY <3>1, <3>2, <3>3, <3>4
  <2> HIDE DEF U
  <2> QED BY <1>1, <2>1, <2>2, Upwards
<1>5. Values(t, base)[Z + N] = Values(s, base)[N]
  BY <1>1, <1>4
<1>6. Value(t, base) = Values(t, base)[Z + N]
  BY <1>1, ValuesGrow
<1>7. Value(s, base) = Values(s, base)[N]
  BY ValuesGrow DEF N
<1> QED BY <1>5, <1>6, <1>7 DEF t

\* The digits of a word, after those of its quotient by the base.
LEMMA TempGrows ==
    ASSUME NEW base \in 2..16, NEW type, NEW num \in Words
    PROVE  Temp(num, base, type) =
             IF num < base THEN <<DigitsOf(type)[num + 1]>>
             ELSE Append(Temp(num \div base, base, type), DigitsOf(type)[(num % base) + 1])
<1> DEFINE it == CHOOSE temp : TempOf(temp, base, type)
<1>1. \E temp : TempOf(temp, base, type)
  BY TempExists
<1>2. TempOf(it, base, type)
  BY <1>1
<1>3. Temp(num, base, type) = it[num] /\ Temp(num \div base, base, type) = it[num \div base]
  BY DEF Temp, TempOf
<1> HIDE DEF it
<1> QED BY <1>2, <1>3 DEF TempOf

\* The digits of a word have its value, and there is at least one.
LEMMA TempRead ==
    ASSUME NEW base \in 2..16, NEW type, NEW num \in Words
    PROVE  Value(Temp(num, base, type), base) = num /\ Len(Temp(num, base, type)) \in Nat \ {0}
<1> DEFINE digits(n) == Temp(n, base, type)
           Good(n) == Value(digits(n), base) = n /\ Len(digits(n)) \in Nat \ {0}
           Bad == {n \in Words : ~Good(n)}
<1> SUFFICES ASSUME Bad # {} PROVE FALSE
  OBVIOUS
<1>1. Words \subseteq Nat /\ base \in Nat
  BY WordAssumption DEF Words
<1>2. PICK n \in Bad : \A k \in Bad : n <= k
  <2>1. Bad \subseteq Nat
    BY <1>1
  <2> HIDE DEF Bad
  <2> QED BY <2>1, LeastNumber
<1>3. n \in Words /\ n \in Nat /\ ~Good(n)
  BY <1>1, <1>2
<1>4. digits(n) = IF n < base THEN <<DigitsOf(type)[n + 1]>>
                  ELSE Append(digits(n \div base), DigitsOf(type)[(n % base) + 1])
  BY <1>3, TempGrows
<1>5. CASE n < base
  <2> DEFINE x == DigitsOf(type)[n + 1]
  <2>1. n + 1 \in 1..16
    BY <1>3, <1>5
  <2>2. x \in Digits /\ DigitValue(x) = n
    <3>1. x \in Digits /\ DigitValue(x) = (n + 1) - 1
      BY <2>1, DigitType, DigitRead
    <3> QED BY <1>3, <3>1
  <2>3. digits(n) = <<x>>
    BY <1>4, <1>5
  <2> HIDE DEF x, digits
  <2>4. digits(n) = Append(<<>>, x) /\ <<>> \in Seq(Digits) /\ Len(digits(n)) = 1
    BY <2>3
  <2>5. Value(digits(n), base) = Value(<<>>, base) * base + DigitValue(x)
    BY <1>1, <2>2, <2>4, ValueAppend
  <2>6. Value(digits(n), base) = n
    BY <1>1, <1>3, <2>2, <2>5, ValueOfNone
  <2> QED BY <1>3, <2>4, <2>6
<1>6. CASE ~(n < base)
  <2> DEFINE q == n \div base
             r == n % base
             x == DigitsOf(type)[r + 1]
  <2>1. q \in Nat /\ q < n /\ r \in 0..(base - 1) /\ n = base * q + r
    BY <1>3, <1>6, Quotient
  <2>2. digits(n) = Append(digits(q), x)
    BY <1>4, <1>6
  <2> HIDE DEF q, r
  <2>3. q \in Words
    BY <1>3, <2>1, WordAssumption DEF Words
  <2>4. r + 1 \in 1..16
    BY <2>1
  <2>5. x \in Digits /\ DigitValue(x) = r
    <3>1. x \in Digits /\ DigitValue(x) = (r + 1) - 1
      BY <2>4, DigitType, DigitRead
    <3> QED BY <2>1, <3>1
  <2>6. digits(q) \in Seq(Digits)
    BY <2>3, TempType
  <2> HIDE DEF x, digits
  <2>7. Good(q)
    BY <1>2, <1>3, <2>1, <2>3
  <2>8. Value(digits(n), base) = Value(digits(q), base) * base + DigitValue(x)
    BY <1>1, <2>2, <2>5, <2>6, ValueAppend
  <2>9. Value(digits(n), base) = n
    BY <1>1, <2>1, <2>5, <2>7, <2>8
  <2>10. Len(digits(n)) = Len(digits(q)) + 1
    BY <2>2, <2>5, <2>6, AppendProperties
  <2> QED BY <1>3, <2>7, <2>9, <2>10
<1> QED BY <1>5, <1>6

----------------------------------------------------------------------------
(* A text without its spaces.                                              *)

WithoutOf(rest, c, s) ==
    rest = [i \in 0..Len(s) |->
              IF i = 0 THEN <<>>
              ELSE IF s[i] = c THEN rest[i - 1] ELSE Append(rest[i - 1], s[i])]

\* The beginnings of s, without c.
Withouts(c, s) == CHOOSE rest : WithoutOf(rest, c, s)

LEMMA WithoutsGrow ==
    ASSUME NEW s \in Seq(Chars), NEW c
    PROVE  /\ Withouts(c, s)[0] = <<>>
           /\ \A i \in 1..Len(s) :
                 Withouts(c, s)[i] = IF s[i] = c THEN Withouts(c, s)[i - 1]
                                     ELSE Append(Withouts(c, s)[i - 1], s[i])
           /\ Without(c, s) = Withouts(c, s)[Len(s)]
           /\ \A i \in 0..Len(s) : Withouts(c, s)[i] \in Seq(Chars)
<1> DEFINE V == Seq(Chars)
           N == Len(s)
           G == [i \in 1..N |-> [v \in V |-> IF s[i] = c THEN v ELSE Append(v, s[i])]]
           it == Withouts(c, s)
<1>1. N \in Nat /\ \A i \in 1..N : s[i] \in Chars
  OBVIOUS
<1>0. <<>> \in V /\ \A v \in V : \A x \in Chars : Append(v, x) \in V
  OBVIOUS
<1>2. \E rest : WithoutOf(rest, c, s)
  <2>1. G \in [1..N -> [V -> V]]
    <3> HIDE DEF V, N
    <3> QED BY <1>0, <1>1
  <2>2. PICK f \in [0..N -> V] : Steps(f, N, <<>>, G)
    <3> HIDE DEF N, G, V
    <3> QED BY <1>0, <1>1, <2>1, StepsDefine
  <2> HIDE DEF V
  <2>3. \A i \in 1..N : f[i] = IF s[i] = c THEN f[i - 1] ELSE Append(f[i - 1], s[i])
    <3> TAKE i \in 1..N
    <3>1. i - 1 \in 0..N
      BY <1>1
    <3>2. f[i - 1] \in V
      BY <3>1
    <3>3. f[i] = G[i][f[i - 1]]
      BY <2>2 DEF Steps
    <3> QED BY <3>2, <3>3
  <2>4. f = [i \in 0..N |->
               IF i = 0 THEN <<>>
               ELSE IF s[i] = c THEN f[i - 1] ELSE Append(f[i - 1], s[i])]
    <3>1. f[0] = <<>> /\ \A i \in 0..N : i # 0 => i \in 1..N
      BY <1>1, <2>2 DEF Steps
    <3>2. \A i \in 0..N : f[i] = IF i = 0 THEN <<>>
                                 ELSE IF s[i] = c THEN f[i - 1] ELSE Append(f[i - 1], s[i])
      BY <2>3, <3>1
    <3> HIDE DEF N
    <3> QED BY <3>2
  <2> QED BY <2>4 DEF WithoutOf
<1>3. WithoutOf(it, c, s)
  BY <1>2 DEF Withouts
<1>4. Without(c, s) = it[N]
  BY DEF Without, Withouts, WithoutOf
<1> HIDE DEF it, V
<1>5. /\ it[0] = <<>>
      /\ \A i \in 1..N : it[i] = IF s[i] = c THEN it[i - 1] ELSE Append(it[i - 1], s[i])
  <2>1. 0 \in 0..N /\ \A i \in 1..N : i \in 0..N /\ i # 0
    BY <1>1
  <2>2. \A i \in 0..N : it[i] = IF i = 0 THEN <<>>
                                ELSE IF s[i] = c THEN it[i - 1] ELSE Append(it[i - 1], s[i])
    BY <1>3 DEF WithoutOf
  <2> HIDE DEF N
  <2> QED BY <2>1, <2>2
<1>6. \A i \in 0..N : it[i] \in V
  <2> DEFINE T == {i \in 0..N : it[i] \in V}
  <2>1. 0 \in T
    BY <1>0, <1>1, <1>5
  <2>2. ASSUME NEW i \in 1..N, i - 1 \in T PROVE i \in T
    BY <1>0, <1>1, <1>5, <2>2
  <2>3. \A i \in 0..N : i \in T
    <3> HIDE DEF T, N
    <3> QED BY <1>1, <2>1, <2>2, Upwards
  <2> QED BY <2>3
<1> QED BY <1>4, <1>5, <1>6 DEF it, V

LEMMA WithoutType ==
    ASSUME NEW s \in Seq(Chars), NEW c
    PROVE  Without(c, s) \in Seq(Chars)
<1>1. Len(s) \in 0..Len(s)
  OBVIOUS
<1> QED BY <1>1, WithoutsGrow

LEMMA WithoutsStep ==
    ASSUME NEW s \in Seq(Chars), NEW c, NEW i \in 1..Len(s)
    PROVE  Withouts(c, s)[i] = IF s[i] = c THEN Withouts(c, s)[i - 1]
                               ELSE Append(Withouts(c, s)[i - 1], s[i])
BY WithoutsGrow

LEMMA AppendConcat ==
    ASSUME NEW v \in Seq(Chars), NEW w \in Seq(Chars), NEW x \in Chars
    PROVE  Append(v \o w, x) = v \o Append(w, x)
<1>1. /\ Append(w, x) = w \o <<x>> /\ <<x>> \in Seq(Chars) /\ v \o w \in Seq(Chars)
      /\ Append(v \o w, x) = (v \o w) \o <<x>>
  BY AppendIsConcat, ConcatProperties
<1> QED BY <1>1, ConcatAssociative

\* Taking a character out of two texts takes it out of both.
LEMMA WithoutConcat ==
    ASSUME NEW s \in Seq(Chars), NEW u \in Seq(Chars), NEW c
    PROVE  Without(c, s \o u) = Without(c, s) \o Without(c, u)
<1> DEFINE t == s \o u
           M == Len(s)
           N == Len(u)
           T == {i \in 0..M : Withouts(c, t)[i] = Withouts(c, s)[i]}
           W == Without(c, s)
           U == {i \in 0..N : Withouts(c, t)[M + i] = W \o Withouts(c, u)[i]}
<1>1. /\ M \in Nat /\ N \in Nat
      /\ t \in Seq(Chars) /\ Len(t) = M + N
      /\ \A i \in 1..M : t[i] = s[i]
      /\ \A i \in 1..N : t[M + i] = u[i]
  <2>1. M \in Nat /\ N \in Nat
    OBVIOUS
  <2>2. /\ t \in Seq(Chars) /\ Len(t) = M + N
        /\ \A i \in 1..(M + N) : t[i] = IF i <= M THEN s[i] ELSE u[i - M]
    BY ConcatProperties
  <2> HIDE DEF t
  <2>4. \A i \in 1..M : t[i] = s[i]
    BY <2>1, <2>2
  <2>5. ASSUME NEW i \in 1..N PROVE t[M + i] = u[i]
    <3>1. M + i \in 1..(M + N) /\ ~(M + i <= M) /\ (M + i) - M = i
      BY <2>1
    <3> QED BY <2>2, <3>1
  <2> QED BY <2>1, <2>2, <2>4, <2>5
<1>2. W \in Seq(Chars)
  BY WithoutType
<1> HIDE DEF t, M, N, W
<1>3. \A i \in 0..M : i \in T
  <2>1. 0 \in T
    BY <1>1, WithoutsGrow
  <2>2. ASSUME NEW i \in 1..M, i - 1 \in T PROVE i \in T
    <3>1. i \in 1..Len(t) /\ i \in 1..Len(s) /\ t[i] = s[i]
      BY <1>1 DEF M
    <3>2. Withouts(c, t)[i] = IF t[i] = c THEN Withouts(c, t)[i - 1]
                              ELSE Append(Withouts(c, t)[i - 1], t[i])
      BY <1>1, <3>1, WithoutsGrow
    <3>3. Withouts(c, s)[i] = IF s[i] = c THEN Withouts(c, s)[i - 1]
                              ELSE Append(Withouts(c, s)[i - 1], s[i])
      BY <3>1, WithoutsGrow
    <3> QED BY <2>2, <3>1, <3>2, <3>3
  <2> HIDE DEF T
  <2> QED BY <1>1, <2>1, <2>2, Upwards
<1>4. Withouts(c, t)[M] = W
  <2>1. M \in 0..M
    BY <1>1
  <2>2. W = Withouts(c, s)[M]
    BY WithoutsGrow DEF W, M
  <2> QED BY <1>3, <2>1, <2>2
<1>5. \A i \in 0..N : i \in U
  <2>1. 0 \in U
    <3>1. M + 0 = M /\ 0 \in 0..N
      BY <1>1
    <3>2. Withouts(c, u)[0] = <<>>
      BY WithoutsGrow
    <3>3. W \o <<>> = W
      BY <1>2, ConcatEmptySeq
    <3> QED BY <1>4, <3>1, <3>2, <3>3
  <2>2. ASSUME NEW i \in 1..N, i - 1 \in U PROVE i \in U
    <3>1. M + i \in 1..Len(t) /\ (M + i) - 1 = M + (i - 1) /\ t[M + i] = u[i] /\ i \in 1..Len(u)
            /\ i - 1 \in 0..Len(u)
      BY <1>1 DEF N
    <3> DEFINE old == Withouts(c, u)[i - 1]
    <3>2. Withouts(c, t)[M + i] = IF u[i] = c THEN Withouts(c, t)[M + (i - 1)]
                                  ELSE Append(Withouts(c, t)[M + (i - 1)], u[i])
      <4>1. PICK k \in 1..Len(t) : k = M + i
        BY <3>1
      <4>2. Withouts(c, t)[k] = IF t[k] = c THEN Withouts(c, t)[k - 1]
                                ELSE Append(Withouts(c, t)[k - 1], t[k])
        BY <1>1, WithoutsStep
      <4>3. k - 1 = M + (i - 1) /\ t[k] = u[i]
        BY <3>1, <4>1
      <4> QED BY <4>1, <4>2, <4>3
    <3>3. Withouts(c, u)[i] = IF u[i] = c THEN old ELSE Append(old, u[i])
      BY <3>1, WithoutsGrow
    <3>4. Withouts(c, t)[M + (i - 1)] = W \o old
      BY <2>2
    <3>5. old \in Seq(Chars) /\ u[i] \in Chars
      BY <3>1, WithoutsGrow
    <3> HIDE DEF old
    <3>6. Append(W \o old, u[i]) = W \o Append(old, u[i])
      <4>1. PICK x \in Chars : x = u[i]
        BY <3>5
      <4>2. Append(W \o old, x) = W \o Append(old, x)
        BY <1>2, <3>5, AppendConcat
      <4> QED BY <4>1, <4>2
    <3>7. Withouts(c, t)[M + i] = W \o Withouts(c, u)[i]
      BY <3>2, <3>3, <3>4, <3>6
    <3> QED BY <1>1, <3>7
  <2> HIDE DEF U
  <2> QED BY <1>1, <2>1, <2>2, Upwards
<1>6. Withouts(c, t)[M + N] = W \o Withouts(c, u)[N]
  <2>1. N \in 0..N
    BY <1>1
  <2> QED BY <1>5, <2>1
<1>7. Without(c, t) = Withouts(c, t)[M + N]
  BY <1>1, WithoutsGrow
<1>8. Without(c, u) = Withouts(c, u)[N]
  BY WithoutsGrow DEF N
<1> QED BY <1>6, <1>7, <1>8 DEF t, W

\* Where it does not stand, nothing is taken out.
LEMMA WithoutNone ==
    ASSUME NEW s \in Seq(Chars), NEW c, \A i \in 1..Len(s) : s[i] # c
    PROVE  Without(c, s) = s
<1> DEFINE N == Len(s)
           W == Withouts(c, s)
           T == {i \in 0..N : Len(W[i]) = i /\ \A k \in 1..i : W[i][k] = s[k]}
<1>1. N \in Nat /\ \A i \in 1..N : s[i] \in Chars
  OBVIOUS
<1>2. /\ W[0] = <<>> /\ Without(c, s) = W[N]
      /\ \A i \in 1..N : W[i] = Append(W[i - 1], s[i])
      /\ \A i \in 0..N : W[i] \in Seq(Chars)
  <2>1. \A i \in 1..N : W[i] = IF s[i] = c THEN W[i - 1] ELSE Append(W[i - 1], s[i])
    BY WithoutsGrow
  <2>2. W[0] = <<>> /\ Without(c, s) = W[N] /\ \A i \in 0..N : W[i] \in Seq(Chars)
    BY WithoutsGrow
  <2> HIDE DEF W
  <2> QED BY <2>1, <2>2
<1> HIDE DEF W, N
<1>3. 0 \in T
  BY <1>1, <1>2
<1>4. ASSUME NEW i \in 1..N, i - 1 \in T PROVE i \in T
  <2>1. W[i - 1] \in Seq(Chars) /\ Len(W[i - 1]) = i - 1 /\ \A k \in 1..(i - 1) : W[i - 1][k] = s[k]
    BY <1>1, <1>2, <1>4
  <2>2. W[i] = Append(W[i - 1], s[i]) /\ s[i] \in Chars
    BY <1>1, <1>2
  <2>3. /\ Len(W[i]) = (i - 1) + 1
        /\ \A k \in 1..(i - 1) : W[i][k] = W[i - 1][k]
        /\ W[i][(i - 1) + 1] = s[i]
    BY <2>1, <2>2, AppendProperties
  <2> QED BY <1>1, <2>1, <2>3
<1>5. \A i \in 0..N : i \in T
  <2> HIDE DEF T
  <2> QED BY <1>1, <1>3, <1>4, Upwards
<1>6. N \in 0..N /\ W[N] \in Seq(Chars) /\ Len(W[N]) = N /\ \A k \in 1..N : W[N][k] = s[k]
  BY <1>1, <1>2, <1>5
<1> QED BY <1>2, <1>6, SeqEqual DEF N

\* Of a text of nothing else, nothing is left.
LEMMA WithoutAll ==
    ASSUME NEW s \in Seq(Chars), NEW c, \A i \in 1..Len(s) : s[i] = c
    PROVE  Without(c, s) = <<>>
<1> DEFINE N == Len(s)
           T == {i \in 0..N : Withouts(c, s)[i] = <<>>}
<1>1. N \in Nat
  OBVIOUS
<1>2. 0 \in T
  BY <1>1, WithoutsGrow
<1>3. ASSUME NEW i \in 1..N, i - 1 \in T PROVE i \in T
  BY <1>3, WithoutsGrow
<1>4. \A i \in 0..N : i \in T
  <2> HIDE DEF T, N
  <2> QED BY <1>1, <1>2, <1>3, Upwards
<1>5. Withouts(c, s)[N] = <<>>
  BY <1>1, <1>4
<1> QED BY <1>5, WithoutsGrow

----------------------------------------------------------------------------
(* Reading a numeral.                                                      *)

\* What may stand before the digits of a numeral, as sign and as prefix.
SignTexts == {<<>>, <<Space>>, <<"+">>, <<"-">>}
PrefixTexts == {<<>>, <<"0">>, <<"0", "x">>, <<"0", "X">>}

\* The parts of a numeral: padding, sign, prefix, zeros, more zeros or spaces, digits,
\* padding.
Parts(a, b, c, d, e, digits, f) ==
    /\ a \in Seq({Space}) /\ f \in Seq({Space})
    /\ b \in SignTexts /\ c \in PrefixTexts
    /\ d \in Seq({"0"}) /\ (e \in Seq({"0"}) \/ e \in Seq({Space}))
    /\ digits \in Seq(Digits) /\ Len(digits) \in Nat \ {0}

Joined(a, b, c, d, e, digits, f) == a \o b \o c \o d \o e \o digits \o f

\* The sign, prefix and digits of a numeral, with zeros z between.
Compacted(b, c, z, digits) == (IF b = <<Space>> THEN <<>> ELSE b) \o (c \o (z \o digits))

LEMMA CharsHold ==
    /\ Digits \subseteq Chars /\ {Space, "0", "x", "X", "+", "-"} \subseteq Chars
BY DigitsOnly DEF Chars, Signs

LEMMA SignTextsHold ==
    SignTexts \subseteq Seq(Chars) /\ PrefixTexts \subseteq Seq(Chars)
<1>1. <<>> \in Seq(Chars) /\ \A x \in Chars : <<x>> \in Seq(Chars)
  OBVIOUS
<1>2. \A x, y \in Chars : <<x, y>> \in Seq(Chars)
  OBVIOUS
<1>3. SignTexts \subseteq Seq(Chars)
  BY <1>1, CharsHold DEF SignTexts
<1>4. PrefixTexts \subseteq Seq(Chars)
  BY <1>1, <1>2, CharsHold DEF PrefixTexts
<1> QED BY <1>3, <1>4

LEMMA PartsType ==
    ASSUME NEW a, NEW b, NEW c, NEW d, NEW e, NEW digits, NEW f,
           Parts(a, b, c, d, e, digits, f)
    PROVE  {a, b, c, d, e, digits, f} \subseteq Seq(Chars)
<1>1. a \in Seq(Chars) /\ d \in Seq(Chars) /\ digits \in Seq(Chars) /\ f \in Seq(Chars)
  BY CharsHold DEF Parts
<1>2. e \in Seq(Chars)
  BY CharsHold DEF Parts
<1>3. b \in Seq(Chars)
  BY SignTextsHold DEF Parts
<1>4. c \in Seq(Chars)
  BY SignTextsHold DEF Parts
<1> QED BY <1>1, <1>2, <1>3, <1>4

\* Of spaces nothing is left, and zeros and digits stay.
LEMMA LeftOver ==
    /\ \A s \in Seq({Space}) : Without(Space, s) = <<>>
    /\ \A s \in Seq(Digits) : Without(Space, s) = s
    /\ \A s \in PrefixTexts : Without(Space, s) = s
    /\ \A s \in SignTexts : Without(Space, s) = IF s = <<Space>> THEN <<>> ELSE s
<1>1. ASSUME NEW s \in Seq({Space}) PROVE Without(Space, s) = <<>>
  <2>1. s \in Seq(Chars)
    BY CharsHold
  <2>2. \A i \in 1..Len(s) : s[i] = Space
    OBVIOUS
  <2> QED BY <2>1, <2>2, WithoutAll
<1>2. ASSUME NEW s \in Seq(Digits) PROVE Without(Space, s) = s
  <2>1. s \in Seq(Chars)
    BY CharsHold
  <2>2. \A i \in 1..Len(s) : s[i] # Space
    <3>1. \A i \in 1..Len(s) : s[i] \in Digits
      OBVIOUS
    <3> QED BY <3>1, DigitsOnly
  <2> QED BY <2>1, <2>2, WithoutNone
<1>3. ASSUME NEW s \in PrefixTexts PROVE Without(Space, s) = s
  <2>1. s \in Seq(Chars)
    BY SignTextsHold
  <2>2. \A i \in 1..Len(s) : s[i] # Space
    <3>1. \A i \in 1..Len(s) : s[i] \in {"0", "x", "X"}
      BY DEF PrefixTexts
    <3> QED BY <3>1, DigitsOnly
  <2> QED BY <2>1, <2>2, WithoutNone
<1>4. ASSUME NEW s \in SignTexts
      PROVE  Without(Space, s) = IF s = <<Space>> THEN <<>> ELSE s
  <2>1. CASE s = <<Space>>
    <3>1. s \in Seq({Space})
      BY <2>1
    <3> QED BY <1>1, <2>1, <3>1
  <2>2. CASE s # <<Space>>
    <3>1. s \in Seq(Chars)
      BY SignTextsHold
    <3>2. \A i \in 1..Len(s) : s[i] # Space
      <4>1. \A i \in 1..Len(s) : s[i] \in {"+", "-"}
        BY <2>2 DEF SignTexts
      <4> QED BY <4>1, DigitsOnly
    <3>3. Without(Space, s) = s
      BY <3>1, <3>2, WithoutNone
    <3> QED BY <2>2, <3>3
  <2> QED BY <2>1, <2>2
<1> QED BY <1>1, <1>2, <1>3, <1>4

\* Texts and their concatenation, by names of their own: the prover then takes the
\* laws for what they say and does not look into the sequences.
Texts == Seq(Chars)
Cat(s, t) == s \o t
Spaceless(s) == Without(Space, s)

LEMMA CatLaws ==
    /\ <<>> \in Texts
    /\ \A s \in Texts : Cat(<<>>, s) = s /\ Cat(s, <<>>) = s /\ Spaceless(s) \in Texts
    /\ \A s, t \in Texts : Cat(s, t) \in Texts
    /\ \A s, t \in Texts : Spaceless(Cat(s, t)) = Cat(Spaceless(s), Spaceless(t))
    /\ \A s, t, u \in Texts : Cat(Cat(s, t), u) = Cat(s, Cat(t, u))
<1>1. <<>> \in Texts
  BY EmptySeq DEF Texts
<1>2. ASSUME NEW s \in Texts
      PROVE  Cat(<<>>, s) = s /\ Cat(s, <<>>) = s /\ Spaceless(s) \in Texts
  BY ConcatEmptySeq, WithoutType DEF Texts, Cat, Spaceless
<1>3. ASSUME NEW s \in Texts, NEW t \in Texts PROVE Cat(s, t) \in Texts
  BY ConcatProperties DEF Texts, Cat
<1>4. ASSUME NEW s \in Texts, NEW t \in Texts
      PROVE  Spaceless(Cat(s, t)) = Cat(Spaceless(s), Spaceless(t))
  BY WithoutConcat DEF Texts, Cat, Spaceless
<1>5. ASSUME NEW s \in Texts, NEW t \in Texts, NEW u \in Texts
      PROVE  Cat(Cat(s, t), u) = Cat(s, Cat(t, u))
  BY ConcatAssociative DEF Texts, Cat
<1> QED BY <1>1, <1>2, <1>3, <1>4, <1>5

\* Without its spaces a numeral is a sign, a prefix, zeros and its digits.
LEMMA Compact ==
    ASSUME NEW a, NEW b, NEW c, NEW d, NEW e, NEW digits, NEW f,
           Parts(a, b, c, d, e, digits, f)
    PROVE  \E z \in Seq({"0"}) :
              Without(Space, Joined(a, b, c, d, e, digits, f)) = Compacted(b, c, z, digits)
<1>1. {a, b, c, d, e, digits, f} \subseteq Texts
  BY PartsType DEF Texts
<1>2. /\ Spaceless(a) = <<>> /\ Spaceless(f) = <<>> /\ Spaceless(c) = c
      /\ Spaceless(digits) = digits
      /\ Spaceless(b) = IF b = <<Space>> THEN <<>> ELSE b
  BY LeftOver DEF Parts, Spaceless
<1>3. \A s \in Seq({"0"}) : s \in Seq(Digits) /\ Spaceless(s) = s
  <2>1. \A s \in Seq({"0"}) : s \in Seq(Digits)
    BY DigitsOnly
  <2> QED BY <2>1, LeftOver DEF Spaceless
<1>4. PICK z \in Seq({"0"}) : Cat(Spaceless(d), Spaceless(e)) = z
  <2>1. CASE e \in Seq({"0"})
    <3>1. Cat(d, e) \in Seq({"0"})
      BY <2>1, ConcatProperties DEF Parts, Cat
    <3> QED BY <1>3, <2>1, <3>1 DEF Parts
  <2>2. CASE e \in Seq({Space})
    <3>1. Spaceless(e) = <<>>
      BY <2>2, LeftOver DEF Spaceless
    <3>2. Cat(d, <<>>) = d /\ d \in Seq({"0"})
      BY <1>1, CatLaws DEF Parts
    <3> QED BY <1>3, <3>1, <3>2
  <2> QED BY <2>1, <2>2 DEF Parts
<1>5. Joined(a, b, c, d, e, digits, f) =
        Cat(Cat(Cat(Cat(Cat(Cat(a, b), c), d), e), digits), f)
  BY DEF Joined, Cat
<1>6. Spaceless(Joined(a, b, c, d, e, digits, f)) =
        Cat(Cat(Cat(Cat(Cat(Cat(<<>>, Spaceless(b)), c), Spaceless(d)), Spaceless(e)), digits), <<>>)
  <2>1. Cat(a, b) \in Texts /\ Cat(Cat(a, b), c) \in Texts /\ Cat(Cat(Cat(a, b), c), d) \in Texts
          /\ Cat(Cat(Cat(Cat(a, b), c), d), e) \in Texts
          /\ Cat(Cat(Cat(Cat(Cat(a, b), c), d), e), digits) \in Texts
    BY <1>1, CatLaws
  <2>2. Spaceless(Cat(a, b)) = Cat(<<>>, Spaceless(b))
    <3>1. a \in Texts /\ b \in Texts /\ Spaceless(a) = <<>>
      BY <1>1, <1>2
    <3>2. Spaceless(Cat(a, b)) = Cat(Spaceless(a), Spaceless(b))
      BY <3>1, CatLaws
    <3> QED BY <3>1, <3>2
  <2>3. Spaceless(Cat(Cat(a, b), c)) = Cat(Cat(<<>>, Spaceless(b)), c)
    BY <1>1, <1>2, <2>1, <2>2, CatLaws
  <2>4. Spaceless(Cat(Cat(Cat(a, b), c), d)) = Cat(Cat(Cat(<<>>, Spaceless(b)), c), Spaceless(d))
    BY <1>1, <2>1, <2>3, CatLaws
  <2>5. Spaceless(Cat(Cat(Cat(Cat(a, b), c), d), e)) =
          Cat(Cat(Cat(Cat(<<>>, Spaceless(b)), c), Spaceless(d)), Spaceless(e))
    BY <1>1, <2>1, <2>4, CatLaws
  <2>6. Spaceless(Cat(Cat(Cat(Cat(Cat(a, b), c), d), e), digits)) =
          Cat(Cat(Cat(Cat(Cat(<<>>, Spaceless(b)), c), Spaceless(d)), Spaceless(e)), digits)
    BY <1>1, <1>2, <2>1, <2>5, CatLaws
  <2> QED BY <1>1, <1>2, <1>5, <2>1, <2>6, CatLaws
<1>7. Spaceless(Joined(a, b, c, d, e, digits, f)) = Cat(Spaceless(b), Cat(c, Cat(z, digits)))
  <2>1. /\ Spaceless(b) \in Texts /\ Spaceless(d) \in Texts /\ Spaceless(e) \in Texts
        /\ Cat(Spaceless(b), c) \in Texts /\ Cat(Spaceless(d), Spaceless(e)) \in Texts
        /\ c \in Texts /\ digits \in Texts
    BY <1>1, CatLaws
  <2> DEFINE sc == Cat(Spaceless(b), c)
  <2>2. Cat(Cat(<<>>, Spaceless(b)), c) = sc
    BY <2>1, CatLaws
  <2>3. Cat(Cat(sc, Spaceless(d)), Spaceless(e)) = Cat(sc, z) /\ z \in Texts
    BY <1>4, <2>1, CatLaws
  <2>4. Cat(Cat(sc, z), digits) = Cat(sc, Cat(z, digits))
    BY <2>1, <2>3, CatLaws
  <2>5. Cat(sc, Cat(z, digits)) \in Texts
    BY <2>1, <2>3, CatLaws
  <2>6. Cat(sc, Cat(z, digits)) = Cat(Spaceless(b), Cat(c, Cat(z, digits)))
    BY <2>1, <2>3, CatLaws
  <2> QED BY <1>6, <2>2, <2>3, <2>4, <2>5, <2>6, CatLaws
<1> QED BY <1>2, <1>7 DEF Spaceless, Compacted, Cat

\* Whatever its prefix, a numeral has the value of the digits behind it.
LEMMA ReadPrefix ==
    ASSUME NEW c \in PrefixTexts, NEW r \in Seq(Digits), Len(r) \in Nat \ {0},
           NEW base \in Nat
    PROVE  /\ c \o r \in Seq(Chars) /\ Len(c \o r) \in Nat \ {0}
           /\ (c \o r)[1] \in Digits
           /\ Value(AfterPrefix(c \o r), base) = Value(r, base)
<1>1. r \in Seq(Chars) /\ c \in Seq(Chars) /\ \A i \in 1..Len(r) : r[i] \in Digits
  BY CharsHold, SignTextsHold
<1>2. /\ c \o r \in Seq(Chars) /\ Len(c \o r) = Len(c) + Len(r)
      /\ \A i \in 1..(Len(c) + Len(r)) : (c \o r)[i] = IF i <= Len(c) THEN c[i] ELSE r[i - Len(c)]
  BY <1>1, ConcatProperties
<1>3. CASE c = <<>>
  <2>1. c \o r = r
    BY <1>1, <1>3, ConcatEmptySeq
  <2>2. Len(r) > 1 => r[2] \notin {"x", "X"}
    <3>1. Len(r) > 1 => r[2] \in Digits
      BY <1>1
    <3> QED BY <3>1, DigitsOnly
  <2>3. AfterPrefix(r) = r
    BY <2>2 DEF AfterPrefix
  <2> QED BY <1>1, <2>1, <2>3
<1>4. CASE c = <<"0">>
  <2>1. c \in Seq({"0"}) /\ Len(c) = 1 /\ c[1] = "0"
    BY <1>4
  <2>2. (c \o r)[1] = "0" /\ (c \o r)[2] = r[1] /\ Len(c \o r) = 1 + Len(r) /\ r[1] \in Digits
    BY <1>1, <1>2, <2>1
  <2>3. AfterPrefix(c \o r) = c \o r
    BY <2>2, DigitsOnly DEF AfterPrefix
  <2>4. Value(c \o r, base) = Value(r, base)
    BY <2>1, ValueZeros
  <2> QED BY <1>2, <2>2, <2>3, <2>4, DigitsOnly
<1>5. CASE c = <<"0", "x">> \/ c = <<"0", "X">>
  <2>1. Len(c) = 2 /\ c[1] = "0" /\ c[2] \in {"x", "X"}
    BY <1>5
  <2> DEFINE t == c \o r
  <2>2. /\ t \in Seq(Chars) /\ Len(t) = 2 + Len(r) /\ t[1] = "0" /\ t[2] \in {"x", "X"}
        /\ \A i \in 1..Len(r) : t[2 + i] = r[i]
    <3>1. t \in Seq(Chars) /\ Len(t) = 2 + Len(r) /\ t[1] = "0" /\ t[2] \in {"x", "X"}
      BY <1>2, <2>1
    <3>2. ASSUME NEW i \in 1..Len(r) PROVE t[2 + i] = r[i]
      <4>1. 2 + i \in 1..(Len(c) + Len(r)) /\ ~(2 + i <= Len(c)) /\ (2 + i) - Len(c) = i
        BY <2>1
      <4> QED BY <1>2, <4>1
    <3> QED BY <3>1, <3>2
  <2> HIDE DEF t
  <2>3. /\ Tail(t) \in Seq(Chars) /\ Len(Tail(t)) = 1 + Len(r)
        /\ \A i \in 1..(1 + Len(r)) : Tail(t)[i] = t[i + 1]
    BY <2>2
  <2>4. /\ Tail(Tail(t)) \in Seq(Chars) /\ Len(Tail(Tail(t))) = Len(r)
        /\ \A i \in 1..Len(r) : Tail(Tail(t))[i] = t[2 + i]
    <3>1. /\ Tail(Tail(t)) \in Seq(Chars) /\ Len(Tail(Tail(t))) = Len(r)
          /\ \A i \in 1..Len(r) : Tail(Tail(t))[i] = Tail(t)[i + 1]
      BY <2>3
    <3>2. \A i \in 1..Len(r) : Tail(t)[i + 1] = t[2 + i]
      BY <2>3
    <3> QED BY <3>1, <3>2
  <2>5. Tail(Tail(t)) = r
    <3>1. \A i \in 1..Len(r) : Tail(Tail(t))[i] = r[i]
      BY <2>2, <2>4
    <3> QED BY <1>1, <2>4, <3>1, SeqEqual
  <2>6. AfterPrefix(t) = r
    BY <2>2, <2>5 DEF AfterPrefix
  <2> QED BY <2>2, <2>6, DigitsOnly DEF t
<1> QED BY <1>3, <1>4, <1>5 DEF PrefixTexts

\* A sign is read off what follows it.
LEMMA ReadSign ==
    ASSUME NEW b \in {<<>>, <<"+">>, <<"-">>}, NEW u \in Seq(Chars), Len(u) \in Nat \ {0},
           u[1] \in Digits
    PROVE  AfterSign(b \o u) = u /\ ((b \o u)[1] = "-" <=> b = <<"-">>)
<1>1. b \in Seq(Chars)
  BY SignTextsHold DEF SignTexts
<1>2. CASE b = <<>>
  <2>1. b \o u = u /\ u[1] \notin {"+", "-"}
    BY <1>2, ConcatEmptySeq, DigitsOnly
  <2> QED BY <1>2, <2>1 DEF AfterSign
<1>3. CASE b # <<>>
  <2>1. Len(b) = 1 /\ b[1] \in {"+", "-"} /\ b = <<b[1]>>
    BY <1>3
  <2> DEFINE t == b \o u
  <2>2. /\ t \in Seq(Chars) /\ Len(t) = 1 + Len(u) /\ t[1] = b[1]
        /\ \A i \in 1..Len(u) : t[i + 1] = u[i]
    <3>1. /\ t \in Seq(Chars) /\ Len(t) = Len(b) + Len(u)
          /\ \A i \in 1..(Len(b) + Len(u)) : t[i] = IF i <= Len(b) THEN b[i] ELSE u[i - Len(b)]
      BY <1>1, ConcatProperties
    <3> HIDE DEF t
    <3>2. t[1] = b[1] /\ Len(t) = 1 + Len(u)
      BY <2>1, <3>1
    <3>3. ASSUME NEW i \in 1..Len(u) PROVE t[i + 1] = u[i]
      <4>1. i + 1 \in 1..(Len(b) + Len(u)) /\ ~(i + 1 <= Len(b)) /\ (i + 1) - Len(b) = i
        BY <2>1
      <4> QED BY <3>1, <4>1
    <3> QED BY <3>1, <3>2, <3>3
  <2> HIDE DEF t
  <2>3. Tail(t) \in Seq(Chars) /\ Len(Tail(t)) = Len(u) /\ \A i \in 1..Len(u) : Tail(t)[i] = t[i + 1]
    BY <2>2
  <2>4. Tail(t) = u
    BY <2>2, <2>3, SeqEqual
  <2>5. AfterSign(t) = u
    BY <2>1, <2>2, <2>4 DEF AfterSign
  <2>6. t[1] = "-" <=> b = <<"-">>
    BY <2>1, <2>2
  <2> QED BY <2>5, <2>6 DEF t
<1> QED BY <1>2, <1>3

\* A numeral shows the value of its digits, negative behind a minus.
LEMMA PartsShown ==
    ASSUME NEW a, NEW b, NEW c, NEW d, NEW e, NEW digits, NEW f,
           Parts(a, b, c, d, e, digits, f), NEW base \in Nat
    PROVE  Shown(Joined(a, b, c, d, e, digits, f), base) =
             IF b = <<"-">> THEN -Value(digits, base) ELSE Value(digits, base)
<1> DEFINE text == Joined(a, b, c, d, e, digits, f)
           g == IF b = <<Space>> THEN <<>> ELSE b
<1>1. PICK z \in Seq({"0"}) : Without(Space, text) = Compacted(b, c, z, digits)
  BY Compact
<1> HIDE DEF text
<1>2. g \in {<<>>, <<"+">>, <<"-">>} /\ (g = <<"-">> <=> b = <<"-">>)
  <2>1. <<Space>> # <<"-">>
    BY DigitsOnly
  <2> QED BY <2>1 DEF Parts, SignTexts
<1> DEFINE r == z \o digits
<1>3. /\ r \in Seq(Digits) /\ Len(r) \in Nat \ {0} /\ c \in PrefixTexts
      /\ Value(r, base) = Value(digits, base)
  <2>1. z \in Seq(Digits) /\ digits \in Seq(Digits) /\ Len(digits) \in Nat \ {0}
    BY DigitsOnly DEF Parts
  <2>2. r \in Seq(Digits) /\ Len(r) = Len(z) + Len(digits) /\ Len(z) \in Nat
    BY <2>1, ConcatProperties
  <2>3. Value(r, base) = Value(digits, base)
    BY <2>1, ValueZeros
  <2> QED BY <2>1, <2>2, <2>3 DEF Parts
<1> HIDE DEF r, g
<1> DEFINE u == c \o r
<1>4. /\ u \in Seq(Chars) /\ Len(u) \in Nat \ {0} /\ u[1] \in Digits
      /\ Value(AfterPrefix(u), base) = Value(r, base)
  BY <1>3, ReadPrefix
<1> HIDE DEF u
<1>5. AfterSign(g \o u) = u /\ ((g \o u)[1] = "-" <=> g = <<"-">>)
  BY <1>2, <1>4, ReadSign
<1>6. Without(Space, text) = g \o u
  BY <1>1 DEF u, r, g, Compacted
<1>7. Shown(text, base) = IF g = <<"-">> THEN -Value(r, base) ELSE Value(r, base)
  BY <1>4, <1>5, <1>6 DEF Shown
<1> QED BY <1>2, <1>3, <1>7 DEF text

\* A word has as many digits in small letters as in capitals, and no other property
\* of the type matters.
LEMMA TempLength ==
    ASSUME NEW base \in 2..16, NEW t, NEW u, NEW num \in Words
    PROVE  /\ Len(Temp(num, base, t)) = Len(Temp(num, base, u))
           /\ DigitsOf(t) = DigitsOf(u) => Temp(num, base, t) = Temp(num, base, u)
<1> DEFINE Good(n) == /\ Len(Temp(n, base, t)) = Len(Temp(n, base, u))
                      /\ DigitsOf(t) = DigitsOf(u) => Temp(n, base, t) = Temp(n, base, u)
           Bad == {n \in Words : ~Good(n)}
<1> SUFFICES ASSUME Bad # {} PROVE FALSE
  OBVIOUS
<1>1. Words \subseteq Nat
  BY WordAssumption DEF Words
<1>2. PICK n \in Bad : \A k \in Bad : n <= k
  <2>1. Bad \subseteq Nat
    BY <1>1
  <2> HIDE DEF Bad
  <2> QED BY <2>1, LeastNumber
<1>3. n \in Words /\ n \in Nat /\ ~Good(n)
  BY <1>1, <1>2
<1>4. CASE n < base
  <2>1. Temp(n, base, t) = <<DigitsOf(t)[n + 1]>> /\ Temp(n, base, u) = <<DigitsOf(u)[n + 1]>>
    BY <1>3, <1>4, TempGrows
  <2> QED BY <1>3, <2>1
<1>5. CASE ~(n < base)
  <2> DEFINE q == n \div base
             x == DigitsOf(t)[(n % base) + 1]
             y == DigitsOf(u)[(n % base) + 1]
  <2>1. q \in Nat /\ q < n
    BY <1>3, <1>5, Quotient
  <2>2. Temp(n, base, t) = Append(Temp(q, base, t), x) /\ Temp(n, base, u) = Append(Temp(q, base, u), y)
    BY <1>3, <1>5, TempGrows
  <2>8. DigitsOf(t) = DigitsOf(u) => x = y
    OBVIOUS
  <2> HIDE DEF q, x, y
  <2>3. q \in Words
    BY <1>3, <2>1, WordAssumption DEF Words
  <2>4. Good(q)
    BY <1>2, <1>3, <2>1, <2>3
  <2>5. Temp(q, base, t) \in Seq(Digits) /\ Temp(q, base, u) \in Seq(Digits)
    BY <2>3, TempType
  <2>6. Len(Temp(n, base, t)) = Len(Temp(q, base, t)) + 1
    BY <2>2, <2>5
  <2>7. Len(Temp(n, base, u)) = Len(Temp(q, base, u)) + 1
    BY <2>2, <2>5
  <2> QED BY <1>3, <2>2, <2>4, <2>6, <2>7, <2>8
<1> QED BY <1>4, <1>5

LEMMA JoinedLength ==
    ASSUME NEW a, NEW b, NEW c, NEW d, NEW e, NEW digits, NEW f,
           Parts(a, b, c, d, e, digits, f)
    PROVE  /\ Joined(a, b, c, d, e, digits, f) \in Seq(Chars)
           /\ Len(Joined(a, b, c, d, e, digits, f)) =
                 Len(a) + Len(b) + Len(c) + Len(d) + Len(e) + Len(digits) + Len(f)
           /\ Len(f) = 0 =>
                 Joined(a, b, c, d, e, digits, f)[Len(Joined(a, b, c, d, e, digits, f))] \in Digits
<1>1. /\ a \in Seq(Chars) /\ b \in Seq(Chars) /\ c \in Seq(Chars) /\ d \in Seq(Chars)
      /\ e \in Seq(Chars) /\ digits \in Seq(Chars) /\ f \in Seq(Chars)
  BY PartsType
<1>2. \A s, t \in Seq(Chars) : s \o t \in Seq(Chars) /\ Len(s \o t) = Len(s) + Len(t)
  BY ConcatProperties
<1>3. PICK before \in Seq(Chars) : /\ before = a \o b \o c \o d \o e
                                   /\ Len(before) = Len(a) + Len(b) + Len(c) + Len(d) + Len(e)
  <2>1. a \o b \in Seq(Chars) /\ Len(a \o b) = Len(a) + Len(b)
    BY <1>1, <1>2
  <2>2. a \o b \o c \in Seq(Chars) /\ Len(a \o b \o c) = Len(a) + Len(b) + Len(c)
    BY <1>1, <1>2, <2>1
  <2>3. /\ a \o b \o c \o d \in Seq(Chars)
        /\ Len(a \o b \o c \o d) = Len(a) + Len(b) + Len(c) + Len(d)
    BY <1>1, <1>2, <2>2
  <2>4. /\ a \o b \o c \o d \o e \in Seq(Chars)
        /\ Len(a \o b \o c \o d \o e) = Len(a) + Len(b) + Len(c) + Len(d) + Len(e)
    BY <1>1, <1>2, <2>3
  <2> QED BY <2>4
<1> DEFINE t == before \o digits
<1>4. t \in Seq(Chars) /\ Len(t) = Len(before) + Len(digits) /\ t[Len(t)] \in Digits
  <2>1. /\ t \in Seq(Chars) /\ Len(t) = Len(before) + Len(digits)
        /\ \A i \in 1..(Len(before) + Len(digits)) :
              t[i] = IF i <= Len(before) THEN before[i] ELSE digits[i - Len(before)]
    BY <1>1, ConcatProperties
  <2>2. /\ Len(before) \in Nat /\ Len(digits) \in Nat \ {0}
        /\ \A i \in 1..Len(digits) : digits[i] \in Digits
    BY DEF Parts
  <2> HIDE DEF t
  <2>3. t[Len(t)] = digits[Len(digits)]
    BY <2>1, <2>2
  <2> QED BY <2>1, <2>2, <2>3
<1>5. Joined(a, b, c, d, e, digits, f) = t \o f
  BY <1>3 DEF Joined
<1> HIDE DEF t
<1>6. t \o f \in Seq(Chars) /\ Len(t \o f) = Len(t) + Len(f)
  BY <1>1, <1>2, <1>4
<1>7. Len(f) = 0 => t \o f = t
  <2>1. Len(f) = 0 => f = <<>>
    BY <1>1, EmptySeq
  <2> QED BY <1>4, <2>1, ConcatEmptySeq
<1> QED BY <1>3, <1>4, <1>5, <1>6, <1>7

\* A text shows its number, fills its field and ends in a digit unless it was to
\* stand at the left.
Legible(text, num, base, size, precision, flags) ==
    /\ Shown(text, base) =
         IF "sign" \in flags /\ Negative(num) THEN -Magnitude(num, flags)
         ELSE Magnitude(num, flags)
    /\ Len(text) =
         Larger(size, Len(Sign(num, flags)) + Len(Special(base, flags))
                        + Larger(precision, Len(Temp(Magnitude(num, flags), base, flags))))
    /\ "left" \notin flags => text[Len(text)] \in Digits

LEMMA NumberRead ==
    ASSUME NEW num \in Words, NEW base \in 2..16, NEW size \in Int, NEW precision \in Int,
           NEW flags
    PROVE  Legible(Number(num, base, size, precision, flags), num, base, size, precision, flags)
<1> DEFINE digits == Temp(Magnitude(num, flags), base, flags)
           room == Room(num, base, size, precision, flags)
           left == "left" \in flags
           zeros == "zeropad" \in flags /\ ~left
           a == Pad(Space, IF left \/ zeros THEN 0 ELSE room)
           b == Sign(num, flags)
           c == Special(base, flags)
           d == Pad("0", IF zeros THEN room ELSE 0)
           e == Pad(IF zeros THEN "0" ELSE Space, precision - Len(digits))
           f == Pad(Space, IF left THEN room ELSE 0)
<1>1. /\ digits \in Seq(Digits) /\ Len(digits) \in Nat \ {0}
      /\ Value(digits, base) = Magnitude(num, flags)
  BY MagnitudeType, TempType, TempRead
<1>2. b \in SignTexts /\ (b = <<"-">> <=> "sign" \in flags /\ Negative(num))
  <2>1. <<"+">> # <<"-">> /\ <<Space>> # <<"-">> /\ <<>> # <<"-">>
    BY DigitsOnly
  <2> QED BY <2>1 DEF Sign, SignTexts
<1>3. c \in PrefixTexts
  <2>1. CASE "special" \in flags /\ base = 8
    BY <2>1 DEF Special, PrefixTexts
  <2>2. CASE "special" \in flags /\ base = 16
    BY <2>2 DEF Special, PrefixTexts
  <2>3. CASE ~("special" \in flags /\ base = 8) /\ ~("special" \in flags /\ base = 16)
    BY <2>3 DEF Special, PrefixTexts
  <2> QED BY <2>1, <2>2, <2>3
<1>4. Len(b) \in Nat /\ Len(c) \in Nat
  BY SignType
<1>5. room = size - Len(b) - Len(c) - Larger(precision, Len(digits))
  BY DEF Room
<1>6. Number(num, base, size, precision, flags) = Joined(a, b, c, d, e, digits, f)
  BY DEF Number, Joined
<1> HIDE DEF digits, room, b, c
<1>7. room \in Int /\ precision - Len(digits) \in Int /\ Larger(precision, Len(digits)) \in Int
  BY <1>1, <1>4, <1>5 DEF Larger
<1>8. /\ a \in Seq({Space}) /\ Len(a) = IF left \/ zeros THEN 0 ELSE Larger(room, 0)
      /\ d \in Seq({"0"}) /\ Len(d) = IF zeros THEN Larger(room, 0) ELSE 0
      /\ f \in Seq({Space}) /\ Len(f) = IF left THEN Larger(room, 0) ELSE 0
      /\ (e \in Seq({"0"}) \/ e \in Seq({Space})) /\ Len(e) = Larger(precision - Len(digits), 0)
  <2>1. (IF left \/ zeros THEN 0 ELSE room) \in Int /\ (IF zeros THEN room ELSE 0) \in Int
          /\ (IF left THEN room ELSE 0) \in Int
    BY <1>7
  <2>2. Larger(0, 0) = 0
    BY DEF Larger
  <2> HIDE DEF left, zeros
  <2>3. a \in Seq({Space}) /\ Len(a) = Larger(IF left \/ zeros THEN 0 ELSE room, 0)
    BY <2>1, PadType
  <2>4. d \in Seq({"0"}) /\ Len(d) = Larger(IF zeros THEN room ELSE 0, 0)
    BY <2>1, PadType
  <2>5. f \in Seq({Space}) /\ Len(f) = Larger(IF left THEN room ELSE 0, 0)
    BY <2>1, PadType
  <2>6. (e \in Seq({"0"}) \/ e \in Seq({Space})) /\ Len(e) = Larger(precision - Len(digits), 0)
    <3>1. CASE zeros
      BY <1>7, <3>1, PadType
    <3>2. CASE ~zeros
      BY <1>7, <3>2, PadType
    <3> QED BY <3>1, <3>2
  <2> HIDE DEF a, d, e, f
  <2> QED BY <2>2, <2>3, <2>4, <2>5, <2>6
<1> HIDE DEF a, d, e, f
<1>9. Parts(a, b, c, d, e, digits, f)
  BY <1>1, <1>2, <1>3, <1>8 DEF Parts
<1>10. Shown(Joined(a, b, c, d, e, digits, f), base) =
         IF "sign" \in flags /\ Negative(num) THEN -Magnitude(num, flags)
         ELSE Magnitude(num, flags)
  <2>1. base \in Nat
    OBVIOUS
  <2> QED BY <1>1, <1>2, <1>9, <2>1, PartsShown
<1>11. Len(Joined(a, b, c, d, e, digits, f)) =
         Larger(size, Len(b) + Len(c) + Larger(precision, Len(digits)))
  <2>1. Len(a) + Len(d) + Len(f) = Larger(room, 0)
    BY <1>7, <1>8 DEF Larger
  <2>2. Len(e) + Len(digits) = Larger(precision, Len(digits))
    BY <1>1, <1>8 DEF Larger
  <2>3. Len(Joined(a, b, c, d, e, digits, f)) =
          Len(a) + Len(b) + Len(c) + Len(d) + Len(e) + Len(digits) + Len(f)
    BY <1>9, JoinedLength
  <2>4. Len(a) \in Int /\ Len(d) \in Int /\ Len(e) \in Int /\ Len(f) \in Int /\ Len(digits) \in Int
    BY <1>1, <1>7, <1>8 DEF Larger
  <2>5. Larger(room, 0) + Len(b) + Len(c) + Larger(precision, Len(digits)) =
        Larger(size, Len(b) + Len(c) + Larger(precision, Len(digits)))
    <3> DEFINE k == Larger(precision, Len(digits))
    <3>1. k \in Int /\ room = size - Len(b) - Len(c) - k
      BY <1>5, <1>7
    <3> HIDE DEF k
    <3>2. Larger(room, 0) + Len(b) + Len(c) + k = Larger(size, Len(b) + Len(c) + k)
      BY <1>4, <1>7, <3>1 DEF Larger
    <3> QED BY <3>2 DEF k
  <2>6. Len(Joined(a, b, c, d, e, digits, f)) =
          (Len(a) + Len(d) + Len(f)) + Len(b) + Len(c) + (Len(e) + Len(digits))
    BY <1>4, <2>3, <2>4
  <2> QED BY <2>1, <2>2, <2>5, <2>6
<1>12. ~left => Joined(a, b, c, d, e, digits, f)[Len(Joined(a, b, c, d, e, digits, f))] \in Digits
  BY <1>8, <1>9, JoinedLength
<1> QED BY <1>6, <1>10, <1>11, <1>12 DEF Legible, b, c, digits, left

\* The flags that a numeral is formatted with.
FlagsOf(d) ==
    d.flags \cup CASE d.conv = "x" -> {"small"}
                   [] d.conv \in {"d", "i"} -> {"sign"}
                   [] WidthOf(d) # d.width -> {"zeropad"}
                   [] OTHER -> {}

\* Only the conversions of signed numbers take the sign for one, and a width adds no
\* flag that a sign, a prefix or the number's digits depend on.
LEMMA NumeralFlags ==
    ASSUME NEW d, WellTyped(d), d.conv \in DOMAIN Base
    PROVE  LET e == [d EXCEPT !.width = 0] IN
           /\ Numeral(d) = Number(d.arg, Base[d.conv], WidthOf(d), d.precision, FlagsOf(d))
           /\ Numeral(e) = Number(d.arg, Base[d.conv], 0, d.precision, FlagsOf(e))
           /\ "sign" \in FlagsOf(d) <=> d.conv \in {"d", "i"}
           /\ \A x : x # "zeropad" => (x \in FlagsOf(d) <=> x \in FlagsOf(e))
           /\ "left" \in FlagsOf(d) <=> "left" \in d.flags
<1> DEFINE e == [d EXCEPT !.width = 0]
<1>1. /\ DOMAIN d = {"conv", "flags", "width", "precision", "arg"}
      /\ d.flags \subseteq {"plus", "space", "left", "special", "zeropad"}
  BY DEF WellTyped
<1>2. /\ e.conv = d.conv /\ e.flags = d.flags /\ e.width = 0
      /\ e.precision = d.precision /\ e.arg = d.arg
  BY <1>1
<1> HIDE DEF e
<1>3. WidthOf(e) = 0
  BY <1>2 DEF WidthOf
<1>4. Numeral(d) = Number(d.arg, Base[d.conv], WidthOf(d), d.precision, FlagsOf(d))
  BY DEF Numeral, FlagsOf
<1>5. Numeral(e) = Number(d.arg, Base[d.conv], 0, d.precision, FlagsOf(e))
  BY <1>2, <1>3 DEF Numeral, FlagsOf
<1>6. "sign" \in FlagsOf(d) <=> d.conv \in {"d", "i"}
  <2>1. "sign" \notin d.flags
    BY <1>1
  <2>2. CASE d.conv \in {"d", "i"}
    <3>1. d.conv # "x" /\ WidthOf(d) = d.width
      BY <2>2 DEF WidthOf
    <3>2. FlagsOf(d) = d.flags \cup {"sign"}
      BY <2>2, <3>1 DEF FlagsOf
    <3> QED BY <2>2, <3>2
  <2>3. CASE d.conv = "x"
    BY <2>1, <2>3 DEF FlagsOf
  <2>4. CASE d.conv \notin {"d", "i", "x"}
    BY <2>1, <2>4 DEF FlagsOf
  <2> QED BY <2>2, <2>3, <2>4
<1>7. \A x : x # "zeropad" => (x \in FlagsOf(d) <=> x \in FlagsOf(e))
  BY <1>2, <1>3 DEF FlagsOf
<1>8. "left" \in FlagsOf(d) <=> "left" \in d.flags
  BY DEF FlagsOf
<1> QED BY <1>4, <1>5, <1>6, <1>7, <1>8 DEF e

\* What a wider field adds to a numeral is what it is wider by.
LEMMA NumberWidens ==
    ASSUME NEW num \in Words, NEW base \in 2..16, NEW size \in Int, NEW precision \in Int,
           NEW f, NEW g, \A x : x # "zeropad" => (x \in f <=> x \in g)
    PROVE  Len(Number(num, base, size, precision, f)) =
             Larger(Len(Number(num, base, 0, precision, g)), size)
<1> DEFINE m == Magnitude(num, f)
           a == Len(Temp(m, base, f))
           b == Len(Sign(num, f)) + Len(Special(base, f))
           w == b + Larger(precision, a)
<1>1. m = Magnitude(num, g) /\ Sign(num, f) = Sign(num, g) /\ Special(base, f) = Special(base, g)
  BY DEF Magnitude, Sign, Special
<1>2. m \in Words
  BY MagnitudeType
<1> HIDE DEF m
<1>3. Temp(m, base, f) \in Seq(Digits) /\ Len(Temp(m, base, g)) = a
  BY <1>2, TempType, TempLength
<1>4. a \in Nat
  BY <1>3, LenProperties
<1>5. b \in Nat
  <2>1. Len(Sign(num, f)) \in Nat /\ Len(Special(base, f)) \in Nat
    BY SignType
  <2> QED BY <2>1
<1>6. Len(Number(num, base, size, precision, f)) = Larger(size, w)
  <2>1. Legible(Number(num, base, size, precision, f), num, base, size, precision, f)
    BY NumberRead
  <2> QED BY <2>1 DEF Legible, m
<1>7. Len(Number(num, base, 0, precision, g)) = Larger(0, w)
  <2>1. Len(Number(num, base, 0, precision, g)) =
          Larger(0, Len(Sign(num, g)) + Len(Special(base, g))
                      + Larger(precision, Len(Temp(Magnitude(num, g), base, g))))
    <3>1. Legible(Number(num, base, 0, precision, g), num, base, 0, precision, g)
      BY NumberRead
    <3> QED BY <3>1 DEF Legible
  <2> QED BY <1>1, <1>3, <2>1
<1> HIDE DEF a, b
<1>8. w \in Nat
  BY <1>4, <1>5 DEF Larger
<1> HIDE DEF w
<1>9. Larger(size, w) = Larger(Larger(0, w), size)
  BY <1>8 DEF Larger
<1> QED BY <1>6, <1>7, <1>9

\* What a wider field adds to a numeral that stands at the left comes behind it.
LEMMA NumberLeads ==
    ASSUME NEW num \in Words, NEW base \in 2..16, NEW size \in Int, NEW precision \in Int,
           NEW f, NEW g, \A x : x # "zeropad" => (x \in f <=> x \in g), "left" \in f
    PROVE  LET bare == Number(num, base, 0, precision, g) IN
           SubSeq(Number(num, base, size, precision, f), 1, Len(bare)) = bare
<1> DEFINE digits == Temp(Magnitude(num, f), base, f)
           b == Sign(num, f)
           c == Special(base, f)
           e == Pad(Space, precision - Len(digits))
           text == Pad(Space, 0) \o b \o c \o Pad("0", 0) \o e \o digits
           wide == Room(num, base, size, precision, f)
           narrow == Room(num, base, 0, precision, g)
<1>1. "left" \in g /\ DigitsOf(f) = DigitsOf(g)
  BY DEF DigitsOf
<1>2. Magnitude(num, f) = Magnitude(num, g) /\ b = Sign(num, g) /\ c = Special(base, g)
  BY DEF Magnitude, Sign, Special
<1>3. Magnitude(num, f) \in Words
  BY MagnitudeType
<1>4. Temp(Magnitude(num, g), base, g) = digits
  BY <1>1, <1>2, <1>3, TempLength
<1>5. digits \in Seq(Digits) /\ Len(digits) \in Nat \ {0}
  BY <1>3, TempType, TempRead
<1>6. Number(num, base, size, precision, f) = text \o Pad(Space, wide)
  BY DEF Number
<1>7. Number(num, base, 0, precision, g) = text \o Pad(Space, narrow)
  BY <1>1, <1>2, <1>4 DEF Number
<1>8. b \in Seq(Chars) /\ c \in Seq(Chars) /\ Len(b) \in Nat /\ Len(c) \in Nat
  BY SignType DEF Chars
<1>9. wide \in Int /\ narrow \in Int /\ narrow <= 0
  <2> DEFINE k == Larger(precision, Len(digits))
  <2>1. k \in Nat
    BY <1>5 DEF Larger
  <2>2. wide = size - Len(b) - Len(c) - k /\ narrow = 0 - Len(b) - Len(c) - k
    BY <1>2, <1>4 DEF Room
  <2> HIDE DEF k, b, c, wide, narrow
  <2> QED BY <1>8, <2>1, <2>2
<1> HIDE DEF b, c, digits, wide, narrow
<1>10. text \in Seq(Chars)
  <2>1. /\ Pad(Space, 0) \in Seq({Space}) /\ Pad("0", 0) \in Seq({"0"})
        /\ e \in Seq({Space})
    <3>1. precision - Len(digits) \in Int
      BY <1>5
    <3>2. ASSUME NEW v, NEW n \in Int PROVE Pad(v, n) \in Seq({v})
      BY PadType
    <3> QED BY <3>1, <3>2
  <2>2. {Space} \subseteq Chars /\ {"0"} \subseteq Chars /\ Digits \subseteq Chars
    BY CharsHold
  <2>3. /\ Pad(Space, 0) \in Seq(Chars) /\ Pad("0", 0) \in Seq(Chars)
        /\ e \in Seq(Chars) /\ digits \in Seq(Chars)
    BY <1>5, <2>1, <2>2
  <2> QED BY <1>8, <2>3, ConcatProperties
<1>11. Pad(Space, narrow) = <<>> /\ Pad(Space, wide) \in Seq(Chars)
  <2>1. Len(Pad(Space, narrow)) = 0 /\ Pad(Space, narrow) \in Seq({Space})
    <3>1. Larger(narrow, 0) = 0
      BY <1>9 DEF Larger
    <3> QED BY <1>9, <3>1, PadType
  <2>2. Pad(Space, wide) \in Seq({Space}) /\ {Space} \subseteq Chars
    BY <1>9, PadType, CharsHold
  <2> QED BY <2>1, <2>2, EmptySeq
<1> HIDE DEF text
<1>12. Number(num, base, 0, precision, g) = text
  BY <1>7, <1>10, <1>11, ConcatEmptySeq
<1>13. SubSeq(text \o Pad(Space, wide), 1, Len(text)) = text
  BY <1>10, <1>11, SMT
<1> QED BY <1>6, <1>12, <1>13

LEMMA NumeralRead ==
    ASSUME NEW d, WellTyped(d), d.conv \in DOMAIN Base
    PROVE  LET text == Numeral(d) IN
           /\ Shown(text, Base[d.conv]) = Meant(d)
           /\ Len(text) = Larger(Len(Numeral([d EXCEPT !.width = 0])), WidthOf(d))
           /\ IF "left" \in d.flags
              THEN SubSeq(text, 1, Len(Numeral([d EXCEPT !.width = 0])))
                     = Numeral([d EXCEPT !.width = 0])
              ELSE text[Len(text)] # Space
<1>1. PICK num \in Words, base \in 2..16, size \in Int, precision \in Int :
        num = d.arg /\ base = Base[d.conv] /\ size = WidthOf(d) /\ precision = d.precision
  <2>1. Base[d.conv] \in 2..16
    BY Bases
  <2>2. d.arg \in Words /\ d.width \in Int /\ d.precision \in Int
    BY Bases DEF WellTyped
  <2>3. WidthOf(d) \in Int
    BY <2>2 DEF WidthOf
  <2> QED BY <2>1, <2>2, <2>3
<1>2. PICK f, g :
        /\ Numeral(d) = Number(num, base, size, precision, f)
        /\ Numeral([d EXCEPT !.width = 0]) = Number(num, base, 0, precision, g)
        /\ "sign" \in f <=> d.conv \in {"d", "i"}
        /\ \A x : x # "zeropad" => (x \in f <=> x \in g)
        /\ "left" \in f <=> "left" \in d.flags
  BY <1>1, NumeralFlags
<1>3. Shown(Numeral(d), base) =
        IF "sign" \in f /\ Negative(num) THEN -Magnitude(num, f) ELSE Magnitude(num, f)
  <2>1. Legible(Numeral(d), num, base, size, precision, f)
    BY <1>2, NumberRead
  <2> QED BY <2>1 DEF Legible
<1>4. Len(Numeral(d)) = Larger(Len(Numeral([d EXCEPT !.width = 0])), size)
  <2>1. Len(Number(num, base, size, precision, f)) =
          Larger(Len(Number(num, base, 0, precision, g)), size)
    <3>1. \A x : x # "zeropad" => (x \in f <=> x \in g)
      BY <1>2
    <3> QED BY <3>1, NumberWidens
  <2> QED BY <1>2, <2>1
<1>5. Shown(Numeral(d), base) = Meant(d)
  <2>1. num \in Int /\ HalfWord \in Int
    BY WordAssumption DEF Words
  <2>2. CASE d.conv \in {"d", "i"} /\ Negative(num)
    BY <1>1, <1>2, <1>3, <2>1, <2>2 DEF Magnitude, Meant
  <2>3. CASE ~(d.conv \in {"d", "i"} /\ Negative(num))
    BY <1>1, <1>2, <1>3, <2>3 DEF Magnitude, Meant
  <2> QED BY <2>2, <2>3
<1>6. "left" \notin d.flags => Numeral(d)[Len(Numeral(d))] # Space
  <2>1. "left" \notin f => Numeral(d)[Len(Numeral(d))] \in Digits
    <3>1. Legible(Numeral(d), num, base, size, precision, f)
      BY <1>2, NumberRead
    <3> QED BY <3>1 DEF Legible
  <2> QED BY <1>2, <2>1, DigitsOnly
<1>7. ASSUME "left" \in d.flags
      PROVE  SubSeq(Numeral(d), 1, Len(Numeral([d EXCEPT !.width = 0])))
               = Numeral([d EXCEPT !.width = 0])
  <2>1. SubSeq(Number(num, base, size, precision, f), 1,
               Len(Number(num, base, 0, precision, g)))
          = Number(num, base, 0, precision, g)
    <3>1. \A x : x # "zeropad" => (x \in f <=> x \in g)
      BY <1>2
    <3>2. "left" \in f
      BY <1>2, <1>7
    <3> QED BY <3>1, <3>2, NumberLeads
  <2>2. /\ Numeral(d) = Number(num, base, size, precision, f)
        /\ Numeral([d EXCEPT !.width = 0]) = Number(num, base, 0, precision, g)
    BY <1>2
  <2> QED BY <2>1, <2>2
<1> QED BY <1>1, <1>4, <1>5, <1>6, <1>7

\* What a directive writes into the buffer is its text, whole.
LEMMA FormatWrites ==
    ASSUME CInv, Format, Head(fmt).conv \in DOMAIN Base
    PROVE  /\ WellTyped(Head(fmt))
           /\ SubSeq(buf', str + 1, str') = Numeral(Head(fmt))
<1> DEFINE d == Head(fmt)
           text == Text(d)
<1>1. Printable(message) /\ Len(message) \in Nat
  BY DEF CInv, InFormat, Format, Printable
<1>2. PICK k \in 0..Len(message) : Formatted(k) /\ Remaining(k)
  BY DEF CInv, InFormat, Format
<1>3. d = message[k + 1] /\ k + 1 \in 1..Len(message)
  <2> DEFINE D == {message[i] : i \in 1..Len(message)}
  <2>1. /\ fmt # <<>> /\ fmt \in Seq(D) /\ Len(fmt) = Len(message) - k
        /\ \A i \in 1..Len(fmt) : fmt[i] = message[k + i]
    BY <1>2 DEF Remaining, Format
  <2> HIDE DEF D
  <2>2. Len(fmt) \in Nat \ {0} /\ Head(fmt) = fmt[1]
    BY <2>1
  <2> QED BY <1>1, <2>1, <2>2
<1>4. WellTyped(d)
  BY <1>1, <1>3 DEF Printable
<1>5. ~Faults(d)
  BY DEF Format
<1>6. text \in Seq(Chars) /\ text = Numeral(d)
  <2>1. text = Numeral(d)
    BY Bases DEF Text
  <2> QED BY <1>4, <1>5, <2>1, TextType
<1>7. buf' = Written(str, text) /\ str' = str + Len(text)
  BY DEF Format
<1>8. /\ str \in Nat /\ str' \in 0..(BufSize - 1) /\ BufSize \in Nat
      /\ DOMAIN buf = 1..BufSize
  BY FormatAppends, ConsoleAssumption DEF CInv, Shapes
<1> HIDE DEF text
<1>9. Len(text) \in Nat /\ text = [i \in 1..Len(text) |-> text[i]]
  BY <1>6
<1>10. ASSUME NEW i \in 1..Len(text) PROVE buf'[str + i] = text[i]
  <2>1. /\ str + i \in DOMAIN buf /\ str + i > str /\ str + i <= str + Len(text)
        /\ (str + i) - str = i
    BY <1>7, <1>8, <1>9
  <2> QED BY <1>7, <2>1 DEF Written
<1>11. SubSeq(buf', str + 1, str + Len(text)) = [i \in 1..Len(text) |-> buf'[str + i]]
  BY <1>8, <1>9
<1> QED BY <1>4, <1>6, <1>7, <1>9, <1>10, <1>11

\* A numeral shows the number it was given, for every size of a word: negative numbers
\* and the smallest one too.  It fills its field, which its sign and its prefix count
\* in, and ends in a digit; or, when it is to stand at the left, what fills the field
\* comes behind the numeral.
THEOREM NumeralsReadBack == Spec => NumbersReadBack
<1>1. CInv /\ [Next]_vars =>
        [(Format /\ Head(fmt).conv \in DOMAIN Base) =>
          LET d == Head(fmt)
              text == SubSeq(buf', str + 1, str')
              bare == Numeral([d EXCEPT !.width = 0]) IN
          /\ Shown(text, Base[d.conv]) = Meant(d)
          /\ Len(text) = Larger(Len(bare), WidthOf(d))
          /\ IF "left" \in d.flags
             THEN SubSeq(text, 1, Len(bare)) = bare
             ELSE text[Len(text)] # Space]_vars
  BY FormatWrites, NumeralRead
<1> QED BY <1>1, ConsoleInv, PTL DEF Spec, NumbersReadBack

=============================================================================
