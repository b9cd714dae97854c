------------------------------- MODULE Console -------------------------------
(***************************************************************************)
(* printf as the kernel uses it: vsprintf formats a message, directive by   *)
(* directive, into one static buffer, and the buffer is put on the terminal *)
(* character by character.  A "%s" whose argument is no mapped address      *)
(* faults, and page_fault and abort print through the same buffer before    *)
(* the kernel halts.                                                        *)
(***************************************************************************)
EXTENDS Terminal, Printf

CONSTANTS
    BufSize,        \* size of the static buffer (2048)
    Unmapped,       \* a string that page faults when it is read
    Scripts,        \* name -> what is printed: a sequence of sets of messages
    LastWords       \* what page_fault and abort print, message by message

ASSUME ConsoleAssumption ==
    /\ BufSize \in Nat \ {0}
    /\ "NUL" \notin Glyphs

\* What a message is made of: what the terminal shows, what it obeys, and zero.
Characters == Glyphs \cup {"BS", "HT", "CR", "LF", "BEL", "NUL"}

Faults(d) == d.conv = "s" /\ d.arg = Unmapped

\* The texts of a message, directive after directive, one after the other: full[i]
\* is that of the first i of them.
FullTexts(m) ==
    LET full[i \in 0..Len(m)] == IF i = 0 THEN <<>> ELSE full[i - 1] \o Text(m[i])
    IN full
FullText(m) == FullTexts(m)[Len(m)]

\* vsprintf takes every argument for what its directive says it is.  "%n", which
\* stores through its argument, is left out, and a "%" that ends a format is text.
WellTyped(d) ==
    /\ DOMAIN d = {"conv", "flags", "width", "precision", "arg"}
    /\ d.flags \subseteq {"plus", "space", "left", "special", "zeropad"}
    /\ d.width \in Int /\ d.precision \in Int
    /\ CASE d.conv = "text" -> d.arg \in Seq(Characters)
         [] d.conv = "s" -> d.arg = Unmapped \/ d.arg \in Seq(Characters)
         [] d.conv = "c" -> d.arg \in Characters
         [] d.conv \in DOMAIN Base -> d.arg \in Words
         [] OTHER -> d.conv \in Characters \ {"NUL", "n"}

\* It never tests for the end of the buffer: what it writes, up to the end or up to a
\* fault, has to fit, with the zero behind it.
Fits(m) ==
    \A k \in 0..Len(m) : (\A i \in 1..k : ~Faults(m[i])) => Len(FullTexts(m)[k]) < BufSize

Printable(m) ==
    /\ Len(m) \in Nat /\ m = [i \in 1..Len(m) |-> m[i]]
    /\ \A i \in 1..Len(m) : WellTyped(m[i])
    /\ Fits(m)

ASSUME MessagesAssumption ==
    /\ \A s \in DOMAIN Scripts :
          /\ Len(Scripts[s]) \in Nat /\ DOMAIN Scripts[s] = 1..Len(Scripts[s])
          /\ \A i \in DOMAIN Scripts[s] : \A m \in Scripts[s][i] : Printable(m)
    /\ Len(LastWords) \in Nat /\ DOMAIN LastWords = 1..Len(LastWords)
    /\ \A i \in DOMAIN LastWords : Printable(LastWords[i])

VARIABLES
    buf,            \* the static buffer, which keeps what it held
    str,            \* where vsprintf writes next; what it returns
    fmt,            \* the directives still to do
    j,              \* how many characters are printed
    pc,             \* "idle", "format", "print", "halted"
    script,         \* which script runs; "fault" once a fault has happened
    step,           \* how many of its messages were started
    message         \* history: the message being printed

printing == <<buf, str, fmt, j, pc, script, step, message>>
vars == <<terminal, printing>>

Init ==
    /\ terminal_initialize
    /\ buf = Pad("NUL", BufSize)
    /\ str = 0 /\ fmt = <<>> /\ j = 0
    /\ pc = "idle"
    /\ script \in DOMAIN Scripts \ {"fault"}
    /\ step = 0
    /\ message = <<>>

Messages ==
    IF script = "fault" THEN [i \in DOMAIN LastWords |-> {LastWords[i]}] ELSE Scripts[script]

\* printf is called.
Printf(m) ==
    /\ pc = "idle"
    /\ step < Len(Messages)
    /\ pc' = "format"
    /\ fmt' = m /\ message' = m
    /\ str' = 0 /\ j' = 0
    /\ step' = step + 1
    /\ UNCHANGED <<terminal, buf, script>>

\* The buffer with text written from position `at' on.
Written(at, text) ==
    [i \in DOMAIN buf |-> IF i > at /\ i <= at + Len(text) THEN text[i - at] ELSE buf[i]]

\* One directive.  Nothing tests for the end of the buffer.
Format ==
    /\ pc = "format" /\ fmt # <<>>
    /\ ~Faults(Head(fmt))
    /\ LET text == Text(Head(fmt)) IN
        /\ buf' = Written(str, text)
        /\ str' = str + Len(text)
    /\ fmt' = Tail(fmt)
    /\ UNCHANGED <<terminal, j, pc, script, step, message>>

\* strlen of the argument faults: page_fault starts to print, and never returns.
Fault ==
    /\ pc = "format" /\ fmt # <<>>
    /\ Faults(Head(fmt))
    /\ pc' = "idle"
    /\ script' = "fault" /\ step' = 0
    /\ UNCHANGED <<terminal, buf, str, fmt, j, message>>

\* Mutant: the text is not closed.
Unterminated == buf

\* *str = '\0', and buf[i] = '\0' again.
Terminated == Written(str, <<"NUL">>)

EndFormat ==
    /\ pc = "format" /\ fmt = <<>>
    /\ buf' = Terminated
    /\ pc' = "print"
    /\ UNCHANGED <<terminal, str, fmt, j, script, step, message>>

\* strnlen(buf, 2048).
strnlen(text) ==
    IF \E i \in DOMAIN text : text[i] = "NUL"
    THEN (CHOOSE i \in DOMAIN text :
            text[i] = "NUL" /\ \A k \in 1..(i - 1) : text[k] # "NUL") - 1
    ELSE Len(text)

\* putchar: terminal_write of one character.
Putchar ==
    /\ pc = "print" /\ j < strnlen(buf)
    /\ terminal_putchar(buf[j + 1])
    /\ j' = j + 1
    /\ UNCHANGED <<buf, str, fmt, pc, script, step, message>>

Aborts == script = "fault" /\ step = Len(LastWords)

\* printf returns; after the last message of abort the processor halts.
Return ==
    /\ pc = "print" /\ j = strnlen(buf)
    /\ pc' = IF Aborts THEN "halted" ELSE "idle"
    /\ UNCHANGED <<terminal, buf, str, fmt, j, script, step, message>>

PrintStep == Format \/ Fault \/ EndFormat \/ Putchar \/ Return

\* Everything is printed, or the kernel has halted.
Quiet ==
    /\ pc = "halted" \/ (pc = "idle" /\ step = Len(Messages))
    /\ UNCHANGED vars

CallStep == pc = "idle" /\ step < Len(Messages) /\ \E m \in Messages[step + 1] : Printf(m)

Next == CallStep \/ PrintStep \/ Quiet

Spec == Init /\ [][Next]_vars

----------------------------------------------------------------------------
(* Properties.                                                             *)

\* The shapes of the variables; above all, the cursor stays on the screen whatever
\* is printed, and vsprintf inside its buffer, messages being as long as they are.
TypeOK ==
    /\ TerminalTypeOK
    /\ DOMAIN buf = 1..BufSize
    /\ str \in 0..BufSize - 1
    /\ j \in 0..BufSize
    /\ pc \in {"idle", "format", "print", "halted"}
    /\ script \in DOMAIN Scripts \cup {"fault"}
    /\ step \in 0..Len(Messages)

\* What is printed is the message and nothing else: neither what an earlier, longer
\* one left in the buffer, nor what was formatted before a fault; it ends early
\* only at a character zero of its own.
NoStaleText ==
    pc = "print" =>
        LET text == FullText(message) IN
        SubSeq(buf, 1, strnlen(buf)) = SubSeq(text, 1, strnlen(text))

\* A numeral shows the number it was given, the most negative one included; it
\* fills its field exactly, or is as long as the same numeral without a width; and
\* it ends at the right end of the field or, if that was asked for, begins as the
\* numeral without a width does, at the left end.
NumbersReadBack ==
    [][(Format /\ Head(fmt).conv \in DOMAIN Base) =>
          LET d == Head(fmt)
              text == SubSeq(buf', str + 1, str')
              bare == Numeral([d EXCEPT !.width = 0]) IN
          /\ Shown(text, Base[d.conv]) = Meant(d)
          /\ Len(text) = Larger(Len(bare), WidthOf(d))
          /\ IF "left" \in d.flags
             THEN SubSeq(text, 1, Len(bare)) = bare
             ELSE text[Len(text)] # Space]_vars

=============================================================================
