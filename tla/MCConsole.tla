----------------------------- MODULE MCConsole -----------------------------
(***************************************************************************)
(* Small instances of Console for TLC.                                     *)
(***************************************************************************)
EXTENDS Console

Letters == {" ", "0", "1", "2", "5", "7", "8", "F", "f", "X", "x", "+", "-", "%", "*"}

Plain == [conv |-> "text", flags |-> {}, width |-> -1, precision |-> -1, arg |-> 0]
Say(text) == [Plain EXCEPT !.arg = text]
Str(text) == [Plain EXCEPT !.conv = "s", !.arg = text]

\* Every numeral: all flags, widths that are missing, too small or large enough, and
\* the words at each boundary.
Numerals ==
    {[Plain EXCEPT !.conv = conv, !.flags = flags, !.width = w, !.precision = p, !.arg = num] :
        conv \in DOMAIN Base, flags \in SUBSET {"plus", "space", "left", "special", "zeropad"},
        w \in {-1, 3, 6}, p \in {-1, 3}, num \in {0, 8, 15}}

\* The characters, one message each, that move the cursor in different ways.
Keyboard == {<<Say(<<c>>)>> : c \in {"x", "7", "LF", "CR", "HT", "BS", "BEL"}}

\* Strings and characters that leave something behind, or stop early.
Leftovers ==
    { <<Say(<<"x", "X">>), Str(<<"f", "f", "f">>), Say(<<"LF">>)>>,
      <<Str(<<"x", "X">>), Str(Unmapped), Say(<<"LF">>)>>,
      <<[Str(<<"x", "X">>) EXCEPT !.width = 4]>>,
      <<[Str(<<"x", "X">>) EXCEPT !.flags = {"left"}, !.width = 4, !.precision = 1]>>,
      <<[Plain EXCEPT !.conv = "c", !.arg = "x", !.width = 3],
        [Plain EXCEPT !.conv = "c", !.arg = "NUL", !.flags = {"left"}, !.width = 3]>>,
      <<[Plain EXCEPT !.conv = "%"], [Plain EXCEPT !.conv = "*"], Say(<<"x">>)>> }

AllScripts ==
    [numbers |-> <<{<<d>> : d \in Numerals}>>,
     typing |-> [i \in 1..6 |-> Keyboard],
     messages |-> <<Leftovers, Leftovers>>]

Report == << <<Say(<<"1", "LF">>)>>, <<Say(<<"0", "x">>), [Plain EXCEPT !.conv = "X", !.arg = 15]>>,
             <<Str(<<"8">>), Say(<<"LF">>)>> >>
=============================================================================
