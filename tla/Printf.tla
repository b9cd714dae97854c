------------------------------- MODULE Printf -------------------------------
(***************************************************************************)
(* What vsprintf (libc/stdio/printf.c) writes for one directive of a        *)
(* format, as operators without state.                                      *)
(*                                                                         *)
(* A directive is a record: conv is the conversion ("text" for what stands  *)
(* between the directives), flags the flags before it, width and precision  *)
(* the numbers given (-1: none; a point alone gives the precision 0), and   *)
(* arg the argument.  A text is a sequence of characters, and a number a    *)
(* word.  A width or precision "*" is read and not skipped, so the "*" is   *)
(* taken for a conversion of its own and what follows for text.             *)
(***************************************************************************)
EXTENDS Integers, Sequences

CONSTANT HalfWord       \* half of the values of int and long (2^31)

ASSUME WordAssumption == HalfWord \in Nat \ {0}

\* The words, and those that an int counts downwards from 0.
Words == 0..(2 * HalfWord - 1)
Negative(num) == num >= HalfWord

Larger(a, b) == IF a > b THEN a ELSE b

\* What fields are filled up with, and what "% d" shows for a plus.
Space == " "

\* n times the character c; none if n is negative.
Pad(c, n) == [i \in 1..Larger(n, 0) |-> c]

UPPERCASE_DIGITS == <<"0", "1", "2", "3", "4", "5", "6", "7", "8", "9",
                      "A", "B", "C", "D", "E", "F">>
LOWERCASE_DIGITS == <<"0", "1", "2", "3", "4", "5", "6", "7", "8", "9",
                      "a", "b", "c", "d", "e", "f">>
DigitsOf(type) == IF "small" \in type THEN LOWERCASE_DIGITS ELSE UPPERCASE_DIGITS

\* temp, the digits of a word in the order they are printed in.
Temp(num, base, type) ==
    LET temp[n \in Words] ==
            IF n < base THEN <<DigitsOf(type)[n + 1]>>
            ELSE Append(temp[n \div base], DigitsOf(type)[(n % base) + 1])
    IN temp[num]

\* Mutant: the word that is its own negative is taken for zero.
DropsSmallest(num, type) ==
    IF "sign" \in type /\ Negative(num) THEN (2 * HalfWord - num) % HalfWord ELSE num

\* num = -num, in a word; the smallest number stays as it is and is divided
\* without a sign.
Magnitude(num, type) ==
    IF "sign" \in type /\ Negative(num) THEN 2 * HalfWord - num ELSE num

Sign(num, type) ==
    IF "sign" \in type /\ Negative(num) THEN <<"-">>
    ELSE IF "plus" \in type THEN <<"+">>
    ELSE IF "space" \in type THEN <<Space>>
    ELSE <<>>

Special(base, type) ==
    CASE "special" \in type /\ base = 8 -> <<"0">>
      [] "special" \in type /\ base = 16 -> <<"0", IF "small" \in type THEN "x" ELSE "X">>
      [] OTHER -> <<>>

\* Mutant: the sign is not counted in the width.
ForgetsSign(num, base, size, precision, type) ==
    size - Len(Special(base, type))
        - Larger(precision, Len(Temp(Magnitude(num, type), base, type)))

\* size, what is left of the width once sign, prefix and digits have taken theirs.
Room(num, base, size, precision, type) ==
    size - Len(Sign(num, type)) - Len(Special(base, type))
        - Larger(precision, Len(Temp(Magnitude(num, type), base, type)))

\* _number.  A precision is filled up with the padding character, which is '0'
\* only when the field is padded with zeros.
Number(num, base, size, precision, flags) ==
    LET left == "left" \in flags
        zeros == "zeropad" \in flags /\ ~left
        c == IF zeros THEN "0" ELSE Space
        digits == Temp(Magnitude(num, flags), base, flags)
        room == Room(num, base, size, precision, flags)
    IN
    Pad(Space, IF left \/ zeros THEN 0 ELSE room)
        \o Sign(num, flags) \o Special(base, flags)
        \o Pad("0", IF zeros THEN room ELSE 0)
        \o Pad(c, precision - Len(digits)) \o digits
        \o Pad(Space, IF left THEN room ELSE 0)

\* "%c": the width is counted down before it is tested.
Character(d) ==
    LET pad == Pad(Space, d.width - 1) IN
    IF "left" \in d.flags THEN <<d.arg>> \o pad ELSE pad \o <<d.arg>>

\* "%s".
String(d) ==
    LET len == IF d.precision \in 0..Len(d.arg) THEN d.precision ELSE Len(d.arg)
        text == SubSeq(d.arg, 1, len)
        pad == Pad(Space, d.width - len) IN
    IF "left" \in d.flags THEN text \o pad ELSE pad \o text

Base == [o |-> 8, p |-> 16, x |-> 16, X |-> 16, d |-> 10, i |-> 10, u |-> 10, b |-> 2]

\* A pointer with no width is eight digits wide.
WidthOf(d) == IF d.conv = "p" /\ d.width = -1 THEN 8 ELSE d.width

\* Numbers: "%x" falls through to "%X", "%d" and "%i" to "%u".
Numeral(d) ==
    LET flags == d.flags \cup CASE d.conv = "x" -> {"small"}
                                [] d.conv \in {"d", "i"} -> {"sign"}
                                [] WidthOf(d) # d.width -> {"zeropad"}
                                [] OTHER -> {} IN
    Number(d.arg, Base[d.conv], WidthOf(d), d.precision, flags)

\* What one round of the loop of vsprintf appends; "%%" prints one of them, and a
\* conversion that does not exist prints itself.
Text(d) ==
    CASE d.conv = "text" -> d.arg
      [] d.conv = "c" -> Character(d)
      [] d.conv = "s" -> String(d)
      [] d.conv \in DOMAIN Base -> Numeral(d)
      [] d.conv = "%" -> <<"%">>
      [] OTHER -> <<"%", d.conv>>

----------------------------------------------------------------------------
(* Reading a number back.                                                  *)

\* A text without a character.
Without(c, text) ==
    LET rest[i \in 0..Len(text)] ==
            IF i = 0 THEN <<>>
            ELSE IF text[i] = c THEN rest[i - 1] ELSE Append(rest[i - 1], text[i])
    IN rest[Len(text)]

DigitValue(x) ==
    (CHOOSE i \in 1..16 : x \in {UPPERCASE_DIGITS[i], LOWERCASE_DIGITS[i]}) - 1

\* The value of a sequence of digits.
Value(digits, base) ==
    LET value[i \in 0..Len(digits)] ==
            IF i = 0 THEN 0 ELSE value[i - 1] * base + DigitValue(digits[i])
    IN value[Len(digits)]

\* What stands after a sign and a prefix.
AfterSign(text) == IF text[1] \in {"+", "-"} THEN Tail(text) ELSE text
AfterPrefix(text) ==
    IF Len(text) > 1 /\ text[2] \in {"x", "X"} THEN Tail(Tail(text)) ELSE text

\* The number that a text shows.
Shown(text, base) ==
    LET compact == Without(Space, text)
        value == Value(AfterPrefix(AfterSign(compact)), base) IN
    IF compact[1] = "-" THEN -value ELSE value

\* The number that a directive is given.
Meant(d) ==
    IF d.conv \in {"d", "i"} /\ Negative(d.arg) THEN d.arg - 2 * HalfWord ELSE d.arg

=============================================================================
