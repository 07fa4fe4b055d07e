------------------------------- MODULE Ft8Text -------------------------------
(***************************************************************************)
(* Characters and texts: src/libft8/ft8/text.c.  A text is a string, a     *)
(* character is a string of length one, and "" is what the code reads at   *)
(* the terminating zero.                                                   *)
(***************************************************************************)
EXTENDS Integers, SequencesExt

LOCAL Digits == "0123456789"
LOCAL Letters == "ABCDEFGHIJKLMNOPQRSTUVWXYZ"
LOCAL SmallLetters == "abcdefghijklmnopqrstuvwxyz"

(* The alphabets; a character is sent as its place in one of them. *)
FULL == " " \o Digits \o Letters \o "+-./?"
ALPHANUM_SPACE_SLASH == " " \o Digits \o Letters \o "/"
ALPHANUM_SPACE == " " \o Digits \o Letters
LETTERS_SPACE == " " \o Letters
ALPHANUM == Digits \o Letters
NUMERIC == Digits

Ch(s, i) == IF i \in 1 .. Len(s) THEN SubSeq(s, i, i) ELSE ""
Chars(s) == [i \in 1 .. Len(s) |-> Ch(s, i)]
Join(chars) == FoldLeft(LAMBDA s, c : s \o c, "", chars)
From(s, i) == SubSeq(s, i, Len(s))

charn(c, table) == IF c < Len(table) THEN Ch(table, c + 1) ELSE "_"

(* -1: not in the alphabet *)
nchar(c, table) ==
    LET at == {i \in 1 .. Len(table) : Ch(table, i) = c}
    IN IF at = {} THEN -1 ELSE Min(at) - 1

In(c, table) == nchar(c, table) >= 0
to_upper(c) == IF In(c, SmallLetters) THEN charn(nchar(c, SmallLetters), Letters) ELSE c
is_digit(c) == In(c, Digits)
is_letter(c) == In(to_upper(c), Letters)
in_A_to_R(c) == nchar(c, Letters) \in 0 .. 17

starts_with(s, prefix) == Len(s) >= Len(prefix) /\ SubSeq(s, 1, Len(prefix)) = prefix
ends_with(s, suffix) == Len(s) >= Len(suffix) /\ From(s, Len(s) - Len(suffix) + 1) = suffix

(* A text without the spaces around it *)
trim(s) ==
    LET inked == {i \in 1 .. Len(s) : Ch(s, i) # " "}
    IN IF inked = {} THEN "" ELSE SubSeq(s, Min(inked), Max(inked))

(* The word at the head of a text, cut at a length, and the text after it *)
copy_token(length, s) ==
    LET spaces == {i \in 1 .. Len(s) : Ch(s, i) = " "}
        end    == IF spaces = {} THEN Len(s) ELSE Min(spaces) - 1
        next   == {i \in end + 1 .. Len(s) : Ch(s, i) # " "}
    IN [token |-> SubSeq(s, 1, IF end < length THEN end ELSE length),
        rest  |-> IF next = {} THEN "" ELSE From(s, Min(next))]

(* The number at the head of a text of a given length, as far as it has digits *)
dd_to_int(s, length) ==
    LET signed == Ch(s, 1) \in {"-", "+"}
        start  == IF signed THEN 2 ELSE 1
        stops  == {i \in start .. length : ~is_digit(Ch(s, i))}
        end    == IF stops = {} THEN length ELSE Min(stops) - 1
        value  == FoldLeft(LAMBDA n, c : 10 * n + nchar(c, Digits), 0,
                           Chars(SubSeq(s, start, end)))
    IN IF Ch(s, 1) = "-" THEN -value ELSE value

(* A number in a fixed width.  One too large leaves the digits: the code   *)
(* adds the leading figure, whatever it is, to the character '0'.          *)
int_to_dd(value, width, full_sign) ==
    LET size  == IF value < 0 THEN -value ELSE value
        after == "0123456789:;<=>?@ABCDEFGHIJKLMNOPQRSTUVWXYZ"
        Figure(i) == IF i = 1 THEN size \div 10^(width - 1)
                     ELSE (size \div 10^(width - i)) % 10
    IN (IF value < 0 THEN "-" ELSE IF full_sign THEN "+" ELSE "")
       \o Join([i \in 1 .. width |-> charn(Figure(i), after)])
=============================================================================
