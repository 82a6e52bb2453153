------------------------------- MODULE Texts -------------------------------
(* Texts as sequences of characters, with one blank for all white space. *)
EXTENDS Integers, SequencesExt

Blank == {" "}

From(s, i) == SubSeq(s, i, Len(s))
UpTo(s, i) == SubSeq(s, 1, i)
AllIn(s, S) == \A i \in DOMAIN s : s[i] \in S

\* The first character of s in S, the first one that is not, and the last one
\* that is not: 0 for none.
Find(s, S)     == SelectInSeq(s, LAMBDA c : c \in S)
FirstNot(s, S) == SelectInSeq(s, LAMBDA c : c \notin S)
LastNot(s, S)  == SelectLastInSeq(s, LAMBDA c : c \notin S)

TrimStart(s) == IF AllIn(s, Blank) THEN <<>> ELSE From(s, FirstNot(s, Blank))
TrimEnd(s)   == UpTo(s, LastNot(s, Blank))
Trim(s)      == TrimEnd(TrimStart(s))

\* s around its first character in S; nothing after it when it has none.
Left(s, S)  == IF Find(s, S) = 0 THEN s ELSE UpTo(s, Find(s, S) - 1)
Right(s, S) == IF Find(s, S) = 0 THEN <<>> ELSE From(s, Find(s, S) + 1)

DigitChar == <<"0", "1", "2", "3", "4", "5", "6", "7", "8", "9">>
DigitOf   == [c \in ToSet(DigitChar) |-> SelectInSeq(DigitChar, LAMBDA d : d = c) - 1]
Digits(s) == AllIn(s, DOMAIN DigitOf)

\* Digits as a number that stops growing at max.
Reading(s, max) ==
    LET AtMost(v) == IF v > max THEN max ELSE v
        r[i \in 0 .. Len(s)] == IF i = 0 THEN 0 ELSE AtMost(r[i - 1] * 10 + DigitOf[s[i]])
    IN  r[Len(s)]
=============================================================================
