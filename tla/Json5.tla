------------------------------- MODULE Json5 -------------------------------
(***************************************************************************)
(* adapters/json5.rs: the scanner of JSON5 documents, with the recursion   *)
(* of parse_value as a stack of open objects and arrays.  A text is a      *)
(* sequence of characters, in which a word and what stands behind the      *)
(* backslash of a \u or \x escape is one character.  The order of the      *)
(* fields of an object is left out, and floats do not round.               *)
(*                                                                         *)
(* adapters/jsonc.rs, at the end: comments and trailing commas are taken   *)
(* out of a text before serde_json reads it.  What serde_json makes of it  *)
(* is not modelled: a mount ends with the text that is handed over.        *)
(***************************************************************************)
EXTENDS Mounts, Units

CONSTANTS
    MaxDepth,     \* MAX_DOCUMENT_DEPTH
    IdentStart,   \* is_ident_start
    IdentPart,    \* is_ident_part
    HexEscape,    \* \x escape -> its character, or "malformed"
    FloatPoints,  \* where the point of a finite float may be, counted from its first digit
    PlainPoints   \* where it is when {:?} writes the float without an exponent

VARIABLES
    cursor,  \* the next character, its line, and where that line starts
    open,    \* the objects and arrays that are open, outermost first
    want     \* what the loop looks for next

jsonVars == <<cursor, open, want>>

Text       == source.lines[1]
Terminator == {"newline", "cr", "ls"}
Closer     == [object |-> "}", array |-> "]"]
Literal    == {"true", "null"}
NotFinite  == {"Infinity"}
HexOf      == DigitOf @@ "a" :> 10 @@ "b" :> 11 @@ "d" :> 13 @@ "e" :> 14
UnicodeEscape == DOMAIN Decoded \ {"n"}

Typed(text, ty) == [t |-> "scalar", ty |-> ty, raw |-> text]

(* ------------------------------- the cursor ---------------------------- *)
Char(c)     == IF c.pos > Len(Text) THEN "end" ELSE Text[c.pos]
Skip(c, n)  == [c EXCEPT !.pos = @ + n]
Following(c)  == Char(Skip(c, 1))
Position(c) == <<c.line, c.pos - c.lineAt + 1>>

Got(c, value) == [error |-> "none", to |-> c, value |-> value]
Bad(c, error) == [error |-> error, to |-> c, value |-> <<>>]

\* A variant: a line feed behind a carriage return ends a line of its own.
AdvanceByOne(c) ==
    IF Char(c) \in Terminator THEN [pos |-> c.pos + 1, line |-> c.line + 1, lineAt |-> c.pos + 1] ELSE Skip(c, 1)

\* advance: a carriage return and a line feed end one line.
Advance(c) ==
    LET past == c.pos + IF Char(c) = "cr" /\ Following(c) = "newline" THEN 2 ELSE 1
    IN  IF Char(c) \in Terminator THEN [pos |-> past, line |-> c.line + 1, lineAt |-> past] ELSE Skip(c, 1)

\* The longest run of characters of S from c on.
Run(c, S) == LET rest == From(Text, c.pos) IN IF AllIn(rest, S) THEN rest ELSE UpTo(rest, FirstNot(rest, S) - 1)

(* -------------------------- blanks and comments ------------------------ *)
RECURSIVE PastBlock(_)
PastBlock(c) ==
    IF Char(c) = "end" THEN Bad(c, "unterminated comment")
    ELSE IF Char(c) = "*" /\ Following(c) = "/" THEN Got(Skip(c, 2), <<>>) ELSE PastBlock(Advance(c))

LineEnd(c) == Skip(c, Find(Append(From(Text, c.pos), "newline"), Terminator) - 1)

RECURSIVE SkipSpace(_)
SkipSpace(c) ==
    LET block == PastBlock(Skip(c, 2))
    IN  IF Char(c) \in Blank \cup Terminator THEN SkipSpace(Advance(c))
        ELSE IF Char(c) = "/" /\ Following(c) = "/" THEN SkipSpace(LineEnd(Skip(c, 2)))
        ELSE IF Char(c) = "/" /\ Following(c) = "*"
             THEN IF block.error = "none" THEN SkipSpace(block.to) ELSE block
        ELSE Got(c, <<>>)

(* -------------------------------- strings ------------------------------ *)
\* The \u of an escape: a surrogate is one half of a pair or an error.
ReadUnicode(c) ==
    LET low == Skip(c, 2)
    IN  CASE Decoded[Char(c)] = "malformed" -> Bad(c, "invalid escape")
          [] Decoded[Char(c)] \in {"high", "low"} ->
                 IF Following(c) # "\\" \/ Char(low) \notin UnicodeEscape THEN Bad(Skip(c, 1), "unpaired surrogate")
                 ELSE IF Decoded[Char(low)] = "malformed" THEN Bad(low, "invalid escape")
                 ELSE IF Decoded[Char(c)] = "high" /\ Decoded[Char(low)] = "low" THEN Got(Skip(c, 3), <<"pair">>)
                 ELSE Bad(Skip(c, 3), "unpaired surrogate")
          [] OTHER -> Got(Skip(c, 1), <<Decoded[Char(c)]>>)

\* read_escape, behind the backslash: n stands for the letters with a meaning.
ReadEscape(c) ==
    CASE Char(c) = "end"           -> Bad(c, "unterminated escape")
      [] Char(c) \in Terminator    -> Got(Advance(c), <<>>)
      [] Char(c) = "n"             -> Got(Skip(c, 1), <<"newline">>)
      [] Char(c) = "0"             -> IF Following(c) \in DOMAIN DigitOf THEN Bad(c, "octal escape")
                                      ELSE Got(Skip(c, 1), <<"nul">>)
      [] Char(c) \in DOMAIN DigitOf \ {"0"} -> Bad(c, "digit escape")
      [] Char(c) \in UnicodeEscape -> ReadUnicode(c)
      [] Char(c) \in DOMAIN HexEscape ->
             IF HexEscape[Char(c)] = "malformed" THEN Bad(c, "invalid escape") ELSE Got(Skip(c, 1), <<HexEscape[Char(c)]>>)
      [] OTHER -> Got(Advance(c), <<Char(c)>>)

RECURSIVE ReadString(_, _, _)
ReadString(c, quote, out) ==
    LET escape == ReadEscape(Skip(c, 1))
    IN  IF Char(c) = "end" THEN Bad(c, "unterminated string")
        ELSE IF Char(c) = quote THEN Got(Skip(c, 1), out)
        ELSE IF Char(c) \in {"newline", "cr"} THEN Bad(c, "line terminator in string")
        ELSE IF Char(c) # "\\" THEN ReadString(Advance(c), quote, Append(out, Char(c)))
        ELSE IF escape.error # "none" THEN escape ELSE ReadString(escape.to, quote, out \o escape.value)

(* --------------------------------- keys -------------------------------- *)
RECURSIVE ReadIdentifier(_, _)
ReadIdentifier(c, out) ==
    LET legal == IF out = <<>> THEN IdentStart ELSE IdentPart
    IN  IF Char(c) = "\\"
        THEN IF Following(c) \notin UnicodeEscape THEN Bad(c, "escape in identifier")
             ELSE IF Decoded[Following(c)] \notin legal THEN Bad(Skip(c, 2), "not an identifier character")
             ELSE ReadIdentifier(Skip(c, 2), Append(out, Decoded[Following(c)]))
        ELSE IF Char(c) \in legal THEN ReadIdentifier(Skip(c, 1), Append(out, Char(c)))
        ELSE IF out = <<>> THEN Bad(c, "expected a key") ELSE Got(c, out)

ReadName(c) == IF Char(c) \in {"\"", "'"} THEN ReadString(Skip(c, 1), Char(c), <<>>) ELSE ReadIdentifier(c, <<>>)

(* ------------------------------- numbers ------------------------------- *)
\* What the scaled i64 makes of n, and how n is written.
Wrap(n)    == ((n + MaxI64 + 1) % (2 * (MaxI64 + 1))) - (MaxI64 + 1)
Spelled(n) ==
    LET mag == IF n < 0 THEN -n ELSE n
        len == Len(ToString(mag))
    IN  (IF n < 0 THEN <<"-">> ELSE <<>>) \o [i \in 1 .. len |-> DigitChar[1 + ((mag \div 10 ^ (len - i)) % 10)]]

\* A variant: the magnitude of the least integer fits with either sign.
LimitOfEither(minus) == MaxI64 + 1

LimitOf(minus) == IF minus THEN MaxI64 + 1 ELSE MaxI64

ReadHex(minus, c) ==
    LET digits == Run(c, DOMAIN HexOf)
        mag    == FoldLeft(LAMBDA v, d : Min({MaxI64 + 2, 16 * v + HexOf[d]}), 0, digits)
        past   == Skip(c, Len(digits))
    IN  IF digits = <<>> THEN Bad(c, "hex digit expected")
        ELSE IF mag > LimitOf(minus) THEN Bad(past, "does not fit")
        ELSE Got(past, Typed(Spelled(IF minus THEN Wrap(-Wrap(mag)) ELSE Wrap(mag)), "number"))

\* {:?} of a float, whose digits are ds and whose point is behind the first n.
FloatText(minus, ds, n) ==
    LET zeros(k) == [i \in 1 .. k |-> "0"]
        digits   == [i \in DOMAIN ds |-> DigitChar[ds[i] + 1]]
        rest     == From(digits, 2)
        whole    == IF n <= 0 THEN <<"0">> ELSE UpTo(digits \o zeros(n), n)
        frac     == IF n <= 0 THEN zeros(-n) \o digits ELSE From(digits, n + 1)
    IN  (IF minus THEN <<"-">> ELSE <<>>) \o
        IF ds = <<>> \/ n < Min(FloatPoints) THEN <<"0", ".", "0">>
        ELSE IF n \in PlainPoints THEN whole \o <<".">> \o (IF frac = <<>> THEN <<"0">> ELSE frac)
        ELSE UpTo(digits, 1) \o (IF rest = <<>> THEN <<>> ELSE <<".">> \o rest) \o <<"e">> \o Spelled(n - 1)

ReadFloat(text, past) ==
    LET d == ParseDecimal(text)
    IN  IF ~IsDecimal(text) \/ (d.digits # <<>> /\ Len(d.digits) + d.exp > Max(FloatPoints))
        THEN Bad(past, "malformed number")
        ELSE Got(past, Typed(FloatText(d.negative, d.digits, Len(d.digits) + d.exp), "number"))

\* The characters of a decimal, and what there is among them.
RECURSIVE ScanDecimal(_, _)
ScanDecimal(c, saw) ==
    IF Char(c) \in DOMAIN DigitOf THEN ScanDecimal(Skip(c, 1), saw \cup {"digit"})
    ELSE IF Char(c) = "." /\ saw \subseteq {"digit"} THEN ScanDecimal(Skip(c, 1), saw \cup {"point"})
    ELSE IF Char(c) \in Exponent /\ "digit" \in saw /\ "exponent" \notin saw
         THEN ScanDecimal(Skip(c, IF Following(c) \in Sign THEN 2 ELSE 1), saw \cup {"exponent"})
    ELSE Got(c, saw)

ReadDecimal(c, body) ==
    LET scan == ScanDecimal(body, {})
        text == SubSeq(Text, c.pos, scan.to.pos - 1)
        n    == UpToMax(text, MaxI64 + 2)
    IN  IF "digit" \notin scan.value THEN Bad(scan.to, "malformed number")
        ELSE IF scan.value # {"digit"} THEN ReadFloat(text, scan.to)
        ELSE IF FitsI64(n) THEN Got(scan.to, Typed(Spelled(n), "number")) ELSE Bad(scan.to, "does not fit")

\* A word that an identifier does not go on from.
Names(c, words) == Char(c) \in words /\ Following(c) \notin IdentPart

ReadNumber(c) ==
    LET body == IF Char(c) \in Sign THEN Skip(c, 1) ELSE c
    IN  IF Names(body, NotFinite) THEN Bad(body, "not representable")
        ELSE IF Char(body) = "0" /\ Following(body) = "x" THEN ReadHex(Char(c) = "-", Skip(body, 2))
        ELSE ReadDecimal(c, body)

ReadKeyword(c) ==
    IF Names(c, Literal) THEN Got(Skip(c, 1), Typed(<<Char(c)>>, IF Char(c) = "null" THEN "null" ELSE "boolean"))
    ELSE Bad(c, IF Names(c, NotFinite) THEN "not representable" ELSE "unexpected character")

ReadPlain(c) ==
    LET string == ReadName(c)
    IN  IF Char(c) \in {"\"", "'"}
        THEN IF string.error # "none" THEN string ELSE Got(string.to, Scalar(string.value))
        ELSE IF Char(c) \in Sign \cup {"."} \cup DOMAIN DigitOf THEN ReadNumber(c) ELSE ReadKeyword(c)

(* ----------------------------- the documents --------------------------- *)
\* merge_objects, and the insertion of a member: two objects merge.
RECURSIVE MergeFields(_, _)
MergeFields(old, new) ==
    [k \in DOMAIN new |->
        IF k \in DOMAIN old /\ old[k].t = "object" /\ new[k].t = "object"
        THEN Object(MergeFields(old[k].fields, new[k].fields)) ELSE new[k]] @@ old

Opened(c)      == IF Char(c) = "{" THEN [t |-> "object", fields |-> EmptyMap, key |-> <<>>] ELSE [t |-> "array", items |-> <<>>]
Closed(frame)  == IF frame.t = "object" THEN Object(frame.fields) ELSE [t |-> "array", items |-> frame.items]
With(frame, v) == IF frame.t = "object" THEN [frame EXCEPT !.fields = MergeFields(@, frame.key :> v)]
                  ELSE [frame EXCEPT !.items = Append(@, v)]

Scans == source.kind = "json5" /\ outcome = Reads

\* An error is where the cursor is then.
Stop(bad) == cursor' = bad.to /\ outcome' = Fails(bad.error, Position(bad.to)) /\ UNCHANGED <<open, want, root>>
Go(c, stack, next) == cursor' = c /\ open' = stack /\ want' = next /\ UNCHANGED <<root, outcome>>

\* parse_document and parse, behind the value.
EndDocument(v, gap) ==
    IF gap.error # "none" THEN Stop(gap)
    ELSE IF Char(gap.to) # "end" THEN Stop(Bad(gap.to, "content after the value"))
    ELSE /\ cursor' = gap.to /\ open' = <<>> /\ UNCHANGED want
         /\ IF v.t = "object" THEN root' = v /\ outcome' = Mounted
            ELSE outcome' = Fails("root is no object", <<>>) /\ UNCHANGED root

\* A value is complete: it goes to the container around it.
Deliver(v, c, stack) ==
    IF stack = <<>> THEN EndDocument(v, SkipSpace(c))
    ELSE Go(c, Append(Front(stack), With(Last(stack), v)), "separator")

\* parse_value and check_depth.
ReadValue ==
    /\ Scans /\ want = "value"
    /\ LET gap   == SkipSpace(cursor)
           c     == gap.to
           plain == ReadPlain(c)
       IN  IF gap.error # "none" THEN Stop(gap)
           ELSE IF Char(c) = "end" THEN Stop(Bad(c, "expected a value"))
           ELSE IF Char(c) \in {"{", "["}
                THEN IF Len(open) >= MaxDepth THEN Stop(Bad(c, "too deep")) ELSE Go(Skip(c, 1), Append(open, Opened(c)), "item")
           ELSE IF plain.error # "none" THEN Stop(plain) ELSE Deliver(plain.value, plain.to, open)
    /\ UNCHANGED <<source, taken, values, names, pairs>>

\* The head of the loops of parse_object and parse_array: an end, the name of
\* a member and its colon, or an item.
ReadItem ==
    /\ Scans /\ want = "item"
    /\ LET gap   == SkipSpace(cursor)
           c     == gap.to
           top   == Last(open)
           name  == ReadName(c)
           colon == SkipSpace(name.to)
       IN  IF gap.error # "none" THEN Stop(gap)
           ELSE IF Char(c) = "end" THEN Stop(Bad(c, "unterminated"))
           ELSE IF Char(c) = Closer[top.t] THEN Deliver(Closed(top), Skip(c, 1), Front(open))
           ELSE IF top.t = "array" THEN Go(c, open, "value")
           ELSE IF name.error # "none" THEN Stop(name)
           ELSE IF colon.error # "none" THEN Stop(colon)
           ELSE IF Char(colon.to) # ":" THEN Stop(Bad(colon.to, "colon expected"))
           ELSE Go(Skip(colon.to, 1), Append(Front(open), [top EXCEPT !.key = name.value]), "value")
    /\ UNCHANGED <<source, taken, values, names, pairs>>

\* The tail of these loops: a comma or an end.
ReadSeparator ==
    /\ Scans /\ want = "separator"
    /\ LET gap == SkipSpace(cursor)
           c   == gap.to
           top == Last(open)
       IN  IF gap.error # "none" THEN Stop(gap)
           ELSE IF Char(c) = "," THEN Go(Skip(c, 1), open, "item")
           ELSE IF Char(c) = Closer[top.t] THEN Deliver(Closed(top), Skip(c, 1), Front(open))
           ELSE Stop(Bad(c, "comma or end expected"))
    /\ UNCHANGED <<source, taken, values, names, pairs>>

JsonInit == cursor = [pos |-> 1, line |-> 1, lineAt |-> 1] /\ open = <<>> /\ want = "value"

ScanJson5 == ReadValue \/ ReadItem \/ ReadSeparator

(* -------------------------------- jsonc.rs ----------------------------- *)
JsoncTerminator == {"newline", "cr"}
JsonSpace       == Blank \cup Terminator

Handed(text) == [t |-> "handed", text |-> text]

\* The first of the characters of S from the i-th on, or the end.
NextOf(s, S, i) == i + Find(From(s, i) \o <<"end">>, S \cup {"end"}) - 1

\* end_of_string: behind the quote that closes the string, 0 if none does.
RECURSIVE EndOfString(_, _)
EndOfString(s, i) ==
    IF i > Len(s) THEN 0
    ELSE IF s[i] = "\\" THEN EndOfString(s, i + 2)
    ELSE IF s[i] = "\"" THEN i + 1 ELSE EndOfString(s, i + 1)

\* Where the comment that is open at the i-th character is closed.
CommentEnd(s, i) ==
    LET closing == {j \in i .. Len(s) - 1 : s[j] = "*" /\ s[j + 1] = "/"}
    IN  IF closing = {} THEN 0 ELSE Min(closing)

\* A variant: a comment leaves nothing behind.
NothingLeft(body) == SelectSeq(body, LAMBDA c : c \in JsoncTerminator)

\* What a block comment leaves: its line ends and a blank.
Remains(body) == SelectSeq(body, LAMBDA c : c \in JsoncTerminator) \o <<" ">>

\* strip_comments, from the i-th character on; the last element says how the
\* text ended.
RECURSIVE StripComments(_, _)
StripComments(s, i) ==
    IF i > Len(s) THEN <<"complete">>
    ELSE IF s[i] = "\""
         THEN IF EndOfString(s, i + 1) = 0 THEN <<"unterminated string">>
              ELSE SubSeq(s, i, EndOfString(s, i + 1) - 1) \o StripComments(s, EndOfString(s, i + 1))
    ELSE IF IsPrefix(<<"/", "/">>, From(s, i)) THEN StripComments(s, NextOf(s, JsoncTerminator, i))
    ELSE IF IsPrefix(<<"/", "*">>, From(s, i))
         THEN IF CommentEnd(s, i + 2) = 0 THEN <<"unterminated comment">>
              ELSE Remains(SubSeq(s, i + 2, CommentEnd(s, i + 2) - 1)) \o StripComments(s, CommentEnd(s, i + 2) + 2)
    ELSE <<s[i]>> \o StripComments(s, i + 1)

\* strip_trailing_commas: a comma before a closing bracket goes, the white
\* space between them stays.
RECURSIVE StripCommas(_, _)
StripCommas(s, i) ==
    LET next == FirstNot(From(s, i + 1) \o <<"end">>, JsonSpace) + i
    IN  IF i > Len(s) THEN <<>>
        ELSE IF s[i] = "\"" THEN SubSeq(s, i, EndOfString(s, i + 1) - 1) \o StripCommas(s, EndOfString(s, i + 1))
        ELSE IF s[i] # "," THEN <<s[i]>> \o StripCommas(s, i + 1)
        ELSE SubSeq(s, IF next <= Len(s) /\ s[next] \in {"}", "]"} THEN i + 1 ELSE i, next - 1) \o StripCommas(s, next)

\* parse, up to the call of serde_json.
CleanJsonc ==
    /\ source.kind = "jsonc" /\ outcome = Reads
    /\ LET bare == StripComments(Text, 1)
       IN  outcome' = IF Last(bare) = "complete" THEN Handed(StripCommas(Front(bare), 1)) ELSE Fails(Last(bare), <<>>)
    /\ UNCHANGED <<source, taken, values, names, pairs, root, jsonVars>>
=============================================================================
