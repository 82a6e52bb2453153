------------------------------- MODULE Lexer --------------------------------
(***************************************************************************)
(* From characters to tokens (src/lexer.rs): one action per turn of the    *)
(* loop of tokenize, and one per turn of the loop of parse_subst_body,     *)
(* which reads what is between ${ and }.                                   *)
(*                                                                         *)
(* A character is a string.  The words the grammar gives a meaning to      *)
(* (include, required, file, package) are single characters too: nothing   *)
(* in the code looks inside them.                                          *)
(***************************************************************************)
EXTENDS Integers, Sequences, FiniteSets

CONSTANTS
    Documents,    \* the families of texts to read: a text is a sequence of characters
    CodePoint     \* [four hexadecimal digits -> character]; a surrogate has none

\* The empty string stands for what is not in the text.
ASSUME TextsAssumption ==
    \A f \in DOMAIN Documents : \A s \in Documents[f] :
        s \in Seq(STRING) /\ \A i \in DOMAIN s : s[i] # ""

VARIABLES
    input,     \* the text
    pos,       \* the next character
    line, col, \* where it is, for messages
    space,     \* blanks or a comment precede it (had_space)
    blanks,    \* the blanks since the last token (whitespace_buffer)
    tokens,
    sub,       \* the substitution being read
    lexing     \* "on", "done" or the error

lexer == <<input, pos, line, col, space, blanks, tokens, sub, lexing>>

(* ------------------------------ characters ----------------------------- *)
Newline    == "\n"
Quote      == "\""
Backslash  == "\\"
Whitespace == {" ", "\t", "nbsp", "bom", Newline}    \* is_hocon_whitespace
Digit      == {"0", "1", "2", "3", "4", "5", "6", "7", "8", "9"}

Forbidden == {"{", "}", "[", "]", ",", ":", "=", "#", Quote, "$", "?", "!",
              "@", "*", "&", "backtick", "^", Backslash}
HexDigit  == Digit \cup {"a", "b", "c", "d", "e", "f", "A", "B", "C", "D", "E", "F"}

ASSUME CodePointAssumption ==
    \A h \in DOMAIN CodePoint : Len(h) = 4 /\ \A k \in 1 .. 4 : h[k] \in HexDigit

InSubst(c) == c \notin Whitespace \cup Forbidden \cup {"+", "."}
Starts(c)  == c \notin Whitespace \cup Forbidden \cup {"+"}

Char(i)        == IF i \in 1 .. Len(input) THEN input[i] ELSE ""
Is(i, word)    == \A k \in 1 .. Len(word) : Char(i + k - 1) = word[k]
Text(i, j)     == SubSeq(input, i, j - 1)
Continues(i)   == /\ i <= Len(input) /\ input[i] \notin Whitespace \cup Forbidden
                  /\ ~Is(i, <<"+", "=">>) /\ ~Is(i, <<"/", "/">>)
\* The first position from i on that is not in S.
Past(i, S) == CHOOSE j \in i .. Len(input) + 1 : j \notin S /\ \A k \in i .. j - 1 : k \in S

(* -------------------------------- tokens ------------------------------- *)
Punctuation == [c \in {"{", "}", "[", "]", ",", ":", "="} |-> c]
NoPayload   == [segments |-> <<>>, optional |-> FALSE, list |-> FALSE]
NoSub       == [open |-> FALSE, optional |-> FALSE, text |-> <<>>, started |-> FALSE,
                pending |-> <<>>, segments |-> <<>>, at |-> 0, col |-> 0]

\* from and to are history: the characters the token was read from.
Token(kind, value, payload, from, to, c) ==
    [kind |-> kind, value |-> value, subst |-> payload, line |-> line, col |-> c,
     space |-> space, blanks |-> blanks, from |-> from, to |-> to]

\* A variant: the blanks before a token stay for the next one.
PushKeepingBlanks(t) == tokens' = Append(tokens, t) /\ space' = FALSE /\ UNCHANGED blanks
Push(t)  == tokens' = Append(tokens, t) /\ space' = FALSE /\ blanks' = <<>>
Wrong(e) == lexing' = e /\ UNCHANGED <<input, pos, line, col, space, blanks, tokens, sub>>
\* A token on one line, up to position j.
Emit(kind, value, j) ==
    /\ Push(Token(kind, value, NoPayload, pos, j, col))
    /\ pos' = j /\ col' = col + (j - pos)
    /\ UNCHANGED <<input, line, sub, lexing>>

LexInit ==
    /\ \E f \in DOMAIN Documents : input \in Documents[f]
    /\ pos = (IF Len(input) > 0 /\ input[1] = "bom" THEN 2 ELSE 1)
    /\ line = 1 /\ col = 1
    /\ space = FALSE /\ blanks = <<>>
    /\ tokens = <<>> /\ sub = NoSub /\ lexing = "on"

Reading    == lexing = "on" /\ ~sub.open /\ pos <= Len(input)
InPath     == lexing = "on" /\ sub.open
Commenting == Is(pos, <<"/", "/">>) \/ Is(pos, <<"#">>)

(* --------------------------- blanks and comments ----------------------- *)
\* Of several newlines only the first becomes a token.
LexNewline ==
    /\ Reading /\ Char(pos) = Newline
    /\ IF tokens # <<>> /\ tokens[Len(tokens)].kind = "newline"
       THEN UNCHANGED <<tokens, space, blanks>>
       ELSE Push(Token("newline", <<Newline>>, NoPayload, pos, pos + 1, col))
    /\ pos' = pos + 1 /\ line' = line + 1 /\ col' = 1
    /\ UNCHANGED <<input, sub, lexing>>

LexBlank ==
    /\ Reading /\ Char(pos) \in Whitespace \ {Newline}
    /\ blanks' = Append(blanks, Char(pos)) /\ space' = TRUE
    /\ pos' = pos + 1 /\ col' = col + 1
    /\ UNCHANGED <<input, line, tokens, sub, lexing>>

LexComment ==
    /\ Reading /\ Commenting
    /\ pos' = Past(pos, {i \in 1 .. Len(input) : input[i] # Newline})
    /\ col' = col + (pos' - pos)
    /\ space' = TRUE
    /\ UNCHANGED <<input, line, blanks, tokens, sub, lexing>>

(* --------------------------------- words ------------------------------- *)
LexPunctuation ==
    /\ Reading
    /\ \/ Char(pos) \in DOMAIN Punctuation /\ Emit(Punctuation[Char(pos)], <<Char(pos)>>, pos + 1)
       \/ Is(pos, <<"+", "=">>) /\ Emit("+=", <<"+", "=">>, pos + 2)

\* The value is trimmed at its end (lexer.rs:396), which changes nothing: of
\* the white space that trim_end knows, U+0085 alone is none of HOCON's and so
\* can stand in a word, and it is not among the characters of the texts.
LexUnquoted ==
    /\ Reading /\ Starts(Char(pos)) /\ ~Commenting
    /\ \E j \in {Past(pos, {i \in 1 .. Len(input) : Continues(i)})} :
           Emit("unquoted", Text(pos, j), j)

\* read_quoted_body: what stands between the quotes, from i on.
Escapes == [c \in {Quote, Backslash, "/", "n", "t", "r", "b", "f"} |->
                CASE c = "n" -> Newline [] c = "t" -> "\t" [] c = "r" -> "\r"
                  [] c = "b" -> "backspace" [] c = "f" -> "\f" [] OTHER -> c]
Prefixed(c, rest) == [rest EXCEPT !.text = <<c>> \o @]
Unread(e)         == [ok |-> FALSE, why |-> e, text |-> <<>>, to |-> 0]
IsUnicode(j)      == /\ Char(j) = Backslash /\ Char(j + 1) = "u" /\ j + 5 <= Len(input)
                     /\ Text(j + 2, j + 6) \in DOMAIN CodePoint
\* A turn at j, where body[k] is what the loop gives from k on.
QuotedTurn(body, j) ==
    CASE Char(j) \in {"", Newline} -> Unread("unterminated string")
      [] Char(j) = Quote -> [ok |-> TRUE, why |-> "", text |-> <<>>, to |-> j + 1]
      [] Char(j) \notin {"", Newline, Quote, Backslash} -> Prefixed(Char(j), body[j + 1])
      [] Char(j) = Backslash /\ Char(j + 1) = "" -> Unread("unterminated string")
      [] Char(j) = Backslash /\ Char(j + 1) \in DOMAIN Escapes -> Prefixed(Escapes[Char(j + 1)], body[j + 2])
      [] IsUnicode(j) -> Prefixed(CodePoint[Text(j + 2, j + 6)], body[j + 6])
      [] OTHER -> Unread("invalid escape")
QuotedBody(i) ==
    LET body[j \in i .. Len(input) + 1] == QuotedTurn(body, j) IN body[i]

LexQuoted ==
    /\ Reading /\ Char(pos) = Quote /\ ~Is(pos, <<Quote, Quote, Quote>>)
    /\ \E body \in {QuotedBody(pos + 1)} :
           IF body.ok THEN Emit("quoted", body.text, body.to) ELSE Wrong(body.why)

\* The first run of three quotes or more closes; the last three of it are the
\* delimiter.
TripleStops == {i \in pos + 3 .. Len(input) : Is(i, <<Quote, Quote, Quote>>)}
TripleEnd   == LET i == CHOOSE i \in TripleStops : \A k \in TripleStops : i <= k
               IN  Past(i, {k \in 1 .. Len(input) : input[k] = Quote})
Newlines(i, j) == {k \in i .. j - 1 : input[k] = Newline}
LastOf(S)      == CHOOSE k \in S : \A l \in S : l <= k

\* Where the text from i to j leaves the cursor.  A variant: the column goes on.
LineAfter(i, j)    == line + Cardinality(Newlines(i, j))
ColOnOneLine(i, j) == col + (j - i)
ColAfter(i, j)     == IF Newlines(i, j) = {} THEN col + (j - i) ELSE j - LastOf(Newlines(i, j))

LexTriple ==
    /\ Reading /\ Is(pos, <<Quote, Quote, Quote>>)
    /\ IF TripleStops = {} THEN Wrong("unterminated triple-quoted string")
       ELSE \E j \in {TripleEnd} :
              /\ Push(Token("triple", Text(pos + 3, j - 3), NoPayload, pos, j, col))
              /\ pos' = j
              /\ line' = LineAfter(pos, j) /\ col' = ColAfter(pos, j)
              /\ UNCHANGED <<input, sub, lexing>>

LexUnexpected ==
    /\ Reading
    /\ \/ Char(pos) \in Forbidden \ (DOMAIN Punctuation \cup {"#", Quote, "$"})
       \/ Char(pos) = "$" /\ ~Is(pos, <<"$", "{">>)
       \/ Char(pos) = "+" /\ ~Is(pos, <<"+", "=">>)
    /\ Wrong("unexpected character")

(* ----------------------------- substitutions --------------------------- *)
LexSubst ==
    /\ Reading /\ Is(pos, <<"$", "{">>)
    /\ \E n \in {IF Char(pos + 2) = "?" THEN 3 ELSE 2} :
           /\ sub' = [NoSub EXCEPT !.open = TRUE, !.optional = (n = 3), !.at = pos, !.col = col]
           /\ pos' = pos + n /\ col' = col + n
    /\ UNCHANGED <<input, line, space, blanks, tokens, lexing>>

\* A variant: the blanks between two pieces of a segment are lost.
SubAppendBare(text, j) ==
    /\ sub' = [sub EXCEPT !.text = @ \o text, !.started = TRUE, !.pending = <<>>]
    /\ pos' = j /\ col' = col + (j - pos)
    /\ UNCHANGED <<input, line, space, blanks, tokens, lexing>>
\* A word or a quoted string goes on the segment, with the blanks before it
\* unless it is the first of the segment.
SubAppend(text, j) ==
    /\ sub' = [sub EXCEPT !.text = @ \o (IF sub.started THEN sub.pending ELSE <<>>) \o text,
                          !.started = TRUE, !.pending = <<>>]
    /\ pos' = j /\ col' = col + (j - pos)
    /\ UNCHANGED <<input, line, space, blanks, tokens, lexing>>

SubQuoted ==
    /\ InPath /\ Char(pos) = Quote
    /\ \E body \in {QuotedBody(pos + 1)} :
           IF body.ok THEN SubAppend(body.text, body.to) ELSE Wrong(body.why)

SubWord ==
    /\ InPath /\ Char(pos) # "" /\ InSubst(Char(pos))
    /\ IF Char(pos) = "-" /\ ~sub.started /\ Char(pos + 1) \notin Digit
       THEN Wrong("segment begins with '-'")
       ELSE \E j \in {Past(pos, {i \in 1 .. Len(input) : InSubst(input[i])})} :
                SubAppend(Text(pos, j), j)

SubDot ==
    /\ InPath /\ Char(pos) = "."
    /\ IF ~sub.started THEN Wrong("empty segment in path")
       ELSE /\ sub' = [sub EXCEPT !.segments = Append(@, sub.text), !.text = <<>>,
                                  !.started = FALSE, !.pending = <<>>]
            /\ pos' = pos + 1 /\ col' = col + 1
            /\ UNCHANGED <<input, line, space, blanks, tokens, lexing>>

SubBlank ==
    /\ InPath /\ Char(pos) \in Whitespace \ {Newline}
    /\ sub' = [sub EXCEPT !.pending = Append(@, Char(pos))]
    /\ pos' = pos + 1 /\ col' = col + 1
    /\ UNCHANGED <<input, line, space, blanks, tokens, lexing>>

EndSubst(segments, list, j) ==
    /\ Push(Token("subst", <<>>,
                  [segments |-> segments, optional |-> sub.optional, list |-> list],
                  sub.at, j, sub.col))
    /\ pos' = j /\ col' = col + (j - pos)
    /\ sub' = NoSub
    /\ UNCHANGED <<input, line, lexing>>

SubEnd ==
    /\ InPath /\ Char(pos) = "}"
    /\ IF sub.started THEN EndSubst(Append(sub.segments, sub.text), FALSE, pos + 1)
       ELSE Wrong(IF sub.segments = <<>> THEN "empty substitution path" ELSE "empty segment in path")

\* The suffix [] asks for a list from the environment.
SubList ==
    /\ InPath /\ Char(pos) = "["
    /\ CASE ~sub.started -> Wrong("empty segment before []")
         [] sub.started /\ \E i \in DOMAIN sub.pending : sub.pending[i] \notin {" ", "\t"} ->
              Wrong("blank before []")
         [] OTHER ->
              IF Is(pos, <<"[", "]", "}">>)
              THEN EndSubst(Append(sub.segments, sub.text), TRUE, pos + 3)
              ELSE Wrong("malformed []")

SubUnexpected ==
    /\ InPath
    /\ Char(pos) \in {"", Newline, "+"} \cup (Forbidden \ {"}", "[", Quote})
    /\ Wrong(IF Char(pos) \in {"", Newline} THEN "unterminated substitution" ELSE "unexpected character")

\* The end of the text.
LexEnd ==
    /\ lexing = "on" /\ ~sub.open /\ pos > Len(input)
    /\ tokens' = Append(tokens, [Token("eof", <<>>, NoPayload, pos, pos, col)
                                   EXCEPT !.space = FALSE, !.blanks = <<>>])
    /\ lexing' = "done"
    /\ UNCHANGED <<input, pos, line, col, space, blanks, sub>>

SubStep == SubQuoted \/ SubWord \/ SubDot \/ SubBlank \/ SubEnd \/ SubList \/ SubUnexpected
LexStep ==
    \/ LexNewline \/ LexBlank \/ LexComment \/ LexPunctuation \/ LexUnquoted
    \/ LexQuoted \/ LexTriple \/ LexSubst \/ LexUnexpected \/ LexEnd \/ SubStep
=============================================================================
