-------------------------- MODULE ReadingProperties --------------------------
(***************************************************************************)
(* What reading a text promises, as far as it is proved for every text:    *)
(* where the tokens are, what they hold and what stands between them, how  *)
(* the calls of the parser nest, and that it gets further (Lexer_proofs,   *)
(* Parser_proofs).  The references for the lexer say what a stretch of     *)
(* characters holds by looking at all of it, for every reading there is.   *)
(***************************************************************************)
EXTENDS Parser

\* The variables have their types.
TypeOK ==
    /\ at \in 1 .. Len(tokens) + 1 /\ depth \in 0 .. MaxDepth
    /\ line \in Nat \ {0} /\ col \in Nat \ {0} /\ pos \in 1 .. Len(input) + 1
    /\ parsing = "done" => depth = 0 /\ Len(stack) = 1

(* ------------------------------ positions ------------------------------ *)
\* A byte order mark is no column.
Home == IF Char(1) = "bom" THEN 2 ELSE 1
\* The line and the column of position i, by the text before it.
LineAt(i) == 1 + Cardinality(Newlines(1, i))
ColAt(i)  == i - (IF Newlines(1, i) = {} THEN Home - 1 ELSE LastOf(Newlines(1, i)))

Blank(i)      == Char(i) \in Whitespace \ {Newline}
Only(i, j, S) == \A k \in i .. j - 1 : Char(k) \in S
Triple(i)     == Is(i, <<Quote, Quote, Quote>>)
Breaks(i)     == Is(i, <<"+", "=">>) \/ Is(i, <<"/", "/">>)

(* ------------------------- the shapes of a token ----------------------- *)
\* The character at k is escaped: an odd number of backslashes precedes it.
Escaped(i, k) ==
    \E n \in 1 .. k - i : n % 2 = 1 /\ Only(k - n, k, {Backslash}) /\ Char(k - n - 1) # Backslash
Hexes(k) == Text(k + 1, k + 5)
ReadsQuoted(i, j) ==
    /\ j - i >= 2 /\ Char(i) = Quote /\ Char(j - 1) = Quote
    /\ \A k \in i + 1 .. j - 1 :
          /\ Char(k) # Newline
          /\ Char(k) = Quote => (Escaped(i, k) <=> k # j - 1)
          /\ Escaped(i, k) => Char(k) \in DOMAIN Escapes \/ (Char(k) = "u" /\ k + 4 <= Len(input) /\ Hexes(k) \in DOMAIN CodePoint)

ReadsTriple(i, j) ==
    /\ j - i >= 6 /\ Triple(i) /\ Triple(j - 3) /\ Char(j) # Quote
    /\ \A k \in i + 3 .. j - 3 : Triple(k) => Only(k, j, {Quote})

ReadsUnquoted(i, j) ==
    /\ j > i /\ Char(i) # "+"
    /\ \A k \in i .. j - 1 : Char(k) \notin Whitespace \cup Forbidden /\ ~Breaks(k)
    /\ Char(j) \in Whitespace \cup Forbidden \cup {""} \/ Breaks(j)

\* Between ${ and }, on one line.
Encloses(i, j) ==
    /\ Is(i, <<"$", "{">>) /\ j - i >= 4 /\ Char(j - 1) = "}"
    /\ \A k \in i .. j - 1 : Char(k) # Newline

\* What token t is read from has the shape of its kind, at its full length.
HasShape(t) ==
    LET i == t.from
        j == t.to
    IN  CASE t.kind = "quoted"   -> ReadsQuoted(i, j) /\ ~Triple(i)
          [] t.kind = "triple"   -> ReadsTriple(i, j) /\ t.value = Text(i + 3, j - 3)
          [] t.kind = "unquoted" -> ReadsUnquoted(i, j) /\ t.value = Text(i, j)
          [] t.kind = "subst"    -> Encloses(i, j)
          [] t.kind = "newline"  -> Text(i, j) = <<Newline>>
          [] t.kind = "+="       -> Text(i, j) = <<"+", "=">>
          [] t.kind = "eof"      -> i = Len(input) + 1 /\ j = i
          [] OTHER               -> Text(i, j) = <<t.kind>>

(* --------------------------- between the tokens ------------------------ *)
\* A character in a comment that begins at i or after it.
Commented(i, k) == \E c \in i .. k : /\ Is(c, <<"/", "/">>) \/ Is(c, <<"#">>)
                                     /\ Newlines(c, k + 1) = {}
GapBefore(n) == IF n = 1 THEN Home ELSE tokens[n - 1].to
\* Only blanks and comments stand before token n, and line ends after the one
\* that is a token; whether something does is what the token says.
GoodGap(n) ==
    LET i == GapBefore(n)
        j == tokens[n].from
    IN  /\ i <= j
        /\ \A k \in i .. j - 1 : Char(k) \in Whitespace \/ Commented(i, k)
        /\ Newlines(i, j) # {} => n > 1 /\ tokens[n - 1].kind = "newline"
        /\ Newlines(i, j) = {} /\ tokens[n].kind # "eof" => (tokens[n].space <=> i < j)

\* Every token is where it says: the line and the column of a message follow
\* from the text before it, whatever was read on the way (line ends in
\* triple-quoted strings and comments, escapes, a byte order mark).  And the
\* tokens follow one another in the text: each is all that can be read at its
\* place, and no character is lost or read twice between two of them.
Located ==
    \A n \in DOMAIN tokens :
        /\ tokens[n].line = LineAt(tokens[n].from) /\ tokens[n].col = ColAt(tokens[n].from)
        /\ HasShape(tokens[n]) /\ GoodGap(n)

(* --------------------------- what a token holds ------------------------ *)
\* f of the members of S from i to j, in order.
InOrder(S, f, i, j) ==
    LET upto[k \in i .. Len(input) + 1] ==
            IF k = i THEN <<>> ELSE IF k - 1 \in S THEN Append(upto[k - 1], f[k - 1]) ELSE upto[k - 1]
    IN  upto[j]

\* The character at k of the string that begins at i stands for one: it is no
\* backslash before another character, and no digit of an escape.
Counts(i, k) == /\ Char(k) = Backslash => Escaped(i, k)
                /\ \A u \in k - 4 .. k - 1 : ~(u > i /\ Char(u) = "u" /\ Escaped(i, u))
Means(i, k)  == IF ~Escaped(i, k) THEN Char(k)
                ELSE IF Char(k) = "u" THEN CodePoint[Hexes(k)] ELSE Escapes[Char(k)]
\* What the string between i and j stands for.
Decoded(i, j) == InOrder({k \in i + 1 .. j - 2 : Counts(i, k)}, [k \in i + 1 .. j - 2 |-> Means(i, k)], i + 1, j - 1)

\* The sequences of S with the same one before them.
After(first, S) == {first \o rest : rest \in S}
\* What may stand between i and j as part of one segment of a path, when
\* rest[k] may stand between k and j: a string and more, or a character and more.
StringFirst(rest, i, j) == UNION {After(Decoded(i, k), rest[k]) : k \in {k \in i + 2 .. j : ReadsQuoted(i, k)}}
LetterFirst(rest, i)    == IF InSubst(Char(i)) \/ Blank(i) THEN After(<<Char(i)>>, rest[i + 1]) ELSE {}
Fragment(rest, i, j)    == IF i = j THEN {<<>>} ELSE StringFirst(rest, i, j) \cup LetterFirst(rest, i)
Fragments(i, j) == LET rest[k \in 1 .. j] == Fragment(rest, k, j) IN rest[i]
\* A segment, without the blanks around it.
Solid(i, j)    == {k \in i .. j - 1 : ~Blank(k)}
FirstOf(S)     == CHOOSE k \in S : \A l \in S : k <= l
BareMinus(i)   == Char(i) = "-" /\ Char(i + 1) \notin Digit
Segments(i, j) ==
    IF Solid(i, j) = {} \/ BareMinus(FirstOf(Solid(i, j))) THEN {}
    ELSE Fragments(FirstOf(Solid(i, j)), LastOf(Solid(i, j)) + 1)
\* And the segments from i to j, when rest[k] may be those from k on.
PathFrom(rest, i, j) ==
    {<<s>> : s \in Segments(i, j)} \cup
    UNION {UNION {After(<<s>>, rest[k + 1]) : s \in Segments(i, k)} : k \in {k \in i .. j - 1 : Char(k) = "."}}
PathsIn(i, j) == LET rest[k \in 1 .. j] == PathFrom(rest, k, j) IN rest[i]
\* The readings of ${...} between i and j.
Payloads(i, j) ==
    LET optional == Char(i + 2) = "?"
        first    == IF optional THEN i + 3 ELSE i + 2
        list     == Is(j - 3, <<"[", "]", "}">>)
        last     == IF list THEN j - 3 ELSE j - 1
        wide(k)  == Blank(k) /\ Char(k) \notin {" ", "\t"} /\ Only(k, last, Whitespace)
    IN  IF /\ Is(i, <<"$", "{">>) /\ Char(j - 1) = "}" /\ first < last
           /\ ~(list /\ \E k \in first .. last - 1 : wide(k))
        THEN {[segments |-> s, optional |-> optional, list |-> list] : s \in PathsIn(first, last)}
        ELSE {}

\* The blanks that stand between i and j and in no comment.
BlanksIn(i, j) == InOrder({k \in DOMAIN input : Blank(k) /\ ~Commented(i, k)}, input, i, j)
\* Token n holds what stands between its two positions, and the blanks before it.
Reads(n) ==
    LET t == tokens[n]
        i == GapBefore(n)
    IN  /\ t.kind = "quoted" => t.value = Decoded(t.from, t.to)
        /\ t.kind = "subst"  => Payloads(t.from, t.to) = {t.subst}
        /\ (\A k \in i .. t.from - 1 : Char(k) # Newline) /\ t.kind # "eof" => t.blanks = BlanksIn(i, t.from)
\* Nothing that begins at i is a token, a blank or a comment.
Hopeless(i) ==
    /\ Char(i) \notin Whitespace \cup DOMAIN Punctuation \cup {"#"} /\ ~Breaks(i)
    /\ \A j \in i + 1 .. Len(input) + 1 :
          /\ ~(ReadsQuoted(i, j) /\ ~Triple(i)) /\ ~ReadsTriple(i, j)
          /\ ~(Starts(Char(i)) /\ ReadsUnquoted(i, j)) /\ Payloads(i, j) = {}

\* Each token (they cover the text, by Located) holds what the grammar reads at
\* its place, decoded, the blanks a token carries are those that stand before it,
\* and a text is refused only where no token can be read.
TokensDecoded ==
    /\ lexing = "done" => \A n \in DOMAIN tokens : Reads(n)
    /\ lexing \notin {"on", "done"} => Hopeless(IF sub.open THEN sub.at ELSE pos)

(* ------------------------------- the calls ----------------------------- *)
\* Above the root, objects and arrays take turns with the keys and values that
\* stand in them; a key is read for an object and calls nothing.
Stands(s, i) ==
    /\ i = 1 => s[i].t = "root"
    /\ i # 1 /\ i % 2 = 0 => s[i].t \in {"object", "array"}
    /\ i # 1 /\ i % 2 # 0 => \/ s[i].t = "value"
                             \/ s[i].t = "key" /\ i = Len(s) /\ s[i - 1].t = "object"
Alternates(s) == \A i \in DOMAIN s : Stands(s, i)

\* The guard of enter bounds the recursion of the parser, whatever it reads and
\* however it goes back: the counter, which enter and leave move in different
\* functions, is the number of objects and arrays in progress, no more than the
\* limit, and all other calls stand between them.
CallsNest ==
    /\ depth \in 0 .. MaxDepth
    /\ Len(stack) \in {2 * depth, 2 * depth + 1}
    /\ Alternates(stack)
    /\ parsing = "done" => depth = 0

Brackets == {"{", "[", "}", "]"}
Unbraced == {i \in DOMAIN stack : stack[i].t = "object" /\ ~stack[i].braced}
Among(kinds, n) == {i \in 1 .. n - 1 : Kind(i) \in kinds}
\* How deep token n stands.
Level(n) == Cardinality(Among({"{", "["}, n)) - Cardinality(Among({"}", "]"}, n))

\* A bracket between file( and the path of an include (parser.rs:935) is passed
\* over with whatever else stands there.
NamesFile(i) ==
    /\ Word(i) # <<>>
    /\ \E w \in {Word(i), Tail(Word(i)), SubSeq(Word(i), 3, Len(Word(i)))} : Form(w) = "file"
Hides(i) ==
    /\ AtInclude(i)
    /\ \E k \in i .. Len(tokens) :
          /\ Kind(k) \in Brackets
          /\ \A n \in i .. k : Kind(n) # "quoted"
          /\ \E n \in i .. k : NamesFile(n)

\* The counter that guards against a stack overflow is the nesting of the
\* document at the token being read, whatever way objects and arrays are left;
\* but for the brackets that an include directive has hidden.
DepthIsNesting ==
    parsing \in {"on", "done"} /\ (\A i \in 1 .. at - 1 : ~Hides(i)) =>
        depth = Level(at) + Cardinality(Unbraced)

\* What is left to do: the tokens ahead, and how far the call on top is from
\* reading one or returning.
RankOf(f) ==
    CASE f.t = "root" /\ f.shape \in {"end", "nothing"}    -> 1
      [] f.t = "value" /\ f.parts = <<>>                   -> 2
      [] f.t = "key"                                       -> 3
      [] f.t \in {"object", "array"}                       -> 4
      [] f.t = "value" /\ f.parts # <<>>                   -> 5
      [] f.t = "root" /\ f.shape \notin {"end", "nothing"} -> 6
Rank == CASE parsing = "off" -> 7
          [] parsing = "on"  -> RankOf(Top)
          [] OTHER           -> 0
Fuel == 8 * (Len(tokens) + 1 - at) + Rank

\* No loop of the parser turns without getting further: each step reads a
\* token, or returns to a call that has read one, or begins a call that has to.
\* A text of n tokens is read in no more than 8 (n + 1) + 7 steps.
Advances == [][ParseStep => Fuel' \in Nat /\ Fuel' < Fuel]_vars
=============================================================================
