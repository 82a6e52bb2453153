-------------------------- MODULE FormatProperties --------------------------
(***************************************************************************)
(* What the adapters of other formats owe their callers.  The reference    *)
(* for JSON5 is a grammar: the values that a text denotes, over every way  *)
(* to cut it; for JSONC the tokens of the text, each with its line; for    *)
(* YAML the entries that stand for a key.                                  *)
(***************************************************************************)
EXTENDS Readers, UnitProperties

(* -------------------------------- lines -------------------------------- *)
\* Where a line of the text ends: a carriage return before a line feed is not
\* the end yet.
Ends == {i \in DOMAIN Text : Text[i] \in Terminator /\ ~(Text[i] = "cr" /\ i < Len(Text) /\ Text[i + 1] = "newline")}

(* --------------------------- JSON5: the grammar ------------------------ *)
\* Blanks, line ends and comments; a line comment takes its line end with it.
LineComment(s)  == IsPrefix(<<"/", "/">>, s) /\ Last(s) \in Terminator /\ Find(Front(s), Terminator) = 0
BlockComment(s) == /\ Len(s) >= 4 /\ IsPrefix(<<"/", "*">>, s) /\ IsSuffix(<<"*", "/">>, s)
                   /\ \A i \in 3 .. Len(s) - 2 : SubSeq(s, i, i + 1) # <<"*", "/">>
RECURSIVE Gap(_)
Gap(s) ==
    \/ s = <<>>
    \/ s[1] \in Blank \cup Terminator /\ Gap(Tail(s))
    \/ s[1] = "/" /\ \E n \in 3 .. Len(s) : (LineComment(UpTo(s, n)) \/ BlockComment(UpTo(s, n))) /\ Gap(From(s, n + 1))

\* The escapes, and what they are: the longest one counts.
EscapeTable ==
    [e \in {<<"\\", t>> : t \in Terminator} \cup {<<"\\", "cr", "newline">>} |-> <<>>]
 @@ <<"\\", "n">> :> <<"newline">> @@ <<"\\", "0">> :> <<"nul">>
 @@ <<"\\", "uD83D", "\\", "uDE00">> :> <<"pair">>
 @@ [e \in {<<"\\", u>> : u \in {v \in UnicodeEscape : Decoded[v] \notin {"high", "low", "malformed"}}} |-> <<Decoded[e[2]]>>]
 @@ [e \in {<<"\\", h>> : h \in {v \in DOMAIN HexEscape : HexEscape[v] # "malformed"}} |-> <<HexEscape[e[2]]>>]

\* What s holds between quotes, as a set of at most one text.
RECURSIVE Contents(_, _)
Contents(s, quote) ==
    LET known == {e \in DOMAIN EscapeTable : IsPrefix(e, s)}
        e     == CHOOSE k \in known : \A j \in known : Len(j) <= Len(k)
        Then(text, rest) == {text \o t : t \in Contents(rest, quote)}
    IN  IF s = <<>> THEN {<<>>}
        ELSE IF known # {}
             THEN IF e = <<"\\", "0">> /\ Len(s) > 2 /\ s[3] \in DOMAIN DigitOf THEN {}
                  ELSE Then(EscapeTable[e], From(s, Len(e) + 1))
        ELSE IF s[1] = "\\"
             THEN IF Len(s) = 1 \/ s[2] \in DOMAIN DigitOf \cup DOMAIN HexEscape \cup UnicodeEscape THEN {}
                  ELSE Then(<<s[2]>>, From(s, 3))
        ELSE IF s[1] \in {quote, "newline", "cr"} THEN {} ELSE Then(<<s[1]>>, Tail(s))

Strings5(s) ==
    IF Len(s) >= 2 /\ s[1] \in {"\"", "'"} /\ Last(s) = s[1] THEN Contents(SubSeq(s, 2, Len(s) - 1), s[1]) ELSE {}

\* The names that s spells without quotes.
RECURSIVE Identifiers(_)
Identifiers(s) ==
    LET n == IF Len(s) >= 2 /\ s[Len(s) - 1] = "\\" THEN 2 ELSE 1
        c == IF n = 1 THEN Last(s) ELSE IF Last(s) \in UnicodeEscape THEN Decoded[Last(s)] ELSE "no escape"
        front == UpTo(s, Len(s) - n)
    IN  IF s = <<>> THEN {}
        ELSE IF front = <<>> THEN IF c \in IdentStart THEN {<<c>>} ELSE {}
        ELSE IF c \in IdentPart THEN {Append(name, c) : name \in Identifiers(front)} ELSE {}

\* A number by its worth: whether it is below zero, its digits without zeros
\* around them, the exponent, and whether it is a float.
RECURSIVE Normalized(_, _)
Normalized(n, e) == IF n = 0 THEN <<0, 0>> ELSE IF n % 10 = 0 THEN Normalized(n \div 10, e + 1) ELSE <<n, e>>
Worth5(v, float) ==
    [negative |-> v.negative /\ v.mantissa # 0, worth |-> Normalized(v.mantissa, v.exp), float |-> float]
IsFloat(s) == Find(s, Exponent \cup {"."}) # 0

Integers5(negative, n) ==
    IF n > (IF negative THEN MaxI64 + 1 ELSE MaxI64) THEN {}
    ELSE {Worth5([negative |-> negative, mantissa |-> n, exp |-> 0], FALSE)}

HexValue(ds) == FoldLeft(LAMBDA v, d : 16 * v + HexOf[d], 0, ds)
Hexes(s) ==
    LET body == Unsigned(s)
    IN  IF Len(body) > 2 /\ IsPrefix(<<"0", "x">>, body) /\ AllIn(From(body, 3), DOMAIN HexOf)
        THEN Integers5(Minus(s), HexValue(From(body, 3))) ELSE {}

\* A float is too large with its point too far right, and zero too far left.
Magnitude5(v) == IF v.mantissa = 0 THEN 0 ELSE Len(ToString(v.mantissa)) + v.exp
Floats(s) ==
    {IF v.mantissa = 0 \/ Magnitude5(v) < Min(FloatPoints) THEN Worth5([v EXCEPT !.mantissa = 0], TRUE) ELSE Worth5(v, TRUE) :
        v \in {w \in Spells(s) : Magnitude5(w) <= Max(FloatPoints)}}
\* A decimal has a zero in front of another digit only if zeros says so: the
\* grammar of JSON5 1.0.0 has none.
LeadingZero(s) == LET body == Unsigned(s) IN Len(body) > 1 /\ body[1] = "0" /\ body[2] \in DOMAIN DigitOf
Decimals(s, zeros) ==
    IF LeadingZero(s) /\ ~zeros THEN {}
    ELSE IF IsFloat(s) THEN Floats(s) ELSE UNION {Integers5(v.negative, v.mantissa) : v \in Spells(s)}

\* Nodes with numbers by their worth and objects as their members in order.
RECURSIVE Values(_, _, _), Items5(_, _, _), Members(_, _, _)
Padded(s, room, zeros) ==
    UNION {Values(SubSeq(s, i, j), room, zeros) :
        i \in {k \in DOMAIN s : Gap(UpTo(s, k - 1))}, j \in {k \in DOMAIN s : Gap(From(s, k + 1))}}
Keys5(s) ==
    UNION {Strings5(SubSeq(s, i, j)) \cup Identifiers(SubSeq(s, i, j)) :
        i \in {k \in DOMAIN s : Gap(UpTo(s, k - 1))}, j \in {k \in DOMAIN s : Gap(From(s, k + 1))}}

\* The cuts of s at a comma; none after the last element is needed.
AtCommas(s) == {i \in DOMAIN s : s[i] = ","} \cup {Len(s) + 1}
Items5(s, room, zeros) ==
    (IF Gap(s) THEN {<<>>} ELSE {}) \cup
    UNION {{<<v>> \o vs : v \in Padded(UpTo(s, i - 1), room, zeros), vs \in Items5(From(s, i + 1), room, zeros)} :
        i \in {k \in AtCommas(s) : Padded(UpTo(s, k - 1), room, zeros) # {}}}
Member(s, room, zeros) ==
    UNION {{[key |-> k, node |-> v] : k \in Keys5(UpTo(s, i - 1)), v \in Padded(From(s, i + 1), room, zeros)} :
        i \in {j \in DOMAIN s : s[j] = ":"}}
Members(s, room, zeros) ==
    (IF Gap(s) THEN {<<>>} ELSE {}) \cup
    UNION {{<<m>> \o ms : m \in Member(UpTo(s, i - 1), room, zeros), ms \in Members(From(s, i + 1), room, zeros)} :
        i \in {k \in AtCommas(s) : Member(UpTo(s, k - 1), room, zeros) # {}}}
Values(s, room, zeros) ==
    {[t |-> "string", text |-> x] : x \in Strings5(s)}
    \cup {[t |-> "number", number |-> n] : n \in Hexes(s) \cup Decimals(s, zeros)}
    \cup (IF Len(s) = 1 /\ s[1] \in Literal THEN {[t |-> s[1]]} ELSE {})
    \cup (IF room = 0 \/ Len(s) < 2 THEN {}
          ELSE IF s[1] = "{" /\ Last(s) = "}" THEN {[t |-> "object", members |-> m] : m \in Members(SubSeq(s, 2, Len(s) - 1), room - 1, zeros)}
          ELSE IF s[1] = "[" /\ Last(s) = "]" THEN {[t |-> "array", items |-> x] : x \in Items5(SubSeq(s, 2, Len(s) - 1), room - 1, zeros)}
          ELSE {})

\* The objects the text denotes, behind a line end that is not there.
Denotes(s, zeros) ==
    {v \in UNION {Values(SubSeq(s, i, j), MaxDepth, zeros) :
                     i \in {k \in DOMAIN s : Gap(UpTo(s, k - 1))},
                     j \in {k \in DOMAIN s : Gap(Append(From(s, k + 1), "newline"))}} : v.t = "object"}

\* Numbers that begin with a zero are all that keeps s out of the grammar.
OnlyWithZeros(s) == Denotes(s, FALSE) = {} /\ Denotes(s, TRUE) # {}

\* Whether node is what the members say: the last value of a key, together
\* with the objects just before it when it is an object too.
RECURSIVE IsNode(_, _), IsTree(_, _)
IsTree(node, members) ==
    /\ node.t = "object" /\ DOMAIN node.fields = {members[i].key : i \in DOMAIN members}
    /\ \A k \in DOMAIN node.fields :
           LET all   == SelectSeq(members, LAMBDA m : m.key = k)
               start == SelectLastInSeq(all, LAMBDA m : m.node.t # "object")
           IN  IF Last(all).node.t # "object" THEN IsNode(node.fields[k], Last(all).node)
               ELSE IsTree(node.fields[k], FlattenSeq([i \in 1 .. Len(all) - start |-> all[start + i].node.members]))
IsNode(node, v) ==
    CASE v.t = "object" -> IsTree(node, v.members)
      [] v.t = "array"  -> /\ node.t = "array" /\ Len(node.items) = Len(v.items)
                           /\ \A i \in DOMAIN v.items : IsNode(node.items[i], v.items[i])
      [] v.t = "string" -> node = Typed(v.text, "string")
      [] v.t = "number" -> /\ node.t = "scalar" /\ node.ty = "number"
                           /\ \E n \in Spells(node.raw) : Worth5(n, IsFloat(node.raw)) = v.number
      [] v.t = "true"   -> node = Typed(<<"true">>, "boolean")
      [] v.t = "null"   -> node = Typed(<<"null">>, "null")

(* ------------------------------ JSONC: tokens -------------------------- *)
\* The tokens of a text with their lines, in one pass: a comment ends the
\* token before it, a string is one token, and so is what stands between.
Tokens(s) ==
    LET Push(acc)    == IF acc.token = <<>> THEN acc
                        ELSE [acc EXCEPT !.done = Append(@, [text |-> acc.token, line |-> acc.line]), !.token = <<>>]
        Add(acc, c)  == [acc EXCEPT !.token = Append(@, c)]
        To(acc, m)   == [acc EXCEPT !.mode = m]
        Counted(acc, c) == IF c \in JsoncTerminator THEN [acc EXCEPT !.line = Append(@, c)] ELSE acc
        Plain5(acc, c) ==
            IF c = "\"" THEN To(Add(Push(acc), c), "string")
            ELSE IF c = "/" THEN To(acc, "slash")
            ELSE IF c \in JsonSpace THEN Counted(Push(acc), c)
            ELSE IF c \in {",", "{", "}", "[", "]", ":"} THEN Push(Add(Push(acc), c)) ELSE Add(acc, c)
        Take(acc, c) ==
            CASE acc.mode = "plain"  -> Plain5(acc, c)
              [] acc.mode = "slash"  ->
                     IF c \in {"/", "*"} THEN To([Push(acc) EXCEPT !.comments = TRUE], IF c = "/" THEN "line" ELSE "block")
                     ELSE Plain5(To(Add(acc, "/"), "plain"), c)
              [] acc.mode = "line"   -> IF c \in JsoncTerminator THEN Counted(To(acc, "plain"), c) ELSE acc
              [] acc.mode = "block"  -> IF c = "*" THEN To(acc, "star") ELSE Counted(acc, c)
              [] acc.mode = "star"   -> IF c = "/" THEN To(acc, "plain") ELSE IF c = "*" THEN acc ELSE To(Counted(acc, c), "block")
              [] acc.mode = "string" ->
                     IF c = "\"" THEN To(Push(Add(acc, c)), "plain") ELSE To(Add(acc, c), IF c = "\\" THEN "escape" ELSE "string")
              [] acc.mode = "escape" -> To(Add(acc, c), "string")
        last == FoldLeft(Take, [mode |-> "plain", done |-> <<>>, token |-> <<>>, line |-> <<>>, comments |-> FALSE], s)
    IN  IF last.mode = "slash" THEN Push(Add(To(last, "plain"), "/")) ELSE Push(last)

\* Without the commas that a closing bracket follows.
Untrailed(tokens) ==
    LET kept == SelectSeq([i \in DOMAIN tokens |-> i],
                    LAMBDA i : ~(tokens[i].text = <<",">> /\ i < Len(tokens) /\ tokens[i + 1].text \in {<<"}">>, <<"]">>}))
    IN  [k \in DOMAIN kept |-> tokens[kept[k]]]

(* ------------------------------ YAML: entries -------------------------- *)
RECURSIVE Stands(_), Brings(_)
\* The mappings that a merge brings in, flattened: the first one that has a
\* key decides.
Brings(node) == IF node.t = "map" THEN <<node>> ELSE IF node.t = "list" THEN FlattenSeq([i \in DOMAIN node.items |-> Brings(node.items[i])]) ELSE <<[t |-> "fault"]>>

\* What a node stands for: {} for nothing, and else the one tree.
Stands(node) ==
    IF node.t = "scalar" THEN {node}
    ELSE IF node.t = "list"
         THEN IF \E i \in DOMAIN node.items : Stands(node.items[i]) = {} THEN {}
              ELSE {[t |-> "array", items |-> [i \in DOMAIN node.items |-> CHOOSE x \in Stands(node.items[i]) : TRUE]]}
    ELSE IF node.t # "map" THEN {}
    ELSE LET own    == SelectSeq(node.entries, LAMBDA e : e.key # MergeKey)
             merges == SelectSeq(node.entries, LAMBDA e : e.key = MergeKey)
             maps   == FlattenSeq([i \in DOMAIN merges |-> Brings(merges[i].value)])
             text   == {own[i].key.text : i \in DOMAIN own}
             trees  == [i \in DOMAIN maps |-> Stands(maps[i])]
             Fields(i)  == (CHOOSE x \in trees[i] : TRUE).fields
             brought    == UNION {DOMAIN Fields(i) : i \in DOMAIN maps}
             First(k)   == Min({i \in DOMAIN maps : k \in DOMAIN Fields(i)})
             Own(k)     == own[SelectInSeq(own, LAMBDA e : e.key.text = k)].value
         IN  IF \/ \E i \in DOMAIN own : own[i].key.kind = "collection" \/ Stands(own[i].value) = {}
                \/ Cardinality(text) # Len(own)
                \/ \E i \in DOMAIN maps : trees[i] = {}
             THEN {}
             ELSE {Object([k \in text \cup brought |->
                       IF k \in text THEN CHOOSE x \in Stands(Own(k)) : TRUE ELSE Fields(First(k))[k]])}

(* ---------------------------- the properties --------------------------- *)
\* The document of a JSON5 text is the one its grammar gives it, and a text
\* without one is refused (json5.rs:342, :553 and :621): no comment, escape,
\* comma or nesting is read differently, no number changes its worth or its
\* kind or passes the ends of an i64 or of a float, and members of one name
\* merge in their order.  Left out are the texts that are accepted although the
\* grammar of json5.rs:9 has none of them, because a number begins with a zero.
Json5Faithful ==
    source.kind = "json5" /\ query = NoQuery =>
        /\ outcome = Mounted /\ ~OnlyWithZeros(Text) => \E v \in Denotes(Text, FALSE) : IsNode(root, v)
        /\ outcome.t = "error" => Denotes(Text, FALSE) = {}

\* The line and the column that an error would name are those of the next
\* character, however many line ends strings, comments and continuations have
\* taken (json5.rs:206).
CursorLocated ==
    source.kind = "json5" =>
        LET before == {i \in Ends : i < cursor.pos}
        IN  cursor.line = Cardinality(before) + 1 /\ cursor.lineAt = Max(before \cup {0}) + 1

\* What serde_json gets has the tokens of the JSONC text, each in its line, but
\* no comment and no trailing comma; an open string or comment is refused
\* (jsonc.rs:104).
CleanedFaithful ==
    source.kind = "jsonc" =>
        LET all == Tokens(Text)
        IN  /\ outcome.t = "handed" =>
                   /\ all.mode \in {"plain", "line"}
                   /\ Tokens(outcome.text).done = Untrailed(all.done)
                   /\ Tokens(outcome.text).line = all.line /\ ~Tokens(outcome.text).comments
            /\ outcome.t = "error" => all.mode \notin {"plain", "line"}

\* No value of a YAML mapping is lost without an error: two keys of one text
\* are refused, a key that is written wins over a merged one, and of merged
\* ones the first (yaml.rs:97 and :113).
YamlFaithful ==
    source.kind = "yaml" /\ outcome # Reads =>
        LET docs == source.lines
        IN  IF docs = <<>> \/ (Len(docs) = 1 /\ Empty(docs[1])) THEN outcome = Mounted /\ root = Object(EmptyMap)
            ELSE IF Len(docs) > 1 \/ docs[1].t # "map" \/ Stands(docs[1]) = {} THEN outcome.t = "error"
            ELSE outcome = Mounted /\ root \in Stands(docs[1])
=============================================================================
