------------------------------- MODULE Mounts -------------------------------
(***************************************************************************)
(* adapters/env.rs and properties.rs: flat names and values - the          *)
(* environment, a .env file, a Properties file - mounted as a tree.  Names *)
(* and lines are sequences of characters, since where a name is cut and    *)
(* what an escape means is what these adapters decide; a word that is      *)
(* matched as a whole (export, a \u escape) is one character.              *)
(***************************************************************************)
EXTENDS Texts

CONSTANTS
    CharOrder,    \* the characters in the order of their bytes
    BareChars,    \* the characters that need no quotes in a path
    LowerCase,    \* what to_ascii_lowercase makes of a character
    Decoded,      \* \u escape -> its character, or the kind of escape it is
    MaxSegments,  \* MAX_PATH_SEGMENTS
    Sources       \* sets of sources [kind, prefix, lines], one after the other

VARIABLES
    source,   \* what is mounted; its lines are entries in the environment, and
              \* the text or the decoded documents of another format
    taken,    \* how many of its lines have been read
    values,   \* the value of each name (of each key of a Properties file)
    names,    \* the names still to map to paths, in order
    pairs,    \* the paths and values mapped so far
    root,     \* the tree they are nested into
    outcome   \* what the caller gets

mountVars == <<source, taken, values, names, pairs, root, outcome>>

(* --------------------------------- nodes ------------------------------- *)
Scalar(text)   == [t |-> "scalar", ty |-> "string", raw |-> text]
Object(fields) == [t |-> "object", fields |-> fields]
EmptyMap       == [k \in {} |-> k]
Reads          == [t |-> "reading"]
Nests          == [t |-> "nesting"]
Mounted        == [t |-> "mounted"]
Fails(error, where) == [t |-> "error", error |-> error, at |-> where]

(* --------------------------- characters and order ---------------------- *)
Rank(c)     == SelectInSeq(CharOrder, LAMBDA d : d = c)

\* The order of texts, and of the segment lists of paths: at the first
\* difference, or the shorter one first.
Precedes(a, b, Less(_, _)) ==
    \/ IsStrictPrefix(a, b)
    \/ \E i \in DOMAIN a \cap DOMAIN b :
           UpTo(a, i - 1) = UpTo(b, i - 1) /\ Less(a[i], b[i])
TextLess(a, b) == Precedes(a, b, LAMBDA c, d : Rank(c) < Rank(d))
PathLess(p, q) == Precedes(p, q, TextLess)

Sorted(S) == SetToSortSeq(S, TextLess)

\* nest sorts by path, and stably: equal paths keep their order.
ByPath(ps) ==
    LET order == SetToSortSeq(DOMAIN ps, LAMBDA i, j :
                     \/ PathLess(ps[i].path, ps[j].path)
                     \/ ps[i].path = ps[j].path /\ i < j)
    IN  [k \in DOMAIN ps |-> ps[order[k]]]

(* ------------------------------ paths of names ------------------------- *)
\* The pieces of s between the occurrences of sep, from the left.
RECURSIVE SplitOn(_, _)
SplitOn(s, sep) ==
    LET hits == {i \in 1 .. Len(s) - Len(sep) + 1 : SubSeq(s, i, i + Len(sep) - 1) = sep}
    IN  IF hits = {} THEN <<s>>
        ELSE <<UpTo(s, Min(hits) - 1)>> \o SplitOn(From(s, Min(hits) + Len(sep)), sep)

Lower(s)      == [i \in DOMAIN s |-> LowerCase[s[i]]]
EnvPath(rest) == LET segs == SplitOn(rest, <<"_", "_">>) IN [i \in DOMAIN segs |-> Lower(segs[i])]

\* to_path: an empty segment is an error, and so are too many.
PathError(segs, name) ==
    IF <<>> \in ToSet(segs) THEN Fails("empty segment", name)
    ELSE IF Len(segs) > MaxSegments THEN Fails("too deep", name) ELSE Reads

\* display_path, render_segment: bare where it can be, else quoted.
Bare(seg) == seg # <<>> /\ AllIn(seg, BareChars)

\* What is written behind a backslash for a control character or a line
\* separator: a letter, or a \u escape, for which nul and ls stand.
ControlEscape ==
    "backspace" :> "b" @@ "formfeed" :> "f" @@ "newline" :> "n" @@ "cr" :> "r" @@ "tab" :> "t"
    @@ "nul" :> "u0000" @@ "ls" :> "u2028"

\* A variant: a backslash stays as it is.
EscapeQuotes(c) ==
    CASE c = "\""                   -> <<"\\", c>>
      [] c \in DOMAIN ControlEscape -> <<"\\", ControlEscape[c]>>
      [] OTHER                      -> <<c>>

Escape(c) ==
    CASE c \in {"\"", "\\"}        -> <<"\\", c>>
      [] c \in DOMAIN ControlEscape -> <<"\\", ControlEscape[c]>>
      [] OTHER                      -> <<c>>

RenderSegment(seg) ==
    IF Bare(seg) THEN seg
    ELSE <<"\"">> \o FoldLeft(LAMBDA acc, c : acc \o Escape(c), <<>>, seg) \o <<"\"">>
DisplayPath(segs) ==
    FoldLeft(LAMBDA acc, seg : IF acc = <<>> THEN RenderSegment(seg) ELSE acc \o <<".">> \o RenderSegment(seg),
             <<>>, segs)

(* -------------------------------- a .env line -------------------------- *)
\* strip_export: the word and the blanks after it, if there are any.
StripExport(line) ==
    IF line[1] = "export" /\ TrimStart(Tail(line)) # Tail(line) THEN TrimStart(Tail(line)) ELSE line

\* What is between double quotes, from the i-th character; the last element
\* says how it ended.
RECURSIVE Quoted(_, _)
Quoted(v, i) ==
    IF i > Len(v) THEN <<"unterminated">>
    ELSE IF v[i] = "\"" THEN IF TrimStart(From(v, i + 1)) = <<>> THEN <<"closed">> ELSE <<"text after">>
    ELSE IF v[i] = "\\"
         THEN IF i = Len(v) THEN <<"dangling">>
              ELSE CASE v[i + 1] = "n"  -> <<"newline">> \o Quoted(v, i + 2)
                     [] v[i + 1] \in {"\\", "\""} -> <<v[i + 1]>> \o Quoted(v, i + 2)
                     [] OTHER -> <<"unknown escape">>
    ELSE <<v[i]>> \o Quoted(v, i + 1)

\* dotenv_value: <<>> if it is refused, and the value in a tuple otherwise.
DotenvValue(v) ==
    LET close   == Find(Tail(v), {"'"})
        trimmed == TrimEnd(v)
        quoted  == Quoted(v, 2)
    IN  CASE v # <<>> /\ v[1] = "'" ->
               IF close = 0 \/ TrimStart(From(v, close + 2)) # <<>> THEN <<>> ELSE <<SubSeq(v, 2, close)>>
          [] v # <<>> /\ v[1] = "\"" ->
               IF Last(quoted) = "closed" THEN <<Front(quoted)>> ELSE <<>>
          [] OTHER ->
               IF \E i \in 2 .. Len(trimmed) : trimmed[i] = "#" /\ trimmed[i - 1] \in Blank
               THEN <<>> ELSE <<trimmed>>

(* --------------------------- a Properties file ------------------------- *)
\* A variant: an escaped backslash continues the line too.
ContinuesAlways(s) == s # <<>> /\ Last(s) = "\\"

\* An odd number of backslashes at the end continues the line.
Continues(s) == (Len(s) - LastNot(s, {"\\"})) % 2 = 1

\* text with the natural lines that continue it, and the last one of them.
RECURSIVE Joined(_, _, _)
Joined(text, lines, i) ==
    IF ~Continues(text) THEN [text |-> text, last |-> i]
    ELSE IF i = Len(lines) THEN [text |-> Front(text), last |-> i]
    ELSE Joined(Front(text) \o TrimStart(lines[i + 1]), lines, i + 1)

\* logical_lines, from the i-th natural line on.
RECURSIVE LogicalLines(_, _)
LogicalLines(lines, i) ==
    IF i > Len(lines) THEN <<>>
    ELSE IF TrimStart(lines[i]) = <<>> \/ TrimStart(lines[i])[1] \in {"#", "!"} THEN LogicalLines(lines, i + 1)
    ELSE LET line == Joined(TrimStart(lines[i]), lines, i)
         IN  <<line.text>> \o LogicalLines(lines, line.last + 1)

\* split_key_value: the key ends at the first separator that is not escaped.
RECURSIVE KeyEnd(_, _)
KeyEnd(s, i) ==
    IF i > Len(s) THEN i
    ELSE IF s[i] = "\\" /\ i < Len(s) THEN KeyEnd(s, i + 2)
    ELSE IF s[i] \in {"=", ":"} \cup Blank THEN i ELSE KeyEnd(s, i + 1)
RawKey(s)   == UpTo(s, KeyEnd(s, 1) - 1)
RawValue(s) ==
    LET after == TrimStart(From(s, KeyEnd(s, 1)))
    IN  IF after # <<>> /\ after[1] \in {"=", ":"} THEN TrimStart(Tail(after)) ELSE after

\* unescape: an unknown escape loses its backslash, surrogates come in pairs,
\* and "malformed" is among the characters when one does not.
RECURSIVE Unescape(_)
Unescape(s) ==
    IF s = <<>> THEN <<>>
    ELSE IF s[1] # "\\" THEN <<s[1]>> \o Unescape(Tail(s))
    ELSE IF Len(s) = 1 THEN <<>>
    ELSE IF s[2] \notin DOMAIN Decoded THEN <<s[2]>> \o Unescape(From(s, 3))
    ELSE IF Decoded[s[2]] = "high"
         THEN IF Len(s) >= 4 /\ s[3] = "\\" /\ s[4] \in DOMAIN Decoded /\ Decoded[s[4]] = "low"
              THEN <<"pair">> \o Unescape(From(s, 5)) ELSE <<"malformed">>
    ELSE IF Decoded[s[2]] \in {"low", "malformed"} THEN <<"malformed">>
    ELSE <<Decoded[s[2]]>> \o Unescape(From(s, 3))
Malformed(s) == "malformed" \in ToSet(Unescape(s))

(* -------------------------------- mounting ----------------------------- *)
\* What is read one at a time: entries, natural lines, or logical lines.
Items == IF source.kind = "properties" THEN LogicalLines(source.lines, 1) ELSE source.lines
Item  == Items[taken + 1]

Refuse(error, where) == outcome' = Fails(error, where)

MountInit ==
    /\ \E i \in DOMAIN Sources : source \in Sources[i]
    /\ taken = 0 /\ values = EmptyMap /\ names = <<>> /\ pairs = <<>>
    /\ root = IF source.kind = "document" THEN source.root ELSE Object(EmptyMap)
    /\ outcome = CASE source.kind = "document" -> Mounted
                   [] source.kind = "env" /\ source.prefix = <<>> -> Fails("no prefix", <<>>)
                   [] OTHER -> Reads

\* load: an entry of the environment.  One that the prefix selects has to
\* decode; one it does not select is not looked at.
TakeEntry ==
    /\ source.kind = "env" /\ outcome = Reads /\ taken < Len(source.lines) /\ names = <<>>
    /\ IF ~IsPrefix(source.prefix, Item.name) THEN UNCHANGED <<values, outcome>>
       ELSE IF Item.utf8 # "both" THEN UNCHANGED values /\ Refuse(Item.utf8, Item.name)
       ELSE values' = Item.name :> Item.value @@ values /\ UNCHANGED outcome
    /\ taken' = taken + 1
    /\ UNCHANGED <<source, names, pairs, root>>

\* parse_dotenv: a line.
TakeLine ==
    /\ source.kind = "dotenv" /\ outcome = Reads /\ taken < Len(source.lines)
    /\ LET line  == Trim(Item)
           body  == StripExport(line)
           eq    == Find(body, {"="})
           name  == TrimEnd(UpTo(body, eq - 1))
           value == DotenvValue(TrimStart(From(body, eq + 1)))
           path  == EnvPath(From(name, Len(source.prefix) + 1))
       IN  IF line = <<>> \/ line[1] = "#" THEN UNCHANGED <<pairs, outcome>>
           ELSE IF eq = 0 THEN UNCHANGED pairs /\ Refuse("no name", taken + 1)
           ELSE IF name = <<>> THEN UNCHANGED pairs /\ Refuse("empty name", taken + 1)
           ELSE IF ~IsPrefix(source.prefix, name) THEN UNCHANGED <<pairs, outcome>>
           ELSE IF Find(name, {"#"} \cup Blank) # 0 THEN UNCHANGED pairs /\ Refuse("bad name", taken + 1)
           ELSE IF value = <<>> THEN UNCHANGED pairs /\ Refuse("bad value", taken + 1)
           ELSE IF PathError(path, name) # Reads THEN UNCHANGED pairs /\ outcome' = PathError(path, name)
           ELSE pairs' = Append(pairs, [path |-> path, value |-> value[1]]) /\ UNCHANGED outcome
    /\ taken' = taken + 1
    /\ UNCHANGED <<source, values, names, root>>

\* parse_properties: a logical line; a repeated key keeps the last value.
TakeProperty ==
    /\ source.kind = "properties" /\ outcome = Reads /\ taken < Len(Items) /\ names = <<>>
    /\ LET key == Unescape(RawKey(Item))
       IN  IF Malformed(RawKey(Item)) THEN UNCHANGED values /\ Refuse("malformed escape", <<>>)
           ELSE IF key = <<>> THEN UNCHANGED <<values, outcome>>
           ELSE IF Malformed(RawValue(Item)) THEN UNCHANGED values /\ Refuse("malformed escape", <<>>)
           ELSE values' = key :> Unescape(RawValue(Item)) @@ values /\ UNCHANGED outcome
    /\ taken' = taken + 1
    /\ UNCHANGED <<source, names, pairs, root>>

\* All lines are read: the names are sorted before they are mapped.
SortNames ==
    /\ outcome = Reads /\ taken = Len(Items) /\ names = <<>> /\ pairs = <<>>
    /\ DOMAIN values # {}
    /\ names' = Sorted(DOMAIN values)
    /\ UNCHANGED <<source, taken, values, pairs, root, outcome>>

\* load_from, properties_to_hocon: the next name.  Two names of the
\* environment may not reach one path; the keys of a file are all different.
MapName ==
    /\ outcome = Reads /\ names # <<>>
    /\ LET name == Head(names)
           path == IF source.kind = "env" THEN EnvPath(From(name, Len(source.prefix) + 1))
                   ELSE SplitOn(name, <<".">>)
           error == IF source.kind = "env" THEN PathError(path, name)
                    ELSE IF Len(path) > MaxSegments THEN Fails("too deep", name) ELSE Reads
       IN  IF error # Reads THEN outcome' = error /\ UNCHANGED <<names, pairs>>
           ELSE IF source.kind = "env" /\ \E i \in DOMAIN pairs : pairs[i].path = path
                THEN Refuse("collision", DisplayPath(path)) /\ UNCHANGED <<names, pairs>>
           ELSE /\ pairs' = Append(pairs, [path |-> path, value |-> values[name]])
                /\ names' = Tail(names)
                /\ UNCHANGED outcome
    /\ UNCHANGED <<source, taken, values, root>>

\* set_nested: an object wins over a text, whichever comes first.
RECURSIVE SetNested(_, _, _)
SetNested(fields, path, value) ==
    LET key   == path[1]
        inner == IF key \in DOMAIN fields /\ fields[key].t = "object" THEN fields[key].fields ELSE EmptyMap
    IN  IF Len(path) > 1 THEN key :> Object(SetNested(inner, Tail(path), value)) @@ fields
        ELSE IF key \in DOMAIN fields /\ fields[key].t = "object" THEN fields
        ELSE key :> Scalar(value) @@ fields

\* nest: the pairs of the environment and of a .env file are sorted by path,
\* those of a Properties file stay in the order of their keys.
StartNest ==
    /\ outcome = Reads /\ taken = Len(Items) /\ names = <<>>
    /\ \/ source.kind = "dotenv"
       \/ source.kind \in {"env", "properties"} /\ Len(pairs) = Cardinality(DOMAIN values)
    /\ pairs' = IF source.kind = "properties" THEN pairs ELSE ByPath(pairs)
    /\ outcome' = Nests
    /\ UNCHANGED <<source, taken, values, names, root>>

NestPair ==
    /\ outcome = Nests
    /\ IF pairs = <<>> THEN outcome' = Mounted /\ UNCHANGED <<pairs, root>>
       ELSE /\ root' = Object(SetNested(root.fields, Head(pairs).path, Head(pairs).value))
            /\ pairs' = Tail(pairs) /\ UNCHANGED outcome
    /\ UNCHANGED <<source, taken, values, names>>

Mount ==
    \/ TakeEntry \/ TakeLine \/ TakeProperty
    \/ SortNames \/ MapName \/ StartNest \/ NestPair

(* ------------------------- paths of the getters ------------------------ *)
\* Where the quoted segment from i on is closed, 0 if it is not.
RECURSIVE QuoteEnd(_, _)
QuoteEnd(path, i) ==
    IF i > Len(path) THEN 0
    ELSE IF path[i] = "\\" /\ i < Len(path) THEN QuoteEnd(path, i + 2)
    ELSE IF path[i] = "\"" THEN i ELSE QuoteEnd(path, i + 1)

RECURSIVE Unquote(_)
Unquote(s) ==
    IF s = <<>> THEN <<>>
    ELSE IF s[1] = "\\" /\ Len(s) > 1 THEN <<s[2]>> \o Unquote(From(s, 3)) ELSE <<s[1]>> \o Unquote(Tail(s))

\* The segments from the i-th character on; the period after one is skipped.
RECURSIVE SegmentsFrom(_, _)
SegmentsFrom(path, i) ==
    LET quote == QuoteEnd(path, i + 1)
        stop  == i + Find(From(path, i) \o <<".">>, {".", "\""}) - 1
        Beyond(k) == IF k <= Len(path) /\ path[k] = "." THEN SegmentsFrom(path, k + 1) ELSE SegmentsFrom(path, k)
    IN  IF i > Len(path) THEN <<>>
        ELSE IF path[i] # "\"" THEN <<SubSeq(path, i, stop - 1)>> \o Beyond(stop)
        ELSE IF quote = 0 THEN <<<<"unterminated">>>>
        ELSE <<Unquote(SubSeq(path, i + 1, quote - 1))>> \o Beyond(quote + 1)

\* split_config_path: a period at the end leaves an empty segment, and a path
\* with an open quote is one segment as it is.
SplitPath(path) ==
    LET segs == SegmentsFrom(path, 1)
    IN  IF <<"unterminated">> \in ToSet(segs) THEN <<path>>
        ELSE IF path # <<>> /\ Last(path) = "." THEN Append(segs, <<>>) ELSE segs

\* lookup_in_map_by_segments: <<>> for nothing there, and the node in a tuple.
RECURSIVE Lookup(_, _)
Lookup(fields, segs) ==
    IF segs = <<>> THEN <<>>
    ELSE IF segs[1] \notin DOMAIN fields THEN <<>>
    ELSE IF Len(segs) = 1 THEN <<fields[segs[1]]>>
    ELSE IF fields[segs[1]].t # "object" THEN <<>>
    ELSE Lookup(fields[segs[1]].fields, Tail(segs))

=============================================================================
