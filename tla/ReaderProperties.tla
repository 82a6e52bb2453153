-------------------------- MODULE ReaderProperties --------------------------
(***************************************************************************)
(* What a mounted source and the getters owe their callers.  The reference *)
(* reads every text in one pass, a character at a time, and says of the    *)
(* tree which paths there are, not how they are put into it.               *)
(***************************************************************************)
EXTENDS Readers, UnitProperties

\* The type invariant: a source is mounted a line, a name and a pair at a
\* time, and the numbers of the readers are in their ranges.
TypeOK ==
    /\ UnitsTypeOK
    /\ taken \in 0 .. Len(Items)
    /\ \A i \in DOMAIN pairs : pairs[i].path # <<>>
    /\ outcome.t \in {"reading", "nesting", "mounted", "handed", "error"}
    /\ names # <<>> => outcome.t # "nesting" /\ ToSet(names) \subseteq DOMAIN values
    /\ root.t = "object"
    /\ query # NoQuery => outcome = Mounted

(* ------------------------------ the trees ------------------------------ *)
\* The tree of a function from paths to texts: a path that goes on is an
\* object, whatever text there is at it.
RECURSIVE TreeOf(_)
TreeOf(texts) ==
    Object([k \in {p[1] : p \in DOMAIN texts} |->
        LET below == {Tail(p) : p \in {q \in DOMAIN texts : q[1] = k}} \ {<<>>}
        IN  IF below = {} THEN Scalar(texts[<<k>>]) ELSE TreeOf([p \in below |-> texts[<<k>> \o p]])])

\* Of pairs, each path with its last value.
LastOf(ps) ==
    [p \in {ps[i].path : i \in DOMAIN ps} |-> ps[SelectLastInSeq(ps, LAMBDA pair : pair.path = p)].value]

\* The name is cut at two underscores as soon as they are seen.
Cut(rest) ==
    LET Take(acc, c) ==
            IF c # "_" THEN [done |-> acc.done, seg |-> acc.seg \o acc.held \o <<LowerCase[c]>>, held |-> <<>>]
            ELSE IF acc.held = <<>> THEN [acc EXCEPT !.held = <<"_">>]
            ELSE [done |-> Append(acc.done, acc.seg), seg |-> <<>>, held |-> <<>>]
        last == FoldLeft(Take, [done |-> <<>>, seg |-> <<>>, held |-> <<>>], rest)
    IN  Append(last.done, last.seg \o last.held)

Fault(path) ==
    IF \E i \in DOMAIN path : path[i] = <<>> THEN "empty segment"
    ELSE IF Len(path) > MaxSegments THEN "too deep" ELSE "none"

Same(error, where) == outcome.t = "error" /\ outcome.error = error /\ outcome.at = where
Holds(texts)       == outcome = Mounted /\ root = TreeOf(texts)

(* ----------------------------- environment ----------------------------- *)
\* The first entry that is selected and does not decode is the error; else
\* the least name that is no path or whose path a smaller name has.
EnvFaithful ==
    LET chosen == SelectSeq(source.lines, LAMBDA e : IsPrefix(source.prefix, e.name))
        bad    == SelectInSeq(chosen, LAMBDA e : e.utf8 # "both")
        all    == {e.name : e \in ToSet(chosen)}
        path   == [n \in all |-> Cut(From(n, Len(source.prefix) + 1))]
        First(n) == \A o \in all : path[o] = path[n] => ~TextLess(o, n)
        faulty == {n \in all : Fault(path[n]) # "none" \/ ~First(n)}
        least  == CHOOSE n \in faulty : \A o \in faulty : ~TextLess(o, n)
        text   == [n \in all |-> chosen[SelectLastInSeq(chosen, LAMBDA e : e.name = n)].value]
    IN  IF source.prefix = <<>> THEN Same("no prefix", <<>>)
        ELSE IF bad # 0 THEN Same(chosen[bad].utf8, chosen[bad].name)
        ELSE IF faulty # {}
             THEN IF Fault(path[least]) # "none" THEN Same(Fault(path[least]), least)
                  ELSE Same("collision", DisplayPath(path[least]))
             ELSE Holds([p \in {path[n] : n \in all} |-> text[CHOOSE n \in all : path[n] = p]])

(* ------------------------------- .env files ---------------------------- *)
\* The value behind an equals sign, character by character: blanks at the end
\* are held back, and a number sign after one is refused.
ValueOf(v) ==
    LET To(acc, mode) == [acc EXCEPT !.mode = mode]
        Add(acc, c)   == [acc EXCEPT !.out = acc.out \o acc.held \o <<c>>, !.held = <<>>]
        Take(acc, c) ==
            CASE acc.mode = "start" /\ c = "'"    -> To(acc, "single")
              [] acc.mode = "start" /\ c = "\""   -> To(acc, "double")
              [] acc.mode = "start" /\ c \notin {"'", "\""} -> To(Add(acc, c), "bare")
              [] acc.mode = "bare" ->
                     IF c \in Blank THEN [acc EXCEPT !.held = Append(acc.held, c)]
                     ELSE IF c = "#" /\ acc.held # <<>> THEN To(acc, "bad") ELSE Add(acc, c)
              [] acc.mode = "single" -> IF c = "'" THEN To(acc, "closed") ELSE Add(acc, c)
              [] acc.mode = "double" ->
                     IF c = "\"" THEN To(acc, "closed") ELSE IF c = "\\" THEN To(acc, "escape") ELSE Add(acc, c)
              [] acc.mode = "escape" ->
                     IF c \in {"n", "\\", "\""} THEN To(Add(acc, IF c = "n" THEN "newline" ELSE c), "double")
                     ELSE To(acc, "bad")
              [] acc.mode = "closed" -> IF c \in Blank THEN acc ELSE To(acc, "bad")
              [] acc.mode = "bad"    -> acc
    IN  FoldLeft(Take, [mode |-> "start", out |-> <<>>, held |-> <<>>], v)

\* What stands behind the equals sign is a comment and nothing else.
IsRemark(v) == v # <<>> /\ v[1] \in Blank /\ Trim(v) # <<>> /\ Trim(v)[1] = "#"

\* A line is one of nothing, a fault, a remark, or a pair; Unexported is what is left of the
\* keyword, which is one only if a blank follows.
Unexported(line) == IF Len(line) > 1 /\ line[1] = "export" /\ line[2] \in Blank THEN TrimStart(Tail(line)) ELSE line
LineOf(raw, prefix, n) ==
    LET line  == Trim(raw)
        body  == Unexported(line)
        name  == Trim(Left(body, {"="}))
        value == ValueOf(TrimStart(Right(body, {"="})))
        path  == Cut(From(name, Len(prefix) + 1))
        Faulted(error, where) == [t |-> "bad", error |-> error, at |-> where]
    IN  CASE line = <<>> \/ line[1] = "#" -> [t |-> "nothing"]
          [] line # <<>> /\ line[1] # "#" ->
                 IF "=" \notin ToSet(body) THEN Faulted("no name", n)
                 ELSE IF name = <<>> THEN Faulted("empty name", n)
                 ELSE IF ~IsPrefix(prefix, name) THEN [t |-> "nothing"]
                 ELSE IF ToSet(name) \cap ({"#"} \cup Blank) # {} THEN Faulted("bad name", n)
                 ELSE IF IsRemark(Right(body, {"="})) THEN [t |-> "remark"]
                 ELSE IF value.mode \notin {"start", "bare", "closed"} THEN Faulted("bad value", n)
                 ELSE IF Fault(path) # "none" THEN Faulted(Fault(path), name)
                 ELSE [t |-> "pair", path |-> path, value |-> value.out]

\* The first line at fault is the error; else the last line of a path wins.  Of
\* a remark nothing is said: env.rs:156 calls it an error, as it does any value
\* with a number sign behind a blank, but the blanks before a value are dropped
\* before the sign is looked for (env.rs:391), and it becomes the value.
DotenvFaithful ==
    LET lines == [n \in DOMAIN source.lines |-> LineOf(source.lines[n], source.prefix, n)]
        bad   == SelectInSeq(lines, LAMBDA l : l.t \in {"bad", "remark"})
    IN  IF bad # 0 THEN lines[bad].t = "bad" => Same(lines[bad].error, lines[bad].at)
        ELSE Holds(LastOf(SelectSeq(lines, LAMBDA l : l.t = "pair")))

(* --------------------------- Properties files -------------------------- *)
\* All of the text in one pass, with a mark at the end of every natural line,
\* as java.util.Properties reads it: the marks that a backslash precedes are
\* dropped together with the blanks after them.
Fresh == [mode |-> "start", esc |-> FALSE, skip |-> FALSE, high |-> FALSE, key |-> <<>>, value |-> <<>>, bad |-> {}]
Marked(lines) == FlattenSeq([i \in DOMAIN lines |-> Append(lines[i], "end")])

InKey(st)     == st.mode \in {"start", "key"}
Put(st, c)    == IF InKey(st) THEN [st EXCEPT !.key = Append(@, c), !.mode = "key"]
                 ELSE [st EXCEPT !.value = Append(@, c), !.mode = "value"]
Spoil(st)     == [st EXCEPT !.bad = @ \cup {IF InKey(st) THEN "key" ELSE "value"}, !.high = FALSE]
Settled(st)   == IF st.high THEN Spoil(st) ELSE st
Escaped(st, c) ==
    LET kind == IF c \in DOMAIN Decoded THEN Decoded[c] ELSE c
        was  == [st EXCEPT !.esc = FALSE]
    IN  IF kind = "low" THEN IF st.high THEN [Put(was, "pair") EXCEPT !.high = FALSE] ELSE Spoil(Put(was, c))
        ELSE IF kind = "high" THEN [Settled(was) EXCEPT !.high = TRUE, !.mode = IF InKey(st) THEN "key" ELSE "value"]
        ELSE IF kind = "malformed" THEN Spoil(Put(Settled(was), c))
        ELSE Put(Settled(was), kind)
Plain(st, c) ==
    LET now == Settled(st)
    IN  CASE st.mode = "start" /\ c \in {"#", "!"} -> [st EXCEPT !.mode = "comment"]
          [] st.mode = "start" /\ c \in Blank      -> st
          [] st.mode \in {"start", "key"} /\ c \in {"=", ":"} -> [now EXCEPT !.mode = "equals"]
          [] st.mode = "key" /\ c \in Blank        -> [now EXCEPT !.mode = "blanks"]
          [] st.mode = "blanks" /\ c \in {"=", ":"} -> [now EXCEPT !.mode = "equals"]
          [] st.mode \in {"blanks", "equals"} /\ c \in Blank -> st
          [] st.mode = "comment"                   -> st
          [] OTHER                                 -> Put(now, c)

ReadMarked(lines) ==
    LET Entry(st) == [key |-> st.key, value |-> st.value, bad |-> st.bad]
        Take(acc, c) ==
            LET st == acc.st IN
            IF st.skip /\ c \in Blank THEN acc
            ELSE IF c = "end" /\ st.esc
                 THEN [acc EXCEPT !.st = [st EXCEPT !.esc = FALSE, !.skip = TRUE,
                                                    !.mode = IF @ = "start" THEN "key" ELSE @]]
            ELSE IF c = "end"
                 THEN [st |-> Fresh,
                       entries |-> IF st.mode \in {"start", "comment"} THEN acc.entries
                                   ELSE Append(acc.entries, Entry(Settled(st)))]
            ELSE IF st.esc THEN [acc EXCEPT !.st = Escaped(st, c)]
            ELSE IF c = "\\" /\ st.mode # "comment" THEN [acc EXCEPT !.st = [st EXCEPT !.esc = TRUE, !.skip = FALSE]]
            ELSE [acc EXCEPT !.st = Plain([st EXCEPT !.skip = FALSE], c)]
        last == FoldLeft(Take, [st |-> Fresh, entries |-> <<>>], Marked(lines))
    IN  IF last.st.mode \in {"start", "comment"} THEN last.entries
        ELSE Append(last.entries, Entry(Settled(last.st)))

Dotted(key) ==
    LET Take(acc, c) == IF c = "." THEN Append(acc, <<>>) ELSE [acc EXCEPT ![Len(acc)] = Append(@, c)]
    IN  FoldLeft(Take, <<<<>>>>, key)

\* A malformed escape is an error, but not in the value of an empty key; so is
\* a key that is too deep; the last value of a key wins.
PropertiesFaithful ==
    LET entries == ReadMarked(source.lines)
        spoiled == {i \in DOMAIN entries :
                       "key" \in entries[i].bad \/ ("value" \in entries[i].bad /\ entries[i].key # <<>>)}
        kept    == SelectSeq(entries, LAMBDA e : e.key # <<>>)
        deep    == {k \in {e.key : e \in ToSet(kept)} : Len(Dotted(k)) > MaxSegments}
    IN  IF spoiled # {} THEN Same("malformed escape", <<>>)
        ELSE IF deep # {} THEN \E k \in deep : Same("too deep", k) /\ \A j \in deep : ~TextLess(j, k)
        ELSE Holds(LastOf([i \in DOMAIN kept |-> [path |-> Dotted(kept[i].key), value |-> kept[i].value]]))

(* ------------------------------ the getters ---------------------------- *)
\* A path cut in one pass; a quote that stays open makes it one segment.
Segments(path) ==
    LET Push(acc, mode) == [mode |-> mode, done |-> Append(acc.done, acc.seg), seg |-> <<>>]
        Take(acc, c) ==
            CASE acc.mode = "quoted" ->
                     IF c = "\"" THEN Push(acc, "closed")
                     ELSE IF c = "\\" THEN [acc EXCEPT !.mode = "escape"] ELSE [acc EXCEPT !.seg = Append(@, c)]
              [] acc.mode = "escape" -> [acc EXCEPT !.mode = "quoted", !.seg = Append(@, c)]
              [] acc.mode \notin {"quoted", "escape"} ->
                     IF c = "." THEN IF acc.mode = "closed" THEN [acc EXCEPT !.mode = "dot"] ELSE Push(acc, "dot")
                     ELSE IF c = "\"" THEN [(IF acc.mode = "bare" THEN Push(acc, "") ELSE acc) EXCEPT !.mode = "quoted"]
                     ELSE [acc EXCEPT !.mode = "bare", !.seg = Append(@, c)]
        last == FoldLeft(Take, [mode |-> "begin", done |-> <<>>, seg |-> <<>>], path)
    IN  IF last.mode \in {"quoted", "escape"} THEN <<path>>
        ELSE IF last.mode \in {"bare", "dot"} THEN Append(last.done, last.seg) ELSE last.done

\* The paths of a tree, and whether they lead to an object.
RECURSIVE PathsOf(_)
PathsOf(node) ==
    IF node.t # "object" THEN {}
    ELSE UNION {{<<k>>} \cup {<<k>> \o p : p \in PathsOf(node.fields[k])} : k \in DOMAIN node.fields}

RECURSIVE At(_, _)
At(node, path) == IF path = <<>> THEN node ELSE At(node.fields[path[1]], Tail(path))

\* The list of an object: the values whose key is the way an index is written,
\* in the order of the indices; numbers written otherwise are names.
Listed(fields) ==
    LET Key(n) == IF n < 10 THEN <<DigitChar[n + 1]>>
                  ELSE <<DigitChar[(n \div 10) + 1], DigitChar[(n % 10) + 1]>>
        present == SelectSeq([i \in 1 .. MaxI32 + 1 |-> i - 1], LAMBDA n : Key(n) \in DOMAIN fields)
    IN  [i \in DOMAIN present |-> fields[Key(present[i])]]

(* --------------------------- the properties ---------------------------- *)
\* A mount ends with the tree its source stands for, or with the error it has
\* to give (env.rs:116 and :159, properties.rs:190): whatever the order of the
\* environment, two names of one path are refused and an undecodable entry that
\* is selected is not dropped; in a file the last line of a path wins and a
\* continuation, a comment, a separator or an escape is taken for what it is;
\* where a text and an object meet, the object stays.  Left out is a .env file
\* with a value that is only a comment, unless an earlier line is at fault.
MountFaithful ==
    outcome.t \in {"mounted", "error"} =>
        CASE source.kind = "env"        -> EnvFaithful
          [] source.kind = "dotenv"     -> DotenvFaithful
          [] source.kind = "properties" -> PropertiesFaithful
          [] source.kind = "document"   -> root = source.root
          [] OTHER                      -> source.kind \in {"json5", "jsonc", "yaml"}

\* No key on the path has a character that is shown by a letter or a code:
\* split_config_path keeps the letter (config.rs:613) and does not decode it.
ShownAsIs(path) == \A i \in DOMAIN path : ToSet(path[i]) \cap DOMAIN ControlEscape = {}

\* Messages show two paths of a mounted tree differently, whatever characters
\* their keys have (env.rs:268).  Every value can be asked for by the path that
\* they show (env.rs:245, config.rs:602), unless a key has a control character
\* or a line separator in it: no segment is taken apart or joined on the way,
\* none hides another.  And a getter answers from the node the path means, or
\* says that there is none.
FindsByPath ==
    /\ outcome = Mounted =>
           LET paths == PathsOf(root)
           IN  /\ IsInjective([p \in paths |-> DisplayPath(p)])
               /\ \A p \in {q \in paths : ShownAsIs(q)} :
                      Lookup(root.fields, SplitPath(DisplayPath(p))) = <<At(root, p)>>
    /\ query.as = "string" =>
           LET segs == Segments(query.path)
           IN  answer = IF segs \notin PathsOf(root) THEN Error("missing")
                        ELSE IF At(root, segs).t = "scalar" /\ At(root, segs).ty # "null"
                             THEN Ok(At(root, segs).raw) ELSE Error("wrong type")

\* get_list gives the values of the canonical indices in their order, and no
\* list for an object without one (numeric_array.rs:77, config.rs:399): a gap
\* is closed, and 00, 01 or a number past the largest index stays a name.
ListsInOrder ==
    query.as = "list" =>
        LET segs == Segments(query.path)
        IN  answer = IF segs \notin PathsOf(root) THEN Error("missing")
                     ELSE CASE At(root, segs).t = "array"  -> Ok(At(root, segs).items)
                            [] At(root, segs).t = "scalar" -> Error("wrong type")
                            [] At(root, segs).t = "object" ->
                                   IF Listed(At(root, segs).fields) = <<>> THEN Error("wrong type")
                                   ELSE Ok(Listed(At(root, segs).fields))
=============================================================================
