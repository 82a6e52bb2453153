-------------------------- MODULE SyntaxProperties --------------------------
(***************************************************************************)
(* What a text means: the reference for the parser.  It says which trees a *)
(* stretch of tokens can be read as.  Every reading is looked for, and     *)
(* none of the definitions knows of a cursor or of a stack.  (What a       *)
(* stretch of characters holds as a token is in ReadingProperties.)        *)
(***************************************************************************)
EXTENDS ReadingProperties

AllNewlines(i, j) == \A k \in i .. j - 1 : Kind(k) = "newline"

(* --------------------------------- keys -------------------------------- *)
\* A key as written: its characters and blanks in order, with marks around a
\* quoted string and a dot of its own where a period separates.
Spelled(n, first) ==
    (IF n = first THEN <<>> ELSE Blanks(n)) \o
    (IF Kind(n) = "quoted" THEN <<"mark">> \o Value(n) \o <<"mark">>
     ELSE [i \in 1 .. Len(Value(n)) |-> IF Value(n)[i] = "." THEN "dot" ELSE Value(n)[i]])
RECURSIVE Spelling(_, _, _)
Spelling(n, s, first) == IF n = s THEN <<>> ELSE Spelled(n, first) \o Spelling(n + 1, s, first)
Letter(c) == c # "mark"

\* Two tokens of a key meet at a blank or at a period.
Joined(n) == HasSpace(n) \/ Begins(Word(n), <<".">>) \/ EndsIn(Word(n - 1), ".")
\* The key that tokens i .. s - 1 spell, if they do.
Keys(i, s) ==
    LET segments == Split(Spelling(i, s, i), "dot")
        key      == [n \in DOMAIN segments |-> SelectSeq(segments[n], Letter)]
    IN  IF /\ \A n \in i .. s - 1 : IsName(n) /\ ~ReservedPlus(Word(n))
           /\ \A n \in i + 1 .. s - 1 : Joined(n)
           /\ \A n \in DOMAIN segments : segments[n] # <<>>
           /\ ~(Kind(i) = "unquoted" /\ key[1] = <<"include">>)
        THEN {key} ELSE {}

(* ------------------------------ directives ----------------------------- *)
\* The words of a directive, however they are fused, around its strings.
RECURSIVE Written(_, _)
Written(i, k) ==
    IF i = k THEN <<>>
    ELSE (CASE Kind(i) = "quoted" -> <<"string">> [] Kind(i) = "unquoted" -> Value(i) [] OTHER -> <<Kind(i)>>)
         \o Written(i + 1, k)
\* A word file( that is fused to the parenthesis before it is not noticed
\* (parser.rs:911; the run required_file shows what that means).
Unnoticed(i, k) == \E n \in i .. k - 1 : \E m \in 2 .. Len(Word(n)) : Word(n)[m] = "file"
\* file ( "path" ), where anything but a string may stand before the path.
OfFile(text) ==
    LET n == Len(text) IN
    /\ n > 3 /\ SubSeq(text, 1, 2) = <<"file", "(">> /\ SubSeq(text, n - 1, n) = <<"string", ")">>
    /\ \A m \in 1 .. n - 2 : text[m] # "string"
WellFormed(i, k) ==
    LET strings == {n \in i .. k - 1 : Kind(n) = "quoted"}
        text    == Written(i, k)
        path    == Value(LastOf(strings))
        id      == Value(CHOOSE n \in strings : \A l \in strings : n <= l)
        wrapped == Len(text) > 3 /\ text[1] = "required" /\ text[2] = "(" /\ text[Len(text)] = ")"
        inner   == IF wrapped THEN SubSeq(text, 3, Len(text) - 1) ELSE text
    IN  CASE inner = <<"string">> -> {Include(path, wrapped, FALSE)}
          [] OfFile(inner) -> {Include(path, wrapped, ~Unnoticed(i, k))}
          [] inner = <<"package", "(", "string", ",", "string", ")">> /\ id # <<>> /\ ValidPackageFile(path) ->
               {PackageInclude(id, path, wrapped)}
          [] OTHER -> {}
\* Line ends may stand before it.
Directives(i, k) == IF Skip(i) >= k THEN {} ELSE WellFormed(Skip(i), k)

(* ------------------------------- the grammar --------------------------- *)
Leaf(i, first) ==
    CASE Kind(i) \in {"quoted", "triple"} -> {Scalar("string", Value(i))}
      [] Kind(i) \in {":", "="} /\ ~first -> {Scalar("string", Value(i))}
      [] Kind(i) = "subst"                -> {Substitution(tokens[i].subst)}
      [] Kind(i) = "unquoted" /\ ScalarError(Value(i)) = "none" -> {Scalar(ScalarType(Value(i)), Value(i))}
      [] OTHER -> {}
Gap(i, first) == IF first \/ ~HasSpace(i) THEN <<>> ELSE <<Separator(Blanks(i))>>

RECURSIVE FieldsIn(_, _), ItemsIn(_, _), PartsIn(_, _, _)
\* A value: leaves, objects and arrays on one line.
PartsIn(i, j, first) ==
    IF i = j THEN {<<>>}
    ELSE LET nested(k) == CASE Kind(i) = "{" /\ Kind(k - 1) = "}" -> {Object(f) : f \in FieldsIn(i + 1, k - 1)}
                            [] Kind(i) = "[" /\ Kind(k - 1) = "]" -> {Array(a) : a \in ItemsIn(i + 1, k - 1)}
                            [] OTHER -> {}
             ends      == {i + 1} \cup {k \in i + 2 .. j : Kind(k - 1) \in {"}", "]"}}
             part(k)   == IF k = i + 1 THEN Leaf(i, first) ELSE nested(k)
         IN  UNION {{Gap(i, first) \o <<node>> \o rest : node \in part(k), rest \in PartsIn(k, j, FALSE)} :
                      k \in {k \in ends : part(k) # {}}}
ValuesIn(i, j) == {IF Len(p) = 1 THEN p[1] ELSE Concat(p) : p \in PartsIn(i, j, TRUE) \ {<<>>}}

\* A field: its key, a separator unless an object follows, its value.
FieldIn(i, j) ==
    UNION {LET sep   == Skip(s)
               begin == IF Kind(sep) = "{" THEN sep ELSE Skip(sep + 1)
           IN  IF Kind(sep) \in {"=", ":", "+=", "{"} /\ ~FusedPlus(sep) /\ begin < j
               THEN {Field(key, Kind(sep) = "+=", v) : key \in Keys(i, s), v \in ValuesIn(begin, j)}
               ELSE {} : s \in i + 1 .. j - 1}
\* Between two of them stands a line end or one comma.
Separated(k, j) == k = j \/ Kind(k) \in {"newline", ","}
Resume(k, j) == {k} \cup {n \in k + 1 .. j : Kind(n - 1) = "," /\ AllNewlines(k, n - 1)}
FieldsIn(i, j) ==
    IF AllNewlines(i, j) THEN {<<>>}
    ELSE LET a == Skip(i) IN
         IF AtInclude(a)
         THEN UNION {{<<d>> \o rest : d \in Directives(a + 1, k), rest \in UNION {FieldsIn(n, j) : n \in Resume(k, j)}} :
                       k \in a + 2 .. j}
         ELSE UNION {{<<f>> \o rest : f \in FieldIn(a, k), rest \in UNION {FieldsIn(n, j) : n \in Resume(k, j)}} :
                       k \in {k \in a + 1 .. j : Separated(k, j)}}
ItemsIn(i, j) ==
    IF AllNewlines(i, j) THEN {<<>>}
    ELSE UNION {{<<v>> \o rest : v \in ValuesIn(Skip(i), k), rest \in UNION {ItemsIn(n, j) : n \in Resume(k, j)}} :
                  k \in {k \in Skip(i) + 1 .. j : Separated(k, j)}}

\* Objects in braces, and fields without after them.
RECURSIVE ObjectsIn(_, _)
ObjectsIn(i, j) ==
    CASE AllNewlines(i, j) -> {<<>>}
      [] ~AllNewlines(i, j) /\ Kind(Skip(i)) = "{" ->
           UNION {{f \o rest : f \in FieldsIn(Skip(i) + 1, k - 1), rest \in ObjectsIn(k, j)} :
                     k \in {k \in Skip(i) + 2 .. j : Kind(k - 1) = "}"}}
      [] OTHER -> FieldsIn(i, j)
\* The readings of tokens 1 .. j - 1 as a document.
Readings(j) ==
    CASE Kind(Skip(1)) = "{" -> {Object(f) : f \in ObjectsIn(1, j)}
      [] Kind(Skip(1)) = "[" ->
           UNION {{Array(a) : a \in ItemsIn(Skip(1) + 1, k - 1)} :
                     k \in {k \in Skip(1) + 2 .. j : Kind(k - 1) = "]" /\ AllNewlines(k, j)}}
      [] OTHER -> {Object(f) : f \in FieldsIn(1, j)}

(* ------------------------------- properties ---------------------------- *)
\* A document is accepted exactly when the grammar reads it, as the only tree
\* the grammar reads it as, up to the token where the parser stopped.
ReadAsWritten ==
    /\ parsing = "done" => Readings(at) = {result}
    /\ parsing = "failed" /\ result.message # "too deep" => Readings(Len(tokens)) = {}

\* The path of a substitution is the path of the key that is spelled like it,
\* but for the blanks around its periods, which only a key keeps: what a key
\* defines can be referred to by copying its spelling only without them.
Bare(segment) ==
    LET solid == {i \in DOMAIN segment : segment[i] \notin Whitespace} IN
    IF solid = {} THEN <<>>
    ELSE SubSeq(segment, CHOOSE i \in solid : \A k \in solid : i <= k, LastOf(solid))
SamePath ==
    parsing = "done" /\ result.t = "object" /\ Len(result.fields) = 1 =>
        \A n \in DOMAIN tokens :
            /\ Kind(n) = "=" /\ Kind(n + 1) = "subst"
            /\ Text(1, tokens[n].from) = Text(tokens[n + 1].from + 2, tokens[n + 1].to - 1)
            => LET segments == Split(Spelling(1, n, 1), "dot")
               IN  tokens[n + 1].subst.segments =
                      [i \in DOMAIN segments |-> SelectSeq(Bare(segments[i]), Letter)]

\* Reading ends, with a tree or with an error.
Ends == <>(lexing \notin {"on", "done"} \/ parsing \notin {"off", "on"})

(* What the documentation says of the parser and the code does not do. *)
\* docs/spec-compliance.md:73 (S3.4): "Unbalanced trailing } without opening {
\* is invalid": a document that is accepted is read to its end.
NoStrayBrace == parsing = "done" => Kind(Skip(at)) = "eof"

\* docs/spec-compliance.md:588 (S14f.7): the arguments of file() are "NOT
\* relativized": a directive that says file( is one of a file wherever the
\* including document is.
SaysFile(word) == \E i \in 1 .. Len(word) - 1 : word[i] = "file" /\ word[i + 1] = "("
FileNotRelativized ==
    parsing = "done" /\ result.t = "object" /\ (\E n \in DOMAIN tokens : SaysFile(Word(n)))
    => \A i \in DOMAIN result.fields :
          result.fields[i].value.t = "include" => result.fields[i].value.file
=============================================================================
