------------------------------- MODULE Parser -------------------------------
(***************************************************************************)
(* From tokens to the syntax tree (src/parser.rs).  The calls of parse_key,*)
(* parse_value, parse_object and parse_array are frames of a stack: one    *)
(* action per turn of their loops.  An include directive, which calls      *)
(* nothing that calls it back, is read in one step.                        *)
(***************************************************************************)
EXTENDS Lexer

CONSTANTS
    MaxDepth,    \* MAX_DOCUMENT_DEPTH
    Infinite     \* the number literals whose magnitude overflows f64

ASSUME DepthAssumption == MaxDepth \in Nat

VARIABLES
    at,         \* the next token
    depth,      \* how many objects and arrays are being read
    stack,      \* the calls in progress, above the root
    result,     \* the tree, or the error
    parsing     \* "off" until there are tokens, then "on", "done" or "failed"

parser == <<at, depth, stack, result, parsing>>
vars   == <<lexer, parser>>

(* ------------------------------ the tokens ----------------------------- *)
Kind(i)  == IF i \in DOMAIN tokens THEN tokens[i].kind ELSE "eof"
Value(i) == IF i \in DOMAIN tokens THEN tokens[i].value ELSE <<>>
Blanks(i)   == IF i \in DOMAIN tokens THEN tokens[i].blanks ELSE <<>>
HasSpace(i) == i \in DOMAIN tokens /\ tokens[i].space
IsName(i)   == Kind(i) \in {"quoted", "unquoted"}
Word(i)     == IF Kind(i) = "unquoted" THEN Value(i) ELSE <<>>
Skip(i)     == CHOOSE j \in i .. Len(tokens) + 1 : /\ Kind(j) # "newline"
                                                   /\ \A k \in i .. j - 1 : Kind(k) = "newline"
\* A variant: any number of commas.
SkipCommas(i) == CHOOSE j \in i .. Len(tokens) + 1 : /\ Kind(j) \notin {"newline", ","}
                                                    /\ \A k \in i .. j - 1 : Kind(k) \in {"newline", ","}
SkipSeparator(i) == IF Kind(Skip(i)) = "," THEN Skip(Skip(i) + 1) ELSE Skip(i)

Begins(s, word) == Len(s) >= Len(word) /\ SubSeq(s, 1, Len(word)) = word
EndsIn(s, c)    == s # <<>> /\ s[Len(s)] = c
AllIn(s, S)     == \A i \in DOMAIN s : s[i] \in S

\* str::split on one character: what stands between its occurrences.
Split(s, c) ==
    LET pieces[i \in 0 .. Len(s)] ==
          IF i = 0 THEN << <<>> >>
          ELSE IF s[i] = c THEN Append(pieces[i - 1], <<>>)
          ELSE [pieces[i - 1] EXCEPT ![Len(pieces[i - 1])] = Append(@, s[i])]
    IN  pieces[Len(s)]

(* ------------------------------- the tree ------------------------------ *)
Scalar(type, text)     == [t |-> "scalar", type |-> type, text |-> text]
Separator(text)        == [t |-> "separator", text |-> text]
Substitution(payload)  == [t |-> "subst", path |-> payload]
Object(fields)         == [t |-> "object", fields |-> fields]
Array(items)           == [t |-> "array", items |-> items]
Concat(nodes)          == [t |-> "concat", nodes |-> nodes]
Field(key, append, value) == [key |-> key, append |-> append, value |-> value]
Include(path, required, file) ==
    Field(<<>>, FALSE, [t |-> "include", path |-> path, required |-> required, file |-> file])
PackageInclude(id, path, required) ==
    Field(<<>>, FALSE, [t |-> "package", id |-> id, path |-> path, required |-> required])
NoNode == [t |-> "none"]

(* ------------------------------- scalars ------------------------------- *)
NumberChar == Digit \cup {".", "e", "E", "+", "-"}
StartsLikeNumber(s) ==
    \/ s # <<>> /\ s[1] \in Digit
    \/ Len(s) > 1 /\ s[1] = "-" /\ s[2] \in Digit
    \/ Len(s) > 2 /\ s[1] = "-" /\ s[2] = "." /\ s[3] \in Digit

Mantissa(s) ==
    LET m == IF Begins(s, <<"-">>) THEN Tail(s) ELSE s
    IN  /\ AllIn(m, Digit \cup {"."}) /\ \E i \in DOMAIN m : m[i] \in Digit
        /\ Cardinality({i \in DOMAIN m : m[i] = "."}) <= 1
Exponent(s) ==
    LET e == IF Len(s) > 1 /\ s[2] \in {"+", "-"} THEN SubSeq(s, 3, Len(s)) ELSE Tail(s)
    IN  s[1] \in {"e", "E"} /\ e # <<>> /\ AllIn(e, Digit)
\* What i64 or f64 parses.
IsNumber(s) ==
    \E m \in 1 .. Len(s) : /\ Mantissa(SubSeq(s, 1, m))
                           /\ m < Len(s) => Exponent(SubSeq(s, m + 1, Len(s)))

\* The characters of s that number-lex takes.
Run(s) == CHOOSE n \in 0 .. Len(s) : /\ AllIn(SubSeq(s, 1, n), NumberChar)
                                     /\ n < Len(s) => s[n + 1] \notin NumberChar
\* reserved_plus_offset: a + that is not the sign of an exponent.
ReservedPlus(s) ==
    \E i \in DOMAIN s :
        /\ s[i] = "+"
        /\ StartsLikeNumber(s) /\ IsNumber(SubSeq(s, 1, Run(s))) => i > Run(s)

ScalarType(s) ==
    CASE s \in {<<"true">>, <<"false">>} -> "boolean"
      [] s = <<"null">>                  -> "null"
      [] StartsLikeNumber(s) /\ IsNumber(s) -> "number"
      [] OTHER                           -> "string"
\* parse_scalar_value.
ScalarError(s) ==
    CASE ReservedPlus(s) -> "reserved character '+'"
      [] ~ReservedPlus(s) /\ ScalarType(s) = "number" /\ s \in Infinite -> "invalid float"
      [] OTHER -> "none"

(* -------------------------------- frames ------------------------------- *)
Root(shape) == [t |-> "root", shape |-> shape, node |-> Object(<<>>)]
ObjectFrame(braced) ==
    [t |-> "object", braced |-> braced, fields |-> <<>>, key |-> <<>>, append |-> FALSE]
ArrayFrame == [t |-> "array", items |-> <<>>]
ValueFrame == [t |-> "value", parts |-> <<>>]
KeyFrame(i) == [t |-> "key", first |-> i, segments |-> <<>>, dot |-> FALSE,
                concat |-> FALSE, prefix |-> <<>>, more |-> TRUE]

Top      == stack[Len(stack)]
Below    == SubSeq(stack, 1, Len(stack) - 1)
In(t)    == parsing = "on" /\ stack # <<>> /\ Top.t = t
Replace(s, f) == [s EXCEPT ![Len(s)] = f]
Refuse(error) == /\ parsing' = "failed" /\ result' = [t |-> "error", message |-> error]
                 /\ UNCHANGED <<lexer, at, depth, stack>>
Go(i, s) == at' = i /\ stack' = s /\ UNCHANGED <<lexer, result, parsing>>

\* A variant: the limit is checked after the increment.
EnterThenCheck(i, s, frame) ==
    IF depth > MaxDepth THEN Refuse("too deep")
    ELSE depth' = depth + 1 /\ Go(i, Append(s, frame))
\* enter: parse_object or parse_array is called with s below it, at token i.
Enter(i, s, frame) ==
    IF depth + 1 > MaxDepth THEN Refuse("too deep")
    ELSE depth' = depth + 1 /\ Go(i, Append(s, frame))

\* A value is complete: it goes to the frame that asked for it.
Receive(s, node) ==
    LET f == s[Len(s)] IN
    Replace(s, CASE f.t = "value"  -> [f EXCEPT !.parts = Append(@, node)]
                 [] f.t = "object" -> [f EXCEPT !.fields = Append(@, Field(f.key, f.append, node))]
                 [] f.t = "array"  -> [f EXCEPT !.items = Append(@, node)]
                 [] OTHER          -> [f EXCEPT !.node = IF node.t = "object"
                                                         THEN Object(@.fields \o node.fields)
                                                         ELSE node])
\* A variant: a nested object or array is left without giving its level back.
LeaveRaised(i, node) == UNCHANGED depth /\ Go(i, Receive(Below, node))
\* leave: an object or an array is read, up to token i.
Leave(i, node) == depth' = depth - 1 /\ Go(i, Receive(Below, node))

(* ------------------------------- documents ----------------------------- *)
ParseInit == at = 1 /\ depth = 0 /\ stack = <<>> /\ result = NoNode /\ parsing = "off"

\* A document is an array, fields without braces, or objects in braces which
\* fields without may follow.  The shape of the root is what it expects next.
Begin ==
    /\ parsing = "off" /\ lexing = "done"
    /\ parsing' = "on" /\ at' = Skip(1)
    /\ stack' = << Root(CASE Kind(Skip(1)) = "{" -> "objects"
                          [] Kind(Skip(1)) = "[" -> "array"
                          [] OTHER               -> "fields") >>
    /\ UNCHANGED <<lexer, depth, result>>

Expect(shape) == Replace(stack, [Top EXCEPT !.shape = shape])
BeginArray  == In("root") /\ Top.shape = "array" /\ Enter(at + 1, Expect("end"), ArrayFrame)
BeginFields == In("root") /\ Top.shape = "fields" /\ Enter(at, Expect("nothing"), ObjectFrame(FALSE))
BeginObject ==
    /\ In("root") /\ Top.shape = "objects" /\ Kind(Skip(at)) = "{"
    /\ Enter(Skip(at) + 1, stack, ObjectFrame(TRUE))
\* A variant: the loop goes on after the fields without braces.
BeginRestAgain ==
    /\ In("root") /\ Top.shape = "objects" /\ Kind(Skip(at)) \notin {"{", "eof"}
    /\ Enter(Skip(at), stack, ObjectFrame(FALSE))
BeginRest ==
    /\ In("root") /\ Top.shape = "objects" /\ Kind(Skip(at)) \notin {"{", "eof"}
    /\ Enter(Skip(at), Expect("end"), ObjectFrame(FALSE))

\* After fields without braces nothing is looked at.
Finish ==
    /\ In("root")
    /\ Top.shape = "nothing" \/ (Top.shape \in {"objects", "end"} /\ Kind(Skip(at)) = "eof")
    /\ parsing' = "done" /\ result' = Top.node
    /\ UNCHANGED <<lexer, at, depth, stack>>
Leftover ==
    /\ In("root") /\ Top.shape = "end" /\ Kind(Skip(at)) # "eof"
    /\ Refuse("unexpected token after the root")

(* ------------------------------- includes ------------------------------ *)
\* Parentheses are not separators for the lexer: required(file( is one word.
Opens(word, name) == Begins(word, <<name, "(">>)
Form(word) == CASE Opens(word, "file") \/ word = <<"file">> -> "file"
                [] Opens(word, "package")                  -> "package"
                [] OTHER                                   -> "none"

Required(i) == Word(i) = <<"required">> \/ Opens(Word(i), "required")
\* Past required(, with what the same word opens after it.
AfterRequired(i) ==
    IF Opens(Word(i), "required")
    THEN [to |-> i + 1, form |-> Form(SubSeq(Word(i), 3, Len(Word(i))))]
    ELSE CASE Word(i + 1) = <<"(">> -> [to |-> i + 2, form |-> "none"]
           [] Len(Word(i + 1)) > 1 /\ Begins(Word(i + 1), <<"(">>) /\ Form(Tail(Word(i + 1))) # "none" ->
                [to |-> i + 2, form |-> Form(Tail(Word(i + 1)))]
           [] OTHER -> [to |-> i + 1, form |-> "none"]

Directive(field, to) == [error |-> "none", field |-> field, to |-> to]
Malformed(error)     == [error |-> error, field |-> NoNode, to |-> 0]

\* validate_package_file_arg.
ValidPackageFile(path) ==
    /\ path # <<>> /\ ~\E i \in DOMAIN path : path[i] = Backslash
    /\ \A i \in DOMAIN Split(path, "/") : Split(path, "/")[i] \notin {<<>>, <<".">>, <<".", ".">>}

\* package("id", "file"), from its arguments on.
PackageArguments(i, required) ==
    CASE Kind(i) # "quoted" \/ Value(i) = <<>> -> Malformed("expected an identifier")
      [] Kind(i) = "quoted" /\ Value(i) # <<>> /\ Kind(i + 1) # "," -> Malformed("expected two arguments")
      [] OTHER ->
           IF Kind(i + 2) # "quoted" \/ ~ValidPackageFile(Value(i + 2)) THEN Malformed("expected a file")
           ELSE IF ~Begins(Word(i + 3), <<")">>) THEN Malformed("expected )")
           ELSE Directive(PackageInclude(Value(i), Value(i + 2), required), i + 4)

\* file("path"): whatever stands before the path is passed over.
FirstQuoted(i) == CHOOSE j \in i .. Len(tokens) + 1 :
                    /\ Kind(j) \in {"quoted", "eof"}
                    /\ \A k \in i .. j - 1 : Kind(k) \notin {"quoted", "eof"}
Closes(i)   == Word(i) # <<>> /\ AllIn(Word(i), {")"})
PastClosing(i) == CHOOSE j \in i .. Len(tokens) + 1 : ~Closes(j) /\ \A k \in i .. j - 1 : Closes(k)
FileArgument(i, required) ==
    CASE Kind(FirstQuoted(i)) = "eof" -> Malformed("expected include path")
      [] Kind(FirstQuoted(i)) = "quoted" /\ ~Closes(FirstQuoted(i) + 1) -> Malformed("expected )")
      [] OTHER -> Directive(Include(Value(FirstQuoted(i)), required, TRUE),
                            PastClosing(FirstQuoted(i) + 1))

\* parse_include, from the token after the word include on.
ReadInclude(i) ==
    LET open   == IF Required(i) THEN AfterRequired(i) ELSE [to |-> i, form |-> "none"]
        j      == open.to
        spaced == open.form # "package" /\ Word(j) = <<"package">>
    IN  CASE open.form = "package" -> PackageArguments(j, Required(i))
          [] open.form # "package" /\ Opens(Word(j), "package") -> PackageArguments(j + 1, Required(i))
          [] spaced -> IF Begins(Word(j + 1), <<"(">>) THEN PackageArguments(j + 2, Required(i))
                       ELSE Malformed("expected (")
          [] OTHER ->
               IF Kind(j) = "quoted"
               THEN Directive(Include(Value(j), Required(i), FALSE),
                              IF Required(i) /\ Begins(Word(j + 1), <<")">>) THEN j + 2 ELSE j + 1)
               ELSE IF open.form = "file" THEN FileArgument(j, Required(i))
               ELSE IF Form(Word(j)) = "file" THEN FileArgument(j + 1, Required(i))
               ELSE Malformed("expected include path")

(* -------------------------------- objects ------------------------------ *)
AtInclude(i) == Word(i) = <<"include">>
ObjectKey ==
    /\ In("object") /\ Kind(Skip(at)) \notin {"eof", "}"} /\ ~AtInclude(Skip(at))
    /\ Go(Skip(at), Append(stack, KeyFrame(Skip(at)))) /\ UNCHANGED depth
ObjectEnd ==
    /\ In("object") /\ Kind(Skip(at)) \in {"eof", "}"}
    /\ IF ~Top.braced THEN Leave(Skip(at), Object(Top.fields))
       ELSE IF Kind(Skip(at)) = "}" THEN Leave(Skip(at) + 1, Object(Top.fields))
       ELSE Refuse("expected }")
ObjectInclude ==
    /\ In("object") /\ AtInclude(Skip(at))
    /\ \E d \in {ReadInclude(Skip(Skip(at) + 1))} :
           IF d.error = "none"
           THEN /\ Go(SkipSeparator(d.to), Replace(stack, [Top EXCEPT !.fields = Append(@, d.field)]))
                /\ UNCHANGED depth
           ELSE Refuse(d.error)

(* --------------------------------- keys -------------------------------- *)
\* What the turn of the loop does after it has taken a piece of the key, up to
\* token i: dot when the piece ends in a period that needs a continuation.
KeyGoesOn(segments, dot, i) ==
    LET dotted == ~dot /\ Word(i) = <<".">> /\ ~HasSpace(i)
        next   == IF dotted THEN i + 1 ELSE i
        more   == \/ dot \/ dotted
                  \/ Begins(Word(i), <<".">>) /\ ~HasSpace(i)
                  \/ IsName(i) /\ HasSpace(i)
    IN  /\ Go(next, Replace(stack, [Top EXCEPT
              !.segments = segments, !.dot = dot \/ dotted, !.more = more,
              !.concat = ~dot /\ IsName(i) /\ HasSpace(i),
              !.prefix = IF (dot \/ dotted) /\ IsName(next) THEN Blanks(next) ELSE <<>>]))
        /\ UNCHANGED depth

\* The key so far with text at its end.
Extend(segments, text) == Replace(segments, segments[Len(segments)] \o text)

KeyQuoted ==
    /\ In("key") /\ Top.more /\ Kind(at) = "quoted"
    /\ KeyGoesOn(IF Top.concat /\ Top.segments # <<>>
                 THEN Extend(Top.segments, Blanks(at) \o Value(at))
                 ELSE Append(Top.segments, Top.prefix \o Value(at)), FALSE, at + 1)

\* The empty pieces of a token that do not stand for a separator.
EmptySegment(pieces, first) ==
    \E i \in DOMAIN pieces :
        /\ pieces[i] = <<>>
        /\ ~(i = 1 /\ ~first) /\ ~(i = Len(pieces) /\ i # 1)
NonEmpty(s) == s # <<>>

KeyUnquoted ==
    /\ In("key") /\ Top.more /\ Kind(at) = "unquoted"
    /\ LET text   == Value(at)
           pieces == Split(text, ".")
           new    == SelectSeq(pieces, NonEmpty)
           dotted == Begins(text, <<".">>)
       IN  IF EmptySegment(pieces, Top.segments = <<>>) THEN Refuse("empty key segment")
           ELSE IF ReservedPlus(text) THEN Refuse("reserved character '+'")
           ELSE KeyGoesOn(
                  CASE Top.concat /\ Top.segments # <<>> ->
                         IF dotted \/ new = <<>> THEN Extend(Top.segments, Blanks(at)) \o new
                         ELSE Extend(Top.segments, Blanks(at) \o Head(new)) \o Tail(new)
                    [] ~Top.concat /\ Top.prefix # <<>> /\ dotted ->
                         Append(Top.segments, Top.prefix) \o new
                    [] ~Top.concat /\ Top.prefix # <<>> /\ ~dotted /\ new # <<>> ->
                         Append(Top.segments, Top.prefix \o Head(new)) \o Tail(new)
                    [] OTHER -> Top.segments \o new,
                  EndsIn(text, "."), at + 1)

\* 1+= 2: the + belongs to the run of number characters.
FusedPlus(i) ==
    /\ Kind(i) = "+=" /\ Blanks(i) = <<>>
    /\ StartsLikeNumber(Word(i - 1)) /\ AllIn(Word(i - 1), NumberChar)

KeyError ==
    LET sep == Skip(at) IN
    CASE Top.segments = <<>> -> "expected key"
      [] Top.segments # <<>> /\ Top.dot -> "path has a trailing period"
      [] /\ Top.segments # <<>> /\ ~Top.dot
         /\ Kind(Top.first) # "quoted" /\ Top.segments[1] = <<"include">> -> "include is reserved"
      [] OTHER -> IF FusedPlus(sep) THEN "reserved character '+'"
                  ELSE IF Kind(sep) \in {"=", ":", "+=", "{", "eof"} THEN "none"
                  ELSE "unexpected token after key"

\* The key ends; its separator is read and its value begins.
KeyEnd ==
    /\ In("key") /\ ~(Top.more /\ IsName(at))
    /\ IF KeyError # "none" THEN Refuse(KeyError)
       ELSE LET sep    == Skip(at)
                object == [Below[Len(Below)] EXCEPT !.key = Top.segments, !.append = (Kind(sep) = "+=")]
            IN  /\ Go(Skip(IF Kind(sep) \in {"=", ":", "+="} THEN sep + 1 ELSE sep),
                      Append(Replace(Below, object), ValueFrame))
                /\ UNCHANGED depth

(* -------------------------------- values ------------------------------- *)
\* The parts of the value, with the blanks before token i.
Spaced(i) ==
    IF HasSpace(i) /\ Top.parts # <<>>
    THEN Append(Top.parts, Separator(IF Blanks(i) = <<>> THEN <<" ">> ELSE Blanks(i)))
    ELSE Top.parts
Part(node) ==
    /\ Go(at + 1, Replace(stack, [Top EXCEPT !.parts = Append(Spaced(at), node)]))
    /\ UNCHANGED depth

ValueNested ==
    /\ In("value") /\ Kind(at) \in {"{", "["}
    /\ Enter(at + 1, Replace(stack, [Top EXCEPT !.parts = Spaced(at)]),
             IF Kind(at) = "{" THEN ObjectFrame(TRUE) ELSE ArrayFrame)
ValueScalar ==
    /\ In("value")
    /\ \/ Kind(at) \in {"quoted", "triple"} /\ Part(Scalar("string", Value(at)))
       \/ Kind(at) \in {":", "="} /\ Top.parts # <<>> /\ Part(Scalar("string", Value(at)))
       \/ Kind(at) = "subst" /\ Part(Substitution(tokens[at].subst))
       \/ /\ Kind(at) = "unquoted"
          /\ IF ScalarError(Value(at)) # "none" THEN Refuse(ScalarError(Value(at)))
             ELSE Part(Scalar(ScalarType(Value(at)), Value(at)))

\* Values and the separator after them.
ValueEnd ==
    /\ In("value")
    /\ \/ Kind(at) \in {"eof", "newline", "}", "]", ",", "+="}
       \/ Kind(at) \in {":", "="} /\ Top.parts = <<>>
    /\ IF Top.parts = <<>> THEN Refuse("expected value")
       ELSE /\ Go(SkipSeparator(at),
                  Receive(Below, IF Len(Top.parts) = 1 THEN Top.parts[1] ELSE Concat(Top.parts)))
            /\ UNCHANGED depth

(* -------------------------------- arrays ------------------------------- *)
ArrayItem ==
    /\ In("array") /\ Kind(Skip(at)) \notin {"eof", "]"}
    /\ Go(Skip(at), Append(stack, ValueFrame)) /\ UNCHANGED depth
ArrayEnd ==
    /\ In("array") /\ Kind(Skip(at)) \in {"eof", "]"}
    /\ IF Kind(Skip(at)) = "]" THEN Leave(Skip(at) + 1, Array(Top.items))
       ELSE Refuse("expected ]")

ParseStep ==
    \/ Begin \/ BeginArray \/ BeginFields \/ BeginObject \/ BeginRest \/ Finish \/ Leftover
    \/ ObjectKey \/ ObjectEnd \/ ObjectInclude
    \/ KeyQuoted \/ KeyUnquoted \/ KeyEnd
    \/ ValueNested \/ ValueScalar \/ ValueEnd \/ ArrayItem \/ ArrayEnd

Init == LexInit /\ ParseInit
Next == (LexStep /\ UNCHANGED parser) \/ ParseStep
Spec == Init /\ [][Next]_vars /\ WF_vars(Next)
=============================================================================
